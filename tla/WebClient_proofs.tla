--------------------------- MODULE WebClient_proofs ---------------------------
(***************************************************************************)
(* What holds of the web client: of the voice session for any number of    *)
(* turns and replies at a time, and any bounds on retries, failures and    *)
(* clicks; and of each of its pages for any tickers, reports, questions,   *)
(* values, recordings, and bounds.                                         *)
(***************************************************************************)
EXTENDS MCWebClient, Sequences, SequenceTheorems, TLAPS

(***************************************************************************)
(* Types                                                                   *)
(***************************************************************************)

Turn == [phase : Phases, mic : BOOLEAN, timer : BOOLEAN, stale : BOOLEAN]

LEMMA NoTurnIsTurn == NoTurn \in Turn
BY DEF NoTurn, Turn, Phases

LEMMA RemainsTurn == \A r \in Turn : Remains(r) \in Turn
BY NoTurnIsTurn DEF Remains

\* What the hooks do leaves turns turns.
LEMMA TeardownTurns ==
  ASSUME NEW ts \in [Turns -> Turn]
  PROVE  Teardown(ts) \in [Turns -> Turn]
<1>1. ASSUME NEW t \in Turns
      PROVE  [ts[t] EXCEPT !.mic = @ /\ t # stream, !.timer = @ /\ t # link,
                           !.phase = IF t = link /\ @ \in Connected THEN "over" ELSE @] \in Turn
  <2>1. ts[t] \in Turn
    OBVIOUS
  <2> QED
    BY <2>1 DEF Turn, Phases
<1> QED
  BY <1>1, RemainsTurn DEF Teardown

LEMMA EndTurnType ==
  ASSUME TypeOK, NEW ts \in [Turns -> Turn], EndTurn(ts)
  PROVE  /\ turns' \in [Turns -> Turn] /\ turn' \in {None, turn} /\ turn' = None
         /\ stream' \in {None, stream} /\ link' \in {None, link} /\ overtaken' \in BOOLEAN
<1>1. CASE turn = None
  BY <1>1, RemainsTurn DEF EndTurn, TypeOK
<1>2. CASE turn # None
  BY <1>2, TeardownTurns DEF EndTurn, TypeOK
<1> QED
  BY <1>1, <1>2

LEMMA StartTurnType ==
  ASSUME TypeOK, NEW stale \in BOOLEAN, StartTurn(stale)
  PROVE  /\ turns' \in [Turns -> Turn] /\ turn' \in Turns /\ unanswered' \in BOOLEAN
<1>1. CASE turn # None
  BY <1>1 DEF StartTurn, TypeOK, Turn
<1>2. CASE turn = None
  <2>1. PICK t \in Turns : /\ turns[t] = NoTurn /\ turn' = t
                           /\ turns' = [turns EXCEPT ![t] = [@ EXCEPT !.phase = "asking",
                                                                      !.stale = stale]]
    BY <1>2 DEF StartTurn
  <2>2. [NoTurn EXCEPT !.phase = "asking", !.stale = stale] \in Turn
    BY DEF NoTurn, Turn, Phases
  <2> QED
    BY <1>2, <2>1, <2>2 DEF StartTurn, TypeOK, Turn
<1> QED
  BY <1>1, <1>2

LEMMA StopSpeakingType ==
  ASSUME TypeOK, StopSpeaking
  PROVE  speaker' = None /\ audio' = None /\ audible' \subseteq Replies
BY DEF StopSpeaking, TypeOK

\* Of functions whose arguments are truth values
LEMMA Updated ==
  ASSUME NEW S, NEW T, NEW f \in [S -> T], NEW s \in S, NEW x \in T
  PROVE  [f EXCEPT ![s] = x] \in [S -> T] /\ [f EXCEPT ![s] = x][s] = x
OBVIOUS

LEMMA RetryPlanned ==
  ASSUME TypeOK, NEW s \in BOOLEAN
  PROVE  /\ retries[s] \in Nat
         /\ [retries EXCEPT ![s] = @ + 1] \in [BOOLEAN -> Nat]
         /\ [retries EXCEPT ![s] = @ + 1][s] > 0
         /\ retries[s] > 0 => [retries EXCEPT ![s] = @ - 1] \in [BOOLEAN -> Nat]
<1>1. retries \in [BOOLEAN -> Nat]
  BY DEF TypeOK
<1>2. retries[s] \in Nat
  BY <1>1, Zenon
<1>3. \A x \in Nat : [retries EXCEPT ![s] = x] \in [BOOLEAN -> Nat]
                     /\ [retries EXCEPT ![s] = x][s] = x
  BY <1>1, Updated, Zenon
<1>4. \A n \in Nat : n + 1 \in Nat /\ n + 1 > 0 /\ (n > 0 => n - 1 \in Nat)
  OBVIOUS
<1>5. retries[s] + 1 \in Nat /\ retries[s] + 1 > 0 /\ (retries[s] > 0 => retries[s] - 1 \in Nat)
  BY <1>2, <1>4, Zenon
<1> QED
  BY <1>2, <1>3, <1>5, Zenon

\* The streak of errors is capped by ending the session.
LEMMA MicErrorType ==
  ASSUME TypeOK, NEW stale \in BOOLEAN, MicError(stale)
  PROVE  /\ session' \in BOOLEAN /\ retries' \in [BOOLEAN -> Nat]
         /\ streak' \in 0..(IF session' THEN MaxRetries ELSE MaxRetries + 1)
         /\ speaker' \in Replies \cup {None} /\ audio' \in Replies \cup {None}
         /\ audible' \subseteq Replies
<1>1. CASE turn = None \/ ~session
  BY <1>1 DEF MicError, TypeOK, speech
<1>2. CASE turn # None /\ session /\ streak < MaxRetries
  <2>1. retries' = [retries EXCEPT ![stale] = @ + 1] /\ streak' = streak + 1
        /\ UNCHANGED <<session, speech>>
    BY <1>2 DEF MicError
  <2>2. retries' \in [BOOLEAN -> Nat]
    BY <2>1, RetryPlanned, Zenon
  <2>3. streak' \in 0..MaxRetries
    BY <1>2, <2>1, BoundsAssumption DEF TypeOK
  <2> QED
    BY <1>2, <2>1, <2>2, <2>3 DEF TypeOK, speech
<1>3. CASE turn # None /\ session /\ ~(streak < MaxRetries)
  <2>1. session' = FALSE /\ StopSpeaking /\ UNCHANGED retries /\ streak' = streak + 1
    BY <1>3 DEF MicError
  <2>2. streak' \in 0..(MaxRetries + 1)
    BY <1>3, <2>1, BoundsAssumption DEF TypeOK
  <2> QED
    BY <2>1, <2>2, StopSpeakingType DEF TypeOK
<1> QED
  BY <1>1, <1>2, <1>3

LEMMA FailTurnType ==
  ASSUME TypeOK, NEW t \in Turns, NEW ts \in [Turns -> Turn], FailTurn(t, ts)
  PROVE  TypeOK'
<1>1. /\ EndTurn(ts) /\ MicError(turns[t].stale) /\ Fault
      /\ UNCHANGED <<mounted, sending, reply, pipeline, page, unanswered, missed, clicks>>
  BY DEF FailTurn
<1>2. turns[t].stale \in BOOLEAN /\ faults' \in 0..MaxFaults
  BY <1>1, BoundsAssumption DEF TypeOK, Fault
<1>3. /\ session' \in BOOLEAN /\ retries' \in [BOOLEAN -> Nat]
      /\ streak' \in 0..(IF session' THEN MaxRetries ELSE MaxRetries + 1)
      /\ speaker' \in Replies \cup {None} /\ audio' \in Replies \cup {None}
      /\ audible' \subseteq Replies
  BY <1>1, <1>2, MicErrorType
<1>4. /\ turns' \in [Turns -> Turn] /\ turn' = None
      /\ stream' \in {None, stream} /\ link' \in {None, link} /\ overtaken' \in BOOLEAN
  BY <1>1, EndTurnType
<1> QED
  BY <1>1, <1>2, <1>3, <1>4 DEF TypeOK, page, Turn

LEMMA SendMessageType ==
  ASSUME TypeOK, SendMessage
  PROVE  reply' \in [Replies -> {"none", "asking", "speaking", "closing"}] /\ sending' = TRUE
BY DEF SendMessage, TypeOK

LEMMA AfterReplyType ==
  ASSUME TypeOK, NEW r \in Replies, NEW ending \in BOOLEAN, AfterReply(r, ending)
  PROVE  /\ reply' \in [Replies -> {"none", "asking", "speaking", "closing"}] /\ sending' = FALSE
         /\ session' \in BOOLEAN /\ (session' => session)
         /\ turns' \in [Turns -> Turn] /\ turn' \in Turns \cup {None}
         /\ stream' \in Turns \cup {None} /\ link' \in Turns \cup {None}
         /\ overtaken' \in BOOLEAN /\ unanswered' \in BOOLEAN
<1>1. reply' \in [Replies -> {"none", "asking", "speaking", "closing"}] /\ sending' = FALSE
  BY DEF AfterReply, TypeOK
<1>2. CASE ending
  BY <1>1, <1>2, EndTurnType DEF AfterReply, TypeOK, Turn
<1>3. CASE ~ending /\ session
  BY <1>1, <1>3, StartTurnType DEF AfterReply, TypeOK, Turn
<1>4. CASE ~ending /\ ~session
  BY <1>1, <1>4 DEF AfterReply, TypeOK, Turn
<1> QED
  BY <1>2, <1>3, <1>4

LEMMA OpenSessionType ==
  ASSUME TypeOK, NEW stale \in BOOLEAN, OpenSession(stale)
  PROVE  /\ session' = TRUE /\ streak' = 0
         /\ turns' \in [Turns -> Turn] /\ turn' \in Turns /\ unanswered' \in BOOLEAN
         /\ UNCHANGED <<mounted, retries, sending, reply, pipeline, speech, stream, link,
                        overtaken, missed, faults>>
BY StartTurnType DEF OpenSession

\* A streak within its cap stays so when it starts over or the session ends.
LEMMA StreakKept ==
  ASSUME TypeOK
  PROVE  /\ \A b \in BOOLEAN : 0 \in 0..(IF b THEN MaxRetries ELSE MaxRetries + 1)
         /\ \A b \in BOOLEAN : (b => session) =>
              streak \in 0..(IF b THEN MaxRetries ELSE MaxRetries + 1)
<1>1. MaxRetries \in Nat /\ session \in BOOLEAN
  BY BoundsAssumption DEF TypeOK
<1>2. CASE session
  BY <1>1, <1>2 DEF TypeOK
<1>3. CASE ~session
  BY <1>1, <1>3 DEF TypeOK
<1> QED
  BY <1>2, <1>3

LEMMA TypeInit == Init => TypeOK
<1> SUFFICES ASSUME Init PROVE TypeOK
  OBVIOUS
<1>1. retries \in [BOOLEAN -> Nat]
  BY DEF Init
<1>2. turns \in [Turns -> Turn]
  BY NoTurnIsTurn DEF Init
<1>3. streak \in 0..(IF session THEN MaxRetries ELSE MaxRetries + 1)
  BY BoundsAssumption DEF Init
<1>4. faults \in 0..MaxFaults /\ clicks \in 0..MaxClicks
  BY BoundsAssumption DEF Init
<1>5. reply \in [Replies -> {"none", "asking", "speaking", "closing"}]
      /\ pipeline \in [Replies -> {"none", "fetching", "playing"}]
  BY DEF Init
<1> QED
  BY <1>1, <1>2, <1>3, <1>4, <1>5 DEF Init, TypeOK, Turn

\* A turn changed in one of its fields is a turn.
LEMMA TurnMoves ==
  ASSUME TypeOK, NEW t \in Turns, NEW r \in Turn
  PROVE  [turns EXCEPT ![t] = r] \in [Turns -> Turn]
BY DEF TypeOK, Turn

LEMMA MicrophoneType ==
  ASSUME TypeOK, NEW t \in Turns,
         \/ MicGranted(t) \/ StartFails(t) \/ OpenLink(t) \/ Ready(t)
         \/ Transcript(t) \/ LinkCloses(t) \/ TurnTimesOut(t)
  PROVE  TypeOK'
<1>1. turns[t] \in Turn /\ turns \in [Turns -> Turn]
  BY DEF TypeOK, Turn
<1>2. CASE MicGranted(t)
  <2>1. [turns[t] EXCEPT !.phase = "token", !.mic = TRUE] \in Turn
    BY <1>1 DEF Turn, Phases
  <2>2. turns' \in [Turns -> Turn]
    BY <1>2, <2>1, TurnMoves DEF MicGranted
  <2> QED
    BY <1>2, <2>2 DEF MicGranted, TypeOK, Turn, assistant, speech, page, history
<1>3. CASE StartFails(t)
  <2>1. [turns[t] EXCEPT !.phase = "over"] \in Turn
    BY <1>1 DEF Turn, Phases
  <2>2. [turns EXCEPT ![t].phase = "over"] \in [Turns -> Turn]
    BY <2>1, TurnMoves
  <2> QED
    BY <1>3, <2>2, FailTurnType DEF StartFails
<1>4. CASE OpenLink(t)
  <2>1. [turns[t] EXCEPT !.phase = "linked", !.timer = TRUE] \in Turn
    BY <1>1 DEF Turn, Phases
  <2>2. turns' \in [Turns -> Turn]
    BY <1>4, <2>1, TurnMoves DEF OpenLink
  <2> QED
    BY <1>4, <2>2 DEF OpenLink, TypeOK, Turn, assistant, speech, page, history
<1>5. CASE Ready(t)
  <2>1. [turns[t] EXCEPT !.phase = "recording"] \in Turn
    BY <1>1 DEF Turn, Phases
  <2>2. turns' \in [Turns -> Turn]
    BY <1>5, <2>1, TurnMoves DEF Ready
  <2> QED
    BY <1>5, <2>2, StopSpeakingType DEF Ready, TypeOK, Turn, assistant, page, history
<1>6. CASE Transcript(t)
  <2>1. /\ turns' \in [Turns -> Turn] /\ turn' = None
        /\ stream' \in {None, stream} /\ link' \in {None, link} /\ overtaken' \in BOOLEAN
    BY <1>1, <1>6, EndTurnType DEF Transcript
  <2>2. /\ reply' \in [Replies -> {"none", "asking", "speaking", "closing"}]
        /\ sending' \in BOOLEAN /\ unanswered' \in BOOLEAN
        /\ streak' \in 0..(IF session THEN MaxRetries ELSE MaxRetries + 1)
    <3>1. session \in BOOLEAN /\ unanswered \in BOOLEAN /\ (streak' = 0 \/ streak' = streak)
      BY <1>6 DEF Transcript, TypeOK
    <3>2. streak' \in 0..(IF session THEN MaxRetries ELSE MaxRetries + 1)
      BY <3>1, StreakKept
    <3>3. CASE unanswered' = TRUE /\ UNCHANGED <<reply, sending>>
      BY <3>2, <3>3 DEF TypeOK
    <3>4. CASE SendMessage /\ UNCHANGED unanswered
      BY <3>1, <3>2, <3>4, SendMessageType
    <3> QED
      BY <1>6, <3>3, <3>4 DEF Transcript
  <2> QED
    BY <1>6, <2>1, <2>2 DEF Transcript, TypeOK, Turn, speech, page
<1>7. CASE LinkCloses(t)
  <2>1. [turns[t] EXCEPT !.phase = "over"] \in Turn
    BY <1>1 DEF Turn, Phases
  <2>2. [turns EXCEPT ![t].phase = "over"] \in [Turns -> Turn]
    BY <2>1, TurnMoves
  <2> QED
    BY <1>7, <2>2, FailTurnType DEF LinkCloses
<1>8. CASE TurnTimesOut(t)
  <2>1. [turns[t] EXCEPT !.timer = FALSE] \in Turn
    BY <1>1 DEF Turn
  <2>2. [turns EXCEPT ![t].timer = FALSE] \in [Turns -> Turn]
    BY <2>1, TurnMoves
  <2> QED
    BY <1>8, <2>2, FailTurnType DEF TurnTimesOut
<1> QED
  BY <1>2, <1>3, <1>4, <1>5, <1>6, <1>7, <1>8

LEMMA RetryType ==
  ASSUME TypeOK, NEW s \in BOOLEAN, RetryFires(s)
  PROVE  TypeOK'
<1>1. retries' \in [BOOLEAN -> Nat]
  BY RetryPlanned, Zenon DEF RetryFires
<1>2. turns' \in [Turns -> Turn] /\ turn' \in Turns \cup {None} /\ unanswered' \in BOOLEAN
  <2>1. CASE session
    BY <2>1, StartTurnType DEF RetryFires
  <2>2. CASE ~session
    BY <2>2 DEF RetryFires, TypeOK, Turn
  <2> QED
    BY <2>1, <2>2
<1> QED
  BY <1>1, <1>2 DEF RetryFires, TypeOK, Turn, speech, page

LEMMA AfterReplyKeepsType ==
  ASSUME TypeOK, NEW r \in Replies, NEW ending \in BOOLEAN, AfterReply(r, ending),
         UNCHANGED <<pipeline, speech>>,
         UNCHANGED <<mounted, streak, retries, page, missed, faults, clicks>>
  PROVE  TypeOK'
<1>1. streak' \in 0..(IF session' THEN MaxRetries ELSE MaxRetries + 1)
  BY AfterReplyType, StreakKept
<1> QED
  BY <1>1, AfterReplyType, ZenonT(40) DEF TypeOK, Turn, speech, page

LEMMA ReplyType ==
  ASSUME TypeOK, NEW r \in Replies,
         Answered(r) \/ SpeechOver(r) \/ SentenceReady(r) \/ SentenceEnds(r)
  PROVE  TypeOK'
<1>1. CASE Answered(r)
  <2>1. CASE UNCHANGED <<pipeline, speech>>
             /\ \E ending \in BOOLEAN : AfterReply(r, ending) /\ (session => ~ending)
    <3>1. PICK ending \in BOOLEAN : AfterReply(r, ending)
      BY <2>1
    <3>2. UNCHANGED <<mounted, streak, retries, page, missed, faults, clicks>>
      BY <1>1 DEF Answered
    <3> QED
      BY <2>1, <3>1, <3>2, AfterReplyKeepsType
  <2>2. CASE /\ \E ending \in BOOLEAN :
                  reply' = [reply EXCEPT ![r] = IF ending THEN "closing" ELSE "speaking"]
             /\ speaker' = r /\ audio' = None /\ audible' = audible \ {audio}
             /\ pipeline' = [pipeline EXCEPT ![r] = "fetching"]
             /\ UNCHANGED <<session, sending, mic, overtaken, unanswered>>
    BY <1>1, <2>2 DEF Answered, TypeOK, mic, page
  <2> QED
    BY <1>1, <2>1, <2>2 DEF Answered
<1>2. CASE SpeechOver(r)
  BY <1>2, AfterReplyKeepsType DEF SpeechOver
<1>3. CASE SentenceReady(r)
  BY <1>3 DEF SentenceReady, NextSentence, TypeOK, assistant, speech, mic, page, history
<1>4. CASE SentenceEnds(r)
  BY <1>4 DEF SentenceEnds, NextSentence, TypeOK, assistant, mic, page, history
<1> QED
  BY <1>1, <1>2, <1>3, <1>4

LEMMA UserType ==
  ASSUME TypeOK,
         \/ Type \/ TapStart \/ TapEnd \/ Interrupt \/ Leave
         \/ EnableListener \/ ListenerMoves \/ WakeDetected \/ Rendered
  PROVE  TypeOK'
<1>1. turns \in [Turns -> Turn]
  BY DEF TypeOK, Turn
<1>2. Click => clicks' \in 0..MaxClicks
  BY BoundsAssumption DEF Click, TypeOK
<1>3. CASE Type
  <2>1. reply' \in [Replies -> {"none", "asking", "speaking", "closing"}] /\ sending' \in BOOLEAN
    BY <1>3, SendMessageType DEF Type
  <2> QED
    BY <1>2, <1>3, <2>1 DEF Type, TypeOK, speech, mic, page, history
<1>4. ASSUME NEW stale \in BOOLEAN, OpenSession(stale), Click,
             paused' \in BOOLEAN, UNCHANGED <<listener, listenerStale, rendered>>
      PROVE  TypeOK'
  <2>1. streak' \in 0..(IF session' THEN MaxRetries ELSE MaxRetries + 1)
    BY <1>4, OpenSessionType, StreakKept
  <2> QED
    BY <1>2, <1>4, <2>1, OpenSessionType, ZenonT(40) DEF TypeOK, speech, Turn
<1>5. CASE TapStart
  BY <1>4, <1>5 DEF TapStart, TypeOK, page
<1>6. CASE WakeDetected
  BY <1>4, <1>6 DEF WakeDetected, TypeOK
<1>7. CASE TapEnd
  <2>1. streak' \in 0..(IF session' THEN MaxRetries ELSE MaxRetries + 1)
    BY <1>7, StreakKept DEF TapEnd
  <2> QED
    BY <1>1, <1>7, <2>1, EndTurnType, StopSpeakingType DEF TapEnd, TypeOK, Turn, page
<1>8. CASE Interrupt
  BY <1>8, StopSpeakingType DEF Interrupt, TypeOK, assistant, mic, page, history
<1>9. CASE Leave
  BY <1>1, <1>9, EndTurnType, StopSpeakingType DEF Leave, TypeOK, Turn
<1>10. CASE EnableListener
  BY <1>10 DEF EnableListener, TypeOK, assistant, speech, mic
<1>11. CASE ListenerMoves
  BY <1>11 DEF ListenerMoves, TypeOK, assistant, speech, mic, history
<1>12. CASE Rendered
  BY <1>12 DEF Rendered, TypeOK, assistant, speech, mic
<1> QED
  BY <1>3, <1>5, <1>6, <1>7, <1>8, <1>9, <1>10, <1>11, <1>12

LEMMA TypeNext == TypeOK /\ [Next]_vars => TypeOK'
<1> SUFFICES ASSUME TypeOK, [Next]_vars PROVE TypeOK'
  OBVIOUS
<1>1. CASE UNCHANGED vars
  BY <1>1 DEF vars, TypeOK, assistant, speech, mic, page, history
<1> QED
  BY <1>1, MicrophoneType, RetryType, ReplyType, UserType DEF Next

\* The hooks' references and timers, the replies and the listener keep to their types; the
\* streak of microphone errors never passes its cap (handleMicStateChange).
THEOREM TypeCorrect == Spec => []TypeOK
BY TypeInit, TypeNext, PTL DEF Spec

(***************************************************************************)
(* One voice.  What is heard is what audioRef refers to, of the reply whose *)
(* sentence is playing; so that stopping the one stops all there is, and a *)
(* reply that fetches its next sentence is silent.                         *)
(***************************************************************************)

Voiced ==
  /\ audible \subseteq {speaker} \cap {audio}
  /\ \A r \in audible : pipeline[r] = "playing"

LEMMA StopSpeakingSilences == ASSUME Voiced, StopSpeaking PROVE audible' = {}
BY DEF Voiced, StopSpeaking

LEMMA VoicedNext == TypeOK /\ Voiced /\ [Next]_vars => Voiced'
<1> SUFFICES ASSUME TypeOK, Voiced, [Next]_vars PROVE Voiced'
  OBVIOUS
<1>1. ASSUME UNCHANGED <<pipeline, speech>> PROVE Voiced'
  BY <1>1 DEF Voiced, speech
<1>2. ASSUME audible' = {} PROVE Voiced'
  BY <1>2 DEF Voiced
<1>3. ASSUME NEW t \in Turns, NEW ts, FailTurn(t, ts) PROVE Voiced'
  BY <1>1, <1>2, <1>3, StopSpeakingSilences DEF FailTurn, MicError
<1>4. ASSUME NEW t \in Turns, MicGranted(t) \/ OpenLink(t) \/ Transcript(t) PROVE Voiced'
  BY <1>1, <1>4 DEF MicGranted, OpenLink, Transcript
<1>5. ASSUME NEW t \in Turns, StartFails(t) \/ LinkCloses(t) \/ TurnTimesOut(t) PROVE Voiced'
  BY <1>3, <1>5 DEF StartFails, LinkCloses, TurnTimesOut
<1>6. ASSUME NEW t \in Turns, Ready(t) PROVE Voiced'
  BY <1>2, <1>6, StopSpeakingSilences DEF Ready
<1>7. ASSUME NEW s \in BOOLEAN, RetryFires(s) PROVE Voiced'
  BY <1>1, <1>7 DEF RetryFires
<1>8. ASSUME NEW r \in Replies, Answered(r) PROVE Voiced'
  BY <1>1, <1>2, <1>8 DEF Answered, Voiced
<1>9. ASSUME NEW r \in Replies, SpeechOver(r) PROVE Voiced'
  BY <1>1, <1>9 DEF SpeechOver
<1>10. ASSUME NEW r \in Replies, SentenceReady(r) PROVE Voiced'
  <2>1. r \notin audible /\ r # None
    BY <1>10, NoneAssumption DEF SentenceReady, Voiced
  <2>2. CASE speaker # r \/ (audible' = audible /\ NextSentence(r) /\ speaker = r)
    <3>1. pipeline' \in {[pipeline EXCEPT ![r] = x] : x \in {"none", "fetching"}}
      BY <1>10, <2>2 DEF SentenceReady, NextSentence
    <3>2. \A q \in audible : pipeline'[q] = pipeline[q]
      BY <2>1, <3>1 DEF TypeOK
    <3>3. CASE speaker # r
      BY <1>10, <3>2, <3>3 DEF SentenceReady, Voiced, speech
    <3>4. CASE speaker = r
      BY <1>10, <2>1, <2>2, <3>2, <3>4 DEF Voiced
    <3> QED
      BY <3>3, <3>4
  <2>3. CASE speaker = r /\ audible' = audible \cup {r} /\ audio' = r /\ UNCHANGED speaker
             /\ pipeline' = [pipeline EXCEPT ![r] = "playing"]
    BY <2>3 DEF Voiced, TypeOK
  <2> QED
    BY <1>10, <2>2, <2>3 DEF SentenceReady
<1>11. ASSUME NEW r \in Replies, SentenceEnds(r) PROVE Voiced'
  BY <1>11 DEF SentenceEnds, NextSentence, Voiced, TypeOK
<1>12. CASE TapEnd \/ Interrupt \/ Leave
  BY <1>2, <1>12, StopSpeakingSilences DEF TapEnd, Interrupt, Leave
<1>13. CASE Type \/ TapStart \/ EnableListener \/ ListenerMoves \/ WakeDetected \/ Rendered
  BY <1>1, <1>13
  DEF Type, TapStart, OpenSession, EnableListener, ListenerMoves, WakeDetected, Rendered
<1>14. CASE UNCHANGED vars
  BY <1>1, <1>14 DEF vars
<1> QED
  BY <1>4, <1>5, <1>6, <1>7, <1>8, <1>9, <1>10, <1>11, <1>12, <1>13, <1>14 DEF Next

\* However replies, interruptions, ends of sessions and late audio interleave, one reply is
\* heard at a time, the current one, and none once speech was stopped (runSentencePipeline,
\* stopSpeaking).
THEOREM NoTwoVoices == Spec => []OneVoice
<1>1. Init => Voiced
  BY DEF Init, Voiced
<1>2. Voiced => OneVoice
  BY DEF Voiced, OneVoice
<1> QED
  BY <1>1, <1>2, TypeInit, TypeNext, VoicedNext, PTL DEF Spec

(***************************************************************************)
(* Ended turns leave nothing.  As long as no end overtakes a start(), all  *)
(* that the turn under way holds is what the references refer to, so that *)
(* its end lets all of it go; and there is none but the turn under way.    *)
(***************************************************************************)

Held(t) ==
  LET r == turns[t]
  IN  /\ r.phase \in {"asking", "token", "linked", "recording"}
      /\ r.mic => stream = t
      /\ r.timer \/ r.phase \in Connected => link = t

References ==
  ~overtaken => /\ EndedTurnsLeaveNothing
                /\ turn # None => Held(turn)

\* A turn whose fields get the values they have stays the same.
LEMMA SameFields ==
  ASSUME NEW r \in Turn, NEW m, NEW i, NEW p, r.mic = m, r.timer = i, r.phase = p
  PROVE  [r EXCEPT !.mic = m, !.timer = i, !.phase = p] = r
BY DEF Turn

\* The end of a turn that changed in its phase, unless it was waiting, or in its timer.
LEMMA EndLeavesNothing ==
  ASSUME TypeOK, References, NEW ts \in [Turns -> Turn], EndTurn(ts),
         \A t \in Turns :
            /\ turns[t] = NoTurn => ts[t] = NoTurn
            /\ \/ ts[t] = turns[t]
               \/ ts[t] = [turns[t] EXCEPT !.phase = "over"]
               \/ ts[t] = [turns[t] EXCEPT !.timer = FALSE]
  PROVE  References'
<1> SUFFICES ASSUME ~overtaken' PROVE References'
  BY DEF References
<1>1. ~overtaken
  BY DEF EndTurn
<1>2. \A u \in Turns \ {turn} : turns[u] = NoTurn
  BY <1>1 DEF References, EndedTurnsLeaveNothing
<1>3. CASE turn = None
  <2>1. \A u \in Turns : ts[u] = NoTurn
    BY <1>2, <1>3, NoneAssumption
  <2>2. turns' = [u \in Turns |-> Remains(ts[u])] /\ turn' = None
    BY <1>3 DEF EndTurn
  <2>3. Remains(NoTurn) = NoTurn
    BY DEF Remains
  <2>4. \A u \in Turns : turns'[u] = NoTurn
    BY <2>1, <2>2, <2>3
  <2> QED
    BY <2>2, <2>4 DEF References, EndedTurnsLeaveNothing
<1>4. CASE turn # None
  <2>1. turns' = Teardown(ts) /\ turn' = None /\ \A u \in Turns : ts[u].phase \notin Starting
    BY <1>4 DEF EndTurn
  <2>2. turn \in Turns /\ Held(turn)
    BY <1>1, <1>4 DEF References, TypeOK
  <2>3. ASSUME NEW u \in Turns \ {turn} PROVE turns'[u] = NoTurn
    <3>1. ts[u] = NoTurn
      BY <1>2, <2>3
    <3>2. [ts[u] EXCEPT !.mic = @ /\ u # stream, !.timer = @ /\ u # link,
                        !.phase = IF u = link /\ @ \in Connected THEN "over" ELSE @] = NoTurn
      <4> DEFINE held == ts[u].mic /\ u # stream
                 timed == ts[u].timer /\ u # link
                 stage == IF u = link /\ ts[u].phase \in Connected THEN "over" ELSE ts[u].phase
      <4>1. ts[u].mic = FALSE /\ ts[u].timer = FALSE /\ ts[u].phase = "free"
        BY <3>1 DEF NoTurn
      <4>2. held = FALSE /\ timed = FALSE /\ stage = "free"
        BY <4>1 DEF Connected
      <4>3. ts[u] \in Turn
        OBVIOUS
      <4> HIDE DEF held, timed, stage
      <4>4. ts[u].mic = held /\ ts[u].timer = timed /\ ts[u].phase = stage
        BY <4>1, <4>2, Zenon
      <4>5. [ts[u] EXCEPT !.mic = held, !.timer = timed, !.phase = stage] = ts[u]
        BY <4>3, <4>4, SameFields
      <4> QED
        BY <3>1, <4>5 DEF held, timed, stage
    <3> QED
      BY <2>1, <3>2 DEF Teardown, Remains
  <2>4. turns'[turn] = NoTurn
    <3>1. /\ ts[turn] \in Turn
          /\ ts[turn].phase \in {"linked", "recording", "over"}
          /\ ts[turn].mic => stream = turn
          /\ ts[turn].timer \/ ts[turn].phase \in Connected => link = turn
      <4>1. ts[turn] \in Turn /\ turns[turn] \in Turn
        BY <2>2 DEF TypeOK, Turn
      <4>2. CASE ts[turn] = turns[turn]
        BY <2>1, <2>2, <4>1, <4>2 DEF Held, Starting, Turn
      <4>3. CASE ts[turn] = [turns[turn] EXCEPT !.phase = "over"]
        BY <2>1, <2>2, <4>1, <4>3 DEF Held, Starting, Connected, Turn
      <4>4. CASE ts[turn] = [turns[turn] EXCEPT !.timer = FALSE]
        BY <2>1, <2>2, <4>1, <4>4 DEF Held, Starting, Connected, Turn
      <4> QED
        BY <2>2, <4>2, <4>3, <4>4
    <3>2. LET r == [ts[turn] EXCEPT !.mic = @ /\ turn # stream, !.timer = @ /\ turn # link,
                        !.phase = IF turn = link /\ @ \in Connected THEN "over" ELSE @]
          IN  r.phase = "over" /\ ~r.mic /\ ~r.timer
      BY <3>1 DEF Turn, Connected
    <3> QED
      BY <2>1, <2>2, <3>2 DEF Teardown, Remains
  <2> QED
    BY <2>1, <2>2, <2>3, <2>4 DEF References, EndedTurnsLeaveNothing
<1> QED
  BY <1>3, <1>4

LEMMA PlainEnd == ASSUME TypeOK, References, EndTurn(turns) PROVE References'
<1>1. turns \in [Turns -> Turn]
  BY DEF TypeOK, Turn
<1> QED
  BY <1>1, EndLeavesNothing

LEMMA FailureLeavesNothing ==
  ASSUME TypeOK, References, NEW t \in Turns, turns[t] # NoTurn, NEW r \in Turn,
         r = [turns[t] EXCEPT !.phase = "over"] \/ r = [turns[t] EXCEPT !.timer = FALSE],
         EndTurn([turns EXCEPT ![t] = r])
  PROVE  References'
<1> DEFINE ts == [turns EXCEPT ![t] = r]
<1>1. ts \in [Turns -> Turn]
  BY DEF TypeOK, Turn
<1>2. ts[t] = r /\ \A u \in Turns \ {t} : ts[u] = turns[u]
  BY DEF TypeOK
<1>3. \A u \in Turns :
        /\ turns[u] = NoTurn => ts[u] = NoTurn
        /\ \/ ts[u] = turns[u]
           \/ ts[u] = [turns[u] EXCEPT !.phase = "over"]
           \/ ts[u] = [turns[u] EXCEPT !.timer = FALSE]
  <2> HIDE DEF ts
  <2> QED
    BY <1>2
<1> HIDE DEF ts
<1>4. EndTurn(ts)
  BY DEF ts
<1> QED
  BY <1>1, <1>3, <1>4, EndLeavesNothing

\* A turn that starts holds nothing yet.
LEMMA StartHolds ==
  ASSUME TypeOK, References, NEW stale \in BOOLEAN, StartTurn(stale),
         UNCHANGED <<stream, link, overtaken>>
  PROVE  References'
<1>1. CASE turn # None
  BY <1>1 DEF StartTurn, References, EndedTurnsLeaveNothing, Held
<1>2. CASE turn = None /\ ~overtaken
  <2>1. \A t \in Turns : turns[t] = NoTurn
    BY <1>2, NoneAssumption DEF References, EndedTurnsLeaveNothing
  <2>2. PICK t \in Turns : /\ turn' = t
                           /\ turns' = [turns EXCEPT ![t] = [@ EXCEPT !.phase = "asking",
                                                                      !.stale = stale]]
    BY <1>2 DEF StartTurn
  <2>3. \A u \in Turns \ {t} : turns'[u] = NoTurn
    BY <2>1, <2>2 DEF TypeOK
  <2>4. turns'[t].phase = "asking" /\ ~turns'[t].mic /\ ~turns'[t].timer
    <3>1. turns'[t] = [NoTurn EXCEPT !.phase = "asking", !.stale = stale]
      BY <2>1, <2>2 DEF TypeOK
    <3> QED
      BY <3>1 DEF NoTurn
  <2> QED
    BY <2>2, <2>3, <2>4 DEF References, EndedTurnsLeaveNothing, Held, Connected
<1>3. CASE overtaken
  BY <1>3 DEF References
<1> QED
  BY <1>1, <1>2, <1>3

LEMMA AfterReplyReferences ==
  ASSUME TypeOK, References, NEW r \in Replies, NEW ending \in BOOLEAN, AfterReply(r, ending)
  PROVE  References'
<1>1. CASE ending
  BY <1>1, PlainEnd DEF AfterReply
<1>2. CASE ~ending /\ session
  BY <1>2, StartHolds DEF AfterReply
<1>3. CASE ~ending /\ ~session
  BY <1>3 DEF AfterReply, References, EndedTurnsLeaveNothing, Held
<1> QED
  BY <1>1, <1>2, <1>3

LEMMA ReferencesNext == TypeOK /\ References /\ [Next]_vars => References'
<1> SUFFICES ASSUME TypeOK, References, [Next]_vars PROVE References'
  OBVIOUS
<1>1. ASSUME UNCHANGED <<mic, overtaken>> PROVE References'
  BY <1>1 DEF References, EndedTurnsLeaveNothing, Held, mic
<1>2. ASSUME NEW t \in Turns, turns[t].phase # "free" \/ turns[t].timer
      PROVE  turns[t] # NoTurn /\ turns[t] \in Turn /\ (~overtaken => t = turn /\ Held(t))
  BY <1>2, NoneAssumption DEF TypeOK, Turn, NoTurn, References, EndedTurnsLeaveNothing
<1>3. ASSUME NEW t \in Turns, NEW r \in Turn, turns' = [turns EXCEPT ![t] = r],
             turns[t].phase # "free", UNCHANGED <<turn, overtaken>>,
             r.phase \in {"token", "linked", "recording"},
             Held(t) => /\ r.mic => stream' = t
                        /\ r.timer \/ r.phase \in Connected => link' = t
      PROVE  References'
  <2> SUFFICES ASSUME ~overtaken PROVE References'
    BY <1>3 DEF References
  <2>1. t = turn /\ Held(t)
    BY <1>2, <1>3
  <2>2. turns'[t] = r /\ \A u \in Turns \ {t} : turns'[u] = turns[u]
    BY <1>3 DEF TypeOK
  <2> QED
    BY <1>3, <2>1, <2>2 DEF References, EndedTurnsLeaveNothing, Held
<1>4. ASSUME NEW t \in Turns, MicGranted(t) PROVE References'
  <2>1. turns[t].phase = "asking" /\ turns[t] \in Turn
    BY <1>2, <1>4 DEF MicGranted
  <2>2. turns' = [turns EXCEPT ![t] = [turns[t] EXCEPT !.phase = "token", !.mic = TRUE]]
    BY <1>4 DEF MicGranted
  <2> QED
    BY <1>3, <1>4, <2>1, <2>2 DEF MicGranted, Held, Connected, history, Turn, Phases
<1>5. ASSUME NEW t \in Turns, OpenLink(t) PROVE References'
  <2>1. turns[t].phase = "token" /\ turns[t] \in Turn
    BY <1>2, <1>5 DEF OpenLink
  <2>2. turns' = [turns EXCEPT ![t] = [turns[t] EXCEPT !.phase = "linked", !.timer = TRUE]]
    BY <1>5 DEF OpenLink
  <2> QED
    BY <1>3, <1>5, <2>1, <2>2 DEF OpenLink, Held, history, Turn, Phases
<1>6. ASSUME NEW t \in Turns, Ready(t) PROVE References'
  <2>1. turns[t].phase = "linked" /\ turns[t] \in Turn
    BY <1>2, <1>6 DEF Ready
  <2>2. turns' = [turns EXCEPT ![t] = [turns[t] EXCEPT !.phase = "recording"]]
    BY <1>6 DEF Ready
  <2> QED
    BY <1>3, <1>6, <2>1, <2>2 DEF Ready, Held, Connected, history, Turn, Phases
<1>7. ASSUME NEW t \in Turns, StartFails(t) \/ LinkCloses(t) PROVE References'
  <2>1. turns[t] # NoTurn /\ turns[t] \in Turn
    BY <1>2, <1>7 DEF StartFails, LinkCloses, Starting, Connected
  <2>2. EndTurn([turns EXCEPT ![t] = [turns[t] EXCEPT !.phase = "over"]])
    BY <1>7 DEF StartFails, LinkCloses, FailTurn
  <2>3. [turns[t] EXCEPT !.phase = "over"] \in Turn
    BY <2>1 DEF Turn, Phases
  <2> QED
    BY <2>1, <2>2, <2>3, FailureLeavesNothing
<1>8. ASSUME NEW t \in Turns, TurnTimesOut(t) PROVE References'
  <2>1. turns[t] # NoTurn /\ turns[t] \in Turn
    BY <1>2, <1>8 DEF TurnTimesOut
  <2>2. EndTurn([turns EXCEPT ![t] = [turns[t] EXCEPT !.timer = FALSE]])
    BY <1>8 DEF TurnTimesOut, FailTurn
  <2>3. [turns[t] EXCEPT !.timer = FALSE] \in Turn
    BY <2>1 DEF Turn
  <2> QED
    BY <2>1, <2>2, <2>3, FailureLeavesNothing
<1>9. ASSUME NEW t \in Turns, Transcript(t) PROVE References'
  BY <1>9, PlainEnd DEF Transcript
<1>10. ASSUME NEW s \in BOOLEAN, RetryFires(s) PROVE References'
  <2>1. CASE session
    BY <1>10, <2>1, StartHolds DEF RetryFires
  <2>2. CASE ~session
    BY <1>1, <1>10, <2>2 DEF RetryFires, mic
  <2> QED
    BY <2>1, <2>2
<1>11. ASSUME NEW r \in Replies, Answered(r) PROVE References'
  BY <1>1, <1>11, AfterReplyReferences DEF Answered
<1>12. ASSUME NEW r \in Replies, SpeechOver(r) PROVE References'
  BY <1>12, AfterReplyReferences DEF SpeechOver
<1>13. ASSUME NEW r \in Replies, SentenceReady(r) \/ SentenceEnds(r) PROVE References'
  BY <1>1, <1>13 DEF SentenceReady, SentenceEnds, history
<1>14. CASE TapEnd \/ Leave
  BY <1>14, PlainEnd DEF TapEnd, Leave
<1>15. CASE TapStart
  BY <1>15, StartHolds DEF TapStart, OpenSession, TypeOK
<1>16. CASE WakeDetected
  BY <1>16, StartHolds DEF WakeDetected, OpenSession, TypeOK
<1>17. CASE Type \/ Interrupt \/ EnableListener \/ ListenerMoves \/ Rendered
  BY <1>1, <1>17 DEF Type, Interrupt, EnableListener, ListenerMoves, Rendered, history
<1>18. CASE UNCHANGED vars
  BY <1>1, <1>18 DEF vars, history
<1> QED
  BY <1>4, <1>5, <1>6, <1>7, <1>8, <1>9, <1>10, <1>11, <1>12, <1>13, <1>14, <1>15, <1>16, <1>17,
     <1>18 DEF Next

\* Whatever ends a turn (silence, an error, a time limit, the user, another page), no open
\* microphone, socket or timer of it is left to end the next one, unless start() was waiting
\* (endTurn, teardownAudio).
THEOREM NothingLeft == Spec => []EndedTurnsLeaveNothing
<1>1. Init => References
  BY DEF Init, References, EndedTurnsLeaveNothing
<1>2. References => EndedTurnsLeaveNothing
  BY DEF References, EndedTurnsLeaveNothing
<1> QED
  BY <1>1, <1>2, TypeInit, TypeNext, ReferencesNext, PTL DEF Spec

(***************************************************************************)
(* A session is never stranded.                                            *)
(***************************************************************************)

LEMMA SessionGoesOnKept ==
  ASSUME SessionGoesOn, UNCHANGED <<mounted, session, retries, reply, turn, unanswered>>
  PROVE  SessionGoesOn'
BY Zenon DEF SessionGoesOn

\* A failure plans a retry, or ends the session.
LEMMA FailureRetried ==
  ASSUME TypeOK, SessionGoesOn, NEW t \in Turns, NEW ts, FailTurn(t, ts)
  PROVE  SessionGoesOn'
<1>1. /\ EndTurn(ts) /\ MicError(turns[t].stale)
      /\ UNCHANGED <<mounted, reply, unanswered>>
  BY DEF FailTurn
<1>2. CASE turn = None \/ ~session
  <2>1. UNCHANGED <<session, retries>> /\ turn' = None
    BY <1>1, <1>2 DEF MicError, EndTurn
  <2>2. UNCHANGED <<mounted, session, retries, reply, unanswered>>
    BY <1>1, <2>1
  <2>3. CASE ~session
    BY <2>2, <2>3 DEF SessionGoesOn
  <2>4. CASE turn = None
    <3>1. turn' = turn
      BY <2>1, <2>4
    <3>2. UNCHANGED <<mounted, session, retries, reply, turn, unanswered>>
      BY <2>2, <3>1
    <3> QED
      BY <3>2, SessionGoesOnKept
  <2> QED
    BY <1>2, <2>3, <2>4
<1>3. CASE turn # None /\ session /\ streak < MaxRetries
  <2> DEFINE s == turns[t].stale
  <2>1. s \in BOOLEAN
    BY DEF TypeOK
  <2>2. retries' = [retries EXCEPT ![s] = @ + 1]
    BY <1>1, <1>3 DEF MicError
  <2> HIDE DEF s
  <2>3. retries'[s] > 0
    BY <2>1, <2>2, RetryPlanned, Zenon
  <2> QED
    BY <2>1, <2>3, Zenon DEF SessionGoesOn
<1>4. CASE turn # None /\ session /\ ~(streak < MaxRetries)
  BY <1>1, <1>4 DEF MicError, SessionGoesOn
<1> QED
  BY <1>2, <1>3, <1>4

LEMMA MessageComing ==
  ASSUME TypeOK, SendMessage
  PROVE  \E r \in Replies : reply'[r] # "none"
BY DEF SendMessage, TypeOK

LEMMA AfterReplyGoesOn ==
  ASSUME TypeOK, SessionGoesOn, NEW r \in Replies, NEW ending \in BOOLEAN, AfterReply(r, ending)
  PROVE  SessionGoesOn'
<1>1. CASE ending
  BY <1>1 DEF AfterReply, SessionGoesOn
<1>2. CASE ~ending /\ session
  <2>1. turn' \in Turns
    BY <1>2, StartTurnType DEF AfterReply
  <2> QED
    BY <2>1, NoneAssumption DEF SessionGoesOn
<1>3. CASE ~ending /\ ~session
  BY <1>3 DEF AfterReply, SessionGoesOn
<1> QED
  BY <1>1, <1>2, <1>3

LEMMA SessionGoesOnNext == TypeOK /\ SessionGoesOn /\ [Next]_vars => SessionGoesOn'
<1> SUFFICES ASSUME TypeOK, SessionGoesOn, [Next]_vars PROVE SessionGoesOn'
  OBVIOUS
<1>1. ASSUME UNCHANGED <<mounted, session, retries, reply, turn, unanswered>>
      PROVE  SessionGoesOn'
  BY <1>1, SessionGoesOnKept
<1>2. ASSUME turn' \in Turns PROVE SessionGoesOn'
  BY <1>2, NoneAssumption DEF SessionGoesOn
<1>3. ASSUME ~mounted' \/ ~session' PROVE SessionGoesOn'
  BY <1>3 DEF SessionGoesOn
<1>4. ASSUME \E r \in Replies : reply'[r] # "none" PROVE SessionGoesOn'
  BY <1>4 DEF SessionGoesOn
<1>5. ASSUME NEW t \in Turns, StartFails(t) \/ LinkCloses(t) \/ TurnTimesOut(t)
      PROVE  SessionGoesOn'
  BY <1>5, FailureRetried DEF StartFails, LinkCloses, TurnTimesOut
<1>6. ASSUME NEW t \in Turns, MicGranted(t) \/ OpenLink(t) \/ Ready(t) PROVE SessionGoesOn'
  BY <1>1, <1>6 DEF MicGranted, OpenLink, Ready, assistant, history
<1>7. ASSUME NEW t \in Turns, Transcript(t) PROVE SessionGoesOn'
  <2>1. CASE unanswered' = TRUE
    BY <2>1 DEF SessionGoesOn
  <2>2. CASE SendMessage
    BY <1>4, <2>2, MessageComing
  <2> QED
    BY <1>7, <2>1, <2>2 DEF Transcript
<1>8. ASSUME NEW s \in BOOLEAN, RetryFires(s) PROVE SessionGoesOn'
  BY <1>2, <1>3, <1>8, StartTurnType DEF RetryFires
<1>9. ASSUME NEW r \in Replies, Answered(r) PROVE SessionGoesOn'
  <2>1. CASE \E ending \in BOOLEAN : AfterReply(r, ending)
    BY <2>1, AfterReplyGoesOn
  <2>2. CASE \E ending \in BOOLEAN :
               reply' = [reply EXCEPT ![r] = IF ending THEN "closing" ELSE "speaking"]
    BY <1>4, <2>2 DEF TypeOK
  <2> QED
    BY <1>9, <2>1, <2>2 DEF Answered
<1>10. ASSUME NEW r \in Replies, SpeechOver(r) PROVE SessionGoesOn'
  BY <1>10, AfterReplyGoesOn DEF SpeechOver
<1>11. ASSUME NEW r \in Replies, SentenceReady(r) \/ SentenceEnds(r) PROVE SessionGoesOn'
  BY <1>1, <1>11 DEF SentenceReady, SentenceEnds, assistant, mic, history
<1>12. CASE Type
  BY <1>4, <1>12, MessageComing DEF Type
<1>13. CASE TapStart \/ WakeDetected
  BY <1>2, <1>13, OpenSessionType DEF TapStart, WakeDetected, TypeOK
<1>14. CASE TapEnd \/ Leave
  BY <1>3, <1>14 DEF TapEnd, Leave
<1>15. CASE Interrupt \/ EnableListener \/ ListenerMoves \/ Rendered
  BY <1>1, <1>15 DEF Interrupt, EnableListener, ListenerMoves, Rendered, assistant, mic, history
<1>16. CASE UNCHANGED vars
  BY <1>1, <1>16 DEF vars, assistant, mic, history
<1> QED
  BY <1>5, <1>6, <1>7, <1>8, <1>9, <1>10, <1>11, <1>12, <1>13, <1>14, <1>15, <1>16 DEF Next

\* A session that goes on always has a turn, a reply or a retry to go on with, unless what
\* ended its last turn was not sent (handleMicStateChange, sendMessage, resumeListening).
THEOREM NeverStranded == Spec => []SessionGoesOn
<1>1. Init => SessionGoesOn
  BY DEF Init, SessionGoesOn
<1> QED
  BY <1>1, TypeInit, TypeNext, SessionGoesOnNext, PTL DEF Spec

(***************************************************************************)
(* The wake-word listener                                                  *)
(***************************************************************************)

\* A paused listener is woken up by the render that sees the session end.
Woken == mounted /\ paused => session \/ rendered \/ missed

LEMMA WokenNext == TypeOK /\ Woken /\ [Next]_vars => Woken'
<1> SUFFICES ASSUME TypeOK, Woken, [Next]_vars PROVE Woken'
  OBVIOUS
<1>1. CASE Rendered
  BY <1>1 DEF Rendered, Shown, Woken, assistant, TypeOK
<1>2. CASE UNCHANGED vars
  BY <1>2 DEF vars, Woken, assistant, page, history
<1>3. ASSUME Shown, mounted' = mounted, UNCHANGED <<page, missed>> PROVE Woken'
  BY <1>3 DEF Shown, Woken, page, TypeOK
<1>4. ASSUME Shown, NEW t \in Turns,
             \/ MicGranted(t) \/ StartFails(t) \/ OpenLink(t) \/ Ready(t)
             \/ Transcript(t) \/ LinkCloses(t) \/ TurnTimesOut(t)
      PROVE  Woken'
  BY <1>3, <1>4 DEF MicGranted, StartFails, OpenLink, Ready, Transcript, LinkCloses,
                    TurnTimesOut, FailTurn, assistant, history
<1>5. ASSUME Shown, NEW s \in BOOLEAN, RetryFires(s) PROVE Woken'
  BY <1>3, <1>5 DEF RetryFires
<1>6. ASSUME Shown, NEW r \in Replies,
             Answered(r) \/ SpeechOver(r) \/ SentenceReady(r) \/ SentenceEnds(r)
      PROVE  Woken'
  BY <1>3, <1>6 DEF Answered, SpeechOver, SentenceReady, SentenceEnds, assistant, history
<1>7. ASSUME Shown, Type \/ TapStart \/ TapEnd \/ Interrupt PROVE Woken'
  BY <1>3, <1>7 DEF Type, TapStart, OpenSession, TapEnd, Interrupt, assistant, history
<1>8. CASE Leave
  BY <1>8 DEF Leave, Woken
<1>9. CASE EnableListener
  BY <1>9 DEF EnableListener, Woken
<1>10. CASE ListenerMoves
  BY <1>10 DEF ListenerMoves, Woken, assistant, history
<1>11. CASE WakeDetected
  BY <1>11 DEF WakeDetected, OpenSession, Woken
<1> QED
  BY <1>1, <1>2, <1>4, <1>5, <1>6, <1>7, <1>8, <1>9, <1>10, <1>11 DEF Next

\* After a session, however it ended, the connected listener hears the wake phrase again,
\* unless it was not connected when a session ended (the effect on sessionActive, resume).
THEOREM ListenerHears == Spec => []ListenerWakesUp
<1>1. Init => Woken
  BY DEF Init, Woken
<1>2. Woken => ListenerWakesUp
  BY DEF Woken, ListenerWakesUp
<1> QED
  BY <1>1, <1>2, TypeInit, TypeNext, WokenNext, PTL DEF Spec

\* However replies, interruptions, failed turns, late audio and the listener interleave, the
\* session speaks with one voice, goes on or says that it does not, and leaves a listener that
\* wakes up again (useConversationalAssistant, useRealtimeVoiceInput and the page around them).
THEOREM VoiceKept == Spec => []VoiceHolds
<1>1. OneVoice /\ SessionGoesOn /\ ListenerWakesUp => VoiceHolds
  BY DEF VoiceHolds
<1> QED
  BY <1>1, NoTwoVoices, NeverStranded, ListenerHears, PTL


(***************************************************************************)
(* Requests under way: a sequence that loses the one answered and is       *)
(* appended to by the next.                                                *)
(***************************************************************************)

\* The sequence without its i-th element (RemoveAt, which each page has a name for)
Without(s, i) == SubSeq(s, 1, i - 1) \o SubSeq(s, i + 1, Len(s))

\* Where the element k of a sequence without its i-th was before
From(i, k) == IF k < i THEN k ELSE k + 1

\* The sequence without its i-th element is one shorter, and has the others in their order.
LEMMA Removed ==
  ASSUME NEW S, NEW s \in Seq(S), NEW i \in 1..Len(s)
  PROVE  /\ Without(s, i) \in Seq(S)
         /\ Len(Without(s, i)) = Len(s) - 1
         /\ \A k \in 1..(Len(s) - 1) :
              From(i, k) \in 1..Len(s) /\ Without(s, i)[k] = s[From(i, k)]
<1> DEFINE before == SubSeq(s, 1, i - 1)
           after == SubSeq(s, i + 1, Len(s))
<1>0. Len(s) \in Nat /\ i \in 1..Len(s)
  OBVIOUS
<1>1. before \in Seq(S) /\ Len(before) = i - 1 /\ \A k \in 1..(i - 1) : before[k] = s[k]
  OBVIOUS
<1>2. after \in Seq(S) /\ Len(after) = Len(s) - i /\ \A k \in 1..(Len(s) - i) : after[k] = s[i + k]
  OBVIOUS
<1>3. Without(s, i) = before \o after
  BY DEF Without
<1> HIDE DEF before, after
<1>4. /\ before \o after \in Seq(S)
      /\ Len(before \o after) = Len(s) - 1
      /\ \A k \in 1..(Len(s) - 1) :
           (before \o after)[k] = IF k <= i - 1 THEN before[k] ELSE after[k - (i - 1)]
  <2>1. Len(before) + Len(after) = Len(s) - 1
    BY <1>0, <1>1, <1>2
  <2>2. /\ before \o after \in Seq(S)
        /\ Len(before \o after) = Len(before) + Len(after)
        /\ \A k \in 1..(Len(before) + Len(after)) :
             (before \o after)[k] = IF k <= Len(before) THEN before[k] ELSE after[k - Len(before)]
    BY <1>1, <1>2, ConcatProperties, Zenon
  <2> QED
    BY <1>1, <2>1, <2>2
<1>5. ASSUME NEW k \in 1..(Len(s) - 1)
      PROVE  From(i, k) \in 1..Len(s) /\ (before \o after)[k] = s[From(i, k)]
  <2>0. k \in Int /\ i \in Int /\ Len(s) \in Int /\ 1 <= k /\ k <= Len(s) - 1
    BY <1>0
  <2>1. CASE k < i
    BY <1>1, <1>4, <2>0, <2>1 DEF From
  <2>2. CASE ~(k < i)
    <3>1. k - (i - 1) \in 1..(Len(s) - i) /\ i + (k - (i - 1)) = k + 1 /\ ~(k <= i - 1)
      BY <1>0, <2>0, <2>2
    <3> QED
      BY <1>0, <1>2, <1>4, <2>0, <2>2, <3>1 DEF From
  <2> QED
    BY <2>1, <2>2
<1> QED
  BY <1>3, <1>4, <1>5

\* What holds of all elements but one of them, and how many are left
LEMMA RemovedFromOne ==
  ASSUME NEW S, NEW s \in Seq(S), NEW i \in 1..Len(s), Len(s) <= 1
  PROVE  Without(s, i) = <<>> /\ i = 1
<1>0. Len(s) \in Nat
  OBVIOUS
<1>1. Len(s) = 1 /\ i = 1
  BY <1>0
<1>2. Without(s, i) \in Seq(S) /\ Len(Without(s, i)) = Len(s) - 1
  BY Removed
<1> QED
  BY <1>1, <1>2, EmptySeq

(***************************************************************************)
(* A preference: unless a change crosses another, there is one change      *)
(* under way, and what it replaced is what is saved until it is served.    *)
(***************************************************************************)

Patch == [value : Values, previous : Values, served : BOOLEAN]

PreferenceType ==
  /\ saved \in Values /\ preference \in Values /\ patches \in Seq(Patch)
  /\ prefCrossed \in BOOLEAN /\ prefLost \in BOOLEAN

OneChange ==
  ~prefCrossed /\ ~prefLost =>
    /\ Len(patches) <= 1
    /\ patches = <<>> => preference = saved
    /\ patches # <<>> =>
         /\ patches[1].value = preference
         /\ saved = IF patches[1].served THEN patches[1].value ELSE patches[1].previous

PreferenceHolds == PreferenceType /\ OneChange

LEMMA PreferenceInit == F!Init => PreferenceHolds
<1> SUFFICES ASSUME F!Init PROVE PreferenceHolds
  OBVIOUS
<1>1. patches = <<>> /\ preference = saved
  BY DEF F!Init
<1>2. Len(patches) <= 1 /\ patches \in Seq(Patch)
  BY <1>1
<1>3. OneChange
  BY <1>1, <1>2 DEF OneChange
<1> QED
  BY <1>2, <1>3, PagesAssumption DEF F!Init, PreferenceHolds, PreferenceType

LEMMA PreferenceNext == PreferenceHolds /\ [F!Next]_preferences => PreferenceHolds'
<1> SUFFICES ASSUME PreferenceHolds, [F!Next]_preferences PROVE PreferenceHolds'
  OBVIOUS
<1> USE DEF PreferenceHolds, PreferenceType, OneChange
<1>1. CASE F!Set
  <2>1. PICK v \in Values :
          /\ preference' = v
          /\ patches' = Append(patches, [value |-> v, previous |-> preference, served |-> FALSE])
          /\ prefCrossed' = (prefCrossed \/ patches # <<>>)
          /\ UNCHANGED <<saved, prefLost>>
    BY <1>1 DEF F!Set
  <2>2. [value |-> v, previous |-> preference, served |-> FALSE] \in Patch
    BY DEF Patch
  <2>3. patches' \in Seq(Patch) /\ Len(patches') = Len(patches) + 1
    BY <2>1, <2>2
  <2>4. ASSUME patches = <<>>
        PROVE  /\ Len(patches') = 1
               /\ patches'[1] = [value |-> v, previous |-> preference, served |-> FALSE]
    BY <2>1, <2>4
  <2>5. ASSUME ~prefCrossed', ~prefLost'
        PROVE  patches = <<>> /\ preference = saved
    BY <2>1, <2>5
  <2>6. OneChange'
    <3>1. ASSUME ~prefCrossed', ~prefLost'
          PROVE  /\ Len(patches') <= 1 /\ patches' # <<>>
                 /\ patches'[1].value = preference'
                 /\ saved' = IF patches'[1].served THEN patches'[1].value ELSE patches'[1].previous
      BY <2>1, <2>2, <2>4, <2>5, <3>1, AppendProperties
    <3> QED
      BY <3>1
  <2> QED
    BY <2>1, <2>3, <2>6
<1>2. CASE F!Serve
  <2>1. PICK k \in DOMAIN patches :
          /\ ~patches[k].served
          /\ saved' = patches[k].value
          /\ patches' = [patches EXCEPT ![k].served = TRUE]
          /\ UNCHANGED <<preference, prefCrossed, prefLost>>
    BY <1>2 DEF F!Serve
  <2>2. k \in 1..Len(patches) /\ patches[k] \in Patch
    OBVIOUS
  <2>3. [patches[k] EXCEPT !.served = TRUE] \in Patch /\ patches[k].value \in Values
    BY <2>2 DEF Patch
  <2>4. patches' \in Seq(Patch) /\ Len(patches') = Len(patches)
    BY <2>1, <2>2, <2>3
  <2>5. ASSUME Len(patches) <= 1
        PROVE  k = 1 /\ patches'[1].served /\ patches'[1].value = patches[1].value
    BY <2>1, <2>2, <2>5 DEF Patch
  <2> QED
    BY <2>1, <2>2, <2>3, <2>4, <2>5
<1>3. CASE F!Answered
  <2>1. PICK k \in DOMAIN patches :
          /\ patches[k].served
          /\ patches' = Without(patches, k)
          /\ UNCHANGED <<saved, preference, prefCrossed, prefLost>>
    BY <1>3 DEF F!Answered, F!RemoveAt, Without
  <2>2. k \in 1..Len(patches)
    OBVIOUS
  <2>3. patches' \in Seq(Patch)
    BY <2>1, <2>2, Removed
  <2>4. ASSUME Len(patches) <= 1
        PROVE  patches' = <<>> /\ k = 1
    BY <2>1, <2>2, <2>4, RemovedFromOne
  <2> QED
    BY <2>1, <2>2, <2>3, <2>4
<1>4. CASE F!Failed
  <2>1. PICK k \in DOMAIN patches :
          /\ preference' = patches[k].previous
          /\ prefLost' = (prefLost \/ patches[k].served)
          /\ patches' = Without(patches, k)
          /\ UNCHANGED <<saved, prefCrossed>>
    BY <1>4 DEF F!Failed, F!Reverted, F!RemoveAt, Without
  <2>2. k \in 1..Len(patches) /\ patches[k] \in Patch
    OBVIOUS
  <2>3. patches' \in Seq(Patch) /\ preference' \in Values /\ prefLost' \in BOOLEAN
    BY <2>1, <2>2, Removed DEF Patch
  <2>4. ASSUME Len(patches) <= 1
        PROVE  patches' = <<>> /\ k = 1
    BY <2>1, <2>2, <2>4, RemovedFromOne
  <2>5. ASSUME ~prefCrossed', ~prefLost'
        PROVE  ~prefCrossed /\ ~prefLost /\ ~patches[k].served
    BY <2>1, <2>5
  <2>6. Len(<<>>) = 0 /\ patches # <<>>
    BY <2>2
  <2>7. OneChange'
    BY <2>1, <2>4, <2>5, <2>6
  <2> QED
    BY <2>1, <2>3, <2>7
<1>5. CASE UNCHANGED preferences
  BY <1>5 DEF preferences
<1> QED
  BY <1>1, <1>2, <1>3, <1>4, <1>5 DEF F!Next

(***************************************************************************)
(* Panels: of the requests under way only the one sent last is not         *)
(* earlier than another, and it is for what is selected.                   *)
(***************************************************************************)

PanelRequest == [of : Selectable, earlier : BOOLEAN]

PanelType ==
  /\ kind \in P!Kinds /\ selected \in Selectable
  /\ panelShown \in {None} \cup Selectable /\ panelTimer \in {None} \cup Selectable
  /\ panelFlights \in Seq(PanelRequest)
  /\ failed \in BOOLEAN /\ panelOvertaken \in BOOLEAN /\ refused \in BOOLEAN

OneIsLast ==
  \A k \in 1..Len(panelFlights) : ~panelFlights[k].earlier => k = Len(panelFlights)

\* The request sent last is not answered.
Awaited == \E k \in 1..Len(panelFlights) : ~panelFlights[k].earlier

ForSelected == \A k \in 1..Len(panelFlights) : ~panelFlights[k].earlier => panelFlights[k].of = selected

ChartHolds ==
  kind = "chart" =>
    /\ panelTimer = None /\ ForSelected
    /\ IF Awaited THEN panelShown = None /\ ~failed /\ ~refused
       ELSE /\ panelShown \in {None, selected} /\ failed = refused
            /\ panelShown = None <=> failed

FeedHolds ==
  kind = "feed" =>
    /\ panelTimer = None /\ ForSelected
    /\ ~panelOvertaken /\ panelFlights = <<>> => panelShown = selected \/ failed

SuggestHolds ==
  kind = "suggest" =>
    /\ panelTimer # None => panelTimer = selected /\ selected # Short
    /\ ~panelOvertaken /\ selected # Short /\ panelTimer = None =>
         ForSelected /\ (panelFlights = <<>> => panelShown \in {selected, None})

PanelHolds ==
  /\ PanelType /\ OneIsLast
  /\ ~panelOvertaken /\ panelFlights # <<>> => Awaited
  /\ ChartHolds /\ FeedHolds /\ SuggestHolds

LEMMA PanelShows == PanelHolds => P!ShowsSelected
<1> SUFFICES ASSUME PanelHolds PROVE P!ShowsSelected
  OBVIOUS
<1>1. panelFlights = <<>> => ~Awaited
  <2>1. Len(<<>>) = 0
    OBVIOUS
  <2> QED
    BY <2>1 DEF Awaited
<1> QED
  BY <1>1 DEF PanelHolds, PanelType, ChartHolds, FeedHolds, SuggestHolds, P!ShowsSelected, P!Settled

\* A request sent makes the others earlier ones.
LEMMA PanelSent ==
  ASSUME PanelType, NEW c \in Selectable, P!Send(c)
  PROVE  /\ panelFlights' \in Seq(PanelRequest) /\ panelFlights' # <<>>
         /\ OneIsLast' /\ Awaited'
         /\ \A k \in 1..Len(panelFlights') :
              ~panelFlights'[k].earlier => panelFlights'[k].of = c
<1> DEFINE marked == [k \in DOMAIN panelFlights |-> [panelFlights[k] EXCEPT !.earlier = TRUE]]
           request == [of |-> c, earlier |-> FALSE]
<1>1. panelFlights \in Seq(PanelRequest)
  BY DEF PanelType
<1>2. request \in PanelRequest
  BY DEF PanelRequest
<1>3. \A k \in 1..Len(panelFlights) :
        marked[k] \in PanelRequest /\ marked[k].earlier
  <2>1. \A r \in PanelRequest :
           [r EXCEPT !.earlier = TRUE] \in PanelRequest /\ [r EXCEPT !.earlier = TRUE].earlier
    BY DEF PanelRequest
  <2>2. \A k \in 1..Len(panelFlights) :
           marked[k] = [panelFlights[k] EXCEPT !.earlier = TRUE] /\ panelFlights[k] \in PanelRequest
    <3>1. DOMAIN panelFlights = 1..Len(panelFlights)
      BY <1>1, LenProperties
    <3>2. \A k \in 1..Len(panelFlights) : panelFlights[k] \in PanelRequest
      BY <1>1, ElementOfSeq
    <3> QED
      BY <3>1, <3>2, Zenon
  <2> QED
    BY <2>1, <2>2
<1>4. marked \in Seq(PanelRequest) /\ Len(marked) = Len(panelFlights)
  <2>1. DOMAIN marked = 1..Len(panelFlights) /\ Len(panelFlights) \in Nat
    BY <1>1
  <2>2. marked \in [1..Len(panelFlights) -> PanelRequest]
    BY <1>3, <2>1
  <2>3. marked \in Seq(PanelRequest)
    BY <2>1, <2>2, SeqDef
  <2> QED
    BY <2>1, <2>3, LenProperties
<1>5. panelFlights' = Append(marked, request)
  BY DEF P!Send, P!Request
<1> HIDE DEF marked
<1>6. /\ panelFlights' \in Seq(PanelRequest) /\ panelFlights' # <<>>
      /\ Len(panelFlights') = Len(panelFlights) + 1
      /\ \A k \in 1..Len(panelFlights) : panelFlights'[k] = marked[k]
      /\ panelFlights'[Len(panelFlights) + 1] = request
  BY <1>2, <1>4, <1>5, AppendProperties
<1>7. \A k \in 1..Len(panelFlights') :
         \/ k \in 1..Len(panelFlights) /\ panelFlights'[k].earlier
         \/ k = Len(panelFlights') /\ panelFlights'[k] = request
  BY <1>1, <1>3, <1>6
<1>8. OneIsLast'
  BY <1>7 DEF OneIsLast
<1>9. Len(panelFlights') \in 1..Len(panelFlights')
  BY <1>1, <1>6
<1>10. Awaited'
  BY <1>1, <1>6, <1>9 DEF Awaited
<1> QED
  BY <1>6, <1>7, <1>8, <1>10

\* An answer leaves the others in their order.
LEMMA PanelAnswered ==
  ASSUME PanelType, OneIsLast, NEW k \in 1..Len(panelFlights),
         panelFlights' = Without(panelFlights, k)
  PROVE  /\ panelFlights' \in Seq(PanelRequest)
         /\ OneIsLast'
         /\ \A j \in 1..Len(panelFlights') :
              \E i \in 1..Len(panelFlights) : panelFlights'[j] = panelFlights[i]
         /\ Awaited' <=> Awaited /\ panelFlights[k].earlier
         /\ k = 1 /\ Awaited /\ panelFlights' # <<>> => Awaited'
         /\ ~panelFlights[k].earlier => Awaited
<1>1. panelFlights \in Seq(PanelRequest) /\ Len(panelFlights) \in Nat
  BY DEF PanelType
<1>2. /\ panelFlights' \in Seq(PanelRequest)
      /\ Len(panelFlights') = Len(panelFlights) - 1
      /\ \A j \in 1..(Len(panelFlights) - 1) :
           From(k, j) \in 1..Len(panelFlights) /\ panelFlights'[j] = panelFlights[From(k, j)]
  BY <1>1, Removed
<1>3. OneIsLast'
  <2> SUFFICES ASSUME NEW j \in 1..Len(panelFlights'), ~panelFlights'[j].earlier
               PROVE  j = Len(panelFlights')
    BY DEF OneIsLast
  <2>1. From(k, j) = Len(panelFlights)
    BY <1>2 DEF OneIsLast
  <2> QED
    BY <1>1, <1>2, <2>1 DEF From
<1>4. Awaited' => Awaited /\ panelFlights[k].earlier
  <2> SUFFICES ASSUME Awaited' PROVE Awaited /\ panelFlights[k].earlier
    OBVIOUS
  <2>1. PICK j \in 1..(Len(panelFlights) - 1) : ~panelFlights[From(k, j)].earlier
    BY <1>2 DEF Awaited
  <2>2. From(k, j) = Len(panelFlights) /\ From(k, j) \in 1..Len(panelFlights)
    BY <1>2, <2>1 DEF OneIsLast
  <2>3. k # Len(panelFlights)
    BY <1>1, <2>2 DEF From
  <2> QED
    BY <1>1, <2>1, <2>2, <2>3 DEF Awaited, OneIsLast
<1>5. Awaited /\ panelFlights[k].earlier => Awaited'
  <2> SUFFICES ASSUME Awaited, panelFlights[k].earlier PROVE Awaited'
    OBVIOUS
  <2>1. Len(panelFlights) \in 1..Len(panelFlights) /\ ~panelFlights[Len(panelFlights)].earlier
    BY <1>1 DEF Awaited, OneIsLast
  <2>2. k < Len(panelFlights)
    BY <1>1, <2>1
  <2>3. Len(panelFlights') \in 1..(Len(panelFlights) - 1) /\ From(k, Len(panelFlights')) = Len(panelFlights)
    BY <1>1, <1>2, <2>2 DEF From
  <2> QED
    BY <1>2, <2>1, <2>3 DEF Awaited
<1>6. k = 1 /\ Awaited /\ panelFlights' # <<>> => panelFlights[k].earlier
  <2> SUFFICES ASSUME k = 1, Awaited, ~panelFlights[k].earlier PROVE panelFlights' = <<>>
    OBVIOUS
  <2>1. Len(panelFlights') = 0
    BY <1>1, <1>2 DEF OneIsLast
  <2> QED
    BY <1>2, <2>1, EmptySeq
<1> QED
  BY <1>2, <1>3, <1>4, <1>5, <1>6 DEF Awaited

LEMMA PanelInit == P!Init => PanelHolds
<1> SUFFICES ASSUME P!Init PROVE PanelHolds
  OBVIOUS
<1> USE DEF P!Init, P!Request
<1>1. CASE kind = "suggest"
  <2>1. panelFlights = <<>> /\ selected = Short /\ panelFlights \in Seq(PanelRequest) /\ Len(panelFlights) = 0
    BY <1>1
  <2>2. PanelType
    BY <2>1, PagesAssumption DEF PanelType
  <2>3. OneIsLast /\ ~Awaited
    BY <2>1 DEF OneIsLast, Awaited
  <2> QED
    BY <1>1, <2>1, <2>2, <2>3 DEF PanelHolds, ChartHolds, FeedHolds, SuggestHolds
<1>2. CASE kind # "suggest"
  <2>1. selected \in Selectable /\ panelFlights = <<[of |-> selected, earlier |-> FALSE]>>
    BY <1>2
  <2>2. [of |-> selected, earlier |-> FALSE] \in PanelRequest
    BY <2>1 DEF PanelRequest
  <2>3. panelFlights \in Seq(PanelRequest) /\ Len(panelFlights) = 1 /\ panelFlights[1] = [of |-> selected, earlier |-> FALSE]
    BY <2>1, <2>2
  <2>4. PanelType
    BY <2>1, <2>3 DEF PanelType
  <2>5. OneIsLast /\ Awaited /\ ForSelected
    BY <2>3 DEF OneIsLast, Awaited, ForSelected
  <2>6. panelFlights # <<>>
    BY <2>1
  <2> QED
    BY <1>2, <2>4, <2>5, <2>6 DEF PanelHolds, ChartHolds, FeedHolds, SuggestHolds, P!Kinds
<1> QED
  BY <1>1, <1>2

\* What is loaded anew is what will be selected.
LEMMA PanelLoads ==
  ASSUME PanelHolds, NEW c \in Selectable, P!Load(c), selected' = c, kind # "suggest",
         UNCHANGED <<kind, panelOvertaken>>
  PROVE  PanelHolds'
<1>1. PanelType
  BY DEF PanelHolds
<1>2. P!Send(c) /\ panelShown' = None /\ failed' = FALSE /\ refused' = FALSE /\ panelTimer' = panelTimer
  BY DEF P!Load
<1>3. /\ panelFlights' \in Seq(PanelRequest) /\ panelFlights' # <<>>
      /\ OneIsLast' /\ Awaited' /\ ForSelected'
  BY <1>1, <1>2, PanelSent DEF ForSelected
<1>4. panelTimer = None
  BY <1>1 DEF PanelHolds, PanelType, ChartHolds, FeedHolds, P!Kinds
<1>5. PanelType'
  BY <1>1, <1>2, <1>3 DEF PanelType
<1> QED
  BY <1>2, <1>3, <1>4, <1>5 DEF PanelHolds, ChartHolds, FeedHolds, SuggestHolds

\* What belongs to an answer of the panel, and is ignored by the chart when it is not the last
LEMMA PanelAnswers == PanelHolds /\ P!Answer => PanelHolds'
<1> SUFFICES ASSUME PanelHolds, P!Answer PROVE PanelHolds'
  OBVIOUS
<1>1. PanelType /\ OneIsLast /\ (~panelOvertaken /\ panelFlights # <<>> => Awaited)
  BY DEF PanelHolds
<1>2. DOMAIN panelFlights = 1..Len(panelFlights) /\ Len(panelFlights) \in Nat
  BY <1>1 DEF PanelType
<1>3. PICK k \in 1..Len(panelFlights), ok \in BOOLEAN :
        /\ panelFlights' = Without(panelFlights, k)
        /\ panelOvertaken' = (panelOvertaken \/ k > 1)
        /\ refused' = (IF panelFlights[k].earlier THEN refused ELSE ~ok)
        /\ IF P!Ignored(k) THEN UNCHANGED <<panelShown, failed>>
           ELSE /\ panelShown' = (IF ok THEN panelFlights[k].of ELSE IF kind = "suggest" THEN None ELSE panelShown)
                /\ failed' = (failed \/ (~ok /\ kind # "suggest"))
        /\ UNCHANGED <<kind, selected, panelTimer>>
  BY <1>2, Zenon DEF P!Answer, P!RemoveAt, Without
<1>4. panelFlights[k] \in PanelRequest
  BY <1>1, ElementOfSeq DEF PanelType
<1>5. panelFlights[k].of \in Selectable /\ panelFlights[k].earlier \in BOOLEAN
  BY <1>4 DEF PanelRequest
<1>6. /\ panelFlights' \in Seq(PanelRequest)
      /\ OneIsLast'
      /\ \A j \in 1..Len(panelFlights') :
           \E i \in 1..Len(panelFlights) : panelFlights'[j] = panelFlights[i]
      /\ Awaited' <=> Awaited /\ panelFlights[k].earlier
      /\ k = 1 /\ Awaited /\ panelFlights' # <<>> => Awaited'
      /\ ~panelFlights[k].earlier => Awaited
  BY <1>1, <1>3, PanelAnswered
<1>7. PanelType'
  BY <1>1, <1>3, <1>5, <1>6 DEF PanelType
<1>8. ForSelected => ForSelected'
  BY <1>3, <1>6 DEF ForSelected
<1>9. panelFlights # <<>>
  BY <1>2, <1>3
<1>10. ~panelOvertaken' => ~panelOvertaken /\ k = 1 /\ Awaited
  <2>1. ~panelOvertaken' => ~panelOvertaken /\ ~(k > 1)
    BY <1>3
  <2>2. ~(k > 1) => k = 1
    BY <1>2
  <2> QED
    BY <1>1, <1>9, <2>1, <2>2
<1>11. ForSelected /\ ~panelFlights[k].earlier => panelFlights[k].of = selected
  BY DEF ForSelected
<1>12. ~panelOvertaken' /\ panelFlights' = <<>> => ~panelFlights[k].earlier
  <2>1. panelFlights' = <<>> => ~Awaited'
    BY EmptySeq DEF Awaited
  <2> QED
    BY <1>6, <1>10, <2>1
<1>13. ChartHolds'
  <2> SUFFICES ASSUME kind = "chart" PROVE ChartHolds'
    BY <1>3 DEF ChartHolds
  <2>1. /\ panelTimer = None /\ ForSelected
        /\ IF Awaited THEN panelShown = None /\ ~failed /\ ~refused
           ELSE /\ panelShown \in {None, selected} /\ failed = refused
                /\ panelShown = None <=> failed
    BY DEF PanelHolds, ChartHolds
  <2>2. CASE panelFlights[k].earlier
    BY <1>3, <1>6, <1>8, <2>1, <2>2 DEF ChartHolds, P!Ignored
  <2>3. CASE ~panelFlights[k].earlier
    <3>1. ~Awaited' /\ panelShown = None /\ ~failed
      BY <1>6, <2>1, <2>3
    <3>2. panelShown' = (IF ok THEN selected ELSE None) /\ failed' = ~ok /\ refused' = ~ok
      BY <1>3, <1>11, <2>1, <2>3, <3>1 DEF P!Ignored
    <3>3. selected # None
      BY <1>1, PagesAssumption DEF PanelType
    <3> QED
      BY <1>3, <1>8, <2>1, <3>1, <3>2, <3>3 DEF ChartHolds
  <2> QED
    BY <2>2, <2>3
<1>14. FeedHolds'
  <2> SUFFICES ASSUME kind = "feed" PROVE FeedHolds'
    BY <1>3 DEF FeedHolds
  <2>1. panelTimer = None /\ ForSelected
    BY DEF PanelHolds, FeedHolds
  <2>2. panelShown' = (IF ok THEN panelFlights[k].of ELSE panelShown) /\ failed' = (failed \/ ~ok)
    BY <1>3 DEF P!Ignored
  <2> QED
    BY <1>3, <1>8, <1>11, <1>12, <2>1, <2>2 DEF FeedHolds
<1>15. SuggestHolds'
  <2> SUFFICES ASSUME kind = "suggest" PROVE SuggestHolds'
    BY <1>3 DEF SuggestHolds
  <2>1. panelShown' = (IF ok THEN panelFlights[k].of ELSE None)
    BY <1>3 DEF P!Ignored
  <2> QED
    BY <1>3, <1>8, <1>10, <1>11, <1>12, <2>1 DEF PanelHolds, SuggestHolds
<1> QED
  BY <1>6, <1>7, <1>10, <1>13, <1>14, <1>15 DEF PanelHolds

LEMMA PanelNext == PanelHolds /\ [P!Next]_panels => PanelHolds'
<1> SUFFICES ASSUME PanelHolds, [P!Next]_panels PROVE PanelHolds'
  OBVIOUS
<1>0. PanelType
  BY DEF PanelHolds
<1>1. CASE P!Select
  <2>1. PICK c \in Selectable \ {selected} :
          /\ c = Short => kind = "suggest"
          /\ selected' = c
          /\ IF kind = "suggest" THEN P!Type(c) ELSE P!Load(c)
          /\ UNCHANGED <<kind, panelOvertaken>>
    BY <1>1 DEF P!Select
  <2>2. CASE kind = "suggest"
    <3>1. /\ panelTimer' = IF c = Short THEN None ELSE c
          /\ panelShown' = IF c = Short THEN None ELSE panelShown
          /\ UNCHANGED <<failed, panelFlights, refused>>
      BY <2>1, <2>2 DEF P!Type
    <3>2. PanelType' /\ OneIsLast' /\ (Awaited' <=> Awaited)
      BY <1>0, <2>1, <3>1 DEF PanelHolds, PanelType, OneIsLast, Awaited
    <3>3. SuggestHolds'
      BY <2>1, <3>1, PagesAssumption DEF SuggestHolds
    <3> QED
      BY <2>1, <2>2, <3>1, <3>2, <3>3 DEF PanelHolds, ChartHolds, FeedHolds
  <2>3. CASE kind # "suggest"
    BY <2>1, <2>3, PanelLoads
  <2> QED
    BY <2>2, <2>3
<1>2. CASE P!LookUp
  <2>1. /\ panelTimer # None /\ panelTimer' = None /\ P!Send(panelTimer) /\ refused' = FALSE
        /\ UNCHANGED <<kind, selected, panelShown, failed, panelOvertaken>>
    BY <1>2 DEF P!LookUp
  <2>2. kind = "suggest" /\ panelTimer = selected /\ panelTimer \in Selectable
    BY <1>0, <2>1 DEF PanelHolds, PanelType, ChartHolds, FeedHolds, SuggestHolds, P!Kinds
  <2>3. /\ panelFlights' \in Seq(PanelRequest) /\ panelFlights' # <<>>
        /\ OneIsLast' /\ Awaited' /\ ForSelected'
    BY <1>0, <2>1, <2>2, PanelSent DEF ForSelected
  <2>4. PanelType'
    BY <1>0, <2>1, <2>3 DEF PanelType
  <2> QED
    BY <2>1, <2>2, <2>3, <2>4 DEF PanelHolds, ChartHolds, FeedHolds, SuggestHolds
<1>3. CASE P!Retry
  <2>1. selected \in Selectable
    BY <1>0 DEF PanelType
  <2> QED
    BY <1>3, <2>1, PanelLoads DEF P!Retry
<1>4. CASE P!Answer
  BY <1>4, PanelAnswers
<1>5. CASE UNCHANGED panels
  BY <1>5 DEF panels, PanelHolds, PanelType, OneIsLast, Awaited, ForSelected, ChartHolds, FeedHolds, SuggestHolds
<1> QED
  BY <1>1, <1>2, <1>3, <1>4, <1>5 DEF P!Next

(***************************************************************************)
(* The sliders: what is shown was answered together with its values, and   *)
(* what is under way is for the report shown unless another was left.      *)
(***************************************************************************)

Positions == [Sliders -> Values]
SliderRequest == [report : Reports, values : {None} \cup Positions]

SliderType ==
  /\ report \in Reports /\ panelState \in {"loading", "ready", "unavailable", "error"}
  /\ panelState = "ready" => values \in Positions
  /\ dragFlights \in Seq(SliderRequest) /\ dragTimer \in {None} \cup SliderRequest
  /\ carried \in BOOLEAN

ForReport ==
  ~carried =>
    /\ \A k \in 1..Len(dragFlights) : dragFlights[k].report = report
    /\ dragTimer # None => dragTimer.report = report

SlidersHold == SliderType /\ ForReport /\ W!ResultFits

LEMMA SlidersInit == W!Init => SlidersHold
<1> SUFFICES ASSUME W!Init PROVE SlidersHold
  OBVIOUS
<1>1. report \in Reports /\ dragFlights = <<[report |-> report, values |-> None]>> /\ dragTimer = None
  BY DEF W!Init, W!Ask
<1>2. [report |-> report, values |-> None] \in SliderRequest
  BY <1>1 DEF SliderRequest
<1>3. dragFlights \in Seq(SliderRequest) /\ Len(dragFlights) = 1 /\ dragFlights[1].report = report
  BY <1>1, <1>2
<1>4. SliderType
  BY <1>1, <1>3 DEF W!Init, SliderType
<1>5. ForReport
  BY <1>1, <1>3 DEF ForReport
<1>6. W!ResultFits
  BY DEF W!Init, W!ResultFits
<1> QED
  BY <1>4, <1>5, <1>6 DEF SlidersHold

LEMMA SlidersNext == SlidersHold /\ [W!Next]_sliders => SlidersHold'
<1> SUFFICES ASSUME SlidersHold, [W!Next]_sliders PROVE SlidersHold'
  OBVIOUS
<1>0. SliderType /\ ForReport /\ W!ResultFits
  BY DEF SlidersHold
<1>1. CASE W!Drag
  <2>1. PICK s \in Sliders, p \in Values :
          /\ panelState = "ready"
          /\ values' = [values EXCEPT ![s] = p]
          /\ dragTimer' = [report |-> report, values |-> values']
          /\ UNCHANGED <<report, panelState, whatIf, dragFlights, carried>>
    BY <1>1 DEF W!Drag, W!Ask
  <2>2. values' \in Positions
    BY <1>0, <2>1 DEF SliderType, Positions
  <2>3. dragTimer' \in SliderRequest /\ dragTimer'.report = report /\ dragTimer' # None
    BY <1>0, <2>1, <2>2, RequestAssumption DEF SliderType, SliderRequest, Positions, W!Ask
  <2>4. ~W!Settled'
    BY <2>3 DEF W!Settled
  <2>5. SliderType'
    BY <1>0, <2>1, <2>2, <2>3 DEF SliderType
  <2>6. ForReport'
    BY <1>0, <2>1, <2>3 DEF ForReport
  <2> QED
    BY <2>4, <2>5, <2>6 DEF SlidersHold, W!ResultFits
<1>2. CASE W!Send
  <2>1. /\ dragTimer # None /\ dragTimer' = None
        /\ dragFlights' = Append(dragFlights, dragTimer)
        /\ UNCHANGED <<report, panelState, values, whatIf, carried>>
    BY <1>2 DEF W!Send
  <2>2. dragTimer \in SliderRequest /\ dragFlights \in Seq(SliderRequest)
    BY <1>0, <2>1 DEF SliderType
  <2>3. /\ dragFlights' \in Seq(SliderRequest) /\ dragFlights' # <<>>
        /\ Len(dragFlights') = Len(dragFlights) + 1
        /\ \A k \in 1..Len(dragFlights) : dragFlights'[k] = dragFlights[k]
        /\ dragFlights'[Len(dragFlights) + 1] = dragTimer
    BY <2>1, <2>2, AppendProperties
  <2>4. SliderType'
    BY <1>0, <2>1, <2>3 DEF SliderType
  <2>5. ForReport'
    BY <1>0, <2>1, <2>2, <2>3 DEF ForReport
  <2> QED
    BY <2>3, <2>4, <2>5 DEF SlidersHold, W!ResultFits, W!Settled
<1>3. CASE W!Open
  <2>1. PICK r \in Reports :
          /\ report' = r /\ panelState' = "loading"
          /\ carried' = (carried \/ dragFlights # <<>> \/ dragTimer # None)
          /\ dragFlights' = Append(dragFlights, [report |-> r, values |-> None])
          /\ UNCHANGED <<values, whatIf, dragTimer>>
    BY <1>3 DEF W!Open, W!Ask
  <2>2. [report |-> r, values |-> None] \in SliderRequest /\ dragFlights \in Seq(SliderRequest)
    BY <1>0 DEF SliderType, SliderRequest
  <2>3. dragFlights' \in Seq(SliderRequest)
    BY <2>1, <2>2, AppendProperties
  <2>4. SliderType'
    BY <1>0, <2>1, <2>3 DEF SliderType
  <2>5. ASSUME ~carried'
        PROVE  /\ Len(dragFlights') = 1 /\ dragFlights'[1].report = r /\ dragTimer' = None
    <3>1. dragFlights = <<>> /\ dragTimer = None
      BY <2>1, <2>5
    <3>2. dragFlights' = <<[report |-> r, values |-> None]>>
      BY <2>1, <3>1
    <3> QED
      BY <2>1, <3>1, <3>2
  <2>6. ForReport'
    BY <2>1, <2>5 DEF ForReport
  <2> QED
    BY <2>1, <2>4, <2>6 DEF SlidersHold, W!ResultFits
<1>4. CASE W!Answer
  <2>0. DOMAIN dragFlights = 1..Len(dragFlights)
    BY <1>0 DEF SliderType
  <2>1. PICK k \in 1..Len(dragFlights), outcome \in {"ready", "unavailable", "error"} :
          /\ dragFlights' = Without(dragFlights, k)
          /\ panelState' = outcome
          /\ IF outcome = "ready"
             THEN /\ values' = W!Used(dragFlights[k])
                  /\ whatIf' = [report |-> dragFlights[k].report, values |-> W!Used(dragFlights[k])]
             ELSE UNCHANGED <<values, whatIf>>
          /\ UNCHANGED <<report, dragTimer, carried>>
    BY <1>4, <2>0, Zenon DEF W!Answer, W!Ask, W!Used, W!RemoveAt, Without
  <2>2. dragFlights \in Seq(SliderRequest) /\ dragFlights[k] \in SliderRequest
    BY <1>0, ElementOfSeq DEF SliderType
  <2>3. W!Used(dragFlights[k]) \in Positions
    <3>1. [s \in Sliders |-> First] \in Positions
      BY PagesAssumption DEF Positions
    <3> QED
      BY <2>2, <3>1 DEF W!Used, SliderRequest
  <2>4. /\ dragFlights' \in Seq(SliderRequest)
        /\ \A j \in 1..Len(dragFlights') :
             \E i \in 1..Len(dragFlights) : dragFlights'[j] = dragFlights[i]
    <3>1. /\ Without(dragFlights, k) \in Seq(SliderRequest)
          /\ Len(Without(dragFlights, k)) = Len(dragFlights) - 1
          /\ \A j \in 1..(Len(dragFlights) - 1) :
               From(k, j) \in 1..Len(dragFlights) /\ Without(dragFlights, k)[j] = dragFlights[From(k, j)]
      BY <2>2, Removed
    <3> QED
      BY <2>1, <3>1
  <2>5. SliderType'
    BY <1>0, <2>1, <2>3, <2>4 DEF SliderType
  <2>6. ForReport'
    BY <1>0, <2>1, <2>4 DEF ForReport
  <2>7. W!ResultFits'
    BY <1>0, <2>1 DEF ForReport, W!ResultFits
  <2> QED
    BY <2>5, <2>6, <2>7 DEF SlidersHold
<1>5. CASE UNCHANGED sliders
  BY <1>5 DEF sliders, SlidersHold, SliderType, ForReport, W!ResultFits, W!Settled
<1> QED
  BY <1>1, <1>2, <1>3, <1>4, <1>5 DEF W!Next

(***************************************************************************)
(* Lists: once all that changes the list is answered, and nothing that     *)
(* fails was served, the list asked for last is the one stored.            *)
(***************************************************************************)

\* Where the element k is once the i-th has gone
To(i, k) == IF k < i THEN k ELSE k - 1

\* Every other element stays, behind those it was behind.
LEMMA Remaining ==
  ASSUME NEW S, NEW s \in Seq(S), NEW i \in 1..Len(s), NEW k \in 1..Len(s), k # i
  PROVE  /\ To(i, k) \in 1..Len(Without(s, i)) /\ Without(s, i)[To(i, k)] = s[k]
         /\ \A j \in 1..Len(Without(s, i)) : From(i, j) <= k => j <= To(i, k)
<1>1. Len(s) \in Nat /\ Len(Without(s, i)) = Len(s) - 1
  BY Removed
<1>2. \A j \in 1..(Len(s) - 1) : Without(s, i)[j] = s[From(i, j)]
  BY Removed
<1>3. To(i, k) \in 1..(Len(s) - 1) /\ From(i, To(i, k)) = k
  <2>1. CASE k < i
    BY <1>1, <2>1 DEF To, From
  <2>2. CASE ~(k < i)
    <3>1. k - 1 \in 1..(Len(s) - 1) /\ ~(k - 1 < i) /\ (k - 1) + 1 = k
      BY <1>1, <2>2
    <3> QED
      BY <2>2, <3>1 DEF To, From
  <2> QED
    BY <2>1, <2>2
<1>4. \A j \in 1..(Len(s) - 1) : From(i, j) <= k => j <= To(i, k)
  BY <1>1 DEF To, From
<1> QED
  BY <1>1, <1>2, <1>3, <1>4

ListRequest ==
  {r \in [op : L!Ops, ticker : {None} \cup Tickers, served : BOOLEAN,
          content : {None} \cup SUBSET Tickers] :
     r.op # "get" => r.ticker \in Tickers}

ListType ==
  /\ stored \in SUBSET Tickers /\ listShown \in {None} \cup SUBSET Tickers
  /\ listFlights \in Seq(ListRequest)
  /\ loadFailed \in BOOLEAN /\ listOvertaken \in BOOLEAN

\* A list will be asked for.
Coming ==
  \E k \in 1..Len(listFlights) :
    listFlights[k].op = "remove" \/ (listFlights[k].op # "get" /\ listFlights[k].served)

\* The list asked for last will be the one stored.
LastFits ==
  \E k \in 1..Len(listFlights) :
    /\ listFlights[k].op = "get"
    /\ listFlights[k].served => listFlights[k].content = stored
    /\ \A j \in 1..Len(listFlights) : listFlights[j].op = "get" => j <= k

NoneAsked == \A k \in 1..Len(listFlights) : listFlights[k].op # "get"

ListFits ==
  ~listOvertaken /\ listLost = {} =>
    Coming \/ LastFits \/ (NoneAsked /\ (loadFailed \/ listShown = stored))

ListHolds == ListType /\ ListFits

LEMMA ListShows == ListHolds => L!ShowsStored
<1>1. Len(<<>>) = 0
  OBVIOUS
<1> QED
  BY <1>1 DEF ListHolds, ListFits, Coming, LastFits, L!ShowsStored

LEMMA RefreshIsRequest == L!Refresh \in ListRequest /\ L!Refresh.op = "get" /\ ~L!Refresh.served
BY DEF L!Refresh, L!Request, ListRequest, L!Ops

\* A list asked for at the end will be the one stored.
LEMMA Refreshed ==
  ASSUME NEW s \in Seq(ListRequest), listFlights' = Append(s, L!Refresh)
  PROVE  listFlights' \in Seq(ListRequest) /\ LastFits'
<1>1. /\ listFlights' \in Seq(ListRequest)
      /\ Len(listFlights') = Len(s) + 1
      /\ listFlights'[Len(s) + 1] = L!Refresh
  BY RefreshIsRequest, AppendProperties
<1>2. Len(s) \in Nat
  OBVIOUS
<1> QED
  BY <1>1, <1>2, RefreshIsRequest DEF LastFits

LEMMA ListInit == L!Init => ListHolds
<1> SUFFICES ASSUME L!Init PROVE ListHolds
  OBVIOUS
<1>1. listFlights = <<L!Refresh>>
  BY DEF L!Init
<1>2. listFlights \in Seq(ListRequest) /\ Len(listFlights) = 1 /\ listFlights[1] = L!Refresh
  BY <1>1, RefreshIsRequest
<1>3. LastFits
  BY <1>2, RefreshIsRequest DEF LastFits
<1> QED
  BY <1>2, <1>3 DEF L!Init, ListHolds, ListType, ListFits

\* A change asked for
LEMMA ListChanges ==
  ASSUME ListHolds, NEW op \in {"add", "buy", "remove"}, NEW t \in Tickers, L!Change(op, t),
         op # "remove" => listShown' = listShown,
         listShown' \in {None} \cup SUBSET Tickers
  PROVE  ListHolds'
<1> DEFINE request == [op |-> op, ticker |-> t, served |-> FALSE, content |-> None]
<1>1. request \in ListRequest
  BY DEF ListRequest, L!Ops
<1>2. /\ listFlights' = Append(listFlights, request)
      /\ UNCHANGED <<stored, loadFailed, listOvertaken, listLost>>
  BY DEF L!Change, L!Request
<1>3. listFlights \in Seq(ListRequest) /\ Len(listFlights) \in Nat
  BY DEF ListHolds, ListType
<1>4. /\ listFlights' \in Seq(ListRequest)
      /\ Len(listFlights') = Len(listFlights) + 1
      /\ \A k \in 1..Len(listFlights) : listFlights'[k] = listFlights[k]
      /\ listFlights'[Len(listFlights) + 1] = request
  BY <1>1, <1>2, <1>3, AppendProperties
<1>5. \A k \in 1..Len(listFlights') : k \in 1..Len(listFlights) \/ listFlights'[k].op = op
  BY <1>3, <1>4
<1>6. Coming => Coming'
  BY <1>3, <1>4 DEF Coming
<1>7. op = "remove" => Coming'
  BY <1>3, <1>4 DEF Coming
<1>8. LastFits => LastFits'
  <2> SUFFICES ASSUME LastFits PROVE LastFits'
    OBVIOUS
  <2>1. PICK k \in 1..Len(listFlights) :
          /\ listFlights[k].op = "get"
          /\ listFlights[k].served => listFlights[k].content = stored
          /\ \A j \in 1..Len(listFlights) : listFlights[j].op = "get" => j <= k
    BY DEF LastFits
  <2>2. k \in 1..Len(listFlights') /\ listFlights'[k] = listFlights[k]
    BY <1>3, <1>4
  <2>3. \A j \in 1..Len(listFlights') : listFlights'[j].op = "get" => j <= k
    BY <1>4, <1>5, <2>1
  <2> QED
    BY <1>2, <2>1, <2>2, <2>3 DEF LastFits
<1>9. NoneAsked => NoneAsked'
  BY <1>4, <1>5 DEF NoneAsked
<1>10. ListType'
  BY <1>2, <1>4 DEF ListHolds, ListType
<1> QED
  BY <1>2, <1>6, <1>7, <1>8, <1>9, <1>10 DEF ListHolds, ListFits

\* The request k is served.
LEMMA ListServes == ListHolds /\ L!Serve => ListHolds'
<1> SUFFICES ASSUME ListHolds, L!Serve PROVE ListHolds'
  OBVIOUS
<1>1. /\ listFlights \in Seq(ListRequest) /\ Len(listFlights) \in Nat
      /\ DOMAIN listFlights = 1..Len(listFlights) /\ stored \in SUBSET Tickers
  BY DEF ListHolds, ListType
<1>2. PICK k \in 1..Len(listFlights) :
        /\ ~listFlights[k].served
        /\ stored' = CASE listFlights[k].op \in {"add", "buy"} -> stored \cup {listFlights[k].ticker}
                       [] listFlights[k].op = "remove" -> stored \ {listFlights[k].ticker}
                       [] OTHER -> stored
        /\ listFlights' = [listFlights EXCEPT ![k].served = TRUE,
                             ![k].content = IF listFlights[k].op = "get" THEN stored ELSE None]
        /\ UNCHANGED <<listShown, loadFailed, listOvertaken, listLost>>
  BY <1>1 DEF L!Serve
<1> DEFINE f == listFlights[k]
           c == IF f.op = "get" THEN stored ELSE None
           g == [f EXCEPT !.served = TRUE, !.content = c]
<1>3. f \in ListRequest /\ c \in {None} \cup SUBSET Tickers
  BY <1>1, ElementOfSeq
<1>4. g \in ListRequest /\ g.served /\ g.op = f.op /\ g.content = c
  BY <1>3 DEF ListRequest
<1>5. /\ listFlights' = [listFlights EXCEPT ![k] = g]
  BY <1>1, <1>2
<1>6. /\ listFlights' \in Seq(ListRequest) /\ Len(listFlights') = Len(listFlights)
      /\ \A j \in 1..Len(listFlights) : listFlights'[j] = IF j = k THEN g ELSE listFlights[j]
  BY <1>1, <1>4, <1>5
<1> HIDE DEF g
<1>7. CASE f.op # "get"
  <2>1. Coming'
    BY <1>4, <1>6, <1>7 DEF Coming
  <2>2. stored' \in SUBSET Tickers
    <3>1. f.op \in {"add", "buy", "remove"} /\ f.ticker \in {None} \cup Tickers
      BY <1>3, <1>7 DEF ListRequest, L!Ops
    <3>2. f.ticker \in Tickers
      BY <1>3, <1>7 DEF ListRequest
    <3> QED
      BY <1>1, <1>2, <3>1, <3>2
  <2> QED
    BY <1>2, <1>6, <2>1, <2>2 DEF ListHolds, ListType, ListFits
<1>8. CASE f.op = "get"
  <2>1. stored' = stored /\ c = stored
    BY <1>2, <1>8
  <2>2. Coming => Coming'
    BY <1>6, <1>8 DEF Coming
  <2>3. LastFits => LastFits'
    BY <1>4, <1>6, <1>8, <2>1 DEF LastFits
  <2>4. ~NoneAsked
    BY <1>8 DEF NoneAsked
  <2> QED
    BY <1>1, <1>2, <1>6, <2>1, <2>2, <2>3, <2>4 DEF ListHolds, ListType, ListFits
<1> QED
  BY <1>7, <1>8

\* A request leaves, and nothing is asked for instead: a list, or a form's request that failed.
LEMMA ListLeaves ==
  ASSUME ListHolds, NEW k \in 1..Len(listFlights), listFlights' = Without(listFlights, k), stored' = stored
  PROVE  /\ listFlights' \in Seq(ListRequest)
         /\ Coming =>
              Coming' \/ listFlights[k].op = "remove" \/ (listFlights[k].op # "get" /\ listFlights[k].served)
         /\ LastFits /\ listFlights[k].op # "get" => LastFits'
         /\ LastFits /\ ~L!Overtakes(k) =>
              \/ LastFits'
              \/ NoneAsked' /\ (listFlights[k].served => listFlights[k].content = stored)
         /\ NoneAsked => NoneAsked'
<1> DEFINE s == listFlights
<1>1. s \in Seq(ListRequest) /\ Len(s) \in Nat
  BY DEF ListHolds, ListType
<1>2. /\ listFlights' \in Seq(ListRequest)
      /\ Len(listFlights') = Len(s) - 1
      /\ \A j \in 1..Len(listFlights') : From(k, j) \in 1..Len(s) /\ listFlights'[j] = s[From(k, j)]
  BY <1>1, Removed
<1>3. \A i \in 1..Len(s) : i # k =>
        /\ To(k, i) \in 1..Len(listFlights') /\ listFlights'[To(k, i)] = s[i]
        /\ \A j \in 1..Len(listFlights') : From(k, j) <= i => j <= To(k, i)
  BY <1>1, Remaining
<1>4. ASSUME Coming
      PROVE  Coming' \/ s[k].op = "remove" \/ (s[k].op # "get" /\ s[k].served)
  <2>1. PICK i \in 1..Len(s) : s[i].op = "remove" \/ (s[i].op # "get" /\ s[i].served)
    BY <1>4 DEF Coming
  <2>2. CASE i = k
    BY <2>1, <2>2
  <2>3. CASE i # k
    BY <1>3, <2>1, <2>3 DEF Coming
  <2> QED
    BY <2>2, <2>3
<1>5. NoneAsked => NoneAsked'
  BY <1>2 DEF NoneAsked
<1>6. ASSUME NEW i \in 1..Len(s), i # k,
             s[i].op = "get", s[i].served => s[i].content = stored,
             \A j \in 1..Len(s) : s[j].op = "get" => j <= i
      PROVE  LastFits'
  <2>1. \A j \in 1..Len(listFlights') : listFlights'[j].op = "get" => j <= To(k, i)
    BY <1>2, <1>3, <1>6
  <2>2. To(k, i) \in 1..Len(listFlights') /\ listFlights'[To(k, i)] = s[i]
    BY <1>3, <1>6
  <2> QED
    BY <1>6, <2>1, <2>2 DEF LastFits
<1>7. LastFits /\ s[k].op # "get" => LastFits'
  BY <1>6 DEF LastFits
<1>8. ASSUME LastFits, ~L!Overtakes(k)
      PROVE  \/ LastFits'
             \/ NoneAsked' /\ (s[k].served => s[k].content = stored)
  <2>1. PICK i \in 1..Len(s) :
          /\ s[i].op = "get" /\ (s[i].served => s[i].content = stored)
          /\ \A j \in 1..Len(s) : s[j].op = "get" => j <= i
    BY <1>8 DEF LastFits
  <2>2. CASE i # k
    BY <1>6, <2>1, <2>2
  <2>3. CASE i = k
    <3>1. \A j \in 1..Len(s) : s[j].op = "get" => j = k
      <4> SUFFICES ASSUME NEW j \in 1..Len(s), s[j].op = "get", j # k PROVE FALSE
        OBVIOUS
      <4>1. j <= k
        BY <2>1, <2>3
      <4>2. j \in 1..(k - 1)
        BY <1>1, <4>1
      <4> QED
        BY <1>8, <2>1, <2>3, <4>2 DEF L!Overtakes
    <3>2. \A j \in 1..Len(listFlights') : From(k, j) # k
      BY <1>1, <1>2 DEF From
    <3>3. NoneAsked'
      BY <1>2, <3>1, <3>2 DEF NoneAsked
    <3> QED
      BY <2>1, <2>3, <3>3
  <2> QED
    BY <2>2, <2>3
<1> QED
  BY <1>2, <1>4, <1>5, <1>7, <1>8

\* A request leaves, and the list is asked for.
LEMMA ListRefreshes ==
  ASSUME ListHolds, NEW k \in 1..Len(listFlights),
         listFlights' = Without(listFlights, k) \o <<L!Refresh>>
  PROVE  listFlights' \in Seq(ListRequest) /\ LastFits'
<1>1. listFlights \in Seq(ListRequest)
  BY DEF ListHolds, ListType
<1>2. Without(listFlights, k) \in Seq(ListRequest)
  BY <1>1, Removed
<1>3. listFlights' = Append(Without(listFlights, k), L!Refresh)
  BY <1>2, RefreshIsRequest, AppendIsConcat
<1> QED
  BY <1>2, <1>3, Refreshed

LEMMA ListAnswers == ListHolds /\ L!Answered => ListHolds'
<1> SUFFICES ASSUME ListHolds, L!Answered PROVE ListHolds'
  OBVIOUS
<1>1. /\ listFlights \in Seq(ListRequest)
      /\ DOMAIN listFlights = 1..Len(listFlights) /\ ListType
  BY DEF ListHolds, ListType
<1>2. PICK k \in 1..Len(listFlights) :
        /\ listFlights[k].served
        /\ listOvertaken' = (listOvertaken \/ L!Overtakes(k))
        /\ listShown' = (IF listFlights[k].op = "get" THEN listFlights[k].content ELSE listShown)
        /\ loadFailed' = (loadFailed /\ listFlights[k].op # "get")
        /\ listFlights' = Without(listFlights, k) \o (IF listFlights[k].op = "get" THEN <<>> ELSE <<L!Refresh>>)
        /\ UNCHANGED <<stored, listLost>>
  BY <1>1 DEF L!Answered, L!RemoveAt, Without
<1>3. listFlights[k] \in ListRequest
  BY <1>1, ElementOfSeq
<1>4. listShown' \in {None} \cup SUBSET Tickers
  BY <1>1, <1>2, <1>3 DEF ListRequest, ListType
<1>5. CASE listFlights[k].op = "get"
  <2>1. listFlights' = Without(listFlights, k)
    <3>1. Without(listFlights, k) \in Seq(ListRequest)
      BY <1>1, Removed
    <3> QED
      BY <1>2, <1>5, <3>1, ConcatEmptySeq
  <2>2. ~listOvertaken' => ~listOvertaken /\ ~L!Overtakes(k)
    BY <1>2
  <2>3. ~NoneAsked
    BY <1>5 DEF NoneAsked
  <2>4. ListFits'
    BY <1>2, <1>5, <2>1, <2>2, <2>3, ListLeaves DEF ListHolds, ListFits
  <2>5. listFlights' \in Seq(ListRequest)
    BY <1>2, <2>1, ListLeaves
  <2> QED
    BY <1>1, <1>2, <1>4, <2>4, <2>5 DEF ListHolds, ListType
<1>6. CASE listFlights[k].op # "get"
  <2>1. listFlights' \in Seq(ListRequest) /\ LastFits'
    BY <1>2, <1>6, ListRefreshes
  <2> QED
    BY <1>1, <1>2, <1>4, <2>1 DEF ListHolds, ListType, ListFits
<1> QED
  BY <1>5, <1>6

LEMMA ListFails == ListHolds /\ L!Failed => ListHolds'
<1> SUFFICES ASSUME ListHolds, L!Failed PROVE ListHolds'
  OBVIOUS
<1>1. /\ listFlights \in Seq(ListRequest)
      /\ DOMAIN listFlights = 1..Len(listFlights) /\ ListType
  BY DEF ListHolds, ListType
<1>2. PICK k \in 1..Len(listFlights) :
        /\ listOvertaken' = (listOvertaken \/ L!Overtakes(k))
        /\ loadFailed' = (loadFailed \/ listFlights[k].op = "get")
        /\ listLost' = IF listFlights[k].served /\ listFlights[k].op \in {"add", "buy"}
                       THEN listLost \cup {listFlights[k].op} ELSE listLost
        /\ listFlights' = Without(listFlights, k) \o L!AfterFailure(listFlights[k])
        /\ UNCHANGED <<stored, listShown>>
  BY <1>1 DEF L!Failed, L!RemoveAt, Without
<1>3. listFlights[k] \in ListRequest
  BY <1>1, ElementOfSeq
<1>4. CASE listFlights[k].op = "remove"
  <2>1. listFlights' \in Seq(ListRequest) /\ LastFits'
    BY <1>2, <1>4, ListRefreshes DEF L!AfterFailure
  <2> QED
    BY <1>1, <1>2, <2>1 DEF ListHolds, ListType, ListFits
<1>5. CASE listFlights[k].op # "remove"
  <2>1. listFlights' = Without(listFlights, k)
    <3>1. Without(listFlights, k) \in Seq(ListRequest)
      BY <1>1, Removed
    <3> QED
      BY <1>2, <1>5, <3>1, ConcatEmptySeq DEF L!AfterFailure
  <2>2. listFlights' \in Seq(ListRequest)
    BY <1>2, <2>1, ListLeaves
  <2>3. ListFits'
    <3> SUFFICES ASSUME ~listOvertaken', listLost' = {}
                 PROVE  Coming' \/ LastFits' \/ (NoneAsked' /\ (loadFailed' \/ listShown' = stored'))
      BY DEF ListFits
    <3>1. ~listOvertaken /\ ~L!Overtakes(k) /\ listLost = {}
      BY <1>2
    <3>2. ~(listFlights[k].op # "get" /\ listFlights[k].served)
      BY <1>2, <1>3, <1>5 DEF ListRequest, L!Ops
    <3>3. CASE Coming
      BY <1>2, <1>5, <2>1, <3>2, <3>3, ListLeaves
    <3>4. CASE LastFits
      BY <1>2, <2>1, <3>1, <3>4, ListLeaves
    <3>5. CASE NoneAsked /\ (loadFailed \/ listShown = stored)
      BY <1>2, <2>1, <3>5, ListLeaves
    <3> QED
      BY <3>1, <3>3, <3>4, <3>5 DEF ListHolds, ListFits
  <2> QED
    BY <1>1, <1>2, <2>2, <2>3 DEF ListHolds, ListType
<1> QED
  BY <1>4, <1>5

LEMMA ListNext == ListHolds /\ [L!Next]_lists => ListHolds'
<1> SUFFICES ASSUME ListHolds, [L!Next]_lists PROVE ListHolds'
  OBVIOUS
<1>0. ListType
  BY DEF ListHolds
<1>1. CASE L!Submit
  BY <1>0, <1>1, ListChanges DEF L!Submit, ListType
<1>2. CASE L!HandleRemove
  <2>1. PICK t \in (IF listShown = None THEN {} ELSE listShown) :
          L!Change("remove", t) /\ listShown' = listShown \ {t}
    BY <1>2 DEF L!HandleRemove
  <2>2. t \in Tickers /\ listShown' \in SUBSET Tickers
    BY <1>0, <2>1 DEF ListType
  <2> QED
    BY <2>1, <2>2, ListChanges
<1>3. CASE L!Reload
  <2>1. /\ listFlights' = Append(listFlights, L!Refresh)
        /\ UNCHANGED <<stored, listShown, loadFailed, listOvertaken, listLost>>
    BY <1>3 DEF L!Reload
  <2>2. listFlights' \in Seq(ListRequest) /\ LastFits'
    BY <1>0, <2>1, Refreshed DEF ListType
  <2> QED
    BY <1>0, <2>1, <2>2 DEF ListHolds, ListType, ListFits
<1>4. CASE UNCHANGED lists
  BY <1>4 DEF lists, ListHolds, ListType, ListFits, Coming, LastFits, NoneAsked
<1> QED
  BY <1>1, <1>2, <1>3, <1>4, ListServes, ListAnswers, ListFails DEF L!Next
(***************************************************************************)
(* Research: unless something crosses, one question is followed at a time, *)
(* in step with what the page says, or it has been cancelled.              *)
(***************************************************************************)

ResearchType ==
  /\ status \in {"idle", "submitting", "running", "done", "error"}
  /\ loop \in [Questions -> {"none", "posting", "waiting", "polling", "unread", "over"}]
  /\ cancelled \in BOOLEAN /\ crossed \in BOOLEAN /\ interrupted \in BOOLEAN

InStep(q) ==
  /\ loop[q] = "posting" => status = "submitting" /\ jobId = None /\ ~cancelled /\ opening = {}
  /\ loop[q] = "polling" => ~cancelled
  /\ loop[q] \in {"waiting", "polling"} /\ ~cancelled => status = "running" /\ jobId = q /\ opening = {}

OneAtATime ==
  ~crossed =>
    /\ \A q \in Questions : InStep(q)
    /\ \A p, q \in Questions : R!Following(p) /\ R!Following(q) => p = q
    /\ opening # {} => cancelled
    /\ cancelled /\ R!Busy => interrupted

ResearchHolds == ResearchType /\ OneAtATime /\ R!FollowsItsJob

LEMMA ResearchInit == R!Init => ResearchHolds
<1> SUFFICES ASSUME R!Init PROVE ResearchHolds
  OBVIOUS
<1>1. ResearchType
  BY DEF R!Init, ResearchType
<1>2. OneAtATime
  BY DEF R!Init, OneAtATime, InStep, R!Following
<1>3. R!FollowsItsJob
  BY DEF R!Init, R!FollowsItsJob, R!Abandoned, R!Busy
<1> QED
  BY <1>1, <1>2, <1>3 DEF ResearchHolds

\* What one question goes on to do does not make another one followed.
LEMMA OthersStay ==
  ASSUME ResearchHolds, NEW q \in Questions, NEW l \in {"waiting", "polling", "unread", "over"},
         R!Following(q), loop' = [loop EXCEPT ![q] = l], ~crossed
  PROVE  /\ loop' \in [Questions -> {"none", "posting", "waiting", "polling", "unread", "over"}]
         /\ loop'[q] = l
         /\ \A p \in Questions : p # q => loop'[p] = loop[p] /\ ~R!Following(p) /\ ~R!Following(p)'
         /\ \A p \in Questions : p # q => InStep(p)'
         /\ \A p, o \in Questions : R!Following(p)' /\ R!Following(o)' => p = o
<1>1. loop \in [Questions -> {"none", "posting", "waiting", "polling", "unread", "over"}]
  BY DEF ResearchHolds, ResearchType
<1>2. \A p \in Questions : p # q => ~R!Following(p)
  BY DEF ResearchHolds, OneAtATime
<1>3. \A p \in Questions : p # q => loop'[p] = loop[p]
  BY <1>1
<1>4. \A p \in Questions : p # q => ~R!Following(p)'
  BY <1>2, <1>3 DEF R!Following
<1>5. \A p \in Questions : p # q => InStep(p)'
  BY <1>4 DEF InStep, R!Following
<1> QED
  BY <1>1, <1>2, <1>3, <1>4, <1>5

LEMMA ResearchNext == ResearchHolds /\ [R!Next]_research => ResearchHolds'
<1> SUFFICES ASSUME ResearchHolds, [R!Next]_research PROVE ResearchHolds'
  OBVIOUS
<1>0. ResearchType /\ OneAtATime /\ R!FollowsItsJob
  BY DEF ResearchHolds
<1> USE DEF R!page
<1>1. ASSUME NEW q \in Questions, R!Submit(q) PROVE ResearchHolds'
  <2>1. /\ status' = "submitting" /\ jobId' = None /\ cancelled' = FALSE
        /\ loop' = [loop EXCEPT ![q] = "posting"]
        /\ crossed' = (crossed \/ opening # {} \/ \E p \in Questions : R!Following(p))
        /\ UNCHANGED <<opening, interrupted>>
    BY <1>1 DEF R!Submit, R!Show
  <2>2. ResearchType'
    BY <1>0, <2>1 DEF ResearchType
  <2>3. loop'[q] = "posting" /\ \A p \in Questions : p # q => loop'[p] = loop[p]
    BY <1>0, <2>1 DEF ResearchType
  <2>4. ~crossed' => ~crossed /\ opening = {} /\ \A p \in Questions : ~R!Following(p)
    BY <2>1
  <2>5. OneAtATime'
    BY <2>1, <2>3, <2>4 DEF OneAtATime, InStep, R!Following
  <2>6. R!FollowsItsJob'
    BY <2>1, <2>3 DEF R!FollowsItsJob, R!Abandoned, R!Following
  <2> QED
    BY <2>2, <2>5, <2>6 DEF ResearchHolds
<1>2. ASSUME NEW q \in Questions, R!Posted(q) PROVE ResearchHolds'
  <2>1. /\ loop[q] = "posting" /\ status' = "running" /\ jobId' = q
        /\ loop' = [loop EXCEPT ![q] = IF cancelled THEN "over" ELSE "waiting"]
        /\ UNCHANGED <<result, cancelled, opening, crossed, interrupted>>
    BY <1>2 DEF R!Posted
  <2>2. ResearchType'
    BY <1>0, <2>1 DEF ResearchType
  <2>3. CASE crossed
    BY <2>1, <2>2, <2>3 DEF ResearchHolds, OneAtATime, R!FollowsItsJob, R!Abandoned
  <2>4. CASE ~crossed
    <3>1. ~cancelled /\ opening = {} /\ R!Following(q)
      BY <1>0, <2>1, <2>4 DEF OneAtATime, InStep, R!Following
    <3>2. /\ loop'[q] = "waiting"
          /\ \A p \in Questions : p # q => InStep(p)'
          /\ \A p, o \in Questions : R!Following(p)' /\ R!Following(o)' => p = o
      BY <2>1, <2>4, <3>1, OthersStay
    <3>3. OneAtATime'
      BY <2>1, <3>1, <3>2 DEF OneAtATime, InStep
    <3>4. R!FollowsItsJob'
      BY <2>1, <3>2 DEF R!FollowsItsJob, R!Abandoned, R!Following
    <3> QED
      BY <2>2, <3>3, <3>4 DEF ResearchHolds
  <2> QED
    BY <2>3, <2>4
<1>3. ASSUME NEW q \in Questions, R!Following(q), R!Fails(q) PROVE ResearchHolds'
  <2>1. /\ status' = "error" /\ loop' = [loop EXCEPT ![q] = "over"]
        /\ UNCHANGED <<jobId, result, cancelled, opening, crossed, interrupted>>
    BY <1>3 DEF R!Fails
  <2>2. ResearchType'
    BY <1>0, <2>1 DEF ResearchType
  <2>3. R!FollowsItsJob'
    BY <2>1 DEF R!FollowsItsJob, R!Abandoned, R!Busy
  <2>4. ASSUME ~crossed PROVE OneAtATime'
    <3>1. /\ loop'[q] = "over"
          /\ \A p \in Questions : p # q => InStep(p)'
          /\ \A p, o \in Questions : R!Following(p)' /\ R!Following(o)' => p = o
      BY <1>3, <2>1, <2>4, OthersStay
    <3> QED
      BY <1>0, <2>1, <3>1 DEF OneAtATime, InStep, R!Busy
  <2> QED
    BY <2>1, <2>2, <2>3, <2>4 DEF ResearchHolds, OneAtATime
<1>4. ASSUME NEW q \in Questions, R!Wake(q) \/ R!StillRunning(q) PROVE ResearchHolds'
  <2>1. PICK l \in {"waiting", "polling"} :
          /\ loop[q] \in {"waiting", "polling"}
          /\ loop' = [loop EXCEPT ![q] = IF cancelled THEN "over" ELSE l]
          /\ UNCHANGED <<status, jobId, result, cancelled, opening, crossed, interrupted>>
    BY <1>4 DEF R!Wake, R!StillRunning, R!GoesOn
  <2>2. ResearchType'
    BY <1>0, <2>1 DEF ResearchType
  <2>3. CASE crossed
    BY <2>1, <2>2, <2>3 DEF ResearchHolds, OneAtATime, R!FollowsItsJob, R!Abandoned
  <2>4. CASE ~crossed
    <3>1. R!Following(q)
      BY <2>1 DEF R!Following
    <3>2. /\ loop'[q] = IF cancelled THEN "over" ELSE l
          /\ \A p \in Questions : p # q => InStep(p)'
          /\ \A p, o \in Questions : R!Following(p)' /\ R!Following(o)' => p = o
      BY <2>1, <2>4, <3>1, OthersStay
    <3>3. InStep(q)'
      BY <1>0, <2>1, <2>4, <3>2 DEF OneAtATime, InStep
    <3>4. OneAtATime'
      BY <1>0, <2>1, <2>4, <3>2, <3>3 DEF OneAtATime, R!Busy
    <3>5. R!FollowsItsJob'
      BY <1>0, <2>1, <2>4, <3>2 DEF OneAtATime, R!FollowsItsJob, R!Abandoned, R!Following, R!Busy
    <3> QED
      BY <2>2, <3>4, <3>5 DEF ResearchHolds
  <2> QED
    BY <2>3, <2>4
<1>5. ASSUME NEW q \in Questions, R!Done(q) PROVE ResearchHolds'
  <2>1. /\ loop[q] = "polling" /\ status' = "done" /\ result' = q
        /\ loop' = [loop EXCEPT ![q] = "over"]
        /\ UNCHANGED <<jobId, cancelled, opening, crossed, interrupted>>
    BY <1>5 DEF R!Done, R!Show
  <2>2. ResearchType'
    BY <1>0, <2>1 DEF ResearchType
  <2>3. ASSUME ~crossed PROVE jobId = q /\ OneAtATime'
    <3>1. R!Following(q)
      BY <2>1 DEF R!Following
    <3>2. /\ loop'[q] = "over"
          /\ \A p \in Questions : p # q => InStep(p)'
          /\ \A p, o \in Questions : R!Following(p)' /\ R!Following(o)' => p = o
      BY <2>1, <2>3, <3>1, OthersStay
    <3>3. jobId = q
      BY <1>0, <2>1, <2>3 DEF OneAtATime, InStep
    <3> QED
      BY <1>0, <2>1, <3>2, <3>3 DEF OneAtATime, InStep, R!Busy
  <2> QED
    BY <2>1, <2>2, <2>3 DEF ResearchHolds, OneAtATime, R!FollowsItsJob, R!Abandoned, R!Busy
<1>6. ASSUME NEW q \in Questions, R!JobEnds(q) PROVE ResearchHolds'
  <2>1. UNCHANGED <<status, jobId, result, loop, cancelled, opening, crossed, interrupted>>
    BY <1>6 DEF R!JobEnds
  <2> QED
    BY <1>0, <2>1 DEF ResearchHolds, ResearchType, OneAtATime, InStep, R!FollowsItsJob, R!Abandoned, R!Following, R!Busy
<1>7. ASSUME NEW r \in Reports, R!Open(r) PROVE ResearchHolds'
  <2>1. /\ cancelled' = TRUE
        /\ crossed' = (crossed \/ \E q \in Questions : loop[q] \in {"posting", "polling"})
        /\ interrupted' = (interrupted \/ R!Busy)
        /\ UNCHANGED <<status, jobId, result, loop>>
    BY <1>7 DEF R!Open
  <2>2. ResearchType'
    BY <1>0, <2>1 DEF ResearchType
  <2>3. ~crossed' => ~crossed /\ \A q \in Questions : loop[q] \notin {"posting", "polling"}
    BY <2>1
  <2>4. OneAtATime'
    BY <1>0, <2>1, <2>3 DEF OneAtATime, InStep, R!Following, R!Busy
  <2>5. R!FollowsItsJob'
    BY <1>0, <2>1, <2>3 DEF R!FollowsItsJob, R!Abandoned, R!Following, R!Busy
  <2> QED
    BY <2>2, <2>4, <2>5 DEF ResearchHolds
<1>8. ASSUME NEW r \in Reports, R!Opened(r) \/ R!NotOpened(r) PROVE ResearchHolds'
  <2>1. /\ opening # {}
        /\ \/ status' = "done" /\ result' = jobId'
           \/ status' \in {"error", status} /\ UNCHANGED <<jobId, result>>
        /\ UNCHANGED <<loop, cancelled, crossed, interrupted>>
    BY <1>8 DEF R!Opened, R!NotOpened, R!Show
  <2>2. ResearchType'
    BY <1>0, <2>1 DEF ResearchType
  <2>3. ASSUME ~crossed
        PROVE  cancelled /\ \A q \in Questions : loop[q] \notin {"posting", "polling"}
    BY <1>0, <2>1, <2>3 DEF OneAtATime, InStep
  <2>4. OneAtATime'
    BY <1>0, <2>1, <2>3 DEF OneAtATime, InStep, R!Following, R!Busy
  <2>5. R!FollowsItsJob'
    BY <1>0, <2>1, <2>3 DEF R!FollowsItsJob, R!Abandoned, R!Following, R!Busy
  <2> QED
    BY <2>2, <2>4, <2>5 DEF ResearchHolds
<1>9. CASE R!Back
  <2>1. /\ status = "done" /\ cancelled' = TRUE /\ status' = "idle"
        /\ UNCHANGED <<loop, opening, crossed, interrupted>>
    BY <1>9 DEF R!Back, R!Show
  <2>2. ResearchType'
    BY <1>0, <2>1 DEF ResearchType
  <2>3. OneAtATime'
    BY <1>0, <2>1 DEF OneAtATime, InStep, R!Following, R!Busy
  <2>4. R!FollowsItsJob'
    BY <2>1 DEF R!FollowsItsJob, R!Abandoned, R!Busy
  <2> QED
    BY <2>2, <2>3, <2>4 DEF ResearchHolds
<1>10. ASSUME NEW q \in Questions, R!NotRead(q) PROVE ResearchHolds'
  <2>1. /\ loop[q] \in {"posting", "polling"} /\ loop' = [loop EXCEPT ![q] = "unread"]
        /\ UNCHANGED <<status, jobId, result, cancelled, opening, crossed, interrupted>>
    BY <1>10 DEF R!NotRead
  <2>2. ResearchType'
    BY <1>0, <2>1 DEF ResearchType
  <2>3. loop'[q] = "unread"
    BY <1>0, <2>1 DEF ResearchType
  <2>4. ASSUME ~crossed PROVE jobId \in {None, q} /\ OneAtATime'
    <3>1. R!Following(q)
      BY <2>1 DEF R!Following
    <3>2. /\ \A p \in Questions : p # q => InStep(p)'
          /\ \A p, o \in Questions : R!Following(p)' /\ R!Following(o)' => p = o
      BY <2>1, <2>4, <3>1, OthersStay
    <3>3. jobId \in {None, q}
      BY <1>0, <2>1, <2>4 DEF OneAtATime, InStep
    <3> QED
      BY <1>0, <2>1, <2>3, <3>2, <3>3 DEF OneAtATime, InStep, R!Busy
  <2>5. R!FollowsItsJob'
    BY <1>0, <2>1, <2>3, <2>4 DEF R!FollowsItsJob, R!Abandoned, R!Busy
  <2> QED
    BY <2>1, <2>2, <2>4, <2>5 DEF ResearchHolds, OneAtATime
<1>11. CASE UNCHANGED research
  BY <1>0, <1>11 DEF research, ResearchHolds, ResearchType, OneAtATime, InStep, R!FollowsItsJob, R!Abandoned,
                     R!Following, R!Busy
<1> QED
  BY <1>1, <1>2, <1>3, <1>4, <1>5, <1>6, <1>7, <1>8, <1>9, <1>10, <1>11
     DEF R!Next, R!NotPosted, R!PollFails, R!Following
(***************************************************************************)
(* The microphone button: unless a recording is started beside another,    *)
(* the one that holds the microphone is the one that stop() is called of,  *)
(* and has a timer.                                                        *)
(***************************************************************************)

RecordingPhases ==
  {"free", "asking", "recording", "stuck", "stopping", "converting", "transcribing", "kept"}
Recording == [phase : RecordingPhases, mic : BOOLEAN, timer : BOOLEAN, escape : BOOLEAN]

RecorderType ==
  /\ caller \in {"button", "form"} /\ buttonShown \in BOOLEAN
  /\ buttonState \in {"idle", "recording", "transcribing", "error"}
  /\ current \in {None} \cup Recordings /\ stopTimer \in {None} \cup Recordings
  /\ rec \in [Recordings -> Recording]
  /\ active \in BOOLEAN /\ doubled \in BOOLEAN

Records(m) == rec[m].phase \in M!Running
UnderWay(m) == rec[m].phase \in {"asking", "stopping"} \cup M!Running

\* Who holds the microphone, and how many
MicHeld ==
  /\ \A m \in Recordings : rec[m].mic => Records(m) \/ rec[m].phase \in {"stopping", "kept"}
  /\ \A m \in Recordings : rec[m].timer \/ rec[m].escape => current # None
  /\ ~doubled =>
       /\ \A m, n \in Recordings : UnderWay(m) /\ UnderWay(n) => m = n
       /\ \A m \in Recordings : Records(m) => current = m /\ (rec[m].timer \/ rec[m].escape)

Saying ==
  buttonShown =>
    /\ buttonState = "recording" =>
         current \in Recordings /\ rec[current].phase \in {"stopping", "converting"} \cup M!Running
    /\ buttonState = "transcribing" => \E m \in Recordings : rec[m].phase = "transcribing"

Questioning == (active => buttonShown /\ caller = "form") /\ M!QuestionsGoOn

RecorderHolds == RecorderType /\ MicHeld /\ Saying /\ Questioning

LEMMA MicReturned == RecorderHolds => M!MicrophoneIsReturned
<1> SUFFICES ASSUME RecorderHolds, ~doubled PROVE M!MicrophoneIsReturned
  BY DEF M!MicrophoneIsReturned
<1>1. \A m \in Recordings : rec[m].phase = "kept" \/ M!MicIsReturned(m)
  BY DEF RecorderHolds, MicHeld, Records, M!MicIsReturned
<1>2. buttonShown => M!SaysWhatItDoes
  BY DEF RecorderHolds, Saying, M!SaysWhatItDoes
<1> QED
  BY <1>1, <1>2 DEF RecorderHolds, Questioning, M!MicrophoneIsReturned

LEMMA RecorderInit == M!Init => RecorderHolds
<1> SUFFICES ASSUME M!Init PROVE RecorderHolds
  OBVIOUS
<1>1. rec = [m \in Recordings |-> M!NotStarted] /\ M!NotStarted \in Recording
  BY DEF M!Init, M!NotStarted, Recording, RecordingPhases
<1>2. RecorderType
  BY <1>1 DEF M!Init, RecorderType
<1>3. MicHeld
  BY <1>1 DEF MicHeld, Records, UnderWay, M!NotStarted, M!Running
<1>4. Saying
  BY DEF M!Init, Saying
<1>5. Questioning
  BY DEF M!Init, Questioning, M!QuestionsGoOn, M!GoesOn
<1> QED
  BY <1>2, <1>3, <1>4, <1>5 DEF RecorderHolds

(* What stop() comes to, of recordings that are r by then *)

Untouched(r, m) == rec'[m] = r[m] /\ ~(m = current /\ r[m].phase \in M!Running)
Cut(r, m) ==
  /\ m = current /\ r[m].phase \in M!Running
  /\ ~rec'[m].mic /\ rec'[m].phase \in {"stopping", "free"}
Beside(r, m) ==
  /\ m # current /\ current \in Recordings /\ r[current].phase \in M!Running
  /\ rec'[m] = [r[m] EXCEPT !.timer = FALSE]
Stopping(r, m) ==
  /\ m = current /\ r[m].phase \in M!Running
  /\ \E p \in {"stopping", "stuck"} : rec'[m] = [r[m] EXCEPT !.phase = p]

Cuts(r) ==
  /\ rec' \in [Recordings -> Recording] /\ stopTimer' \in {None} \cup Recordings
  /\ buttonState' = IF buttonShown THEN "error" ELSE buttonState
  /\ \A m \in Recordings : Untouched(r, m) \/ Cut(r, m) \/ Beside(r, m)

Stops(r) ==
  /\ rec' \in [Recordings -> Recording] /\ stopTimer' \in {None} \cup Recordings
  /\ buttonState' = buttonState
  /\ \A m \in Recordings : Untouched(r, m) \/ Stopping(r, m)

LEMMA ForceStopCuts ==
  ASSUME RecorderType, NEW r \in [Recordings -> Recording], NEW w,
         current \in Recordings, r[current].phase \in M!Running, M!ForceStop(r, w)
  PROVE  Cuts(r)
<1>1. PICK p \in {"stopping", "free"} :
        rec' = [M!Cleared(r) EXCEPT ![current].mic = FALSE, ![current].phase = p]
  BY DEF M!ForceStop
<1>2. /\ M!Cleared(r) \in [Recordings -> Recording]
      /\ \A m \in Recordings : M!Cleared(r)[m] \in {r[m], [r[m] EXCEPT !.timer = FALSE]}
  <2>1. CASE stopTimer = None
    BY <2>1 DEF M!Cleared
  <2>2. CASE stopTimer \in Recordings /\ stopTimer # None
    <3>1. [r[stopTimer] EXCEPT !.timer = FALSE] \in Recording
      BY <2>2 DEF Recording
    <3> QED
      BY <2>2, <3>1 DEF M!Cleared
  <2> QED
    BY <2>1, <2>2 DEF RecorderType
<1> DEFINE q == M!Cleared(r)
           c == [q[current] EXCEPT !.mic = FALSE, !.phase = p]
<1>3. c \in Recording /\ ~c.mic /\ c.phase = p
  BY <1>2 DEF Recording, RecordingPhases
<1>4. rec' = [q EXCEPT ![current] = c]
  BY <1>1, <1>2
<1> HIDE DEF q, c
<1>5. rec' \in [Recordings -> Recording] /\ \A m \in Recordings : rec'[m] = IF m = current THEN c ELSE q[m]
  BY <1>2, <1>3, <1>4 DEF q
<1>6. \A m \in Recordings : Untouched(r, m) \/ Cut(r, m) \/ Beside(r, m)
  BY <1>2, <1>3, <1>5 DEF q, Untouched, Cut, Beside
<1> QED
  BY <1>5, <1>6 DEF M!ForceStop, M!Says, Cuts

LEMMA StopRecordingStops ==
  ASSUME RecorderType, NEW r \in [Recordings -> Recording], NEW w, M!StopRecording(r, w)
  PROVE  Stops(r) \/ (Cuts(r) /\ current \in Recordings /\ r[current].phase \in M!Running)
<1>1. CASE current = None \/ r[current].phase \notin M!Running
  <2>1. rec' = r /\ UNCHANGED <<buttonState, stopTimer>>
    BY <1>1 DEF M!StopRecording
  <2>2. \A m \in Recordings : Untouched(r, m)
    BY <1>1, <2>1, PagesAssumption DEF Untouched
  <2> QED
    BY <2>1, <2>2 DEF Stops, RecorderType
<1>2. CASE current # None /\ r[current].phase \in M!Running
  <2>1. current \in Recordings
    BY <1>2 DEF RecorderType
  <2>2. CASE M!ForceStop(r, w)
    BY <1>2, <2>1, <2>2, ForceStopCuts
  <2>3. ASSUME NEW p \in {"stopping", "stuck"}, rec' = [r EXCEPT ![current].phase = p],
               UNCHANGED <<buttonState, stopTimer>>
        PROVE  Stops(r)
    <3>1. [r[current] EXCEPT !.phase = p] \in Recording
      BY <2>1 DEF Recording, RecordingPhases
    <3>2. rec' = [r EXCEPT ![current] = [r[current] EXCEPT !.phase = p]]
      BY <2>1, <2>3
    <3>3. \A m \in Recordings : rec'[m] = IF m = current THEN [r[current] EXCEPT !.phase = p] ELSE r[m]
      BY <3>2
    <3>4. \A m \in Recordings : Untouched(r, m) \/ Stopping(r, m)
      BY <1>2, <3>3 DEF Untouched, Stopping
    <3> QED
      BY <2>3, <3>1, <3>2, <3>4 DEF Stops, RecorderType
  <2> QED
    BY <1>2, <2>1, <2>2, <2>3 DEF M!StopRecording
<1> QED
  BY <1>1, <1>2

\* A call of stop(), whatever comes of it, leaves the microphone held as it should be.
LEMMA StopKeeps ==
  ASSUME RecorderHolds, NEW r \in [Recordings -> Recording],
         \/ Cuts(r)
         \/ /\ Stops(r)
            /\ r[current].phase \in M!Running =>
                 \A m \in Recordings : rec[m].timer \/ rec[m].escape => r[m].timer \/ r[m].escape,
         \A m \in Recordings : r[m].phase = rec[m].phase /\ r[m].mic = rec[m].mic,
         \A m \in Recordings : r[m].timer \/ r[m].escape => rec[m].timer \/ rec[m].escape,
         UNCHANGED <<current, doubled>>
  PROVE  /\ MicHeld'
         /\ buttonShown' = buttonShown => Saying'
         /\ UNCHANGED <<active, tasks, buttonShown, caller>> => Questioning'
<1>0. RecorderType /\ MicHeld /\ Saying /\ Questioning
  BY DEF RecorderHolds
<1>1. ASSUME NEW m \in Recordings
      PROVE  \/ Untouched(r, m)
             \/ Cut(r, m) /\ Cuts(r)
             \/ Beside(r, m)
             \/ Stopping(r, m) /\ (rec[m].timer \/ rec[m].escape => r[m].timer \/ r[m].escape)
  BY DEF Stops, Cuts, Stopping
<1>2. /\ \A m \in Recordings : r[m] \in Recording /\ rec'[m] \in Recording
      /\ rec' \in [Recordings -> Recording]
  BY DEF Stops, Cuts
<1>3. \A m \in Recordings : Beside(r, m) =>
        /\ rec'[m].phase = r[m].phase /\ rec'[m].mic = r[m].mic /\ rec'[m].escape = r[m].escape
        /\ ~rec'[m].timer
  BY <1>2 DEF Beside, Recording
<1>4. \A m \in Recordings : Stopping(r, m) =>
        /\ rec'[m].phase \in {"stopping", "stuck"} /\ rec'[m].mic = r[m].mic
        /\ rec'[m].escape = r[m].escape /\ rec'[m].timer = r[m].timer
  BY <1>2 DEF Stopping, Recording
<1>5. ASSUME NEW m \in Recordings
      PROVE  /\ rec'[m].mic => Records(m)' \/ rec'[m].phase \in {"stopping", "kept"}
             /\ rec'[m].timer \/ rec'[m].escape => current' # None
             /\ UnderWay(m)' => UnderWay(m)
             /\ ~doubled /\ Records(m)' => current = m /\ (rec'[m].timer \/ rec'[m].escape)
  <2>1. CASE Untouched(r, m)
    BY <1>0, <2>1 DEF Untouched, MicHeld, Records, UnderWay
  <2>2. CASE Cut(r, m)
    <3>1. current # None
      BY <2>2, PagesAssumption DEF Cut
    <3> QED
      BY <1>0, <2>2, <3>1 DEF Cut, MicHeld, Records, UnderWay, M!Running
  <2>3. CASE Beside(r, m)
    <3>1. ~doubled => ~Records(m)
      BY <1>0, <2>3 DEF Beside, MicHeld, Records
    <3> QED
      BY <1>0, <1>3, <2>3, <3>1 DEF MicHeld, Records, UnderWay
  <2>4. CASE Stopping(r, m) /\ (rec[m].timer \/ rec[m].escape => r[m].timer \/ r[m].escape)
    BY <1>0, <1>4, <2>4 DEF Stopping, MicHeld, Records, UnderWay, M!Running
  <2> QED
    BY <1>1, <2>1, <2>2, <2>3, <2>4
<1>6. MicHeld'
  BY <1>0, <1>5 DEF MicHeld
<1>7. ASSUME Stops(r), NEW m \in Recordings
      PROVE  /\ rec'[m].phase = rec[m].phase \/ (Records(m) /\ rec'[m].phase \in {"stopping", "stuck"})
  BY <1>4, <1>7 DEF Stops, Untouched, Stopping, Records
<1>8. ASSUME buttonShown' = buttonShown PROVE Saying'
  <2>1. CASE Cuts(r)
    BY <1>8, <2>1 DEF Cuts, Saying
  <2>2. CASE Stops(r)
    BY <1>0, <1>7, <1>8, <2>2 DEF Stops, Saying, Records, M!Running
  <2> QED
    BY <2>1, <2>2
<1>9. ASSUME UNCHANGED <<active, tasks, buttonShown, caller>> PROVE Questioning'
  <2>1. CASE Cuts(r)
    BY <1>0, <1>9, <2>1 DEF Cuts, Questioning, M!QuestionsGoOn, M!GoesOn
  <2>2. CASE Stops(r)
    BY <1>0, <1>7, <1>9, <2>2 DEF Stops, Questioning, M!QuestionsGoOn, M!GoesOn, Records
  <2> QED
    BY <2>1, <2>2
<1> QED
  BY <1>6, <1>8, <1>9

\* Only the phase of the recording m changes.
LEMMA PhaseSet ==
  ASSUME RecorderType, NEW m \in Recordings, NEW p \in RecordingPhases,
         rec' = [rec EXCEPT ![m].phase = p]
  PROVE  /\ rec' \in [Recordings -> Recording]
         /\ rec'[m].phase = p /\ rec'[m].mic = rec[m].mic
         /\ rec'[m].timer = rec[m].timer /\ rec'[m].escape = rec[m].escape
         /\ \A n \in Recordings : n # m => rec'[n] = rec[n]
<1>1. rec \in [Recordings -> Recording] /\ rec[m] \in Recording
  BY DEF RecorderType
<1>2. /\ [rec[m] EXCEPT !.phase = p] \in Recording
      /\ [rec[m] EXCEPT !.phase = p].phase = p
      /\ [rec[m] EXCEPT !.phase = p].mic = rec[m].mic
      /\ [rec[m] EXCEPT !.phase = p].timer = rec[m].timer
      /\ [rec[m] EXCEPT !.phase = p].escape = rec[m].escape
  BY <1>1 DEF Recording
<1>3. rec' = [rec EXCEPT ![m] = [rec[m] EXCEPT !.phase = p]]
  BY <1>1
<1> QED
  BY <1>1, <1>2, <1>3

\* A recording that does not hold the microphone goes on, or ends.
LEMMA GoingOn ==
  ASSUME RecorderHolds, NEW m \in Recordings, NEW p \in {"free", "transcribing"},
         rec[m].phase \in {"asking", "converting", "transcribing"},
         rec' = [rec EXCEPT ![m].phase = p], UNCHANGED <<current, doubled>>
  PROVE  rec' \in [Recordings -> Recording] /\ MicHeld' /\ rec'[m].phase = p
<1>0. RecorderType /\ MicHeld
  BY DEF RecorderHolds
<1>1. /\ rec' \in [Recordings -> Recording]
      /\ rec'[m].phase = p /\ rec'[m].mic = rec[m].mic
      /\ rec'[m].timer = rec[m].timer /\ rec'[m].escape = rec[m].escape
      /\ \A n \in Recordings : n # m => rec'[n] = rec[n]
  BY <1>0, PhaseSet DEF RecordingPhases
<1>2. ~rec[m].mic
  BY <1>0 DEF MicHeld, Records, M!Running
<1>3. \A n \in Recordings : (UnderWay(n)' => UnderWay(n) /\ n # m) /\ (Records(n)' => Records(n) /\ n # m)
  BY <1>1 DEF UnderWay, Records, M!Running
<1>4. MicHeld'
  BY <1>0, <1>1, <1>2, <1>3 DEF MicHeld, Records
<1> QED
  BY <1>1, <1>4

\* Another recording is started.
LEMMA StartKeeps ==
  ASSUME RecorderHolds, NEW m \in Recordings, M!Start(m), caller' = caller, active' = active
  PROVE  RecorderHolds'
<1>0. RecorderType /\ MicHeld /\ Saying /\ Questioning
  BY DEF RecorderHolds
<1>1. /\ rec[m] = M!NotStarted
      /\ rec' = [rec EXCEPT ![m].phase = "asking"]
      /\ doubled' = (doubled \/ \E n \in Recordings : UnderWay(n))
      /\ UNCHANGED <<buttonShown, buttonState, current, stopTimer>>
  BY DEF M!Start, M!Goes, UnderWay
<1>2. /\ rec' \in [Recordings -> Recording]
      /\ rec'[m].phase = "asking" /\ ~rec'[m].mic /\ ~rec'[m].timer /\ ~rec'[m].escape
      /\ \A n \in Recordings : n # m => rec'[n] = rec[n]
  <2>1. "asking" \in RecordingPhases
    BY DEF RecordingPhases
  <2>2. /\ rec' \in [Recordings -> Recording]
        /\ rec'[m].phase = "asking" /\ rec'[m].mic = rec[m].mic
        /\ rec'[m].timer = rec[m].timer /\ rec'[m].escape = rec[m].escape
        /\ \A n \in Recordings : n # m => rec'[n] = rec[n]
    BY <1>0, <1>1, <2>1, PhaseSet
  <2>3. ~rec[m].mic /\ ~rec[m].timer /\ ~rec[m].escape
    BY <1>1 DEF M!NotStarted
  <2> QED
    BY <2>2, <2>3
<1>3. doubled' \in BOOLEAN
  BY <1>0, <1>1 DEF RecorderType
<1>4. RecorderType'
  BY <1>0, <1>1, <1>2, <1>3 DEF RecorderType
<1>5. MicHeld'
  <2>1. ~doubled' => ~doubled /\ \A n \in Recordings : ~UnderWay(n)
    BY <1>1
  <2>2. \A n \in Recordings : n # m => (UnderWay(n)' <=> UnderWay(n)) /\ (Records(n)' <=> Records(n))
    BY <1>2 DEF UnderWay, Records
  <2> QED
    BY <1>0, <1>1, <1>2, <2>1, <2>2 DEF MicHeld, Records, M!Running
<1>6. Saying'
  BY <1>0, <1>1, <1>2 DEF Saying, M!NotStarted, M!Running
<1>7. Questioning'
  BY <1>0, <1>1, <1>2 DEF Questioning, M!QuestionsGoOn, M!GoesOn
<1> QED
  BY <1>4, <1>5, <1>6, <1>7 DEF RecorderHolds

\* A step of one recording
LEMMA RecordingKeeps ==
  ASSUME RecorderHolds, NEW m \in Recordings,
         \/ M!Granted(m) \/ M!Denied(m) \/ M!Unrecordable(m) \/ M!OnStop(m) \/ M!Converted(m)
         \/ M!NotTranscribed(m) \/ M!Transcribed(m)
  PROVE  RecorderHolds'
<1>0. RecorderType /\ MicHeld /\ Saying /\ Questioning
  BY DEF RecorderHolds
<1> USE DEF M!form, M!bounds
<1>1. CASE M!Granted(m)
  <2> DEFINE granted == [phase |-> "recording", mic |-> TRUE, timer |-> TRUE, escape |-> FALSE]
  <2>1. /\ rec[m].phase = "asking" /\ rec' = [rec EXCEPT ![m] = granted]
        /\ current' = m /\ stopTimer' = m
        /\ buttonState' = IF buttonShown THEN "recording" ELSE buttonState
        /\ UNCHANGED <<caller, buttonShown, active, tasks, doubled>>
    BY <1>1 DEF M!Granted, M!Says
  <2>2. granted \in Recording
    BY DEF Recording, RecordingPhases
  <2>3. /\ rec' \in [Recordings -> Recording] /\ rec'[m] = granted
        /\ \A n \in Recordings : n # m => rec'[n] = rec[n]
    BY <1>0, <2>1, <2>2 DEF RecorderType
  <2>4. RecorderType'
    BY <1>0, <2>1, <2>3 DEF RecorderType
  <2>5. UnderWay(m)
    BY <2>1 DEF UnderWay
  <2>6. \A n \in Recordings : n # m =>
          (UnderWay(n)' <=> UnderWay(n)) /\ (Records(n)' <=> Records(n)) /\ (Records(n) => UnderWay(n))
    BY <2>3 DEF UnderWay, Records
  <2>7. m # None
    BY PagesAssumption
  <2>8. MicHeld'
    BY <1>0, <2>1, <2>3, <2>5, <2>6, <2>7 DEF MicHeld, Records, M!Running
  <2>9. Saying'
    BY <2>1, <2>3 DEF Saying, M!Running
  <2>10. Questioning'
    BY <1>0, <2>1, <2>3 DEF Questioning, M!QuestionsGoOn, M!GoesOn
  <2> QED
    BY <2>4, <2>8, <2>9, <2>10 DEF RecorderHolds
<1>2. CASE M!Denied(m)
  <2>1. /\ rec[m].phase = "asking" /\ rec' = [rec EXCEPT ![m].phase = "free"]
        /\ buttonState' = IF buttonShown THEN "error" ELSE buttonState
        /\ UNCHANGED <<caller, buttonShown, current, stopTimer, active, tasks, doubled>>
    BY <1>2 DEF M!Denied, M!Ends, M!Says
  <2>2. rec' \in [Recordings -> Recording] /\ MicHeld'
    BY <2>1, GoingOn
  <2> QED
    BY <1>0, <2>1, <2>2 DEF RecorderHolds, RecorderType, Saying, Questioning, M!QuestionsGoOn, M!GoesOn
<1>3. CASE M!OnStop(m)
  <2> DEFINE q == M!Cleared(rec)
             c == [q[m] EXCEPT !.mic = FALSE, !.phase = "converting"]
  <2>1. /\ rec[m].phase = "stopping"
        /\ rec' = [q EXCEPT ![m].mic = FALSE, ![m].phase = "converting"]
        /\ stopTimer' = None
        /\ UNCHANGED <<caller, buttonShown, buttonState, current, active, tasks, doubled>>
    BY <1>3 DEF M!OnStop, M!Released
  <2>2. /\ q \in [Recordings -> Recording]
        /\ \A n \in Recordings : q[n] \in {rec[n], [rec[n] EXCEPT !.timer = FALSE]}
    <3>1. CASE stopTimer = None
      BY <1>0, <3>1 DEF M!Cleared, RecorderType
    <3>2. CASE stopTimer \in Recordings /\ stopTimer # None
      <4>1. [rec[stopTimer] EXCEPT !.timer = FALSE] \in Recording
        BY <1>0, <3>2 DEF RecorderType, Recording
      <4> QED
        BY <1>0, <3>2, <4>1 DEF M!Cleared, RecorderType
    <3> QED
      BY <1>0, <3>1, <3>2 DEF RecorderType
  <2>3. \A n \in Recordings :
          /\ q[n].phase = rec[n].phase /\ q[n].mic = rec[n].mic /\ q[n].escape = rec[n].escape
          /\ q[n].timer => rec[n].timer
    <3>1. \A n \in Recordings : rec[n] \in Recording
      BY <1>0 DEF RecorderType
    <3> QED
      BY <2>2, <3>1 DEF Recording
  <2>4. c \in Recording /\ ~c.mic /\ c.phase = "converting" /\ c.timer = q[m].timer /\ c.escape = q[m].escape
    <3>1. q[m] \in Recording
      BY <2>2
    <3>2. \A x \in Recording :
            LET y == [x EXCEPT !.mic = FALSE, !.phase = "converting"]
            IN  /\ y \in Recording /\ ~y.mic /\ y.phase = "converting"
                /\ y.timer = x.timer /\ y.escape = x.escape
      BY DEF Recording, RecordingPhases
    <3> QED
      BY <3>1, <3>2
  <2>5. rec' = [q EXCEPT ![m] = c]
    BY <2>1, <2>2
  <2> HIDE DEF q, c
  <2>6. rec' \in [Recordings -> Recording] /\ \A n \in Recordings : rec'[n] = IF n = m THEN c ELSE q[n]
    BY <2>2, <2>4, <2>5
  <2>7. UnderWay(m)
    BY <2>1 DEF UnderWay
  <2>8. \A n \in Recordings :
          /\ UnderWay(n)' => UnderWay(n) /\ n # m
          /\ Records(n)' => Records(n) /\ UnderWay(n) /\ n # m
    BY <2>3, <2>4, <2>6 DEF UnderWay, Records, M!Running
  <2>9. MicHeld'
    BY <1>0, <2>1, <2>3, <2>4, <2>6, <2>7, <2>8 DEF MicHeld, Records
  <2>10. Saying'
    BY <1>0, <2>1, <2>3, <2>4, <2>6 DEF Saying
  <2>11. Questioning'
    BY <1>0, <2>1, <2>3, <2>4, <2>6 DEF Questioning, M!QuestionsGoOn, M!GoesOn
  <2>12. RecorderType'
    BY <1>0, <2>1, <2>6 DEF RecorderType
  <2> QED
    BY <2>9, <2>10, <2>11, <2>12 DEF RecorderHolds
<1>4. CASE M!Converted(m)
  <2>1. PICK p \in {"free", "transcribing"} :
          /\ rec[m].phase = "converting" /\ rec' = [rec EXCEPT ![m].phase = p]
          /\ buttonState' = IF buttonShown THEN (IF p = "free" THEN "error" ELSE "transcribing")
                            ELSE buttonState
          /\ UNCHANGED <<caller, buttonShown, current, stopTimer, active, tasks, doubled>>
    BY <1>4 DEF M!Converted, M!Goes, M!Ends, M!Says
  <2>2. rec' \in [Recordings -> Recording] /\ MicHeld' /\ rec'[m].phase = p
    BY <2>1, GoingOn
  <2>3. RecorderType'
    BY <1>0, <2>1, <2>2 DEF RecorderType
  <2>4. Saying'
    BY <2>1, <2>2 DEF Saying
  <2>5. Questioning'
    BY <1>0, <2>1, <2>2 DEF Questioning, M!QuestionsGoOn, M!GoesOn
  <2> QED
    BY <2>2, <2>3, <2>4, <2>5 DEF RecorderHolds
<1>5. CASE M!NotTranscribed(m)
  <2>1. /\ rec[m].phase = "transcribing" /\ rec' = [rec EXCEPT ![m].phase = "free"]
        /\ buttonState' = IF buttonShown THEN "error" ELSE buttonState
        /\ UNCHANGED <<caller, buttonShown, current, stopTimer, active, tasks, doubled>>
    BY <1>5 DEF M!NotTranscribed, M!Ends, M!Says
  <2>2. rec' \in [Recordings -> Recording] /\ MicHeld'
    BY <2>1, GoingOn
  <2> QED
    BY <1>0, <2>1, <2>2 DEF RecorderHolds, RecorderType, Saying, Questioning, M!QuestionsGoOn, M!GoesOn
<1>6. CASE M!Transcribed(m)
  <2>1. /\ rec[m].phase = "transcribing" /\ rec' = [rec EXCEPT ![m].phase = "free"]
        /\ buttonState' = IF buttonShown THEN "idle" ELSE buttonState
        /\ caller = "form" => tasks' # {}
        /\ UNCHANGED <<caller, buttonShown, current, stopTimer, active, doubled>>
    BY <1>6 DEF M!Transcribed, M!Ends, M!Says
  <2>2. rec' \in [Recordings -> Recording] /\ MicHeld'
    BY <2>1, GoingOn
  <2> QED
    BY <1>0, <2>1, <2>2 DEF RecorderHolds, RecorderType, Saying, Questioning, M!QuestionsGoOn, M!GoesOn
<1>7. CASE M!Unrecordable(m)
  <2> DEFINE kept == [rec[m] EXCEPT !.phase = "kept", !.mic = TRUE]
  <2>1. /\ rec[m].phase = "asking" /\ rec' = [rec EXCEPT ![m].phase = "kept", ![m].mic = TRUE]
        /\ buttonState' = IF buttonShown THEN "error" ELSE buttonState
        /\ UNCHANGED <<caller, buttonShown, current, stopTimer, active, tasks, doubled>>
    BY <1>7 DEF M!Unrecordable, M!Says
  <2>2. /\ kept \in Recording /\ kept.phase = "kept" /\ kept.mic
        /\ kept.timer = rec[m].timer /\ kept.escape = rec[m].escape
    <3>1. \A x \in Recording :
            LET y == [x EXCEPT !.phase = "kept", !.mic = TRUE]
            IN  /\ y \in Recording /\ y.phase = "kept" /\ y.mic
                /\ y.timer = x.timer /\ y.escape = x.escape
      BY DEF Recording, RecordingPhases
    <3>2. rec[m] \in Recording
      BY <1>0 DEF RecorderType
    <3> QED
      BY <3>1, <3>2
  <2>3. rec' = [rec EXCEPT ![m] = kept]
    BY <1>0, <2>1 DEF RecorderType
  <2> HIDE DEF kept
  <2>4. /\ rec' \in [Recordings -> Recording] /\ rec'[m] = kept
        /\ \A n \in Recordings : n # m => rec'[n] = rec[n]
    BY <1>0, <2>2, <2>3 DEF RecorderType
  <2>5. \A n \in Recordings : (UnderWay(n)' => UnderWay(n) /\ n # m) /\ (Records(n)' => Records(n) /\ n # m)
    BY <2>2, <2>4 DEF UnderWay, Records, M!Running
  <2>6. \A n \in Recordings : n # m => (Records(n)' <=> Records(n))
    BY <2>4 DEF Records
  <2>7. MicHeld'
    BY <1>0, <2>1, <2>2, <2>4, <2>5, <2>6 DEF MicHeld
  <2>8. RecorderType'
    BY <1>0, <2>1, <2>4 DEF RecorderType
  <2>9. Saying' /\ Questioning'
    BY <1>0, <2>1 DEF Saying, Questioning, M!QuestionsGoOn, M!GoesOn
  <2> QED
    BY <2>7, <2>8, <2>9 DEF RecorderHolds
<1> QED
  BY <1>1, <1>2, <1>3, <1>4, <1>5, <1>6, <1>7

\* A call of stop() by what is heard, by a timer, by a click, or by the form
LEMMA StoppingKeeps ==
  ASSUME RecorderHolds, NEW r \in [Recordings -> Recording],
         \A m \in Recordings : r[m].phase = rec[m].phase /\ r[m].mic = rec[m].mic,
         \A m \in Recordings : (r[m].timer \/ r[m].escape) <=> (rec[m].timer \/ rec[m].escape),
         NEW w, M!StopRecording(r, w), UNCHANGED <<caller, current, doubled, tasks>>,
         \/ UNCHANGED <<buttonShown, active>>
         \/ buttonShown' = FALSE /\ active' = FALSE
  PROVE  RecorderHolds'
<1>0. RecorderType
  BY DEF RecorderHolds
<1>1. Stops(r) \/ Cuts(r)
  BY <1>0, StopRecordingStops
<1>2. /\ MicHeld'
      /\ buttonShown' = buttonShown => Saying'
      /\ UNCHANGED <<active, tasks, buttonShown, caller>> => Questioning'
  BY <1>1, StopKeeps
<1>3. RecorderType'
  <2>1. buttonState' \in {"error", buttonState} /\ rec' \in [Recordings -> Recording] /\ stopTimer' \in {None} \cup Recordings
    BY <1>1 DEF Stops, Cuts
  <2> QED
    BY <1>0, <2>1 DEF RecorderType
<1>4. Saying'
  BY <1>2 DEF Saying
<1>5. Questioning'
  BY <1>2 DEF Questioning, M!QuestionsGoOn, M!GoesOn
<1> QED
  BY <1>2, <1>3, <1>4, <1>5 DEF RecorderHolds

\* What the user and the form do
LEMMA CallerKeeps ==
  ASSUME RecorderHolds, M!Click \/ M!Leave \/ M!Speak \/ M!Classified \/ M!Cancel
  PROVE  RecorderHolds'
<1>0. RecorderType /\ MicHeld /\ Saying /\ Questioning /\ rec \in [Recordings -> Recording]
  BY DEF RecorderHolds, RecorderType
<1> USE DEF M!form, M!bounds, M!button
<1>1. CASE M!Click
  <2>1. CASE \E m \in Recordings : M!Start(m)
    BY <1>1, <2>1, StartKeeps DEF M!Click
  <2>2. CASE M!StopRecording(rec, watched) /\ UNCHANGED <<buttonShown, current, doubled>>
    BY <1>0, <1>1, <2>2, StoppingKeeps DEF M!Click
  <2> QED
    BY <1>1, <2>1, <2>2 DEF M!Click
<1>2. CASE M!Leave
  <2>1. /\ caller = "button" /\ buttonShown' = FALSE
        /\ UNCHANGED <<caller, buttonState, current, stopTimer, rec, active, tasks, doubled>>
    BY <1>2 DEF M!Leave
  <2>2. ~active
    BY <1>0, <2>1 DEF Questioning
  <2> QED
    BY <1>0, <2>1, <2>2 DEF RecorderHolds, RecorderType, MicHeld, Records, UnderWay, Saying, Questioning,
                           M!QuestionsGoOn, M!GoesOn
<1>3. CASE M!Speak
  <2>1. /\ UNCHANGED <<caller, active>>
        /\ \/ tasks' # {} /\ UNCHANGED <<buttonShown, buttonState, current, stopTimer, rec, doubled>>
           \/ M!StartIfShown
    BY <1>3 DEF M!Speak, M!Said
  <2>2. CASE tasks' # {} /\ UNCHANGED <<buttonShown, buttonState, current, stopTimer, rec, doubled>>
    BY <1>0, <2>1, <2>2 DEF RecorderHolds, RecorderType, MicHeld, Records, UnderWay, Saying, Questioning,
                           M!QuestionsGoOn, M!GoesOn
  <2>3. CASE \E m \in Recordings : M!Start(m)
    BY <2>1, <2>3, StartKeeps
  <2>4. CASE ~buttonShown /\ UNCHANGED <<buttonShown, buttonState, current, stopTimer, rec, doubled>>
    BY <1>0, <2>1, <2>4 DEF RecorderHolds, RecorderType, MicHeld, Records, UnderWay, Saying, Questioning,
                           M!QuestionsGoOn, M!GoesOn
  <2> QED
    BY <2>1, <2>2, <2>3, <2>4 DEF M!StartIfShown
<1>4. CASE M!Classified
  <2>1. /\ UNCHANGED <<caller, buttonState, current, stopTimer, rec, doubled>>
        /\ \/ tasks' # {} /\ UNCHANGED <<active, buttonShown>>
           \/ active' = FALSE /\ buttonShown' = FALSE
    BY <1>4 DEF M!Classified, M!BackToButtons
  <2>2. RecorderType' /\ MicHeld'
    BY <1>0, <2>1 DEF RecorderType, MicHeld, Records, UnderWay
  <2>3. Saying'
    BY <1>0, <2>1 DEF Saying
  <2>4. Questioning'
    BY <1>0, <2>1 DEF Questioning, M!QuestionsGoOn, M!GoesOn
  <2> QED
    BY <2>2, <2>3, <2>4 DEF RecorderHolds
<1>5. CASE M!Cancel
  BY <1>0, <1>5, StoppingKeeps DEF M!Cancel
<1> QED
  BY <1>1, <1>2, <1>3, <1>4, <1>5

LEMMA RecorderNext == RecorderHolds /\ [M!Next]_recorder => RecorderHolds'
<1> SUFFICES ASSUME RecorderHolds, [M!Next]_recorder PROVE RecorderHolds'
  OBVIOUS
<1>0. RecorderType /\ rec \in [Recordings -> Recording]
  BY DEF RecorderHolds, RecorderType
<1> USE DEF M!form, M!bounds
<1>1. ASSUME NEW m \in Recordings, M!Silence(m) PROVE RecorderHolds'
  BY <1>0, <1>1, StoppingKeeps DEF M!Silence
<1>2. ASSUME NEW m \in Recordings, M!MaxTimer(m) PROVE RecorderHolds'
  <2> DEFINE r == [rec EXCEPT ![m].timer = FALSE, ![m].escape = TRUE]
  <2>1. /\ rec[m].timer /\ M!StopRecording(r, watched)
        /\ UNCHANGED <<caller, buttonShown, current, active, tasks, doubled>>
    BY <1>2 DEF M!MaxTimer
  <2>2. rec[m] \in Recording
    BY <1>0
  <2>3. \A x \in Recording :
          LET y == [x EXCEPT !.timer = FALSE, !.escape = TRUE]
          IN  y \in Recording /\ y.phase = x.phase /\ y.mic = x.mic /\ y.escape
    BY DEF Recording
  <2>4. r = [rec EXCEPT ![m] = [rec[m] EXCEPT !.timer = FALSE, !.escape = TRUE]]
    BY <1>0
  <2> HIDE DEF r
  <2>5. /\ r \in [Recordings -> Recording]
        /\ \A n \in Recordings : r[n].phase = rec[n].phase /\ r[n].mic = rec[n].mic
        /\ \A n \in Recordings : (r[n].timer \/ r[n].escape) <=> (rec[n].timer \/ rec[n].escape)
    BY <1>0, <2>1, <2>2, <2>3, <2>4
  <2> QED
    BY <2>1, <2>5, StoppingKeeps
<1>3. ASSUME NEW m \in Recordings, M!Escape(m) PROVE RecorderHolds'
  <2> DEFINE r == [rec EXCEPT ![m].escape = FALSE]
  <2>1. /\ rec[m].escape
        /\ IF r[current].phase \in M!Running THEN M!ForceStop(r, watched)
           ELSE rec' = r /\ UNCHANGED <<buttonState, stopTimer>>
        /\ UNCHANGED <<caller, buttonShown, current, active, tasks, doubled>>
    BY <1>3 DEF M!Escape
  <2>2. rec[m] \in Recording
    BY <1>0
  <2>3. \A x \in Recording :
          LET y == [x EXCEPT !.escape = FALSE]
          IN  y \in Recording /\ y.phase = x.phase /\ y.mic = x.mic /\ y.timer = x.timer /\ ~y.escape
    BY DEF Recording
  <2>4. r = [rec EXCEPT ![m] = [rec[m] EXCEPT !.escape = FALSE]]
    BY <1>0
  <2>5. current \in Recordings
    BY <1>0, <2>1 DEF RecorderHolds, RecorderType, MicHeld
  <2> HIDE DEF r
  <2>6. /\ r \in [Recordings -> Recording]
        /\ \A n \in Recordings : r[n].phase = rec[n].phase /\ r[n].mic = rec[n].mic
        /\ \A n \in Recordings : (r[n].timer \/ r[n].escape) => (rec[n].timer \/ rec[n].escape)
    BY <1>0, <2>1, <2>2, <2>3, <2>4
  <2>7. r[current].phase \in M!Running => Cuts(r)
    BY <1>0, <2>1, <2>5, <2>6, ForceStopCuts
  <2>8. r[current].phase \notin M!Running => Stops(r)
    BY <1>0, <2>1, <2>6 DEF Stops, Untouched, RecorderType
  <2>9. Cuts(r) \/ (Stops(r) /\ r[current].phase \notin M!Running)
    BY <2>7, <2>8
  <2>10. RecorderType'
    <3>1. buttonState' \in {"error", buttonState} /\ rec' \in [Recordings -> Recording]
          /\ stopTimer' \in {None} \cup Recordings
      BY <2>9 DEF Stops, Cuts
    <3> QED
      BY <1>0, <2>1, <3>1 DEF RecorderType
  <2> QED
    <3>1. /\ MicHeld'
          /\ buttonShown' = buttonShown => Saying'
          /\ UNCHANGED <<active, tasks, buttonShown, caller>> => Questioning'
      BY <2>1, <2>6, <2>9, StopKeeps
    <3> QED
      BY <2>1, <2>10, <3>1 DEF RecorderHolds
<1>4. CASE UNCHANGED recorder
  BY <1>4 DEF recorder, RecorderHolds, RecorderType, MicHeld, Records, UnderWay, Saying, Questioning,
              M!QuestionsGoOn, M!GoesOn
<1> QED
  BY <1>1, <1>2, <1>3, <1>4, RecordingKeeps, CallerKeeps DEF M!Next

(***************************************************************************)
(* The web client.  Each scene is one of the pages, whose invariant its    *)
(* steps keep, and leaves the voice session alone.                         *)
(***************************************************************************)

Pages ==
  /\ scene = "panels" => PanelHolds
  /\ scene = "whatIf" => SlidersHold
  /\ scene = "lists" => ListHolds
  /\ scene = "preferences" => PreferenceHolds
  /\ scene = "research" => ResearchHolds
  /\ scene = "recorder" => RecorderHolds

LEMMA PagesInit == MCInit => Pages
BY PanelInit, SlidersInit, ListInit, PreferenceInit, ResearchInit, RecorderInit DEF MCInit, Pages

LEMMA PagesNext == Pages /\ [MCNext]_<<scene, vars, others>> => Pages'
<1> SUFFICES ASSUME Pages, [MCNext]_<<scene, vars, others>> PROVE Pages'
  OBVIOUS
<1>1. scene' = scene
  BY DEF MCNext
<1>2. /\ scene = "panels" => [P!Next]_panels
      /\ scene = "whatIf" => [W!Next]_sliders
      /\ scene = "lists" => [L!Next]_lists
      /\ scene = "preferences" => [F!Next]_preferences
      /\ scene = "research" => [R!Next]_research
      /\ scene = "recorder" => [M!Next]_recorder
  <2>1. CASE UNCHANGED <<scene, vars, others>>
    BY <2>1 DEF others
  <2>2. CASE MCNext
    BY <2>2 DEF MCNext
  <2> QED
    BY <2>1, <2>2
<1> QED
  BY <1>1, <1>2, PanelNext, SlidersNext, ListNext, PreferenceNext, ResearchNext, RecorderNext DEF Pages

\* The voice session of the web client is one of VoiceSession.
LEMMA SessionOfClient == MCSpec => Spec
<1>1. MCInit => Init
  BY DEF MCInit
<1>2. [MCNext]_<<scene, vars, others>> => [Next]_vars
  BY DEF MCNext
<1> QED
  BY <1>1, <1>2, PTL DEF MCSpec, Spec

\* Once what a page asked for is answered, in whatever order, it shows what is selected, what
\* its sliders are at, the list and the preference that the server has, and the report of the
\* job named: the charts, feeds, lists, sliders, preferences and the research page, each with
\* the provisions stated in its module.
THEOREM PagesShow == MCSpec => []PagesHold
<1>1. Pages => PagesHold
  <2>1. SlidersHold => W!ResultFits
    BY DEF SlidersHold
  <2>2. PreferenceHolds => F!ShowsSaved
    BY DEF PreferenceHolds, OneChange, F!ShowsSaved
  <2>3. ResearchHolds => R!FollowsItsJob
    BY DEF ResearchHolds
  <2> QED
    BY <2>1, <2>2, <2>3, PanelShows, ListShows DEF Pages, PagesHold
<1> QED
  BY <1>1, PagesInit, PagesNext, PTL DEF MCSpec

\* A microphone taken is given back, by the voice session with the turn it was taken for, and
\* by the button whichever of the end of the answer, a click, the timers and the browser comes
\* first, and whatever stop() does; and the questions asked aloud go on.
THEOREM MicrophoneGivenBack == MCSpec => []MicrophoneIsReturned
<1>1. Pages /\ EndedTurnsLeaveNothing => MicrophoneIsReturned
  BY MicReturned DEF Pages, MicrophoneIsReturned
<1> QED
  BY <1>1, SessionOfClient, NothingLeft, PagesInit, PagesNext, PTL DEF MCSpec
=============================================================================
