------------------------------ MODULE Recorder ------------------------------
(***************************************************************************)
(* The microphone button (components/VoiceInputButton.tsx,                 *)
(* lib/getUserMediaWithTimeout.ts): a call of startRecording takes the     *)
(* microphone, silence, a click or a timer stops the recording, and what   *)
(* was recorded is transcribed.  And its caller that asks the questions of *)
(* a new user aloud (components/OnboardingForm.tsx): a question is spoken, *)
(* then the button started, and the answer classified.                     *)
(*                                                                         *)
(* The handle of the button is made once: what it starts calls back the    *)
(* form as it was rendered first, when the step was zero.                  *)
(***************************************************************************)
EXTENDS Naturals, FiniteSets

CONSTANTS
  Recordings,      \* bound: calls of startRecording not yet over at one time
  Questions,       \* VOICE_QUESTIONS: their number
  MaxRetries,      \* MAX_RETRIES_PER_QUESTION
  None,
  MaxFaults,       \* bound: calls of stop() that do not work
  MaxStarts        \* bound: recordings

VARIABLES
  \* the button
  caller,          \* "button", or "form"
  mounted, state,
  current,         \* mediaRecorderRef
  stopTimer,       \* stopTimerRef: the recording whose timer it clears
  watched,         \* the recordings listened to for silence
  rec,
  \* the form
  active,          \* voiceActive
  retried,         \* retryCountRef
  tasks,           \* what its async functions wait for: to say something, or to classify
  asked,           \* history: the question said last
  answers,         \* voiceAnswersRef: by field, the question that was answered
  \* history
  doubled,         \* a recording was started beside another
  faults, starts

button == <<mounted, state, current, stopTimer, watched, rec>>
form == <<active, retried, tasks, asked, answers>>
bounds == <<doubled, faults, starts>>
vars == <<caller, button, form, bounds>>

\* Waiting for the microphone; recording; recording although stop() was called; until onstop;
\* until converted; until transcribed.  Or the microphone is kept, without a recording.
NotStarted == [phase |-> "free", mic |-> FALSE, timer |-> FALSE, escape |-> FALSE]
Running == {"recording", "stuck"}

Fields == 0..(Questions - 1)
Seen == 0
Say(what, q) == [does |-> "say", what |-> what, question |-> q]
Classify(q) == [does |-> "classify", what |-> "answer", question |-> q]

Init ==
  /\ caller \in {"button", "form"}
  /\ mounted = TRUE /\ state = "idle" /\ current = None /\ stopTimer = None /\ watched = {}
  /\ rec = [m \in Recordings |-> NotStarted]
  /\ active = (caller = "form") /\ retried = 0 /\ asked = None
  /\ tasks = (IF caller = "form" THEN {Say("intro", None)} ELSE {})
  /\ answers = [f \in Fields |-> None]
  /\ doubled = FALSE /\ faults = 0 /\ starts = 0

Goes(m, phase) == rec' = [rec EXCEPT ![m].phase = phase]
Ends(m) == [rec EXCEPT ![m].phase = "free"]
\* setState, on a button that is no longer shown, does nothing.
Says(s) == state' = IF mounted THEN s ELSE state

\* stopSilenceWatch: of two loops, the one that ran last
OneLess(w) == IF w = {} THEN {{}} ELSE {w \ {m} : m \in w}
StopWatch(w) == watched' \in OneLess(w)

-----------------------------------------------------------------------------
(* startRecording *)

Start(m) ==
  /\ rec[m] = NotStarted /\ starts < MaxStarts /\ starts' = starts + 1
  /\ Goes(m, "asking")
  /\ doubled' = (doubled \/ \E n \in Recordings : rec[n].phase \in {"asking", "stopping"} \cup Running)
  /\ UNCHANGED <<mounted, state, current, stopTimer, watched, faults>>

\* Also on a button that has been left in the meantime.
Granted(m) ==
  /\ rec[m].phase = "asking"
  /\ rec' = [rec EXCEPT ![m] = [phase |-> "recording", mic |-> TRUE, timer |-> TRUE, escape |-> FALSE]]
  /\ current' = m /\ stopTimer' = m /\ watched' = watched \cup {m}
  /\ Says("recording")
  /\ UNCHANGED <<caller, mounted, form, bounds>>

\* Denied, or not answered in time: what is granted later is given back at once.
Denied(m) ==
  /\ rec[m].phase = "asking"
  /\ rec' = Ends(m) /\ StopWatch(watched)
  /\ Says("error")
  /\ UNCHANGED <<caller, mounted, current, stopTimer, form, bounds>>

\* Granted, but no recorder or no audio context can be made, or the recorder does not start: the
\* catch stops no track.
Unrecordable(m) ==
  /\ rec[m].phase = "asking"
  /\ rec' = [rec EXCEPT ![m].phase = "kept", ![m].mic = TRUE] /\ StopWatch(watched)
  /\ Says("error")
  /\ UNCHANGED <<caller, mounted, current, stopTimer, form, bounds>>

-----------------------------------------------------------------------------
(* stopRecording, forceStopCleanup, onstop *)

Cleared(r) == IF stopTimer = None THEN r ELSE [r EXCEPT ![stopTimer].timer = FALSE]

\* The tracks are stopped; onstop may come of it or not.  r and w: rec and watched so far.
ForceStop(r, w) ==
  /\ \E phase \in {"stopping", "free"} :
       rec' = [Cleared(r) EXCEPT ![current].mic = FALSE, ![current].phase = phase]
  /\ stopTimer' = None /\ StopWatch(w)
  /\ Says("error")

\* stop() works, or throws, or does nothing.
StopRecording(r, w) ==
  IF current = None \/ r[current].phase \notin Running
  THEN rec' = r /\ watched' = w /\ UNCHANGED <<state, stopTimer, faults>>
  ELSE \/ /\ rec' = [r EXCEPT ![current].phase = "stopping"]
          /\ watched' = w /\ UNCHANGED <<state, stopTimer, faults>>
       \/ /\ faults < MaxFaults /\ faults' = faults + 1
          /\ \/ ForceStop(r, w)
             \/ /\ rec' = [r EXCEPT ![current].phase = "stuck"]
                /\ watched' = w /\ UNCHANGED <<state, stopTimer>>

\* The loop that listens ends with the call, whatever comes of it.
Silence(m) ==
  /\ m \in watched
  /\ StopRecording(rec, watched \ {m})
  /\ UNCHANGED <<caller, mounted, current, form, doubled, starts>>

MaxTimer(m) ==
  /\ rec[m].timer
  /\ StopRecording([rec EXCEPT ![m].timer = FALSE, ![m].escape = TRUE], watched)
  /\ UNCHANGED <<caller, mounted, current, form, doubled, starts>>

\* Three seconds later, of whatever is recorded by then
Escape(m) ==
  /\ rec[m].escape
  /\ LET r == [rec EXCEPT ![m].escape = FALSE]
     IN  IF r[current].phase \in Running THEN ForceStop(r, watched)
         ELSE rec' = r /\ UNCHANGED <<state, stopTimer, watched>>
  /\ UNCHANGED <<caller, mounted, current, form, bounds>>

\* Variant: the microphone is kept.
ReleasedNot(m) == rec[m].mic

Released(m) == FALSE

OnStop(m) ==
  /\ rec[m].phase = "stopping"
  /\ rec' = [Cleared(rec) EXCEPT ![m].mic = Released(m), ![m].phase = "converting"]
  /\ stopTimer' = None /\ StopWatch(watched)
  /\ UNCHANGED <<caller, mounted, state, current, form, bounds>>

Converted(m) ==
  /\ rec[m].phase = "converting"
  /\ \/ Goes(m, "transcribing") /\ Says("transcribing")
     \/ rec' = Ends(m) /\ Says("error")
  /\ UNCHANGED <<caller, mounted, current, stopTimer, watched, form, bounds>>

\* No transcript, or none in time
NotTranscribed(m) ==
  /\ rec[m].phase = "transcribing"
  /\ rec' = Ends(m) /\ Says("error")
  /\ UNCHANGED <<caller, mounted, current, stopTimer, watched, form, bounds>>

Transcribed(m) ==
  /\ rec[m].phase = "transcribing"
  /\ rec' = Ends(m) /\ Says("idle")
  /\ tasks' = (IF caller = "form" THEN tasks \cup {Classify(asked)} ELSE tasks)
  /\ UNCHANGED <<caller, mounted, current, stopTimer, watched, active, retried, asked, answers, bounds>>

\* Until it is transcribed, the button may be clicked, and does the same each time.
Click ==
  /\ caller = "button" /\ mounted
  /\ \/ state = "recording" /\ StopRecording(rec, watched) /\ UNCHANGED <<mounted, current, doubled, starts>>
     \/ state \in {"idle", "error"} /\ \E m \in Recordings : Start(m)
  /\ UNCHANGED <<caller, form>>

\* The page is left: only the listening for silence ends.
Leave ==
  /\ caller = "button" /\ mounted
  /\ mounted' = FALSE /\ StopWatch(watched)
  /\ UNCHANGED <<caller, state, current, stopTimer, rec, form, bounds>>

-----------------------------------------------------------------------------
(* OnboardingForm *)

\* voiceInputRef.current?.start()
StartIfShown ==
  IF mounted THEN \E m \in Recordings : Start(m) ELSE UNCHANGED <<button, bounds>>

\* After the greeting the first question is asked; after a question the button is started.
Said(task) ==
  IF task.what = "intro"
  THEN /\ tasks' = (tasks \ {task}) \cup {Say("question", 0)} /\ retried' = 0
       /\ UNCHANGED <<button, bounds>>
  ELSE tasks' = tasks \ {task} /\ StartIfShown /\ UNCHANGED retried

\* speak, whether heard or not
Speak ==
  \E task \in tasks :
    /\ task.does = "say"
    /\ asked' = (IF task.what = "intro" THEN asked ELSE task.question)
    /\ Said(task)
    /\ UNCHANGED <<caller, active, answers>>

\* The form goes back to its buttons, and the microphone button with it.
BackToButtons == active' = FALSE /\ mounted' = FALSE /\ StopWatch(watched)

\* handleVoiceTranscript: voiceStep is the one it was made with.  With all questions answered
\* the answers are sent.
Classified ==
  \E task \in tasks :
    /\ task.does = "classify"
    /\ \/ /\ answers' = [answers EXCEPT ![Seen] = task.question]
          /\ retried' = 0
          /\ IF Seen + 1 < Questions
             THEN /\ tasks' = (tasks \ {task}) \cup {Say("question", Seen + 1)}
                  /\ UNCHANGED <<active, mounted, watched>>
             ELSE tasks' = tasks \ {task} /\ BackToButtons
       \/ /\ retried < MaxRetries /\ retried' = retried + 1
          /\ tasks' = (tasks \ {task}) \cup {Say("again", Seen)}
          /\ UNCHANGED <<active, answers, mounted, watched>>
       \/ /\ retried = MaxRetries
          /\ tasks' = tasks \ {task} /\ BackToButtons
          /\ UNCHANGED <<retried, answers>>
    /\ UNCHANGED <<caller, state, current, stopTimer, rec, asked, bounds>>

\* stopVoiceOnboarding
Cancel ==
  /\ active
  /\ active' = FALSE /\ mounted' = FALSE
  /\ \E w \in OneLess(watched) : StopRecording(rec, w)
  /\ UNCHANGED <<caller, current, retried, tasks, asked, answers, doubled, starts>>

Next ==
  \/ \E m \in Recordings :
       \/ Granted(m) \/ Denied(m) \/ Unrecordable(m)
       \/ Silence(m) \/ MaxTimer(m) \/ Escape(m)
       \/ OnStop(m) \/ Converted(m) \/ NotTranscribed(m) \/ Transcribed(m)
  \/ Click \/ Leave \/ Speak \/ Classified \/ Cancel

-----------------------------------------------------------------------------
(* Properties *)

\* Something is under way that will give the microphone back: the end of a recording, or the
\* timer that ends it, or the one that makes sure it ended; also after the page was left.
MicIsReturned(m) ==
  rec[m].mic => rec[m].phase = "stopping" \/ (current = m /\ (rec[m].timer \/ rec[m].escape))

\* What the button says goes on.
SaysWhatItDoes ==
  /\ state = "recording" => rec[current].phase \in {"stopping", "converting"} \cup Running
  /\ state = "transcribing" => \E m \in Recordings : rec[m].phase = "transcribing"

GoesOn(m) == rec[m].phase \notin {"free", "kept"}

\* The questions go on: something is said, recorded or classified; unless the microphone or
\* the transcription fails.
QuestionsGoOn == active /\ state # "error" => tasks # {} \/ \E m \in Recordings : GoesOn(m)

\* Provided no recording is started beside another, and but for a microphone that was granted
\* and could not be recorded from.
MicrophoneIsReturned ==
  ~doubled => /\ \A m \in Recordings : rec[m].phase = "kept" \/ MicIsReturned(m)
              /\ mounted => SaysWhatItDoes
              /\ QuestionsGoOn

-----------------------------------------------------------------------------
(* What the code does not have: refuted by hand in web_client.cfg.     *)

\* "can never leave an AudioContext or rAF loop running in the background": nor the microphone.
\* Two clicks before it is granted, and nothing will ever stop the first recording; nor what is
\* granted and cannot be recorded from.
MicIsAlwaysReturned == \A m \in Recordings : MicIsReturned(m)

\* "new users can answer the questionnaire by voice" (README.md): an answer is kept as that to
\* the question that was asked.  All are kept as the first one's.
AnswersFitQuestions == \A f \in Fields : answers[f] \in {None, f}

\* "DIDN'T CATCH THAT -- ONE MORE TRY": after an error of the microphone there is none.
OneMoreTry == active => tasks # {} \/ \E m \in Recordings : GoesOn(m)

\* "tap to cancel and answer manually": an answer under way still comes, over what was clicked.
CancelledChangesNothing == [][~active => UNCHANGED answers]_vars
=============================================================================
