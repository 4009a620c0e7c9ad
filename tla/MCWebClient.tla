----------------------------- MODULE MCWebClient -----------------------------
(* The pages of the web client share nothing but the server: each behaviour   *)
(* has one scene, the voice session of VoiceSession or one of the others.     *)
EXTENDS VoiceSession, TLC

CONSTANTS
  Selectable, Short,         \* of the panels
  Reports, Sliders,
  Values, First,             \* of the sliders and of a preference
  Tickers, Questions,
  Recordings, VoiceQuestions,
  MaxSteps, MaxOpened, MaxStarts, MaxStopFaults

ASSUME PagesAssumption ==
  /\ Short \in Selectable /\ None \notin Selectable
  /\ First \in Values
  /\ None \notin Recordings

VARIABLES
  scene,
  kind, selected, panelShown, failed, panelTimer, panelFlights, panelOvertaken, refused, selections,
  report, panelState, values, whatIf, dragTimer, dragFlights, wanted, carried, moves,
  stored, listShown, loadFailed, busy, ticket, listFlights, listOvertaken, listLost, changes, listFaults,
  saved, preference, patches, prefCrossed, prefLost, prefClicks, prefFaults,
  status, jobId, result, fromCache, cancelled, loop, opening, job, lastReport, crossed, interrupted,
  opened,
  caller, buttonShown, buttonState, current, stopTimer, watched, rec, active, retried, tasks, asked,
  answers, doubled, stopFaults, starts

panels == <<kind, selected, panelShown, failed, panelTimer, panelFlights, panelOvertaken, refused,
            selections>>
sliders == <<report, panelState, values, whatIf, dragTimer, dragFlights, wanted, carried, moves>>
lists == <<stored, listShown, loadFailed, busy, ticket, listFlights, listOvertaken, listLost,
           changes, listFaults>>
preferences == <<saved, preference, patches, prefCrossed, prefLost, prefClicks, prefFaults>>
research == <<status, jobId, result, fromCache, cancelled, loop, opening, job, lastReport, crossed,
              interrupted, opened>>
recorder == <<caller, buttonShown, buttonState, current, stopTimer, watched, rec, active, retried,
              tasks, asked, answers, doubled, stopFaults, starts>>

P == INSTANCE Panels WITH
       MaxSelections <- MaxSteps,
       shown <- panelShown, timer <- panelTimer, flights <- panelFlights, overtaken <- panelOvertaken

W == INSTANCE WhatIfPanel WITH
       Positions <- Values, Default <- [s \in Sliders |-> First], MaxMoves <- MaxSteps,
       state <- panelState, result <- whatIf, timer <- dragTimer, flights <- dragFlights

\* What the sliders ask for is something.
ASSUME RequestAssumption == \A r \in Reports, v \in [Sliders -> Values] : W!Ask(r, v) # None

L == INSTANCE Lists WITH
       MaxChanges <- MaxSteps,
       shown <- listShown, flights <- listFlights, overtaken <- listOvertaken, lost <- listLost,
       faults <- listFaults

F == INSTANCE Preferences WITH
       MaxClicks <- MaxSteps,
       shown <- preference, crossed <- prefCrossed, lost <- prefLost, clicks <- prefClicks,
       faults <- prefFaults

R == INSTANCE ResearchPage

M == INSTANCE Recorder WITH
       Questions <- VoiceQuestions, MaxFaults <- MaxStopFaults,
       mounted <- buttonShown, state <- buttonState, faults <- stopFaults

others == <<panels, sliders, lists, preferences, research, recorder>>
Scenes == {"voice", "panels", "whatIf", "lists", "preferences", "research", "recorder"}

\* What belongs to the other scenes is not looked at.
NoPanels ==
  /\ kind = None /\ selected = None /\ panelShown = None /\ failed = None /\ panelTimer = None /\ panelFlights = None
  /\ panelOvertaken = None /\ refused = None /\ selections = None
NoSliders ==
  /\ report = None /\ panelState = None /\ values = None /\ whatIf = None /\ dragTimer = None /\ dragFlights = None
  /\ wanted = None /\ carried = None /\ moves = None
NoLists ==
  /\ stored = None /\ listShown = None /\ loadFailed = None /\ busy = None /\ ticket = None /\ listFlights = None
  /\ listOvertaken = None /\ listLost = None /\ changes = None /\ listFaults = None
NoPreferences ==
  /\ saved = None /\ preference = None /\ patches = None /\ prefCrossed = None /\ prefLost = None /\ prefClicks = None
  /\ prefFaults = None
NoResearch ==
  /\ status = None /\ jobId = None /\ result = None /\ fromCache = None /\ cancelled = None /\ loop = None
  /\ opening = None /\ job = None /\ lastReport = None /\ crossed = None /\ interrupted = None /\ opened = None
NoRecorder ==
  /\ caller = None /\ buttonShown = None /\ buttonState = None /\ current = None /\ stopTimer = None /\ watched = None
  /\ rec = None /\ active = None /\ retried = None /\ tasks = None /\ asked = None /\ answers = None
  /\ doubled = None /\ stopFaults = None /\ starts = None

MCInit ==
  /\ scene \in Scenes
  /\ Init
  /\ IF scene = "panels" THEN P!Init ELSE NoPanels
  /\ IF scene = "whatIf" THEN W!Init ELSE NoSliders
  /\ IF scene = "lists" THEN L!Init ELSE NoLists
  /\ IF scene = "preferences" THEN F!Init ELSE NoPreferences
  /\ IF scene = "research" THEN R!Init ELSE NoResearch
  /\ IF scene = "recorder" THEN M!Init ELSE NoRecorder

MCNext ==
  /\ UNCHANGED scene
  /\ \/ scene = "voice" /\ Next /\ UNCHANGED others
     \/ scene = "panels" /\ P!Next /\ UNCHANGED <<vars, sliders, lists, preferences, research, recorder>>
     \/ scene = "whatIf" /\ W!Next /\ UNCHANGED <<vars, panels, lists, preferences, research, recorder>>
     \/ scene = "lists" /\ L!Next /\ UNCHANGED <<vars, panels, sliders, preferences, research, recorder>>
     \/ scene = "preferences" /\ F!Next /\ UNCHANGED <<vars, panels, sliders, lists, research, recorder>>
     \/ scene = "research" /\ R!Next /\ UNCHANGED <<vars, panels, sliders, lists, preferences, recorder>>
     \/ scene = "recorder" /\ M!Next /\ UNCHANGED <<vars, panels, sliders, lists, preferences, research>>

MCSpec == MCInit /\ [][MCNext]_<<scene, vars, others>>

Symmetry == Permutations(Turns) \cup Permutations(Replies)

-----------------------------------------------------------------------------
(* The properties of the other scenes, of these instances *)

\* Once what a page asked for is answered, it shows the data of what is selected, the result of
\* the values its sliders are at, the list and the preference that the server has; and a report
\* is that of the job it is shown under, and research said to be running is followed.  Each
\* with the provisions stated in its module.
PagesHold ==
  /\ scene = "panels" => P!ShowsSelected
  /\ scene = "whatIf" => W!ResultFits
  /\ scene = "lists" => L!ShowsStored
  /\ scene = "preferences" => F!ShowsSaved
  /\ scene = "research" => R!FollowsItsJob

\* A microphone taken is given back: in a session, with the turn it was taken for; by the button,
\* whichever of the end of the answer, a click, the timers and the browser comes first, and
\* whatever stop() does; and the questions asked aloud go on.
MicrophoneIsReturned ==
  /\ EndedTurnsLeaveNothing
  /\ scene = "recorder" => M!MicrophoneIsReturned

-----------------------------------------------------------------------------
(* What the other scenes do not have: stated in their modules *)

GuardedEverywhere == scene = "panels" => P!GuardedEverywhere
ErrorIsOfSelected == scene = "panels" => P!ErrorIsOfSelected
ShortSuggestsNothing == scene = "panels" => P!ShortSuggestsNothing
ResultIsOfReport == scene = "whatIf" => W!ResultIsOfReport
SlidersStay == scene = "whatIf" => W!SlidersStay
FailedDeleteIsTakenBack == scene = "lists" => L!FailedDeleteIsTakenBack
NothingWasPlaced == scene = "lists" => L!NothingWasPlaced
NeverUnsaved == scene = "preferences" => F!NeverUnsaved
ResultIsOfItsJob == scene = "research" => R!ResultIsOfItsJob
RunningIsFollowed == scene = "research" => R!RunningIsFollowed
MicIsAlwaysReturned == scene = "recorder" => M!MicIsAlwaysReturned
AnswersFitQuestions == scene = "recorder" => M!AnswersFitQuestions
OneMoreTry == scene = "recorder" => M!OneMoreTry
CancelledChangesNothing == scene = "recorder" => M!CancelledChangesNothing
=============================================================================
