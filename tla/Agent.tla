-------------------------------- MODULE Agent --------------------------------
(***************************************************************************)
(* A research run inside a job: the planner (app/planner), the two         *)
(* orchestrators (app/agents), the tools (app/tools) on one shared         *)
(* context, and the language model behind them (app/core/llm_provider.py), *)
(* whose one provider also serves the threads of other requests.           *)
(*                                                                         *)
(* Queueing, timeouts and the files of a job belong to ResearchJobs; what  *)
(* a rating follows from to Recommendation.  A tool that fails raises; the *)
(* result of a network or model call is chosen by the environment.         *)
(***************************************************************************)
EXTENDS Recommendation, FiniteSets, SequencesExt

CONSTANTS
  Requests,     \* threads of other requests that call the same provider
  MaxRetries,   \* LLM_MAX_RETRIES
  MaxForeign,   \* bound: calls of other requests
  MaxFaults,    \* bound: tools of a run that fail and need not have
  MaxProposal,  \* bound: tools that the model proposes
  MaxFired,     \* bound: rules that a question fires
  Upsides, Histories,  \* the readings a valuation ends with
  Scores        \* overall scores of an evaluation

ASSUME CountsAssumption ==
  {MaxRetries, MaxForeign, MaxFaults, MaxProposal, MaxFired} \subseteq Nat
ASSUME ReadingsAssumption == Upsides \cup Histories \subseteq Int /\ Scores \subseteq 0..100
ASSUME MissingAssumption == Missing \notin Calls /\ Missing \notin Nat
ASSUME RequestsAssumption == "job" \notin Requests

PlannableTools ==
  {"market_data_tool", "valuation_tool", "rag_tool", "sentiment_tool", "comparison_tool"}

\* Variant: the order before news_tool was moved to the front.
TrailingConsensusFirst ==
  <<"institutional_consensus_tool", "news_tool", "report_tool", "evaluation_tool">>

TrailingTools ==
  <<"news_tool", "institutional_consensus_tool", "report_tool", "evaluation_tool">>

Tools == PlannableTools \cup
  {"news_tool", "institutional_consensus_tool", "report_tool", "evaluation_tool"}

\* The tools of the rule that a group of keywords fires.
FallbackRules ==
  <<<<"market_data_tool", "valuation_tool", "comparison_tool">>,
    <<"market_data_tool", "valuation_tool">>,
    <<"market_data_tool">>,
    <<"rag_tool">>,
    <<"rag_tool", "sentiment_tool">>,
    <<"market_data_tool", "valuation_tool", "rag_tool", "sentiment_tool">>>>

VARIABLES
  question,  \* orchestrator, rules it fires, mode, and whether the ticker exists
  pc,        \* where the worker is
  plan, step, node,
  context,
  tried,     \* tools tried so far
  faults,
  usage,     \* _usage of the provider
  call,      \* the call a thread has under way
  foreign,   \* calls of other requests so far
  alone,     \* no other request called while the job ran
  spent,     \* usage that this job caused
  outcome    \* what the job recorded

agentVars == <<plan, step, node, context, tried, faults>>
llmVars == <<usage, call, foreign, alone, spent>>
vars == <<question, pc, agentVars, llmVars, outcome>>

Threads == {"job"} \cup Requests
NoCall == [phase |-> "idle", attempt |-> 0, seen |-> Missing]
Blank ==
  [info |-> "none", financials |-> FALSE, valuation |-> Missing, chunks |-> FALSE,
   sentiment |-> Missing, news |-> Missing, summary |-> "none", consensus |-> Missing,
   report |-> Missing, score |-> Missing, pdf |-> "none", logged |-> FALSE]

Labels == {"Positive", "Negative"}
Valuations == [upside : Upsides \cup {Missing}, versus : Histories \cup {Missing}]
Reports == [rating : Ratings, label : {"LOW", "MEDIUM", "HIGH"}, confidence : 0..100 \cup {Missing}]
Contexts ==
  [info : {"none", "blank", "known"}, financials : BOOLEAN,
   valuation : Valuations \cup {Missing}, chunks : BOOLEAN,
   sentiment : Labels \cup {Missing}, news : Labels \cup {Missing},
   summary : {"none", "comparison", "plain"}, consensus : Calls \cup {Missing},
   report : Reports \cup {Missing}, score : Scores \cup {Missing},
   pdf : {"none", "unscored", "scored"}, logged : BOOLEAN]

TypeOK ==
  /\ question \in [orchestrator : {"hand_rolled", "langgraph"}, mode : {"single", "comparison"},
                   listed : BOOLEAN, fired : SUBSET (1..6)]
  /\ pc \in {"start", "planning", "tools", "narrating", "end"}
  /\ plan \in Seq(Tools) /\ step \in Nat /\ node \in Tools \cup {"none", "end"}
  /\ context \in Contexts
  /\ tried \in Seq(Tools) /\ faults \in 0..MaxFaults
  /\ usage \in Nat \cup {Missing} /\ spent \in Nat /\ foreign \in 0..MaxForeign
  /\ alone \in BOOLEAN
  /\ call \in [Threads -> [phase : {"idle", "sent", "adding", "answered", "failed"},
                           attempt : 0..MaxRetries, seen : Nat \cup {Missing}]]
  /\ outcome \in [status : {"none", "done", "error"}, rating : Ratings \cup {Missing},
                  tracked : BOOLEAN, usage : Nat \cup {Missing}]

NoOutcome == [status |-> "none", rating |-> Missing, tracked |-> FALSE, usage |-> Missing]

Init ==
  /\ question \in [orchestrator : {"hand_rolled", "langgraph"}, mode : {"single", "comparison"},
                   listed : BOOLEAN, fired : {f \in SUBSET (1..6) : Cardinality(f) <= MaxFired}]
  /\ pc = "start" /\ plan = <<>> /\ step = 0 /\ node = "none"
  /\ context = Blank /\ tried = <<>> /\ faults = 0
  /\ usage \in {Missing, 1}  \* what an earlier job left
  /\ call = [th \in Threads |-> NoCall] /\ foreign = 0 /\ alone = TRUE /\ spent = 0
  /\ outcome = NoOutcome

-----------------------------------------------------------------------------
(* The provider.  A definition called a variant is deliberately wrong: it belongs to  *)
(* no behaviour and shows which property such a bug breaks.                            *)

InPhase(th, phase) == call[th].phase = phase
Sent == [NoCall EXCEPT !.phase = "sent"]

\* The call is over: the thread of a request has what it wanted.
Return(th, phase) ==
  call' = [call EXCEPT ![th] = IF th = "job" THEN [NoCall EXCEPT !.phase = phase] ELSE NoCall]

\* A request resolves a company name or routes a message with the model.
ForeignCall(th) ==
  /\ InPhase(th, "idle") /\ foreign < MaxForeign
  /\ call' = [call EXCEPT ![th] = Sent]
  /\ foreign' = foreign + 1 /\ alone' = FALSE
  /\ UNCHANGED <<question, pc, agentVars, usage, spent, outcome>>

\* 200: the usage counted so far is read, if the answer reports any.
Answer(th) ==
  /\ InPhase(th, "sent")
  /\ \/ call' = [call EXCEPT ![th].phase = "adding", ![th].seen = usage]
     \/ Return(th, "answered")
  /\ UNCHANGED <<question, pc, agentVars, usage, foreign, alone, spent, outcome>>

\* _accumulate and the assignment of its result; the body of the answer may still turn
\* out to be malformed.
Account(th) ==
  /\ InPhase(th, "adding")
  /\ usage' = (IF call[th].seen = Missing THEN 0 ELSE call[th].seen) + 1
  /\ spent' = IF th = "job" THEN spent + 1 ELSE spent
  /\ Return(th, "answered") \/ Return(th, "failed")
  /\ UNCHANGED <<question, pc, agentVars, foreign, alone, outcome>>

\* Variant: the count of the attempts starts over.
RetryForever(th) ==
  /\ InPhase(th, "sent")
  /\ call' = [call EXCEPT ![th].attempt = (@ + 1) % (MaxRetries + 1)]
  /\ UNCHANGED <<question, pc, agentVars, usage, foreign, alone, spent, outcome>>

\* Timeout, 429 or 5xx, and a wait.
Retry(th) ==
  /\ InPhase(th, "sent") /\ call[th].attempt < MaxRetries
  /\ call' = [call EXCEPT ![th].attempt = @ + 1]
  /\ UNCHANGED <<question, pc, agentVars, usage, foreign, alone, spent, outcome>>

\* Any other 4xx at once, the rest after the last attempt.
GiveUp(th) ==
  /\ InPhase(th, "sent")
  /\ Return(th, "failed")
  /\ UNCHANGED <<question, pc, agentVars, usage, foreign, alone, spent, outcome>>

-----------------------------------------------------------------------------
(* The planner *)

\* What a tool of the second list adds to the first.
Fresh(first, second, i) ==
  IF i \in DOMAIN second /\ second[i] \notin ToSet(first) THEN <<second[i]>> ELSE <<>>

\* No list that is added has more than five tools, each of them once.
Union2(first, second) ==
  first \o Fresh(first, second, 1) \o Fresh(first, second, 2) \o Fresh(first, second, 3)
        \o Fresh(first, second, 4) \o Fresh(first, second, 5)

\* apply_fallback_rules: the tools of all rules fired, each once, in their order.
RulePlan ==
  [fired \in SUBSET (1..6) |->
     LET Selected(p, i) == IF i \in fired THEN Union2(p, FallbackRules[i]) ELSE p
     IN  IF fired = {} THEN <<"market_data_tool">>
         ELSE Selected(Selected(Selected(Selected(Selected(Selected(<<>>, 1), 2), 3), 4), 5), 6)]

\* What _parse_plan can make of the model's answer: known tools, each once.
Proposals ==
  UNION {{p \in [1..n -> PlannableTools] : \A i, j \in 1..n : p[i] = p[j] => i = j} :
           n \in 0..MaxProposal}

\* Variant: the rules only replace a proposal that is empty.
CreatePlanTrusting(proposal) ==
  IF proposal = <<>> THEN RulePlan[question.fired] ELSE proposal

CreatePlan(proposal) == Union2(proposal, RulePlan[question.fired])

\* The evidence the run is to gather.
Demanded ==
  ToSet(RulePlan[question.fired]) \cup
    (IF question.mode = "comparison" THEN {"comparison_tool"} ELSE {})

\* What comes first, or after the steps done so far: the hand-rolled loop has the
\* closing tools in its plan, the graph routes to the first of them at the end of it.
Dispatch(p, done) ==
  IF done < Len(p) THEN p[done + 1]
  ELSE IF question.orchestrator = "hand_rolled" THEN "end" ELSE TrailingTools[1]

\* Variant: the usage of an earlier job is kept.
StartKeeping ==
  /\ pc = "start" /\ pc' = "planning"
  /\ alone' = \A th \in Requests : InPhase(th, "idle")
  /\ call' = [call EXCEPT !["job"] = Sent]
  /\ UNCHANGED <<question, agentVars, usage, foreign, spent, outcome>>

\* _run_job sets the provider up and resets its usage; the companies of the question
\* are resolved.  Without a provider or a company the job ends in an error.
Start ==
  /\ pc = "start"
  /\ \/ /\ pc' = "planning"
        /\ usage' = Missing
        /\ alone' = \A th \in Requests : InPhase(th, "idle")
        /\ call' = [call EXCEPT !["job"] = Sent]
        /\ UNCHANGED outcome
     \/ /\ pc' = "end" /\ outcome' = [NoOutcome EXCEPT !.status = "error"]
        /\ UNCHANGED <<usage, alone, call>>
  /\ UNCHANGED <<question, agentVars, foreign, spent>>

\* The proposal and the rules, the tool of a comparison, and the closing tools.
Plan ==
  /\ pc = "planning" /\ (InPhase("job", "answered") \/ InPhase("job", "failed"))
  /\ \E proposal \in Proposals :
       /\ InPhase("job", "failed") => proposal = <<>>
       /\ LET evidence == Union2(CreatePlan(proposal),
                                 IF question.mode = "comparison" THEN <<"comparison_tool">> ELSE <<>>)
          IN  plan' = IF question.orchestrator = "hand_rolled"
                      THEN Union2(evidence, TrailingTools) ELSE evidence
  /\ pc' = "tools" /\ step' = 0 /\ node' = Dispatch(plan', 0)
  /\ call' = [call EXCEPT !["job"] = NoCall]
  /\ UNCHANGED <<question, context, tried, faults, usage, foreign, alone, spent, outcome>>

-----------------------------------------------------------------------------
(* The tools: what a run of one on a context can come to *)

Ok(c) == [ok |-> TRUE, context |-> c]
Raise(c) == [ok |-> FALSE, context |-> c]

\* A tool that needs another runs it first; if that one raises, so does the tool.
After(first, Second(_)) ==
  {r \in first : ~r.ok} \cup UNION {Second(r.context) : r \in {x \in first : x.ok}}

\* The profile is stored before it is found to be empty: the ticker does not exist, or
\* the fetch failed.  Then the statements, which may fail in their turn.
MarketData(c) ==
  {Raise([c EXCEPT !.info = "blank"])} \cup
  (IF question.listed
   THEN {Raise([c EXCEPT !.info = "known"]), Ok([c EXCEPT !.info = "known", !.financials = TRUE])}
   ELSE {})

\* The valuation is stored before the factors and the classifier, which may fail.
Valuation(c) ==
  After(IF c.financials THEN {Ok(c)} ELSE MarketData(c),
        LAMBDA d : {Raise(d)} \cup UNION {LET e == [d EXCEPT !.valuation = v]
                                          IN  {Raise(e), Ok(e)} : v \in Valuations})

\* No filing, or one with or without passages that match.
Rag(c) == {Raise(c), Ok(c), Ok([c EXCEPT !.chunks = TRUE])}

Sentiment(c) ==
  After(IF c.chunks THEN {Ok(c)} ELSE Rag(c),
        LAMBDA d : IF d.chunks
                   THEN {Raise(d)} \cup {Ok([d EXCEPT !.sentiment = l]) : l \in Labels}
                   ELSE {Ok(d)})

\* The peer has a context of its own, of which the summary alone stays.
Comparison(c) ==
  IF question.mode = "single" THEN {Ok(c)}
  ELSE {Raise(c), Ok([c EXCEPT !.summary = "comparison"])}

News(c) == {Raise(c)} \cup {Ok([c EXCEPT !.news = l]) : l \in Labels \cup {Missing}}

\* A valuation that is not there has neither reading.
Recommended(c) ==
  DeriveRecommendation(IF c.valuation = Missing THEN [upside |-> Missing, versus |-> Missing]
                       ELSE c.valuation,
                       {c.sentiment, c.news} \ {Missing})

\* The rating is derived again, for the institutions that cover the ticker.
Consensus(c) ==
  IF c.valuation = Missing THEN {Ok(c)}
  ELSE {Raise(c), Ok(c)} \cup
       {Ok([c EXCEPT !.consensus = r]) : r \in {Recommended(c).rating} \cap Calls}

\* build_report_data with what the context holds.
ReportData(c) ==
  LET recommendation == Recommended(c)
      quality == SignalQuality(recommendation, c.score)
  IN  [rating |-> recommendation.rating, label |-> quality.label, confidence |-> quality.confidence]

\* The narrative is there: the report, and its PDF unless rendering fails.
Report(c) ==
  LET d == [c EXCEPT !.report = ReportData(c)]
  IN  {Raise(d), Ok([d EXCEPT !.pdf = "unscored"])}

\* The scores go into the report, which is rendered again and logged.
Evaluation(c) ==
  IF c.report = Missing THEN {Ok(c)}
  ELSE {Raise(c)} \cup
       UNION {LET d == [c EXCEPT !.score = s]
              IN  {Raise(d), Ok([d EXCEPT !.pdf = "scored", !.logged = TRUE])} : s \in Scores}

ToolResults(t, c) ==
  CASE t = "market_data_tool" -> MarketData(c)
    [] t = "valuation_tool" -> Valuation(c)
    [] t = "rag_tool" -> Rag(c)
    [] t = "sentiment_tool" -> Sentiment(c)
    [] t = "comparison_tool" -> Comparison(c)
    [] t = "news_tool" -> News(c)
    [] t = "institutional_consensus_tool" -> Consensus(c)
    [] t = "evaluation_tool" -> Evaluation(c)

-----------------------------------------------------------------------------
(* The two orchestrators *)

\* On to the next tool: the loop and the evidence nodes of the graph count the step,
\* the closing nodes are chained.
Advance(t) ==
  IF question.orchestrator = "hand_rolled" \/ t \in PlannableTools
    THEN step' = step + 1 /\ node' = Dispatch(plan, step + 1)
    ELSE /\ LET i == CHOOSE j \in DOMAIN TrailingTools : TrailingTools[j] = t
            IN  node' = IF i = Len(TrailingTools) THEN "end" ELSE TrailingTools[i + 1]
         /\ UNCHANGED step

\* A tool has returned or raised; an exception is noted and the run goes on.  Only a
\* failure that need not have been counts against the bound.
Finish(t, results) ==
  /\ \E r \in results :
       /\ context' = r.context
       /\ IF r.ok \/ (\A x \in results : ~x.ok) THEN UNCHANGED faults
          ELSE faults < MaxFaults /\ faults' = faults + 1
  /\ tried' = Append(tried, t)
  /\ Advance(t)

RunTool(t) ==
  /\ pc = "tools" /\ node = t /\ t # "report_tool"
  /\ Finish(t, ToolResults(t, context))
  /\ UNCHANGED <<question, pc, plan, llmVars, outcome>>

\* report_tool: its summary replaces any other, then the narrative is asked for.
BeginReport ==
  /\ pc = "tools" /\ node = "report_tool"
  /\ pc' = "narrating"
  /\ context' = [context EXCEPT !.summary = "plain"]
  /\ \/ call' = [call EXCEPT !["job"] = Sent]
     \/ call' = [call EXCEPT !["job"].phase = "answered"]  \* it is in the cache
  /\ UNCHANGED <<question, plan, step, node, tried, faults, usage, foreign, alone, spent, outcome>>

EndReport ==
  /\ pc = "narrating" /\ pc' = "tools"
  /\ \/ InPhase("job", "answered") /\ Finish("report_tool", Report(context))
     \/ InPhase("job", "failed") /\ Finish("report_tool", {Raise(context)})
  /\ call' = [call EXCEPT !["job"].phase = "idle"]
  /\ UNCHANGED <<question, plan, usage, foreign, alone, spent, outcome>>

\* The run is over: the job is done, whatever its tools came to.  log_tracked_call
\* keeps a call that has a price, unless the insert fails.
Complete ==
  /\ pc = "tools" /\ node = "end" /\ pc' = "end"
  /\ LET rating == IF context.report = Missing THEN Missing ELSE context.report.rating
     IN  \E kept \in BOOLEAN :
           outcome' = [status |-> "done", rating |-> rating, usage |-> usage,
                       tracked |-> kept /\ rating \in Calls /\ context.info = "known"]
  /\ UNCHANGED <<question, agentVars, llmVars>>

CallStep(th) == Answer(th) \/ Account(th) \/ Retry(th) \/ GiveUp(th)

JobStep ==
  \/ Start \/ Plan \/ CallStep("job")
  \/ \E t \in Tools : RunTool(t)
  \/ BeginReport \/ EndReport \/ Complete

Next == JobStep \/ \E th \in Requests : ForeignCall(th) \/ CallStep(th)

Spec == Init /\ [][Next]_vars

\* Every network call has a timeout; a hung tool is the business of ResearchJobs.
FairSpec == Spec /\ WF_vars(JobStep)

-----------------------------------------------------------------------------
(* Properties *)

\* Both orchestrators keep the contract: no plan that the model proposes and no tool
\* that fails takes away evidence that the question demands, or a closing tool.
Contract == INSTANCE AgentContract WITH
  Evidence <- PlannableTools, Closing <- TrailingTools,
  demanded <- IF pc \in {"start", "planning"} \/ plan = <<>> THEN {} ELSE Demanded,
  ended <- pc = "end"
ImplementsContract == Contract!Spec

\* The consensus tool derives FinSight's rating a second time; it is the rating of the
\* report, which is derived later.
ConsensusUsesReportRating ==
  context.consensus # Missing /\ context.report # Missing =>
    context.consensus = context.report.rating

\* A ticker that does not exist gets no call and is not tracked, although the exception
\* that says so is swallowed like any other and the job ends as done.
UnknownTickerNotRated ==
  ~question.listed => outcome.rating \notin Calls /\ ~outcome.tracked

\* One rating per report, of a company that exists.
RatingsHold == ConsensusUsesReportRating /\ UnknownTickerNotRated

\* As long as no other request calls the provider, a job records its own usage: none
\* of an earlier job's, each of its own answers once.
UsageIsOwn ==
  outcome.status = "done" /\ alone =>
    outcome.usage = IF spent = 0 THEN Missing ELSE spent

\* A run ends, however often the provider fails.
RunEnds == pc = "planning" ~> outcome.status # "none"

\* The quality a report ends with is that of its scores.
QualityReflectsScore ==
  outcome.status = "done" /\ context.report # Missing /\ context.score # Missing =>
    context.report.label = SignalQuality(Recommended(context), context.score).label

\* A job without a report for want of the provider says so.
OutageIsReported ==
  [](pc = "narrating" /\ InPhase("job", "failed") => [](outcome.status # "done"))
=============================================================================
