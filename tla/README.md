# FinSight AI: a verification project

FinSight AI is an equity-research service: a FastAPI server (`src/app/api`) that accepts
research questions, runs a long agent pipeline for each in a small thread pool, keeps the
results in SQLite, and around that core offers paper trading by form and by chat, price and
rating alerts, daily briefings, a price-stream websocket, a scoreboard of past ratings and
accounts; its web client is a Next.js application. This directory holds TLA+ modules that
model parts of both, TLC configurations that check them on small instances, and TLAPS proofs
of the main results for every value of the constants. Paths below are relative to `src/`.

Contents: 1 inventory, 2 plan, 3 the modules and the code, 4 the runs, 5 fairness,
6 where the code does not do what it says, 7 the proofs, 8 what is only model-checked,
9 what is not modelled.


## 1. Inventory of the system

What every component shares:

* One server process, synchronous request handlers in FastAPI's thread pool (so handlers
  interleave at any point), a `ThreadPoolExecutor` for research jobs
  (`app/api/jobs.py:79`), one event loop for websockets.
* One SQLite file. Every function of `app/api/db.py` opens its own connection and commits
  its own transaction, so an operation made of two calls is not atomic. Only
  `create_job_if_under_limit`, `execute_order` and the ticker-resolution counter take the
  write lock before they read (`BEGIN IMMEDIATE`); everywhere else a check and the write
  that follows from it are separate transactions. SQLite has one writer; a wait for the
  lock of more than 10 s raises.
* Cron endpoints (`POST /v1/internal/sweep/...`) called by an outside scheduler; nothing
  keeps two calls from overlapping.
* The web client (`web/src`) runs one callback at a time; what is hard there is that timers,
  sockets, awaited answers and the user's clicks come in any order.
* A restart loses memory (queue, running threads, progress, subscriptions) and keeps the
  database, the report files and the files of the caches. `lifespan` (`app/api/main.py:168`)
  reconciles the jobs table and nothing else.

| Component | State | Operations | Interacts with | Hard behaviour | What makes it correct |
|---|---|---|---|---|---|
| Research jobs (`api/jobs.py`, `api/db.py:690-945, 1581-1624`, `api/main.py:952-986`) | `jobs` table, pool queue, `_job_progress`, `REPORTS_DIR` | submit, enqueue, run, three endings, notify, timeout sweep, startup reconciliation, account erasure | agent, LLM, push, scoreboard | racing submissions, zombies of timed-out runs, crash with queued work, failing database calls in error handlers | quota over every window, one outcome per job, nothing announced that is later contradicted, no row left open with nobody to close it |
| Paper trading (`api/db.py:1205-1413`, `api/main.py:1883`) | `portfolio_holdings`, `orders`, `pending_orders` | order form, chat proposal and confirmation, manual edit | alerts, chat | concurrent orders on one holding, double confirmation, partial batches | holdings equal the order rows, nothing sold that is not held, a proposal executed at most once |
| Price alerts (`reasoning/price_alerts.py`) | `price_alerts` | create, sweep: claim, execute, notify, unclaim | trading, quotes, push | overlapping sweeps, failure after the order, failing rollback | one sweep fires an alert at a time, every extra order explained, a crossed alert is handled |
| Chat router (`reasoning/chat_router.py`) | `pending_orders`, `chat_messages` | intent detection, dispatch, peek/pop of the pending order | trading, jobs, LLM | state peeked, then used; a company named in an earlier message, or by a sweep | what a message changes is for the ticker it is about, a yes executes what the user was asked |
| Price hub and stream (`data/price_hub.py`, `api/main.py:879-949`) | clients, last ticks, one poll task | register, subscribe, poll, push, idle shutdown | websocket handlers, quotes | callbacks at every `await`, task restart, cap of 200 tickers | the latest price reaches every subscriber, nobody waits for ever |
| Rating alerts and daily briefing (`reasoning/rating_alerts.py`, `reasoning/daily_briefing.py`) | `rating_alert_seen`, `users.last_briefing_at` | sweep, on-demand briefing | jobs (latest rating), chat, push | check, send, stamp in three transactions; a time read before the wait for the lock; overlapping sweeps of both kinds | no change lost between two cursors, no new rating swallowed by an overlapping sweep |
| Tracked calls and scoreboard (`reasoning/call_tracker.py`, `api/db.py:1473-1580`) | `tracked_calls`, checkpoints | log, mature, aggregate | jobs, price histories | overlapping scoring sweeps, late sweeps, days without a session, splits | a checkpoint scored with the close of its own date, one rule for all raters |
| Accounts (`api/auth.py`, `api/db.py:467-700`, `api/main.py:389-629`) | `users`, `sessions`, `ticker_resolution_attempts` | signup, login, logout, resolve a name, delete | every table keyed by user | signup race, requests and sessions that outlive the erasure, rate limit counted by concurrent requests | nothing stays of an erased account, and nobody acts for it, but what was under way when it was erased, limit kept in every window |
| LLM provider (`core/llm_provider.py`, `core/retry.py`, `core/cache.py`) | process-wide usage counters, cache files | generate with retries, reset and read usage | agent, request threads | unlocked counters shared by jobs and requests | a job is charged for its own calls |
| Research agent (`agents/`, `planner/`, `tools/`) | the run's context | plan, run each tool, isolate failures, report | LLM, jobs, scoreboard | a failing tool, tools that read what others have written, two orchestrators, a model that proposes the plan | demanded evidence before the closing tools, one rating in all of a report, no rating of a ticker that does not exist |
| Sources and their caches (`data/*.py`, `core/cache.py`) | cache files, dictionaries, Redis, the companies' index | read through a cache, resolve a company | every handler, the agent's tools | outages, files cut short, two threads over one file, restarts | an outage is nobody else's, and changes what is found of no message but those about Indian companies |
| Disclosures (`rag/`, `tools/rag_tool.py`, `data/sec_edgar_client.py`, `data/nse_filings_client.py`) | ticker map, filing files, vector store, lock per ticker | fetch, ingest, retrieve | agent | two requests on one ticker, a failure between deletion and addition | one filing stored, what is cited was found |
| Rating, valuation and report (`analysis/`, `valuation/`, `reporting/report_data_builder.py`) | cache of valuations, history of the discount rate | value, rate, judge the evidence, what-if | agent, jobs | missing, zero and negative figures, NaN, a cache under changing inputs | numbers or nothing, a gap costs the valuation and not the report, one rating whoever derives it |
| Backtests (`scripts/phase2_backtest.py`, `scripts/walkforward_backtest.py`) | a portfolio's curve | recommend at a date, rebalance, hold | valuation | dates, boundaries of periods, days without prices, histories adjusted and statements restated since | nothing used that was not known, the curve of a real account |
| Live prices in the browser (`web/src/lib/priceStream.ts`, `livePrices.ts`) | interests of the screens, one socket, its timers | watch, release, connect, reconnect, watchdog | price hub | late answers of earlier attempts, drops, silence | one attempt at a time, the server knows what is watched, the stream recovers |
| Voice session in the browser (`web/src/lib/useConversationalAssistant.ts`, `useRealtimeVoiceInput.ts`) | session, microphone turn, spoken reply | start, end, turn, reply, barge-in, retry | chat, speech services | awaits overtaken by an end, stale closures, unmounting | nothing of a turn survives it, one voice, no stranded session |
| Wake listener (`web/src/lib/useWakeWordListener.ts`, `api/main.py` `wake_listen`, `data/sarvam_realtime_client.py`) | hook, socket, relay with two tasks, speech session | switch on and off, connect, reconnect, relay | voice session, speech service | a connection lost at any of its three legs, timers of earlier connections | it comes back, and lets everything go |
| Pages of the client (`web/src/components`, `useResearch.ts`, `useAuth.ts`) | what is shown, requests under way | select, change, submit, poll, record | server | answers late, out of order or lost | what is shown is what is selected and stored |
| Evidence (`rag/Text_chunker.py`, `rag/citation_engine.py`, `reporting/news_client.py`) | none | cut a filing into chunks, cite, select articles | agent, narrative | boundaries, repeated articles, two pools for several shares | nothing lost or out of order, each category its share, the company's own articles passed over for nothing but a share, every number lists its source |
| Narrative and evaluation (`reporting/narrative_builder.py`, `core/cache.py`, `evaluation/`) | the context of each worker, the cache of answers they share | build the prompt, ask or take from the cache, split, note contradictions, score | agent, LLM | an answer written for another report, headings in any order, drift | prose stands beside the data it was written for, under its own heading; what is missing is counted |
| Vote of the models, ranking, screening (`reasoning/model_consensus.py`) | none | vote | agent | ties, empty input | equal to a reference definition |
| Report layout, infrastructure, notebooks | none | layout, deployment, offline experiments | | none a model checker reaches | |

The hazards of the code, each at its line with the property that would catch it going wrong,
are listed in `PROJECT.json`. One with a note is excepted from its property, or has none that
holds: the note names the divergence that shows it (section 6).


## 2. Plan

The job lifecycle comes first because everything else consumes or feeds it, then trading,
where a wrong interleaving is an order the user did not place.

| Module | Subject | Abstract specification | State |
|---|---|---|---|
| `ResearchJobs` | life of a job | `JobContract`: one outcome, one announcement | checked; every safety property proved |
| `PaperTrading` | orders, proposals, alerts | none: its properties are the promises | checked; every safety property proved |
| `ChatThread` | the conversation that proposals and alerts come from | none | checked; its safety property proved |
| `PriceHub` | poll task, subscriptions, per-client pending ticks at each `await` | none: every client's view is compared with the hub's last ticks | checked; every safety property proved |
| `Accounts` | signup, sessions, the resolution limit, erasure under requests that run on | none | checked; every safety property proved |
| `Agent` over `Recommendation` | planner, both orchestrators, the tools on the shared context, the shared provider with retries and usage | `AgentContract`: the sequence of tools tried | checked; every safety property and the refinement proved |
| `Sweeps` | rating alerts and daily briefings under overlapping cron calls of both and briefings asked for in the chat | none | checked; its safety property proved |
| `CallTracker` | logged calls, their checkpoints and the scoreboard | none | checked; its safety property proved |
| `PriceStream`, `WakeListener` | the browser's end of `PriceHub`; the wake phrase from the hook to the relay | none | checked; every safety property proved |
| `VoiceSession` | hands-free session, microphone turns, spoken replies, wake listener | none | checked; its safety properties proved |
| `Panels`, `WhatIfPanel`, `Lists`, `Preferences`, `ResearchPage`, `Recorder` | the pages under late, reordered and lost answers | none | checked; its safety properties proved |
| `SourceCaches`, `CompanyIndex` over it, `Disclosures` | what is kept of the sources; names of companies; filings from the feed to the citation | none | checked; every safety property proved |
| `Fundamentals`, `Factors`, `Valuation` over `Recommendation` | which figures each engine uses and what it gives; a company's report, the caches beside it, the what-if | none | checked; every safety property proved |
| `Backtest` | what a recommendation of the past rests on, and the curve of a strategy | the broker's account (`account` in the module) | checked; what later events may change of it proved |
| `Evidence`, `Narrative` over it | what the model is given to cite; the prose of a report, with several workers and one cache | none: what `Evidence` promises is stated apart from how it selects | checked; what the prose promises proved |
| counts of the consensus | reference definitions | | not planned: pure functions whose inputs decide nothing in the rest of the system, and which unit tests reach (section 9) |

Composition. `ResearchJobs` treats the agent as a call that returns, raises or hangs; `Agent`
is what stands behind that call and ends where the job records its outcome. `Agent` EXTENDS
`Recommendation`, the pure rules it rates with; `Valuation` rates by the same module, from
figures `Agent` takes as given. `Agent` has whether the report is written and what of; `Narrative` has
how, for the workers of several jobs at once. `ChatThread` has how a message becomes one of the proposals and
alerts that `PaperTrading` takes as given, and the rows by which the sweeps speak in the conversation. `PriceHub` has the server's side of a
connection and what a browser shows of it, `PriceStream` the browser's side of making and
losing connections; they meet at the subscribe message. `VoiceSession` has what becomes of a wake
phrase, `WakeListener` how the listener hears one. `Accounts` erases rows of its own
two tables; the erasure of jobs and files is in `ResearchJobs`, that of a user's ratings in
`Sweeps`. `CompanyIndex` resolves names by the lists that `SourceCaches` loads. Where components
share no state, one MC module holds them as scenes of one run: a behaviour is in one scene from
its initial state on.

## 3. The modules and the code

`PROJECT.json`'s "map" gives every definition's lines. In all modules one action is one step
that another thread can observe: a transaction, a file write, a call that leaves the process.
A variable of the model is a column, a field of the process's memory or a local of a thread;
those called history exist only for properties. Definitions called variants are deliberately
wrong forms of the definition that follows them; no behaviour uses them, and each breaks the
property it is paired with in "mutants".

### ResearchJobs

State: the `jobs` table one function per column (`status` "none" is no row), `pdfs` the files
of `REPORTS_DIR`, `queue` the pool's work queue, `progress` the keys of `_job_progress`; for
every request thread its step, arguments and locals (`cpc`, `cuser`, `cask`, `cstamp`,
`cjob`), for every worker its step, job, `pdf_path` and the row it re-read (`wpc`, `wjob`,
`wpdf`, `wseen`).

| Action | Code |
|---|---|
| `SubmitReused`, `SubmitNew` | `submit_research`: duplicate check; both time stamps are read before the write lock |
| `InsertJob`, `RejectOverLimit` | the two ends of `create_job_if_under_limit`'s transaction |
| `EnqueueJob` | `enqueue_job`, a separate step after the commit |
| `PickUp` | the executor hands the oldest item to an idle thread |
| `MarkRunning`, `MarkRunningFails` | `mark_running`, which stands before `_run_job`'s `try` |
| `ReportStep` | `_on_step` |
| `AgentReturns`, `AgentRaises`, `AgentHangs` | the agent call with the PDF write that follows it |
| `MarkDone`, `MarkError` and their `...Fails` | the guarded UPDATEs and the nested handlers around them |
| `TrackCall` | `log_tracked_call` |
| `ReadOutcome`, `PushOutcome` | `_notify_job_complete` and the `finally` block |
| `SweepTimeouts`, `Startup` | `reconcile_timed_out_jobs`, `reconcile_interrupted_jobs` |
| `DeleteAccount`, `RemovePdf` | `delete_user_account`: rows in one transaction, then the files |

A question stands for the triple the duplicate check compares. Time is a bounded counter;
`startedAt` keeps the code's double role (insertion, then start of the run), and the history
variable `createdAt` keeps the first stamp so that the quota can be stated over admissions.

### JobContract

The abstract specification of a job id: `phase` is what `GET /v1/research/{id}` answers, `told`
what the push said. A job is accepted, finishes or fails once, may be erased with its account;
one announcement is made, which its outcome never contradicts. `ResearchJobs` implements it
under `Phase` (`ImplementsContract`).

### PaperTrading

One account, since every table is keyed by the account. An actor is a request thread or a
call of the alert sweep. `lock` is SQLite's write lock: a one-statement write needs it free,
`execute_order` holds it from `Begin` to its end. Holdings are whole lots; `legsOf` is
`legs_json`.

| Action | Code |
|---|---|
| `Peek`, `PopYes`, `PopDrop`, `RouteElsewhere` | `handle_chat_message`: the pending order is looked at first and popped in a later transaction; a yes executes what is popped, a no or anything else drops it |
| `Propose`, `Reply` | `_handle_place_order`, `_propose_batch_order`, and the answer reaching the user |
| `CreateAlert` | `_handle_create_alert` and `POST /v1/alerts` |
| `PlaceOrder` | `POST /v1/orders` |
| `CheckNotHeld`, `AddHolding` | `_handle_add_holding`: refused for a ticker already held; between that look and the upsert a quote is fetched |
| `EditHolding` | `POST /v1/portfolio` and `DELETE /v1/portfolio/{ticker}` |
| `Begin`, `ReadHolding`, `CommitOrder`, `RejectOrder`, `DividesByZero`, `OrderFails` | `execute_order`, leg by leg |
| `SweepStart`, `SweepSkip`, `SweepClaim`, `SizeOrder`, `NotifyUser`, `Unclaim`, `SweepEnd` | `sweep_price_alerts` and `_fire_alert` |
| `QuoteFails`, `ClaimFails`, `NotifyFails`, `UnclaimFails`, `ChatFails` | the places where a quote or a database call raises |
| `Crash` | the process dies; nothing at startup repairs these tables |

A batch's quantities may round to zero lots, as `_expand_buy_top_n_batch` rounds to four
decimals. Legs of a batch run in any order: the code's order is that of a ranking the model
does not have.

### ChatThread

One account's rows of `chat_messages` and the requests of `POST /v1/chat`. What `PaperTrading` knows by
legs and fills is here known by its tickers only. A message is known by how it names a company: by words
that the lists of companies know, by words that only a model makes a company of, by a token like a ticker's that
no list has, by words that nobody can resolve, or not at all. A row has its ticker and whether a
user, an answer, a proposal or a sweep wrote it.

| Action | Code |
|---|---|
| `Ask`, `Say`, `Answer` | `post_chat_message`: the rows before are read, the message is stored, the reply is |
| `Peek`, `Confirm`, `Cancel`, `Drop` | `handle_chat_message` with an order pending |
| `Classify` | `classify_intent`: `resolve_companies`, or else the latest ticker of the rows read (`MostRecentTicker`) |
| `Handle`, `Brief` | the handlers: `Outcomes` says what each may change and where its words come from |
| `Fails`, `Notify`, `ProviderGoes`, `ProviderComes` | a 500; a row from `_notify` or a briefing; the models' outages |

`resolve_companies` asks a model where the lists do not know the words, so the two calls of a handler that
looks again may differ (`Resolve`). A message gets its words when they are first looked at.


### PriceHub

One event loop: a step reaches from one `await` to the next; only the reads of quotes run in
threads. A client's `pending` and `ready` are its dictionary and its event, `sending` is what
its sender awaits, `shown` what the browser has received and overlaid (`applyTicks`). A price
is the parity of the market's version, so it may come back to an old value between polls.

| Action | Code |
|---|---|
| `Register`, `Unregister` | `register`, and the `finally` of `price_stream` |
| `Subscribe` | the receiver, `set_subscriptions` with the cap per client and the known ticks it sends at once |
| `Take`, `Sent` | the sender before and after it awaits `send_json` |
| `Poll` | `_run`: idle shutdown, start of a poll over the first `MaxTotal` tickers, its end when all reads are back, the wait |
| `Fetch`, `FetchFails` | `_fetch_one` in a thread |
| `MarketMoves` | the price changes |

### PriceStream

An attempt is one call of `connect()`. The generation counter is the attempt that holds it:
everything that comes back from an earlier attempt finds another one there. `refs` is the
store's count of interests, `sent` the last subscription a socket was given.

| Action | Code |
|---|---|
| `Watch`, `Release` | `LivePriceStore.watch` and the function it returns, with `sync` |
| `EndpointAnswers`, `EndpointFails`, `SocketOpens`, `Hello`, `SocketCloses` | the parts of `connect` |
| `TimerFires`, `ReconnectNow` | the reconnect timer, the `online` event |
| `WatchdogFires`, `GoesSilent` | the watchdog; a link on which nothing arrives any more |

### Sweeps

A sweep and a chat request are records with a step and their locals; each transaction is a
step. `seen` is `rating_alerts_seen`, `briefedAt` the cursor of the briefings. The history
`known`, `mentioned`, `told` records what users were told, `excused` the changes that were lost. SQLite's wait for the write
lock lies between the step that reads the clock and the one that writes the row.

| Action | Code |
|---|---|
| `AlertStart`, `AlertUser`, `AlertRead`, `AlertCompare`, `AlertNotify` | `sweep_rating_changes` |
| `AlertMark`, `AlertStore` | `set_rating_alert_seen`: the time is read, then the statement has the lock |
| `BriefStart`, `BriefUser`, `BriefSince`, `BriefChanges`, `BriefDeliver`, `BriefStamp` | `sweep_daily_briefings` with `build_briefing` |
| `Ask`, `AskChanges`, `AskComposed`, `AskStamp`, `AskReply` | `_handle_daily_briefing`: the time is read when the model has answered, then stored; and the reply of the chat endpoint |
| `AlertAborts`, `BriefAborts` | an exception that ends the request |
| `Track`, `Report`, `Erase`, `Tick` | watchlist and portfolio, a finished report, `delete_user_account`, time |

### Accounts

| Action | Code |
|---|---|
| `Signup`, `SignupInsert` | the check of the email, and `create_user` after the password was hashed |
| `Login`, `CreateSession`, `Logout` | the same of a login; `create_session` serves both |
| `Ask`, `Admit` | a request passes `get_current_user`, for a write, a resolution or the erasure: a session of the user has not expired |
| `Write` | the handler stores a row for the user it was admitted for |
| `Claim` | `claim_ticker_resolution_attempt`, its window read before the lock |
| `Erase` | `delete_user_account` |

One of two tables is emptied by the erasure (`watchlist`, which stands for all it names), the
other is not (`portfolio`, which stands for those it leaves). History: the requests `overtaken` by the erasure of
their account, the sessions they open (`strays`), by which others come in, and the rows they store (`late`).

### Recommendation, AgentContract, Agent

`Recommendation` holds the pure rules of a rating: percentile scores, the composite score and its
thresholds, the fallback when a reading is missing, disagreement, and the quality label. Percentages
are in tenths and scores in hundredths, rounded down where the code keeps a float.

`AgentContract` says what a run promises whatever its planner and orchestrator: demanded and
closing tools are tried once each, evidence first, the closing tools in their order.

`Agent` is one run inside a job. `context` is the shared `ResearchContext`, reduced to what the
tools read of each other; `plan`, `step` and `node` are the position in the hand-rolled loop or in
the graph. `call` is a call of the provider a thread has under way, `usage` the provider's counter.

| Action | Code |
|---|---|
| `Start`, `Plan` | `ResearchAgent.run`, `LLMPlanner.create_plan`: rules, then the model's proposal, added to and never replacing what the rules demand |
| `RunTool` | a tool with the isolation of its failure, in the loop or in a node of the graph |
| `BeginReport`, `EndReport` | the report tool before and after the narrative's calls of the model |
| `Answer`, `Account`, `Retry`, `GiveUp` (in `CallStep`) | `HostedProvider.generate`, `_accumulate` |
| `ForeignCall` | another request calls the same provider |
| `Complete` | the end of `_run_job`: what is stored, and whether the call is tracked |

Left out of `Agent`: the local model and the time between retries; `ResearchJobs` has what
becomes of a run that hangs.

### Evidence, Narrative

`Evidence` has no state. Of a paragraph remain its length, its keywords and whose words it quotes, so
that `Chunks` can say where a filing is cut (`_split_paragraphs`, `_split_by_speaker`) and what is
said of each piece; of an article its URL, its categories and the counts on its headline, which is what
`SelectForAnalysis` ranks by. What the prompt has of an article is `AsRead`, without its URL. `PacksWell`, `KeepsTurns` and `SelectsWell` are the promises, worded
without the algorithm.

`Narrative` follows the workers (`at`, `material`, `prompt`, `answer`, `shown`, `metrics`), each with
a context of its own, and `cache`, which they share through Redis. An answer is its lines: what a
line says, by tone and by the numbers it cites, and the heading on it or glued to its end.
`writtenFor` is history: the prompt that an answer was written for, by whichever worker.

| Action | Code |
|---|---|
| `ReadNews`, `ReadFiling` | `NewsTool.run`, `RAGTool.run`: what may be cited |
| `Compose` | `report_tool` to the prompt (`_build_prompt`), built with the rating and the day as they are then |
| `TakeFromCache`, `Ask`, `Generate`, `NoAnswer` | `build_narrative_sections`: `cache_get`, the call of the model, `cache_set`, which may be lost; the provider raises |
| `Evaluate` | `evaluation_tool`: citations, missing sections, the overall score |
| `Finish`, `Forget` | the run ends and with it its context; an entry of the cache expires |

`SectionsOf` is `_split_sections` with the guardrail and the placeholders. Which sentence an evaluator
counts as supported, and which items it takes as paraphrased, is a choice; the sum of the scores is not.

### VoiceSession

A turn is one call of `start()`; `stream` and `link` are the turns that set the hook's references,
so that an overtaken `start()` is seen to overwrite those of the next turn. A reply is one call
of `sendMessage`, with the step it awaits and that of its sentences; `speaker` is the reply whose
`speakSession` is current. Closures are modelled by what they read: a turn, a retry and the
listener carry the value of `sending` in the render they were made in.

| Action | Code |
|---|---|
| `MicGranted`, `OpenLink`, `StartFails` | `start()` from one `await` to the next |
| `Ready`, `Transcript`, `LinkCloses`, `TurnTimesOut` | the socket's callbacks and the turn's timer, through `endTurn` |
| `RetryFires` | the timer of `handleMicStateChange` |
| `Answered`, `SpeechOver` | `sendMessage` after the request, and after the reply was spoken |
| `SentenceReady`, `SentenceEnds` | `runSentencePipeline` after each `await` |
| `Type`, `TapStart`, `TapEnd`, `Interrupt`, `Leave` | the user: a typed message, the buttons, spoken replies switched off, another page |
| `EnableListener`, `ListenerMoves`, `WakeDetected`, `Rendered` | the wake listener, and the page's effect that resumes it |

React is assumed to commit a render, and to run its effects, before the next callback: a session
that begins and ends within one frame is not modelled.

### CallTracker

Time goes in days; `bars` are the closes of the days that have a session, today's still moving.
`sweep` holds of each call of the sweep the rows it read as due and the price it has fetched.

| Action | Code |
|---|---|
| `Log` | `log_tracked_call`, with the price of the report, which may be missing or zero |
| `Begin`, `Price`, `Record` (in `Sweep`) | `check_matured_checkpoints`: the due rows read once; for each the history and the close nearest its date; the outcome written |
| `HistoryFails`, `RecordFails` | a row skipped; the request ended |
| `Opens`, `Moves`, `DayPasses`, `Split` | the market; a split scales the history and not the price logged |

`Accuracy` and what is derived from it are `get_scoreboard` over the model and the two raters that
always say the same.

### WakeListener

`link` has, for each connection, its browser's socket, what the endpoint is at, the session at the
speech service, and what is on its way to the browser. `timers` are reconnections and the renewal
after four minutes; `timerRef` is the one the hook would clear.

| Action | Code |
|---|---|
| `Start`, `Granted`, `Denied`, `Stop`, `Leave` | `handleClick`, `start()` around its await, `stop()`, unmounting |
| `TokenCame`, `TokenFailed`, `Opened`, `Breaks`, `Receive`, `Fire`, `Resume` | `openWs` and its callbacks, the timers |
| `Authenticated`, `Refused`, `Connected`, `Begins`, `Heard` | `wake_listen` to the first message of the session; the phrase |
| `SessionEnds`, `ChunkFails`, `Disconnects` | the ends of the two tasks of `relay_for_wake_word` |

### SourceCaches, CompanyIndex, Disclosures

A cache is described by where it keeps (`kept`: a file, a file and the process's memory, memory or
Redis for a time) and by what it does when its source fails (`fails`: raises, answers with nothing,
keeps nothing as an answer, or takes the old file). The fifteen caches are one operator each, named for the
function; `Reads` says which of them a call reads, all in turn or until one answers.

| Action | Code |
|---|---|
| `Load`, `RedisMisses`, `Read`, `Convert`, `Fetch`, `FetchFails`, `Write` | a read through a cache, step by step as another thread can see it: the file is torn between its opening and its writing |
| `Merge` | `suggest_companies`, over lists that another thread may be converting |
| `FileAges`, `MemoryAges`, `Outage`, `Restored`, `Crash` | time, the sources, the process |

`CompanyIndex` has no state of its own. A message is its words that may be tickers, the tickers of aliases and
coins that it contains (be it inside of words), its phrases, each by its score with every title of both lists, and what the LLM
would propose. `Companies` is `resolve_companies` of it with the NSE's list or without (`BestTitleMatch`,
`Matches`, `Proposed`), `Unresolved` is `has_unresolved_ticker_attempt`, and `CarriedOver` an order of the chat for the
company talked about before. What a message is about, apart from what it is taken to name, is no state of the program;
so the property compares what it is taken to name with the list and without (`NseOutageConfined`).

`Disclosures` follows a request through `rag_tool.py`: `LoadTickerMap`, `DownloadTickerMap`, `TickerMapWritten`,
`GetFilings`, `ReadFiling`, `FetchFiling`, `FilingWritten`, then under the ticker's lock
`LockAndCheck`, `DeleteStored`, `AddDocuments` or `AddFails`, and without it `Retrieve`. A filing is
its place in the feed; `Publish` and `Crash` are the world.

### Fundamentals, Factors, Valuation

A figure is a small integer or `Missing`; an amount computed of figures is "number", `Missing` or
`NaN`, since what goes wrong in this code is what an engine has left when years with gaps are
dropped. `Fundamentals` has the statements and the engines (`BaseFcff`, `RevenueGrowth`, `Wacc`,
`EnterpriseValue`, `DividendValue`, `VersusHistory`), `Factors` the ratios beside them. Where only the
sign or the size of an amount decides, it is a choice.

| Action of `Valuation` | Code |
|---|---|
| `Ask`, `Value`, `BuildReport`, `WhatIf` | a job's report through `ValuationTool.run` and `build_report_data`, then the what-if endpoint |
| `CapMoves`, `YieldMoves`, `MemoryExpires`, `CacheExpires` | the market, and what is kept |

### Backtest

A world fixes trading days, prices, listings, fiscal years and yields; `Rebalance` scores every ticker
with `Context(w, t, date)` and turns the ratings into amounts, `Hold` is `_equity_segment` to the
next date. `account` is a broker's account that trades to the same weights: the reference the curve is
compared with. What a recommendation rests on is compared between worlds (`Futures`) that differ in what comes after the
date (`Later`), in a split after it, for which the closes fetched are adjusted (`Adjusted`), or in a statement restated
since (`Restated`).

### The pages of the client

Each module is a page, or a kind of page, with its requests under way (`flights`, `patches`, `loop`):

| Module | Steps |
|---|---|
| `Panels` | `Select` (a click, or a keystroke), `LookUp`, `Retry`, `Answer`: chart, feeds, suggestions |
| `WhatIfPanel` | `Drag`, `Send`, `Open` (another report), `Answer` |
| `Lists` | `Submit`, `HandleRemove`, `Reload`, `Serve` (the server), `Answered`, `Failed` |
| `Preferences` | `Set`, `Serve`, `Answered`, `Failed` |
| `ResearchPage` | `Submit`, `Posted`, `NotPosted`, `Wake`, `StillRunning`, `Done`, `PollFails`, `NotRead` (an answer that is not JSON rejects `submit()`), `Open`, `Opened`, `NotOpened`, `Back` |
| `Recorder` | `startRecording` and `stopRecording` (`Start`, `Granted`, `Denied`, `Unrecordable`: granted, and the recorder or its context raises, `Silence`, `MaxTimer`, `Escape`, `OnStop`, `Converted`, `Transcribed`, `NotTranscribed`), and the questions of a new user (`Said`, `Speak`, `Classified`, `Cancel`) |


## 4. The runs

| Run | Shows |
|---|---|
| `jobs_safety` | two request threads, two workers, two jobs, a limit of one, a crash and an erasure: quota (`QuotaKept`), one place per job, files, and the contract |
| `jobs_recovery` | failing database calls, hung runs and a crash: open rows have an owner, running rows end and accepted jobs leave the queue (`JobsEnd`), in a smaller instance without symmetry since it checks liveness |
| `trading_chat` | two threads of one account over two tickers and two proposals with a failing call: the ledger adds up (`OrdersAddUp`), a leg is filled once, a dropped proposal never (`ProposalsHold`). In the other scene the conversation: a change is for the ticker the message is about, a yes for what the conversation has come to, an outage changes nothing (`ChatHolds`) |
| `trading_alerts` | two overlapping sweeps and a request thread on one alert, two faults, a crash, a price that crosses and comes back: ownership of claims and the account of fills (`AlertsAccounted`), and that a crossed alert is handled |
| `connections` | four scenes. Connections that come and go at the hub, and one that lives through price moves: nobody keeps an old price, quotes never go back, the current one arrives. Two screens that share a ticker: live means subscribed, one attempt under way (`StreamHolds`). The wake listener from the button to the speech service (`ListenerHolds`). Both recover (`Recovers`) |
| `sweeps` | two rating sweeps; a rating sweep beside a briefing sweep and chat requests, or beside two briefing sweeps; and two sweeps that score a logged call: no change is skipped, a call is scored by the close of its date (`OutcomesHold`), every new rating gets proposed and every due call scored (`SweepsCatchUp`) |
| `accounts` | two requests, two ids and two sessions over one email: the limit in every window, what is left of an erased account and who may still act for it |
| `agent` | both orchestrators, every proposal of one tool, a fault, a retry, a call of another request: the contract, one rating and no rating of nothing (`RatingsHold`), own usage, an end. In other scenes what a report may cite (`EvidenceHolds`), every answer of four lines, and two workers over one cache (`NarrativeHolds`) |
| `sources` | the filings of a ticker of either market under two requests, and two threads over the caches of the lists or of the statements: an outage is nobody else's, what the NSE's list changes by being empty is confined to Indian companies (`NseOutageConfined`), one filing is stored and found as cited (`FilingsHold`), and the sources' end of an outage is the end of it (`SourcesRecover`) |
| `valuation` | reports of companies with any two oddities, and a walk-forward of three strategies: numbers or nothing, a gap costs the valuation only, a view rates, the cache serves the same inputs, no look-ahead but by adjusted closes and restated figures, the account adds up |
| `web_client` | seven scenes, the voice session and six kinds of pages: one voice, a session that goes on or says it does not, a listener that wakes up, pages that show what is selected and stored (`PagesHold`), microphones given back (`MicrophoneIsReturned`) |
| `trading_refire` | see section 6 |

Why the bounds suffice. The races of the quota need two handlers and one place, those of
zombies and sweeps two workers (one a zombie, one current) and a job that times out within
`MaxTime`; the windows are one or two ticks, so that a row can be inside, at the edge of and
outside both the rate and the duplicate window. One crash shows every state a restart can
meet; a second would meet a state that `Startup` has just made. Two faults in a row are what
it takes to reach the outer handler of `_run_job` and the failing unclaim after the failing
notification. In trading, two threads are enough for every peek/pop race, two proposals for
one to supersede the other, and two tickers for a batch with a leg left to try; two sweeps
race for one claim, and `MaxMoves` = 2 lets the price cross and come back.

`MCPaperTrading` has the orders and the conversation as two scenes: what each follows is in other tables.
Five rows (`MaxRows`) are a row to be carried over, an exchange and a message that may act on it, with a window
(`HistoryLimit`) of two that forgets the first of them; one of the rows may be a sweep's (`MaxNotices`). Requests that
overlap are followed for two rows (`MaxCrossed`): two messages, or a message and an answer or a notice. That covers less
of overlapping requests than of the others; `ChatIsKept` covers them all.

In `connections` a cap of one ticker makes the second one starve and be admitted again; two moves
let a price come back to its old value between polls, which is when the comparison of a poll sees no
change. `MCConnections` splits the environment of the hub into two scenes, since the properties
relate one client to the hub, and a second client matters only for the task and the wanted tickers.
Three attempts of the stream are one current and two late ones, and two consecutive failures reach
`GiveUpAfter`. The listener has two connections, one overtaken by the other.
`MCSweeps` has the scenes of overlapping rating sweeps, of one rating sweep beside a briefing sweep and a
briefing asked for or beside two briefing sweeps, where a tracked ticker changes its rating once, and of sweeps that score: there one call with one checkpoint, since rows share
nothing but the batch (what a batch does after a row that raises is in section 6). In `accounts` two
requests are the smallest race; ids are never used twice, so a
second user id is an email signed up again after its erasure. `MCAgent` lets another request call
the provider beside one kind of question only, since usage does not depend on the question; the
readings are an upside that rates a Buy, which may be missing, and a discount that then rates a Buy
or, with negative news, a Hold: two ratings when the news arrives between them. Its scenes of the prose are
three. What may be cited: six articles in every order, with the latest repeated or not, under a limit of five and shares
of two for two categories, so that pools compete and a place can stay empty; filings of up to four
paragraphs, or three turns of speakers, around a length of eight that one paragraph alone exceeds.
Wording: one report and every answer of four lines (`MaxLines`) over two sections, which is what a section repeated
after another, a heading glued on and a drift in between take. Sharing: two workers whose reports differ in
the rating, the growth or the day, and a cache that holds one entry (`MaxCached`): entries of
different keys never meet.

`MCMessages` has one word, or one phrase or proposal, with every score below, at the threshold's both sides and every tie
with a title of either list; what a message names by several of them is put together one by one. In `sources` the calls of a scene are those that read the same source: two threads are a writer and a reader
of one file, one outage and one crash make a failure of the one process met by the other request or
by the next process. Two filings are the stored one and a newer one, of any forms, published while
requests run. In `valuation` every item of the statements may be missing, zero or negative in any one year or
in all, every gap of the quote and every outcome that is out of the ordinary is another oddity, and
companies have any two of them; three years are what the cash flow, the growth table and the multiple
need at least. Two reports are the fewest that share a cache. The backtest has three dates and seven days, one
of the dates without trading in some worlds.

In `web_client` two turns are one that is
current and one overtaken; two clicks are a session ended and another begun, or a message typed
beside a session; two faults in a row pass the cap of one retry. A page has two or three requests, the
fewest that can overtake each other, over two or three things to select.
What a panel shows at first and the report that is open at first are any of those there are.

An invariant is checked in the run whose instance reaches most of its cases, not in all of its
module's runs. Type invariants and lemmas that are proved (`PushStaysTrue`, `ReusedReportIsDone`,
`ProgressIsLive`, `PolledWhileConnected`, the inductive strengthenings of section 7) are in no run's
list; each was model-checked before it was proved.

`Symmetry` and `ChatSymmetry` permute identities that are compared only for equality; no run
that checks liveness uses them. `jobs_safety` does list a refinement, a safety property
symmetric in the permuted sets. Deadlock is checked in the passing trading runs. The others switch
it off because their instance stops when its clock, its ids, its moves or the user's requests are
used up, or, in `agent`, when the run has ended, which the program's processes never do.


## 5. Fairness

`ResearchJobs`: weak fairness of each worker's own progress (pool threads are scheduled by the
OS; the agent may hang, and a hung worker then makes no more progress), of `EnqueueJob` (a
handler that has committed goes on to the next line), of `SweepTimeouts` (the cron job calls
it every few minutes), of `Startup` (the platform restarts a dead process) and of time. Faults,
hangs and crashes are never required, nor is anything of users.

`PaperTrading`: weak fairness of each sweep's steps (cron calls for ever) and of the steps of an
order. Weak fairness of a step that needs the write lock is justified here because orders are
finitely many in any behaviour, so the lock is not taken for ever by others; in the program a
wait of more than 10 s for it raises, which the model counts as a fault.

`PriceHub`: of the poll task (`Poll`), the threads that read quotes (`Fetch`), and each sender
(`Take`, `Sent`): the event loop runs every task that can run, and a browser that stays connected
reads. Nothing of clients is required.

`PriceStream`: timers fire (`TimerFires`, `WatchdogFires`), a token request ends, since `fetch`
settles, and a handshake and its greeting do (`SocketOpens`, `Hello`) unless the link is silent.

`WakeListener`: its requests are answered, its timers fire, and each connection's next step is
taken, by the network, the endpoint or the relay. Nothing of the user or the speech service's end of a
session is required.

`Sweeps` and `CallTracker`: of each rating or scoring sweep's next step: cron calls for ever, and a
started request runs on.

`Agent`: of the job's own next step: the worker thread is scheduled and every network call has a
timeout. Nothing is required of other requests.

`SourceCaches` and `Disclosures`: of each thread's or request's next step, of time (what is kept
ages), and of the end of an outage; and that calls are made again, since what recovers is
what the next caller gets. A ticker's lock that becomes free is given to a waiting request in the end, and a report on a
ticker is asked for again whenever a request can be made, so these two steps are strongly fair.

`Accounts`, `Valuation`, `Backtest`, `Narrative`, `VoiceSession` and the pages are checked for safety only and
assume no fairness.


## 6. Where the code does not do what it says

Each property below is worded after a comment, a docstring, a test or a message of the source, and
TLC finds it violated. `trading_refire` is listed as a run, and its finding quotes the line. The others are
checked by hand, each with the configuration of the run named and the property put in place of the run's own ones
(without SYMMETRY for a temporal one). A property about
the pages must be the scene's own, `MCWebClient` names them all.

Jobs (`jobs_recovery`):

* `LostRowsAreSwept`: `mark_running` stands before the `try`; when it raises, the row stays pending,
  and the sweep that the comment says will catch the row looks only at running ones.
* `NoOrphanPdf`: an account erased while its job runs; the worker writes the report's file after
  the account's files were removed.
* `TrackedCallsWereReported`: a run the sweep has closed comes back, `mark_done` refuses it, and
  its rating enters the scoreboard.

Trading (`trading_refire`; `trading_chat`, and for `EveryLegIsTried`, `AddNeverOverwrites` without its SYMMETRY):

* `AlertFiresOnce`: the order is committed, its notification fails, the alert is given back and the
  next sweep orders again.
* `OnlyShownProposalsFill`: the yes given to one proposal pops the proposal that has replaced it
  since the peek.
* `EveryLegIsTried`: a leg rounded to zero shares of a ticker not held divides by zero; the
  exception is not the one the batch catches, so the other legs are not tried.
* `AddNeverOverwrites`: the chat looks whether a ticker is held, fetches a quote, and writes the
  holding without looking again; what an order bought meanwhile is replaced.
* `YesAnswersItsQuestion`: an order is proposed, a sweep writes "want me to exit your position?", and the yes
  executes the order (`chat_router.py:1211-1213`: a proposal is not to be "accidentally confirmed later by an unrelated
  "yes" to something else entirely").
* `AlertsOnlyNamed`: a company that only a model can make out is not resolved when the ticker is carried over, and
  is when the handler looks again; the alert is for the ticker carried over (`chat_router.py:940-941`).
* `NamedIsNotCarried`: words that nobody can resolve are no attempt at a ticker, so a holding named by them is added
  for the ticker carried over (`chat_router.py:816-818, 1049-1050`).

Connections (`connections`):

* `ClosedWhenReleased`: `reconnectNow` forgets an open socket without closing it, and nothing closes
  it later (`livePrices.ts:2, 72-73` says that it closes with the last release).
* `RecoversAlways`: a link that goes silent before the hello is watched by no timer
  (`priceStream.ts:1-2`).
* `ReleasesAll`: what `start()` and `openWs` wait for when the page is left is not released
  (`useWakeWordListener.test.ts`, "releases the mic, AudioContext, and WebSocket on unmount while
  running").
* `OneSocketAlways`: a timer that a closed connection left behind connects beside the next one.
* `ListeningIsConnected`: the state stays at "listening" through a planned reconnection
  (`useWakeWordListener.ts:101`).
* `FatalEndsRelay`: after a fatal error of the session the task that sends goes on
  (`sarvam_realtime_client.py:75`).

Sweeps and the scoreboard (`sweeps`):

* `NoChangeSkippedEver`: a change marked while an on-demand briefing is composed lies before the
  cursor that the briefing then sets, and is in no briefing. Nor is one whose row waits for the lock
  (`db.py:1004` reads the time before) while a briefing starts and reads. Of two briefing sweeps that overlap,
  the earlier one may move the cursor back, and changes are told twice.
* `ProposalsSettle`: of two overlapping sweeps the later writes the older rating as seen, or the
  last proposal a user gets is of the older rating.
* `BatchIsTried` (with `MaxCalls = 2`): a call logged at the price of zero raises outside the `try`
  and stops every later row, at every sweep (`call_tracker.py:76-81`).
* `ScoredOnce`: of two sweeps that overlap the later one scores again.
* `SplitsAreNoLosses`: the history is adjusted for a split after the call, the price logged is not.

Agent (`agent`):

* `QualityReflectsScore`: the quality label and the confidence of a report are derived while the
  report is built, before `evaluation_tool` has scored it; the label is always LOW and the
  confidence missing, in the report and in the tracked call.
* `OutageIsReported`: the narrative's failure is swallowed with the report tool, and the job ends
  as done without a report.
* `WrittenIsShown`: of several headings of one name the first counts; when the model begins with an
  example of the headings, the report shows the example's empty sections and drops what follows as repeated
  (`narrative_builder.py:454-460`: what is dropped is "truncated or off-topic more often than the original").
* `ChunksFit`: what one speaker says is one chunk, however long (`Text_chunker.py:116`: "chunks larger than this get split
  further").
* `CompanyComesFirst`: a category without an article about the company takes its share from the generic ones
  (`news_client.py:432-434`) while articles about the company are left. The docstring (`news_client.py:394-397`) has these
  "exhausted per category, then overall, before the generic pool ... is used at all", a test
  (`test_news_client.py:33`) "Company-specific coverage must be exhausted first".

Accounts (`accounts`):

* `ErasureIsComplete`: rows of tables that `delete_user_account` does not name stay (`db.py:640`,
  "everything scoped to them"), also those that were there when the account was erased.
* `ConflictsAreReported`: the loser of two signups gets an internal error instead of the conflict
  (`main.py:389-397`).

Sources (`sources`):

* `NseOutagePasses`: an empty list of the NSE is kept by the process for as long as it lives.
* `SuggestsFromBoth`: a list and a set have no union while another thread converts them.
* `NewsNeverRaises`: a cache file cut short raises where the docstring says that nothing does.
* `CarriedOverOnlyUnnamed`: the NSE's list is empty when a message is resolved and there when it is asked
  whether it attempts a ticker; an order that names one is for the company talked about before
  (`company_resolver.py:627-629`, "must never silently fall back to a DIFFERENT ticker").
* Without a property, since what a message is about is no state: with both lists in hand a message is
  taken for another company by an alias inside of a word ("metals" contains "meta", line 533), by a phrase that
  resembles another title by 85 or more (lines 568-578; the comment at lines 81-88 records "Can" taken for CANG), and by a
  word of a command that is a ticker as well (ALL, NOW; line 501).
* `NeverObservablyEmpty`, `CitedFilingOnly`: retrieval takes no lock, and may find the store empty or
  holding the filing that has replaced the one cited (`rag_pipeline.py:111-112`).

Valuation and backtest (`valuation`):

* `RateSensitivityIsComputed`: the five days of the yield that the discount rate needs stay in memory
  and are all that the factor then finds (`valuation_pipeline.py:115-118`, `market_data.py:310`).
* `NumbersAlways`, `ComparesNumbers`, `GrowthsAreNumbers`: a NaN reaches the report where revenue has
  turned negative, where the last balance sheet has a gap, and where a year reports no shares
  (`valuation_pipeline.py:365`; a growth per share that is infinite, NaN or -100 % counts as none,
  `growth_metrics.py:43, 54-58`). Such a report cannot be fetched: `JSONResponse` refuses a NaN
  (`test_technical_indicators.py:174-175`).
* `WhatIfAnswers`: where revenue has turned negative, the slider of growth starts at a NaN, and the what-if is answered
  by an internal error instead of `available: False` (`what_if_dcf.py`).
* `RaisesNever`: a company with no revenue in any year costs the valuation by an exception.
* `FullViewsRateAlways`: a report is marked as having a view and does not rate the company.
* `BoundariesAreCounted` (`walkforward_backtest.py:338`), `CashIsKept` (`walkforward_backtest.py:285-287`),
  `FinalValueIsNet`, `ComparedOverSamePeriods`: a boundary without trading belongs to neither period, what is put
  into a ticker not yet listed counts as nothing, the last costs are not in the final value, and the index is compared
  over other periods.
* `NoLookAheadEver` (`phase2_backtest.py:260-262`, "a look-ahead leak this script otherwise goes out of its way to
  avoid"): statements made public late, and yields that do not reach back to the date; the history fetched
  is adjusted for later splits and dividends (line 191), so the price of the date and the market value
  (lines 208, 241) are not those of the date; and statements are as restated since (lines 192-194).

The web client (`web_client`):

* `NoMicrophoneLeft`, `NoMicrophoneAfterLeave`: a session ended, or its page left, while `start()`
  waits; `start()` goes on and opens a microphone that no turn owns (`useRealtimeVoiceInput.ts:206-214`).
* `SessionNeverStranded`: a final transcript of silence ends the turn and nothing starts another; so
  does one swallowed because its closure saw `sending` true (`useConversationalAssistant.ts:86-93, 233-240`).
* `ListenerAlwaysWakesUp`: a session that ends while the wake listener reconnects leaves it paused
  (`page.tsx:130-141`).
* `NotHeardByItself`: a session begun while a typed reply is on its way records while that reply is
  spoken (`useConversationalAssistant.ts:267-271`).
* `GuardedEverywhere` (`PriceChart.tsx:97`), `ErrorIsOfSelected`, `ShortSuggestsNothing`
  (`Watchlist.tsx:143`): the chart alone keeps overtaken answers out.
* `ResultIsOfReport` (`WhatIfPanel.tsx:57`), `SlidersStay`: an answer for another report, or for
  earlier values of the sliders, is shown.
* `FailedDeleteIsTakenBack`, `NothingWasPlaced` (`orderValidation.ts:54`), `NeverUnsaved`
  (`useAuth.ts:172`): a list that fails as well, an answer lost after the order was placed, and two
  changes of a preference that both fail.
* `ResultIsOfItsJob`, `RunningIsFollowed` (`page.tsx:157`): a question asked by a link beside another,
  and a report opened beside an answer awaited. And an answer that is not JSON or cut off: it is read outside of the `try`
  (`useResearch.ts:106, 123`), `submit()` is rejected, and the page says for ever that research is running.
* `MicIsAlwaysReturned`, `AnswersFitQuestions` (`README.md:32`, `VoiceInputButton.tsx:188`),
  `OneMoreTry`, `CancelledChangesNothing`: two clicks before the microphone is granted, or one granted of which
  no recorder or no audio context can be made (`VoiceInputButton.tsx:258, 264, 294`; the `catch` at 314-322 stops no track);
  and the questions asked aloud, whose answers are all kept as the first one's.

Read off the code while modelling, without a configuration: the summary that `comparison_tool`
writes is always replaced by `report_tool`; the news sentiment among the alpha factors is always
empty, since `news_tool` runs after the tool that reads it; a plan that proposes valuation before
market data fetches twice; the handler of TICKER_NOT_FOUND in `jobs.py:322` is unreachable, because
the orchestrators swallow the exception it waits for.


## 7. The proofs

All results hold for any number of jobs, users, threads, sweeps, tickers, proposals, alerts,
connections, requests and tools' readings, and any bounds, from the assumptions the modules name:
finiteness of `Jobs` and of the hub's `Tickers` (for cardinalities), non-empty sets that supply initial
values, disjoint kinds of identities, bounds that are naturals, and that what stands for nothing
(`None`, `NoTick`, `Missing`) is not one of the things it is compared with.

`ResearchJobs_proofs`, all by invariants of `[Next]_vars` over `TypeOK`:

* `OnePlace`: `Places` adds that a job in some place has been created, so that its id is not drawn
  again, and that nothing has been announced of it. A handler, the queue and a worker hand a job
  on in single steps, and a worker lets go of it in the step that announces it.
* `Quota`: with `Stamps` (a row's `startedAt` is never before its `createdAt`, and no stamp is in
  the future). Every row admitted in a window that contains the stamp of the insert is among
  those the insert counts, because `mark_running` only moves `startedAt` forward; a window read
  long before the lock only counts more rows. No assumption is needed on how long a handler waits.
* `OpenRowsOwned`: `Owners` adds the steps: a pending row's worker is about to call `mark_running`,
  a running row's worker is between that and its last `mark_error`.
* `PushTrue`: `Pushes` relates the row a worker re-read to the row now: what it read as done is done
  or erased, what it read as open or failed is not done, for by `Places` no other worker has the job.
* `ReusedDone`: a done row changes only by erasure, and the id of an erased row is not drawn again.
* `ProgressLive`: `Live` says that a progress entry belongs to a worker past `mark_running`.
* `DonePdf`: `Files` adds that a worker about to mark a job done with a file has written it, and
  that a file being removed has no row.
* `Implements`: initial states map to initial states, and each action to a step of `JobContract`
  or a stutter. `AnnouncementsTrue` and `OutcomeFinal` follow from the contract alone, by lemmas that
  look at its steps only (`ContractAnnouncements`, `ContractFinal`): what was announced is never
  contradicted, and no outcome is ever replaced.

`PaperTrading_proofs`:

* `TypeCorrect` with `Steps` (which actor may be at which step with which cause); that holdings
  stay natural uses the check of a sale.
* `HoldingsAddUp`: `Ledger` says that whoever is inside `execute_order` has the lock and that
  what it read is what is held. Without the lock held from before the read this fails, as the
  variant `BeginUnlocked` shows.
* `FilledOnce`, `DroppedStaysUnfilled`: `Consumed` says that a proposal pending, dropped or not yet
  made is executed by nobody and unfilled, that at most one request executes a proposal, and that
  the legs it has left are unfilled, one for each ticker. Popping is what moves a proposal
  from the first case to the second, once.
* `ClaimsOwned`: an alert is fired only while claimed, by the sweep whose UPDATE changed the row;
  a handled alert stays claimed.
* `FillsAccounted`: before its order commits, and whenever it is handed back, an alert has no more
  orders than failed notifications.
* `ProposalsSafe` and `AlertsSafe` put these together as the runs state them (`ProposalsHold`,
  `AlertsAccounted`).
* `ChatIsKept`, and `ConversationHolds` of the instance: `Sound` says of each request that its ticker, until the
  handler runs, is the one its message names, or the latest of the rows it has read, and that a request under way in an
  outage has no other intent than "general". Rows are only added, so that what was the latest of the rows read stays
  it (`StaysSound`). `InTurn` says of requests that have not overlapped that one is under way, that nothing has
  been answered since its message or since the pending order was asked for, and that nothing is pending while a
  message is considered; the last is what the pop before the classification is for. That a latest row exists
  takes the well-foundedness of the naturals (`LatestExists`). The constants of `ChatThread` are under no assumption.

`Connections_proofs`, of the hub:

* `Polled`: somebody connected is polled for. A step that connects a client starts the task; the
  task ends only in a step that sees no client.
* `LatestDue`: `Fresh` says that who is not connected follows nothing. `Current` says that the last
  quote a client has pending, is being sent or was shown, in this order, has the price of the hub's
  last tick, and that a client with something pending is awake (`ready`). `CurrentKept` serves every
  step that leaves a client's quotes alone.
* `NotBackwards`, an action property: `InOrder` has the times of the quotes of one ticker on one
  connection in the order shown, being sent, pending, none of them after the last tick, and that what is
  being read is not before the last tick. It is inductive over the types; that the next poll starts
  only when all reads of the one before are back is what it rests on.

and of `PriceStream` and `WakeListener`, which it instantiates like `MCConnections`. Their assumptions stand
in the theorems: finitely many screens that show at least one ticker each (`useLivePrices` does not
watch without one), and a `None` apart.

* `StreamKept`: `Counted` says that `refs` has each ticker's number of watching screens, so that the tickers
  the store computes from it are those wanted. `Owned` has the stream started as long as there are screens,
  and the timer running exactly when no attempt holds the generation. `Acting` says that the attempt that
  holds it is under way, that `this.socket` is its socket once it has one, and that the stream is live only
  while it is greeted and its last subscription was for the tickers wanted.
* `ListenerKept`: `Hooked` has, while switched on, a call or a timer that goes on. `InTurn` says
  that without a race one call waits at a time, while no socket is there; that a planned reconnection
  is the timer referred to and finds no socket: so a second one is never made.
  `Wires` says that a relay that ended has told its browser, or is about to, which `Attended` rests on.

`Agent_proofs`:

* `RunsFollowPlans`: lemmas about `Union2` say that a plan has the demanded tools, none twice.
  `Order` is the inductive invariant: the tools tried are an initial part of the plan with what each
  orchestrator adds to it, and `step` and `node` are where it ends.
* `Refinement`: `ImplementsContract` from `Order`; each tool run maps to a try of the contract, every
  other step to a stutter.
* `UsageOwn`: `OwnUsage` says that as long as no other request calls the provider, its counter is what
  the job has spent, also between an answer and its addition.
* `RatingsAgree`: lemmas say what each tool leaves of what a rating is made of (`SameBasis`): the tools
  that change it come before the closing tools that rate. That nothing is rated of a ticker that does
  not exist rests on such a context never having a profile, financials or a valuation (`Unknown`).

and of `Narrative`, of which `MCAgent` has an instance:

* `NarrativeKept`, for any number of workers, answers of any length and a cache that keeps what it likes. `ProseKept` says that
  an entry's key is that of the prompt its answer was written for (`CacheKept`), and of each worker (`Told`)
  that its prompt is that of its material, that its answer was written for its prompt, and that sections and
  scores come of that answer. It rests on the key being the whole prompt: with
  `KeyWithoutDay` an entry found is no longer one written for the same day. From the prompt follows what belongs to the report
  (`PromptBelongs`). That the text under a heading is what stands after the first heading of its name
  (`HeadingsHold`) takes that there is a first, from the naturals being well-founded (`Least`); that a report is
  complete exactly when its share is a hundred (`ScoresHold`) takes at most a hundred sections.
  Assumed: `Missing` is no section, and the sections are finitely many.

`Sweeps_proofs`, of `Sweeps` and `CallTracker`:

* `TypeCorrect` with what a request has set by the time it gets to a step.
* `ChangesAreMentioned`: `NothingLost` accounts for every change that lies before the stored cursor
  (`ByCursor`), the cursor that any briefing sweep has read or is about to stamp (`ByDigests`), or that of a
  briefing asked for (`ByAnswer`): it was mentioned, is among what the briefing has found, or is
  excused. A row is excused exactly when the time it bears is `Overtaken` as it becomes visible; that this takes
  a row that waits for the lock, or a briefing asked for that is composed, is part of the property
  (`OnlyLateAreOvertaken`) and rests on `Past`: no cursor lies in the future. A cursor may move back, by a sweep
  that started earlier, which only adds to what the next briefing reads.
* `CallsScored`, of `CallTracker`: `Fits` says which close is the right one for a due date: that of the day
  with a session nearest to it, equal to what the history says of that day now, rescaled by the splits since,
  unless it was the day of the sweep. `Board` has it of every recorded outcome and of every price a sweep
  has read and not yet recorded, for rows that were due when they were read and stay so (`Matured`).
  It is inductive because only the current day's close moves, and no day before it gets one later: so no
  session can appear between the due date and the day chosen. That the nearest day exists, so that the choice
  in `Nearest` is one, follows from `<` being well-founded on the naturals. Assumed: `None` is no number,
  and prices are even, so that a split is undone by doubling.

and of `Accounts`, which `MCAccounts` puts beside the sweeps at rest (`AccountsSpec`):

* `AccountsTypeCorrect` with `Addressed`: which email or user a request under way is about, and that what
  it read of the clock is not in the future.
* `Erasure`: nobody is let in for an erased account but by a session of it (`Admit`), and all its sessions
  are gone but those that overtaken requests opened. `IdsUsed` adds that accounts, sessions and requests have ids handed out,
  so that a signup after the erasure is never of the erased id.
* `ResolutionLimit`: attempts are finitely many (part of the type invariant, for cardinalities). A
  transaction counts the attempts since a time it read long before, so every attempt recorded
  meanwhile: any window that the new attempt falls into lies within what was counted.
* `AttemptsAreCounted`: the numbers of a user's attempts are no larger than their count, so that a new
  attempt is always one more.

`WebClient_proofs`, of the voice session and of the pages that `MCWebClient` puts beside it. Of the session:

* `TypeCorrect` has the cap on errors in a row: the streak passes it only in the step that ends the
  session. The pending retries are naturals: how many there are is bounded only with the failures.
* `NoTwoVoices`: `Voiced` says that what is heard is of the current reply, is the audio the
  reference holds, and is waited for by its reply, so that `stopSpeaking`, which only knows the reference,
  silences everything.
* `VoiceKept`: the three promises of a session as the run states them (`VoiceHolds`), from `NoTwoVoices`,
  `NeverStranded` and `ListenerHears`.
* `NothingLeft`: `References` says that as long as no end overtook a `start()`, all that the turn
  under way holds is what `streamRef` and `wsRef` refer to, so that its end lets all of it go
  (`EndLeavesNothing`).
* `NeverStranded`: `SessionGoesOn` is inductive over the types: what ends a turn sends a message, plans a
  retry, ends the session or leaves it `unanswered`.
* `ListenerHears`: `Woken` says that a paused listener of a page that is shown is in a session, in a
  render that still shows one, or has missed the end of one.

Of the pages, whose invariants `Pages` puts together, one for each scene:

* `PagesShow`, of what a page shows once nothing is under way. It takes what is under way to tell that:
  * `PanelHolds`: of the requests of a panel only the one sent last is not `earlier`, and it is for what
    is selected; a chart has either that request or its answer.
  * `SlidersHold`: what a what-if shows was answered together with the values beside it; a request or a
    timer is for the report shown, unless a drag was carried over to another.
  * `ListFits`: as long as nothing was overtaken or lost, a list will be asked for (`Coming`), or the one
    asked for last will be the one stored (`LastFits`), or none is asked for and the one shown is the one stored, unless it failed to load. The
    lemmas `Removed` and `Remaining` say what a sequence of requests is without one of them.
  * `OneChange`: of changes to a preference that do not cross there is one, and what it replaced is
    what is saved until it is served.
  * `OneAtATime` and `InStep`: one question is followed at a time, the one of the job the page names, in step
    with what it says, unless its answer could not be read (`Abandoned`).
* `MicrophoneGivenBack`: `MicHeld` leaves aside recordings that could not be made of a microphone granted.
  Of the others, unless two clicks came before the microphone was granted, one is under way; it is the one
  `stop()` is called of, and it has a timer or its escape. `Saying` and `Questioning` say what the button and the questions asked aloud rest on. The ways
  out of `stop()` (stopping, raising, or being cut short by another) are lemmas of their own. The voice
  session's part is `NothingLeft`, taken over by `SessionOfClient`: a step of the client is a step of the session or
  leaves its variables alone.
* Assumed: `None` is nothing that can be selected, recorded or asked of the sliders, and the first position of
  a slider is one of its positions.

`Sources_proofs`, of `SourceCaches`, of `CompanyIndex` over it and of `Disclosures`:

* `TypeCorrect`, and with it `Place`: where a request is in its call, that what it is about to read or
  convert is there, and that the list of companies, once on disk, does not go away.
* `NotKept`: `Caches` says that what is remembered as empty, in a file or in memory, is so in a cache that
  keeps failures and after an outage; `Excuses` says that each bad answer a request has got is one kept
  like this, its own refusal or a file cut short. `Grows` is what the other requests need of any
  step: nothing remembered is forgotten and no outage is undone. A crash forgets memory and
  ends all requests; files, also those cut short, stay.
* `NamesRight`: the title a phrase resembles most stays the best when Indian titles, none of them the best
  itself, are left out of the comparison (`BestStays`). So what is found of a message that has no Indian
  ticker and resembles no Indian title most is the same with the list and without (`SameFound`). By `NotKept`'s invariant the list is empty only after an
  outage. An attempt at a ticker is answered by a company, or is unresolved, if both looks see the same list
  (`AttemptsAnswered`).
* `FilingsKept`: `Stored` says that a ticker's lock belongs to the one request that ingests a filing of
  it (`Locked`), that what this request has deleted stays deleted until it adds (`OneStored`, without
  which its addition could land beside another's), and that a request about to retrieve has its filing
  stored or was overtaken (`Ingested`). Assumed: `None` is no request.

`Valuation_proofs`, of any company that reports by consecutive fiscal years, any choice of outcomes,
any rates and any worlds of the backtest. Assumed: `Missing`, `NaN` and an exception are no numbers
and not each other, and a world has a price of every ticker, a level of the index and a yield for every day.

* `ServedAlike`: `CacheHolds` says that what is filed under a key was computed from what the key says. It
  rests on the key holding the rate itself, and not what the rate is made of.
* `Numbers`, `Degrades`, `ViewsRate`: `ReportHolds` says that what a report is made of is either what a
  valuation that raised leaves, which takes that no year reports a revenue, or `GivenWell`: ratios are
  proper, amounts are as odd as the growth of revenue, there is an upside whenever there is a price, a number
  of shares and a growth, and what a what-if needs was there when the valuation applied. A value from the cache
  was computed at another market capitalisation, so `CacheHolds` says what a report needs of it as well
  (`SoundFor`). That each ratio
  is a number or nothing is a lemma per engine (`SummaryIsProper`, `FactorsAreProper`, `ChartIsProper`).
  `CagrIs` has it of the growth table: the n-th year from the end exists (`NthNext`, along the buckets), so
  that the growth is of two years that report.
* `KnownThen`: of two worlds that agree up to a date, `SameContext` says that a ticker's context is the same,
  part by part (prices, beta, yield, statements); of one whose closes are twice the other's, `TwiceContext` says that it
  is the context of the new shares, with the same returns; of one with other figures, `SameMarket` says that all
  but the figures and the market value is. `LaterAgree`, `AdjustedAgree` and `RestatedAgree` say that the futures are such
  worlds. The invariant is only that dates are dates of the walk. `Backtest` is instantiated as by `MCValuation`.


## 8. What is only model-checked

Liveness under fairness is out of the prover's reach: `JobsEnd`, `AlertsGetHandled`, `QuotesArrive`,
`Recovers`, `SweepsCatchUp`, `RunEnds` and `SourcesRecover`. What section 6 lists are counterexamples. Every
safety property of a run is also a theorem, but for two.

`EvidenceHolds` is about folds over sequences: that nothing of a filing is lost, and that a category has
its share, is induction over the paragraphs and the articles. So is that what they return is a sequence,
which the bounds of the scores need.

`AccountAddsUp` is not one as it stands: money is in whole numbers and what a weight or a return comes to is
rounded down, so the curve and the account agree to the unit only where the capital divides evenly, which
the instance's starting capital does. Of exact amounts it would take that a sum over a set of tickers
is linear, which is induction over data.


## 9. What is not modelled, and why

* Pure algorithms: the vote of the consensus, ranking, screening, splitting of
  sentences. They keep no state, nothing interleaves in them, and the repository's
  unit tests reach their boundaries; the rules of the rating, which decide what the rest of the
  system does, are in `Recommendation`, those of the scoreboard's raters in `CallTracker`.
* How large amounts come out (cash flows, discount rates, alpha factors, technical indicators,
  performance figures): sequential floating-point computation, of which `Fundamentals`, `Factors` and
  `Valuation` have when it gives a number, nothing, a NaN or an exception.
* Profile fields, the waitlist and push subscriptions: writes of one row by its
  owner, like the write of `Accounts`.
* In the client: rendering, formatting and the pages that ask once for what they show. Lengths of
  delays everywhere.
* The local language model, the time between retries, the answer cache's files and the call log.
* In trading: average cost and amounts of money (no decision depends on them), wording, intent
  detection and ranking (text), the order of a batch's legs, the erasure of an account's rows.
* In the job lifecycle: the ticker check of `submit_research` before the duplicate check (it only
  rejects), the 500 of a failing insert (no state changes), the contents of results, reports and
  errors. The agent is a call that returns, raises or hangs.
* Passwords, signatures, what the services of market data, filings, news and speech answer and how it
  is parsed, the layout of a report: calls to libraries and services, or wording.
* Infrastructure and research notebooks: batch programs that run alone.
