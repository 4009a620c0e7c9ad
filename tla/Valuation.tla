----------------------------- MODULE Valuation -----------------------------
(***************************************************************************)
(* One company's report: ValuationPipeline and ValuationTool               *)
(* (app/valuation/, app/tools/valuation_tool.py), build_report_data        *)
(* (app/reporting/), and the what-if of a report that is done              *)
(* (app/api/main.py).  Reports follow each other: they share the cache of  *)
(* valuations and the history of the Treasury yield kept in memory.        *)
(*                                                                         *)
(* Amounts are "number", Missing or NaN.  What depends on how large they   *)
(* are comes in a choice: the sign of the base cash flow and of the        *)
(* forecast, whether equity is a solid part of the enterprise, whether the *)
(* payout is material, the upside, and the multiple against its history.   *)
(***************************************************************************)
EXTENDS Factors

CONSTANTS
  Cases,          \* [company, choice]; companies [raw, filings, crypto, us, history, price, caps]
                  \* with raw statements by year, choices [base, ev, solid, material, upside, versus]
  LiveRates,      \* Treasury yields, in percent
  MaxReports

\* A company reports by fiscal years, one after the other.
IsCompany(c) ==
  /\ IsFiniteSet(YearsOf(c.raw)) /\ YearsOf(c.raw) # {}
  /\ YearsOf(c.raw) = 1..Cardinality(YearsOf(c.raw))
  /\ c.raw \in [Items -> [YearsOf(c.raw) -> Int \cup {Missing}]]
IsChoice(ch) == {ch.base, ch.ev, ch.upside, ch.versus} \subseteq Int

ASSUME OutcomesAssumption ==
  /\ Missing \notin Int \cup {NaN, Raised, "number", "unavailable"}
  /\ NaN \notin Int \cup {Raised, "number", "unavailable"}
  /\ Raised \notin Int \cup {"number", "unavailable"}
ASSUME CasesAssumption == \A case \in Cases : IsCompany(case.company) /\ IsChoice(case.choice)

VARIABLES
  company, cap,
  yield,          \* what a fetch of the Treasury yield would return, or Missing
  memory,         \* the history of it kept by get_benchmark_history, or Missing
  cache,          \* the valuations kept, each under its key
  tolerance, choice,
  stage,          \* "idle", "asked", "valued", "done"
  valued, report, whatIf,
  reports

vars == <<company, cap, yield, memory, cache, tolerance, choice, stage, valued, report, whatIf, reports>>

\* MarketDataTool.run: no statements for a cryptocurrency, whose frame is empty.
Figures == IF company.crypto THEN Missing
           ELSE Normalised(IF company.filings THEN FromFilings(company.raw) ELSE company.raw)
Quote == [cap |-> cap, price |-> company.price, history |-> company.history, us |-> company.us]

-----------------------------------------------------------------------------
(* ValuationPipeline *)

\* Variant: without the reason that the discount rate is no number.  A definition called a
\* variant is deliberately wrong: it belongs to no behaviour and shows which property such a
\* bug breaks.
InapplicableUnrated(f, c, ch) ==
  \/ BaseFcff(f, ch.base) = Missing
  \/ BaseFcff(f, ch.base) <= 0
  \/ RevenueGrowth(f) = Missing
  \/ c = Missing
  \/ Latest(f, "total_debt") = Missing \/ Latest(f, "cash") = Missing

\* _compute_valuation's reasons not to go on, up to the enterprise value.
Inapplicable(f, c, ch) ==
  \/ BaseFcff(f, ch.base) = Missing
  \/ BaseFcff(f, ch.base) <= 0
  \/ RevenueGrowth(f) = Missing
  \/ c = Missing
  \/ Wacc(f) = NaN
  \/ Latest(f, "total_debt") = Missing \/ Latest(f, "cash") = Missing

\* Without net debt, equity is all of it.
Solid(f, ch) == ch.solid \/ Latest(f, "total_debt") <= Latest(f, "cash")

Unavailable ==
  [dcf |-> FALSE, value |-> Missing, rawWacc |-> Missing, ddm |-> Missing]

\* None in arithmetic raises.
Raises(f, c, ch) ==
  \/ BaseFcff(f, ch.base) = Raised
  \/ /\ ~Inapplicable(f, c, ch)
     /\ Missing \in {RevenueGrowth(f), c, Latest(f, "total_debt"), Latest(f, "cash")}

\* Neither comparison rejects a NaN.
ComputeValuation(f, c, ch) ==
  LET ev == EnterpriseValue(f, ch.ev)
  IN  IF Inapplicable(f, c, ch) \/ (ev # NaN /\ (ev <= 0 \/ ~Solid(f, ch))) THEN Unavailable
      ELSE [dcf |-> TRUE, value |-> IF ev = NaN THEN NaN ELSE "number", rawWacc |-> Wacc(f),
            ddm |-> DividendValue(f, ch.material)]

\* RISK_FREE_RATE_BY_CURRENCY and RISK_TOLERANCE_WACC_ADJUSTMENT_PCT, rounded.
Adjustment == [Conservative |-> 1, Moderate |-> 0, Aggressive |-> -1]
Tolerances == DOMAIN Adjustment
FallbackRate == 4
RupeeRate == 7

\* get_benchmark_history: what is in memory, whatever the period it was fetched for.
Fetched(span) == IF memory # Missing THEN memory
                 ELSE IF yield = Missing THEN Missing ELSE [span |-> span, rate |-> yield]

RiskFreeRate ==
  Adjustment[tolerance] +
    (IF ~company.us THEN RupeeRate
     ELSE IF Fetched("5d") = Missing THEN FallbackRate ELSE Fetched("5d").rate)

\* _cache_key; caps are two of a rounding.
Rounded(c) == IF c = Missing THEN Missing ELSE c \div 2

\* Variant: the rate of the day is left out.
CacheKeyUndated(f, c) == [figures |-> f, cap |-> Rounded(c), tolerance |-> tolerance]

CacheKey(f, c) == [figures |-> f, cap |-> Rounded(c), tolerance |-> tolerance, rate |-> RiskFreeRate]

Cached(f) == {e \in cache : e.key = CacheKey(f, cap)}

\* run_valuation, and when it raises
RunValuation(f) ==
  IF Cached(f) # {} THEN (CHOOSE e \in Cached(f) : TRUE).result
  ELSE Merged(ComputeValuation(f, cap, choice),
              [inputs |-> [figures |-> f, cap |-> cap, rate |-> RiskFreeRate]])
RunRaises(f) == Cached(f) = {} /\ Raises(f, cap, choice)

-----------------------------------------------------------------------------
(* ValuationTool.run *)

\* Per share, when there are shares; NaN is as true as a number.
Intrinsic(f, v) ==
  IF v.dcf /\ Latest(f, "shares_outstanding") \notin {Missing, 0} THEN v.value ELSE Missing
Upside(intrinsic) ==
  IF intrinsic = Missing \/ company.price = Missing THEN Missing
  ELSE IF intrinsic = NaN THEN NaN ELSE choice.upside

Versus(f) == VersusHistory(f, company.history, cap, choice.versus)

\* extract_features and predict_verdict: no feature may be None, and a NaN is not None.
MlVerdict(intrinsic, versus) ==
  IF /\ intrinsic # Missing /\ company.price # Missing /\ versus # Missing
     /\ MarketFactors(Quote, TRUE).Momentum12M # Missing
  THEN "verdict" ELSE Missing

\* The rest of the tool, with the results of the pipeline.  The index and the sector are
\* fetched while the source answers; ten years of the yield after the pipeline's five days.
Results(f, v) ==
  LET intrinsic == Intrinsic(f, v)
      simulated == IF company.price = Missing THEN Missing ELSE intrinsic
      history == Fetched("5d")
      factors == AlphaFactors(f, Quote, yield # Missing)
  IN  [raised |-> FALSE, dcf |-> v.dcf, rawWacc |-> v.rawWacc, inputs |-> v.inputs, upside |-> Upside(intrinsic),
       versus |-> Versus(f), ml |-> MlVerdict(intrinsic, Versus(f)),
       amounts |-> [value |-> v.value, intrinsic |-> intrinsic, monteCarlo |-> simulated,
                    sensitivity |-> intrinsic, ddm |-> IF company.price = Missing THEN Missing ELSE v.ddm],
       factors |-> [factors EXCEPT !.RateSensitivity =
                      IF company.us /\ history # Missing /\ history.span = "10y"
                      THEN MarketFactors(Quote, TRUE).RateSensitivity ELSE Missing]]

\* The context of a report whose valuation raised has no results; that nothing is said of the
\* DCF reads as one that applied.
NoResults ==
  [raised |-> TRUE, dcf |-> TRUE, rawWacc |-> Missing, upside |-> Missing, versus |-> Missing, ml |-> Missing,
   amounts |-> <<>>, factors |-> <<>>]
CryptoResults == [NoResults EXCEPT !.raised = FALSE, !.dcf = FALSE]

-----------------------------------------------------------------------------
(* build_report_data *)

\* build_data_quality: of the nine fields, the valuation, the price and the multiple.
KeyFields == {"Revenue", "EBIT", "NetIncome", "FreeCashFlow", "OperatingMargin", "ROE", "EPS",
              "DebtToEquity", "RevenueCAGR"}
QualityLevel(summary, v) ==
  LET present == Cardinality({k \in KeyFields \cap DOMAIN summary : summary[k] # Missing})
      worth(met, points) == IF met THEN points ELSE 0
      score == (60 * present) \div Cardinality(KeyFields) + worth(v.dcf, 25)
                 + worth(company.price # Missing, 10) + worth(v.versus # Missing, 5)
  IN  IF score >= 85 THEN "HIGH" ELSE IF score < 60 THEN "LOW" ELSE "MEDIUM"

\* Variant: many fields make up for the valuation.
NoViewOfFields(summary, v) == QualityLevel(summary, v) = "LOW"

NoView(summary, v) == QualityLevel(summary, v) = "LOW" \/ ~v.dcf

\* _confidence_flag; the flags that the Monte Carlo interval and the sensitivity table raise
\* depend on amounts and are left out.
ConfidenceFlags(recommendation, v) ==
  {flag \in {"models disagree", "no dcf"} :
     /\ recommendation.rating \in {"Buy", "Sell"}
     /\ IF flag = "no dcf" THEN ~v.dcf ELSE recommendation.disagreement}

\* build_report_data; sentiments are none here.
ReportOf(v) ==
  LET recommendation == DeriveRecommendation([upside |-> v.upside, versus |-> v.versus], {})
      summary == IF Figures = Missing THEN <<>> ELSE Summary(Figures)
  IN  [rating |-> recommendation.rating, flags |-> ConfidenceFlags(recommendation, v),
       noView |-> NoView(summary, v),
       upside |-> v.upside, versus |-> v.versus, amounts |-> v.amounts,
       ratios |-> Merged(summary, v.factors), rawWacc |-> v.rawWacc]

-----------------------------------------------------------------------------
(* The company's own page; and what_if, of the figures and the discount *)
(* rate stored with the report                                           *)

\* Their statements come by the way of Figures, whatever their source.
GrowthTable == GrowthMetrics(Figures)
Chart == Performance(Figures)

\* The slider of growth starts at the growth of revenue, held between two bounds, which a NaN
\* passes: whatever growth is asked for, the answer tells where the slider starts, and a NaN
\* cannot be put into an answer.
WhatIfOf(f, ch) ==
  IF report.rawWacc = Missing \/ f = Missing THEN "unavailable"
  ELSE IF Missing \in {Latest(f, i) : i \in {"shares_outstanding", "total_debt", "cash"}}
          \/ Latest(f, "shares_outstanding") = 0 \/ company.price = Missing
       THEN "unavailable"
  ELSE IF RevenueGrowth(f) = Missing THEN Raised
  ELSE IF BaseFcff(f, ch.base) = Missing \/ BaseFcff(f, ch.base) <= 0 THEN "unavailable"
  ELSE IF RevenueGrowth(f) = NaN THEN Raised ELSE "number"

-----------------------------------------------------------------------------
(* Actions *)

Init ==
  /\ \E case \in Cases : company = case.company /\ choice = case.choice
  /\ cap \in company.caps
  /\ yield \in LiveRates \cup {Missing}
  /\ memory = Missing /\ cache = {}
  /\ tolerance = "Moderate"
  /\ stage = "idle" /\ valued = Missing /\ report = Missing /\ whatIf = Missing
  /\ reports = 0

\* A research job asks for a report, for a user of some tolerance of risk.
Ask(t) ==
  /\ stage \in {"idle", "done"} /\ reports < MaxReports
  /\ stage' = "asked" /\ tolerance' = t /\ reports' = reports + 1
  /\ valued' = Missing /\ report' = Missing /\ whatIf' = Missing
  /\ UNCHANGED <<company, cap, yield, memory, cache, choice>>

\* ValuationTool.run; a job whose valuation raises goes on without it.
Value ==
  /\ stage = "asked"
  /\ LET f == Figures
     IN  IF company.crypto
         THEN valued' = CryptoResults /\ UNCHANGED <<memory, cache>>
         ELSE /\ valued' = IF RunRaises(f) THEN NoResults ELSE Results(f, RunValuation(f))
              /\ memory' = IF company.us THEN Fetched("5d") ELSE memory
              /\ cache' = IF RunRaises(f) \/ Cached(f) # {} THEN cache
                          ELSE cache \cup {[key |-> CacheKey(f, cap), result |-> RunValuation(f)]}
  /\ stage' = "valued"
  /\ UNCHANGED <<company, cap, yield, tolerance, choice, report, whatIf, reports>>

\* ReportTool.run, with what the valuation left.
BuildReport ==
  /\ stage = "valued"
  /\ report' = ReportOf(valued) /\ stage' = "done"
  /\ UNCHANGED <<company, cap, yield, memory, cache, tolerance, choice, valued, whatIf, reports>>

WhatIf ==
  /\ report # Missing /\ whatIf = Missing
  /\ whatIf' = WhatIfOf(Figures, choice)
  /\ UNCHANGED <<company, cap, yield, memory, cache, tolerance, choice, stage, valued, report, reports>>

\* Time passes: the market moves, what is kept expires.
CapMoves ==
  /\ stage \in {"idle", "done"} /\ \E c \in company.caps \ {cap} : cap' = c
  /\ UNCHANGED <<company, yield, memory, cache, tolerance, choice, stage, valued, report, whatIf, reports>>
YieldMoves ==
  /\ \E y \in (LiveRates \cup {Missing}) \ {yield} : yield' = y
  /\ UNCHANGED <<company, cap, memory, cache, tolerance, choice, stage, valued, report, whatIf, reports>>
MemoryExpires ==
  /\ memory # Missing /\ memory' = Missing
  /\ UNCHANGED <<company, cap, yield, cache, tolerance, choice, stage, valued, report, whatIf, reports>>
CacheExpires ==
  /\ \E e \in cache : cache' = cache \ {e}
  /\ UNCHANGED <<company, cap, yield, memory, tolerance, choice, stage, valued, report, whatIf, reports>>

Next ==
  \/ \E t \in Tolerances : Ask(t)
  \/ Value \/ BuildReport \/ WhatIf
  \/ CapMoves \/ YieldMoves \/ MemoryExpires \/ CacheExpires

Spec == Init /\ [][Next]_vars

-----------------------------------------------------------------------------
(* Properties *)

Odd(x) == x = NaN

\* What a report, the growth table and the chart show is a number or nothing: an engine that
\* has dropped the years it cannot use may be left with none, divide by nothing, or compare a
\* NaN, and each of them must be met before it reaches the user.  Except where revenue has
\* turned negative after three years and more, where the last row of the multiple has a gap,
\* and the growth per share where a year reports no shares.
NumbersOrNothing ==
  report # Missing /\ Figures # Missing =>
    /\ RevenueGrowth(Figures) # NaN =>
         \A a \in DOMAIN report.amounts : ~Odd(report.amounts[a])
    /\ \A r \in DOMAIN report.ratios : ~Odd(report.ratios[r])
    /\ Odd(report.versus) => ~Reported(Figures, Row(Figures), {"total_debt", "cash"})
    /\ \A n \in Buckets : \A k \in DOMAIN GrowthTable[n] :
         Odd(GrowthTable[n][k]) => \E y \in YearsOf(Figures) : Figures["shares_outstanding"][y] = 0
    /\ \A y \in YearsOf(Figures) : \A k \in DOMAIN Chart[y] : ~Odd(Chart[y][k])

\* Gaps in the statements cost a report its valuation, never the report; and what a report
\* stores is enough for the what-if.  The valuation raises only without a revenue in any
\* year, the what-if only where revenue has turned negative after three years and more.
DegradesNotRaises ==
  /\ valued # Missing /\ valued.raised => Together(Figures, {"revenue"}) = {}
  /\ whatIf = Raised => RevenueGrowth(Figures) = NaN

\* A view is given on something: a report that is not marked as having no view rates the
\* company, unless there is no price, no share count or no growth to value it with, or the
\* valuation raised.
FullViewsRate ==
  report # Missing /\ ~report.noView =>
    \/ report.rating \in Calls
    \/ company.price = Missing \/ Latest(Figures, "shares_outstanding") \in {Missing, 0}
    \/ RevenueGrowth(Figures) = NaN
    \/ valued.raised

\* What gaps in the statements cost: neither the report, nor a rating that it claims to have.
DegradesHonestly == DegradesNotRaises /\ FullViewsRate

\* A valuation served from the cache was computed from what the request has: its figures,
\* its market capitalisation as rounded, and the discount rate of its own user and day.
ServedForSameInputs ==
  [][stage' = "valued" /\ stage = "asked" /\ ~company.crypto /\ ~valued'.raised =>
       /\ valued'.inputs.rate = RiskFreeRate
       /\ valued'.inputs.figures = Figures /\ Rounded(valued'.inputs.cap) = Rounded(cap)]_vars

-----------------------------------------------------------------------------
(* What the code does not have: stated by a comment or expected of a report, and refuted by *)
(* hand in valuation.cfg.                                                                    *)

\* "this adds no new network cost on a run that already computes that factor": the sensitivity
\* to interest rates is there whenever the yield could be fetched.  The five days that the
\* discount rate needs stay in memory and are all that the factor then finds.
RateSensitivityIsComputed ==
  report # Missing /\ ~valued.raised /\ company.us /\ ~company.crypto /\ company.history >= 1 /\ memory # Missing =>
    report.ratios.RateSensitivity # Missing

\* "NaN must be caught explicitly here": every amount is a number or nothing, also when
\* revenue has turned negative and its growth is the root of a negative ratio.
NumbersAlways ==
  report # Missing => \A a \in DOMAIN report.amounts : ~Odd(report.amounts[a])

\* A comparison with the company's history is a number or nothing, also when its last
\* balance sheet has a gap.
ComparesNumbers == report # Missing => ~Odd(report.versus)

\* A gap in the statements never costs the report its valuation by an exception.
RaisesNever == valued # Missing => ~valued.raised

\* `available: False` is what a company gets that the what-if cannot be computed for, also
\* when revenue has turned negative.
WhatIfAnswers == whatIf # Raised

\* "rather than producing a spurious inf/NaN entry": growth per share is a number or nothing.
GrowthsAreNumbers ==
  report # Missing /\ Figures # Missing =>
    \A n \in Buckets : \A k \in DOMAIN GrowthTable[n] : ~Odd(GrowthTable[n][k])

\* A report marked as having a view rates the company.
FullViewsRateAlways == report # Missing /\ ~report.noView => report.rating \in Calls
=============================================================================
