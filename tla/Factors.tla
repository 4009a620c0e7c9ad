------------------------------ MODULE Factors ------------------------------
(***************************************************************************)
(* The ratios a report shows beside the valuation: the financial summary   *)
(* (app/analysis/financial_analysis.py), the factor library               *)
(* (alpha_factors.py) and the growth table (growth_metrics.py).  Each is   *)
(* "number", Missing or NaN, which also stands for infinity, and for the   *)
(* -100 % that a growth from infinity comes to.  The engines of            *)
(* Fundamentals take the last year that reports an item; these take the    *)
(* last row, and are silent when it has a gap.                             *)
(*                                                                         *)
(* A quote is [cap, price, history, us]: market capitalisation and price,  *)
(* possibly Missing, half-years of daily prices, and whether the listing   *)
(* has benchmarks to be compared with.  Trends, insights and notes are     *)
(* wording and are left out.                                               *)
(***************************************************************************)
EXTENDS Fundamentals

\* Two records in one, as {**one, **other} writes it, where none of the keys is in both.
Merged(one, other) ==
  [k \in DOMAIN one \cup DOMAIN other |-> IF k \in DOMAIN one THEN one[k] ELSE other[k]]

Reported(f, y, items) == \A i \in items : f[i][y] # Missing
Row(f) == Max(YearsOf(f))

\* Division by zero is no error on these numbers.
Divided(divisor) == IF divisor = 0 THEN NaN ELSE "number"

\* How every ratio of these two modules is taken: with all it needs, by something.
Quotient(reported, divisor) == IF ~reported \/ divisor = 0 THEN Missing ELSE Divided(divisor)

-----------------------------------------------------------------------------
(* FinancialAnalysisBuilder.build, of the last row and the one before *)

RatiosOf ==
  [OperatingMargin |-> <<"ebit", "revenue">>, NetMargin |-> <<"net_income", "revenue">>,
   EPS |-> <<"net_income", "shares_outstanding">>, ROE |-> <<"net_income", "total_equity">>,
   DebtToEquity |-> <<"total_debt", "total_equity">>]
LevelsOf ==
  [Revenue |-> {"revenue"}, EBIT |-> {"ebit"}, NetIncome |-> {"net_income"},
   FreeCashFlow |-> {"cash_from_operations", "capex"}]
GrowthsOf ==
  [RevenueGrowth |-> "Revenue", EBITGrowth |-> "EBIT", NetIncomeGrowth |-> "NetIncome",
   FCFGrowth |-> "FreeCashFlow"]

Level(f, name, y) ==
  CASE name = "Revenue" -> f["revenue"][y]
    [] name = "EBIT" -> f["ebit"][y]
    [] name = "NetIncome" -> f["net_income"][y]
    [] name = "FreeCashFlow" -> f["cash_from_operations"][y] - f["capex"][y]

\* The growth over the first and the last revenue reported, of three at least.
RevenueCagr(f) ==
  LET years == Together(f, {"revenue"})
  IN  IF Cardinality(years) >= 3 /\ f["revenue"][Min(years)] > 0 /\ f["revenue"][Max(years)] > 0
      THEN "number" ELSE Missing

Summary(f) ==
  LET y == Row(f)
      level == [n \in DOMAIN LevelsOf |-> IF Reported(f, y, LevelsOf[n]) THEN "number" ELSE Missing]
      ratio == [n \in DOMAIN RatiosOf |->
                  Quotient(Reported(f, y, {RatiosOf[n][1], RatiosOf[n][2]}), f[RatiosOf[n][2]][y])]
      growth == [n \in DOMAIN GrowthsOf |->
                   LET items == LevelsOf[GrowthsOf[n]]
                   IN  Quotient(/\ y - 1 \in YearsOf(f)
                                /\ Reported(f, y, items) /\ Reported(f, y - 1, items),
                                Level(f, GrowthsOf[n], y - 1))]
  IN  Merged(Merged(level, ratio), Merged(growth, [RevenueCAGR |-> RevenueCagr(f)]))

-----------------------------------------------------------------------------
(* AlphaFactorsEngine *)

\* Positive and nothing else counts as a value per share to price.
PricedBy(f, q, item) ==
  LET years == {y \in Priced(f, q.history) \cap Together(f, {item, "shares_outstanding"}) :
                  f[item][y] > 0 /\ f["shares_outstanding"][y] # 0}
  IN  IF /\ Cardinality(years) >= 2 /\ q.price # Missing
         /\ Reported(f, Row(f), {item, "shares_outstanding"})
         /\ f[item][Row(f)] > 0 /\ f["shares_outstanding"][Row(f)] # 0
      THEN "number" ELSE Missing

FinancialFactors(f) ==
  LET y == Row(f)
  IN  [EBITDAMargin |-> Quotient(Reported(f, y, {"revenue", "ebit", "depreciation"}), f["revenue"][y]),
       FCFMargin |-> Quotient(Reported(f, y, {"revenue", "cash_from_operations", "capex"}), f["revenue"][y])]

PiotroskiItems ==
  {"net_income", "total_assets", "cash_from_operations", "total_debt", "current_assets",
   "current_liabilities", "shares_outstanding", "ebit", "revenue"}
Piotroski(f) ==
  LET rows == {Row(f), Row(f) - 1}
      divisors == {"total_assets", "current_liabilities", "revenue"}
  IN  IF ~(rows \subseteq YearsOf(f)) THEN Missing
      ELSE IF \E y \in rows : ~Reported(f, y, PiotroskiItems) \/ \E i \in divisors : f[i][y] = 0
      THEN Missing ELSE "number"

QualityFactors(f) ==
  LET y == Row(f)
  IN  [ROA |-> Quotient(Reported(f, y, {"net_income", "total_assets"}), f["total_assets"][y]),
       ROCE |-> Quotient(Reported(f, y, {"ebit", "total_assets", "current_liabilities"}),
                         f["total_assets"][y] - f["current_liabilities"][y]),
       CurrentRatio |-> Quotient(Reported(f, y, {"current_assets", "current_liabilities"}),
                                 f["current_liabilities"][y]),
       InterestCoverage |-> Quotient(Reported(f, y, {"ebit", "interest_expense"}),
                                     f["interest_expense"][y]),
       Piotroski |-> Piotroski(f)]

AltmanItems ==
  {"current_assets", "current_liabilities", "total_assets", "retained_earnings", "ebit",
   "total_equity", "revenue"}
Altman(f, cap) ==
  LET y == Row(f)
      reported == Reported(f, y, AltmanItems) /\ cap # Missing
  IN  IF Quotient(reported, f["total_assets"][y]) = Missing THEN Missing
      ELSE Quotient(reported, f["total_assets"][y] - f["total_equity"][y])

\* Momentum over six and twelve months, volatility over twelve; what compares with a
\* benchmark is for listings that have one, while its history can be fetched.
MarketFactors(q, benchmarks) ==
  LET over(half) == IF q.history >= half THEN "number" ELSE Missing
      compared == IF q.us /\ benchmarks THEN over(1) ELSE Missing
  IN  [Momentum6M |-> over(1), Momentum12M |-> over(2), High52 |-> over(2), Low52 |-> over(2),
       Volatility |-> over(2), RelativeStrength |-> compared, SectorRelative |-> compared,
       RateSensitivity |-> compared]

\* evaluate, with build_risk_range; the risk range reads the same history.
AlphaFactors(f, q, benchmarks) ==
  Merged(Merged(FinancialFactors(f), QualityFactors(f)),
         Merged(MarketFactors(q, benchmarks),
                [PE |-> PricedBy(f, q, "net_income"), PB |-> PricedBy(f, q, "total_equity"),
                 Altman |-> Altman(f, q.cap),
                 RiskRange |-> IF q.history >= 1 THEN "number" ELSE Missing]))

-----------------------------------------------------------------------------
(* The growth table and the chart of a company *)

\* _compute_cagr of amounts over divisors, that many years apart, of those that have a
\* figure, gaps or not: nothing over nothing is none, an amount over nothing is infinite.
Cagr(reported, amount, divisor, apart) ==
  LET years == {y \in reported : amount[y] # 0 \/ divisor[y] # 0}
      last == Max(years)
      first == CHOOSE y \in years : Cardinality({z \in years : z > y}) = apart
  IN  IF Cardinality(years) < apart + 1 THEN Missing
      ELSE IF \E y \in {first, last} : amount[y] <= 0 THEN Missing
      ELSE IF \E y \in {first, last} : divisor[y] = 0 THEN NaN
      ELSE "number"

\* CAGR_YEAR_BUCKETS and build_growth_metrics
Buckets == {1, 3, 5}
GrowthMetrics(f) ==
  LET flows == Together(f, {"cash_from_operations", "capex"})
      flow == [y \in flows |-> f["cash_from_operations"][y] - f["capex"][y]]
      whole == [y \in YearsOf(f) |-> 1]
      perShare(item, n) ==
        Cagr(Together(f, {item, "shares_outstanding"}), f[item], f["shares_outstanding"], n)
  IN  [n \in Buckets |->
        [revenue |-> Cagr(Together(f, {"revenue"}), f["revenue"], whole, n),
         fcf |-> Cagr(flows, flow, whole, n),
         eps |-> perShare("net_income", n), bookValue |-> perShare("total_equity", n)]]

\* build_financial_performance: the margins of each year.
Performance(f) ==
  [y \in YearsOf(f) |->
    [net |-> Quotient(Reported(f, y, {"revenue", "net_income"}), f["revenue"][y]),
     operating |-> Quotient(Reported(f, y, {"revenue", "ebit"}), f["revenue"][y])]]
=============================================================================
