---------------------------- MODULE Fundamentals ----------------------------
(***************************************************************************)
(* A company's figures by fiscal year (app/data/financial_normalizer.py,   *)
(* edgar_fundamentals.py) and which of them the engines of app/valuation/  *)
(* have to work with.  Years in which something is not reported are what   *)
(* goes wrong here: an engine drops them, each its own way, and arithmetic *)
(* on what is left gives a number, None or a NaN.                          *)
(*                                                                         *)
(* A figure is a small integer or Missing.  Amounts that depend on rates   *)
(* and on the size of figures are "number"; where only their sign matters  *)
(* downstream, the caller passes the sign they come out with.              *)
(***************************************************************************)
EXTENDS Recommendation, FiniteSetsExt

CONSTANT Raised  \* an exception instead of a result

Flows == {"revenue", "ebit", "net_income", "tax_expense", "pretax_income", "interest_expense",
          "cash_from_operations", "capex", "depreciation", "dividends_paid"}
Balances == {"total_debt", "cash", "current_assets", "current_liabilities", "shares_outstanding",
             "total_equity", "total_assets", "retained_earnings"}
Items == Flows \cup Balances

-----------------------------------------------------------------------------
(* Statements *)

Magnitude(x) == IF x = Missing THEN Missing ELSE IF x < 0 THEN -x ELSE x

\* FinancialStatementNormaliser.normalise: outflows are made positive.  Years without any
\* figure are dropped; here, a company has none.
Normalised(raw) ==
  [i \in Items |-> IF i \in {"capex", "dividends_paid"}
                   THEN [y \in DOMAIN raw[i] |-> Magnitude(raw[i][y])] ELSE raw[i]]

OrZero(x) == IF x = Missing THEN 0 ELSE x

\* build_statements: a company's filings, read when the usual source has no statements.
\* What a filing does not tag as debt is no debt, and no debt costs no interest; EBIT is
\* derived, else the operating income.
FromFilings(tagged) ==
  LET years == DOMAIN tagged["revenue"]
      debt == [y \in years |-> OrZero(tagged["total_debt"][y])]
      interest == [y \in years |->
        IF tagged["interest_expense"][y] = Missing /\ debt[y] <= 0 THEN 0 ELSE tagged["interest_expense"][y]]
      ebit == [y \in years |->
        IF tagged["pretax_income"][y] = Missing THEN tagged["ebit"][y]
        ELSE tagged["pretax_income"][y] + OrZero(interest[y])]
      shares == [y \in years |->
        IF tagged["shares_outstanding"][y] = 0 THEN Missing ELSE tagged["shares_outstanding"][y]]
  IN  [tagged EXCEPT !["total_debt"] = debt, !["interest_expense"] = interest, !["ebit"] = ebit,
                     !["shares_outstanding"] = shares]

YearsOf(f) == DOMAIN f["revenue"]

\* Years in which all of some items are reported.
Together(f, items) == {y \in YearsOf(f) : \A i \in items : f[i][y] # Missing}

\* The last year that reports an item, which need not be the last row.
Latest(f, i) == LET years == Together(f, {i}) IN IF years = {} THEN Missing ELSE f[i][Max(years)]

-----------------------------------------------------------------------------
(* Free cash flow, discount rate, dividends *)

\* calculate_tax_rate: a year of loss has no tax rate.
Taxed(f) == {y \in Together(f, {"tax_expense", "pretax_income"}) : f["pretax_income"][y] > 0}
Nopat(f) == Taxed(f) \cap Together(f, {"ebit"})

CapexRatios(f) == {y \in Together(f, {"revenue", "capex"}) : f["revenue"][y] > 0}

\* The first year with working capital has no change of it.
WorkingCapital(f) == Together(f, {"current_assets", "current_liabilities"})
NwcRatios(f) ==
  {y \in WorkingCapital(f) \cap Together(f, {"revenue"}) :
     y # Min(WorkingCapital(f)) /\ f["revenue"][y] > 0}

\* calculate_normalized_base_fcff, of the given sign when there is one.  The revenue of
\* the latest year that reports one is taken without asking whether there is such a year.
BaseFcff(f, sign) ==
  IF Nopat(f) = {} \/ Together(f, {"depreciation"}) = {} THEN Missing
  ELSE IF Together(f, {"revenue"}) = {} THEN Raised
  ELSE IF CapexRatios(f) = {} \/ NwcRatios(f) = {} THEN Missing
  ELSE sign

\* calculate_revenue_cagr: the root of a negative ratio is not a number.
RevenueGrowth(f) ==
  LET years == Together(f, {"revenue"})
  IN  IF Cardinality(years) < 2 \/ f["revenue"][Min(years)] <= 0 THEN Missing
      ELSE IF Cardinality(years) > 2 /\ f["revenue"][Max(years)] < 0 THEN NaN
      ELSE "number"

\* calculate_wacc: without debt, the cost of equity; else interest over debt and the tax
\* rate, on average.
Wacc(f) ==
  LET debt == Latest(f, "total_debt")
      borrowing == {y \in Together(f, {"interest_expense", "total_debt"}) : f["total_debt"][y] > 0}
  IN  IF debt = Missing THEN "number"
      ELSE IF debt <= 0 \/ (borrowing # {} /\ Taxed(f) # {}) THEN "number"
      ELSE NaN

\* The value of the forecast, of the given sign when shrinking below nothing leaves it open;
\* return on equity only shapes the fade of growth.
EnterpriseValue(f, sign) ==
  LET revenue == Latest(f, "revenue")
  IN  IF RevenueGrowth(f) = NaN \/ Wacc(f) = NaN THEN NaN
      ELSE IF revenue < 0 THEN sign ELSE IF revenue = 0 THEN 0 ELSE 1

\* DDMEngine: dividends paid each year that tells, of profits; material says whether the
\* payout is large enough.
DividendValue(f, material) ==
  LET paying == {y \in Together(f, {"dividends_paid", "shares_outstanding"}) :
                   f["shares_outstanding"][y] > 0}
      earning == Together(f, {"dividends_paid", "net_income"})
  IN  IF /\ Cardinality(paying) >= 2 /\ \A y \in paying : f["dividends_paid"][y] > 0
         /\ earning # {} /\ f["net_income"][Max(earning)] > 0 /\ material
      THEN "number" ELSE Missing

-----------------------------------------------------------------------------
(* Multiples against the company's own history *)

\* The history of prices goes back that many half-years, from half a year after the last
\* fiscal year at most: a year is priced if it ended within.
Priced(f, history) == {y \in YearsOf(f) : history > 2 * (Max(YearsOf(f)) - y)}

Ebitda(f, y) == f["ebit"][y] + f["depreciation"][y]
YearlyEvEbitda(f, history) ==
  {y \in Priced(f, history) \cap
         Together(f, {"ebit", "depreciation", "total_debt", "cash", "shares_outstanding"}) :
     Ebitda(f, y) > 0}
YearlyEvRevenue(f, history) ==
  {y \in Priced(f, history) \cap Together(f, {"revenue", "total_debt", "cash", "shares_outstanding"}) :
     f["revenue"][y] > 0}

\* RelativeValuationEngine.evaluate: Missing, or how far the multiple is from its own
\* history.  A NaN is no zero to "debt or 0".  The cross-check of P/FCF is left out.
VersusHistory(f, history, cap, versus) ==
  LET row == Max(YearsOf(f))
      byEbitda == /\ Cardinality(YearlyEvEbitda(f, history)) >= 2
                  /\ row \in Together(f, {"ebit", "depreciation"}) /\ Ebitda(f, row) > 0
      byRevenue == /\ Cardinality(YearlyEvRevenue(f, history)) >= 2
                   /\ row \in Together(f, {"revenue"}) /\ f["revenue"][row] > 0
  IN  IF cap = Missing \/ ~(byEbitda \/ byRevenue) THEN Missing
      ELSE IF row \notin Together(f, {"total_debt", "cash"}) THEN NaN
      ELSE versus
=============================================================================
