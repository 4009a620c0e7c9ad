--------------------------- MODULE Valuation_proofs ---------------------------
EXTENDS MCValuation, FiniteSetTheorems, WellFoundedInduction, TLAPS

(***************************************************************************)
(* Numbers or nothing: what a ratio, a factor or a row of a table comes    *)
(* out as.                                                                 *)
(***************************************************************************)

Proper(figures) == \A k \in DOMAIN figures : figures[k] # NaN

LEMMA QuotientIsProper == ASSUME NEW reported, NEW divisor PROVE Quotient(reported, divisor) # NaN
BY OutcomesAssumption DEF Quotient, Divided

LEMMA MergedIsProper ==
  ASSUME NEW one, NEW other, Proper(one), Proper(other) PROVE Proper(Merged(one, other))
BY DEF Proper, Merged

\* The summary is proper whatever the statements report.
LEMMA SummaryIsProper == ASSUME NEW f PROVE Proper(Summary(f))
<1> DEFINE y == Row(f)
           level == [n \in DOMAIN LevelsOf |-> IF Reported(f, y, LevelsOf[n]) THEN "number" ELSE Missing]
           ratio == [n \in DOMAIN RatiosOf |->
                       Quotient(Reported(f, y, {RatiosOf[n][1], RatiosOf[n][2]}), f[RatiosOf[n][2]][y])]
           growth == [n \in DOMAIN GrowthsOf |->
                        Quotient(/\ y - 1 \in YearsOf(f)
                                 /\ Reported(f, y, LevelsOf[GrowthsOf[n]])
                                 /\ Reported(f, y - 1, LevelsOf[GrowthsOf[n]]),
                                 Level(f, GrowthsOf[n], y - 1))]
           cagr == [RevenueCAGR |-> RevenueCagr(f)]
<1>1. Proper(level)
  BY OutcomesAssumption DEF Proper
<1>2. Proper(ratio)
  BY QuotientIsProper DEF Proper
<1>3. Proper(growth)
  BY QuotientIsProper DEF Proper
<1>4. Proper(cagr)
  BY OutcomesAssumption DEF Proper, RevenueCagr
<1>5. Summary(f) = Merged(Merged(level, ratio), Merged(growth, cagr))
  BY DEF Summary
<1> HIDE DEF level, ratio, growth, cagr
<1> QED
  BY <1>1, <1>2, <1>3, <1>4, <1>5, MergedIsProper

\* And so are the factors.
LEMMA FactorsAreProper == ASSUME NEW f, NEW q, NEW benchmarks PROVE Proper(AlphaFactors(f, q, benchmarks))
<1> DEFINE priced == [PE |-> PricedBy(f, q, "net_income"), PB |-> PricedBy(f, q, "total_equity"),
                      Altman |-> Altman(f, q.cap),
                      RiskRange |-> IF q.history >= 1 THEN "number" ELSE Missing]
<1>1. Proper(FinancialFactors(f))
  BY QuotientIsProper DEF Proper, FinancialFactors
<1>2. Proper(QualityFactors(f))
  <2>1. Piotroski(f) # NaN
    BY OutcomesAssumption DEF Piotroski
  <2> QED
    BY <2>1, QuotientIsProper DEF Proper, QualityFactors
<1>3. Proper(MarketFactors(q, benchmarks))
  BY OutcomesAssumption DEF Proper, MarketFactors
<1>4. Proper(priced)
  <2>1. PricedBy(f, q, "net_income") # NaN /\ PricedBy(f, q, "total_equity") # NaN
    BY OutcomesAssumption DEF PricedBy
  <2>2. Altman(f, q.cap) # NaN
    BY OutcomesAssumption, QuotientIsProper DEF Altman
  <2> QED
    BY <2>1, <2>2, OutcomesAssumption DEF Proper
<1>5. AlphaFactors(f, q, benchmarks) =
        Merged(Merged(FinancialFactors(f), QualityFactors(f)), Merged(MarketFactors(q, benchmarks), priced))
  BY DEF AlphaFactors
<1> HIDE DEF priced
<1> QED
  BY <1>1, <1>2, <1>3, <1>4, <1>5, MergedIsProper

LEMMA ChartIsProper == ASSUME NEW f, NEW y \in YearsOf(f) PROVE Proper(Performance(f)[y])
BY QuotientIsProper DEF Performance, Proper

(***************************************************************************)
(* The last year of some, and the one that many years come after.          *)
(***************************************************************************)

LEMMA Least == ASSUME NEW S \in SUBSET Nat, S # {} PROVE \E n \in S : \A m \in S : n <= m
<1>1. PICK n \in S : \A m \in S : ~(<<m, n>> \in OpToRel(<, Nat))
  BY NatLessThanWellFounded, WFMin
<1>2. OpToRel(<, Nat) = {p \in Nat \X Nat : p[1] < p[2]}
  BY DEF OpToRel
<1>3. ASSUME NEW m \in S PROVE n <= m
  <2>1. <<m, n>> \notin {p \in Nat \X Nat : p[1] < p[2]}
    BY <1>1, <1>2
  <2> QED
    BY <2>1
<1> QED
  BY <1>3

LEMMA LastIs ==
  ASSUME NEW N \in Nat, NEW S \in SUBSET (0..N), S # {}
  PROVE  Max(S) \in S /\ \A y \in S : y <= Max(S)
<1> DEFINE T == {N - y : y \in S}
<1>1. \A y \in S : y \in Nat /\ N - y \in Nat
  OBVIOUS
<1>2. T \in SUBSET Nat /\ T # {}
  BY <1>1
<1>3. PICK n \in T : \A m \in T : n <= m
  BY <1>2, Least
<1>4. PICK x \in S : n = N - x
  OBVIOUS
<1>5. \A y \in S : x >= y
  BY <1>1, <1>3, <1>4
<1>6. Max(S) \in S /\ \A y \in S : Max(S) >= y
  BY <1>5 DEF Max
<1> QED
  BY <1>1, <1>6

HasNth(N, k) ==
  \A S \in SUBSET (0..N) :
    Cardinality(S) >= k + 1 => \E y \in S : Cardinality({z \in S : z > y}) = k

LEMMA YearsAreFinite ==
  ASSUME NEW N \in Nat, NEW S \in SUBSET (0..N) PROVE IsFiniteSet(S) /\ Cardinality(S) \in Nat
<1>1. IsFiniteSet(0..N)
  BY FS_Interval
<1>2. IsFiniteSet(S)
  BY <1>1, FS_Subset
<1> QED
  BY <1>2, FS_CardinalityType

LEMMA NthFirst == ASSUME NEW N \in Nat PROVE HasNth(N, 0)
<1> SUFFICES ASSUME NEW S \in SUBSET (0..N), Cardinality(S) >= 1
             PROVE  \E y \in S : Cardinality({z \in S : z > y}) = 0
  BY DEF HasNth
<1>1. S # {}
  BY FS_EmptySet
<1>2. Max(S) \in S /\ \A y \in S : y <= Max(S)
  BY <1>1, LastIs
<1>3. {z \in S : z > Max(S)} = {}
  <2> DEFINE m == Max(S)
  <2>1. \A z \in S : z \in Int
    OBVIOUS
  <2>2. m \in S /\ \A z \in S : z <= m
    BY <1>2
  <2> HIDE DEF m
  <2>3. ASSUME NEW z \in S PROVE ~(z > m)
    <3>1. z \in Int /\ m \in Int /\ z <= m
      BY <2>1, <2>2
    <3> QED
      BY <3>1
  <2> QED
    BY <2>3 DEF m
<1> QED
  BY <1>2, <1>3, FS_EmptySet

LEMMA NthNext == ASSUME NEW N \in Nat, NEW k \in Nat, HasNth(N, k) PROVE HasNth(N, k + 1)
<1> SUFFICES ASSUME NEW S \in SUBSET (0..N), Cardinality(S) >= k + 2
             PROVE  \E y \in S : Cardinality({z \in S : z > y}) = k + 1
  BY DEF HasNth
<1> DEFINE m == Max(S)
           R == S \ {m}
<1>1. IsFiniteSet(S) /\ Cardinality(S) \in Nat
  BY YearsAreFinite
<1>2. m \in S /\ \A y \in S : y <= m
  <2>1. S # {}
    BY FS_EmptySet
  <2> QED
    BY <2>1, LastIs
<1>a. \A z \in S : z \in Int
  OBVIOUS
<1>3. Cardinality(R) = Cardinality(S) - 1
  BY <1>1, <1>2, FS_RemoveElement
<1>4. PICK y \in R : Cardinality({z \in R : z > y}) = k
  <2>1. R \in SUBSET (0..N)
    OBVIOUS
  <2> HIDE DEF R
  <2>2. Cardinality(R) >= k + 1
    BY <1>1, <1>3
  <2> QED
    BY <2>1, <2>2 DEF HasNth
<1> DEFINE B == {z \in R : z > y}
<1>5. m > y
  <2>1. y \in S /\ y # m
    OBVIOUS
  <2> HIDE DEF m
  <2> QED
    BY <1>2, <1>a, <2>1
<1>6. {z \in S : z > y} = B \cup {m} /\ m \notin B
  BY <1>2, <1>5
<1>7. B \in SUBSET (0..N)
  OBVIOUS
<1>8. IsFiniteSet(B)
  BY <1>7, YearsAreFinite
<1> HIDE DEF m, R
<1>9. Cardinality(B \cup {m}) = k + 1
  BY <1>4, <1>6, <1>8, FS_AddElement
<1> QED
  BY <1>4, <1>6, <1>9 DEF R

LEMMA BucketsReach == ASSUME NEW N \in Nat, NEW n \in Buckets PROVE HasNth(N, n)
<1>1. HasNth(N, 0) /\ (HasNth(N, 0) => HasNth(N, 0 + 1))
  BY NthFirst, NthNext
<1>2. (HasNth(N, 1) => HasNth(N, 1 + 1)) /\ (HasNth(N, 2) => HasNth(N, 2 + 1))
  BY NthNext
<1>3. (HasNth(N, 3) => HasNth(N, 3 + 1)) /\ (HasNth(N, 4) => HasNth(N, 4 + 1))
  BY NthNext
<1>4. 0 + 1 = 1 /\ 1 + 1 = 2 /\ 2 + 1 = 3 /\ 3 + 1 = 4 /\ 4 + 1 = 5
  OBVIOUS
<1>5. n = 1 \/ n = 3 \/ n = 5
  BY DEF Buckets
<1> QED
  BY <1>1, <1>2, <1>3, <1>4, <1>5, Zenon

\* A growth is odd only where a year that it is taken of has nothing to divide by.
LEMMA CagrIs ==
  ASSUME NEW N \in Nat, NEW reported \in SUBSET (0..N), NEW amount, NEW divisor,
         NEW n \in Buckets, Cagr(reported, amount, divisor, n) = NaN
  PROVE  \E y \in reported : divisor[y] = 0
<1> DEFINE years == {y \in reported : amount[y] # 0 \/ divisor[y] # 0}
           last == Max(years)
           first == CHOOSE y \in years : Cardinality({z \in years : z > y}) = n
<1>0. years \in SUBSET (0..N) /\ years \subseteq reported
  OBVIOUS
<1>3. ~(Cardinality(years) < n + 1) /\ \E y \in {first, last} : divisor[y] = 0
  BY OutcomesAssumption DEF Cagr
<1> HIDE DEF years
<1>1. Cardinality(years) \in Nat
  BY <1>0, YearsAreFinite
<1>2. n \in Nat
  BY DEF Buckets
<1>4. Cardinality(years) >= n + 1
  BY <1>1, <1>2, <1>3
<1>5. \E y \in years : Cardinality({z \in years : z > y}) = n
  BY <1>0, <1>4, BucketsReach DEF HasNth
<1>6. first \in years
  BY <1>5
<1>7. last \in years
  BY <1>0, <1>6, LastIs
<1> QED
  BY <1>0, <1>3, <1>6, <1>7

(***************************************************************************)
(* Statements.                                                             *)
(***************************************************************************)

LEMMA RevenueIsItem == "revenue" \in Items /\ "shares_outstanding" \in Items
BY DEF Items, Flows, Balances

\* Whatever the source of the statements, they are of the same years.
LEMMA YearsStay ==
  ASSUME NEW raw
  PROVE  /\ YearsOf(Normalised(raw)) = YearsOf(raw)
         /\ Normalised(raw)["shares_outstanding"] = raw["shares_outstanding"]
BY RevenueIsItem DEF Normalised, YearsOf

LEMMA FiledYears ==
  ASSUME NEW raw, raw \in [Items -> [YearsOf(raw) -> Int \cup {Missing}]]
  PROVE  YearsOf(FromFilings(raw)) = YearsOf(raw)
BY RevenueIsItem DEF FromFilings, YearsOf

LEMMA FiguresYears ==
  ASSUME IsCompany(company), ~company.crypto
  PROVE  YearsOf(Figures) = YearsOf(company.raw) /\ Row(Figures) \in YearsOf(Figures)
<1>1. YearsOf(Figures) = YearsOf(company.raw)
  BY YearsStay, FiledYears DEF Figures, IsCompany
<1> DEFINE N == Cardinality(YearsOf(company.raw))
<1>2. N \in Nat /\ YearsOf(company.raw) \in SUBSET (0..N) /\ YearsOf(company.raw) # {}
  <2>1. YearsOf(company.raw) = 1..N /\ YearsOf(company.raw) # {}
    BY DEF IsCompany
  <2>2. N \in Nat
    BY FS_CardinalityType DEF IsCompany
  <2> QED
    BY <2>1, <2>2
<1>3. Max(YearsOf(company.raw)) \in YearsOf(company.raw)
  BY <1>2, LastIs
<1> QED
  BY <1>1, <1>3 DEF Row

(***************************************************************************)
(* A valuation of the pipeline: when it applies, there is a growth of      *)
(* revenue, and it is as odd as that growth is.                            *)
(***************************************************************************)

SoundFor(f, v) ==
  /\ v.dcf \in BOOLEAN
  /\ v.dcf => /\ RevenueGrowth(f) # Missing
              /\ v.value = IF RevenueGrowth(f) = NaN THEN NaN ELSE "number"
  /\ ~v.dcf => v.value = Missing /\ v.rawWacc = Missing
  /\ v.ddm # NaN

LEMMA ComputedIsSound ==
  ASSUME NEW f, NEW c, NEW ch, IsChoice(ch) PROVE SoundFor(f, ComputeValuation(f, c, ch))
<1> DEFINE ev == EnterpriseValue(f, ch.ev)
           v == ComputeValuation(f, c, ch)
<1>1. CASE v = Unavailable
  BY <1>1, OutcomesAssumption DEF SoundFor, Unavailable
<1>2. CASE ~Inapplicable(f, c, ch)
           /\ v = [dcf |-> TRUE, value |-> IF ev = NaN THEN NaN ELSE "number", rawWacc |-> Wacc(f),
                   ddm |-> DividendValue(f, ch.material)]
  <2>1. RevenueGrowth(f) # Missing /\ Wacc(f) # NaN
    BY <1>2 DEF Inapplicable
  <2>2. ev = NaN <=> RevenueGrowth(f) = NaN
    BY <2>1, OutcomesAssumption DEF EnterpriseValue, IsChoice
  <2>3. DividendValue(f, ch.material) # NaN
    BY OutcomesAssumption DEF DividendValue
  <2> HIDE DEF ev
  <2> QED
    BY <1>2, <2>1, <2>2, <2>3 DEF SoundFor
<1>3. v = Unavailable \/
        (~Inapplicable(f, c, ch)
           /\ v = [dcf |-> TRUE, value |-> IF ev = NaN THEN NaN ELSE "number", rawWacc |-> Wacc(f),
                   ddm |-> DividendValue(f, ch.material)])
  BY DEF ComputeValuation
<1> QED
  BY <1>1, <1>2, <1>3

\* It raises only where no year reports a revenue.
LEMMA RaisesOnlyWithoutRevenue ==
  ASSUME NEW f, NEW c, NEW ch, IsChoice(ch), Raises(f, c, ch)
  PROVE  Together(f, {"revenue"}) = {}
<1>1. BaseFcff(f, ch.base) = Raised
  BY DEF Raises, Inapplicable
<1> QED
  BY <1>1, OutcomesAssumption DEF BaseFcff, IsChoice

\* Beside its inputs, a result is what was computed.
Computed(f) == [figures |-> f, cap |-> cap, rate |-> RiskFreeRate]

LEMMA MergedKeeps ==
  ASSUME NEW f, NEW c, NEW ch, NEW inputs, IsChoice(ch)
  PROVE  LET v == Merged(ComputeValuation(f, c, ch), [inputs |-> inputs])
         IN  v.inputs = inputs /\ SoundFor(f, v)
<1> DEFINE w == ComputeValuation(f, c, ch)
           v == Merged(w, [inputs |-> inputs])
<1>1. DOMAIN w = {"dcf", "value", "rawWacc", "ddm"}
  BY DEF ComputeValuation, Unavailable
<1>2. SoundFor(f, w)
  BY ComputedIsSound
<1> HIDE DEF w
<1>3. /\ v.inputs = inputs /\ v.dcf = w.dcf /\ v.value = w.value /\ v.rawWacc = w.rawWacc
      /\ v.ddm = w.ddm
  BY <1>1 DEF Merged
<1> QED
  BY <1>2, <1>3 DEF SoundFor, w

(***************************************************************************)
(* The cache: what is found under a key was computed from what the key     *)
(* says.                                                                   *)
(***************************************************************************)

Filed(e) ==
  /\ e.result.inputs.figures = e.key.figures
  /\ Rounded(e.result.inputs.cap) = e.key.cap
  /\ e.result.inputs.rate = e.key.rate
  /\ SoundFor(e.key.figures, e.result)

CacheHolds == \A e \in cache : Filed(e)

CaseHolds == IsCompany(company) /\ IsChoice(choice)

LEMMA ServedIsSound ==
  ASSUME CaseHolds, CacheHolds, NEW f
  PROVE  /\ SoundFor(f, RunValuation(f))
         /\ RunValuation(f).inputs.figures = f
         /\ Rounded(RunValuation(f).inputs.cap) = Rounded(cap)
         /\ RunValuation(f).inputs.rate = RiskFreeRate
<1>1. CASE Cached(f) # {}
  <2>1. PICK e \in cache : e.key = CacheKey(f, cap) /\ RunValuation(f) = e.result
    BY <1>1 DEF RunValuation, Cached
  <2>2. e.key.figures = f /\ e.key.cap = Rounded(cap) /\ e.key.rate = RiskFreeRate
    BY <2>1 DEF CacheKey
  <2> QED
    BY <2>1, <2>2 DEF CacheHolds, Filed
<1>2. CASE Cached(f) = {}
  <2>1. RunValuation(f) = Merged(ComputeValuation(f, cap, choice), [inputs |-> Computed(f)])
    BY <1>2 DEF RunValuation, Computed
  <2>2. RunValuation(f).inputs = Computed(f) /\ SoundFor(f, RunValuation(f))
    BY <2>1, MergedKeeps DEF CaseHolds
  <2> QED
    BY <2>2 DEF Computed
<1> QED
  BY <1>1, <1>2

LEMMA CacheInit == Init => CacheHolds /\ CaseHolds
BY CasesAssumption DEF Init, CacheHolds, CaseHolds

LEMMA CacheNext == CaseHolds /\ CacheHolds /\ [Next]_vars => CaseHolds' /\ CacheHolds'
<1> SUFFICES ASSUME CaseHolds, CacheHolds, [Next]_vars PROVE CaseHolds' /\ CacheHolds'
  OBVIOUS
<1>1. UNCHANGED <<company, choice>>
  BY DEF Next, Ask, Value, BuildReport, WhatIf, CapMoves, YieldMoves, MemoryExpires, CacheExpires, vars
<1>2. CaseHolds'
  BY <1>1 DEF CaseHolds
<1>3. ASSUME cache' \subseteq cache PROVE CacheHolds'
  BY <1>3 DEF CacheHolds
<1>4. CASE Value
  <2> DEFINE f == Figures
             e == [key |-> CacheKey(f, cap), result |-> RunValuation(f)]
  <2>1. cache' = cache \/ cache' = cache \cup {e}
    BY <1>4 DEF Value
  <2>2. Filed(e)
    BY ServedIsSound DEF Filed, CacheKey
  <2> HIDE DEF e
  <2> QED
    BY <1>2, <2>1, <2>2 DEF CacheHolds
<1>5. CASE CacheExpires
  BY <1>2, <1>3, <1>5 DEF CacheExpires
<1>6. ASSUME UNCHANGED cache PROVE CacheHolds'
  BY <1>3, <1>6
<1> QED
  BY <1>2, <1>4, <1>5, <1>6
  DEF Next, Ask, BuildReport, WhatIf, CapMoves, YieldMoves, MemoryExpires, vars

\* A valuation served from the cache was computed from the figures, the rounded market
\* capitalisation and the discount rate that this request would compute it from (_cache_key,
\* run_valuation), also when another user's tolerance, the market or the yield came between.
THEOREM ServedAlike == Spec => ServedForSameInputs
<1> DEFINE Served ==
      stage' = "valued" /\ stage = "asked" /\ ~company.crypto /\ ~valued'.raised =>
        /\ valued'.inputs.rate = RiskFreeRate
        /\ valued'.inputs.figures = Figures /\ Rounded(valued'.inputs.cap) = Rounded(cap)
<1>1. CaseHolds /\ CacheHolds /\ [Next]_vars => [Served]_vars
  <2> SUFFICES ASSUME CaseHolds, CacheHolds, Next, stage' = "valued", stage = "asked",
                      ~company.crypto, ~valued'.raised
               PROVE  /\ valued'.inputs.rate = RiskFreeRate
                      /\ valued'.inputs.figures = Figures /\ Rounded(valued'.inputs.cap) = Rounded(cap)
    OBVIOUS
  <2>1. Value
    BY DEF Next, Ask, BuildReport, WhatIf, CapMoves, YieldMoves, MemoryExpires, CacheExpires
  <2>2. valued' = Results(Figures, RunValuation(Figures))
    BY <2>1 DEF Value, NoResults
  <2>3. valued'.inputs = RunValuation(Figures).inputs
    BY <2>2 DEF Results
  <2> QED
    BY <2>3, ServedIsSound
<1> QED
  BY <1>1, CacheInit, CacheNext, PTL DEF Spec, ServedForSameInputs

(***************************************************************************)
(* A report: what the tool has left for it, and that it is made of that.   *)
(***************************************************************************)

GivenWell(v) ==
  /\ v.dcf \in BOOLEAN
  /\ v.rawWacc # Missing => RevenueGrowth(Figures) # Missing
  /\ v.dcf => ~company.crypto
  /\ /\ v.dcf /\ RevenueGrowth(Figures) # NaN
     /\ company.price # Missing /\ Latest(Figures, "shares_outstanding") \notin {Missing, 0}
     => v.upside = choice.upside
  /\ RevenueGrowth(Figures) # NaN => Proper(v.amounts)
  /\ Proper(v.factors)
  /\ v.versus = NaN /\ ~company.crypto => ~Reported(Figures, Row(Figures), {"total_debt", "cash"})

Given(v) ==
  \/ v = NoResults /\ Together(Figures, {"revenue"}) = {}
  \/ ~v.raised /\ GivenWell(v)

ReportHolds ==
  /\ stage \in {"idle", "asked"} => valued = Missing
  /\ stage \in {"valued", "done"} => Given(valued)
  /\ stage \in {"idle", "asked", "valued", "done"}
  /\ report # Missing => stage = "done" /\ report = ReportOf(valued)
  /\ whatIf = Raised => RevenueGrowth(Figures) = NaN

ValuationInv == CaseHolds /\ CacheHolds /\ ReportHolds

LEMMA CryptoIsGiven == ASSUME company.crypto PROVE ~CryptoResults.raised /\ GivenWell(CryptoResults)
BY OutcomesAssumption DEF CryptoResults, NoResults, GivenWell, Proper

LEMMA ResultsAreGiven ==
  ASSUME CaseHolds, ~company.crypto, NEW v, SoundFor(Figures, v)
  PROVE  ~Results(Figures, v).raised /\ GivenWell(Results(Figures, v))
<1> DEFINE f == Figures
           r == Results(f, v)
           factors == AlphaFactors(f, Quote, yield # Missing)
           rate == IF company.us /\ Fetched("5d") # Missing /\ Fetched("5d").span = "10y"
                   THEN MarketFactors(Quote, TRUE).RateSensitivity ELSE Missing
           intrinsic == Intrinsic(f, v)
<1>1. /\ r.raised = FALSE /\ r.dcf = v.dcf /\ r.rawWacc = v.rawWacc
      /\ r.upside = Upside(intrinsic) /\ r.versus = Versus(f)
      /\ r.factors = [factors EXCEPT !.RateSensitivity = rate]
      /\ r.amounts = [value |-> v.value, intrinsic |-> intrinsic,
                      monteCarlo |-> IF company.price = Missing THEN Missing ELSE intrinsic,
                      sensitivity |-> intrinsic,
                      ddm |-> IF company.price = Missing THEN Missing ELSE v.ddm]
  BY DEF Results
<1> HIDE DEF r
<1>2. v.rawWacc # Missing => RevenueGrowth(f) # Missing
  BY DEF SoundFor
<1>3. Proper(r.factors)
  <2>1. Proper(factors)
    BY FactorsAreProper
  <2>2. rate # NaN
    BY OutcomesAssumption DEF MarketFactors
  <2> HIDE DEF factors, rate
  <2> QED
    BY <1>1, <2>1, <2>2 DEF Proper
<1>4. RevenueGrowth(f) # NaN => Proper(r.amounts)
  <2>1. RevenueGrowth(f) # NaN => v.value # NaN /\ intrinsic # NaN /\ v.ddm # NaN
    BY OutcomesAssumption DEF SoundFor, Intrinsic
  <2> HIDE DEF intrinsic
  <2> QED
    BY <1>1, <2>1, OutcomesAssumption DEF Proper
<1>5. v.dcf /\ RevenueGrowth(f) # NaN /\ company.price # Missing
        /\ Latest(f, "shares_outstanding") \notin {Missing, 0} => r.upside = choice.upside
  BY <1>1, OutcomesAssumption DEF SoundFor, Intrinsic, Upside
<1>6. r.versus = NaN => ~Reported(f, Row(f), {"total_debt", "cash"})
  <2> SUFFICES ASSUME Versus(f) = NaN PROVE ~Reported(f, Row(f), {"total_debt", "cash"})
    BY <1>1
  <2>1. Row(f) \notin Together(f, {"total_debt", "cash"})
    BY OutcomesAssumption DEF Versus, VersusHistory, Row, CaseHolds, IsChoice
  <2>2. Row(f) \in YearsOf(f)
    BY FiguresYears DEF CaseHolds
  <2> QED
    BY <2>1, <2>2 DEF Together, Reported
<1> QED
  BY <1>1, <1>2, <1>3, <1>4, <1>5, <1>6 DEF GivenWell, SoundFor, r

LEMMA ReportInitHolds == Init => ReportHolds
BY OutcomesAssumption DEF Init, ReportHolds

\* What has been given stays so: a company keeps its figures.
LEMMA GivenStays ==
  ASSUME UNCHANGED <<company, choice>>, NEW v, Given(v) PROVE Given(v)'
BY DEF Given, GivenWell, Figures, NoResults

LEMMA ReportNext == ValuationInv /\ [Next]_vars => ReportHolds'
<1> SUFFICES ASSUME ValuationInv, [Next]_vars PROVE ReportHolds'
  OBVIOUS
<1>1. CASE \E t \in Tolerances : Ask(t)
  BY <1>1, OutcomesAssumption DEF Ask, ReportHolds
<1>2. CASE Value
  <2>1. Given(valued)'
    <3>1. CASE company.crypto
      BY <1>2, <3>1, CryptoIsGiven DEF Value, Given, GivenWell, Figures
    <3>2. CASE ~company.crypto /\ RunRaises(Figures)
      <4>1. valued' = NoResults /\ UNCHANGED company
        BY <1>2, <3>2 DEF Value
      <4>2. Together(Figures, {"revenue"}) = {}
        BY <3>2, RaisesOnlyWithoutRevenue DEF RunRaises, ValuationInv, CaseHolds
      <4> QED
        BY <4>1, <4>2 DEF Given, Figures, NoResults
    <3>3. CASE ~company.crypto /\ ~RunRaises(Figures)
      <4>1. valued' = Results(Figures, RunValuation(Figures)) /\ UNCHANGED <<company, choice>>
        BY <1>2, <3>3 DEF Value
      <4>2. ~Results(Figures, RunValuation(Figures)).raised
            /\ GivenWell(Results(Figures, RunValuation(Figures)))
        BY <3>3, ServedIsSound, ResultsAreGiven DEF ValuationInv
      <4> QED
        BY <4>1, <4>2 DEF Given, GivenWell, Figures
    <3> QED
      BY <3>1, <3>2, <3>3
  <2>2. /\ stage' = "valued" /\ report' = report /\ report = Missing
        /\ UNCHANGED <<whatIf, company>>
    BY <1>2 DEF Value, ValuationInv, ReportHolds
  <2>3. Figures' = Figures
    BY <2>2 DEF Figures
  <2>4. whatIf' = Raised => RevenueGrowth(Figures') = NaN
    BY <2>2, <2>3 DEF ReportHolds, ValuationInv
  <2> QED
    BY <2>1, <2>2, <2>4 DEF ReportHolds
<1>3. CASE BuildReport
  <2>1. stage' = "done" /\ report' = ReportOf(valued)' /\ Given(valued)'
    BY <1>3, GivenStays DEF BuildReport, ReportOf, NoView, QualityLevel, Figures, ValuationInv, ReportHolds
  <2>2. UNCHANGED <<whatIf, company>>
    BY <1>3 DEF BuildReport
  <2>3. Figures' = Figures
    BY <2>2 DEF Figures
  <2>4. whatIf' = Raised => RevenueGrowth(Figures') = NaN
    BY <2>2, <2>3 DEF ReportHolds, ValuationInv
  <2> QED
    BY <2>1, <2>4 DEF ReportHolds
<1>4. CASE WhatIf
  <2>1. stage = "done" /\ report = ReportOf(valued) /\ Given(valued)
    BY <1>4 DEF WhatIf, ValuationInv, ReportHolds
  <2>2. report.rawWacc = valued.rawWacc
    BY <2>1 DEF ReportOf
  <2>3. report.rawWacc # Missing => RevenueGrowth(Figures) # Missing
    BY <2>1, <2>2 DEF Given, GivenWell, NoResults
  <2>4. whatIf' = WhatIfOf(Figures, choice)
    BY <1>4 DEF WhatIf
  <2>5. whatIf' = Raised => RevenueGrowth(Figures) = NaN
    BY <2>3, <2>4, OutcomesAssumption DEF WhatIfOf
  <2>6. UNCHANGED <<company, choice, stage, valued, report>>
    BY <1>4 DEF WhatIf
  <2> QED
    BY <2>1, <2>5, <2>6, GivenStays, SMTT(30)
    DEF ReportHolds, ReportOf, NoView, QualityLevel, Figures
<1>5. ASSUME UNCHANGED <<company, choice, stage, valued, report, whatIf>> PROVE ReportHolds'
  BY <1>5, GivenStays DEF ReportHolds, ReportOf, NoView, QualityLevel, Figures, ValuationInv
<1> QED
  BY <1>1, <1>2, <1>3, <1>4, <1>5 DEF Next, CapMoves, YieldMoves, MemoryExpires, CacheExpires, vars

LEMMA ValuationKept == Spec => []ValuationInv
<1>1. Init => ValuationInv
  BY CacheInit, ReportInitHolds DEF ValuationInv
<1>2. ValuationInv /\ [Next]_vars => ValuationInv'
  BY CacheNext, ReportNext DEF ValuationInv
<1> QED
  BY <1>1, <1>2, PTL DEF Spec

\* Gaps in the statements cost a report its valuation and no more: the tool raises only where
\* no year reports a revenue, and a what-if of what a report has stored never does
\* (_compute_valuation, what_if).
LEMMA Degrades == Spec => []DegradesNotRaises
<1>1. ValuationInv => DegradesNotRaises
  BY OutcomesAssumption DEF ValuationInv, ReportHolds, Given, DegradesNotRaises
<1> QED
  BY <1>1, ValuationKept, PTL

\* A report that is not marked as having no view rates the company, unless there is no price,
\* no share count or no growth to value it with, or the valuation raised (build_data_quality,
\* derive_recommendation).
LEMMA ViewsRate == Spec => []FullViewsRate
<1>1. ValuationInv => FullViewsRate
  <2> SUFFICES ASSUME ValuationInv, report # Missing, ~report.noView, ~valued.raised,
                      company.price # Missing,
                      Latest(Figures, "shares_outstanding") \notin {Missing, 0},
                      RevenueGrowth(Figures) # NaN
               PROVE  report.rating \in Calls
    BY DEF FullViewsRate
  <2>1. report = ReportOf(valued) /\ GivenWell(valued)
    BY DEF ValuationInv, ReportHolds, Given, NoResults
  <2>2. valued.dcf
    BY <2>1 DEF ReportOf, NoView
  <2>3. valued.upside = choice.upside
    BY <2>1, <2>2 DEF GivenWell
  <2>4. valued.upside \notin {Missing, NaN}
    BY <2>3, OutcomesAssumption DEF ValuationInv, CaseHolds, IsChoice
  <2> DEFINE seen == [upside |-> valued.upside, versus |-> valued.versus]
  <2>5. HasUpside(seen)
    BY <2>4 DEF HasUpside
  <2>6. report.rating = RatingFromScore(CompositeScore(seen))
    BY <2>1, <2>5 DEF ReportOf, DeriveRecommendation
  <2> QED
    BY <2>6 DEF RatingFromScore, Calls
<1> QED
  BY <1>1, ValuationKept, PTL

\* Whatever is missing in the statements, the report is built, and it has a rating wherever it
\* does not say that it has no view (valuation_pipeline.py, data_quality.py).
THEOREM ReportsDegrade == Spec => []DegradesHonestly
  BY Degrades, ViewsRate, PTL DEF DegradesHonestly

\* The growth table has a gap only per share, where a year reports no shares.
LEMMA GrowthIsNumber ==
  ASSUME IsCompany(company), ~company.crypto, NEW n \in Buckets, NEW k \in DOMAIN GrowthTable[n],
         GrowthTable[n][k] = NaN
  PROVE  \E y \in YearsOf(Figures) : Figures["shares_outstanding"][y] = 0
<1> DEFINE f == Figures
           shares == f["shares_outstanding"]
           whole == [y \in YearsOf(f) |-> 1]
           flows == Together(f, {"cash_from_operations", "capex"})
           flow == [y \in flows |-> f["cash_from_operations"][y] - f["capex"][y]]
           perShare(item) == Cagr(Together(f, {item, "shares_outstanding"}), f[item], shares, n)
           N == Cardinality(YearsOf(f))
<1>1. YearsOf(f) = YearsOf(company.raw)
  BY FiguresYears
<1>2. N \in Nat /\ YearsOf(f) \in SUBSET (0..N)
  <2> HIDE DEF f
  <2>1. YearsOf(f) = 1..N /\ N \in Nat
    BY <1>1, FS_CardinalityType DEF IsCompany
  <2> HIDE DEF N
  <2> QED
    BY <2>1
<1>3. \A items : Together(f, items) \in SUBSET YearsOf(f)
  BY DEF Together
<1>4. \A items : Together(f, items) \in SUBSET (0..N)
  BY <1>2, <1>3
<1>5. GrowthTable[n] = [revenue |-> Cagr(Together(f, {"revenue"}), f["revenue"], whole, n),
                        fcf |-> Cagr(flows, flow, whole, n),
                        eps |-> perShare("net_income"), bookValue |-> perShare("total_equity")]
  BY DEF GrowthTable, GrowthMetrics
<1> HIDE DEF f, N
<1>6. Cagr(Together(f, {"revenue"}), f["revenue"], whole, n) # NaN
  <2>1. \A y \in Together(f, {"revenue"}) : whole[y] # 0
    BY <1>3
  <2> HIDE DEF whole
  <2> QED
    BY <1>2, <1>4, <2>1, CagrIs
<1>7. Cagr(flows, flow, whole, n) # NaN
  <2>1. \A y \in flows : whole[y] # 0
    BY <1>3
  <2>2. flows \in SUBSET (0..N)
    BY <1>4
  <2> HIDE DEF whole, flow, flows
  <2> QED
    BY <1>2, <2>1, <2>2, CagrIs, ZenonT(40)
<1>8. ASSUME NEW item, perShare(item) = NaN PROVE \E y \in YearsOf(f) : shares[y] = 0
  <2>1. \E y \in Together(f, {item, "shares_outstanding"}) : shares[y] = 0
    <3> DEFINE both == Together(f, {item, "shares_outstanding"})
               amount == f[item]
    <3>1. both \in SUBSET (0..N) /\ Cagr(both, amount, shares, n) = NaN
      BY <1>4, <1>8
    <3> HIDE DEF both, amount, shares
    <3> QED
      BY <1>2, <3>1, CagrIs DEF both
  <2> QED
    BY <1>3, <2>1
<1> HIDE DEF whole, flow, flows, perShare
<1>9. \E item : perShare(item) = NaN
  BY <1>5, <1>6, <1>7
<1> QED
  BY <1>1, <1>8, <1>9 DEF f

\* What a report, the growth table and the chart of a company show is a number or nothing,
\* but for the amounts when the growth of revenue is the root of a negative ratio, the
\* comparison with a history whose last balance sheet has a gap, and growth per share where a
\* year reports no shares (financial_analysis.py, alpha_factors.py, growth_metrics.py,
\* relative_valuation.py).
THEOREM Numbers == Spec => []NumbersOrNothing
<1>1. ValuationInv => NumbersOrNothing
  <2> SUFFICES ASSUME ValuationInv, report # Missing, Figures # Missing
               PROVE  /\ RevenueGrowth(Figures) # NaN => Proper(report.amounts)
                      /\ Proper(report.ratios)
                      /\ report.versus = NaN =>
                           ~Reported(Figures, Row(Figures), {"total_debt", "cash"})
                      /\ \A n \in Buckets : \A k \in DOMAIN GrowthTable[n] :
                           GrowthTable[n][k] = NaN =>
                             \E y \in YearsOf(Figures) : Figures["shares_outstanding"][y] = 0
                      /\ \A y \in YearsOf(Figures) : Proper(Chart[y])
    BY DEF NumbersOrNothing, Proper, Odd
  <2>1. ~company.crypto /\ IsCompany(company)
    BY DEF Figures, ValuationInv, CaseHolds
  <2>2. report = ReportOf(valued) /\ Given(valued)
    BY DEF ValuationInv, ReportHolds
  <2>3. /\ report.amounts = valued.amounts /\ report.versus = valued.versus
        /\ report.ratios = Merged(Summary(Figures), valued.factors)
    BY <2>2 DEF ReportOf
  <2>4. CASE valued = NoResults
    <3>1. Proper(valued.amounts) /\ Proper(valued.factors) /\ valued.versus # NaN
      BY <2>4, OutcomesAssumption DEF NoResults, Proper
    <3> QED
      <4>1. Proper(report.ratios)
        BY <2>3, <3>1, SummaryIsProper, MergedIsProper
      <4>2. \A y \in YearsOf(Figures) : Proper(Chart[y])
        BY <2>1, FiguresYears, YearsStay, ChartIsProper DEF Chart
      <4> QED
        BY <2>1, <2>3, <3>1, <4>1, <4>2, GrowthIsNumber, FiguresYears
  <2>5. CASE GivenWell(valued)
    <3>1. Proper(report.ratios)
      BY <2>3, <2>5, SummaryIsProper, MergedIsProper DEF GivenWell
    <3>2. \A y \in YearsOf(Figures) : Proper(Chart[y])
      BY <2>1, FiguresYears, YearsStay, ChartIsProper DEF Chart
    <3> QED
      BY <2>1, <2>3, <2>5, <3>1, <3>2, GrowthIsNumber, FiguresYears DEF GivenWell
  <2> QED
    BY <2>2, <2>4, <2>5 DEF Given
<1> QED
  BY <1>1, ValuationKept, PTL

(***************************************************************************)
(* The backtest: of two fetched worlds that agree up to a date, the same   *)
(* is known at that date.                                                  *)
(***************************************************************************)

LEMMA DaysAre == LastDay \in Nat /\ FilingLag \in Nat /\ 1..LastDay \subseteq 0..LastDay
<1>1. LastDay \in Nat /\ FilingLag \in Nat
  BY BacktestAssumption
<1> QED
  BY <1>1

LEMMA WalkLastIs ==
  ASSUME NEW N \in Nat, NEW S \in SUBSET (0..N), S # {} PROVE Walk!Max(S) \in S
<1>1. Walk!Max(S) = Max(S)
  BY DEF Walk!Max, Max
<1> QED
  BY <1>1, LastIs

\* Two worlds are alike in the market of a ticker up to a date; and in the figures known then.
OneMarket(v, w, t, date) ==
  /\ v.trading = w.trading /\ v.listed = w.listed /\ v.years = w.years /\ v.yieldFrom = w.yieldFrom
  /\ \A d \in w.trading : d <= date =>
       v.price[t][d] = w.price[t][d] /\ v.index[d] = w.index[d] /\ v.yield[d] = w.yield[d]

\* The closes of the one are twice those of the other.
TwiceMarket(v, w, t, date) ==
  /\ v.trading = w.trading /\ v.listed = w.listed /\ v.years = w.years /\ v.yieldFrom = w.yieldFrom
  /\ \A d \in w.trading : d <= date =>
       v.price[t][d] = 2 * w.price[t][d] /\ v.index[d] = w.index[d] /\ v.yield[d] = w.yield[d]

OneFigures(v, w, date) == \A y \in w.years : y + FilingLag <= date => v.figure[y] = w.figure[y]

\* The price of a day before is a price of those days.
LEMMA PricedAlike ==
  ASSUME NEW days \in SUBSET (1..LastDay), NEW one, NEW other, NEW date,
         \A d \in days : d <= date => one[d] = other[d]
  PROVE  Walk!OnOrBefore(days, one, date) = Walk!OnOrBefore(days, other, date)
<1> DEFINE past == {d \in days : d <= date}
<1>1. past # {} => Walk!Max(past) \in past
  <2>1. past \in SUBSET (0..LastDay) /\ LastDay \in Nat
    BY DaysAre
  <2> HIDE DEF past
  <2> QED
    BY <2>1, WalkLastIs
<1>2. past # {} => one[Walk!Max(past)] = other[Walk!Max(past)]
  BY <1>1
<1> QED
  BY <1>2 DEF Walk!OnOrBefore

\* A close at a date is of a day up to it.
LEMMA PastDay ==
  ASSUME NEW days \in SUBSET (1..LastDay), NEW one, NEW date,
         Walk!OnOrBefore(days, one, date) # Missing \/ \E d \in days : d <= date
  PROVE  \E d \in days : d <= date /\ \A any : Walk!OnOrBefore(days, any, date) = any[d]
<1> DEFINE past == {d \in days : d <= date}
<1>1. past # {}
  BY DEF Walk!OnOrBefore
<1>2. Walk!Max(past) \in past
  <2>1. past \in SUBSET (0..LastDay) /\ LastDay \in Nat
    BY DaysAre
  <2> HIDE DEF past
  <2> QED
    BY <1>1, <2>1, WalkLastIs
<1>3. \A any : Walk!OnOrBefore(days, any, date) = any[Walk!Max(past)]
  BY <1>1 DEF Walk!OnOrBefore
<1> QED
  BY <1>2, <1>3

\* The rate, the index and which years are known depend on no close of a ticker.
LEMMA SameRates ==
  ASSUME NEW v, NEW w, NEW date \in 1..LastDay, IsWorld(w),
         v.trading = w.trading, v.years = w.years, v.yieldFrom = w.yieldFrom,
         \A d \in w.trading : d <= date => v.index[d] = w.index[d] /\ v.yield[d] = w.yield[d],
         w.yieldFrom # Missing, \E d \in w.trading : w.yieldFrom <= d /\ d <= date
  PROVE  /\ Walk!RateAt(v, date) = Walk!RateAt(w, date)
         /\ Walk!UpTo(v.index, v.trading, date) = Walk!UpTo(w.index, w.trading, date)
         /\ Walk!KnownYears(v, date) = Walk!KnownYears(w, date)
<1>1. w.trading \in SUBSET (1..LastDay)
  BY DEF IsWorld
<1>2. Walk!RateAt(v, date) = Walk!RateAt(w, date)
  <2> DEFINE fetched == {d \in w.trading : d >= w.yieldFrom}
  <2>1. fetched \in SUBSET (1..LastDay) /\ \E d \in fetched : d <= date
    BY <1>1
  <2> HIDE DEF fetched
  <2>2. PICK d \in fetched : d <= date /\ \A any : Walk!OnOrBefore(fetched, any, date) = any[d]
    BY <2>1, PastDay
  <2>3. v.yield[d] = w.yield[d] /\ w.yield[d] \in Int
    BY <1>1, <2>2 DEF fetched, IsWorld
  <2>4. w.yield[d] # Missing
    BY <2>3, OutcomesAssumption
  <2>5. Walk!OnOrBefore(fetched, v.yield, date) = w.yield[d]
        /\ Walk!OnOrBefore(fetched, w.yield, date) = w.yield[d]
    BY <2>2, <2>3
  <2>6. Walk!RateAt(w, date) = w.yield[d] /\ Walk!RateAt(v, date) = w.yield[d]
    BY <2>4, <2>5 DEF Walk!RateAt, fetched
  <2> QED
    BY <2>6
<1>3. Walk!UpTo(v.index, v.trading, date) = Walk!UpTo(w.index, w.trading, date)
  <2>1. \A x \in {d \in w.trading : d <= date} : v.index[x] = w.index[x]
    OBVIOUS
  <2> QED
    BY <2>1 DEF Walk!UpTo
<1>4. Walk!KnownYears(v, date) = Walk!KnownYears(w, date)
  BY DEF Walk!KnownYears
<1> QED
  BY <1>2, <1>3, <1>4

\* In one market a ticker is scored alike, but for its figures.
LEMMA SameMarket ==
  ASSUME NEW v, NEW w, NEW date \in 1..LastDay, NEW t \in Tickers,
         IsWorld(w), OneMarket(v, w, t, date),
         w.yieldFrom # Missing, \E d \in w.trading : w.yieldFrom <= d /\ d <= date
  PROVE  /\ Walk!Raises(v, t, date) = Walk!Raises(w, t, date)
         /\ Walk!Market(Walk!Context(v, t, date)) = Walk!Market(Walk!Context(w, t, date))
<1> DEFINE quoted == Walk!Quoted(w, t)
<1>1. w.trading \in SUBSET (1..LastDay)
  BY DEF IsWorld
<1>2. Walk!Quoted(v, t) = quoted /\ quoted \in SUBSET w.trading
  BY DEF Walk!Quoted, OneMarket
<1> HIDE DEF quoted
<1>3. \A d \in w.trading : d <= date => v.price[t][d] = w.price[t][d] /\ v.index[d] = w.index[d]
  BY DEF OneMarket
<1>4. Walk!PriceAt(v, t, date) = Walk!PriceAt(w, t, date)
  BY <1>1, <1>2, <1>3, PricedAlike DEF Walk!PriceAt, quoted
<1>5. Walk!TrailingBeta(v, t, date) = Walk!TrailingBeta(w, t, date)
  <2> DEFINE returns == {d \in quoted \cap w.trading : d <= date} \ {Walk!Min(quoted)}
  <2>1. \A d \in returns : v.price[t][d] = w.price[t][d] /\ v.index[d] = w.index[d]
    BY <1>3
  <2>2. [d \in returns |-> <<v.price[t][d], v.index[d]>>] = [d \in returns |-> <<w.price[t][d], w.index[d]>>]
    BY <2>1
  <2>3. v.trading = w.trading
    BY DEF OneMarket
  <2> QED
    BY <1>2, <2>2, <2>3 DEF Walk!TrailingBeta, quoted
<1>6. Walk!UpTo(v.price[t], quoted, date) = Walk!UpTo(w.price[t], quoted, date)
  <2>1. \A x \in {d \in quoted : d <= date} : v.price[t][x] = w.price[t][x]
    BY <1>2, <1>3
  <2> QED
    BY <2>1 DEF Walk!UpTo
<1>7. /\ Walk!RateAt(v, date) = Walk!RateAt(w, date)
      /\ Walk!UpTo(v.index, v.trading, date) = Walk!UpTo(w.index, w.trading, date)
      /\ Walk!KnownYears(v, date) = Walk!KnownYears(w, date)
  BY SameRates DEF OneMarket
<1>8. Walk!Raises(v, t, date) = Walk!Raises(w, t, date)
  BY <1>2, <1>4, <1>7 DEF Walk!Raises, quoted
<1>9. Walk!Market(Walk!Context(v, t, date)) = Walk!Market(Walk!Context(w, t, date))
  BY <1>2, <1>4, <1>5, <1>6, <1>7 DEF Walk!Context, Walk!Market, quoted
<1> QED
  BY <1>8, <1>9

\* There is a last year known, of a ticker that is scored.
LEMMA LastKnown ==
  ASSUME NEW w, NEW date, NEW t, IsWorld(w), ~Walk!Raises(w, t, date)
  PROVE  Walk!Max(Walk!KnownYears(w, date)) \in Walk!KnownYears(w, date)
<1> DEFINE known == Walk!KnownYears(w, date)
<1>1. known \in SUBSET (0..LastDay)
  BY DEF IsWorld, Walk!KnownYears
<1>2. known # {}
  <2>1. Walk!Cardinality({}) = 0
    BY FS_EmptySet DEF Walk!Cardinality, Cardinality
  <2>2. ~(Walk!Cardinality(known) < 2)
    BY DEF Walk!Raises
  <2> HIDE DEF known
  <2> QED
    BY <2>1, <2>2
<1> HIDE DEF known
<1>3. Walk!Max(known) \in known
  BY <1>1, <1>2, DaysAre, WalkLastIs
<1> QED
  BY <1>3 DEF known

\* With the same figures also the rest of the context is the same.
LEMMA SameContext ==
  ASSUME NEW v, NEW w, NEW date \in 1..LastDay, NEW t \in Tickers,
         IsWorld(w), OneMarket(v, w, t, date), OneFigures(v, w, date), ~Walk!Raises(w, t, date),
         w.yieldFrom # Missing, \E d \in w.trading : w.yieldFrom <= d /\ d <= date
  PROVE  Walk!Context(v, t, date) = Walk!Context(w, t, date)
<1> DEFINE known == Walk!KnownYears(w, date)
<1>1. Walk!Market(Walk!Context(v, t, date)) = Walk!Market(Walk!Context(w, t, date))
  BY SameMarket
<1>2. Walk!KnownYears(v, date) = known
  BY DEF Walk!KnownYears, OneMarket
<1>3. \A y \in known : v.figure[y] = w.figure[y]
  BY DEF Walk!KnownYears, OneFigures
<1>4. Walk!Max(known) \in known
  BY LastKnown
<1> HIDE DEF known
<1>5. v.figure[Walk!Max(known)] = w.figure[Walk!Max(known)]
  BY <1>3, <1>4
<1>6. [y \in known |-> v.figure[y]] = [y \in known |-> w.figure[y]]
  BY <1>3
<1>7. /\ Walk!PriceAt(v, t, date) = Walk!PriceAt(w, t, date)
      /\ Walk!TrailingBeta(v, t, date) = Walk!TrailingBeta(w, t, date)
      /\ Walk!UpTo(v.price[t], Walk!Quoted(v, t), date) = Walk!UpTo(w.price[t], Walk!Quoted(w, t), date)
      /\ Walk!RateAt(v, date) = Walk!RateAt(w, date)
      /\ Walk!UpTo(v.index, v.trading, date) = Walk!UpTo(w.index, w.trading, date)
  BY <1>1 DEF Walk!Market, Walk!Context
<1> QED
  BY <1>2, <1>5, <1>6, <1>7 DEF Walk!Context, known

\* Of closes that are twice the others, the context is that of the new shares.
LEMMA TwiceContext ==
  ASSUME NEW v, NEW w, NEW date \in 1..LastDay, NEW t \in Tickers,
         IsWorld(w), TwiceMarket(v, w, t, date), OneFigures(v, w, date),
         w.yieldFrom # Missing, \E d \in w.trading : w.yieldFrom <= d /\ d <= date
  PROVE  /\ Walk!Raises(v, t, date) = Walk!Raises(w, t, date)
         /\ ~Walk!Raises(w, t, date) =>
              Walk!Context(v, t, date) = Walk!OfNewShares(Walk!Context(w, t, date))
<1> DEFINE quoted == Walk!Quoted(w, t)
           known == Walk!KnownYears(w, date)
<1>1. w.trading \in SUBSET (1..LastDay) /\ \A d \in w.trading : w.price[t][d] \in Int
  <2>1. w.trading \in SUBSET (1..LastDay) /\ w.price \in [Tickers -> [1..LastDay -> Int]]
    BY DEF IsWorld
  <2>2. w.price[t] \in [1..LastDay -> Int]
    BY <2>1
  <2> QED
    BY <2>1, <2>2
<1>2. Walk!Quoted(v, t) = quoted /\ quoted \in SUBSET w.trading
  BY DEF Walk!Quoted, TwiceMarket
<1>3. \A d \in w.trading : d <= date =>
        v.price[t][d] = 2 * w.price[t][d] /\ v.index[d] = w.index[d]
  BY DEF TwiceMarket
<1>4. /\ Walk!RateAt(v, date) = Walk!RateAt(w, date)
      /\ Walk!UpTo(v.index, v.trading, date) = Walk!UpTo(w.index, w.trading, date)
      /\ Walk!KnownYears(v, date) = known
  BY SameRates DEF TwiceMarket
<1>5. \A y \in known : v.figure[y] = w.figure[y] /\ w.figure[y] \in Int
  BY DEF Walk!KnownYears, OneFigures, IsWorld
<1> HIDE DEF quoted, known
<1>6. ASSUME \E d \in quoted : d <= date
      PROVE  /\ Walk!PriceAt(w, t, date) \in Int /\ Walk!PriceAt(w, t, date) # Missing
             /\ Walk!PriceAt(v, t, date) = 2 * Walk!PriceAt(w, t, date)
             /\ Walk!PriceAt(v, t, date) # Missing
  <2>1. PICK d \in quoted : d <= date /\ \A any : Walk!OnOrBefore(quoted, any, date) = any[d]
    BY <1>1, <1>2, <1>6, PastDay
  <2>2. Walk!PriceAt(w, t, date) = w.price[t][d] /\ Walk!PriceAt(v, t, date) = v.price[t][d]
    BY <1>2, <2>1 DEF Walk!PriceAt, quoted
  <2>3. w.price[t][d] \in Int /\ v.price[t][d] = 2 * w.price[t][d]
    BY <1>1, <1>2, <1>3, <2>1
  <2> QED
    BY <2>2, <2>3, OutcomesAssumption
<1>7. ASSUME ~\E d \in quoted : d <= date
      PROVE  Walk!PriceAt(w, t, date) = Missing /\ Walk!PriceAt(v, t, date) = Missing
  BY <1>2, <1>7 DEF Walk!PriceAt, Walk!OnOrBefore, quoted
<1>8. Walk!Raises(v, t, date) = Walk!Raises(w, t, date)
  BY <1>2, <1>4, <1>6, <1>7 DEF Walk!Raises, quoted, known
<1>9. ASSUME ~Walk!Raises(w, t, date)
      PROVE  Walk!Context(v, t, date) = Walk!OfNewShares(Walk!Context(w, t, date))
  <2> DEFINE returns == {d \in quoted \cap w.trading : d <= date} \ {Walk!Min(quoted)}
             beta == Walk!TrailingBeta(w, t, date)
             history == Walk!UpTo(w.price[t], quoted, date)
             last == Walk!Max(known)
  <2>1. Walk!PriceAt(w, t, date) \in Int /\ Walk!PriceAt(v, t, date) = 2 * Walk!PriceAt(w, t, date)
    BY <1>6, <1>7, <1>9 DEF Walk!Raises
  <2>2. v.figure[last] = w.figure[last] /\ w.figure[last] \in Int
    BY <1>5, <1>9, LastKnown DEF known
  <2>3. Walk!PriceAt(v, t, date) * v.figure[last] = 2 * (Walk!PriceAt(w, t, date) * w.figure[last])
    <3> DEFINE price == Walk!PriceAt(w, t, date)
               figure == w.figure[last]
    <3>1. price \in Int /\ figure \in Int
      BY <2>1, <2>2
    <3> HIDE DEF price, figure
    <3>2. (2 * price) * figure = 2 * (price * figure)
      BY <3>1
    <3> QED
      BY <2>1, <2>2, <3>2 DEF price, figure
  <2>4. Walk!TrailingBeta(v, t, date) = [d \in DOMAIN beta |-> <<2 * beta[d][1], beta[d][2]>>]
    <3>1. v.trading = w.trading
      BY DEF TwiceMarket
    <3>2. Walk!TrailingBeta(v, t, date) =
            IF Walk!Cardinality(returns) < MinReturns THEN <<>>
            ELSE [d \in returns |-> <<v.price[t][d], v.index[d]>>]
      BY <1>2, <3>1 DEF Walk!TrailingBeta, quoted
    <3>3. beta = IF Walk!Cardinality(returns) < MinReturns THEN <<>>
                 ELSE [d \in returns |-> <<w.price[t][d], w.index[d]>>]
      BY DEF Walk!TrailingBeta, quoted
    <3>4. \A d \in returns : v.price[t][d] = 2 * w.price[t][d] /\ v.index[d] = w.index[d]
      BY <1>3
    <3> HIDE DEF returns, beta
    <3>5. CASE Walk!Cardinality(returns) < MinReturns
      <4>1. beta = <<>> /\ Walk!TrailingBeta(v, t, date) = <<>>
        BY <3>2, <3>3, <3>5
      <4>2. DOMAIN <<>> = {}
        OBVIOUS
      <4>3. <<>> = [d \in {} |-> <<2 * beta[d][1], beta[d][2]>>]
        OBVIOUS
      <4> QED
        BY <4>1, <4>2, <4>3
    <3>6. CASE ~(Walk!Cardinality(returns) < MinReturns)
      <4>1. /\ beta = [d \in returns |-> <<w.price[t][d], w.index[d]>>]
            /\ Walk!TrailingBeta(v, t, date) = [d \in returns |-> <<v.price[t][d], v.index[d]>>]
        BY <3>2, <3>3, <3>6
      <4>2. DOMAIN beta = returns
            /\ \A d \in returns : beta[d][1] = w.price[t][d] /\ beta[d][2] = w.index[d]
        BY <4>1
      <4>3. \A d \in returns : <<v.price[t][d], v.index[d]>> = <<2 * beta[d][1], beta[d][2]>>
        BY <3>4, <4>2
      <4> QED
        BY <4>1, <4>2, <4>3
    <3> QED
      BY <3>5, <3>6
  <2>5. Walk!UpTo(v.price[t], quoted, date) = [d \in DOMAIN history |-> 2 * history[d]]
    <3>1. \A x \in {d \in quoted : d <= date} : v.price[t][x] = 2 * w.price[t][x]
      BY <1>2, <1>3
    <3> QED
      BY <3>1 DEF Walk!UpTo
  <2>6. [y \in known |-> v.figure[y]] = [y \in known |-> w.figure[y]]
    BY <1>5
  <2> HIDE DEF beta, history, last
  <2>7. Walk!Context(v, t, date) =
          [figures |-> [y \in known |-> w.figure[y]], price |-> 2 * Walk!PriceAt(w, t, date),
           cap |-> 2 * (Walk!PriceAt(w, t, date) * w.figure[last]),
           beta |-> [d \in DOMAIN beta |-> <<2 * beta[d][1], beta[d][2]>>],
           history |-> [d \in DOMAIN history |-> 2 * history[d]], rate |-> Walk!RateAt(w, date),
           benchmark |-> Walk!UpTo(w.index, w.trading, date)]
    BY <1>2, <1>4, <2>1, <2>3, <2>4, <2>5, <2>6 DEF Walk!Context, last, quoted
  <2>8. Walk!Context(w, t, date) =
          [figures |-> [y \in known |-> w.figure[y]], price |-> Walk!PriceAt(w, t, date),
           cap |-> Walk!PriceAt(w, t, date) * w.figure[last], beta |-> beta,
           history |-> history, rate |-> Walk!RateAt(w, date),
           benchmark |-> Walk!UpTo(w.index, w.trading, date)]
    BY DEF Walk!Context, beta, history, last, known, quoted
  <2> QED
    BY <2>7, <2>8 DEF Walk!OfNewShares
<1> QED
  BY <1>8, <1>9

\* A world that differs in something that comes after a date agrees up to it.
LEMMA LaterAgree ==
  ASSUME NEW w, NEW date \in 1..LastDay, IsWorld(w), NEW v \in Walk!Later(w, date),
         \A y \in w.years : w.published[y] <= y + FilingLag
  PROVE  OneFigures(v, w, date) /\ \A t \in Tickers : OneMarket(v, w, t, date)
<1>1. w.trading \in SUBSET (1..LastDay)
  BY DEF IsWorld
<1>2. CASE \E t \in Tickers, d \in {x \in 1..LastDay : x > date} : v = [w EXCEPT !.price[t][d] = 3 - @]
  <2>1. PICK t \in Tickers, d \in {x \in 1..LastDay : x > date} : v = [w EXCEPT !.price[t][d] = 3 - @]
    BY <1>2
  <2>2. \A s \in Tickers, x \in 1..LastDay : x # d => v.price[s][x] = w.price[s][x]
    BY <2>1 DEF IsWorld
  <2>3. \A x \in w.trading : x <= date => x # d
    BY <1>1, <2>1
  <2> QED
    BY <1>1, <2>1, <2>2, <2>3 DEF OneMarket, OneFigures, IsWorld
<1>3. CASE \E d \in {x \in 1..LastDay : x > date} : v = [w EXCEPT !.index[d] = 3 - @]
  BY <1>1, <1>3 DEF OneMarket, OneFigures, IsWorld
<1>4. CASE \E d \in {x \in 1..LastDay : x > date} : v = [w EXCEPT !.yield[d] = 3 - @]
  BY <1>1, <1>4 DEF OneMarket, OneFigures, IsWorld
<1>5. CASE \E y \in {x \in w.years : w.published[x] > date} : v = [w EXCEPT !.figure[y] = 3 - @]
  <2>1. PICK y \in {x \in w.years : w.published[x] > date} : v = [w EXCEPT !.figure[y] = 3 - @]
    BY <1>5
  <2>2. \A x \in w.years : x \in Int /\ w.published[x] \in Int
    BY DEF IsWorld
  <2>3. \A x \in w.years : x + FilingLag <= date => x # y
    BY <2>1, <2>2, DaysAre
  <2>4. \A x \in w.years : x # y => v.figure[x] = w.figure[x]
    BY <2>1 DEF IsWorld
  <2> QED
    BY <2>1, <2>3, <2>4 DEF OneMarket, OneFigures, IsWorld
<1>6. CASE v = [w EXCEPT !.live = 3 - @]
  BY <1>6 DEF OneMarket, OneFigures, IsWorld
<1> QED
  BY <1>2, <1>3, <1>4, <1>5, <1>6 DEF Walk!Later, Walk!Days

\* A later split changes the closes of one ticker, all of those up to the date alike.
LEMMA AdjustedAgree ==
  ASSUME NEW w, NEW date \in 1..LastDay, IsWorld(w), NEW u \in Tickers,
         NEW v \in Walk!Adjusted(w, u, date), NEW t \in Tickers
  PROVE  /\ OneFigures(v, w, date)
         /\ IF u = t THEN TwiceMarket(v, w, t, date) ELSE OneMarket(v, w, t, date)
<1>1. PICK ex \in {x \in 1..LastDay : x > date} :
        v = [w EXCEPT !.price[u] =
               [d \in 1..LastDay |-> IF d < ex THEN 2 * w.price[u][d] ELSE w.price[u][d]]]
  BY DEF Walk!Adjusted, Walk!Days
<1>2. w.trading \in SUBSET (1..LastDay)
  BY DEF IsWorld
<1>3. \A d \in w.trading : d <= date => d < ex
  BY <1>1, <1>2
<1>4. /\ v.trading = w.trading /\ v.listed = w.listed /\ v.years = w.years
      /\ v.yieldFrom = w.yieldFrom /\ v.index = w.index /\ v.yield = w.yield
      /\ v.figure = w.figure /\ \A s \in Tickers : s # u => v.price[s] = w.price[s]
      /\ v.price[u] = [d \in 1..LastDay |-> IF d < ex THEN 2 * w.price[u][d] ELSE w.price[u][d]]
  BY <1>1 DEF IsWorld
<1>5. \A d \in w.trading : d <= date => v.price[u][d] = 2 * w.price[u][d]
  BY <1>2, <1>3, <1>4
<1> QED
  BY <1>4, <1>5 DEF OneMarket, TwiceMarket, OneFigures

\* A restatement changes no market.
LEMMA RestatedAgree ==
  ASSUME NEW w, NEW date, IsWorld(w), NEW v \in Walk!Restated(w, date), NEW t
  PROVE  OneMarket(v, w, t, date)
BY DEF Walk!Restated, OneMarket, IsWorld

\* The walk is of a fetched world, over the dates.
WalkHolds ==
  scene = "backtest" =>
    /\ IsWorld(world)
    /\ at \in 1..Len(Dates) /\ (phase = "hold" => at < Len(Dates))
    /\ phase \in {"trade", "hold", "done"}

LEMMA WalkInitHolds == MCInit => WalkHolds
BY BacktestAssumption DEF MCInit, ReportInit, WalkInit, Walk!Init, WalkHolds

LEMMA WalkNext == WalkHolds /\ [MCNext]_<<vars, walking, scene>> => WalkHolds'
<1> SUFFICES ASSUME WalkHolds, [MCNext]_<<vars, walking, scene>>, scene' = "backtest" PROVE WalkHolds'
  BY DEF WalkHolds
<1>1. Len(Dates) \in Nat
  BY BacktestAssumption
<1>2. scene = "backtest"
  BY DEF MCNext
<1>3. CASE Walk!Rebalance
  BY <1>1, <1>2, <1>3 DEF WalkHolds, Walk!Rebalance
<1>4. CASE Walk!Hold
  BY <1>1, <1>2, <1>4 DEF WalkHolds, Walk!Hold
<1>5. CASE UNCHANGED walking
  BY <1>2, <1>5 DEF WalkHolds, walking
<1> QED
  BY <1>2, <1>3, <1>4, <1>5 DEF MCNext, Reporting, Walking, Walk!Next

\* A recommendation of the backtest rests on what was known at its date: prices, the index,
\* yields and statements that come later change nothing of what it is computed from
\* (_score_ticker_at_date), whatever is fetched, as long as statements are made public on time
\* and yields reach back to the date; a later split changes its closes by one factor, and with
\* them the price and the market value, and a later restatement its figures, and nothing else.
THEOREM KnownThen == MCSpec => []NoLookAhead
<1>1. WalkHolds => NoLookAhead
  <2> DEFINE date == Dates[at]
  <2> SUFFICES ASSUME WalkHolds, scene = "backtest",
                      \A y \in world.years : world.published[y] <= y + FilingLag,
                      world.yieldFrom # Missing,
                      \E d \in world.trading : world.yieldFrom <= d /\ d <= date,
                      NEW t \in Tickers
               PROVE
                 /\ \A future \in Walk!Futures(world, date) :
                      Walk!Raises(future, t, date) = Walk!Raises(world, t, date)
                 /\ ~Walk!Raises(world, t, date) =>
                      LET context == Walk!Context(world, t, date)
                      IN  /\ \A future \in Walk!Later(world, date) :
                               Walk!Context(future, t, date) = context
                          /\ \A u \in Tickers : \A future \in Walk!Adjusted(world, u, date) :
                               Walk!Context(future, t, date) =
                                 IF u = t THEN Walk!OfNewShares(context) ELSE context
                          /\ \A future \in Walk!Restated(world, date) :
                               Walk!Market(Walk!Context(future, t, date)) = Walk!Market(context)
    BY DEF NoLookAhead, Walk!NoLookAhead
  <2>1. IsWorld(world) /\ date \in 1..LastDay
    BY BacktestAssumption DEF WalkHolds
  <2> HIDE DEF date
  <2>2. ASSUME NEW future \in Walk!Later(world, date)
        PROVE  /\ Walk!Raises(future, t, date) = Walk!Raises(world, t, date)
               /\ ~Walk!Raises(world, t, date) =>
                    Walk!Context(future, t, date) = Walk!Context(world, t, date)
    <3>1. OneFigures(future, world, date) /\ OneMarket(future, world, t, date)
      BY <2>1, LaterAgree
    <3> QED
      BY <2>1, <3>1, SameMarket, SameContext
  <2>3. ASSUME NEW u \in Tickers, NEW future \in Walk!Adjusted(world, u, date)
        PROVE  /\ Walk!Raises(future, t, date) = Walk!Raises(world, t, date)
               /\ ~Walk!Raises(world, t, date) =>
                    Walk!Context(future, t, date) =
                      IF u = t THEN Walk!OfNewShares(Walk!Context(world, t, date))
                      ELSE Walk!Context(world, t, date)
    <3>1. /\ OneFigures(future, world, date)
          /\ IF u = t THEN TwiceMarket(future, world, t, date) ELSE OneMarket(future, world, t, date)
      BY <2>1, AdjustedAgree
    <3>2. CASE u = t
      BY <2>1, <3>1, <3>2, TwiceContext
    <3>3. CASE u # t
      BY <2>1, <3>1, <3>3, SameMarket, SameContext
    <3> QED
      BY <3>2, <3>3
  <2>4. ASSUME NEW future \in Walk!Restated(world, date)
        PROVE  /\ Walk!Raises(future, t, date) = Walk!Raises(world, t, date)
               /\ Walk!Market(Walk!Context(future, t, date)) = Walk!Market(Walk!Context(world, t, date))
    <3>1. OneMarket(future, world, t, date)
      BY <2>1, RestatedAgree
    <3> QED
      BY <2>1, <3>1, SameMarket
  <2> QED
    BY <2>2, <2>3, <2>4 DEF Walk!Futures
<1> QED
  BY <1>1, WalkInitHolds, WalkNext, PTL DEF MCSpec

=============================================================================
