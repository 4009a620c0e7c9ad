------------------------------ MODULE Backtest ------------------------------
(***************************************************************************)
(* The walk-forward backtest (scripts/walkforward_backtest.py) on          *)
(* point-in-time recommendations (scripts/phase2_backtest.py): at each     *)
(* rebalance date every ticker is valued with what was known by then, a    *)
(* strategy turns the ratings into weights, and the portfolio is held to   *)
(* the next date at a cost for what was traded.                            *)
(*                                                                         *)
(* Weights are kept as the amounts of money they stand for, so that all    *)
(* arithmetic is of whole numbers.  Ratings and their ranking are a        *)
(* choice; what they rest on is compared instead.                          *)
(***************************************************************************)
EXTENDS Integers, Sequences, FiniteSetsExt

CONSTANTS
  Tickers,          \* those sampled from the universe
  LastDay,
  Dates,            \* the rebalance dates, as a sequence
  Worlds,           \* what is fetched, once: see below
  StartingCapital,
  CostOneIn,        \* TRANSACTION_COST_BPS, as the amount traded per unit of cost
  TopN,
  FilingLag,        \* FILING_LAG_DAYS
  MinReturns,       \* returns that a beta takes, at least
  Missing

Days == 1..LastDay
Strategies == {"top n", "rank tilt", "naive"}

\* A world is [trading, listed, price, index, years, published, figure, yield, yieldFrom, live]:
\* the trading days, the day each ticker is first listed, closing prices of each ticker, which
\* are fetched as adjusted for every split and dividend since, and of the index, fiscal years
\* by the day they end with the day they are made public and a figure, the Treasury yield by
\* day, the first day fetched of it or Missing, and the yield today.

VARIABLES
  world, strategy,
  at,               \* the next rebalance
  phase,            \* "trade", "hold", "done"
  value,            \* portfolio_value
  held,             \* previous_weights at that value, then the target's
  curve,            \* the equity curve of the period held last, by day
  costs,
  account           \* history: a broker's, [cash, shares], trading at the close of the date or before

vars == <<world, strategy, at, phase, value, held, curve, costs, account>>

-----------------------------------------------------------------------------
(* What is known at a date *)

\* _price_on_or_before, of some days that have prices
OnOrBefore(days, price, date) ==
  LET past == {d \in days : d <= date} IN IF past = {} THEN Missing ELSE price[Max(past)]

Quoted(w, t) == {d \in w.trading : d >= w.listed[t]}
PriceAt(w, t, date) == OnOrBefore(Quoted(w, t), w.price[t], date)

UpTo(series, days, date) == [d \in {x \in days : x <= date} |-> series[d]]

\* Variant: a year is known as soon as it ends.  A definition called a variant is deliberately
\* wrong: it belongs to no behaviour and shows which property such a bug breaks.
KnownWhenOver(w, date) == {y \in w.years : y <= date}

\* _point_in_time_statement
KnownYears(w, date) == {y \in w.years : y + FilingLag <= date}

\* _trailing_beta, by the returns it is computed from; of too few it is 1.2.
TrailingBeta(w, t, date) ==
  LET returns == {d \in Quoted(w, t) \cap w.trading : d <= date} \ {Min(Quoted(w, t))}
  IN  IF Cardinality(returns) < MinReturns THEN <<>>
      ELSE [d \in returns |-> <<w.price[t][d], w.index[d]>>]

\* risk_free_rate_override, else the rate of the day the backtest runs
RateAt(w, date) ==
  LET fetched == IF w.yieldFrom = Missing THEN {} ELSE {d \in w.trading : d >= w.yieldFrom}
      past == OnOrBefore(fetched, w.yield, date)
  IN  IF past = Missing THEN w.live ELSE past

\* _score_ticker_at_date has nothing to value the ticker by.
Raises(w, t, date) ==
  Quoted(w, t) = {} \/ PriceAt(w, t, date) = Missing \/ Cardinality(KnownYears(w, date)) < 2

\* The context that ValuationTool is run on otherwise
Context(w, t, date) ==
  LET known == KnownYears(w, date)
      price == PriceAt(w, t, date)
  IN  [figures |-> [y \in known |-> w.figure[y]], price |-> price,
       cap |-> price * w.figure[Max(known)], beta |-> TrailingBeta(w, t, date),
       history |-> UpTo(w.price[t], Quoted(w, t), date), rate |-> RateAt(w, date),
       benchmark |-> UpTo(w.index, w.trading, date)]

\* _score_universe_at_date
Scored(w, date) == {t \in Tickers : ~Raises(w, t, date)}

-----------------------------------------------------------------------------
(* Weights: of a ranking of the scored tickers, best first, and those rated Buy *)

TopNBuyWeights(ranking, buys) ==
  LET bought == SelectSeq(ranking, LAMBDA t : t \in buys)
      top == {bought[k] : k \in 1..(IF Len(bought) < TopN THEN Len(bought) ELSE TopN)}
  IN  [t \in top |-> <<1, Cardinality(top)>>]

UniformWeights(tickers) == [t \in tickers |-> <<1, Cardinality(tickers)>>]

RankTiltWeights(ranking) ==
  LET n == Len(ranking)
      rank(t) == n + 1 - (CHOOSE k \in 1..n : ranking[k] = t)
  IN  [t \in {ranking[k] : k \in 1..n} |-> <<rank(t), (n * (n + 1)) \div 2>>]

Weights(ranking, buys) ==
  CASE strategy = "top n" -> TopNBuyWeights(ranking, buys)
    [] strategy = "rank tilt" -> RankTiltWeights(ranking)
    [] strategy = "naive" -> UniformWeights(Tickers)

Amounts(weights, total) == [t \in DOMAIN weights |-> (weights[t][1] * total) \div weights[t][2]]
Sum(amounts) == MapThenSumSet(LAMBDA t : amounts[t], DOMAIN amounts)
Of(amounts, t) == IF t \in DOMAIN amounts THEN amounts[t] ELSE 0

\* turnover, of the whole value: half of all changes
Turnover(before, after) ==
  MapThenSumSet(LAMBDA t : LET change == Of(after, t) - Of(before, t)
                           IN  IF change < 0 THEN -change ELSE change,
                DOMAIN before \cup DOMAIN after) \div 2

-----------------------------------------------------------------------------
(* The period held: _equity_segment *)

Window(w, from, to) ==
  LET open == {d \in w.trading : from <= d /\ d <= to} IN IF open = {} THEN {from, to} ELSE open

Priced(w, t, window) == {d \in window : PriceAt(w, t, d) # Missing}

\* normalized_paths: from the first close of the window; a missing close counts as nothing.
Path(w, t, amount, window) ==
  [d \in window |->
     IF d \notin Priced(w, t, window) THEN 0
     ELSE (amount * PriceAt(w, t, d)) \div PriceAt(w, t, Min(Priced(w, t, window)))]

\* Variant: the weights at the end are those at the start.
EquitySegmentUndrifted(w, amounts, window, starting) ==
  LET covered == {t \in DOMAIN amounts : Priced(w, t, window) # {}}
      path == [t \in covered |-> Path(w, t, amounts[t], window)]
      rest == starting - Sum([t \in covered |-> amounts[t]])
  IN  [curve |-> [d \in window |-> rest + MapThenSumSet(LAMBDA t : path[t][d], covered)],
       drifted |-> [t \in covered |-> amounts[t]]]

EquitySegment(w, amounts, window, starting) ==
  LET covered == {t \in DOMAIN amounts : Priced(w, t, window) # {}}
      path == [t \in covered |-> Path(w, t, amounts[t], window)]
      rest == starting - Sum([t \in covered |-> amounts[t]])
  IN  [curve |-> [d \in window |-> rest + MapThenSumSet(LAMBDA t : path[t][d], covered)],
       drifted |-> [t \in covered |-> path[t][Max(window)]]]

\* _spy_buyhold: the ends of the periods of the index it is compared with
ComparatorBoundaries(w) ==
  LET dates == {Dates[k] : k \in 1..Len(Dates)} \cap w.trading
  IN  IF dates # {} THEN dates
      ELSE LET window == Window(w, Dates[1], Dates[Len(Dates)]) IN {Min(window), Max(window)}

-----------------------------------------------------------------------------
(* The broker's account *)

Position(t, date) ==
  LET price == PriceAt(world, t, date)
  IN  IF t \notin DOMAIN account.shares \/ price = Missing THEN 0 ELSE account.shares[t] * price
Worth(date) == account.cash + MapThenSumSet(LAMBDA t : Position(t, date), Tickers)

\* What it holds after trading to the weights, paying one in CostOneIn of what is traded.
Traded(weights, date) ==
  LET before == [t \in Tickers |-> Position(t, date)]
      paid == Turnover(before, Amounts(weights, Worth(date))) \div CostOneIn
      targets == Amounts(weights, Worth(date) - paid)
      bought == {t \in DOMAIN weights : PriceAt(world, t, date) # Missing}
  IN  [cash |-> Worth(date) - paid - Sum([t \in bought |-> targets[t]]),
       shares |-> [t \in bought |-> targets[t] \div PriceAt(world, t, date)]]

-----------------------------------------------------------------------------
(* _run_strategy *)

Init ==
  /\ world \in Worlds /\ strategy \in Strategies
  /\ at = 1 /\ phase = "trade"
  /\ value = StartingCapital /\ held = <<>> /\ curve = <<>> /\ costs = 0
  /\ account = [cash |-> StartingCapital, shares |-> <<>>]

Rankings(S) == {s \in [1..Cardinality(S) -> S] : \A j, k \in DOMAIN s : s[j] = s[k] => j = k}

Rebalance ==
  /\ phase = "trade"
  /\ \E ranking \in Rankings(Scored(world, Dates[at])), buys \in SUBSET Scored(world, Dates[at]) :
       LET weights == Weights(ranking, buys)
           cost == Turnover(held, Amounts(weights, value)) \div CostOneIn
       IN  /\ value' = value - cost /\ costs' = costs + cost
           /\ held' = Amounts(weights, value - cost)
           /\ account' = Traded(weights, Dates[at])
  /\ phase' = IF at < Len(Dates) THEN "hold" ELSE "done"
  /\ UNCHANGED <<world, strategy, at, curve>>

Hold ==
  /\ phase = "hold"
  /\ LET window == Window(world, Dates[at], Dates[at + 1])
         segment == EquitySegment(world, held, window, value)
     IN  /\ curve' = segment.curve /\ held' = segment.drifted
         /\ value' = segment.curve[Max(window)]
  /\ at' = at + 1 /\ phase' = "trade"
  /\ UNCHANGED <<world, strategy, costs, account>>

Next == Rebalance \/ Hold

-----------------------------------------------------------------------------
(* Properties *)

\* The worlds that differ from this one in something that comes after a date.
Later(w, date) ==
  {[w EXCEPT !.price[t][d] = 3 - @] : t \in Tickers, d \in {x \in Days : x > date}}
    \cup {[w EXCEPT !.index[d] = 3 - @] : d \in {x \in Days : x > date}}
    \cup {[w EXCEPT !.yield[d] = 3 - @] : d \in {x \in Days : x > date}}
    \cup {[w EXCEPT !.figure[y] = 3 - @] : y \in {x \in w.years : w.published[x] > date}}
    \cup {[w EXCEPT !.live = 3 - @]}

\* Two shares are made one after the date: the closes fetched of all days before are of the
\* new shares.  A dividend lowers them in the same way.
Adjusted(w, t, date) ==
  {[w EXCEPT !.price[t] = [d \in Days |-> IF d < ex THEN 2 * w.price[t][d] ELSE w.price[t][d]]] :
     ex \in {x \in Days : x > date}}

\* A statement that was public is restated after the date.
Restated(w, date) == {[w EXCEPT !.figure[y] = 3 - @] : y \in {x \in w.years : w.published[x] <= date}}

Futures(w, date) ==
  Later(w, date) \cup (UNION {Adjusted(w, t, date) : t \in Tickers}) \cup Restated(w, date)

\* The same context, with closes of the new shares; a beta takes only ratios of closes.
OfNewShares(c) ==
  [figures |-> c.figures, price |-> 2 * c.price, cap |-> 2 * c.cap,
   beta |-> [d \in DOMAIN c.beta |-> <<2 * c.beta[d][1], c.beta[d][2]>>],
   history |-> [d \in DOMAIN c.history |-> 2 * c.history[d]], rate |-> c.rate,
   benchmark |-> c.benchmark]

\* The context, but for the figures and what is computed from them
Market(c) == <<DOMAIN c.figures, c.price, c.beta, c.history, c.rate, c.benchmark>>

\* What a recommendation rests on was known at its date: had prices, the index, the Treasury
\* yield or a statement made public turned out differently later, it would be the same.  As
\* long as statements are made public on time and Treasury yields reach back to the date.
\* A later split changes its closes by one factor, and so the price and the market value, and
\* nothing else; a later restatement changes its figures and the market value only.
NoLookAhead ==
  LET date == Dates[at]
  IN  /\ phase = "trade"
      /\ \A y \in world.years : world.published[y] <= y + FilingLag
      /\ world.yieldFrom # Missing /\ \E d \in world.trading : world.yieldFrom <= d /\ d <= date
      => \A t \in Tickers :
           /\ \A future \in Futures(world, date) : Raises(future, t, date) = Raises(world, t, date)
           /\ ~Raises(world, t, date) =>
                LET context == Context(world, t, date)
                IN  /\ \A future \in Later(world, date) : Context(future, t, date) = context
                    /\ \A u \in Tickers : \A future \in Adjusted(world, u, date) :
                         Context(future, t, date) = IF u = t THEN OfNewShares(context) ELSE context
                    /\ \A future \in Restated(world, date) :
                         Market(Context(future, t, date)) = Market(context)

\* The close at a date is also the first close after it, for all that is ever traded.
Unbroken(date) ==
  LET later == {d \in world.trading : d >= date}
  IN  later # {} => \A t \in Tickers : PriceAt(world, t, date) = PriceAt(world, t, Min(later))

\* The equity curve is what an account would have been worth that bought and sold to the same
\* weights, held the shares, and paid for what it traded: turnover is measured against what
\* the shares held have become, and money not invested stays.  As long as prices do not move
\* between a date without trading and the next day with, and no ticker is first listed within.
AccountAddsUp ==
  (\A k \in 1..Len(Dates) : Unbroken(Dates[k]))
    /\ (\A t \in Tickers : world.listed[t] <= Dates[1] \/ world.listed[t] > Dates[Len(Dates)])
    => /\ phase = "trade" => \A d \in DOMAIN curve : curve[d] = Worth(d)
       /\ phase # "trade" => value = Worth(Dates[at])

-----------------------------------------------------------------------------
(* What the code does not have: stated by a comment, and refuted by hand *)
(* in valuation.cfg.                                                     *)

\* "avoid double-counting the shared boundary date": the same of all dates.  A date without
\* trading is not shared: the period before ends on the last day with, the one after starts
\* at the first close after the date, and what happens in between belongs to neither.
BoundariesAreCounted ==
  (\A t \in Tickers : world.listed[t] <= Dates[1]) /\ phase = "trade" =>
    \A d \in DOMAIN curve : curve[d] = Worth(d)

\* "sits in cash for the remainder, not silently vanishing from the portfolio's value": the
\* same of all tickers.  What is put into one that is first listed within the period counts
\* as nothing until then.
CashIsKept ==
  world.trading = Days /\ phase = "trade" => \A d \in DOMAIN curve : curve[d] = Worth(d)

\* The final value is after all costs.
FinalValueIsNet == phase = "done" => curve[Max(DOMAIN curve)] = value

\* "hit_rate", "periods_per_year=4": the index is compared over the same periods.
ComparedOverSamePeriods == Cardinality(ComparatorBoundaries(world)) = Len(Dates)

\* "a look-ahead leak this script otherwise goes out of its way to avoid": without conditions.
NoLookAheadEver ==
  LET date == Dates[at]
  IN  phase = "trade" =>
        \A t \in Scored(world, date), future \in Futures(world, date) :
          Context(future, t, date) = Context(world, t, date)
=============================================================================
