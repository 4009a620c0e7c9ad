---------------------------- MODULE MCValuation ----------------------------
(* Companies with at most two oddities: an item missing, zero or negative in a year or in *)
(* all of them, few years, a gap in the quote, an outcome out of the ordinary.            *)
EXTENDS Valuation, TLC

Out == {Missing, 0, -1}
Values ==
  [i \in Items |->
     CASE i = "capex" -> {Missing, 0, -2}
       [] i \in {"total_equity", "current_liabilities"} -> {Missing, 0, 3}
       [] i \in {"revenue", "ebit", "net_income", "pretax_income", "cash_from_operations"} -> Out
       [] i = "total_debt" -> {Missing, 0, 2}
       [] OTHER -> {Missing, 0}]
Usual(i) ==
  CASE i \in {"capex", "dividends_paid"} -> -1
    [] i = "cash_from_operations" -> 2 [] i = "total_assets" -> 3 [] OTHER -> 1

Ordinary == [count |-> 3, filings |-> FALSE, crypto |-> FALSE, us |-> TRUE, history |-> 6,
             price |-> 1, caps |-> {1}]
OrdinaryChoice == [base |-> 1, ev |-> 1, solid |-> TRUE, material |-> TRUE, upside |-> 0, versus |-> 0]

OfItems == UNION {{[item |-> i, value |-> v, years |-> ys] : v \in Values[i], ys \in {{1}, {2}, {3}, 1..3}}
                  : i \in Items}
OfQuote == {[count |-> n] : n \in 1..2} \cup {[history |-> h] : h \in {0, 1, 2, 4}}
             \cup {[filings |-> TRUE], [crypto |-> TRUE], [us |-> FALSE], [price |-> Missing],
                   [caps |-> {Missing}]}
OfChoice == {[base |-> -1], [ev |-> -1], [solid |-> FALSE], [material |-> FALSE]}
              \cup {[upside |-> u] : u \in {-900, 3000}} \cup {[versus |-> v] : v \in {-300, 300}}
Oddities == OfItems \cup OfQuote \cup OfChoice

\* A record with what the oddities say of its fields, and a company's statements.
With(odd, ordinary) ==
  [k \in DOMAIN ordinary |->
     LET said == {o \in odd : k \in DOMAIN o} IN IF said = {} THEN ordinary[k] ELSE (CHOOSE o \in said : TRUE)[k]]
Statements(odd, n) ==
  [i \in Items |-> [y \in 1..n |->
     LET said == {o \in odd : "item" \in DOMAIN o /\ o.item = i /\ y \in o.years}
     IN  IF said = {} THEN Usual(i) ELSE (CHOOSE o \in said : TRUE).value]]

Case(odd, ordinary) ==
  LET quote == With(odd, ordinary)
  IN  [company |-> quote @@ [raw |-> Statements(odd, quote.count)], choice |-> With(odd, OrdinaryChoice)]

Moving == Case({}, [Ordinary EXCEPT !.caps = {2, 3, 4}])
MCCases == {Case(odd, Ordinary) : odd \in {{}} \cup {{a, b} : a \in Oddities, b \in Oddities}} \cup {Moving}

-----------------------------------------------------------------------------
(* The other scene is the backtest, on two tickers: what could be fetched of statements and *)
(* yields, or how prices and the calendar go.                                               *)

CONSTANTS
  Tickers, LastDay, Dates, Worlds, StartingCapital, CostOneIn, TopN, FilingLag, MinReturns

IsWorld(w) ==
  LET days == 1..LastDay
  IN  /\ DOMAIN w = {"trading", "listed", "price", "index", "years", "published", "figure",
                     "yield", "yieldFrom", "live"}
      /\ w.trading \subseteq days /\ w.listed \in [Tickers -> Nat]
      /\ w.price \in [Tickers -> [days -> Int]] /\ w.index \in [days -> Int]
      /\ w.years \subseteq 0..LastDay
      /\ w.published \in [w.years -> Nat] /\ w.figure \in [w.years -> Int]
      /\ w.yield \in [days -> Int] /\ w.yieldFrom \in Nat \cup {Missing}

ASSUME BacktestAssumption ==
  /\ LastDay \in Nat /\ Dates \in Seq(1..LastDay) /\ Len(Dates) > 0
  /\ FilingLag \in Nat
  /\ \A w \in Worlds : IsWorld(w)

VARIABLES
  world, strategy, at, phase, value, held, curve, costs, account,
  scene

MCDates == <<2, 4, 6>>
MCLastDay == 7
Years == {0, 1, 3, 4}
Always(x) == [d \in 1..MCLastDay |-> x]
PlainWorld ==
  [trading |-> 1..MCLastDay, listed |-> <<1, 1>>, price |-> <<Always(1), Always(1)>>, index |-> Always(1),
   years |-> Years, published |-> [y \in Years |-> y + 1], figure |-> [y \in Years |-> 1],
   yield |-> Always(1), yieldFrom |-> 1, live |-> 2]

FetchedWorlds ==
  {[PlainWorld EXCEPT !.yieldFrom = from, !.listed = first, !.years = ys,
                      !.published = [y \in ys |-> y + lag], !.figure = [y \in ys |-> 1]] :
     from \in {1, 3, 5, Missing}, lag \in 0..2,
     first \in {<<1, 1>>, <<1, 3>>, <<1, MCLastDay + 1>>, <<MCLastDay + 1, MCLastDay + 1>>},
     ys \in {Years, {0}}}
MarketWorlds ==
  {[PlainWorld EXCEPT !.trading = @ \ off, !.price = <<first, second>>, !.listed = from] :
     off \in {{}, {4}}, from \in {<<1, 1>>, <<1, MCLastDay + 1>>},
     first \in {p \in [1..MCLastDay -> {1, 2}] : p[1] = 1 /\ p[MCLastDay] = 1},
     second \in {Always(1), [d \in 1..MCLastDay |-> IF d \in 3..5 THEN 2 ELSE 1]}}

MCWorlds == FetchedWorlds \cup MarketWorlds

Walk == INSTANCE Backtest

walking == <<world, strategy, at, phase, value, held, curve, costs, account>>

\* What belongs to the other scene is not looked at.
ReportInit ==
  /\ scene = "reports" /\ Init /\ (company = Moving.company \/ yield = 3)
  /\ world = Missing /\ strategy = "naive" /\ at = 1 /\ phase = "done"
  /\ value = 0 /\ held = <<>> /\ curve = <<>> /\ costs = 0 /\ account = Missing
WalkInit ==
  /\ scene = "backtest" /\ Walk!Init
  /\ company = Moving.company /\ choice = OrdinaryChoice /\ cap = 2 /\ yield = Missing
  /\ memory = Missing /\ cache = {} /\ tolerance = "Moderate"
  /\ stage = "idle" /\ valued = Missing /\ report = Missing /\ whatIf = Missing /\ reports = 0
MCInit == ReportInit \/ WalkInit

Reporting ==
  /\ scene = "reports"
  /\ \/ Ask("Moderate") /\ (reports = 0 \/ company = Moving.company)
     \/ Value \/ BuildReport \/ WhatIf
     \/ company = Moving.company /\ Next
  /\ UNCHANGED walking
Walking == scene = "backtest" /\ Walk!Next /\ UNCHANGED vars

MCNext == UNCHANGED scene /\ (Reporting \/ Walking)
MCSpec == MCInit /\ [][MCNext]_<<vars, walking, scene>>

-----------------------------------------------------------------------------
(* The properties of Backtest, of this instance *)

\* A recommendation of the backtest rests on what was known at its date.
NoLookAhead == scene = "backtest" => Walk!NoLookAhead

\* The equity curve is what an account trading to the same weights would have been worth.
AccountAddsUp == scene = "backtest" => Walk!AccountAddsUp

\* What comments of walkforward_backtest.py and phase2_backtest.py promise, and the code does
\* not keep.
BoundariesAreCounted == scene = "backtest" => Walk!BoundariesAreCounted
CashIsKept == scene = "backtest" => Walk!CashIsKept
FinalValueIsNet == scene = "backtest" => Walk!FinalValueIsNet
ComparedOverSamePeriods == scene = "backtest" => Walk!ComparedOverSamePeriods
NoLookAheadEver == scene = "backtest" => Walk!NoLookAheadEver
=============================================================================
