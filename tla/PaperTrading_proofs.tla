------------------------- MODULE PaperTrading_proofs -------------------------
EXTENDS MCPaperTrading, FiniteSetTheorems, WellFoundedInduction, TLAPS

(***************************************************************************)
(* Type correctness.  The strengthening: which steps a handler and a sweep *)
(* can be at, that a handler acts for a proposal or for nobody, and that a *)
(* sweep that fires has an alert.                                          *)
(***************************************************************************)

Steps ==
  /\ \A h \in Handlers : /\ pc[h] \in HandlerSteps \cup OrderSteps
                         /\ cause[h] \in Proposals \cup {Nobody}
                         /\ pc[h] = "reply" => cause[h] \in Proposals
  /\ \A s \in Sweeps : /\ pc[s] \in SweepSteps \cup OrderSteps
                       /\ pc[s] \in Firing => cause[s] \in Alerts

LEMMA ConstantsTyped ==
  /\ NoLeg \in Leg
  /\ NoAlert \in AlertRow
  /\ Nobody \notin Actors \cup Proposals \cup Alerts
  /\ Actors = Handlers \cup Sweeps
  /\ Handlers \cap Sweeps = {}
  /\ Proposals \cap Alerts = {}
  /\ MaxLot \in Nat \ {0}
  /\ MaxAsked \in Nat /\ MaxFaults \in Nat /\ MaxCrashes \in Nat /\ MaxMoves \in Nat
BY TickersAssumption, ActorsAssumption, BoundsAssumption
DEF NoLeg, NoAlert, Leg, AlertRow, Sides, Actors

AllSteps == HandlerSteps \cup SweepSteps \cup OrderSteps
Causes == Proposals \cup Alerts \cup {Nobody}

LEMMA TypeInit == Init => TypeOK /\ Steps
BY ConstantsTyped
DEF Init, TypeOK, Steps, HandlerSteps, SweepSteps, OrderSteps, Firing

\* An actor goes on to another step of its request.
LEMMA GoesTo ==
  ASSUME TypeOK, NEW x \in Actors, NEW step \in AllSteps, GoTo(x, step)
  PROVE  /\ pc' \in [Actors -> AllSteps]
         /\ \A y \in Actors : pc'[y] = (IF y = x THEN step ELSE pc[y])
BY DEF TypeOK, GoTo, AllSteps

\* An actor's request ends.
LEMMA ReturnsTyped ==
  ASSUME TypeOK, NEW x \in Actors, Returns(x)
  PROVE  /\ pc' \in [Actors -> AllSteps]
         /\ legs' \in [Actors -> SUBSET Leg]
         /\ leg' \in [Actors -> Leg]
         /\ read' \in [Actors -> Nat]
         /\ cause' \in [Actors -> Causes]
         /\ \A y \in Actors : pc'[y] = (IF y = x THEN "idle" ELSE pc[y])
         /\ \A y \in Actors : cause'[y] = (IF y = x THEN Nobody ELSE cause[y])
BY ConstantsTyped DEF TypeOK, Returns, HandlerSteps, AllSteps, Causes

\* What may be proposed is well typed.
LEMMA OffersTyped ==
  ASSUME TypeOK, NEW S \in Offers PROVE S \subseteq Leg
<1>1. \A T \in SUBSET Tickers : \A q \in [T -> Nat] :
        Sales(q) \subseteq Leg /\ Purchases(q) \subseteq Leg
  BY DEF Sales, Purchases, Leg, Sides
<1>2. \A t \in Tickers : holdings[t] \in Nat
  BY DEF TypeOK
<1>3. ASSUME NEW T \in SUBSET {t \in Tickers : holdings[t] > 0}
      PROVE  Sales([t \in T |-> holdings[t]]) \subseteq Leg
  BY <1>1, <1>2
<1>4. ASSUME NEW u \in Tickers, NEW n \in 1..holdings[u]
      PROVE  Sales([t \in {u} |-> n]) \subseteq Leg
  <2>1. [t \in {u} |-> n] \in [{u} -> Nat]
    BY <1>2
  <2> QED
    BY <1>1, <2>1
<1>5. ASSUME NEW T \in SUBSET Tickers, NEW q \in [T -> 0..MaxLot]
      PROVE  Purchases(q) \subseteq Leg
  <2>1. q \in [T -> Nat]
    BY ConstantsTyped
  <2> QED
    BY <1>1, <2>1
<1>6. CASE S \in BatchSales
  BY <1>3, <1>6 DEF BatchSales, Held
<1>7. CASE S \in PartSales
  <2>1. PICK u \in Held : S \in {Sales([t \in {u} |-> n]) : n \in 1..holdings[u]}
    BY <1>7 DEF PartSales
  <2> QED
    BY <1>4, <2>1 DEF Held
<1>8. CASE S \in BuyOffers
  <2>1. PICK T \in SUBSET Tickers : S \in {Purchases(q) : q \in [T -> 0..MaxLot]}
    BY <1>8 DEF BuyOffers
  <2> QED
    BY <1>5, <2>1
<1> QED
  BY <1>6, <1>7, <1>8 DEF Offers

LEMMA LegsTyped ==
  ASSUME TypeOK, NEW x \in Actors, NEW L \in SUBSET Leg, legs' = [legs EXCEPT ![x] = L]
  PROVE  legs' \in [Actors -> SUBSET Leg]
BY DEF TypeOK

LEMMA NextLegTyped ==
  ASSUME TypeOK, NEW x \in Actors, NextLeg(x)
  PROVE  /\ pc' \in [Actors -> AllSteps]
         /\ legs' \in [Actors -> SUBSET Leg]
         /\ leg' \in [Actors -> Leg]
         /\ read' \in [Actors -> Nat]
         /\ cause' \in [Actors -> Causes]
         /\ lock' = Nobody
<1>1. CASE legs[x] # {leg[x]}
  <2>1. legs' = [legs EXCEPT ![x] = legs[x] \ {leg[x]}] /\ legs[x] \ {leg[x]} \in SUBSET Leg
    BY <1>1 DEF NextLeg, TypeOK
  <2>2. legs' \in [Actors -> SUBSET Leg]
    BY <2>1, LegsTyped
  <2>3. pc' \in [Actors -> AllSteps]
    BY <1>1, GoesTo DEF NextLeg, AllSteps, OrderSteps
  <2> QED
    BY <1>1, <2>2, <2>3 DEF NextLeg, TypeOK, Causes
<1>2. CASE legs[x] = {leg[x]} /\ x \in Handlers
  BY <1>2, ReturnsTyped DEF NextLeg
<1>3. CASE legs[x] = {leg[x]} /\ x \notin Handlers
  BY <1>3 DEF NextLeg, GoTo, TypeOK, AllSteps, SweepSteps, Causes
<1> QED
  BY <1>1, <1>2, <1>3

LEMMA TypeNext == TypeOK /\ Steps /\ [Next]_vars => TypeOK'
<1> SUFFICES ASSUME TypeOK, Steps, [Next]_vars PROVE TypeOK'
  OBVIOUS
<1> USE ConstantsTyped
    DEF TypeOK, Steps, HandlerSteps, SweepSteps, OrderSteps, Firing, AllSteps, Causes,
        vars, tables, locals, history, env
<1>1. ASSUME NEW h \in Handlers, Peek(h) PROVE TypeOK'
  BY <1>1 DEF Peek, GoTo
<1>2. ASSUME NEW h \in Handlers, PopYes(h) PROVE TypeOK'
  <2>1. CASE pending = Nobody
    BY <1>2, <2>1, ReturnsTyped DEF PopYes
  <2>2. CASE pending # Nobody
    <3>1. legs' \in [Actors -> SUBSET Leg]
      BY <1>2, <2>2, LegsTyped DEF PopYes
    <3>2. pc' \in [Actors -> AllSteps]
      BY <1>2, <2>2, GoesTo DEF PopYes
    <3>3. cause' \in [Actors -> Causes]
      BY <1>2, <2>2 DEF PopYes
    <3> QED
      BY <1>2, <2>2, <3>1, <3>2, <3>3 DEF PopYes
  <2> QED
    BY <2>1, <2>2
<1>3. ASSUME NEW h \in Handlers, PopDrop(h) PROVE TypeOK'
  <2>1. /\ pc' \in [Actors -> AllSteps] /\ legs' \in [Actors -> SUBSET Leg]
        /\ leg' \in [Actors -> Leg] /\ read' \in [Actors -> Nat]
        /\ cause' \in [Actors -> Causes]
    <3>1. CASE pc[h] = "pop_no"
      BY <1>3, <3>1, ReturnsTyped DEF PopDrop
    <3>2. CASE pc[h] # "pop_no"
      BY <1>3, <3>2, GoesTo DEF PopDrop
    <3> QED
      BY <3>1, <3>2
  <2>2. dropped' \subseteq Proposals
    BY <1>3 DEF PopDrop
  <2> QED
    BY <1>3, <2>1, <2>2 DEF PopDrop
<1>4. ASSUME NEW h \in Handlers, NEW p \in Proposals, Propose(h, p) PROVE TypeOK'
  BY <1>4, OffersTyped DEF Propose, Asks, GoTo
<1>5. ASSUME NEW h \in Handlers, Reply(h) PROVE TypeOK'
  BY <1>5, ReturnsTyped DEF Reply
<1>6. ASSUME NEW h \in Handlers, RouteElsewhere(h) PROVE TypeOK'
  BY <1>6, ReturnsTyped DEF RouteElsewhere
<1>7. ASSUME NEW h \in Handlers, ChatFails(h) PROVE TypeOK'
  BY <1>7, ReturnsTyped DEF ChatFails, Fault
<1>8. ASSUME NEW h \in Handlers, NEW a \in Alerts, CreateAlert(h, a) PROVE TypeOK'
  BY <1>8, ReturnsTyped DEF CreateAlert
<1>9. ASSUME NEW h \in Handlers, PlaceOrder(h) PROVE TypeOK'
  <2>1. \A t \in Tickers, side \in Sides, n \in 1..MaxLot :
          {[ticker |-> t, side |-> side, qty |-> n]} \in SUBSET Leg
    BY DEF Leg
  <2>2. legs' \in [Actors -> SUBSET Leg]
    BY <1>9, <2>1 DEF PlaceOrder
  <2>3. pc' \in [Actors -> AllSteps]
    BY <1>9, GoesTo DEF PlaceOrder
  <2> QED
    BY <1>9, <2>2, <2>3 DEF PlaceOrder, Asks
<1>10. ASSUME NEW x \in Actors, Begin(x) PROVE TypeOK'
  BY <1>10 DEF Begin, GoTo
<1>11. ASSUME NEW x \in Actors, ReadHolding(x) PROVE TypeOK'
  <2>1. holdings[leg[x].ticker] \in Nat
    BY DEF Leg
  <2>2. read' \in [Actors -> Nat]
    BY <1>11, <2>1 DEF ReadHolding
  <2>3. pc' \in [Actors -> AllSteps]
    BY <1>11, GoesTo DEF ReadHolding
  <2> QED
    BY <1>11, <2>2, <2>3 DEF ReadHolding
<1>12. ASSUME NEW x \in Actors, CommitOrder(x) PROVE TypeOK'
  <2> DEFINE t == leg[x].ticker
             n == read[x] + Signed(leg[x])
  <2>1. t \in Tickers /\ n \in Nat /\ Signed(leg[x]) \in Int
    BY <1>12 DEF CommitOrder, Signed, Leg, Sides
  <2>2. holdings' \in [Tickers -> Nat] /\ ledger' \in [Tickers -> Int]
    BY <1>12, <2>1 DEF CommitOrder, Fill
  <2>3. fills' \in [Proposals -> [Tickers -> Nat]]
    <3>1. \A p \in Proposals : [fills[p] EXCEPT ![t] = fills[p][t] + 1] \in [Tickers -> Nat]
      BY <2>1
    <3> QED
      BY <1>12, <3>1 DEF CommitOrder, Fill
  <2>4. alertFills' \in [Alerts -> Nat]
    BY <1>12 DEF CommitOrder, Fill
  <2> QED
    BY <1>12, <2>2, <2>3, <2>4, NextLegTyped DEF CommitOrder
<1>13. ASSUME NEW x \in Actors, RejectOrder(x) PROVE TypeOK'
  BY <1>13, NextLegTyped DEF RejectOrder
<1>14. ASSUME NEW x \in Actors, DividesByZero(x) PROVE TypeOK'
  <2>1. CASE x \in Handlers
    BY <1>14, <2>1, ReturnsTyped DEF DividesByZero, Abort
  <2>2. CASE x \notin Handlers
    BY <1>14, <2>2, GoesTo DEF DividesByZero, Abort
  <2> QED
    BY <2>1, <2>2
<1>15. ASSUME NEW x \in Actors, OrderFails(x) PROVE TypeOK'
  <2>1. CASE x \in Handlers
    BY <1>15, <2>1, ReturnsTyped DEF OrderFails, Fault, Abort
  <2>2. CASE x \notin Handlers
    BY <1>15, <2>2, GoesTo DEF OrderFails, Fault, Abort
  <2> QED
    BY <2>1, <2>2
<1>16. ASSUME NEW s \in Sweeps, SweepStart(s) PROVE TypeOK'
  BY <1>16 DEF SweepStart, GoTo, Active
<1>17. ASSUME NEW s \in Sweeps, SweepEnd(s) PROVE TypeOK'
  BY <1>17, ReturnsTyped DEF SweepEnd
<1>18. ASSUME NEW s \in Sweeps, NEW a \in Alerts, SweepSkip(s, a) PROVE TypeOK'
  BY <1>18 DEF SweepSkip
<1>19. ASSUME NEW s \in Sweeps, NEW a \in Alerts, SweepClaim(s, a) PROVE TypeOK'
  <2>1. CASE alertState[a] = "active"
    <3>1. pc' \in [Actors -> AllSteps]
      BY <1>19, <2>1, GoesTo DEF SweepClaim, Fires
    <3>3. cause' = [cause EXCEPT ![s] = a]
      BY <1>19, <2>1 DEF SweepClaim, Fires
    <3>4. cause' \in [Actors -> Causes]
      BY <3>3
    <3>2. todo' \in [Sweeps -> SUBSET Alerts]
      BY <1>19 DEF SweepClaim
    <3>5. alertState' \in [Alerts -> {"unset", "active", "claimed"}]
      BY <1>19, <2>1 DEF SweepClaim
    <3>6. UNCHANGED <<holdings, pending, alert, lock, legsOf, legs, leg, read, history, env>>
      BY <1>19 DEF SweepClaim
    <3> QED
      BY <3>1, <3>2, <3>4, <3>5, <3>6
  <2>2. CASE alertState[a] # "active"
    BY <1>19, <2>2 DEF SweepClaim
  <2> QED
    BY <2>1, <2>2
<1>20. ASSUME NEW s \in Sweeps, NEW a \in Alerts, QuoteFails(s, a) PROVE TypeOK'
  BY <1>20 DEF QuoteFails, Fault
<1>21. ASSUME NEW s \in Sweeps, ClaimFails(s) PROVE TypeOK'
  BY <1>21, ReturnsTyped DEF ClaimFails, Fault
<1>22. ASSUME NEW s \in Sweeps, SizeOrder(s) PROVE TypeOK'
  <2> DEFINE row == alert[cause[s]]
             order(n) == {[ticker |-> row.ticker, side |-> row.side, qty |-> n]}
  <2>1. row \in AlertRow
    BY <1>22 DEF SizeOrder
  <2>2. legs' = legs \/ \E n \in Nat : legs' = [legs EXCEPT ![s] = order(n)]
    BY <1>22, <2>1 DEF SizeOrder, AlertRow
  <2>3. \A n \in Nat : order(n) \in SUBSET Leg
    BY <2>1 DEF AlertRow, Leg
  <2> HIDE DEF order
  <2>4. legs' \in [Actors -> SUBSET Leg]
    <3>1. CASE legs' = legs
      BY <3>1
    <3>2. CASE legs' # legs
      <4>1. PICK n \in Nat : legs' = [legs EXCEPT ![s] = order(n)]
        BY <2>2, <3>2
      <4> QED
        BY <2>3, <4>1, LegsTyped
    <3> QED
      BY <3>1, <3>2
  <2>5. pc' \in [Actors -> AllSteps]
    BY <1>22, GoesTo DEF SizeOrder
  <2> QED
    BY <1>22, <2>4, <2>5 DEF SizeOrder
<1>23. ASSUME NEW s \in Sweeps, NotifyUser(s) PROVE TypeOK'
  BY <1>23 DEF NotifyUser, GoTo
<1>24. ASSUME NEW s \in Sweeps, NotifyFails(s) PROVE TypeOK'
  BY <1>24 DEF NotifyFails, Fault, GoTo
<1>25. ASSUME NEW s \in Sweeps, Unclaim(s) PROVE TypeOK'
  BY <1>25 DEF Unclaim, GoTo
<1>26. ASSUME NEW s \in Sweeps, UnclaimFails(s) PROVE TypeOK'
  BY <1>26, ReturnsTyped DEF UnclaimFails, Fault
<1>27. ASSUME NEW t \in Tickers, EditHolding(t) PROVE TypeOK'
  BY <1>27 DEF EditHolding, Asks
<1>28. ASSUME NEW t \in Tickers, PriceMoves(t) PROVE TypeOK'
  BY <1>28 DEF PriceMoves
<1>29. CASE Crash
  BY <1>29 DEF Crash
<1>30. CASE UNCHANGED vars
  BY <1>30
<1>31. ASSUME NEW h \in Handlers, CheckNotHeld(h) PROVE TypeOK'
  <2>1. \A t \in Tickers, n \in 1..MaxLot : [ticker |-> t, side |-> "BUY", qty |-> n] \in Leg
    BY DEF Leg, Sides
  <2>2. leg' \in [Actors -> Leg]
    BY <1>31, <2>1 DEF CheckNotHeld
  <2>3. pc' \in [Actors -> AllSteps]
    BY <1>31, GoesTo DEF CheckNotHeld
  <2> QED
    BY <1>31, <2>2, <2>3 DEF CheckNotHeld, Asks
<1>32. ASSUME NEW h \in Handlers, AddHolding(h) PROVE TypeOK'
  <2>1. leg[h].ticker \in Tickers /\ leg[h].qty \in Nat
    BY DEF Leg
  <2>2. holdings' \in [Tickers -> Nat] /\ ledger' \in [Tickers -> Int]
    BY <1>32, <2>1 DEF AddHolding
  <2> QED
    BY <1>32, <2>2, ReturnsTyped DEF AddHolding
<1> QED
  BY <1>1, <1>2, <1>3, <1>4, <1>5, <1>6, <1>7, <1>8, <1>9, <1>10, <1>11,
     <1>12, <1>13, <1>14, <1>15, <1>16, <1>17, <1>18, <1>19, <1>20, <1>21,
     <1>22, <1>23, <1>24, <1>25, <1>26, <1>27, <1>28, <1>29, <1>30,
     <1>31, <1>32
  DEF Next, ChatStep, OrderStep, SweepProgress, SweepFault
OthersSame(x) ==
  \A y \in Actors \ {x} : /\ pc'[y] = pc[y] /\ legs'[y] = legs[y] /\ leg'[y] = leg[y]
                          /\ read'[y] = read[y] /\ cause'[y] = cause[y]

\* An actor's request ends.
LEMMA ReturnsMoves ==
  ASSUME TypeOK, NEW x \in Actors, Returns(x)
  PROVE  /\ OthersSame(x)
         /\ pc'[x] = "idle" /\ legs'[x] = {} /\ cause'[x] = Nobody
BY DEF TypeOK, Returns, OthersSame

\* A leg is done with: the next one begins, or the request goes on.
LEMMA NextLegMoves ==
  ASSUME TypeOK, NEW x \in Actors, NextLeg(x)
  PROVE  /\ OthersSame(x)
         /\ lock' = Nobody
         /\ legs'[x] = legs[x] \ {leg[x]}
         /\ pc'[x] \in {"begin", "idle", "notify"}
         /\ pc'[x] = "begin" => legs[x] # {leg[x]}
         /\ pc'[x] = "idle" => cause'[x] = Nobody /\ x \in Handlers
         /\ pc'[x] = "notify" => x \notin Handlers
         /\ pc'[x] # "idle" => cause'[x] = cause[x]
<1>1. CASE legs[x] # {leg[x]}
  BY <1>1 DEF NextLeg, GoTo, TypeOK, OthersSame
<1>2. CASE legs[x] = {leg[x]} /\ x \in Handlers
  BY <1>2, ReturnsMoves DEF NextLeg
<1>3. CASE legs[x] = {leg[x]} /\ x \notin Handlers
  BY <1>3 DEF NextLeg, GoTo, TypeOK, OthersSame
<1> QED
  BY <1>1, <1>2, <1>3

\* An order raises.
LEMMA AbortMoves ==
  ASSUME TypeOK, NEW x \in Actors, Abort(x)
  PROVE  /\ OthersSame(x)
         /\ lock' = IF lock = x THEN Nobody ELSE lock
         /\ \/ x \in Handlers /\ pc'[x] = "idle" /\ cause'[x] = Nobody
            \/ x \notin Handlers /\ pc'[x] = "unclaim" /\ cause'[x] = cause[x]
         /\ UNCHANGED <<holdings, pending, alertState, alert, legsOf, todo, ledger,
                        fills, alertFills, unnoticed, shown, dropped, handled, stranded>>
<1>1. CASE x \in Handlers
  BY <1>1, ReturnsMoves DEF Abort, tables, history
<1>2. CASE x \notin Handlers
  BY <1>2 DEF Abort, GoTo, TypeOK, OthersSame, tables, history
<1> QED
  BY <1>1, <1>2

\* One actor moves to a step it may be at.
LEMMA StepsMove ==
  ASSUME Steps, NEW x \in Actors, OthersSame(x),
         x \in Handlers => /\ pc'[x] \in HandlerSteps \cup OrderSteps
                           /\ cause'[x] \in Proposals \cup {Nobody}
                           /\ pc'[x] = "reply" => cause'[x] \in Proposals,
         x \in Sweeps => /\ pc'[x] \in SweepSteps \cup OrderSteps
                         /\ pc'[x] \in Firing => cause'[x] \in Alerts
  PROVE  Steps'
BY DEF Steps, OthersSame, Actors

LEMMA ReturnsSteps ==
  ASSUME TypeOK, Steps, NEW x \in Actors, Returns(x)
  PROVE  Steps'
<1>1. OthersSame(x) /\ pc'[x] = "idle" /\ cause'[x] = Nobody
  BY ReturnsMoves
<1> QED
  BY <1>1, StepsMove DEF HandlerSteps, SweepSteps, OrderSteps, Firing

LEMMA NextLegSteps ==
  ASSUME TypeOK, Steps, NEW x \in Actors, NextLeg(x), pc[x] = "write"
  PROVE  Steps'
<1>1. /\ OthersSame(x)
      /\ pc'[x] \in {"begin", "idle", "notify"}
      /\ pc'[x] = "idle" => cause'[x] = Nobody
      /\ pc'[x] = "notify" => x \notin Handlers
      /\ pc'[x] # "idle" => cause'[x] = cause[x]
  BY NextLegMoves
<1>2. x \in Handlers => cause[x] \in Proposals \cup {Nobody}
  BY DEF Steps
<1>3. x \in Sweeps => cause[x] \in Alerts
  BY DEF Steps, Firing, OrderSteps
<1> QED
  BY <1>1, <1>2, <1>3, StepsMove DEF HandlerSteps, SweepSteps, OrderSteps, Firing

LEMMA AbortSteps ==
  ASSUME TypeOK, Steps, NEW x \in Actors, Abort(x), pc[x] \in OrderSteps \cup {"size"}
  PROVE  Steps'
<1>1. /\ OthersSame(x)
      /\ \/ x \in Handlers /\ pc'[x] = "idle" /\ cause'[x] = Nobody
         \/ x \notin Handlers /\ pc'[x] = "unclaim" /\ cause'[x] = cause[x]
  BY AbortMoves
<1>2. x \in Sweeps => x \notin Handlers /\ cause[x] \in Alerts
  BY ConstantsTyped DEF Steps, Firing, OrderSteps
<1> QED
  BY <1>1, <1>2, StepsMove DEF HandlerSteps, SweepSteps, OrderSteps, Firing

LEMMA StepsNext == TypeOK /\ Steps /\ [Next]_vars => Steps'
<1> SUFFICES ASSUME TypeOK, Steps, [Next]_vars PROVE Steps'
  OBVIOUS
<1> USE ConstantsTyped
    DEF TypeOK, Steps, HandlerSteps, SweepSteps, OrderSteps, Firing, AllSteps, Causes,
        vars, tables, locals, history, env
<1>1. ASSUME NEW h \in Handlers, Peek(h) PROVE Steps'
  BY <1>1 DEF Peek, GoTo
<1>2. ASSUME NEW h \in Handlers, PopYes(h) PROVE Steps'
  <2>1. CASE pending = Nobody
    BY <1>2, <2>1, ReturnsSteps DEF PopYes
  <2>2. CASE pending # Nobody
    <3>1. OthersSame(h) /\ pc'[h] = "begin" /\ cause'[h] = pending
      BY <1>2, <2>2 DEF PopYes, GoTo, OthersSame
    <3> QED
      BY <2>2, <3>1, StepsMove
  <2> QED
    BY <2>1, <2>2
<1>3. ASSUME NEW h \in Handlers, PopDrop(h) PROVE Steps'
  <2>1. CASE pc[h] = "pop_no"
    BY <1>3, <2>1, ReturnsSteps DEF PopDrop
  <2>2. CASE pc[h] # "pop_no"
    <3>1. OthersSame(h) /\ pc'[h] = "route" /\ cause'[h] = cause[h]
      BY <1>3, <2>2 DEF PopDrop, GoTo, OthersSame
    <3> QED
      BY <3>1, StepsMove
  <2> QED
    BY <2>1, <2>2
<1>4. ASSUME NEW h \in Handlers, NEW p \in Proposals, Propose(h, p) PROVE Steps'
  BY <1>4, OffersTyped DEF Propose, Asks, GoTo
<1>5. ASSUME NEW h \in Handlers, Reply(h) PROVE Steps'
  BY <1>5, ReturnsSteps DEF Reply
<1>6. ASSUME NEW h \in Handlers, RouteElsewhere(h) PROVE Steps'
  BY <1>6, ReturnsSteps DEF RouteElsewhere
<1>7. ASSUME NEW h \in Handlers, ChatFails(h) PROVE Steps'
  BY <1>7, ReturnsSteps DEF ChatFails
<1>8. ASSUME NEW h \in Handlers, NEW a \in Alerts, CreateAlert(h, a) PROVE Steps'
  BY <1>8, ReturnsSteps DEF CreateAlert
<1>9. ASSUME NEW h \in Handlers, PlaceOrder(h) PROVE Steps'
  BY <1>9 DEF PlaceOrder, Asks, GoTo
<1>10. ASSUME NEW x \in Actors, Begin(x) PROVE Steps'
  BY <1>10 DEF Begin, GoTo
<1>11. ASSUME NEW x \in Actors, ReadHolding(x) PROVE Steps'
  BY <1>11 DEF ReadHolding, GoTo
<1>12. ASSUME NEW x \in Actors, CommitOrder(x) PROVE Steps'
  BY <1>12, NextLegSteps DEF CommitOrder
<1>13. ASSUME NEW x \in Actors, RejectOrder(x) PROVE Steps'
  BY <1>13, NextLegSteps DEF RejectOrder
<1>14. ASSUME NEW x \in Actors, DividesByZero(x) PROVE Steps'
  BY <1>14, AbortSteps DEF DividesByZero
<1>15. ASSUME NEW x \in Actors, OrderFails(x) PROVE Steps'
  BY <1>15, AbortSteps DEF OrderFails
<1>16. ASSUME NEW s \in Sweeps, SweepStart(s) PROVE Steps'
  BY <1>16 DEF SweepStart, GoTo, Active
<1>17. ASSUME NEW s \in Sweeps, SweepEnd(s) PROVE Steps'
  BY <1>17, ReturnsSteps DEF SweepEnd
<1>18. ASSUME NEW s \in Sweeps, NEW a \in Alerts, SweepSkip(s, a) PROVE Steps'
  BY <1>18 DEF SweepSkip
<1>19. ASSUME NEW s \in Sweeps, NEW a \in Alerts, SweepClaim(s, a) PROVE Steps'
  BY <1>19 DEF SweepClaim, Fires, GoTo
<1>20. ASSUME NEW s \in Sweeps, NEW a \in Alerts, QuoteFails(s, a) PROVE Steps'
  BY <1>20 DEF QuoteFails, Fault
<1>21. ASSUME NEW s \in Sweeps, ClaimFails(s) PROVE Steps'
  BY <1>21, ReturnsSteps DEF ClaimFails
<1>22. ASSUME NEW s \in Sweeps, SizeOrder(s) PROVE Steps'
  BY <1>22 DEF SizeOrder, GoTo
<1>23. ASSUME NEW s \in Sweeps, NotifyUser(s) PROVE Steps'
  BY <1>23 DEF NotifyUser, GoTo
<1>24. ASSUME NEW s \in Sweeps, NotifyFails(s) PROVE Steps'
  BY <1>24 DEF NotifyFails, Fault, GoTo
<1>25. ASSUME NEW s \in Sweeps, Unclaim(s) PROVE Steps'
  BY <1>25 DEF Unclaim, GoTo
<1>26. ASSUME NEW s \in Sweeps, UnclaimFails(s) PROVE Steps'
  BY <1>26, ReturnsSteps DEF UnclaimFails
<1>27. ASSUME NEW t \in Tickers, EditHolding(t) PROVE Steps'
  BY <1>27 DEF EditHolding, Asks
<1>28. ASSUME NEW t \in Tickers, PriceMoves(t) PROVE Steps'
  BY <1>28 DEF PriceMoves
<1>29. CASE Crash
  BY <1>29 DEF Crash
<1>30. CASE UNCHANGED vars
  BY <1>30
<1>31. ASSUME NEW h \in Handlers, CheckNotHeld(h) PROVE Steps'
  <2>1. OthersSame(h) /\ pc'[h] = "add" /\ cause'[h] = cause[h]
    BY <1>31 DEF CheckNotHeld, GoTo, OthersSame
  <2> QED
    BY <2>1, StepsMove
<1>32. ASSUME NEW h \in Handlers, AddHolding(h) PROVE Steps'
  BY <1>32, ReturnsSteps DEF AddHolding
<1> QED
  BY <1>1, <1>2, <1>3, <1>4, <1>5, <1>6, <1>7, <1>8, <1>9, <1>10, <1>11,
     <1>12, <1>13, <1>14, <1>15, <1>16, <1>17, <1>18, <1>19, <1>20, <1>21,
     <1>22, <1>23, <1>24, <1>25, <1>26, <1>27, <1>28, <1>29, <1>30,
     <1>31, <1>32
  DEF Next, ChatStep, OrderStep, SweepProgress, SweepFault
\* No order, proposal, alert, sweep or crash leaves the typed state space; with
\* quantities in Nat, no share is ever sold that is not held.
THEOREM TypeCorrect == Spec => []TypeOK
<1>1. TypeOK /\ Steps /\ [Next]_vars => (TypeOK /\ Steps)'
  BY TypeNext, StepsNext
<1> QED
  BY TypeInit, <1>1, PTL DEF Spec

(***************************************************************************)
(* The holdings agree with the orders.  The strengthening: whoever is      *)
(* between the read and the commit of execute_order holds the write lock,  *)
(* so that what it has read is still what the row says.                    *)
(***************************************************************************)

Ledger ==
  /\ OrdersAddUp
  /\ \A x \in Actors : pc[x] \in {"read", "write"} => lock = x
  /\ \A x \in Actors : pc[x] = "write" => read[x] = holdings[leg[x].ticker]

\* An actor that is not inside the transaction afterwards has no part in it.
LEMMA LedgerKept ==
  ASSUME Ledger, NEW x \in Actors, UNCHANGED <<holdings, ledger>>,
         pc'[x] \notin {"read", "write"},
         \A y \in Actors : y # x => /\ pc'[y] = pc[y] /\ leg'[y] = leg[y] /\ read'[y] = read[y]
                                    /\ lock = y => lock' = y
  PROVE  Ledger'
BY DEF Ledger, OrdersAddUp

LEMMA LedgerInit == Init => Ledger
BY DEF Init, Ledger, OrdersAddUp

LEMMA LedgerNext == TypeOK /\ Steps /\ Ledger /\ [Next]_vars => Ledger'
<1> SUFFICES ASSUME TypeOK, Steps, Ledger, [Next]_vars PROVE Ledger'
  OBVIOUS
<1> USE ConstantsTyped DEF vars, tables, locals, history, env, TypeOK
<1>1. ASSUME NEW h \in Handlers, Peek(h) PROVE Ledger'
  BY <1>1, LedgerKept DEF Peek, GoTo
<1>2. ASSUME NEW h \in Handlers, PopYes(h) PROVE Ledger'
  <2>1. pc'[h] \notin {"read", "write"} /\ OthersSame(h)
    <3>1. CASE pending = Nobody
      BY <1>2, <3>1, ReturnsMoves DEF PopYes
    <3>2. CASE pending # Nobody
      BY <1>2, <3>2 DEF PopYes, GoTo, OthersSame
    <3> QED
      BY <3>1, <3>2
  <2> QED
    BY <1>2, <2>1, LedgerKept DEF PopYes, OthersSame
<1>3. ASSUME NEW h \in Handlers, PopDrop(h) PROVE Ledger'
  <2>1. pc'[h] \notin {"read", "write"} /\ OthersSame(h)
    BY <1>3, ReturnsMoves DEF PopDrop, GoTo, OthersSame
  <2> QED
    BY <1>3, <2>1, LedgerKept DEF PopDrop, OthersSame
<1>4. ASSUME NEW h \in Handlers, NEW p \in Proposals, Propose(h, p) PROVE Ledger'
  BY <1>4, LedgerKept DEF Propose, Asks, GoTo
<1>5. ASSUME NEW h \in Handlers, Reply(h) PROVE Ledger'
  BY <1>5, LedgerKept DEF Reply, Returns
<1>6. ASSUME NEW h \in Handlers, RouteElsewhere(h) PROVE Ledger'
  BY <1>6, LedgerKept DEF RouteElsewhere, Returns
<1>7. ASSUME NEW h \in Handlers, ChatFails(h) PROVE Ledger'
  BY <1>7, LedgerKept DEF ChatFails, Fault, Returns
<1>8. ASSUME NEW h \in Handlers, NEW a \in Alerts, CreateAlert(h, a) PROVE Ledger'
  BY <1>8, LedgerKept DEF CreateAlert, Returns
<1>9. ASSUME NEW h \in Handlers, PlaceOrder(h) PROVE Ledger'
  BY <1>9, LedgerKept DEF PlaceOrder, Asks, GoTo
<1>10. ASSUME NEW x \in Actors, Begin(x) PROVE Ledger'
  BY <1>10 DEF Begin, GoTo, Ledger, OrdersAddUp
<1>11. ASSUME NEW x \in Actors, ReadHolding(x) PROVE Ledger'
  BY <1>11 DEF ReadHolding, GoTo, Ledger, OrdersAddUp
<1>12. ASSUME NEW x \in Actors, CommitOrder(x) PROVE Ledger'
  <2> DEFINE t == leg[x].ticker
  <2>1. pc[x] = "write" /\ t \in Tickers /\ Signed(leg[x]) \in Int
    BY <1>12 DEF CommitOrder, Leg, Signed, Sides
  <2>2. /\ \A u \in Tickers \ {t} : holdings'[u] = holdings[u] /\ ledger'[u] = ledger[u]
        /\ holdings'[t] = read[x] + Signed(leg[x])
        /\ ledger'[t] = ledger[t] + Signed(leg[x])
    BY <1>12, <2>1 DEF CommitOrder, Fill
  <2>3. OrdersAddUp'
    BY <2>1, <2>2 DEF Ledger, OrdersAddUp
  <2>4. OthersSame(x) /\ pc'[x] \in {"idle", "begin", "notify"}
    <3>1. NextLeg(x)
      BY <1>12 DEF CommitOrder
    <3> QED
      BY <3>1, NextLegMoves
  <2>5. \A y \in Actors : pc'[y] \notin {"read", "write"}
    BY <2>1, <2>4 DEF OthersSame, Ledger
  <2> QED
    BY <2>3, <2>5 DEF Ledger
<1>13. ASSUME NEW x \in Actors, RejectOrder(x) PROVE Ledger'
  <2>1. NextLeg(x) /\ UNCHANGED <<holdings, ledger>> /\ lock = x
    BY <1>13 DEF RejectOrder, Ledger
  <2>2. OthersSame(x) /\ pc'[x] \in {"idle", "begin", "notify"}
    BY <2>1, NextLegMoves
  <2> QED
    BY <2>1, <2>2, LedgerKept DEF OthersSame
<1>14. ASSUME NEW x \in Actors, DividesByZero(x) PROVE Ledger'
  <2>1. Abort(x)
    BY <1>14 DEF DividesByZero
  <2>2. /\ OthersSame(x) /\ pc'[x] \in {"idle", "unclaim"}
        /\ lock' = IF lock = x THEN Nobody ELSE lock
        /\ UNCHANGED <<holdings, ledger>>
    BY <2>1, AbortMoves
  <2>3. \A y \in Actors : y # x => /\ pc'[y] = pc[y] /\ leg'[y] = leg[y] /\ read'[y] = read[y]
                                   /\ lock = y => lock' = y
    BY <2>2 DEF OthersSame
  <2> QED
    BY <2>2, <2>3, LedgerKept
<1>15. ASSUME NEW x \in Actors, OrderFails(x) PROVE Ledger'
  <2>1. Abort(x)
    BY <1>15 DEF OrderFails
  <2>2. /\ OthersSame(x) /\ pc'[x] \in {"idle", "unclaim"}
        /\ lock' = IF lock = x THEN Nobody ELSE lock
        /\ UNCHANGED <<holdings, ledger>>
    BY <2>1, AbortMoves
  <2>3. \A y \in Actors : y # x => /\ pc'[y] = pc[y] /\ leg'[y] = leg[y] /\ read'[y] = read[y]
                                   /\ lock = y => lock' = y
    BY <2>2 DEF OthersSame
  <2> QED
    BY <2>2, <2>3, LedgerKept
<1>16. ASSUME NEW s \in Sweeps, SweepStart(s) PROVE Ledger'
  BY <1>16, LedgerKept DEF SweepStart, GoTo, Active
<1>17. ASSUME NEW s \in Sweeps, SweepEnd(s) PROVE Ledger'
  BY <1>17, LedgerKept DEF SweepEnd, Returns
<1>18. ASSUME NEW s \in Sweeps, NEW a \in Alerts, SweepSkip(s, a) PROVE Ledger'
  BY <1>18 DEF SweepSkip, Ledger, OrdersAddUp
<1>19. ASSUME NEW s \in Sweeps, NEW a \in Alerts, SweepClaim(s, a) PROVE Ledger'
  BY <1>19, LedgerKept DEF SweepClaim, Fires, GoTo
<1>20. ASSUME NEW s \in Sweeps, NEW a \in Alerts, QuoteFails(s, a) PROVE Ledger'
  BY <1>20 DEF QuoteFails, Fault, Ledger, OrdersAddUp
<1>21. ASSUME NEW s \in Sweeps, ClaimFails(s) PROVE Ledger'
  BY <1>21, LedgerKept DEF ClaimFails, Fault, Returns
<1>22. ASSUME NEW s \in Sweeps, SizeOrder(s) PROVE Ledger'
  BY <1>22, LedgerKept DEF SizeOrder, GoTo
<1>23. ASSUME NEW s \in Sweeps, NotifyUser(s) PROVE Ledger'
  BY <1>23, LedgerKept DEF NotifyUser, GoTo
<1>24. ASSUME NEW s \in Sweeps, NotifyFails(s) PROVE Ledger'
  BY <1>24, LedgerKept DEF NotifyFails, Fault, GoTo
<1>25. ASSUME NEW s \in Sweeps, Unclaim(s) PROVE Ledger'
  BY <1>25, LedgerKept DEF Unclaim, GoTo
<1>26. ASSUME NEW s \in Sweeps, UnclaimFails(s) PROVE Ledger'
  BY <1>26, LedgerKept DEF UnclaimFails, Fault, Returns
<1>27. ASSUME NEW t \in Tickers, EditHolding(t) PROVE Ledger'
  BY <1>27 DEF EditHolding, Asks, Ledger, OrdersAddUp
<1>28. ASSUME NEW t \in Tickers, PriceMoves(t) PROVE Ledger'
  BY <1>28 DEF PriceMoves, Ledger, OrdersAddUp
<1>29. CASE Crash
  BY <1>29 DEF Crash, Ledger, OrdersAddUp
<1>30. CASE UNCHANGED vars
  BY <1>30 DEF Ledger, OrdersAddUp
<1>31. ASSUME NEW h \in Handlers, CheckNotHeld(h) PROVE Ledger'
  <2>1. OthersSame(h) /\ pc'[h] = "add" /\ UNCHANGED <<holdings, ledger, lock>>
    BY <1>31 DEF CheckNotHeld, GoTo, OthersSame
  <2> QED
    BY <2>1, LedgerKept DEF OthersSame
<1>32. ASSUME NEW h \in Handlers, AddHolding(h) PROVE Ledger'
  <2>1. OrdersAddUp'
    BY <1>32 DEF AddHolding, Ledger, OrdersAddUp, Leg
  <2>2. lock = Nobody /\ OthersSame(h) /\ pc'[h] = "idle"
    BY <1>32, ReturnsMoves DEF AddHolding
  <2>3. \A y \in Actors : pc'[y] \notin {"read", "write"}
    BY <2>2 DEF OthersSame, Ledger
  <2> QED
    BY <2>1, <2>3 DEF Ledger
<1> QED
  BY <1>1, <1>2, <1>3, <1>4, <1>5, <1>6, <1>7, <1>8, <1>9, <1>10, <1>11,
     <1>12, <1>13, <1>14, <1>15, <1>16, <1>17, <1>18, <1>19, <1>20, <1>21,
     <1>22, <1>23, <1>24, <1>25, <1>26, <1>27, <1>28, <1>29, <1>30,
     <1>31, <1>32
  DEF Next, ChatStep, OrderStep, SweepProgress, SweepFault

\* Whatever orders, manual edits and sweeps run at once, a holding is what its last
\* edit and the order rows since add up to (execute_order, db.py:1256-1258).
THEOREM HoldingsAddUp == Spec => []OrdersAddUp
<1>1. TypeOK /\ Steps /\ Ledger /\ [Next]_vars => (TypeOK /\ Steps /\ Ledger)'
  BY TypeNext, StepsNext, LedgerNext
<1>2. Ledger => OrdersAddUp
  BY DEF Ledger
<1> QED
  BY TypeInit, LedgerInit, <1>1, <1>2, PTL DEF Spec
(***************************************************************************)
(* A proposal is filled once, and never after it was dropped.  The         *)
(* strengthening: a proposal is either fresh, or in the account's one row, *)
(* or in the hands of the one request that popped it; until a leg is       *)
(* committed nothing is filled for it.                                     *)
(***************************************************************************)

Unfilled(p) == \A t \in Tickers : fills[p][t] = 0
Executes(x, p) == pc[x] \in OrderSteps /\ cause[x] = p
OneLegPerTicker(S) == \A l, m \in S : l.ticker = m.ticker => l = m

\* What is left of proposal p for request x to fill.
LegsLeft(x, p) ==
  /\ OneLegPerTicker(legs[x])
  /\ \A l \in legs[x] : fills[p][l.ticker] = 0
  /\ pc[x] # "begin" => leg[x] \in legs[x]

Consumed ==
  /\ LegFilledOnce
  /\ \A x \in Actors : pc[x] = "idle" => cause[x] = Nobody
  /\ \A p \in Proposals :
       /\ OneLegPerTicker(legsOf[p])
       /\ pending = p \/ p \in dropped \/ legsOf[p] = {} =>
            Unfilled(p) /\ \A x \in Actors : ~Executes(x, p)
       /\ pending = p => p \notin dropped /\ legsOf[p] # {}
       /\ p \in dropped => legsOf[p] # {}
       /\ \A x, y \in Actors : Executes(x, p) /\ Executes(y, p) => x = y
       /\ \A x \in Actors : Executes(x, p) => LegsLeft(x, p)

\* A proposal names at least one ticker, and no ticker twice.
LEMMA OfferLegs ==
  ASSUME TypeOK, NEW S \in Offers PROVE S # {} /\ OneLegPerTicker(S)
<1>1. ASSUME NEW T \in SUBSET Tickers, T # {}, NEW q \in [T -> Nat]
      PROVE  /\ Sales(q) # {} /\ OneLegPerTicker(Sales(q))
             /\ Purchases(q) # {} /\ OneLegPerTicker(Purchases(q))
  <2>1. PICK u \in T : TRUE
    BY <1>1
  <2>2. /\ [ticker |-> u, side |-> "SELL", qty |-> q[u]] \in Sales(q)
        /\ [ticker |-> u, side |-> "BUY", qty |-> q[u]] \in Purchases(q)
    BY <2>1 DEF Sales, Purchases
  <2>3. OneLegPerTicker(Sales(q)) /\ OneLegPerTicker(Purchases(q))
    BY DEF Sales, Purchases, OneLegPerTicker
  <2> QED
    BY <2>2, <2>3
<1>2. \A t \in Tickers : holdings[t] \in Nat
  BY DEF TypeOK
<1>3. CASE S \in BatchSales
  <2>1. PICK T \in (SUBSET Held) \ {{}} : S = Sales([t \in T |-> holdings[t]])
    BY <1>3 DEF BatchSales
  <2>2. T \in SUBSET Tickers /\ T # {} /\ [t \in T |-> holdings[t]] \in [T -> Nat]
    BY <1>2 DEF Held
  <2> QED
    BY <1>1, <2>1, <2>2
<1>4. CASE S \in PartSales
  <2>1. PICK u \in Held : S \in {Sales([t \in {u} |-> n]) : n \in 1..holdings[u]}
    BY <1>4 DEF PartSales
  <2>2. PICK n \in 1..holdings[u] : S = Sales([t \in {u} |-> n])
    BY <2>1
  <2>3. {u} \in SUBSET Tickers /\ {u} # {} /\ [t \in {u} |-> n] \in [{u} -> Nat]
    BY <1>2 DEF Held
  <2> QED
    BY <1>1, <2>2, <2>3
<1>5. CASE S \in BuyOffers
  <2>1. PICK T \in (SUBSET Tickers) \ {{}} : S \in {Purchases(q) : q \in [T -> 0..MaxLot]}
    BY <1>5 DEF BuyOffers
  <2>2. PICK q \in [T -> 0..MaxLot] : S = Purchases(q)
    BY <2>1
  <2>3. q \in [T -> Nat]
    BY ConstantsTyped
  <2>4. T # {}
    OBVIOUS
  <2> QED
    BY <1>1, <2>2, <2>3, <2>4
<1> QED
  BY <1>3, <1>4, <1>5 DEF Offers

\* A step of one actor that fills nothing and takes nothing on.
LEMMA ConsumedKept ==
  ASSUME Consumed, NEW x \in Actors, OthersSame(x),
         UNCHANGED <<pending, legsOf, fills, dropped>>,
         pc'[x] = "idle" => cause'[x] = Nobody,
         \A p \in Proposals : Executes(x, p)' =>
           /\ Executes(x, p)
           /\ legs'[x] \subseteq legs[x]
           /\ pc'[x] # "begin" => leg'[x] \in legs'[x]
  PROVE  Consumed'
<1>1. /\ LegFilledOnce'
      /\ \A y \in Actors : pc'[y] = "idle" => cause'[y] = Nobody
  BY DEF Consumed, LegFilledOnce, OthersSame
<1>2. ASSUME NEW p \in Proposals, NEW y \in Actors, Executes(y, p)'
      PROVE  Executes(y, p) /\ LegsLeft(y, p)'
  <2>1. Executes(y, p)
    BY <1>2 DEF Executes, OthersSame
  <2>2. LegsLeft(y, p)
    BY <2>1 DEF Consumed
  <2>3. CASE y = x
    BY <1>2, <2>2, <2>3 DEF LegsLeft, OneLegPerTicker
  <2>4. CASE y # x
    BY <2>1, <2>2, <2>4 DEF LegsLeft, OthersSame, OneLegPerTicker
  <2> QED
    BY <2>1, <2>3, <2>4
<1>3. \A p \in Proposals : Unfilled(p) => Unfilled(p)'
  BY DEF Unfilled
<1> QED
  BY <1>1, <1>2, <1>3 DEF Consumed

LEMMA ConsumedInit == Init => Consumed
BY ConstantsTyped
DEF Init, Consumed, LegFilledOnce, Unfilled, Executes, OneLegPerTicker, OrderSteps

LEMMA ConsumedNext == TypeOK /\ Steps /\ Consumed /\ [Next]_vars => Consumed'
<1> SUFFICES ASSUME TypeOK, Steps, Consumed, [Next]_vars PROVE Consumed'
  OBVIOUS
<1> USE ConstantsTyped DEF vars, tables, locals, history, env, TypeOK
<1>1. ASSUME NEW h \in Handlers, Peek(h) PROVE Consumed'
  <2>1. /\ OthersSame(h) /\ UNCHANGED <<pending, legsOf, fills, dropped>>
        /\ pc'[h] = "idle" => cause'[h] = Nobody
        /\ \A p \in Proposals : Executes(h, p)' =>
             /\ Executes(h, p)
             /\ legs'[h] \subseteq legs[h]
             /\ pc'[h] # "begin" => leg'[h] \in legs'[h]
    BY <1>1 DEF Peek, GoTo, Executes, OrderSteps, OthersSame, Consumed, LegsLeft
  <2> QED
    BY <2>1, ConsumedKept
<1>2. ASSUME NEW h \in Handlers, PopYes(h) PROVE Consumed'
  <2>1. CASE pending = Nobody
    <3>1. Returns(h) /\ UNCHANGED <<pending, legsOf, fills, dropped>>
      BY <1>2, <2>1 DEF PopYes
    <3>2. OthersSame(h) /\ pc'[h] = "idle" /\ cause'[h] = Nobody
      BY <3>1, ReturnsMoves
    <3> QED
      BY <3>1, <3>2, ConsumedKept DEF Executes, OrderSteps
  <2>2. CASE pending # Nobody
    <3>1. PICK p \in Proposals : p = pending
      BY <2>2
    <3>2. /\ OthersSame(h) /\ pending' = Nobody
          /\ pc'[h] = "begin" /\ cause'[h] = p /\ legs'[h] = legsOf[p]
          /\ UNCHANGED <<legsOf, fills, dropped>>
      BY <1>2, <2>2, <3>1 DEF PopYes, GoTo, OthersSame
    <3>3. Unfilled(p) /\ OneLegPerTicker(legsOf[p]) /\ p \notin dropped
          /\ legsOf[p] # {} /\ \A x \in Actors : ~Executes(x, p)
      BY <3>1 DEF Consumed
    <3>4. \A y \in Actors, o \in Proposals :
            Executes(y, o)' => /\ y = h => o = p
                               /\ y # h => o # p /\ Executes(y, o)
      BY <3>2, <3>3 DEF Executes, OthersSame
    <3>5. LegsLeft(h, p)'
      <4>1. \A l \in legsOf[p] : l.ticker \in Tickers
        BY DEF Leg
      <4> QED
        BY <3>2, <3>3, <4>1 DEF LegsLeft, Unfilled, OneLegPerTicker
    <3>6. ASSUME NEW y \in Actors, NEW o \in Proposals, Executes(y, o)' PROVE LegsLeft(y, o)'
      <4>1. CASE y # h
        <5>1. LegsLeft(y, o)
          BY <3>4, <3>6, <4>1 DEF Consumed
        <5> QED
          BY <3>2, <4>1, <5>1 DEF LegsLeft, OthersSame, OneLegPerTicker
      <4>2. CASE y = h
        BY <3>4, <3>5, <3>6, <4>2
      <4> QED
        BY <4>1, <4>2
    <3>7. \A o \in Proposals : Unfilled(o) => Unfilled(o)'
      BY <3>2 DEF Unfilled
    <3>8. LegFilledOnce' /\ \A y \in Actors : pc'[y] = "idle" => cause'[y] = Nobody
      BY <3>2 DEF Consumed, LegFilledOnce, OthersSame
    <3>9. \A o \in Proposals : /\ OneLegPerTicker(legsOf'[o])
                               /\ o \in dropped' => legsOf'[o] # {}
                               /\ pending' # o
      BY <3>2, ConstantsTyped DEF Consumed
    <3>10. ASSUME NEW o \in Proposals, o \in dropped' \/ legsOf'[o] = {}
           PROVE  Unfilled(o)' /\ \A y \in Actors : ~Executes(y, o)'
      <4>1. o # p /\ Unfilled(o) /\ \A y \in Actors : ~Executes(y, o)
        BY <3>2, <3>3, <3>10 DEF Consumed
      <4> QED
        BY <4>1, <3>4, <3>7
    <3>11. \A o \in Proposals, x, y \in Actors : Executes(x, o)' /\ Executes(y, o)' => x = y
      BY <3>4 DEF Consumed
    <3> QED
      BY <3>6, <3>8, <3>9, <3>10, <3>11 DEF Consumed
  <2> QED
    BY <2>1, <2>2
<1>3. ASSUME NEW h \in Handlers, PopDrop(h) PROVE Consumed'
  <2>1. /\ OthersSame(h) /\ pending' = Nobody
        /\ ((pc'[h] = "idle" /\ cause'[h] = Nobody) \/ pc'[h] = "route")
        /\ dropped' = (IF pending = Nobody THEN dropped ELSE dropped \cup {pending})
        /\ UNCHANGED <<legsOf, fills>>
    BY <1>3, ReturnsMoves DEF PopDrop, GoTo, OthersSame
  <2>2. \A y \in Actors, p \in Proposals : Executes(y, p)' => y # h /\ Executes(y, p)
    BY <2>1 DEF Executes, OthersSame, OrderSteps
  <2>3. \A y \in Actors, p \in Proposals : y # h /\ LegsLeft(y, p) => LegsLeft(y, p)'
    BY <2>1 DEF LegsLeft, OthersSame
  <2>4. \A p \in Proposals : Unfilled(p) => Unfilled(p)'
    BY <2>1 DEF Unfilled
  <2>5. LegFilledOnce' /\ \A y \in Actors : pc'[y] = "idle" => cause'[y] = Nobody
    BY <2>1 DEF Consumed, LegFilledOnce, OthersSame
  <2>6. \A p \in Proposals : /\ pending' # p
                             /\ OneLegPerTicker(legsOf'[p])
                             /\ p \in dropped' => p \in dropped \/ p = pending
                             /\ p \in dropped' => legsOf'[p] # {}
    BY <2>1, ConstantsTyped DEF Consumed
  <2> QED
    BY <2>1, <2>2, <2>3, <2>4, <2>5, <2>6 DEF Consumed
<1>4. ASSUME NEW h \in Handlers, NEW p \in Proposals, Propose(h, p) PROVE Consumed'
  <2>1. /\ legsOf[p] = {} /\ OthersSame(h) /\ pending' = p /\ pc'[h] = "reply"
        /\ dropped' = (IF pending = Nobody THEN dropped ELSE dropped \cup {pending})
        /\ UNCHANGED fills
    BY <1>4 DEF Propose, GoTo, OthersSame
  <2>2. PICK S \in Offers : legsOf' = [legsOf EXCEPT ![p] = S]
    BY <1>4 DEF Propose
  <2>3. /\ legsOf'[p] # {} /\ OneLegPerTicker(legsOf'[p])
        /\ \A o \in Proposals \ {p} : legsOf'[o] = legsOf[o]
    BY <2>2, OfferLegs
  <2>4. pending # p /\ p \notin dropped /\ Unfilled(p) /\ \A x \in Actors : ~Executes(x, p)
    BY <2>1 DEF Consumed
  <2>5. \A y \in Actors, o \in Proposals : Executes(y, o)' => y # h /\ Executes(y, o)
    BY <2>1 DEF Executes, OthersSame, OrderSteps
  <2>6. \A y \in Actors, o \in Proposals : y # h /\ LegsLeft(y, o) => LegsLeft(y, o)'
    BY <2>1 DEF LegsLeft, OthersSame
  <2>7. \A o \in Proposals : Unfilled(o) => Unfilled(o)'
    BY <2>1 DEF Unfilled
  <2>8. LegFilledOnce' /\ \A y \in Actors : pc'[y] = "idle" => cause'[y] = Nobody
    BY <2>1 DEF Consumed, LegFilledOnce, OthersSame
  <2>9. \A o \in Proposals : o \in dropped' => o \in dropped \/ o = pending
    BY <2>1
  <2>10. ASSUME NEW o \in Proposals
         PROVE  /\ OneLegPerTicker(legsOf'[o])
                /\ pending' = o \/ o \in dropped' \/ legsOf'[o] = {} =>
                     Unfilled(o)' /\ \A x \in Actors : ~Executes(x, o)'
                /\ pending' = o => o \notin dropped' /\ legsOf'[o] # {}
                /\ o \in dropped' => legsOf'[o] # {}
    <3>1. CASE o = p
      BY <3>1, <2>1, <2>3, <2>4, <2>5, <2>7, <2>9
    <3>2. CASE o # p
      BY <3>2, <2>1, <2>3, <2>5, <2>7, <2>9 DEF Consumed
    <3> QED
      BY <3>1, <3>2
  <2> QED
    BY <2>5, <2>6, <2>8, <2>10 DEF Consumed
<1>5. ASSUME NEW h \in Handlers, Reply(h) PROVE Consumed'
  <2>1. /\ OthersSame(h) /\ UNCHANGED <<pending, legsOf, fills, dropped>>
        /\ pc'[h] = "idle" => cause'[h] = Nobody
        /\ \A p \in Proposals : Executes(h, p)' =>
             /\ Executes(h, p)
             /\ legs'[h] \subseteq legs[h]
             /\ pc'[h] # "begin" => leg'[h] \in legs'[h]
    BY <1>5, ReturnsMoves DEF Reply, Executes, OrderSteps, OthersSame, Consumed, LegsLeft
  <2> QED
    BY <2>1, ConsumedKept
<1>6. ASSUME NEW h \in Handlers, RouteElsewhere(h) PROVE Consumed'
  <2>1. /\ OthersSame(h) /\ UNCHANGED <<pending, legsOf, fills, dropped>>
        /\ pc'[h] = "idle" => cause'[h] = Nobody
        /\ \A p \in Proposals : Executes(h, p)' =>
             /\ Executes(h, p)
             /\ legs'[h] \subseteq legs[h]
             /\ pc'[h] # "begin" => leg'[h] \in legs'[h]
    BY <1>6, ReturnsMoves DEF RouteElsewhere, Executes, OrderSteps, OthersSame, Consumed, LegsLeft
  <2> QED
    BY <2>1, ConsumedKept
<1>7. ASSUME NEW h \in Handlers, ChatFails(h) PROVE Consumed'
  <2>1. /\ OthersSame(h) /\ UNCHANGED <<pending, legsOf, fills, dropped>>
        /\ pc'[h] = "idle" => cause'[h] = Nobody
        /\ \A p \in Proposals : Executes(h, p)' =>
             /\ Executes(h, p)
             /\ legs'[h] \subseteq legs[h]
             /\ pc'[h] # "begin" => leg'[h] \in legs'[h]
    BY <1>7, ReturnsMoves DEF ChatFails, Fault, Executes, OrderSteps, OthersSame, Consumed, LegsLeft
  <2> QED
    BY <2>1, ConsumedKept
<1>8. ASSUME NEW h \in Handlers, NEW a \in Alerts, CreateAlert(h, a) PROVE Consumed'
  <2>1. /\ OthersSame(h) /\ UNCHANGED <<pending, legsOf, fills, dropped>>
        /\ pc'[h] = "idle" => cause'[h] = Nobody
        /\ \A p \in Proposals : Executes(h, p)' =>
             /\ Executes(h, p)
             /\ legs'[h] \subseteq legs[h]
             /\ pc'[h] # "begin" => leg'[h] \in legs'[h]
    BY <1>8, ReturnsMoves DEF CreateAlert, Executes, OrderSteps, OthersSame, Consumed, LegsLeft
  <2> QED
    BY <2>1, ConsumedKept
<1>9. ASSUME NEW h \in Handlers, PlaceOrder(h) PROVE Consumed'
  <2>1. /\ OthersSame(h) /\ UNCHANGED <<pending, legsOf, fills, dropped>>
        /\ pc'[h] = "idle" => cause'[h] = Nobody
        /\ \A p \in Proposals : Executes(h, p)' =>
             /\ Executes(h, p)
             /\ legs'[h] \subseteq legs[h]
             /\ pc'[h] # "begin" => leg'[h] \in legs'[h]
    BY <1>9 DEF PlaceOrder, Asks, GoTo, Executes, OrderSteps, OthersSame, Consumed, LegsLeft
  <2> QED
    BY <2>1, ConsumedKept
<1>10. ASSUME NEW x \in Actors, Begin(x) PROVE Consumed'
  <2>1. /\ OthersSame(x) /\ UNCHANGED <<pending, legsOf, fills, dropped>>
        /\ pc'[x] = "idle" => cause'[x] = Nobody
        /\ \A p \in Proposals : Executes(x, p)' =>
             /\ Executes(x, p)
             /\ legs'[x] \subseteq legs[x]
             /\ pc'[x] # "begin" => leg'[x] \in legs'[x]
    BY <1>10 DEF Begin, GoTo, Executes, OrderSteps, OthersSame, Consumed, LegsLeft
  <2> QED
    BY <2>1, ConsumedKept
<1>11. ASSUME NEW x \in Actors, ReadHolding(x) PROVE Consumed'
  <2>1. /\ OthersSame(x) /\ UNCHANGED <<pending, legsOf, fills, dropped>>
        /\ pc'[x] = "idle" => cause'[x] = Nobody
        /\ \A p \in Proposals : Executes(x, p)' =>
             /\ Executes(x, p)
             /\ legs'[x] \subseteq legs[x]
             /\ pc'[x] # "begin" => leg'[x] \in legs'[x]
    BY <1>11 DEF ReadHolding, GoTo, Executes, OrderSteps, OthersSame, Consumed, LegsLeft
  <2> QED
    BY <2>1, ConsumedKept
<1>12. ASSUME NEW x \in Actors, CommitOrder(x) PROVE Consumed'
  <2> DEFINE t == leg[x].ticker
  <2>1. /\ NextLeg(x) /\ pc[x] = "write" /\ t \in Tickers
        /\ UNCHANGED <<pending, legsOf, dropped>>
    BY <1>12 DEF CommitOrder, Leg
  <2>2. /\ OthersSame(x) /\ legs'[x] = legs[x] \ {leg[x]}
        /\ pc'[x] = "idle" => cause'[x] = Nobody
        /\ pc'[x] \in {"idle", "notify"} \/ cause'[x] = cause[x]
        /\ pc'[x] \in {"idle", "notify", "begin"}
    BY <2>1, NextLegMoves
  <2>3. CASE cause[x] \notin Proposals
    <3>1. fills' = fills
      BY <1>12, <2>3 DEF CommitOrder, Fill
    <3> QED
      BY <2>1, <2>2, <2>3, <3>1, ConsumedKept DEF Executes, OrderSteps
  <2>4. CASE cause[x] \in Proposals
    <3> DEFINE p == cause[x]
    <3>1. /\ \A o \in Proposals \ {p} : fills'[o] = fills[o]
          /\ \A u \in Tickers \ {t} : fills'[p][u] = fills[p][u]
          /\ fills'[p][t] = fills[p][t] + 1
      <4>1. \A o \in Proposals : fills'[o] = IF p = o THEN [fills[o] EXCEPT ![t] = @ + 1]
                                                     ELSE fills[o]
        BY <1>12 DEF CommitOrder, Fill
      <4>2. fills[p] \in [Tickers -> Nat]
        BY <2>4
      <4>3. \A o \in Proposals \ {p} : fills'[o] = fills[o]
        BY <4>1
      <4>4. fills'[p] = [fills[p] EXCEPT ![t] = fills[p][t] + 1]
        BY <2>4, <4>1
      <4> QED
        BY <2>1, <4>2, <4>3, <4>4
    <3>2. Executes(x, p) /\ p \in Proposals
      BY <2>1, <2>4 DEF Executes, OrderSteps
    <3>3. /\ LegsLeft(x, p) /\ leg[x] \in legs[x] /\ fills[p][t] = 0
          /\ pending # p /\ p \notin dropped /\ legsOf[p] # {}
          /\ \A y \in Actors : Executes(y, p) => y = x
      BY <2>1, <3>2 DEF Consumed, LegsLeft
    <3>4. LegFilledOnce'
      BY <3>1, <3>3, SMTT(30) DEF Consumed, LegFilledOnce
    <3>5. \A y \in Actors : pc'[y] = "idle" => cause'[y] = Nobody
      BY <2>2 DEF OthersSame, Consumed
    <3>6. \A y \in Actors, o \in Proposals : Executes(y, o)' => Executes(y, o)
      BY <2>1, <2>2 DEF Executes, OthersSame, OrderSteps
    <3>7. \A o \in Proposals : o # p /\ Unfilled(o) => Unfilled(o)'
      BY <3>1 DEF Unfilled
    <3>8. ASSUME NEW y \in Actors, NEW o \in Proposals, Executes(y, o)' PROVE LegsLeft(y, o)'
      <4>1. Executes(y, o) /\ LegsLeft(y, o)
        BY <3>6, <3>8 DEF Consumed
      <4>2. CASE y = x
        <5>1. o = p /\ pc'[x] = "begin"
          BY <2>2, <3>8, <4>1, <4>2 DEF Executes, OrderSteps
        <5>2. \A l \in legs'[x] : l \in legs[x] /\ l.ticker # t /\ l.ticker \in Tickers
          BY <2>2, <3>3 DEF LegsLeft, OneLegPerTicker, Leg
        <5>3. \A l \in legs'[x] : fills'[p][l.ticker] = 0
          BY <3>1, <3>3, <5>2 DEF LegsLeft
        <5> QED
          BY <2>2, <3>3, <4>2, <5>1, <5>2, <5>3 DEF LegsLeft, OneLegPerTicker
      <4>3. CASE y # x
        <5>1. o # p
          BY <3>3, <4>1, <4>3
        <5> QED
          BY <2>2, <3>1, <4>1, <4>3, <5>1 DEF LegsLeft, OthersSame
      <4> QED
        BY <4>2, <4>3
    <3> QED
      BY <2>1, <3>3, <3>4, <3>5, <3>6, <3>7, <3>8 DEF Consumed
  <2> QED
    BY <2>3, <2>4
<1>13. ASSUME NEW x \in Actors, RejectOrder(x) PROVE Consumed'
  <2>1. NextLeg(x) /\ pc[x] = "write" /\ UNCHANGED <<pending, legsOf, fills, dropped>>
    BY <1>13 DEF RejectOrder
  <2>2. /\ OthersSame(x) /\ legs'[x] \subseteq legs[x]
        /\ pc'[x] = "idle" => cause'[x] = Nobody
        /\ pc'[x] \in {"idle", "notify"} \/ cause'[x] = cause[x]
        /\ pc'[x] \in {"idle", "notify", "begin"}
    BY <2>1, NextLegMoves
  <2> QED
    BY <2>1, <2>2, ConsumedKept DEF Executes, OrderSteps
<1>14. ASSUME NEW x \in Actors, DividesByZero(x) PROVE Consumed'
  <2>1. Abort(x) /\ pc[x] \in OrderSteps \cup {"size"}
    BY <1>14 DEF DividesByZero, OrderSteps
  <2>2. /\ OthersSame(x) /\ UNCHANGED <<pending, legsOf, fills, dropped>>
        /\ pc'[x] = "idle" => cause'[x] = Nobody
        /\ pc'[x] \in {"idle", "unclaim"}
    BY <2>1, AbortMoves
  <2> QED
    BY <2>2, ConsumedKept DEF Executes, OrderSteps
<1>15. ASSUME NEW x \in Actors, OrderFails(x) PROVE Consumed'
  <2>1. Abort(x) /\ pc[x] \in OrderSteps \cup {"size"}
    BY <1>15 DEF OrderFails, OrderSteps
  <2>2. /\ OthersSame(x) /\ UNCHANGED <<pending, legsOf, fills, dropped>>
        /\ pc'[x] = "idle" => cause'[x] = Nobody
        /\ pc'[x] \in {"idle", "unclaim"}
    BY <2>1, AbortMoves
  <2> QED
    BY <2>2, ConsumedKept DEF Executes, OrderSteps
<1>16. ASSUME NEW s \in Sweeps, SweepStart(s) PROVE Consumed'
  <2>1. /\ OthersSame(s) /\ UNCHANGED <<pending, legsOf, fills, dropped>>
        /\ pc'[s] = "idle" => cause'[s] = Nobody
        /\ \A p \in Proposals : Executes(s, p)' =>
             /\ Executes(s, p)
             /\ legs'[s] \subseteq legs[s]
             /\ pc'[s] # "begin" => leg'[s] \in legs'[s]
    BY <1>16 DEF SweepStart, GoTo, Active, Steps, Firing, Executes, OrderSteps, OthersSame, Consumed, LegsLeft
  <2> QED
    BY <2>1, ConsumedKept
<1>17. ASSUME NEW s \in Sweeps, SweepEnd(s) PROVE Consumed'
  <2>1. /\ OthersSame(s) /\ UNCHANGED <<pending, legsOf, fills, dropped>>
        /\ pc'[s] = "idle" => cause'[s] = Nobody
        /\ \A p \in Proposals : Executes(s, p)' =>
             /\ Executes(s, p)
             /\ legs'[s] \subseteq legs[s]
             /\ pc'[s] # "begin" => leg'[s] \in legs'[s]
    BY <1>17, ReturnsMoves DEF SweepEnd, Steps, Firing, Executes, OrderSteps, OthersSame, Consumed, LegsLeft
  <2> QED
    BY <2>1, ConsumedKept
<1>18. ASSUME NEW s \in Sweeps, NEW a \in Alerts, SweepSkip(s, a) PROVE Consumed'
  BY <1>18 DEF SweepSkip, Consumed, LegFilledOnce, Unfilled, Executes, LegsLeft
<1>19. ASSUME NEW s \in Sweeps, NEW a \in Alerts, SweepClaim(s, a) PROVE Consumed'
  <2>1. /\ OthersSame(s) /\ UNCHANGED <<pending, legsOf, fills, dropped>>
        /\ pc'[s] = "idle" => cause'[s] = Nobody
        /\ \A p \in Proposals : Executes(s, p)' =>
             /\ Executes(s, p)
             /\ legs'[s] \subseteq legs[s]
             /\ pc'[s] # "begin" => leg'[s] \in legs'[s]
    BY <1>19 DEF SweepClaim, Fires, GoTo, Steps, Firing, Executes, OrderSteps, OthersSame, Consumed, LegsLeft
  <2> QED
    BY <2>1, ConsumedKept
<1>20. ASSUME NEW s \in Sweeps, NEW a \in Alerts, QuoteFails(s, a) PROVE Consumed'
  BY <1>20 DEF QuoteFails, Fault, Consumed, LegFilledOnce, Unfilled, Executes, LegsLeft
<1>21. ASSUME NEW s \in Sweeps, ClaimFails(s) PROVE Consumed'
  <2>1. /\ OthersSame(s) /\ UNCHANGED <<pending, legsOf, fills, dropped>>
        /\ pc'[s] = "idle" => cause'[s] = Nobody
        /\ \A p \in Proposals : Executes(s, p)' =>
             /\ Executes(s, p)
             /\ legs'[s] \subseteq legs[s]
             /\ pc'[s] # "begin" => leg'[s] \in legs'[s]
    BY <1>21, ReturnsMoves DEF ClaimFails, Fault, Steps, Firing, Executes, OrderSteps, OthersSame, Consumed, LegsLeft
  <2> QED
    BY <2>1, ConsumedKept
<1>22. ASSUME NEW s \in Sweeps, SizeOrder(s) PROVE Consumed'
  <2>1. /\ OthersSame(s) /\ UNCHANGED <<pending, legsOf, fills, dropped>>
        /\ pc'[s] = "idle" => cause'[s] = Nobody
        /\ \A p \in Proposals : Executes(s, p)' =>
             /\ Executes(s, p)
             /\ legs'[s] \subseteq legs[s]
             /\ pc'[s] # "begin" => leg'[s] \in legs'[s]
    BY <1>22 DEF SizeOrder, GoTo, Steps, Firing, Executes, OrderSteps, OthersSame, Consumed, LegsLeft
  <2> QED
    BY <2>1, ConsumedKept
<1>23. ASSUME NEW s \in Sweeps, NotifyUser(s) PROVE Consumed'
  <2>1. /\ OthersSame(s) /\ UNCHANGED <<pending, legsOf, fills, dropped>>
        /\ pc'[s] = "idle" => cause'[s] = Nobody
        /\ \A p \in Proposals : Executes(s, p)' =>
             /\ Executes(s, p)
             /\ legs'[s] \subseteq legs[s]
             /\ pc'[s] # "begin" => leg'[s] \in legs'[s]
    BY <1>23 DEF NotifyUser, GoTo, Steps, Firing, Executes, OrderSteps, OthersSame, Consumed, LegsLeft
  <2> QED
    BY <2>1, ConsumedKept
<1>24. ASSUME NEW s \in Sweeps, NotifyFails(s) PROVE Consumed'
  <2>1. /\ OthersSame(s) /\ UNCHANGED <<pending, legsOf, fills, dropped>>
        /\ pc'[s] = "idle" => cause'[s] = Nobody
        /\ \A p \in Proposals : Executes(s, p)' =>
             /\ Executes(s, p)
             /\ legs'[s] \subseteq legs[s]
             /\ pc'[s] # "begin" => leg'[s] \in legs'[s]
    BY <1>24 DEF NotifyFails, Fault, GoTo, Steps, Firing, Executes, OrderSteps, OthersSame, Consumed, LegsLeft
  <2> QED
    BY <2>1, ConsumedKept
<1>25. ASSUME NEW s \in Sweeps, Unclaim(s) PROVE Consumed'
  <2>1. /\ OthersSame(s) /\ UNCHANGED <<pending, legsOf, fills, dropped>>
        /\ pc'[s] = "idle" => cause'[s] = Nobody
        /\ \A p \in Proposals : Executes(s, p)' =>
             /\ Executes(s, p)
             /\ legs'[s] \subseteq legs[s]
             /\ pc'[s] # "begin" => leg'[s] \in legs'[s]
    BY <1>25 DEF Unclaim, GoTo, Steps, Firing, Executes, OrderSteps, OthersSame, Consumed, LegsLeft
  <2> QED
    BY <2>1, ConsumedKept
<1>26. ASSUME NEW s \in Sweeps, UnclaimFails(s) PROVE Consumed'
  <2>1. /\ OthersSame(s) /\ UNCHANGED <<pending, legsOf, fills, dropped>>
        /\ pc'[s] = "idle" => cause'[s] = Nobody
        /\ \A p \in Proposals : Executes(s, p)' =>
             /\ Executes(s, p)
             /\ legs'[s] \subseteq legs[s]
             /\ pc'[s] # "begin" => leg'[s] \in legs'[s]
    BY <1>26, ReturnsMoves DEF UnclaimFails, Fault, Steps, Firing, Executes, OrderSteps, OthersSame, Consumed, LegsLeft
  <2> QED
    BY <2>1, ConsumedKept
<1>27. ASSUME NEW t \in Tickers, EditHolding(t) PROVE Consumed'
  BY <1>27 DEF EditHolding, Asks, Consumed, LegFilledOnce, Unfilled, Executes, LegsLeft
<1>28. ASSUME NEW t \in Tickers, PriceMoves(t) PROVE Consumed'
  BY <1>28 DEF PriceMoves, Consumed, LegFilledOnce, Unfilled, Executes, LegsLeft
<1>29. CASE Crash
  <2>1. /\ \A x \in Actors : pc'[x] = "idle" /\ cause'[x] = Nobody
        /\ UNCHANGED <<pending, legsOf, fills, dropped>>
    BY <1>29 DEF Crash
  <2>2. \A x \in Actors, p \in Proposals : ~Executes(x, p)'
    BY <2>1 DEF Executes, OrderSteps
  <2>3. \A p \in Proposals : Unfilled(p) => Unfilled(p)'
    BY <2>1 DEF Unfilled
  <2> QED
    BY <2>1, <2>2, <2>3 DEF Consumed, LegFilledOnce
<1>30. CASE UNCHANGED vars
  BY <1>30 DEF Consumed, Consumed, LegFilledOnce, Unfilled, Executes, LegsLeft
<1>31. ASSUME NEW h \in Handlers, CheckNotHeld(h) PROVE Consumed'
  <2>1. /\ OthersSame(h) /\ UNCHANGED <<pending, legsOf, fills, dropped>>
        /\ pc'[h] = "idle" => cause'[h] = Nobody
        /\ \A p \in Proposals : ~Executes(h, p)'
    BY <1>31 DEF CheckNotHeld, GoTo, Executes, OrderSteps, OthersSame
  <2> QED
    BY <2>1, ConsumedKept
<1>32. ASSUME NEW h \in Handlers, AddHolding(h) PROVE Consumed'
  <2>1. /\ OthersSame(h) /\ UNCHANGED <<pending, legsOf, fills, dropped>>
        /\ pc'[h] = "idle" => cause'[h] = Nobody
        /\ \A p \in Proposals : ~Executes(h, p)'
    BY <1>32, ReturnsMoves DEF AddHolding, Executes, OrderSteps, OthersSame
  <2> QED
    BY <2>1, ConsumedKept
<1> QED
  BY <1>1, <1>2, <1>3, <1>4, <1>5, <1>6, <1>7, <1>8, <1>9, <1>10, <1>11,
     <1>12, <1>13, <1>14, <1>15, <1>16, <1>17, <1>18, <1>19, <1>20, <1>21,
     <1>22, <1>23, <1>24, <1>25, <1>26, <1>27, <1>28, <1>29, <1>30,
     <1>31, <1>32
  DEF Next, ChatStep, OrderStep, SweepProgress, SweepFault

LEMMA ConsumedAlways == Spec => []Consumed
<1>1. TypeOK /\ Steps /\ Consumed /\ [Next]_vars => (TypeOK /\ Steps /\ Consumed)'
  BY TypeNext, StepsNext, ConsumedNext
<1> QED
  BY TypeInit, ConsumedInit, <1>1, PTL DEF Spec

\* However many confirmations of a proposal are sent, and however they interleave
\* with each other and with other messages, each of its legs is filled at most once
\* (pop_pending_order, db.py:1398-1407).
THEOREM FilledOnce == Spec => []LegFilledOnce
<1>1. Consumed => LegFilledOnce
  BY DEF Consumed
<1> QED
  BY ConsumedAlways, <1>1, PTL

\* A proposal that was cancelled or superseded is never executed, before or after
\* (handle_chat_message, chat_router.py:1209-1213).
THEOREM DroppedStaysUnfilled == Spec => []DroppedNeverFilled
<1>1. TypeOK /\ Consumed => DroppedNeverFilled
  BY DEF TypeOK, Consumed, DroppedNeverFilled, Unfilled
<1> QED
  BY TypeCorrect, ConsumedAlways, <1>1, PTL
(***************************************************************************)
(* One sweep fires an alert at a time.  The strengthening: an alert whose  *)
(* notification was written stays claimed, since only the sweep that fires *)
(* it could give it back.                                                  *)
(***************************************************************************)

Claims ==
  /\ ClaimsAreOwned
  /\ \A a \in handled : alertState[a] = "claimed"

\* A step of one actor that claims nothing, and gives an alert up only when it is
\* accounted for.
LEMMA ClaimsKept ==
  ASSUME Claims, NEW x \in Actors, OthersSame(x), UNCHANGED <<alertState, handled>>,
         stranded \subseteq stranded',
         x \in Sweeps => \A a \in Alerts : /\ FiredBy(x, a)' => FiredBy(x, a)
                                           /\ FiredBy(x, a) => FiredBy(x, a)' \/ a \in stranded'
  PROVE  Claims'
<1>1. ASSUME NEW s \in Sweeps, NEW a \in Alerts
      PROVE  /\ FiredBy(s, a)' => FiredBy(s, a)
             /\ FiredBy(s, a) => FiredBy(s, a)' \/ a \in stranded'
  BY ConstantsTyped DEF OthersSame, FiredBy
<1>2. \A a \in handled' : alertState'[a] = "claimed"
  BY DEF Claims
<1>3. ASSUME NEW a \in Alerts
      PROVE  /\ \A s \in Sweeps : FiredBy(s, a)' => alertState'[a] = "claimed" /\ a \notin handled'
             /\ \A s, r \in Sweeps : FiredBy(s, a)' /\ FiredBy(r, a)' => s = r
             /\ alertState'[a] = "claimed" =>
                  a \in handled' \cup stranded' \/ \E s \in Sweeps : FiredBy(s, a)'
  BY <1>1 DEF Claims, ClaimsAreOwned
<1> QED
  BY <1>2, <1>3 DEF Claims, ClaimsAreOwned

LEMMA ClaimsInit == Init => Claims
BY ConstantsTyped DEF Init, Claims, ClaimsAreOwned, FiredBy, Firing, OrderSteps

LEMMA ClaimsNext == TypeOK /\ Steps /\ Claims /\ [Next]_vars => Claims'
<1> SUFFICES ASSUME TypeOK, Steps, Claims, [Next]_vars PROVE Claims'
  OBVIOUS
<1> USE ConstantsTyped DEF vars, tables, locals, history, env, TypeOK
<1>1. ASSUME NEW h \in Handlers, Peek(h) PROVE Claims'
  <2>1. OthersSame(h) /\ UNCHANGED <<alertState, handled, stranded>>
    BY <1>1 DEF Peek, GoTo, OthersSame
  <2> QED
    BY <2>1, ClaimsKept
<1>2. ASSUME NEW h \in Handlers, PopYes(h) PROVE Claims'
  <2>1. OthersSame(h) /\ UNCHANGED <<alertState, handled, stranded>>
    BY <1>2, ReturnsMoves DEF PopYes, GoTo, OthersSame
  <2> QED
    BY <2>1, ClaimsKept
<1>3. ASSUME NEW h \in Handlers, PopDrop(h) PROVE Claims'
  <2>1. OthersSame(h) /\ UNCHANGED <<alertState, handled, stranded>>
    BY <1>3, ReturnsMoves DEF PopDrop, GoTo, OthersSame
  <2> QED
    BY <2>1, ClaimsKept
<1>4. ASSUME NEW h \in Handlers, NEW p \in Proposals, Propose(h, p) PROVE Claims'
  <2>1. OthersSame(h) /\ UNCHANGED <<alertState, handled, stranded>>
    BY <1>4 DEF Propose, Asks, GoTo, OthersSame
  <2> QED
    BY <2>1, ClaimsKept
<1>5. ASSUME NEW h \in Handlers, Reply(h) PROVE Claims'
  <2>1. OthersSame(h) /\ UNCHANGED <<alertState, handled, stranded>>
    BY <1>5, ReturnsMoves DEF Reply, OthersSame
  <2> QED
    BY <2>1, ClaimsKept
<1>6. ASSUME NEW h \in Handlers, RouteElsewhere(h) PROVE Claims'
  <2>1. OthersSame(h) /\ UNCHANGED <<alertState, handled, stranded>>
    BY <1>6, ReturnsMoves DEF RouteElsewhere, OthersSame
  <2> QED
    BY <2>1, ClaimsKept
<1>7. ASSUME NEW h \in Handlers, ChatFails(h) PROVE Claims'
  <2>1. OthersSame(h) /\ UNCHANGED <<alertState, handled, stranded>>
    BY <1>7, ReturnsMoves DEF ChatFails, Fault, OthersSame
  <2> QED
    BY <2>1, ClaimsKept
<1>8. ASSUME NEW h \in Handlers, NEW a \in Alerts, CreateAlert(h, a) PROVE Claims'
  <2>1. /\ OthersSame(h) /\ alertState[a] = "unset" /\ alertState' = [alertState EXCEPT ![a] = "active"]
        /\ UNCHANGED <<handled, stranded>>
    BY <1>8, ReturnsMoves DEF CreateAlert
  <2>2. \A s \in Sweeps, b \in Alerts : FiredBy(s, b)' <=> FiredBy(s, b)
    BY <2>1 DEF OthersSame, FiredBy
  <2>3. a \notin handled /\ \A s \in Sweeps : ~FiredBy(s, a)
    BY <2>1 DEF Claims, ClaimsAreOwned
  <2> QED
    BY <2>1, <2>2, <2>3 DEF Claims, ClaimsAreOwned
<1>9. ASSUME NEW h \in Handlers, PlaceOrder(h) PROVE Claims'
  <2>1. OthersSame(h) /\ UNCHANGED <<alertState, handled, stranded>>
    BY <1>9 DEF PlaceOrder, Asks, GoTo, OthersSame
  <2> QED
    BY <2>1, ClaimsKept
<1>10. ASSUME NEW x \in Actors, Begin(x) PROVE Claims'
  <2>1. /\ OthersSame(x) /\ UNCHANGED <<alertState, handled>> /\ stranded \subseteq stranded'
        /\ \A a \in Alerts : FiredBy(x, a)' => FiredBy(x, a)
        /\ \A a \in Alerts : FiredBy(x, a) => FiredBy(x, a)' \/ a \in stranded'
    BY <1>10 DEF Begin, GoTo, OthersSame, FiredBy, Firing, OrderSteps
  <2> QED
    BY <2>1, ClaimsKept
<1>11. ASSUME NEW x \in Actors, ReadHolding(x) PROVE Claims'
  <2>1. /\ OthersSame(x) /\ UNCHANGED <<alertState, handled>> /\ stranded \subseteq stranded'
        /\ \A a \in Alerts : FiredBy(x, a)' => FiredBy(x, a)
        /\ \A a \in Alerts : FiredBy(x, a) => FiredBy(x, a)' \/ a \in stranded'
    BY <1>11 DEF ReadHolding, GoTo, OthersSame, FiredBy, Firing, OrderSteps
  <2> QED
    BY <2>1, ClaimsKept
<1>12. ASSUME NEW x \in Actors, CommitOrder(x) PROVE Claims'
  <2>1. /\ NextLeg(x) /\ pc[x] \in Firing
        /\ UNCHANGED <<alertState, handled, stranded>>
    BY <1>12 DEF CommitOrder, Firing, OrderSteps
  <2>2. /\ OthersSame(x) /\ pc'[x] \in {"begin", "idle", "notify"}
        /\ x \notin Handlers => pc'[x] # "idle" /\ cause'[x] = cause[x]
    BY <2>1, NextLegMoves
  <2>3. x \in Sweeps => \A a \in Alerts : FiredBy(x, a)' <=> FiredBy(x, a)
    BY <2>1, <2>2 DEF FiredBy, Firing, OrderSteps
  <2> QED
    BY <2>1, <2>2, <2>3, ClaimsKept
<1>13. ASSUME NEW x \in Actors, RejectOrder(x) PROVE Claims'
  <2>1. /\ NextLeg(x) /\ pc[x] \in Firing
        /\ UNCHANGED <<alertState, handled, stranded>>
    BY <1>13 DEF RejectOrder, Firing, OrderSteps
  <2>2. /\ OthersSame(x) /\ pc'[x] \in {"begin", "idle", "notify"}
        /\ x \notin Handlers => pc'[x] # "idle" /\ cause'[x] = cause[x]
    BY <2>1, NextLegMoves
  <2>3. x \in Sweeps => \A a \in Alerts : FiredBy(x, a)' <=> FiredBy(x, a)
    BY <2>1, <2>2 DEF FiredBy, Firing, OrderSteps
  <2> QED
    BY <2>1, <2>2, <2>3, ClaimsKept
<1>14. ASSUME NEW x \in Actors, DividesByZero(x) PROVE Claims'
  <2>1. /\ Abort(x) /\ pc[x] \in Firing
        /\ UNCHANGED <<alertState, handled, stranded>>
    BY <1>14, AbortMoves DEF DividesByZero, Firing, OrderSteps
  <2>2. /\ OthersSame(x) /\ pc'[x] \in {"idle", "unclaim"}
        /\ x \notin Handlers => pc'[x] # "idle" /\ cause'[x] = cause[x]
    BY <2>1, AbortMoves
  <2>3. x \in Sweeps => \A a \in Alerts : FiredBy(x, a)' <=> FiredBy(x, a)
    BY <2>1, <2>2 DEF FiredBy, Firing, OrderSteps
  <2> QED
    BY <2>1, <2>2, <2>3, ClaimsKept
<1>15. ASSUME NEW x \in Actors, OrderFails(x) PROVE Claims'
  <2>1. /\ Abort(x) /\ pc[x] \in Firing
        /\ UNCHANGED <<alertState, handled, stranded>>
    BY <1>15, AbortMoves DEF OrderFails, Firing, OrderSteps
  <2>2. /\ OthersSame(x) /\ pc'[x] \in {"idle", "unclaim"}
        /\ x \notin Handlers => pc'[x] # "idle" /\ cause'[x] = cause[x]
    BY <2>1, AbortMoves
  <2>3. x \in Sweeps => \A a \in Alerts : FiredBy(x, a)' <=> FiredBy(x, a)
    BY <2>1, <2>2 DEF FiredBy, Firing, OrderSteps
  <2> QED
    BY <2>1, <2>2, <2>3, ClaimsKept
<1>16. ASSUME NEW s \in Sweeps, SweepStart(s) PROVE Claims'
  <2>1. /\ OthersSame(s) /\ UNCHANGED <<alertState, handled>> /\ stranded \subseteq stranded'
        /\ \A a \in Alerts : FiredBy(s, a)' => FiredBy(s, a)
        /\ \A a \in Alerts : FiredBy(s, a) => FiredBy(s, a)' \/ a \in stranded'
    BY <1>16 DEF SweepStart, GoTo, Active, OthersSame, FiredBy, Firing, OrderSteps
  <2> QED
    BY <2>1, ClaimsKept
<1>17. ASSUME NEW s \in Sweeps, SweepEnd(s) PROVE Claims'
  <2>1. /\ OthersSame(s) /\ UNCHANGED <<alertState, handled>> /\ stranded \subseteq stranded'
        /\ \A a \in Alerts : FiredBy(s, a)' => FiredBy(s, a)
        /\ \A a \in Alerts : FiredBy(s, a) => FiredBy(s, a)' \/ a \in stranded'
    BY <1>17, ReturnsMoves DEF SweepEnd, OthersSame, FiredBy, Firing, OrderSteps
  <2> QED
    BY <2>1, ClaimsKept
<1>18. ASSUME NEW s \in Sweeps, NEW a \in Alerts, SweepSkip(s, a) PROVE Claims'
  BY <1>18 DEF SweepSkip, Claims, ClaimsAreOwned, FiredBy
<1>19. ASSUME NEW s \in Sweeps, NEW a \in Alerts, SweepClaim(s, a) PROVE Claims'
  <2>1. CASE alertState[a] = "active"
    <3>1. /\ OthersSame(s) /\ pc[s] = "next" /\ pc'[s] \in {"size", "notify"} /\ cause'[s] = a
          /\ alertState' = [alertState EXCEPT ![a] = "claimed"]
          /\ UNCHANGED <<handled, stranded>>
      BY <1>19, <2>1 DEF SweepClaim, Fires, GoTo, OthersSame
    <3>2. a \notin handled /\ \A r \in Sweeps : ~FiredBy(r, a)
      BY <2>1 DEF Claims, ClaimsAreOwned
    <3>3. /\ FiredBy(s, a)'
          /\ \A b \in Alerts : ~FiredBy(s, b) /\ (FiredBy(s, b)' => b = a)
          /\ \A r \in Sweeps \ {s}, b \in Alerts : FiredBy(r, b)' <=> FiredBy(r, b)
      BY <3>1 DEF OthersSame, FiredBy, Firing, OrderSteps
    <3>4. \A b \in Alerts \ {a} : alertState'[b] = alertState[b]
      BY <3>1
    <3>5. alertState'[a] = "claimed"
      BY <3>1
    <3>6. \A b \in handled' : alertState'[b] = "claimed"
      BY <3>1, <3>2, <3>4 DEF Claims
    <3>7. ASSUME NEW b \in Alerts
          PROVE  /\ \A r \in Sweeps : FiredBy(r, b)' => alertState'[b] = "claimed" /\ b \notin handled'
                 /\ \A q, r \in Sweeps : FiredBy(q, b)' /\ FiredBy(r, b)' => q = r
                 /\ alertState'[b] = "claimed" =>
                      b \in handled' \cup stranded' \/ \E r \in Sweeps : FiredBy(r, b)'
      <4>1. CASE b = a
        BY <4>1, <3>1, <3>2, <3>3, <3>5
      <4>2. CASE b # a
        <5>1. \A r \in Sweeps : FiredBy(r, b)' <=> FiredBy(r, b)
          BY <4>2, <3>3
        <5> QED
          BY <4>2, <3>1, <3>4, <5>1 DEF Claims, ClaimsAreOwned
      <4> QED
        BY <4>1, <4>2
    <3> QED
      BY <3>6, <3>7 DEF Claims, ClaimsAreOwned
  <2>2. CASE alertState[a] # "active"
    BY <1>19, <2>2 DEF SweepClaim, Claims, ClaimsAreOwned, FiredBy
  <2> QED
    BY <2>1, <2>2
<1>20. ASSUME NEW s \in Sweeps, NEW a \in Alerts, QuoteFails(s, a) PROVE Claims'
  BY <1>20 DEF QuoteFails, Fault, Claims, ClaimsAreOwned, FiredBy
<1>21. ASSUME NEW s \in Sweeps, ClaimFails(s) PROVE Claims'
  <2>1. /\ OthersSame(s) /\ UNCHANGED <<alertState, handled>> /\ stranded \subseteq stranded'
        /\ \A a \in Alerts : FiredBy(s, a)' => FiredBy(s, a)
        /\ \A a \in Alerts : FiredBy(s, a) => FiredBy(s, a)' \/ a \in stranded'
    BY <1>21, ReturnsMoves DEF ClaimFails, Fault, OthersSame, FiredBy, Firing, OrderSteps
  <2> QED
    BY <2>1, ClaimsKept
<1>22. ASSUME NEW s \in Sweeps, SizeOrder(s) PROVE Claims'
  <2>1. /\ OthersSame(s) /\ UNCHANGED <<alertState, handled>> /\ stranded \subseteq stranded'
        /\ \A a \in Alerts : FiredBy(s, a)' => FiredBy(s, a)
        /\ \A a \in Alerts : FiredBy(s, a) => FiredBy(s, a)' \/ a \in stranded'
    BY <1>22 DEF SizeOrder, GoTo, OthersSame, FiredBy, Firing, OrderSteps
  <2> QED
    BY <2>1, ClaimsKept
<1>23. ASSUME NEW s \in Sweeps, NotifyUser(s) PROVE Claims'
  <2>0. PICK c \in Alerts : c = cause[s]
    BY <1>23 DEF NotifyUser, Steps, Firing
  <2>1. /\ c = cause[s] /\ pc[s] = "notify" /\ OthersSame(s) /\ pc'[s] = "next" 
        /\ handled' = handled \cup {c}
        /\ UNCHANGED <<alertState, stranded>>
    BY <1>23, <2>0 DEF NotifyUser, GoTo, OthersSame
  <2>2. FiredBy(s, c)
    BY <2>1 DEF FiredBy, Firing
  <2>3. /\ \A b \in Alerts : ~FiredBy(s, b)'
        /\ \A r \in Sweeps \ {s}, b \in Alerts : FiredBy(r, b)' <=> FiredBy(r, b)
        /\ \A b \in Alerts : FiredBy(s, b) => b = c
    BY <2>1 DEF OthersSame, FiredBy, Firing, OrderSteps
  <2>4. \A r \in Sweeps : ~FiredBy(r, c)'
    BY <2>1, <2>2, <2>3 DEF Claims, ClaimsAreOwned
  <2>5. c \notin handled /\ alertState[c] = "claimed"
    BY <2>1, <2>2 DEF Claims, ClaimsAreOwned
  <2>6. \A b \in handled' : alertState'[b] = "claimed"
    BY <2>1, <2>5 DEF Claims
  <2>7. ASSUME NEW b \in Alerts
        PROVE  /\ \A r \in Sweeps : FiredBy(r, b)' => alertState'[b] = "claimed" /\ b \notin handled'
               /\ \A q, r \in Sweeps : FiredBy(q, b)' /\ FiredBy(r, b)' => q = r
               /\ alertState'[b] = "claimed" =>
                    b \in handled' \cup stranded' \/ \E r \in Sweeps : FiredBy(r, b)'
    <3>1. CASE b = c
      BY <3>1, <2>1, <2>4
    <3>2. CASE b # c
      <4>1. \A r \in Sweeps : FiredBy(r, b)' <=> FiredBy(r, b)
        BY <3>2, <2>3
      <4>2. /\ alertState'[b] = alertState[b] /\ (b \in handled' <=> b \in handled)
            /\ stranded' = stranded
        BY <3>2, <2>1
      <4> QED
        BY <4>1, <4>2 DEF Claims, ClaimsAreOwned
    <3> QED
      BY <3>1, <3>2
  <2> QED
    BY <2>6, <2>7 DEF Claims, ClaimsAreOwned
<1>24. ASSUME NEW s \in Sweeps, NotifyFails(s) PROVE Claims'
  <2>1. /\ OthersSame(s) /\ UNCHANGED <<alertState, handled>> /\ stranded \subseteq stranded'
        /\ \A a \in Alerts : FiredBy(s, a)' => FiredBy(s, a)
        /\ \A a \in Alerts : FiredBy(s, a) => FiredBy(s, a)' \/ a \in stranded'
    BY <1>24 DEF NotifyFails, Fault, GoTo, OthersSame, FiredBy, Firing, OrderSteps
  <2> QED
    BY <2>1, ClaimsKept
<1>25. ASSUME NEW s \in Sweeps, Unclaim(s) PROVE Claims'
  <2>0. PICK c \in Alerts : c = cause[s]
    BY <1>25 DEF Unclaim, Steps, Firing
  <2>1. /\ c = cause[s] /\ pc[s] = "unclaim" /\ OthersSame(s) /\ pc'[s] = "next" 
        /\ alertState' = [alertState EXCEPT ![c] = "active"]
        /\ UNCHANGED <<handled, stranded>>
    BY <1>25, <2>0 DEF Unclaim, GoTo, OthersSame
  <2>2. FiredBy(s, c)
    BY <2>1 DEF FiredBy, Firing
  <2>3. /\ \A b \in Alerts : ~FiredBy(s, b)'
        /\ \A r \in Sweeps \ {s}, b \in Alerts : FiredBy(r, b)' <=> FiredBy(r, b)
        /\ \A b \in Alerts : FiredBy(s, b) => b = c
    BY <2>1 DEF OthersSame, FiredBy, Firing, OrderSteps
  <2>4. \A r \in Sweeps : ~FiredBy(r, c)'
    BY <2>1, <2>2, <2>3 DEF Claims, ClaimsAreOwned
  <2>5. c \notin handled /\ alertState[c] = "claimed"
    BY <2>1, <2>2 DEF Claims, ClaimsAreOwned
  <2>6. \A b \in handled' : alertState'[b] = "claimed"
    BY <2>1, <2>5 DEF Claims
  <2>7. ASSUME NEW b \in Alerts
        PROVE  /\ \A r \in Sweeps : FiredBy(r, b)' => alertState'[b] = "claimed" /\ b \notin handled'
               /\ \A q, r \in Sweeps : FiredBy(q, b)' /\ FiredBy(r, b)' => q = r
               /\ alertState'[b] = "claimed" =>
                    b \in handled' \cup stranded' \/ \E r \in Sweeps : FiredBy(r, b)'
    <3>1. CASE b = c
      BY <3>1, <2>1, <2>4
    <3>2. CASE b # c
      <4>1. \A r \in Sweeps : FiredBy(r, b)' <=> FiredBy(r, b)
        BY <3>2, <2>3
      <4>2. /\ alertState'[b] = alertState[b] /\ (b \in handled' <=> b \in handled)
            /\ stranded' = stranded
        BY <3>2, <2>1
      <4> QED
        BY <4>1, <4>2 DEF Claims, ClaimsAreOwned
    <3> QED
      BY <3>1, <3>2
  <2> QED
    BY <2>6, <2>7 DEF Claims, ClaimsAreOwned
<1>26. ASSUME NEW s \in Sweeps, UnclaimFails(s) PROVE Claims'
  <2>1. /\ OthersSame(s) /\ UNCHANGED <<alertState, handled>> /\ stranded \subseteq stranded'
        /\ \A a \in Alerts : FiredBy(s, a)' => FiredBy(s, a)
        /\ \A a \in Alerts : FiredBy(s, a) => FiredBy(s, a)' \/ a \in stranded'
    BY <1>26, ReturnsMoves DEF UnclaimFails, Fault, OthersSame, FiredBy, Firing, OrderSteps
  <2> QED
    BY <2>1, ClaimsKept
<1>27. ASSUME NEW t \in Tickers, EditHolding(t) PROVE Claims'
  BY <1>27 DEF EditHolding, Asks, Claims, ClaimsAreOwned, FiredBy
<1>28. ASSUME NEW t \in Tickers, PriceMoves(t) PROVE Claims'
  BY <1>28 DEF PriceMoves, Claims, ClaimsAreOwned, FiredBy
<1>29. CASE Crash
  <2>1. /\ \A s \in Sweeps : pc'[s] = "idle"
        /\ UNCHANGED <<alertState, handled>> /\ stranded \subseteq stranded'
        /\ \A a \in Alerts, s \in Sweeps : FiredBy(s, a) => a \in stranded'
    BY <1>29 DEF Crash, FiredBy
  <2>2. \A a \in Alerts, s \in Sweeps : ~FiredBy(s, a)'
    BY <2>1 DEF FiredBy, Firing, OrderSteps
  <2> QED
    BY <2>1, <2>2 DEF Claims, ClaimsAreOwned
<1>30. CASE UNCHANGED vars
  BY <1>30 DEF Claims, Claims, ClaimsAreOwned, FiredBy
<1>31. ASSUME NEW h \in Handlers, CheckNotHeld(h) PROVE Claims'
  <2>1. OthersSame(h) /\ UNCHANGED <<alertState, handled, stranded>>
    BY <1>31 DEF CheckNotHeld, GoTo, OthersSame
  <2> QED
    BY <2>1, ClaimsKept
<1>32. ASSUME NEW h \in Handlers, AddHolding(h) PROVE Claims'
  <2>1. OthersSame(h) /\ UNCHANGED <<alertState, handled, stranded>>
    BY <1>32, ReturnsMoves DEF AddHolding
  <2> QED
    BY <2>1, ClaimsKept
<1> QED
  BY <1>1, <1>2, <1>3, <1>4, <1>5, <1>6, <1>7, <1>8, <1>9, <1>10, <1>11,
     <1>12, <1>13, <1>14, <1>15, <1>16, <1>17, <1>18, <1>19, <1>20, <1>21,
     <1>22, <1>23, <1>24, <1>25, <1>26, <1>27, <1>28, <1>29, <1>30,
     <1>31, <1>32
  DEF Next, ChatStep, OrderStep, SweepProgress, SweepFault

LEMMA ClaimsAlways == Spec => []Claims
<1>1. TypeOK /\ Steps /\ Claims /\ [Next]_vars => (TypeOK /\ Steps /\ Claims)'
  BY TypeNext, StepsNext, ClaimsNext
<1> QED
  BY TypeInit, ClaimsInit, <1>1, PTL DEF Spec

\* Of any number of overlapping sweeps, one fires an alert at a time, and a claimed
\* alert is never forgotten except by a sweep that was cut short (claim_price_alert,
\* db.py:1095-1105).
THEOREM ClaimsOwned == Spec => []ClaimsAreOwned
<1>1. Claims => ClaimsAreOwned
  BY DEF Claims
<1> QED
  BY ClaimsAlways, <1>1, PTL
(***************************************************************************)
(* An alert's orders are accounted for by its failed notifications.  The   *)
(* strengthening: before its order is committed, and whenever it is given  *)
(* back, an alert has no more orders than failed notifications; the order  *)
(* of a sweep has one leg.                                                 *)
(***************************************************************************)

SingleLeg(s) ==
  /\ \A l, m \in legs[s] : l = m
  /\ pc[s] # "begin" => leg[s] \in legs[s]

Accounts ==
  /\ AlertFillsAccounted
  /\ \A a \in Alerts : alertState[a] # "claimed" => alertFills[a] <= unnoticed[a]
  /\ \A s \in Sweeps, a \in Alerts :
       FiredBy(s, a) /\ pc[s] # "notify" => alertFills[a] <= unnoticed[a]
  /\ \A s \in Sweeps : pc[s] \in OrderSteps => SingleLeg(s)

\* A step of one actor that fills, notifies and claims nothing.
LEMMA AccountsKept ==
  ASSUME Accounts, NEW x \in Actors, OthersSame(x),
         UNCHANGED <<alertFills, unnoticed, alertState>>,
         x \in Sweeps =>
           /\ \A a \in Alerts : FiredBy(x, a)' /\ pc'[x] # "notify" =>
                                  FiredBy(x, a) /\ pc[x] # "notify"
           /\ pc'[x] \in OrderSteps => SingleLeg(x)'
  PROVE  Accounts'
<1>1. \A s \in Sweeps \ {x}, a \in Alerts : FiredBy(s, a)' /\ pc'[s] # "notify" =>
                                               FiredBy(s, a) /\ pc[s] # "notify"
  BY ConstantsTyped DEF OthersSame, FiredBy
<1>2. \A s \in Sweeps \ {x} : pc'[s] \in OrderSteps => SingleLeg(s)'
  BY ConstantsTyped DEF OthersSame, Accounts, SingleLeg
<1> QED
  BY <1>1, <1>2 DEF Accounts, AlertFillsAccounted

LEMMA AccountsInit == Init => Accounts
BY ConstantsTyped
DEF Init, Accounts, AlertFillsAccounted, FiredBy, Firing, OrderSteps, SingleLeg

LEMMA AccountsNext ==
  TypeOK /\ Steps /\ Claims /\ Accounts /\ [Next]_vars => Accounts'
<1> SUFFICES ASSUME TypeOK, Steps, Claims, Accounts, [Next]_vars PROVE Accounts'
  OBVIOUS
<1> USE ConstantsTyped DEF vars, tables, locals, history, env, TypeOK
<1>1. ASSUME NEW h \in Handlers, Peek(h) PROVE Accounts'
  <2>1. OthersSame(h) /\ UNCHANGED <<alertFills, unnoticed, alertState>>
    BY <1>1 DEF Peek, GoTo, OthersSame
  <2> QED
    BY <2>1, ConstantsTyped, AccountsKept
<1>2. ASSUME NEW h \in Handlers, PopYes(h) PROVE Accounts'
  <2>1. OthersSame(h) /\ UNCHANGED <<alertFills, unnoticed, alertState>>
    BY <1>2, ReturnsMoves DEF PopYes, GoTo, OthersSame
  <2> QED
    BY <2>1, ConstantsTyped, AccountsKept
<1>3. ASSUME NEW h \in Handlers, PopDrop(h) PROVE Accounts'
  <2>1. OthersSame(h) /\ UNCHANGED <<alertFills, unnoticed, alertState>>
    BY <1>3, ReturnsMoves DEF PopDrop, GoTo, OthersSame
  <2> QED
    BY <2>1, ConstantsTyped, AccountsKept
<1>4. ASSUME NEW h \in Handlers, NEW p \in Proposals, Propose(h, p) PROVE Accounts'
  <2>1. OthersSame(h) /\ UNCHANGED <<alertFills, unnoticed, alertState>>
    BY <1>4 DEF Propose, Asks, GoTo, OthersSame
  <2> QED
    BY <2>1, ConstantsTyped, AccountsKept
<1>5. ASSUME NEW h \in Handlers, Reply(h) PROVE Accounts'
  <2>1. OthersSame(h) /\ UNCHANGED <<alertFills, unnoticed, alertState>>
    BY <1>5, ReturnsMoves DEF Reply, OthersSame
  <2> QED
    BY <2>1, ConstantsTyped, AccountsKept
<1>6. ASSUME NEW h \in Handlers, RouteElsewhere(h) PROVE Accounts'
  <2>1. OthersSame(h) /\ UNCHANGED <<alertFills, unnoticed, alertState>>
    BY <1>6, ReturnsMoves DEF RouteElsewhere, OthersSame
  <2> QED
    BY <2>1, ConstantsTyped, AccountsKept
<1>7. ASSUME NEW h \in Handlers, ChatFails(h) PROVE Accounts'
  <2>1. OthersSame(h) /\ UNCHANGED <<alertFills, unnoticed, alertState>>
    BY <1>7, ReturnsMoves DEF ChatFails, Fault, OthersSame
  <2> QED
    BY <2>1, ConstantsTyped, AccountsKept
<1>8. ASSUME NEW h \in Handlers, NEW a \in Alerts, CreateAlert(h, a) PROVE Accounts'
  <2>1. /\ OthersSame(h) /\ alertState[a] = "unset" /\ alertState' = [alertState EXCEPT ![a] = "active"]
        /\ UNCHANGED <<alertFills, unnoticed>>
    BY <1>8, ReturnsMoves DEF CreateAlert
  <2>2. \A s \in Sweeps, b \in Alerts : FiredBy(s, b)' <=> FiredBy(s, b)
    BY <2>1 DEF OthersSame, FiredBy
  <2>3. \A s \in Sweeps : pc'[s] = pc[s] /\ (SingleLeg(s) => SingleLeg(s)')
    BY <2>1 DEF OthersSame, SingleLeg
  <2>4. \A b \in Alerts : alertState'[b] # "claimed" => alertFills[b] <= unnoticed[b]
    BY <2>1 DEF Accounts
  <2> QED
    BY <2>1, <2>2, <2>3, <2>4 DEF Accounts, AlertFillsAccounted
<1>9. ASSUME NEW h \in Handlers, PlaceOrder(h) PROVE Accounts'
  <2>1. OthersSame(h) /\ UNCHANGED <<alertFills, unnoticed, alertState>>
    BY <1>9 DEF PlaceOrder, Asks, GoTo, OthersSame
  <2> QED
    BY <2>1, ConstantsTyped, AccountsKept
<1>10. ASSUME NEW x \in Actors, Begin(x) PROVE Accounts'
  <2>1. /\ OthersSame(x) /\ UNCHANGED <<alertFills, unnoticed, alertState>>
        /\ x \in Sweeps => \A a \in Alerts : FiredBy(x, a)' /\ pc'[x] # "notify" =>
                                   FiredBy(x, a) /\ pc[x] # "notify"
    BY <1>10 DEF Begin, GoTo, OthersSame, FiredBy, Firing, OrderSteps
  <2>2. x \in Sweeps /\ pc'[x] \in OrderSteps => SingleLeg(x)'
    BY <1>10 DEF Begin, GoTo, Accounts, SingleLeg, OrderSteps
  <2> QED
    BY <2>1, <2>2, AccountsKept
<1>11. ASSUME NEW x \in Actors, ReadHolding(x) PROVE Accounts'
  <2>1. /\ OthersSame(x) /\ UNCHANGED <<alertFills, unnoticed, alertState>>
        /\ x \in Sweeps => \A a \in Alerts : FiredBy(x, a)' /\ pc'[x] # "notify" =>
                                   FiredBy(x, a) /\ pc[x] # "notify"
    BY <1>11 DEF ReadHolding, GoTo, OthersSame, FiredBy, Firing, OrderSteps
  <2>2. x \in Sweeps /\ pc'[x] \in OrderSteps => SingleLeg(x)'
    BY <1>11 DEF ReadHolding, GoTo, Accounts, SingleLeg, OrderSteps
  <2> QED
    BY <2>1, <2>2, AccountsKept
<1>12. ASSUME NEW x \in Actors, CommitOrder(x) PROVE Accounts'
  <2>1. /\ NextLeg(x) /\ pc[x] = "write"
        /\ UNCHANGED <<unnoticed, alertState>>
        /\ \A a \in Alerts : alertFills'[a] = IF cause[x] = a THEN alertFills[a] + 1 ELSE alertFills[a]
    BY <1>12 DEF CommitOrder, Fill
  <2>2. /\ OthersSame(x) /\ pc'[x] \in {"begin", "idle", "notify"}
        /\ pc'[x] = "begin" => legs[x] # {leg[x]}
        /\ pc'[x] = "idle" => x \in Handlers
    BY <2>1, NextLegMoves
  <2>3. x \in Sweeps => pc'[x] = "notify"
    <3> SUFFICES ASSUME x \in Sweeps, pc'[x] = "begin" PROVE FALSE
      BY <2>2
    <3>1. SingleLeg(x)
      BY <2>1 DEF Accounts, OrderSteps
    <3>2. legs[x] = {leg[x]}
      BY <2>1, <3>1 DEF SingleLeg
    <3> QED
      BY <2>2, <3>2
  <2>4. CASE x \in Handlers
    <3>1. alertFills' = alertFills
      BY <1>12, <2>4 DEF CommitOrder, Fill, Steps
    <3> QED
      BY <2>1, <2>2, <2>4, <3>1, AccountsKept
  <2>5. CASE x \in Sweeps
    <3>1. PICK c \in Alerts : c = cause[x]
      BY <2>1, <2>5 DEF Steps, Firing, OrderSteps
    <3>2. FiredBy(x, c) /\ alertFills[c] <= unnoticed[c] /\ alertState[c] = "claimed"
          /\ \A s \in Sweeps : FiredBy(s, c) => s = x
      BY <2>1, <2>5, <3>1 DEF FiredBy, Firing, OrderSteps, Accounts, Claims, ClaimsAreOwned
    <3>3. alertFills'[c] = alertFills[c] + 1 /\ \A a \in Alerts \ {c} : alertFills'[a] = alertFills[a]
      BY <2>1, <3>1
    <3>4. AlertFillsAccounted'
      BY <2>1, <3>2, <3>3 DEF Accounts, AlertFillsAccounted
    <3>5. \A a \in Alerts : alertState'[a] # "claimed" => alertFills'[a] <= unnoticed'[a]
      BY <2>1, <3>2, <3>3 DEF Accounts
    <3>6. \A s \in Sweeps, a \in Alerts : FiredBy(s, a)' /\ pc'[s] # "notify" =>
                                             s # x /\ a # c /\ FiredBy(s, a) /\ pc[s] # "notify"
      BY <2>2, <2>3, <2>5, <3>2 DEF OthersSame, FiredBy
    <3>7. \A s \in Sweeps : pc'[s] \in OrderSteps => SingleLeg(s)'
      BY <2>2, <2>3, <2>5 DEF Accounts, SingleLeg, OthersSame, OrderSteps
    <3>8. \A s \in Sweeps, a \in Alerts : FiredBy(s, a)' /\ pc'[s] # "notify" =>
                                             alertFills'[a] <= unnoticed'[a]
      BY <2>1, <3>3, <3>6 DEF Accounts
    <3> QED
      BY <3>4, <3>5, <3>7, <3>8 DEF Accounts
  <2> QED
    BY <2>4, <2>5
<1>13. ASSUME NEW x \in Actors, RejectOrder(x) PROVE Accounts'
  <2>1. /\ NextLeg(x) /\ pc[x] = "write"
        /\ UNCHANGED <<alertFills, unnoticed, alertState>>
    BY <1>13 DEF RejectOrder
  <2>2. /\ OthersSame(x) /\ pc'[x] \in {"begin", "idle", "notify"}
        /\ pc'[x] = "begin" => legs[x] # {leg[x]}
        /\ pc'[x] = "idle" => x \in Handlers
    BY <2>1, NextLegMoves
  <2>3. x \in Sweeps => pc'[x] = "notify"
    <3> SUFFICES ASSUME x \in Sweeps, pc'[x] = "begin" PROVE FALSE
      BY <2>2
    <3>1. SingleLeg(x)
      BY <2>1 DEF Accounts, OrderSteps
    <3>2. legs[x] = {leg[x]}
      BY <2>1, <3>1 DEF SingleLeg
    <3> QED
      BY <2>2, <3>2
  <2> QED
    BY <2>1, <2>2, <2>3, AccountsKept DEF OrderSteps
<1>14. ASSUME NEW x \in Actors, DividesByZero(x) PROVE Accounts'
  <2>1. /\ Abort(x) /\ pc[x] \in Firing /\ pc[x] # "notify"
        /\ UNCHANGED <<alertFills, unnoticed, alertState>>
    BY <1>14, AbortMoves DEF DividesByZero, Firing, OrderSteps
  <2>2. /\ OthersSame(x) /\ pc'[x] \in {"idle", "unclaim"}
        /\ x \notin Handlers => cause'[x] = cause[x]
    BY <2>1, AbortMoves
  <2>3. x \in Sweeps => /\ \A a \in Alerts : FiredBy(x, a)' => FiredBy(x, a)
                        /\ pc'[x] \notin OrderSteps
    BY <2>1, <2>2 DEF FiredBy, OrderSteps
  <2> QED
    BY <2>1, <2>2, <2>3, AccountsKept
<1>15. ASSUME NEW x \in Actors, OrderFails(x) PROVE Accounts'
  <2>1. /\ Abort(x) /\ pc[x] \in Firing /\ pc[x] # "notify"
        /\ UNCHANGED <<alertFills, unnoticed, alertState>>
    BY <1>15, AbortMoves DEF OrderFails, Firing, OrderSteps
  <2>2. /\ OthersSame(x) /\ pc'[x] \in {"idle", "unclaim"}
        /\ x \notin Handlers => cause'[x] = cause[x]
    BY <2>1, AbortMoves
  <2>3. x \in Sweeps => /\ \A a \in Alerts : FiredBy(x, a)' => FiredBy(x, a)
                        /\ pc'[x] \notin OrderSteps
    BY <2>1, <2>2 DEF FiredBy, OrderSteps
  <2> QED
    BY <2>1, <2>2, <2>3, AccountsKept
<1>16. ASSUME NEW s \in Sweeps, SweepStart(s) PROVE Accounts'
  <2>1. /\ OthersSame(s) /\ UNCHANGED <<alertFills, unnoticed, alertState>>
        /\ s \in Sweeps => \A a \in Alerts : FiredBy(s, a)' /\ pc'[s] # "notify" =>
                                   FiredBy(s, a) /\ pc[s] # "notify"
    BY <1>16 DEF SweepStart, GoTo, Active, OthersSame, FiredBy, Firing, OrderSteps
  <2>2. s \in Sweeps /\ pc'[s] \in OrderSteps => SingleLeg(s)'
    BY <1>16 DEF SweepStart, GoTo, Active, Accounts, SingleLeg, OrderSteps
  <2> QED
    BY <2>1, <2>2, AccountsKept
<1>17. ASSUME NEW s \in Sweeps, SweepEnd(s) PROVE Accounts'
  <2>1. /\ OthersSame(s) /\ UNCHANGED <<alertFills, unnoticed, alertState>>
        /\ s \in Sweeps => \A a \in Alerts : FiredBy(s, a)' /\ pc'[s] # "notify" =>
                                   FiredBy(s, a) /\ pc[s] # "notify"
    BY <1>17, ReturnsMoves DEF SweepEnd, OthersSame, FiredBy, Firing, OrderSteps
  <2>2. s \in Sweeps /\ pc'[s] \in OrderSteps => SingleLeg(s)'
    BY <1>17, ReturnsMoves DEF SweepEnd, Accounts, SingleLeg, OrderSteps
  <2> QED
    BY <2>1, <2>2, AccountsKept
<1>18. ASSUME NEW s \in Sweeps, NEW a \in Alerts, SweepSkip(s, a) PROVE Accounts'
  BY <1>18 DEF SweepSkip, Accounts, AlertFillsAccounted, FiredBy, SingleLeg
<1>19. ASSUME NEW s \in Sweeps, NEW a \in Alerts, SweepClaim(s, a) PROVE Accounts'
  <2>1. CASE alertState[a] = "active"
    <3>1. /\ OthersSame(s) /\ pc'[s] \in {"size", "notify"} /\ cause'[s] = a
          /\ alertState' = [alertState EXCEPT ![a] = "claimed"]
          /\ UNCHANGED <<alertFills, unnoticed>>
      BY <1>19, <2>1 DEF SweepClaim, Fires, GoTo, OthersSame
    <3>2. alertFills[a] <= unnoticed[a]
      BY <2>1 DEF Accounts
    <3>3. /\ \A b \in Alerts : FiredBy(s, b)' => b = a
          /\ \A r \in Sweeps \ {s}, b \in Alerts : FiredBy(r, b)' => FiredBy(r, b) /\ pc'[r] = pc[r]
      BY <3>1 DEF OthersSame, FiredBy
    <3>4. \A r \in Sweeps : pc'[r] \in OrderSteps => SingleLeg(r)'
      BY <3>1 DEF Accounts, SingleLeg, OthersSame, OrderSteps
    <3>5. \A b \in Alerts : alertState'[b] # "claimed" => alertState[b] # "claimed"
      BY <3>1
    <3>6. ASSUME NEW r \in Sweeps, NEW b \in Alerts, FiredBy(r, b)', pc'[r] # "notify"
          PROVE  alertFills'[b] <= unnoticed'[b]
      <4>1. CASE r = s
        BY <3>1, <3>2, <3>3, <3>6, <4>1
      <4>2. CASE r # s
        BY <3>1, <3>3, <3>6, <4>2 DEF Accounts
      <4> QED
        BY <4>1, <4>2
    <3>7. AlertFillsAccounted' /\ \A b \in Alerts : alertState'[b] # "claimed" => alertFills'[b] <= unnoticed'[b]
      BY <3>1, <3>5 DEF Accounts, AlertFillsAccounted
    <3> QED
      BY <3>4, <3>6, <3>7 DEF Accounts
  <2>2. CASE alertState[a] # "active"
    BY <1>19, <2>2 DEF SweepClaim, Accounts, AlertFillsAccounted, FiredBy, SingleLeg
  <2> QED
    BY <2>1, <2>2
<1>20. ASSUME NEW s \in Sweeps, NEW a \in Alerts, QuoteFails(s, a) PROVE Accounts'
  BY <1>20 DEF QuoteFails, Fault, Accounts, AlertFillsAccounted, FiredBy, SingleLeg
<1>21. ASSUME NEW s \in Sweeps, ClaimFails(s) PROVE Accounts'
  <2>1. /\ OthersSame(s) /\ UNCHANGED <<alertFills, unnoticed, alertState>>
        /\ s \in Sweeps => \A a \in Alerts : FiredBy(s, a)' /\ pc'[s] # "notify" =>
                                   FiredBy(s, a) /\ pc[s] # "notify"
    BY <1>21, ReturnsMoves DEF ClaimFails, Fault, OthersSame, FiredBy, Firing, OrderSteps
  <2>2. s \in Sweeps /\ pc'[s] \in OrderSteps => SingleLeg(s)'
    BY <1>21, ReturnsMoves DEF ClaimFails, Fault, Accounts, SingleLeg, OrderSteps
  <2> QED
    BY <2>1, <2>2, AccountsKept
<1>22. ASSUME NEW s \in Sweeps, SizeOrder(s) PROVE Accounts'
  <2>1. /\ OthersSame(s) /\ UNCHANGED <<alertFills, unnoticed, alertState, cause>>
        /\ pc[s] = "size" /\ pc'[s] \in {"begin", "notify"}
    BY <1>22 DEF SizeOrder, GoTo, OthersSame
  <2>2. pc'[s] = "begin" => \E l : legs'[s] = {l}
    <3> SUFFICES ASSUME pc'[s] = "begin" PROVE \E l : legs'[s] = {l}
      OBVIOUS
    <3>1. PICK n : legs' = [legs EXCEPT ![s] = {[ticker |-> alert[cause[s]].ticker,
                                                side |-> alert[cause[s]].side, qty |-> n]}]
      BY <1>22 DEF SizeOrder, GoTo
    <3> QED
      BY <3>1
  <2>3. \A a \in Alerts : FiredBy(s, a)' => FiredBy(s, a)
    BY <2>1 DEF FiredBy, Firing
  <2> QED
    BY <2>1, <2>2, <2>3, AccountsKept DEF SingleLeg, OrderSteps
<1>23. ASSUME NEW s \in Sweeps, NotifyUser(s) PROVE Accounts'
  <2>1. /\ OthersSame(s) /\ UNCHANGED <<alertFills, unnoticed, alertState>>
        /\ s \in Sweeps => \A a \in Alerts : FiredBy(s, a)' /\ pc'[s] # "notify" =>
                                   FiredBy(s, a) /\ pc[s] # "notify"
    BY <1>23 DEF NotifyUser, GoTo, OthersSame, FiredBy, Firing, OrderSteps
  <2>2. s \in Sweeps /\ pc'[s] \in OrderSteps => SingleLeg(s)'
    BY <1>23 DEF NotifyUser, GoTo, Accounts, SingleLeg, OrderSteps
  <2> QED
    BY <2>1, <2>2, AccountsKept
<1>24. ASSUME NEW s \in Sweeps, NotifyFails(s) PROVE Accounts'
  <2>1. PICK c \in Alerts : c = cause[s]
    BY <1>24 DEF NotifyFails, Steps, Firing
  <2>2. /\ OthersSame(s) /\ pc[s] = "notify" /\ pc'[s] = "unclaim" /\ cause'[s] = c
        /\ \A a \in Alerts \ {c} : unnoticed'[a] = unnoticed[a]
        /\ unnoticed'[c] = unnoticed[c] + 1
        /\ UNCHANGED <<alertFills, alertState>>
    BY <1>24, <2>1 DEF NotifyFails, GoTo, OthersSame
  <2>3. \A a \in Alerts : unnoticed[a] <= unnoticed'[a]
    BY <2>2
  <2>4. alertFills[c] <= 1 + unnoticed[c]
    BY DEF Accounts, AlertFillsAccounted
  <2>5. /\ \A b \in Alerts : FiredBy(s, b)' => b = c
        /\ \A r \in Sweeps \ {s}, b \in Alerts : FiredBy(r, b)' => FiredBy(r, b) /\ pc'[r] = pc[r]
    BY <2>2 DEF OthersSame, FiredBy
  <2>6. \A r \in Sweeps : pc'[r] \in OrderSteps => SingleLeg(r)'
    BY <2>2 DEF Accounts, SingleLeg, OthersSame, OrderSteps
  <2>7. \A a \in Alerts : alertFills'[a] <= 1 + unnoticed'[a]
    BY <2>2, <2>3 DEF Accounts, AlertFillsAccounted
  <2>8. \A a \in Alerts : alertState'[a] # "claimed" => alertFills'[a] <= unnoticed'[a]
    BY <2>2, <2>3 DEF Accounts
  <2>9. \A r \in Sweeps, b \in Alerts : FiredBy(r, b)' /\ pc'[r] # "notify" =>
                                           alertFills'[b] <= unnoticed'[b]
    <3>1. alertFills'[c] <= unnoticed'[c]
      BY <2>2, <2>4
    <3>2. ASSUME NEW r \in Sweeps, NEW b \in Alerts, b # c, FiredBy(r, b)', pc'[r] # "notify"
          PROVE  alertFills'[b] <= unnoticed'[b]
      <4>1. FiredBy(r, b) /\ pc[r] # "notify"
        BY <2>5, <3>2
      <4>2. alertFills[b] <= unnoticed[b]
        BY <4>1 DEF Accounts
      <4> QED
        BY <2>2, <3>2, <4>2
    <3> QED
      BY <3>1, <3>2
  <2> QED
    BY <2>6, <2>7, <2>8, <2>9 DEF Accounts, AlertFillsAccounted
<1>25. ASSUME NEW s \in Sweeps, Unclaim(s) PROVE Accounts'
  <2>1. PICK c \in Alerts : c = cause[s]
    BY <1>25 DEF Unclaim, Steps, Firing
  <2>2. /\ OthersSame(s) /\ pc[s] = "unclaim" /\ pc'[s] = "next"
        /\ \A a \in Alerts \ {c} : alertState'[a] = alertState[a]
        /\ UNCHANGED <<alertFills, unnoticed>>
    BY <1>25, <2>1 DEF Unclaim, GoTo, OthersSame
  <2>3. alertFills[c] <= unnoticed[c]
    BY <2>1, <2>2 DEF Accounts, FiredBy, Firing
  <2>4. \A r \in Sweeps, b \in Alerts : FiredBy(r, b)' => FiredBy(r, b) /\ pc'[r] = pc[r]
    BY <2>2 DEF OthersSame, FiredBy, Firing, OrderSteps
  <2>5. \A r \in Sweeps : pc'[r] \in OrderSteps => SingleLeg(r)'
    BY <2>2 DEF Accounts, SingleLeg, OthersSame, OrderSteps
  <2> QED
    BY <2>2, <2>3, <2>4, <2>5 DEF Accounts, AlertFillsAccounted
<1>26. ASSUME NEW s \in Sweeps, UnclaimFails(s) PROVE Accounts'
  <2>1. /\ OthersSame(s) /\ UNCHANGED <<alertFills, unnoticed, alertState>>
        /\ s \in Sweeps => \A a \in Alerts : FiredBy(s, a)' /\ pc'[s] # "notify" =>
                                   FiredBy(s, a) /\ pc[s] # "notify"
    BY <1>26, ReturnsMoves DEF UnclaimFails, Fault, OthersSame, FiredBy, Firing, OrderSteps
  <2>2. s \in Sweeps /\ pc'[s] \in OrderSteps => SingleLeg(s)'
    BY <1>26, ReturnsMoves DEF UnclaimFails, Fault, Accounts, SingleLeg, OrderSteps
  <2> QED
    BY <2>1, <2>2, AccountsKept
<1>27. ASSUME NEW t \in Tickers, EditHolding(t) PROVE Accounts'
  BY <1>27 DEF EditHolding, Asks, Accounts, AlertFillsAccounted, FiredBy, SingleLeg
<1>28. ASSUME NEW t \in Tickers, PriceMoves(t) PROVE Accounts'
  BY <1>28 DEF PriceMoves, Accounts, AlertFillsAccounted, FiredBy, SingleLeg
<1>29. CASE Crash
  <2>1. /\ \A s \in Sweeps : pc'[s] = "idle"
        /\ UNCHANGED <<alertState, alertFills, unnoticed>>
    BY <1>29 DEF Crash
  <2> QED
    BY <2>1 DEF Accounts, AlertFillsAccounted, FiredBy, Firing, OrderSteps
<1>30. CASE UNCHANGED vars
  BY <1>30 DEF Accounts, Accounts, AlertFillsAccounted, FiredBy, SingleLeg
<1>31. ASSUME NEW h \in Handlers, CheckNotHeld(h) PROVE Accounts'
  <2>1. OthersSame(h) /\ UNCHANGED <<alertFills, unnoticed, alertState>>
    BY <1>31 DEF CheckNotHeld, GoTo, OthersSame
  <2> QED
    BY <2>1, ConstantsTyped, AccountsKept
<1>32. ASSUME NEW h \in Handlers, AddHolding(h) PROVE Accounts'
  <2>1. OthersSame(h) /\ UNCHANGED <<alertFills, unnoticed, alertState>>
    BY <1>32, ReturnsMoves DEF AddHolding
  <2> QED
    BY <2>1, ConstantsTyped, AccountsKept
<1> QED
  BY <1>1, <1>2, <1>3, <1>4, <1>5, <1>6, <1>7, <1>8, <1>9, <1>10, <1>11,
     <1>12, <1>13, <1>14, <1>15, <1>16, <1>17, <1>18, <1>19, <1>20, <1>21,
     <1>22, <1>23, <1>24, <1>25, <1>26, <1>27, <1>28, <1>29, <1>30,
     <1>31, <1>32
  DEF Next, ChatStep, OrderStep, SweepProgress, SweepFault

\* Overlapping sweeps never execute an alert's order twice on their own: every order
\* beyond the first follows a failed notification of the one before
\* (sweep_price_alerts, price_alerts.py:119-128).
THEOREM FillsAccounted == Spec => []AlertFillsAccounted
<1>1. TypeOK /\ Steps /\ Claims /\ Accounts /\ [Next]_vars => (TypeOK /\ Steps /\ Claims /\ Accounts)'
  BY TypeNext, StepsNext, ClaimsNext, AccountsNext
<1>2. Accounts => AlertFillsAccounted
  BY DEF Accounts
<1> QED
  BY TypeInit, ClaimsInit, AccountsInit, <1>1, <1>2, PTL DEF Spec

-----------------------------------------------------------------------------
(* The two together, for proposals and for alerts *)

\* What is executed of a proposal in execute_order is what one confirmation asked for.
THEOREM ProposalsSafe == Spec => []ProposalsHold
BY FilledOnce, DroppedStaysUnfilled, PTL DEF ProposalsHold

\* Overlapping calls of sweep_price_alerts neither fire an alert twice nor lose it.
THEOREM AlertsSafe == Spec => []AlertsAccounted
BY ClaimsOwned, FillsAccounted, PTL DEF AlertsAccounted

-----------------------------------------------------------------------------
(***************************************************************************)
(* The conversation (ChatThread, of MCPaperTrading): a message acts on     *)
(* what it means, and a yes executes what the conversation has come to.    *)
(* The strengthening says what a request knows and has done (Sound), and,  *)
(* while requests do not overlap, that nothing has been answered since a   *)
(* pending order was asked for (InTurn).                                   *)
(***************************************************************************)

LEMMA Least == ASSUME NEW S \in SUBSET Nat, S # {} PROVE \E n \in S : \A m \in S : n <= m
<1>1. PICK n \in S : \A m \in S : ~(<<m, n>> \in OpToRel(<, Nat))
  BY NatLessThanWellFounded, WFMin
<1>2. OpToRel(<, Nat) = {p \in Nat \X Nat : p[1] < p[2]}
  BY DEF OpToRel
<1>3. ASSUME NEW m \in S PROVE n <= m
  <2>1. <<m, n>> \notin {p \in Nat \X Nat : p[1] < p[2]}
    BY <1>1, <1>2
  <2> QED
    BY <2>1
<1> QED
  BY <1>3

\* Some of the rows read is the latest.
LEMMA LatestExists ==
  ASSUME NEW n \in Nat, NEW S \in SUBSET (1..n), S # {}
  PROVE  \E i \in S : \A j \in S : j <= i
<1> DEFINE back == {n - i : i \in S}
<1>1. back # {} /\ back \in SUBSET Nat
  <2>1. ASSUME NEW i \in S PROVE n - i \in Nat
    BY S \subseteq 1..n
  <2>2. back # {}
    OBVIOUS
  <2> QED
    BY <2>1, <2>2
<1>2. PICK x \in back : \A y \in back : x <= y
  BY <1>1, Least
<1>3. PICK i \in S : x = n - i
  OBVIOUS
<1>4. ASSUME NEW j \in S PROVE j <= i
  <2>1. n - j \in back
    OBVIOUS
  <2>2. n - i <= n - j
    BY <1>2, <1>3, <2>1
  <2>3. i \in Nat /\ j \in Nat
    OBVIOUS
  <2> QED
    BY <2>2, <2>3
<1> QED
  BY <1>4

\* What a request knows and has done: nothing before its handler has run; a ticker that its
\* message names, or that the conversation had; and no part in an outage that lasts.
Knows(q) ==
  /\ q.message.how = "listed" => q.ticker = q.message.names
  /\ q.ticker \in {q.message.names, Nobody} \/ Chat!CarriedOver(q, q.ticker)

Meant(q) ==
  LET a == q.act
  IN  /\ a.kind \in {"alert", "watch", "unwatch"} =>
           /\ q.message.how \in {"listed", "guessed"}
           /\ a.legs = {q.message.names} \/ q.message.how = "guessed"
      /\ a.kind \in {"alert", "watch", "unwatch", "hold"} /\ a.legs # {q.message.names} =>
           q.message.how \in {"guessed", "words", "nothing"} /\ Chat!CarriedOver(q, q.ticker)

CutOff(q) ==
  q.cut =>
    /\ outage
    /\ q.at = "handle" => q.intent = "general"
    /\ q.at = "answer" => q.act.kind \in {"none", "confirm"} /\ q.source = "fixed"

Sound(q) ==
  /\ q.readAt <= Len(thread) /\ q.row <= Len(thread)
  /\ q.at # "answer" => q.act = Chat!NoAct /\ q.source = "fixed"
  /\ q.at = "handle" => Knows(q)
  /\ Meant(q) /\ CutOff(q)

LEMMA OutcomesSay ==
  ASSUME NEW q \in Chat!Locals, outage \in BOOLEAN, NEW o \in Chat!Outcomes(q)
  PROVE  /\ o.act \in Chat!Acts /\ o.source \in {"fixed", "data", "model"}
         /\ o.act.kind # "confirm"
         /\ o.act.kind = "propose" => o.act.legs # {}
         /\ o.act.kind \in {"alert", "watch", "unwatch"} =>
              /\ q.ticker # Nobody /\ o.act.legs = {q.ticker}
              /\ Chat!Resolve(q.message) # {Nobody}
         /\ o.act.kind = "hold" =>
              q.ticker # Nobody /\ o.act.legs = {q.ticker} /\ q.message.how # "token"
         /\ outage /\ q.intent = "general" => o.act = Chat!NoAct /\ o.source = "fixed"
<1> USE DEF Chat!Says, Chat!Does, Chat!Act, Chat!NoAct, Chat!Acts
<1>1. q.ticker \in Tickers \cup {Nobody} /\ q.intent \in Chat!Intents
  BY DEF Chat!Locals
<1>2. CASE q.intent \in {"portfolio_status", "ticker_question", "portfolio_fit", "advice_request",
                         "stock_discovery_request", "list_alerts", "general", "full_report_request",
                         "end_voice_session", "daily_briefing"}
  BY <1>2 DEF Chat!Outcomes, Chat!PortfolioStatus, Chat!TickerQuestion, Chat!PortfolioFit,
     Chat!Advice, Chat!Discovery, Chat!ListAlerts, Chat!General, Chat!Synthesized
<1>3. CASE q.intent = "place_order"
  BY <1>1, <1>3 DEF Chat!Outcomes, Chat!PlaceOrder, Chat!Batches
<1>4. CASE q.intent = "create_alert"
  BY <1>1, <1>4 DEF Chat!Outcomes, Chat!CreateAlert, Chat!NamedAgain
<1>5. CASE q.intent = "watchlist_add"
  BY <1>1, <1>5 DEF Chat!Outcomes, Chat!WatchlistAdd, Chat!NamedAgain
<1>6. CASE q.intent = "watchlist_remove"
  BY <1>1, <1>6 DEF Chat!Outcomes, Chat!WatchlistRemove, Chat!NamedAgain
<1>7. CASE q.intent = "add_holding"
  BY <1>1, <1>7 DEF Chat!Outcomes, Chat!AddHolding, Chat!Attempts
<1> QED
  BY <1>1, <1>2, <1>3, <1>4, <1>5, <1>6, <1>7 DEF Chat!Intents, Chat!TickerScoped

\* The ticker that is carried over is one that the request has read.
LEMMA CarriesOver ==
  ASSUME NEW q \in Chat!Locals, thread \in Seq(Chat!Rows), q.readAt <= Len(thread),
         Chat!MostRecentTicker(q) # Nobody
  PROVE  Chat!MostRecentTicker(q) \in Tickers /\ Chat!CarriedOver(q, Chat!MostRecentTicker(q))
<1> DEFINE T == {i \in Chat!Window(q) : thread[i].ticker # Nobody}
           last == CHOOSE i \in T : \A j \in T : j <= i
<1>1. q.readAt \in Nat /\ T \subseteq 1..q.readAt
  BY DEF Chat!Window, Chat!Locals
<1>2. T # {}
  BY DEF Chat!MostRecentTicker
<1>3. last \in T /\ \A j \in T : j <= last
  BY <1>1, <1>2, LatestExists
<1>4. Chat!MostRecentTicker(q) = thread[last].ticker
  BY <1>2 DEF Chat!MostRecentTicker
<1>5. last \in Chat!Window(q) /\ thread[last].ticker # Nobody
  BY <1>3
<1>6. \A j \in Chat!Window(q) : j > last => thread[j].ticker = Nobody
  <2> SUFFICES ASSUME NEW j \in Chat!Window(q), j > last, thread[j].ticker # Nobody PROVE FALSE
    OBVIOUS
  <2>1. j \in T
    OBVIOUS
  <2> HIDE DEF T, last
  <2>2. j <= last /\ j \in Nat /\ last \in Nat
    BY <1>1, <1>3, <2>1
  <2> QED
    BY <2>2
<1>7. last \in 1..Len(thread)
  BY <1>1, <1>3
<1>8. thread[last] \in Chat!Rows
  BY <1>7
<1> QED
  BY <1>4, <1>5, <1>6, <1>8 DEF Chat!CarriedOver, Chat!Rows

\* Rows are only added: what a request has read stays.
Extends == thread' = thread \/ \E r \in Chat!Rows : thread' = Append(thread, r)

LEMMA ReadStays ==
  ASSUME thread \in Seq(Chat!Rows), Extends, NEW q \in Chat!Locals, q.readAt <= Len(thread), NEW t
  PROVE  Chat!CarriedOver(q, t)' <=> Chat!CarriedOver(q, t)
<1>1. \A i \in Chat!Window(q) : i \in 1..Len(thread)
  BY DEF Chat!Window, Chat!Locals
<1>2. \A i \in 1..Len(thread) : thread'[i] = thread[i]
  BY DEF Extends
<1> QED
  BY <1>1, <1>2 DEF Chat!CarriedOver, Chat!Window

LEMMA RowsAreAdded ==
  ASSUME thread \in Seq(Chat!Rows), Extends
  PROVE  /\ thread' \in Seq(Chat!Rows) /\ Len(thread) <= Len(thread')
         /\ \A i \in 1..Len(thread) : thread'[i] = thread[i]
BY DEF Extends

\* What has been read and done is not undone by new rows.
LEMMA StaysSound ==
  ASSUME thread \in Seq(Chat!Rows), Extends, outage' = outage, NEW q \in Chat!Locals, Sound(q)
  PROVE  Sound(q)'
<1>1. Len(thread) <= Len(thread') /\ Len(thread) \in Nat /\ Len(thread') \in Nat
  BY RowsAreAdded
<1>2. \A t : Chat!CarriedOver(q, t)' <=> Chat!CarriedOver(q, t)
  BY ReadStays DEF Sound
<1>3. q.readAt \in Nat /\ q.row \in Nat
  BY DEF Chat!Locals
<1>4. Knows(q) => Knows(q)'
  BY <1>2 DEF Knows
<1>5. Meant(q)'
  BY <1>2 DEF Meant, Sound
<1>6. CutOff(q)'
  BY DEF CutOff, Sound
<1> QED
  BY <1>1, <1>3, <1>4, <1>5, <1>6 DEF Sound

\* One request takes the step: the others stay as they are.
LEMMA OneMoves ==
  ASSUME Chat!TypeOK, NEW h \in Handlers, NEW r \in Chat!Locals, req' = [req EXCEPT ![h] = r]
  PROVE  /\ req' \in [Handlers -> Chat!Locals]
         /\ req'[h] = r
         /\ \A g \in Handlers : g # h => req'[g] = req[g]
BY DEF Chat!TypeOK

AllSound == \A h \in Handlers : Sound(req[h])

LEMMA MoverSound ==
  ASSUME Chat!TypeOK, AllSound, NEW h \in Handlers, NEW r \in Chat!Locals, req' = [req EXCEPT ![h] = r],
         Extends, outage' = outage, Sound(r)'
  PROVE  AllSound'
<1>1. \A g \in Handlers : g # h => req'[g] = req[g]
  BY OneMoves
<1>2. req'[h] = r
  BY OneMoves
<1>3. ASSUME NEW g \in Handlers PROVE Sound(req[g])'
  <2>1. CASE g = h
    BY <1>2, <2>1
  <2>2. CASE g # h
    <3>1. PICK q \in Chat!Locals : q = req[g]
      BY DEF Chat!TypeOK
    <3>2. Sound(q) /\ thread \in Seq(Chat!Rows)
      BY <3>1 DEF Chat!TypeOK, AllSound
    <3>3. Sound(q)'
      BY <3>2, StaysSound
    <3> QED
      BY <1>1, <2>2, <3>1, <3>3
  <2> QED
    BY <2>1, <2>2
<1> QED
  BY <1>3 DEF AllSound

\* While requests do not overlap: one is under way, nothing has been answered since it was
\* made, nor since a pending order was asked for; and none is pending while a message is
\* considered.
NoAnswerAfter(n) == \A i \in 1..Len(thread) : i > n => thread[i].kind # "answer"

Turn(q) ==
  /\ q.at \notin {"idle", "asked"} => NoAnswerAfter(q.row)
  /\ q.at \in {"classify", "handle"} \/ (q.at = "answer" /\ q.act.kind # "propose") =>
       proposed = Nobody
  /\ q.act.kind = "confirm" =>
       \A i \in 1..q.row - 1 : i > q.act.by => thread[i].kind # "answer"

Standing == proposed # Nobody => NoAnswerAfter(proposed.by)

InTurn ==
  ~overlapped =>
    /\ \A g, h \in Handlers : req[g].at # "idle" /\ req[h].at # "idle" => g = h
    /\ \A h \in Handlers : Turn(req[h])
    /\ Standing

ChatInv == Chat!TypeOK /\ AllSound /\ InTurn

LEMMA TurnPasses ==
  ASSUME ChatInv, NEW h \in Handlers, NEW r \in Chat!Locals, req' = [req EXCEPT ![h] = r],
         ~overlapped' => /\ \A g \in Handlers \ {h} : req[g].at = "idle"
                         /\ Turn(r)' /\ Standing'
  PROVE  InTurn'
<1> SUFFICES ASSUME ~overlapped' PROVE InTurn'
  BY DEF InTurn
<1>1. req'[h] = r /\ \A g \in Handlers : g # h => req'[g] = req[g]
  BY OneMoves DEF ChatInv
<1>2. \A g \in Handlers : g # h => req'[g].at = "idle"
  BY <1>1
<1>3. ASSUME NEW g \in Handlers PROVE Turn(req[g])'
  <2>1. CASE g = h
    BY <1>1, <2>1
  <2>2. CASE g # h
    <3>1. req[g].at = "idle" /\ req'[g] = req[g]
      BY <1>1, <2>2
    <3>2. req[g].act = Chat!NoAct
      BY <3>1 DEF ChatInv, AllSound, Sound
    <3> QED
      BY <3>1, <3>2 DEF Turn, Chat!NoAct
  <2> QED
    BY <2>1, <2>2
<1> QED
  BY <1>2, <1>3 DEF InTurn

\* A step of a request that is under way.
LEMMA StepKeeps ==
  ASSUME ChatInv, NEW h \in Handlers, NEW r \in Chat!Locals, req' = [req EXCEPT ![h] = r],
         req[h].at # "idle", overlapped' = overlapped, outage' = outage, Extends,
         proposed' \in Chat!Proposed \cup {Nobody}, chatFaults' \in 0..MaxFaults,
         Sound(r)', ~overlapped => Turn(r)' /\ Standing'
  PROVE  ChatInv'
<1>1. req' \in [Handlers -> Chat!Locals]
  BY OneMoves DEF ChatInv
<1>2. thread' \in Seq(Chat!Rows)
  BY RowsAreAdded DEF ChatInv, Chat!TypeOK
<1>3. Chat!TypeOK'
  BY <1>1, <1>2 DEF ChatInv, Chat!TypeOK
<1>4. AllSound'
  BY MoverSound DEF ChatInv
<1>5. ~overlapped' => \A g \in Handlers \ {h} : req[g].at = "idle"
  BY DEF ChatInv, InTurn
<1>6. InTurn'
  BY <1>5, TurnPasses
<1> QED
  BY <1>3, <1>4, <1>6 DEF ChatInv

LEMMA ChatInit == Chat!Init => ChatInv
<1> SUFFICES ASSUME Chat!Init PROVE ChatInv
  OBVIOUS
<1>1. Chat!Idle \in Chat!Locals
  BY DEF Chat!Idle, Chat!Locals, Chat!NoAct, Chat!Acts, Chat!Messages, Chat!Intents, Chat!Steps
<1>2. req = [h \in Handlers |-> Chat!Idle] /\ thread = <<>> /\ proposed = Nobody
  BY DEF Chat!Init
<1>3. Chat!TypeOK
  <2>1. req \in [Handlers -> Chat!Locals]
    BY <1>1, <1>2
  <2>2. thread \in Seq(Chat!Rows)
    BY <1>2
  <2>3. overlapped \in BOOLEAN /\ outage \in BOOLEAN
    BY DEF Chat!Init
  <2>4. chatFaults \in 0..MaxFaults
    BY BoundsAssumption DEF Chat!Init
  <2> QED
    BY <1>2, <2>1, <2>2, <2>3, <2>4 DEF Chat!TypeOK
<1>4. Sound(Chat!Idle)
  BY <1>2 DEF Sound, Chat!Idle, Meant, CutOff, Chat!NoAct
<1>5. Turn(Chat!Idle) /\ Chat!Idle.at = "idle"
  BY <1>2 DEF Turn, Chat!Idle, Chat!NoAct
<1> QED
  BY <1>2, <1>3, <1>4, <1>5 DEF ChatInv, AllSound, InTurn, Standing

LEMMA AskKeeps == ASSUME ChatInv, NEW h \in Handlers, Chat!Ask(h) PROVE ChatInv'
<1>1. thread' = thread /\ proposed' = proposed /\ outage' = outage /\ chatFaults' = chatFaults
  BY DEF Chat!Ask, Chat!env
<1>2. thread \in Seq(Chat!Rows) /\ Len(thread) \in Nat /\ outage \in BOOLEAN /\ req \in [Handlers -> Chat!Locals]
  BY DEF ChatInv, Chat!TypeOK
<1>3. PICK r \in Chat!Locals : r = [Chat!Idle EXCEPT !.at = "asked", !.readAt = Len(thread), !.cut = outage]
  BY <1>2 DEF Chat!Idle, Chat!Locals, Chat!NoAct, Chat!Acts, Chat!Messages, Chat!Intents, Chat!Steps
<1>4. req' = [req EXCEPT ![h] = r]
  BY <1>3 DEF Chat!Ask
<1>5. r.at = "asked" /\ r.readAt = Len(thread) /\ r.row = 0 /\ r.act = Chat!NoAct /\ r.source = "fixed" /\ r.cut = outage
  BY <1>3 DEF Chat!Idle
<1>6. Sound(r)'
  BY <1>1, <1>2, <1>5 DEF Sound, Meant, CutOff, Chat!NoAct
<1>7. ~overlapped' => ~overlapped /\ \A g \in Handlers \ {h} : req[g].at = "idle"
  BY DEF Chat!Ask, Chat!At
<1>8. ~overlapped' => Turn(r)' /\ Standing'
  BY <1>1, <1>5, <1>7 DEF Turn, Chat!NoAct, ChatInv, InTurn, Standing, NoAnswerAfter
<1>9. InTurn'
  BY <1>4, <1>7, <1>8, TurnPasses
<1>10. AllSound'
  BY <1>1, <1>4, <1>6, MoverSound DEF ChatInv, Extends
<1>11. req' \in [Handlers -> Chat!Locals]
  BY <1>4, OneMoves DEF ChatInv
<1>12. overlapped' \in BOOLEAN
  BY DEF Chat!Ask, ChatInv, Chat!TypeOK
<1>13. Chat!TypeOK'
  BY <1>1, <1>11, <1>12 DEF ChatInv, Chat!TypeOK
<1> QED
  BY <1>9, <1>10, <1>13 DEF ChatInv

LEMMA SayKeeps == ASSUME ChatInv, NEW h \in Handlers, Chat!Say(h) PROVE ChatInv'
<1>1. /\ proposed' = proposed /\ outage' = outage /\ chatFaults' = chatFaults /\ overlapped' = overlapped
      /\ req[h].at = "asked"
      /\ thread' = Append(thread, [kind |-> "message", ticker |-> Nobody])
  BY DEF Chat!Say, Chat!env, Chat!At, Chat!Writes, Chat!Row
<1>2. thread \in Seq(Chat!Rows) /\ Len(thread) \in Nat /\ req[h] \in Chat!Locals
  BY DEF ChatInv, Chat!TypeOK
<1>3. PICK q \in Chat!Locals : q = req[h]
  BY <1>2
<1>4. PICK r \in Chat!Locals : r = [q EXCEPT !.at = "said", !.row = Len(thread) + 1]
  <2>1. \A n \in Nat : [q EXCEPT !.at = "said", !.row = n] \in Chat!Locals
    BY DEF Chat!Locals, Chat!Steps
  <2>2. Len(thread) + 1 \in Nat
    BY <1>2
  <2>3. [q EXCEPT !.at = "said", !.row = Len(thread) + 1] \in Chat!Locals
    BY <2>1, <2>2
  <2> QED
    BY <2>3
<1>5. req' = [req EXCEPT ![h] = r]
  BY <1>3, <1>4 DEF Chat!Say
<1>6. /\ r.at = "said" /\ r.row = Len(thread) + 1
      /\ r.readAt = q.readAt /\ r.act = q.act /\ r.source = q.source /\ r.cut = q.cut
  BY <1>4 DEF Chat!Locals
<1>7. Len(thread') = Len(thread) + 1 /\ Extends
  BY <1>1, <1>2 DEF Extends, Chat!Rows
<1>8. Sound(q) /\ q.at = "asked"
  BY <1>1, <1>3 DEF ChatInv, AllSound
<1>9. q.readAt \in Nat /\ q.readAt <= Len(thread) /\ q.act = Chat!NoAct /\ q.source = "fixed" /\ (q.cut => outage)
  BY <1>8 DEF Sound, Chat!Locals, CutOff
<1>10. Sound(r)'
  BY <1>1, <1>2, <1>6, <1>7, <1>9 DEF Sound, Meant, CutOff, Chat!NoAct
<1>11. \A i \in 1..Len(thread) : thread'[i] = thread[i]
  BY <1>2, <1>7, RowsAreAdded
<1>12. ~overlapped => Turn(r)' /\ Standing'
  <2> SUFFICES ASSUME ~overlapped PROVE Turn(r)' /\ Standing'
    OBVIOUS
  <2>1. thread'[Len(thread) + 1].kind # "answer"
    BY <1>1, <1>2
  <2>2. Standing'
    BY <1>1, <1>2, <1>7, <1>11, <2>1 DEF ChatInv, InTurn, Standing, NoAnswerAfter
  <2>3. Turn(r)'
    BY <1>2, <1>6, <1>7, <1>9 DEF Turn, NoAnswerAfter, Chat!NoAct
  <2> QED
    BY <2>2, <2>3
<1>13. proposed \in Chat!Proposed \cup {Nobody} /\ chatFaults \in 0..MaxFaults
  BY DEF ChatInv, Chat!TypeOK
<1> QED
  BY <1>1, <1>5, <1>7, <1>10, <1>12, <1>13, StepKeeps

\* The steps that write no row.
LEMMA SilentKeeps ==
  ASSUME ChatInv, NEW h \in Handlers, NEW r \in Chat!Locals, req' = [req EXCEPT ![h] = r],
         req[h].at # "idle", thread' = thread, overlapped' = overlapped, outage' = outage,
         chatFaults' = chatFaults, proposed' \in {proposed, Nobody}, Sound(r),
         ~overlapped => Turn(r)'
  PROVE  ChatInv'
<1>1. Extends /\ thread \in Seq(Chat!Rows)
  BY DEF Extends, ChatInv, Chat!TypeOK
<1>2. Sound(r)'
  BY <1>1, StaysSound
<1>3. ~overlapped => Standing'
  BY DEF ChatInv, InTurn, Standing, NoAnswerAfter
<1>4. proposed' \in Chat!Proposed \cup {Nobody} /\ chatFaults' \in 0..MaxFaults
  BY DEF ChatInv, Chat!TypeOK
<1> QED
  BY <1>1, <1>2, <1>3, <1>4, StepKeeps

LEMMA ConsiderKeeps ==
  ASSUME ChatInv, NEW h \in Handlers, Chat!Considers(h), req[h].at \in {"said", "other"},
         thread' = thread, overlapped' = overlapped, outage' = outage, chatFaults' = chatFaults,
         proposed' = Nobody
  PROVE  ChatInv'
<1>1. PICK m \in Chat!Messages : req' = [req EXCEPT ![h].at = "classify", ![h].message = m]
  BY DEF Chat!Considers
<1>2. PICK q \in Chat!Locals : q = req[h]
  BY DEF ChatInv, Chat!TypeOK
<1>3. PICK r \in Chat!Locals : r = [q EXCEPT !.at = "classify", !.message = m]
  <2>1. [q EXCEPT !.at = "classify", !.message = m] \in Chat!Locals
    BY DEF Chat!Locals, Chat!Steps
  <2> QED
    BY <2>1
<1>4. req' = [req EXCEPT ![h] = r]
  BY <1>1, <1>2, <1>3
<1>5. /\ r.at = "classify" /\ r.row = q.row
      /\ r.readAt = q.readAt /\ r.act = q.act /\ r.source = q.source /\ r.cut = q.cut
  BY <1>3 DEF Chat!Locals
<1>6. Sound(q)
  BY <1>2 DEF ChatInv, AllSound
<1>7. q.act = Chat!NoAct /\ q.source = "fixed"
  BY <1>2, <1>6 DEF Sound
<1>8. Sound(r)
  BY <1>5, <1>6, <1>7 DEF Sound, Meant, CutOff, Chat!NoAct
<1>9. ~overlapped => Turn(r)'
  <2> SUFFICES ASSUME ~overlapped PROVE Turn(r)'
    OBVIOUS
  <2>1. Turn(q)
    BY <1>2 DEF ChatInv, InTurn
  <2> QED
    BY <1>2, <1>5, <1>7, <2>1 DEF Turn, NoAnswerAfter, Chat!NoAct
<1> QED
  BY <1>4, <1>8, <1>9, SilentKeeps

LEMMA PeekKeeps == ASSUME ChatInv, NEW h \in Handlers, Chat!Peek(h) PROVE ChatInv'
<1>1. /\ thread' = thread /\ proposed' = proposed /\ overlapped' = overlapped /\ outage' = outage
      /\ chatFaults' = chatFaults /\ req[h].at = "said"
  BY DEF Chat!Peek, Chat!env, Chat!At
<1>2. CASE proposed = Nobody /\ Chat!Considers(h)
  BY <1>1, <1>2, ConsiderKeeps
<1>3. ASSUME proposed # Nobody, NEW word \in {"yes", "no", "other"},
             req' = [req EXCEPT ![h].at = word, ![h].peeked = proposed.legs]
      PROVE  ChatInv'
  <2>1. PICK q \in Chat!Locals : q = req[h]
    BY DEF ChatInv, Chat!TypeOK
  <2>2. PICK r \in Chat!Locals : r = [q EXCEPT !.at = word, !.peeked = proposed.legs]
    <3>1. proposed.legs \in SUBSET Tickers
      BY <1>3 DEF ChatInv, Chat!TypeOK, Chat!Proposed
    <3>2. [q EXCEPT !.at = word, !.peeked = proposed.legs] \in Chat!Locals
      BY <3>1 DEF Chat!Locals, Chat!Steps
    <3> QED
      BY <3>2
  <2>3. req' = [req EXCEPT ![h] = r]
    BY <1>3, <2>1, <2>2
  <2>4. /\ r.at = word /\ r.row = q.row
        /\ r.readAt = q.readAt /\ r.act = q.act /\ r.source = q.source /\ r.cut = q.cut
    BY <2>2 DEF Chat!Locals
  <2>5. Sound(q)
    BY <2>1 DEF ChatInv, AllSound
  <2>6. q.act = Chat!NoAct /\ q.source = "fixed"
    BY <1>1, <2>1, <2>5 DEF Sound
  <2>7. Sound(r)
    BY <2>4, <2>5, <2>6 DEF Sound, Meant, CutOff, Chat!NoAct
  <2>8. ~overlapped => Turn(q)
    BY <2>1 DEF ChatInv, InTurn
  <2>9. ~overlapped => Turn(r)'
    BY <1>1, <2>1, <2>4, <2>6, <2>8 DEF Turn, NoAnswerAfter, Chat!NoAct
  <2> QED
    BY <1>1, <2>3, <2>7, <2>9, SilentKeeps
<1> QED
  BY <1>2, <1>3 DEF Chat!Peek

LEMMA DropKeeps == ASSUME ChatInv, NEW h \in Handlers, Chat!Drop(h) PROVE ChatInv'
BY ConsiderKeeps DEF Chat!Drop, Chat!env, Chat!At

LEMMA CancelKeeps == ASSUME ChatInv, NEW h \in Handlers, Chat!Cancel(h) PROVE ChatInv'
<1>1. /\ thread' = thread /\ proposed' = Nobody /\ overlapped' = overlapped /\ outage' = outage
      /\ chatFaults' = chatFaults /\ req[h].at = "no"
  BY DEF Chat!Cancel, Chat!env, Chat!At
<1>2. PICK q \in Chat!Locals : q = req[h]
  BY DEF ChatInv, Chat!TypeOK
<1>3. PICK r \in Chat!Locals : r = [q EXCEPT !.at = "answer"]
  <2>1. [q EXCEPT !.at = "answer"] \in Chat!Locals
    BY DEF Chat!Locals, Chat!Steps
  <2> QED
    BY <2>1
<1>4. req' = [req EXCEPT ![h] = r]
  BY <1>2, <1>3 DEF Chat!Cancel
<1>5. /\ r.at = "answer" /\ r.row = q.row
      /\ r.readAt = q.readAt /\ r.act = q.act /\ r.source = q.source /\ r.cut = q.cut
  BY <1>3 DEF Chat!Locals
<1>6. Sound(q)
  BY <1>2 DEF ChatInv, AllSound
<1>7. q.act = Chat!NoAct /\ q.source = "fixed"
  BY <1>1, <1>2, <1>6 DEF Sound
<1>8. Sound(r)
  BY <1>5, <1>6, <1>7 DEF Sound, Meant, CutOff, Chat!NoAct
<1>9. ~overlapped => Turn(q)
  BY <1>2 DEF ChatInv, InTurn
<1>10. ~overlapped => Turn(r)'
  BY <1>1, <1>2, <1>5, <1>7, <1>9 DEF Turn, NoAnswerAfter, Chat!NoAct
<1> QED
  BY <1>1, <1>4, <1>8, <1>10, SilentKeeps

LEMMA ConfirmKeeps == ASSUME ChatInv, NEW h \in Handlers, Chat!Confirm(h) PROVE ChatInv'
<1>1. /\ thread' = thread /\ proposed' = Nobody /\ overlapped' = overlapped /\ outage' = outage
      /\ chatFaults' = chatFaults /\ req[h].at = "yes"
  BY DEF Chat!Confirm, Chat!env, Chat!At
<1>2. PICK q \in Chat!Locals : q = req[h]
  BY DEF ChatInv, Chat!TypeOK
<1>3. PICK t \in Tickers \cup {Nobody} : t = Chat!Single(q.peeked)
  <2>1. q.peeked \in SUBSET Tickers
    BY DEF Chat!Locals
  <2>2. Chat!Single(q.peeked) \in Tickers \cup {Nobody}
    <3>1. CASE q.peeked = {}
      BY <3>1, FS_EmptySet DEF Chat!Single
    <3>2. CASE q.peeked # {}
      BY <2>1, <3>2 DEF Chat!Single
    <3> QED
      BY <3>1, <3>2
  <2> QED
    BY <2>2
<1>4. PICK a \in Chat!Acts :
         a = IF proposed = Nobody THEN Chat!NoAct
             ELSE [kind |-> "confirm", legs |-> proposed.legs, by |-> proposed.by]
  <2>1. CASE proposed = Nobody
    <3>1. Chat!NoAct \in Chat!Acts
      BY DEF Chat!Acts, Chat!NoAct
    <3> QED
      BY <2>1, <3>1
  <2>2. CASE proposed # Nobody
    <3>1. proposed.legs \in SUBSET Tickers /\ proposed.by \in Nat
      BY <2>2 DEF ChatInv, Chat!TypeOK, Chat!Proposed
    <3> QED
      BY <2>2, <3>1 DEF Chat!Acts
  <2> QED
    BY <2>1, <2>2
<1>5. PICK r \in Chat!Locals : r = [q EXCEPT !.at = "answer", !.ticker = t, !.act = a]
  <2>1. [q EXCEPT !.at = "answer", !.ticker = t, !.act = a] \in Chat!Locals
    BY DEF Chat!Locals, Chat!Steps
  <2> QED
    BY <2>1
<1>6. req' = [req EXCEPT ![h] = r]
  BY <1>2, <1>3, <1>4, <1>5 DEF Chat!Confirm
<1>7. /\ r.at = "answer" /\ r.row = q.row /\ r.act = a
      /\ r.readAt = q.readAt /\ r.source = q.source /\ r.cut = q.cut
  BY <1>5 DEF Chat!Locals
<1>8. Sound(q)
  BY <1>2 DEF ChatInv, AllSound
<1>9. q.source = "fixed"
  BY <1>1, <1>2, <1>8 DEF Sound
<1>10. a.kind \in {"none", "confirm"}
  BY <1>4 DEF Chat!NoAct
<1>11. Sound(r)
  BY <1>7, <1>8, <1>9, <1>10 DEF Sound, Meant, CutOff
<1>12. ~overlapped => Turn(r)'
  <2> SUFFICES ASSUME ~overlapped PROVE Turn(r)'
    OBVIOUS
  <2>1. Turn(q) /\ Standing
    BY <1>2 DEF ChatInv, InTurn
  <2>2. NoAnswerAfter(r.row)'
    BY <1>1, <1>2, <1>7, <2>1 DEF Turn, NoAnswerAfter
  <2>3. ASSUME a.kind = "confirm", NEW i \in 1..r.row - 1, i > a.by PROVE thread[i].kind # "answer"
    <3>1. proposed # Nobody /\ a.by = proposed.by
      BY <1>4, <2>3 DEF Chat!NoAct
    <3>2. i \in 1..Len(thread)
      <4>1. q.row <= Len(thread) /\ q.row \in Nat /\ Len(thread) \in Nat
        BY <1>8 DEF Sound, Chat!Locals, ChatInv, Chat!TypeOK
      <4> QED
        BY <1>7, <4>1
    <3> QED
      BY <2>1, <2>3, <3>1, <3>2 DEF Standing, NoAnswerAfter
  <2> QED
    BY <1>1, <1>7, <2>2, <2>3 DEF Turn
<1> QED
  BY <1>1, <1>6, <1>11, <1>12, SilentKeeps

LEMMA ClassifyKeeps == ASSUME ChatInv, NEW h \in Handlers, Chat!Classify(h) PROVE ChatInv'
<1>1. /\ thread' = thread /\ proposed' = proposed /\ overlapped' = overlapped /\ outage' = outage
      /\ chatFaults' = chatFaults /\ req[h].at = "classify"
  BY DEF Chat!Classify, Chat!env, Chat!At
<1>2. PICK q \in Chat!Locals : q = req[h]
  BY DEF ChatInv, Chat!TypeOK
<1>3. Sound(q)
  BY <1>2 DEF ChatInv, AllSound
<1>4. thread \in Seq(Chat!Rows) /\ outage \in BOOLEAN
  BY DEF ChatInv, Chat!TypeOK
<1>5. PICK n \in Chat!Resolve(q.message), i \in (IF outage THEN {"general"} ELSE Chat!Intents) :
         LET ticker == IF n # Nobody THEN n ELSE Chat!MostRecentTicker(q)
         IN  req' = [req EXCEPT ![h].at = "handle", ![h].ticker = ticker,
                                ![h].intent = IF i \in Chat!TickerScoped /\ ticker = Nobody
                                              THEN "general" ELSE i]
  BY <1>2 DEF Chat!Classify
<1>6. q.message \in Chat!Messages
  BY DEF Chat!Locals
<1>7. /\ n \in {q.message.names, Nobody}
      /\ q.message.names \in Tickers \cup {Nobody}
      /\ q.message.how = "listed" => n = q.message.names /\ n # Nobody
  BY <1>5, <1>6, ChatAssumption DEF Chat!Resolve, Chat!Messages
<1>8. PICK t \in Tickers \cup {Nobody} : t = IF n # Nobody THEN n ELSE Chat!MostRecentTicker(q)
  <2>1. Chat!MostRecentTicker(q) \in Tickers \cup {Nobody}
    BY <1>3, <1>4, CarriesOver DEF Sound
  <2> QED
    BY <1>7, <2>1
<1>9. PICK j \in Chat!Intents : j = IF i \in Chat!TickerScoped /\ t = Nobody THEN "general" ELSE i
  BY <1>5 DEF Chat!Intents
<1>10. PICK r \in Chat!Locals : r = [q EXCEPT !.at = "handle", !.ticker = t, !.intent = j]
  <2>1. [q EXCEPT !.at = "handle", !.ticker = t, !.intent = j] \in Chat!Locals
    BY DEF Chat!Locals, Chat!Steps
  <2> QED
    BY <2>1
<1>11. req' = [req EXCEPT ![h] = r]
  BY <1>2, <1>5, <1>8, <1>9, <1>10
<1>12. /\ r.at = "handle" /\ r.row = q.row /\ r.act = q.act /\ r.ticker = t /\ r.intent = j
       /\ r.readAt = q.readAt /\ r.source = q.source /\ r.cut = q.cut /\ r.message = q.message
  BY <1>10 DEF Chat!Locals
<1>13. q.act = Chat!NoAct /\ q.source = "fixed"
  BY <1>1, <1>2, <1>3 DEF Sound
<1>14. Knows(r)
  <2>1. r.ticker \in {r.message.names, Nobody} \/ Chat!CarriedOver(q, r.ticker)
    BY <1>3, <1>4, <1>7, <1>8, <1>12, CarriesOver DEF Sound
  <2>2. Chat!CarriedOver(q, r.ticker) <=> Chat!CarriedOver(r, r.ticker)
    BY <1>12 DEF Chat!CarriedOver, Chat!Window
  <2> QED
    BY <1>7, <1>8, <1>12, <2>1, <2>2 DEF Knows
<1>15. q.cut => outage /\ j = "general"
  BY <1>3, <1>5, <1>9 DEF Sound, CutOff
<1>16. Sound(r)
  BY <1>3, <1>12, <1>13, <1>14, <1>15 DEF Sound, Meant, CutOff, Chat!NoAct
<1>17. ~overlapped => Turn(q)
  BY <1>2 DEF ChatInv, InTurn
<1>18. ~overlapped => Turn(r)'
  BY <1>1, <1>2, <1>12, <1>13, <1>17 DEF Turn, NoAnswerAfter, Chat!NoAct
<1> QED
  BY <1>1, <1>11, <1>16, <1>18, SilentKeeps

LEMMA HandleKeeps == ASSUME ChatInv, NEW h \in Handlers, Chat!Handle(h) PROVE ChatInv'
<1>1. /\ thread' = thread /\ overlapped' = overlapped /\ outage' = outage
      /\ chatFaults' = chatFaults /\ req[h].at = "handle"
  BY DEF Chat!Handle, Chat!env, Chat!At
<1>2. PICK q \in Chat!Locals : q = req[h]
  BY DEF ChatInv, Chat!TypeOK
<1>3. Sound(q)
  BY <1>2 DEF ChatInv, AllSound
<1>4. thread \in Seq(Chat!Rows) /\ outage \in BOOLEAN /\ Len(thread) \in Nat
  BY DEF ChatInv, Chat!TypeOK
<1>5. PICK o \in Chat!Outcomes(q) :
        /\ req' = [req EXCEPT ![h].at = "answer", ![h].intent = "general", ![h].act = o.act,
                              ![h].source = o.source]
        /\ proposed' = IF o.act.kind = "propose" THEN [legs |-> o.act.legs, by |-> q.row]
                       ELSE proposed
  BY <1>2 DEF Chat!Handle
<1>6. /\ o.act \in Chat!Acts /\ o.source \in {"fixed", "data", "model"}
      /\ o.act.kind # "confirm"
      /\ o.act.kind = "propose" => o.act.legs # {}
      /\ o.act.kind \in {"alert", "watch", "unwatch"} =>
           /\ q.ticker # Nobody /\ o.act.legs = {q.ticker}
           /\ Chat!Resolve(q.message) # {Nobody}
      /\ o.act.kind = "hold" =>
           q.ticker # Nobody /\ o.act.legs = {q.ticker} /\ q.message.how # "token"
      /\ outage /\ q.intent = "general" => o.act = Chat!NoAct /\ o.source = "fixed"
  BY <1>4, OutcomesSay
<1>7. PICK a \in Chat!Acts, s \in {"fixed", "data", "model"} : a = o.act /\ s = o.source
  BY <1>6
<1>8. PICK r \in Chat!Locals :
         r = [q EXCEPT !.at = "answer", !.intent = "general", !.act = a, !.source = s]
  <2>1. [q EXCEPT !.at = "answer", !.intent = "general", !.act = a, !.source = s] \in Chat!Locals
    BY DEF Chat!Locals, Chat!Steps, Chat!Intents
  <2> QED
    BY <2>1
<1>9. req' = [req EXCEPT ![h] = r]
  BY <1>2, <1>5, <1>7, <1>8
<1>10. /\ r.at = "answer" /\ r.row = q.row /\ r.act = a /\ r.ticker = q.ticker /\ r.source = s
       /\ r.readAt = q.readAt /\ r.cut = q.cut /\ r.message = q.message
  BY <1>8 DEF Chat!Locals
<1>11. Knows(q) /\ (q.cut => outage /\ q.intent = "general")
  BY <1>1, <1>2, <1>3 DEF Sound, CutOff
<1>12. Meant(r)
  <2>1. /\ q.message \in Chat!Messages
        /\ q.ticker \in Tickers \cup {Nobody}
    BY DEF Chat!Locals
  <2>2. a.kind \in {"alert", "watch", "unwatch"} => q.message.how \in {"listed", "guessed"}
    BY <1>6, <1>7, <2>1 DEF Chat!Resolve, Chat!Messages
  <2>3. a.kind \in {"alert", "watch", "unwatch"} =>
          a.legs = {q.message.names} \/ q.message.how = "guessed"
    BY <1>6, <1>7, <1>11, <2>2 DEF Knows
  <2>4. ASSUME a.kind \in {"alert", "watch", "unwatch", "hold"}, a.legs # {q.message.names}
        PROVE  q.message.how \in {"guessed", "words", "nothing"} /\ Chat!CarriedOver(r, r.ticker)
    <3>1. q.ticker # Nobody /\ a.legs = {q.ticker} /\ q.message.how # "token"
      BY <1>6, <1>7, <2>2, <2>4
    <3>2. Chat!CarriedOver(q, q.ticker) /\ q.message.how # "listed"
      BY <1>11, <2>4, <3>1 DEF Knows
    <3>3. Chat!CarriedOver(r, r.ticker)
      BY <1>10, <3>2 DEF Chat!CarriedOver, Chat!Window
    <3>4. q.message.how \in {"listed", "guessed", "token", "words", "nothing"}
      BY <2>1 DEF Chat!Messages
    <3> QED
      BY <3>1, <3>2, <3>3, <3>4
  <2> QED
    BY <1>10, <2>2, <2>3, <2>4 DEF Meant
<1>13. CutOff(r)
  BY <1>6, <1>7, <1>10, <1>11 DEF CutOff, Chat!NoAct
<1>14. Sound(r)
  BY <1>3, <1>10, <1>12, <1>13 DEF Sound
<1>15. Extends
  BY <1>1 DEF Extends
<1>16. Sound(r)'
  BY <1>1, <1>4, <1>14, <1>15, StaysSound
<1>17. ~overlapped => Turn(r)' /\ Standing'
  <2> SUFFICES ASSUME ~overlapped PROVE Turn(r)' /\ Standing'
    OBVIOUS
  <2>1. Turn(q) /\ Standing
    BY <1>2 DEF ChatInv, InTurn
  <2>2. NoAnswerAfter(q.row) /\ proposed = Nobody
    BY <1>1, <1>2, <2>1 DEF Turn
  <2>3. CASE a.kind = "propose"
    <3>1. proposed'.by = q.row
      BY <1>5, <1>7, <2>3
    <3> QED
      BY <1>1, <1>10, <2>2, <2>3, <3>1 DEF Turn, Standing, NoAnswerAfter
  <2>4. CASE a.kind # "propose"
    <3>1. proposed' = Nobody
      BY <1>5, <1>7, <2>2, <2>4
    <3> QED
      BY <1>1, <1>6, <1>7, <1>10, <2>2, <3>1 DEF Turn, Standing, NoAnswerAfter
  <2> QED
    BY <2>3, <2>4
<1>18. proposed' \in Chat!Proposed \cup {Nobody}
  <2>1. CASE a.kind = "propose"
    <3>1. a.legs \in (SUBSET Tickers) \ {{}} /\ q.row \in Nat
      BY <1>6, <1>7, <2>1 DEF Chat!Acts, Chat!Locals
    <3> QED
      BY <1>5, <1>7, <2>1, <3>1 DEF Chat!Proposed
  <2>2. CASE a.kind # "propose"
    BY <1>5, <1>7, <2>2 DEF ChatInv, Chat!TypeOK
  <2> QED
    BY <2>1, <2>2
<1>19. chatFaults' \in 0..MaxFaults /\ req[h].at # "idle"
  BY <1>1 DEF ChatInv, Chat!TypeOK
<1> QED
  BY <1>1, <1>9, <1>15, <1>16, <1>17, <1>18, <1>19, StepKeeps

LEMMA BriefKeeps == ASSUME ChatInv, NEW h \in Handlers, Chat!Brief(h) PROVE ChatInv'
<1>1. /\ thread' = thread /\ proposed' = proposed /\ overlapped' = overlapped /\ outage' = outage
      /\ chatFaults' = chatFaults /\ req[h].at = "handle" /\ req[h].intent = "daily_briefing"
  BY DEF Chat!Brief, Chat!env, Chat!At
<1>2. PICK q \in Chat!Locals : q = req[h]
  BY DEF ChatInv, Chat!TypeOK
<1>3. Sound(q)
  BY <1>2 DEF ChatInv, AllSound
<1>4. PICK o \in Chat!Synthesized("data"), t \in Tickers \cup {Nobody} :
        req' = [req EXCEPT ![h].at = "answer", ![h].intent = "general", ![h].source = o.source,
                           ![h].ticker = t]
  BY DEF Chat!Brief
<1>5. PICK s \in {"fixed", "data", "model"} : s = o.source
  BY DEF Chat!Synthesized, Chat!Says
<1>6. PICK r \in Chat!Locals :
         r = [q EXCEPT !.at = "answer", !.intent = "general", !.source = s, !.ticker = t]
  <2>1. [q EXCEPT !.at = "answer", !.intent = "general", !.source = s, !.ticker = t] \in Chat!Locals
    BY DEF Chat!Locals, Chat!Steps, Chat!Intents
  <2> QED
    BY <2>1
<1>7. req' = [req EXCEPT ![h] = r]
  BY <1>2, <1>4, <1>5, <1>6
<1>8. /\ r.at = "answer" /\ r.row = q.row /\ r.act = q.act
      /\ r.readAt = q.readAt /\ r.cut = q.cut
  BY <1>6 DEF Chat!Locals
<1>9. q.act = Chat!NoAct /\ ~q.cut
  BY <1>1, <1>2, <1>3 DEF Sound, CutOff
<1>10. Sound(r)
  BY <1>3, <1>8, <1>9 DEF Sound, Meant, CutOff, Chat!NoAct
<1>11. ~overlapped => Turn(q)
  BY <1>2 DEF ChatInv, InTurn
<1>12. ~overlapped => Turn(r)'
  BY <1>1, <1>2, <1>8, <1>9, <1>11 DEF Turn, NoAnswerAfter, Chat!NoAct
<1> QED
  BY <1>1, <1>7, <1>10, <1>12, SilentKeeps

LEMMA IdleSound ==
  /\ Chat!Idle \in Chat!Locals /\ Chat!Idle.at = "idle"
  /\ thread' \in Seq(Chat!Rows) => Sound(Chat!Idle)'
  /\ Turn(Chat!Idle)'
<1>1. Chat!Idle \in Chat!Locals
  BY DEF Chat!Idle, Chat!Locals, Chat!NoAct, Chat!Acts, Chat!Messages, Chat!Intents, Chat!Steps
<1>2. thread' \in Seq(Chat!Rows) => Sound(Chat!Idle)'
  BY DEF Sound, Chat!Idle, Meant, CutOff, Chat!NoAct
<1>3. Turn(Chat!Idle)'
  BY DEF Turn, Chat!Idle, Chat!NoAct
<1> QED
  BY <1>1, <1>2, <1>3 DEF Chat!Idle

LEMMA AnswerKeeps == ASSUME ChatInv, NEW h \in Handlers, Chat!Answer(h) PROVE ChatInv'
<1>1. /\ proposed' = proposed /\ overlapped' = overlapped /\ outage' = outage
      /\ chatFaults' = chatFaults /\ req[h].at = "answer"
      /\ req' = [req EXCEPT ![h] = Chat!Idle]
  BY DEF Chat!Answer, Chat!env, Chat!At
<1>2. req[h] \in Chat!Locals /\ thread \in Seq(Chat!Rows) /\ Len(thread) \in Nat
  BY DEF ChatInv, Chat!TypeOK
<1>3. PICK w \in Chat!Rows :
        /\ thread' = Append(thread, w)
        /\ req[h].act.kind = "propose" => w.kind = "proposal"
  <2> DEFINE w == Chat!Row(IF req[h].act.kind = "propose" THEN "proposal" ELSE "answer", req[h].ticker)
  <2>1. w \in Chat!Rows
    BY <1>2 DEF Chat!Row, Chat!Rows, Chat!Locals
  <2>2. req[h].act.kind = "propose" => w.kind = "proposal"
    BY DEF Chat!Row
  <2>3. thread' = Append(thread, w)
    BY DEF Chat!Answer, Chat!Writes
  <2> HIDE DEF w
  <2> QED
    BY <2>1, <2>2, <2>3
<1>4. Extends
  BY <1>3 DEF Extends
<1>5. PICK r \in Chat!Locals : r = Chat!Idle
  BY IdleSound
<1>6. Sound(r)' /\ Turn(r)'
  <2>1. thread' \in Seq(Chat!Rows)
    BY <1>2, <1>4, RowsAreAdded
  <2> QED
    BY <1>2, <1>5, <2>1, IdleSound
<1>7. ~overlapped => Standing'
  <2> SUFFICES ASSUME ~overlapped, proposed # Nobody PROVE NoAnswerAfter(proposed.by)'
    BY <1>1 DEF Standing
  <2>1. Turn(req[h]) /\ Standing
    BY DEF ChatInv, InTurn
  <2>2. req[h].act.kind = "propose"
    BY <1>1, <2>1 DEF Turn
  <2>3. w.kind # "answer"
    BY <1>3, <2>2
  <2>4. /\ Len(thread') = Len(thread) + 1
        /\ thread'[Len(thread) + 1] = w
        /\ \A i \in 1..Len(thread) : thread'[i] = thread[i]
    BY <1>2, <1>3
  <2> QED
    BY <1>1, <1>2, <2>1, <2>3, <2>4 DEF Standing, NoAnswerAfter
<1>8. proposed' \in Chat!Proposed \cup {Nobody} /\ chatFaults' \in 0..MaxFaults
  BY <1>1 DEF ChatInv, Chat!TypeOK
<1> QED
  BY <1>1, <1>4, <1>5, <1>6, <1>7, <1>8, StepKeeps

LEMMA FailsKeeps == ASSUME ChatInv, NEW h \in Handlers, Chat!Fails(h) PROVE ChatInv'
<1>1. /\ thread' = thread /\ proposed' = proposed /\ overlapped' = overlapped /\ outage' = outage
      /\ req[h].at # "idle" /\ req' = [req EXCEPT ![h] = Chat!Idle]
  BY DEF Chat!Fails, Chat!At
<1>2. chatFaults' \in 0..MaxFaults
  BY BoundsAssumption DEF Chat!Fails, ChatInv, Chat!TypeOK
<1>3. Extends /\ proposed' \in Chat!Proposed \cup {Nobody} /\ thread' \in Seq(Chat!Rows)
  BY <1>1 DEF Extends, ChatInv, Chat!TypeOK
<1>4. PICK r \in Chat!Locals : r = Chat!Idle
  BY IdleSound
<1>5. Sound(r)' /\ Turn(r)'
  BY <1>1, <1>3, <1>4, IdleSound
<1>6. ~overlapped => Standing'
  BY <1>1 DEF ChatInv, InTurn, Standing, NoAnswerAfter
<1> QED
  BY <1>1, <1>2, <1>3, <1>4, <1>5, <1>6, StepKeeps

\* The environment's steps leave the requests where they are.
LEMMA OthersKeep ==
  ASSUME ChatInv, req' = req, proposed' = proposed, overlapped' = overlapped, Extends,
         \A i \in 1..Len(thread') : i > Len(thread) => thread'[i].kind # "answer",
         outage => outage', outage' \in BOOLEAN, chatFaults' \in 0..MaxFaults
  PROVE  ChatInv'
<1>1. thread \in Seq(Chat!Rows) /\ Len(thread) \in Nat /\ req \in [Handlers -> Chat!Locals]
  BY DEF ChatInv, Chat!TypeOK
<1>2. /\ thread' \in Seq(Chat!Rows) /\ Len(thread') \in Nat /\ Len(thread) <= Len(thread')
      /\ \A i \in 1..Len(thread) : thread'[i] = thread[i]
  BY <1>1, RowsAreAdded
<1>3. Chat!TypeOK'
  BY <1>2 DEF ChatInv, Chat!TypeOK
<1>4. ASSUME NEW h \in Handlers PROVE Sound(req[h])'
  <2>1. PICK q \in Chat!Locals : q = req[h]
    BY <1>1
  <2>2. Sound(q)
    BY <2>1 DEF ChatInv, AllSound
  <2>3. q.readAt \in Nat /\ q.row \in Nat /\ q.readAt <= Len(thread) /\ q.row <= Len(thread)
    BY <2>2 DEF Chat!Locals, Sound
  <2>4. \A t : Chat!CarriedOver(q, t)' <=> Chat!CarriedOver(q, t)
    BY <1>1, <2>3, ReadStays
  <2>5. Meant(q)'
    BY <2>2, <2>4 DEF Sound, Meant
  <2>6. CutOff(q)'
    BY <2>2 DEF Sound, CutOff
  <2>7. q.at = "handle" => Knows(q)'
    BY <2>2, <2>4 DEF Sound, Knows
  <2>8. q.readAt <= Len(thread') /\ q.row <= Len(thread')
    BY <1>1, <1>2, <2>3
  <2>9. Sound(q)'
    BY <2>2, <2>5, <2>6, <2>7, <2>8 DEF Sound
  <2> QED
    BY <2>1, <2>9
<1>5. ASSUME NEW n, NoAnswerAfter(n) PROVE NoAnswerAfter(n)'
  BY <1>1, <1>2, <1>5 DEF NoAnswerAfter
<1>6. ASSUME ~overlapped, NEW h \in Handlers PROVE Turn(req[h])'
  <2>1. PICK q \in Chat!Locals : q = req[h]
    BY <1>1
  <2>2. Turn(q) /\ Sound(q)
    BY <1>6, <2>1 DEF ChatInv, InTurn, AllSound
  <2>3. \A i \in 1..q.row - 1 : i \in 1..Len(thread)
    BY <1>1, <2>2 DEF Sound, Chat!Locals
  <2>4. Turn(q)'
    BY <1>2, <1>5, <2>2, <2>3 DEF Turn
  <2> QED
    BY <2>1, <2>4
<1>7. ~overlapped => Standing'
  BY <1>5 DEF ChatInv, InTurn, Standing
<1>8. InTurn'
  BY <1>6, <1>7 DEF ChatInv, InTurn
<1> QED
  BY <1>3, <1>4, <1>8 DEF ChatInv, AllSound

LEMMA NotifyKeeps == ASSUME ChatInv, Chat!Notify PROVE ChatInv'
<1>1. /\ proposed' = proposed /\ overlapped' = overlapped /\ outage' = outage /\ req' = req
      /\ chatFaults' = chatFaults
  BY DEF Chat!Notify, Chat!env
<1>2. thread \in Seq(Chat!Rows) /\ outage \in BOOLEAN /\ chatFaults \in 0..MaxFaults
  BY DEF ChatInv, Chat!TypeOK
<1>3. PICK t \in Tickers \cup {Nobody} : thread' = Append(thread, [kind |-> "notice", ticker |-> t])
  BY DEF Chat!Notify, Chat!Writes, Chat!Row
<1>4. [kind |-> "notice", ticker |-> t] \in Chat!Rows
  BY DEF Chat!Rows
<1>5. Extends
  BY <1>3, <1>4 DEF Extends
<1>6. \A i \in 1..Len(thread') : i > Len(thread) => thread'[i].kind # "answer"
  <2>1. Len(thread') = Len(thread) + 1 /\ thread'[Len(thread) + 1].kind = "notice" /\ Len(thread) \in Nat
    BY <1>2, <1>3, <1>4
  <2> QED
    BY <2>1
<1> QED
  BY <1>1, <1>2, <1>5, <1>6, OthersKeep

LEMMA ProviderGoesKeeps == ASSUME ChatInv, Chat!ProviderGoes PROVE ChatInv'
<1>1. /\ proposed' = proposed /\ overlapped' = overlapped /\ outage' = TRUE /\ req' = req
      /\ thread' = thread
  BY DEF Chat!ProviderGoes
<1>2. chatFaults' \in 0..MaxFaults /\ Len(thread) \in Nat
  BY BoundsAssumption DEF Chat!ProviderGoes, ChatInv, Chat!TypeOK
<1>3. Extends /\ \A i \in 1..Len(thread') : i > Len(thread) => thread'[i].kind # "answer"
  BY <1>1, <1>2 DEF Extends
<1> QED
  BY <1>1, <1>2, <1>3, OthersKeep

LEMMA ProviderComesKeeps == ASSUME ChatInv, Chat!ProviderComes PROVE ChatInv'
<1>1. /\ proposed' = proposed /\ overlapped' = overlapped /\ outage' = FALSE /\ thread' = thread
      /\ chatFaults' = chatFaults
      /\ req' = [h \in Handlers |-> [req[h] EXCEPT !.cut = FALSE]]
  BY DEF Chat!ProviderComes
<1>2. ASSUME NEW q \in Chat!Locals, NEW r, r = [q EXCEPT !.cut = FALSE]
      PROVE  /\ r \in Chat!Locals
             /\ r.at = q.at /\ r.row = q.row /\ r.act = q.act /\ r.ticker = q.ticker /\ r.source = q.source
             /\ r.readAt = q.readAt /\ r.message = q.message /\ r.intent = q.intent /\ ~r.cut
  BY <1>2 DEF Chat!Locals
<1>3. ASSUME NEW h \in Handlers
      PROVE  /\ req'[h] \in Chat!Locals /\ req'[h].at = req[h].at
             /\ Sound(req[h])' /\ (~overlapped => Turn(req[h])')
  <2>1. PICK q \in Chat!Locals : q = req[h]
    BY DEF ChatInv, Chat!TypeOK
  <2>2. PICK r : r = [q EXCEPT !.cut = FALSE]
    OBVIOUS
  <2>3. req'[h] = r
    BY <1>1, <2>1, <2>2
  <2>4. /\ r \in Chat!Locals
        /\ r.at = q.at /\ r.row = q.row /\ r.act = q.act /\ r.ticker = q.ticker /\ r.source = q.source
        /\ r.readAt = q.readAt /\ r.message = q.message /\ ~r.cut
    BY <1>2, <2>2
  <2>5. Sound(q) /\ (~overlapped => Turn(q))
    BY <2>1 DEF ChatInv, AllSound, InTurn
  <2>6. \A t : Chat!CarriedOver(r, t)' <=> Chat!CarriedOver(q, t)
    BY <1>1, <2>4 DEF Chat!CarriedOver, Chat!Window
  <2>7. Sound(r)'
    BY <1>1, <2>4, <2>5, <2>6 DEF Sound, Knows, Meant, CutOff
  <2>8. ~overlapped => Turn(r)'
    BY <1>1, <2>4, <2>5 DEF Turn, NoAnswerAfter
  <2> QED
    BY <2>1, <2>3, <2>4, <2>7, <2>8
<1>4. req' \in [Handlers -> Chat!Locals]
  BY <1>1, <1>3
<1>5. Chat!TypeOK'
  BY <1>1, <1>4 DEF ChatInv, Chat!TypeOK
<1>6. InTurn'
  BY <1>1, <1>3 DEF ChatInv, InTurn, Standing, NoAnswerAfter
<1> QED
  BY <1>3, <1>5, <1>6 DEF ChatInv, AllSound

LEMMA ChatNext == ChatInv /\ [Chat!Next]_(Chat!vars) => ChatInv'
<1> SUFFICES ASSUME ChatInv, [Chat!Next]_(Chat!vars) PROVE ChatInv'
  OBVIOUS
<1>1. ASSUME NEW h \in Handlers, Chat!Step(h) PROVE ChatInv'
  BY <1>1, AskKeeps, SayKeeps, PeekKeeps, ConfirmKeeps, CancelKeeps, DropKeeps, ClassifyKeeps,
     HandleKeeps, BriefKeeps, AnswerKeeps, FailsKeeps DEF Chat!Step
<1>2. CASE UNCHANGED Chat!vars
  <2>1. /\ proposed' = proposed /\ overlapped' = overlapped /\ outage' = outage /\ req' = req
        /\ thread' = thread /\ chatFaults' = chatFaults
    BY <1>2 DEF Chat!vars, Chat!env
  <2>2. Len(thread) \in Nat /\ outage \in BOOLEAN /\ chatFaults \in 0..MaxFaults
    BY DEF ChatInv, Chat!TypeOK
  <2>3. Extends /\ \A i \in 1..Len(thread') : i > Len(thread) => thread'[i].kind # "answer"
    BY <2>1, <2>2 DEF Extends
  <2> QED
    BY <2>1, <2>2, <2>3, OthersKeep
<1> QED
  BY <1>1, <1>2, NotifyKeeps, ProviderGoesKeeps, ProviderComesKeeps DEF Chat!Next

\* The code behind POST /v1/chat acts on what a message means, a yes executes the order that
\* the conversation has come to, and without models nothing is done, for any number of
\* tickers, requests, rows and failures.
THEOREM ChatIsKept == Chat!Spec => [](Chat!TypeOK /\ ChatHolds)
<1>1. ChatInv => Chat!TypeOK /\ ChatHolds
  <2> SUFFICES ASSUME ChatInv PROVE ChatHolds
    BY DEF ChatInv
  <2>1. Chat!ActsOnWhatIsMeant
    BY DEF ChatInv, AllSound, Sound, Meant, Chat!ActsOnWhatIsMeant
  <2>2. Chat!ConfirmsLastProposal
    BY DEF ChatInv, InTurn, Turn, Chat!ConfirmsLastProposal
  <2>3. Chat!OutageActsOnNothing
    BY DEF ChatInv, AllSound, Sound, CutOff, Chat!OutageActsOnNothing, Chat!At
  <2> QED
    BY <2>1, <2>2, <2>3 DEF ChatHolds, Chat!ChatHolds
<1> QED
  BY <1>1, ChatInit, ChatNext, PTL DEF Chat!Spec

\* A behaviour of orders or of the conversation is, seen from the conversation, one of ChatThread.
LEMMA IsAConversation == MCSpec => Chat!Spec
<1>1. MCInit => Chat!Init
  BY DEF MCInit
<1>2. [MCNext]_<<vars, conversation, scene>> => [Chat!Next]_(Chat!vars)
  BY DEF MCNext, Trade, Talk, conversation, Chat!vars, Chat!env
<1> QED
  BY <1>1, <1>2, PTL DEF MCSpec, Chat!Spec

\* The same of the conversation beside the orders (chat_router.py, main.py).
THEOREM ConversationHolds == MCSpec => []ChatHolds
  BY IsAConversation, ChatIsKept, PTL

=============================================================================
