---------------------------- MODULE PaperTrading ----------------------------
(***************************************************************************)
(* Simulated trading of one account: orders from the order form            *)
(* (POST /v1/orders), proposals made and confirmed in the chat, and price  *)
(* alerts fired by a cron-triggered sweep, all of which end in             *)
(* db.execute_order.  Every table involved is keyed by the account, so     *)
(* accounts do not interact.                                               *)
(*                                                                         *)
(* An actor is a request thread: a handler (an order or a chat message) or *)
(* a call of the sweep; several calls may overlap.  SQLite has one writer: *)
(* lock is its write lock, which execute_order takes with BEGIN IMMEDIATE  *)
(* before it reads.  A write that is a single statement is one action and  *)
(* needs the lock free; a wait of more than 10 s for it is a fault.        *)
(*                                                                         *)
(* Abstracted: prices to "the alert's condition holds" (crossed), shares   *)
(* to whole lots; avg_cost, the chat's wording and the legs' order in a    *)
(* batch, which have no influence on what is executed.                     *)
(***************************************************************************)
EXTENDS Integers, FiniteSets

CONSTANTS
  Tickers,
  Handlers,    \* request threads of POST /v1/orders and POST /v1/chat
  Sweeps,      \* calls of POST /v1/internal/sweep/price-alerts that may overlap
  Proposals,   \* identities of set_pending_order's rows
  Alerts,      \* alert ids
  Nobody,      \* no lock holder, no row, no cause
  MaxLot,      \* bound: lots of one BUY leg, or of a manual edit
  MaxAsked,    \* bound: orders, proposals and edits the user ever makes
  MaxFaults,   \* bound: database calls or quotes that raise
  MaxCrashes,  \* bound: process crashes
  MaxMoves     \* bound: price moves across an alert's target

Actors == Handlers \cup Sweeps

ASSUME TickersAssumption == Tickers # {}
ASSUME ActorsAssumption ==
  /\ Handlers \cap Sweeps = {}
  /\ Nobody \notin Actors \cup Proposals \cup Alerts
  /\ Proposals \cap Alerts = {}
ASSUME BoundsAssumption ==
  /\ MaxLot \in Nat \ {0}
  /\ MaxAsked \in Nat
  /\ MaxFaults \in Nat
  /\ MaxCrashes \in Nat
  /\ MaxMoves \in Nat

VARIABLES
  \* tables
  holdings,    \* portfolio_holdings.quantity, 0 for no row
  pending,     \* pending_orders: the proposal in the account's one row
  alertState,  \* price_alerts: no row, triggered_at IS NULL, or set
  alert,       \* price_alerts: ticker, side, auto_execute
  lock,        \* who is inside BEGIN IMMEDIATE
  legsOf,      \* legs_json of each proposal ever made
  \* the actors' locals
  pc, legs, leg, read, cause, todo,
  \* history
  ledger,      \* per ticker, the sum of the order rows since the last edit
  fills,       \* orders rows written for each proposal and ticker
  alertFills,  \* orders rows written for each alert
  unnoticed,   \* failed notifications of each alert
  shown,       \* proposals whose confirmation question was answered to the user
  dropped,     \* proposals cancelled, or superseded by another message
  handled,     \* alerts whose notification was written
  stranded,    \* alerts whose sweep ended between claim and notification
  \* the environment
  crossed,     \* tickers whose price meets the alerts' condition
  asked, faults, crashes, moves

tables  == <<holdings, pending, alertState, alert>>
locals  == <<pc, legs, leg, read, cause, todo>>
history == <<ledger, fills, alertFills, unnoticed, shown, dropped, handled, stranded>>
env     == <<crossed, asked, faults, crashes, moves>>
vars == <<tables, lock, legsOf, locals, history, env>>

Sides == {"BUY", "SELL"}
Leg == [ticker : Tickers, side : Sides, qty : Nat]
AlertRow == [ticker : Tickers, side : Sides, auto : BOOLEAN]
HandlerSteps == {"idle", "pop_yes", "pop_no", "pop_other", "route", "reply", "add"}
SweepSteps == {"idle", "next", "size", "notify", "unclaim"}
OrderSteps == {"begin", "read", "write"}
Firing == {"size", "notify", "unclaim"} \cup OrderSteps

NoLeg == [ticker |-> CHOOSE t \in Tickers : TRUE, side |-> "BUY", qty |-> 1]
NoAlert == [ticker |-> CHOOSE t \in Tickers : TRUE, side |-> "SELL", auto |-> FALSE]

TypeOK ==
  /\ holdings \in [Tickers -> Nat]
  /\ pending \in Proposals \cup {Nobody}
  /\ alertState \in [Alerts -> {"unset", "active", "claimed"}]
  /\ alert \in [Alerts -> AlertRow]
  /\ lock \in Actors \cup {Nobody}
  /\ legsOf \in [Proposals -> SUBSET Leg]
  /\ pc \in [Actors -> HandlerSteps \cup SweepSteps \cup OrderSteps]
  /\ legs \in [Actors -> SUBSET Leg]
  /\ leg \in [Actors -> Leg]
  /\ read \in [Actors -> Nat]
  /\ cause \in [Actors -> Proposals \cup Alerts \cup {Nobody}]
  /\ todo \in [Sweeps -> SUBSET Alerts]
  /\ ledger \in [Tickers -> Int]
  /\ fills \in [Proposals -> [Tickers -> Nat]]
  /\ alertFills \in [Alerts -> Nat]
  /\ unnoticed \in [Alerts -> Nat]
  /\ shown \subseteq Proposals
  /\ dropped \subseteq Proposals
  /\ handled \subseteq Alerts
  /\ stranded \subseteq Alerts
  /\ crossed \subseteq Tickers
  /\ asked \in 0..MaxAsked
  /\ faults \in 0..MaxFaults
  /\ crashes \in 0..MaxCrashes
  /\ moves \in 0..MaxMoves

Init ==
  /\ holdings = [t \in Tickers |-> 0]
  /\ pending = Nobody
  /\ alertState = [a \in Alerts |-> "unset"]
  /\ alert = [a \in Alerts |-> NoAlert]
  /\ lock = Nobody
  /\ legsOf = [p \in Proposals |-> {}]
  /\ pc = [x \in Actors |-> "idle"]
  /\ legs = [x \in Actors |-> {}]
  /\ leg = [x \in Actors |-> NoLeg]
  /\ read = [x \in Actors |-> 0]
  /\ cause = [x \in Actors |-> Nobody]
  /\ todo = [s \in Sweeps |-> {}]
  /\ ledger = [t \in Tickers |-> 0]
  /\ fills = [p \in Proposals |-> [t \in Tickers |-> 0]]
  /\ alertFills = [a \in Alerts |-> 0]
  /\ unnoticed = [a \in Alerts |-> 0]
  /\ shown = {} /\ dropped = {} /\ handled = {} /\ stranded = {}
  /\ crossed = {}
  /\ asked = 0 /\ faults = 0 /\ crashes = 0 /\ moves = 0

\* An actor's locals when its request is over.
Returns(x) ==
  /\ pc' = [pc EXCEPT ![x] = "idle"]
  /\ legs' = [legs EXCEPT ![x] = {}]
  /\ leg' = [leg EXCEPT ![x] = NoLeg]
  /\ read' = [read EXCEPT ![x] = 0]
  /\ cause' = [cause EXCEPT ![x] = Nobody]

GoTo(x, step) == pc' = [pc EXCEPT ![x] = step]

\* A database call raises (lock wait, disk), or a quote does.
Fault == faults < MaxFaults /\ faults' = faults + 1

Asks == asked < MaxAsked /\ asked' = asked + 1

-----------------------------------------------------------------------------
(* The chat: propose, then confirm (app/reasoning/chat_router.py).  A          *)
(* definition called a variant is deliberately wrong: it belongs to no         *)
(* behaviour and shows which property such a bug breaks.                       *)

\* handle_chat_message looks at the pending order before anything else; the
\* message is a clear yes, a clear no, or neither.
Peek(h) ==
  /\ pc[h] = "idle"
  /\ IF pending = Nobody
       THEN GoTo(h, "route")
       ELSE \E step \in {"pop_yes", "pop_no", "pop_other"} : GoTo(h, step)
  /\ cause' = [cause EXCEPT ![h] = pending]
  /\ UNCHANGED <<tables, lock, legsOf, legs, leg, read, todo, history, env>>

\* Variant: the row that was looked at is executed, and deleted afterwards.
PopYesOfPeek(h) ==
  /\ pc[h] = "pop_yes" /\ lock = Nobody
  /\ legs' = [legs EXCEPT ![h] = legsOf[cause[h]]]
  /\ GoTo(h, "begin")
  /\ pending' = Nobody
  /\ UNCHANGED <<holdings, alertState, alert, lock, legsOf, cause, leg, read,
                 todo, history, env>>

\* _execute_pending_order pops whatever is pending now: another message may have
\* consumed or replaced the order since.
PopYes(h) ==
  /\ pc[h] = "pop_yes" /\ lock = Nobody
  /\ IF pending = Nobody
       THEN Returns(h)
       ELSE /\ legs' = [legs EXCEPT ![h] = legsOf[pending]]
            /\ cause' = [cause EXCEPT ![h] = pending]
            /\ GoTo(h, "begin")
            /\ UNCHANGED <<leg, read>>
  /\ pending' = Nobody
  /\ UNCHANGED <<holdings, alertState, alert, lock, legsOf, todo, history, env>>

\* Variant: a message that is neither yes nor no leaves the order pending.
PopDropLeaves(h) ==
  /\ pc[h] \in {"pop_no", "pop_other"} /\ lock = Nobody
  /\ dropped' = IF pending = Nobody THEN dropped ELSE dropped \cup {pending}
  /\ pending' = IF pc[h] = "pop_no" THEN Nobody ELSE pending
  /\ IF pc[h] = "pop_no" THEN Returns(h)
                         ELSE GoTo(h, "route") /\ UNCHANGED <<legs, leg, read, cause>>
  /\ UNCHANGED <<holdings, alertState, alert, lock, legsOf, todo, ledger, fills,
                 alertFills, unnoticed, shown, handled, stranded, env>>

\* A no cancels; any other message drops the order and is then routed as usual.
PopDrop(h) ==
  /\ pc[h] \in {"pop_no", "pop_other"} /\ lock = Nobody
  /\ dropped' = IF pending = Nobody THEN dropped ELSE dropped \cup {pending}
  /\ pending' = Nobody
  /\ IF pc[h] = "pop_no" THEN Returns(h)
                         ELSE GoTo(h, "route") /\ UNCHANGED <<legs, leg, read, cause>>
  /\ UNCHANGED <<holdings, alertState, alert, lock, legsOf, todo, ledger, fills,
                 alertFills, unnoticed, shown, handled, stranded, env>>

Sales(q) == {[ticker |-> t, side |-> "SELL", qty |-> q[t]] : t \in DOMAIN q}
Purchases(q) == {[ticker |-> t, side |-> "BUY", qty |-> q[t]] : t \in DOMAIN q}

\* What may be proposed: the whole of some holdings, part of one, a purchase of
\* one ticker or of several.  A batch splits an amount of money evenly and rounds
\* each quantity, possibly to zero.
Held == {t \in Tickers : holdings[t] > 0}
BatchSales == {Sales([t \in T |-> holdings[t]]) : T \in (SUBSET Held) \ {{}}}
PartSales == UNION {{Sales([t \in {u} |-> n]) : n \in 1..holdings[u]} : u \in Held}
BuyOffers == UNION {{Purchases(q) : q \in [T -> 0..MaxLot]} : T \in (SUBSET Tickers) \ {{}}}
Offers == BatchSales \cup PartSales \cup BuyOffers

\* _handle_place_order and _propose_batch_order: the proposal replaces the one
\* pending, if another message has put one there.
Propose(h, p) ==
  /\ pc[h] = "route" /\ lock = Nobody
  /\ legsOf[p] = {}
  /\ Asks
  /\ \E S \in Offers : legsOf' = [legsOf EXCEPT ![p] = S]
  /\ dropped' = IF pending = Nobody THEN dropped ELSE dropped \cup {pending}
  /\ pending' = p
  /\ cause' = [cause EXCEPT ![h] = p]
  /\ GoTo(h, "reply")
  /\ UNCHANGED <<holdings, alertState, alert, lock, legs, leg, read, todo,
                 ledger, fills, alertFills, unnoticed, shown, handled, stranded,
                 crossed, faults, crashes, moves>>

\* The response carries the confirmation question to the user.
Reply(h) ==
  /\ pc[h] = "reply"
  /\ shown' = shown \cup {cause[h]}
  /\ Returns(h)
  /\ UNCHANGED <<tables, lock, legsOf, todo, ledger, fills, alertFills,
                 unnoticed, dropped, handled, stranded, env>>

\* A database call of the message raises: the answer is a 500.
ChatFails(h) ==
  /\ pc[h] \in HandlerSteps \ {"idle"}
  /\ Fault
  /\ Returns(h)
  /\ UNCHANGED <<tables, lock, legsOf, todo, history, crossed, asked, crashes,
                 moves>>

\* Every other intent, and a request refused, leaves these tables alone.
RouteElsewhere(h) ==
  /\ pc[h] = "route"
  /\ Returns(h)
  /\ UNCHANGED <<tables, lock, legsOf, todo, history, env>>

\* _handle_create_alert, and POST /v1/alerts.
CreateAlert(h, a) ==
  /\ pc[h] = "route" /\ lock = Nobody
  /\ alertState[a] = "unset"
  /\ alertState' = [alertState EXCEPT ![a] = "active"]
  /\ \E row \in AlertRow : alert' = [alert EXCEPT ![a] = row]
  /\ Returns(h)
  /\ UNCHANGED <<holdings, pending, lock, legsOf, todo, history, env>>

\* POST /v1/orders.
PlaceOrder(h) ==
  /\ pc[h] = "idle"
  /\ Asks
  /\ \E t \in Tickers, side \in Sides, n \in 1..MaxLot :
       legs' = [legs EXCEPT ![h] = {[ticker |-> t, side |-> side, qty |-> n]}]
  /\ GoTo(h, "begin")
  /\ UNCHANGED <<tables, lock, legsOf, leg, read, cause, todo, history,
                 crossed, faults, crashes, moves>>

\* _handle_add_holding: a ticker already held is refused; for any other one a
\* quote is fetched, and then the row is written, replacing what may be there.
CheckNotHeld(h) ==
  /\ pc[h] = "route"
  /\ Asks
  /\ \E t \in Tickers, n \in 1..MaxLot :
       /\ holdings[t] = 0
       /\ leg' = [leg EXCEPT ![h] = [ticker |-> t, side |-> "BUY", qty |-> n]]
  /\ GoTo(h, "add")
  /\ UNCHANGED <<tables, lock, legsOf, legs, read, cause, todo, history,
                 crossed, faults, crashes, moves>>

AddHolding(h) ==
  /\ pc[h] = "add" /\ lock = Nobody
  /\ holdings' = [holdings EXCEPT ![leg[h].ticker] = leg[h].qty]
  /\ ledger' = [ledger EXCEPT ![leg[h].ticker] = leg[h].qty]
  /\ Returns(h)
  /\ UNCHANGED <<pending, alertState, alert, lock, legsOf, todo, fills,
                 alertFills, unnoticed, shown, dropped, handled, stranded, env>>

\* POST and DELETE of a portfolio holding replace the quantity, without an order.
EditHolding(t) ==
  /\ lock = Nobody
  /\ Asks
  /\ \E n \in 0..MaxLot : /\ holdings' = [holdings EXCEPT ![t] = n]
                          /\ ledger' = [ledger EXCEPT ![t] = n]
  /\ UNCHANGED <<pending, alertState, alert, lock, legsOf, locals, fills,
                 alertFills, unnoticed, shown, dropped, handled, stranded,
                 crossed, faults, crashes, moves>>

-----------------------------------------------------------------------------
(* execute_order (app/api/db.py), once for each leg *)

\* Variant: the transaction begins with its first write, so the read takes no
\* lock.
BeginUnlocked(x) ==
  /\ pc[x] = "begin"
  /\ \E l \in legs[x] : leg' = [leg EXCEPT ![x] = l]
  /\ GoTo(x, "read")
  /\ UNCHANGED <<tables, lock, legsOf, legs, read, cause, todo, history, env>>

\* BEGIN IMMEDIATE: waits for the one writer.
Begin(x) ==
  /\ pc[x] = "begin" /\ lock = Nobody
  /\ lock' = x
  /\ \E l \in legs[x] : leg' = [leg EXCEPT ![x] = l]
  /\ GoTo(x, "read")
  /\ UNCHANGED <<tables, legsOf, legs, read, cause, todo, history, env>>

ReadHolding(x) ==
  /\ pc[x] = "read"
  /\ read' = [read EXCEPT ![x] = holdings[leg[x].ticker]]
  /\ GoTo(x, "write")
  /\ UNCHANGED <<tables, lock, legsOf, legs, leg, cause, todo, history, env>>

\* The remaining legs, or what follows the last one: the reply, or the sweep's
\* notification.
NextLeg(x) ==
  /\ lock' = Nobody
  /\ IF legs[x] # {leg[x]}
       THEN /\ legs' = [legs EXCEPT ![x] = @ \ {leg[x]}]
            /\ GoTo(x, "begin")
            /\ UNCHANGED <<leg, read, cause>>
       ELSE IF x \in Handlers
       THEN Returns(x)
       ELSE /\ legs' = [legs EXCEPT ![x] = {}]
            /\ GoTo(x, "notify")
            /\ UNCHANGED <<leg, read, cause>>

\* The change of a position that an order row stands for.
Signed(l) == IF l.side = "BUY" THEN l.qty ELSE -l.qty

\* Holding and order row are written and committed together.
Fill(x) ==
  LET l == leg[x]
      t == l.ticker
  IN  /\ holdings' = [holdings EXCEPT ![t] = read[x] + Signed(l)]
      /\ ledger' = [ledger EXCEPT ![t] = @ + Signed(l)]
      /\ fills' = [p \in Proposals |->
                     IF cause[x] = p THEN [fills[p] EXCEPT ![t] = @ + 1] ELSE fills[p]]
      /\ alertFills' = [a \in Alerts |->
                          IF cause[x] = a THEN alertFills[a] + 1 ELSE alertFills[a]]

\* The new average cost is a quotient by the new quantity.
NoNewQuantity(x) == leg[x].side = "BUY" /\ read[x] + leg[x].qty = 0

CommitOrder(x) ==
  /\ pc[x] = "write"
  /\ ~NoNewQuantity(x)
  /\ leg[x].side = "SELL" => leg[x].qty <= read[x]
  /\ Fill(x)
  /\ NextLeg(x)
  /\ UNCHANGED <<pending, alertState, alert, legsOf, todo, unnoticed, shown,
                 dropped, handled, stranded, env>>

\* ValueError: more sold than held.  The caller reports it and goes on.
RejectOrder(x) ==
  /\ pc[x] = "write"
  /\ leg[x].side = "SELL" /\ leg[x].qty > read[x]
  /\ NextLeg(x)
  /\ UNCHANGED <<tables, legsOf, todo, history, env>>

\* Any other exception rolls back.  In a handler it ends the request, the legs
\* that remain are not tried; in a sweep it is caught and the alert unclaimed.
Abort(x) ==
  /\ lock' = IF lock = x THEN Nobody ELSE lock
  /\ IF x \in Handlers
       THEN Returns(x)
       ELSE GoTo(x, "unclaim") /\ UNCHANGED <<legs, leg, read, cause>>
  /\ UNCHANGED <<tables, legsOf, todo, history, crossed, asked, crashes, moves>>

OrderFails(x) ==
  /\ pc[x] \in OrderSteps \cup {"size"}
  /\ Fault
  /\ Abort(x)

\* ZeroDivisionError: nothing is bought of a ticker that is not held.
DividesByZero(x) ==
  /\ pc[x] = "write"
  /\ NoNewQuantity(x)
  /\ Abort(x)
  /\ UNCHANGED faults

-----------------------------------------------------------------------------
(* sweep_price_alerts (app/reasoning/price_alerts.py) *)

Active == {a \in Alerts : alertState[a] = "active"}

\* The sweep reads the untriggered alerts once, then works through them.
SweepStart(s) ==
  /\ pc[s] = "idle" /\ Active # {}
  /\ todo' = [todo EXCEPT ![s] = Active]
  /\ GoTo(s, "next")
  /\ UNCHANGED <<tables, lock, legsOf, legs, leg, read, cause, history, env>>

SweepEnd(s) ==
  /\ pc[s] = "next" /\ todo[s] = {}
  /\ Returns(s)
  /\ UNCHANGED <<tables, lock, legsOf, todo, history, env>>

\* The quote does not meet the condition.
SweepSkip(s, a) ==
  /\ pc[s] = "next" /\ a \in todo[s]
  /\ alert[a].ticker \notin crossed
  /\ todo' = [todo EXCEPT ![s] = @ \ {a}]
  /\ UNCHANGED <<tables, lock, legsOf, pc, legs, leg, read, cause, history, env>>

\* get_quote raises: the alert waits for the next sweep.
QuoteFails(s, a) ==
  /\ pc[s] = "next" /\ a \in todo[s]
  /\ Fault
  /\ todo' = [todo EXCEPT ![s] = @ \ {a}]
  /\ UNCHANGED <<tables, lock, legsOf, pc, legs, leg, read, cause, history,
                 crossed, asked, crashes, moves>>

\* claim_price_alert raises, outside any handler: the sweep ends with a 500.
ClaimFails(s) ==
  /\ pc[s] = "next" /\ todo[s] # {}
  /\ Fault
  /\ todo' = [todo EXCEPT ![s] = {}]
  /\ Returns(s)
  /\ UNCHANGED <<tables, lock, legsOf, history, crossed, asked, crashes, moves>>

Fires(s, a) ==
  /\ cause' = [cause EXCEPT ![s] = a]
  /\ GoTo(s, IF alert[a].auto THEN "size" ELSE "notify")

\* Variant: the UPDATE's rowcount is not looked at.
SweepClaimUnchecked(s, a) ==
  /\ pc[s] = "next" /\ a \in todo[s] /\ lock = Nobody
  /\ alert[a].ticker \in crossed
  /\ todo' = [todo EXCEPT ![s] = @ \ {a}]
  /\ alertState' = [alertState EXCEPT ![a] = "claimed"]
  /\ Fires(s, a)
  /\ UNCHANGED <<holdings, pending, alert, lock, legsOf, legs, leg, read,
                 history, env>>

\* claim_price_alert: of overlapping sweeps only the one whose UPDATE matches
\* the untriggered row fires the alert.
SweepClaim(s, a) ==
  /\ pc[s] = "next" /\ a \in todo[s] /\ lock = Nobody
  /\ alert[a].ticker \in crossed
  /\ todo' = [todo EXCEPT ![s] = @ \ {a}]
  /\ IF alertState[a] = "active"
       THEN /\ alertState' = [alertState EXCEPT ![a] = "claimed"]
            /\ Fires(s, a)
       ELSE UNCHANGED <<alertState, cause, pc>>
  /\ UNCHANGED <<holdings, pending, alert, lock, legsOf, legs, leg, read,
                 history, env>>

\* _auto_execute_quantity: all that is held, or the suggested purchase; with
\* nothing to size off, the user is only told so.
SizeOrder(s) ==
  LET row == alert[cause[s]]
      order(n) == {[ticker |-> row.ticker, side |-> row.side, qty |-> n]}
      sizes == IF row.side = "BUY" THEN 1..MaxLot
               ELSE {holdings[row.ticker]} \ {0}
  IN  /\ pc[s] = "size"
      /\ \/ \E n \in sizes : /\ legs' = [legs EXCEPT ![s] = order(n)]
                             /\ GoTo(s, "begin")
         \/ /\ row.side = "BUY" \/ sizes = {}
            /\ GoTo(s, "notify")
            /\ UNCHANGED legs
      /\ UNCHANGED <<tables, lock, legsOf, leg, read, cause, todo, history, env>>

\* _notify: the chat message is written (the push is best effort).
NotifyUser(s) ==
  /\ pc[s] = "notify" /\ lock = Nobody
  /\ handled' = handled \cup {cause[s]}
  /\ GoTo(s, "next")
  /\ cause' = [cause EXCEPT ![s] = Nobody]
  /\ UNCHANGED <<tables, lock, legsOf, legs, leg, read, todo, ledger, fills,
                 alertFills, unnoticed, shown, dropped, stranded, env>>

\* add_chat_message raises, after the order if there was one.
NotifyFails(s) ==
  /\ pc[s] = "notify"
  /\ Fault
  /\ unnoticed' = [unnoticed EXCEPT ![cause[s]] = @ + 1]
  /\ GoTo(s, "unclaim")
  /\ UNCHANGED <<tables, lock, legsOf, legs, leg, read, cause, todo, ledger,
                 fills, alertFills, shown, dropped, handled, stranded, crossed,
                 asked, crashes, moves>>

\* Variant: the exception is logged and the claim kept.
UnclaimKeeps(s) ==
  /\ pc[s] = "unclaim" /\ lock = Nobody
  /\ GoTo(s, "next")
  /\ legs' = [legs EXCEPT ![s] = {}]
  /\ cause' = [cause EXCEPT ![s] = Nobody]
  /\ UNCHANGED <<tables, lock, legsOf, leg, read, todo, history, env>>

\* unclaim_price_alert: left to the next sweep.
Unclaim(s) ==
  /\ pc[s] = "unclaim" /\ lock = Nobody
  /\ alertState' = [alertState EXCEPT ![cause[s]] = "active"]
  /\ GoTo(s, "next")
  /\ legs' = [legs EXCEPT ![s] = {}]
  /\ cause' = [cause EXCEPT ![s] = Nobody]
  /\ UNCHANGED <<holdings, pending, alert, lock, legsOf, leg, read, todo,
                 history, env>>

\* It raises in its turn, outside any handler: the sweep ends with a 500.
UnclaimFails(s) ==
  /\ pc[s] = "unclaim"
  /\ Fault
  /\ stranded' = stranded \cup {cause[s]}
  /\ todo' = [todo EXCEPT ![s] = {}]
  /\ Returns(s)
  /\ UNCHANGED <<tables, lock, legsOf, ledger, fills, alertFills, unnoticed,
                 shown, dropped, handled, crossed, asked, crashes, moves>>

-----------------------------------------------------------------------------
(* The environment *)

PriceMoves(t) ==
  /\ moves < MaxMoves
  /\ moves' = moves + 1
  /\ crossed' = IF t \in crossed THEN crossed \ {t} ELSE crossed \cup {t}
  /\ UNCHANGED <<tables, lock, legsOf, locals, history, asked, faults, crashes>>

\* Every request in flight dies; an open transaction rolls back.  Nothing at
\* startup looks at these tables.
Crash ==
  /\ crashes < MaxCrashes
  /\ crashes' = crashes + 1
  /\ stranded' = stranded \cup {a \in Alerts : \E s \in Sweeps : pc[s] \in Firing /\ cause[s] = a}
  /\ lock' = Nobody
  /\ pc' = [x \in Actors |-> "idle"]
  /\ legs' = [x \in Actors |-> {}]
  /\ leg' = [x \in Actors |-> NoLeg]
  /\ read' = [x \in Actors |-> 0]
  /\ cause' = [x \in Actors |-> Nobody]
  /\ todo' = [s \in Sweeps |-> {}]
  /\ UNCHANGED <<tables, legsOf, ledger, fills, alertFills, unnoticed, shown,
                 dropped, handled, crossed, asked, faults, moves>>

-----------------------------------------------------------------------------
ChatStep(h) ==
  \/ Peek(h) \/ PopYes(h) \/ PopDrop(h)
  \/ \E p \in Proposals : Propose(h, p)
  \/ Reply(h) \/ RouteElsewhere(h) \/ ChatFails(h)
  \/ \E a \in Alerts : CreateAlert(h, a)
  \/ PlaceOrder(h)
  \/ CheckNotHeld(h) \/ AddHolding(h)

OrderStep(x) ==
  \/ Begin(x) \/ ReadHolding(x)
  \/ CommitOrder(x) \/ RejectOrder(x) \/ DividesByZero(x)

SweepProgress(s) ==
  \/ SweepStart(s) \/ SweepEnd(s)
  \/ \E a \in Alerts : SweepSkip(s, a) \/ SweepClaim(s, a)
  \/ SizeOrder(s) \/ NotifyUser(s) \/ Unclaim(s)

SweepFault(s) ==
  \/ \E a \in Alerts : QuoteFails(s, a)
  \/ ClaimFails(s) \/ NotifyFails(s) \/ UnclaimFails(s)

Next ==
  \/ \E h \in Handlers : ChatStep(h)
  \/ \E x \in Actors : OrderStep(x) \/ OrderFails(x)
  \/ \E s \in Sweeps : SweepProgress(s) \/ SweepFault(s)
  \/ \E t \in Tickers : EditHolding(t) \/ PriceMoves(t)
  \/ Crash

Spec == Init /\ [][Next]_vars

\* The cron job calls the sweep for ever and request threads are scheduled by
\* the OS.  Orders are finitely many, so nobody waits for the write lock for
\* ever.  Nothing is assumed of the user.
Fairness ==
  /\ \A s \in Sweeps : WF_vars(SweepProgress(s))
  /\ \A x \in Actors : WF_vars(OrderStep(x))

FairSpec == Spec /\ Fairness

-----------------------------------------------------------------------------
(* Safety *)

\* execute_order's "can never drift apart": the holding is what the last manual
\* edit and the order rows since add up to, whatever orders, edits and sweeps
\* run at the same time; with TypeOK, nothing is ever sold that is not held.
OrdersAddUp == \A t \in Tickers : holdings[t] = ledger[t]

\* A confirmed proposal writes at most one order for each of its legs, however
\* many confirmations are sent (double tap, retry) and however they interleave.
LegFilledOnce == \A p \in Proposals, t \in Tickers : fills[p][t] <= 1

\* A proposal that was cancelled, or superseded by another message, is not
\* executed by a late or an unrelated yes.
DroppedNeverFilled == \A p \in dropped, t \in Tickers : fills[p][t] = 0

\* What is executed of a proposal is what one confirmation, given for it, asked for.
ProposalsHold == LegFilledOnce /\ DroppedNeverFilled

FiredBy(s, a) == pc[s] \in Firing /\ cause[s] = a

\* An alert is fired by one sweep at a time, and only while it is claimed; a
\* claimed alert is being fired, or has been, or its sweep was cut short.
ClaimsAreOwned ==
  \A a \in Alerts :
    /\ \A s \in Sweeps : FiredBy(s, a) => alertState[a] = "claimed" /\ a \notin handled
    /\ \A s, r \in Sweeps : FiredBy(s, a) /\ FiredBy(r, a) => s = r
    /\ alertState[a] = "claimed" =>
         a \in handled \cup stranded \/ \E s \in Sweeps : FiredBy(s, a)

\* Overlapping sweeps do not execute an alert's order twice: an alert has at
\* most one order more than it has failed notifications.
AlertFillsAccounted == \A a \in Alerts : alertFills[a] <= 1 + unnoticed[a]

\* Overlapping sweeps neither fire an alert twice nor lose it without a trace.
AlertsAccounted == ClaimsAreOwned /\ AlertFillsAccounted

(* Liveness *)

\* An active alert whose condition stays true is handled, although sweeps
\* overlap, fail and hand it back, unless its sweep was cut short.
AlertsGetHandled ==
  \A a \in Alerts :
    (alertState[a] = "active" /\ alert[a].ticker \in crossed)
      ~> (a \in handled \cup stranded \/ alert[a].ticker \notin crossed)

(* What the repository says and the code does not do *)

\* app/reasoning/price_alerts.py:111: the sweep "fires at most once per alert".
AlertFiresOnce == \A a \in Alerts : alertFills[a] <= 1

\* app/reasoning/chat_router.py:445-448: the confirmation is never for "a list the
\* user hasn't actually seen yet".
OnlyShownProposalsFill ==
  \A p \in Proposals, t \in Tickers : fills[p][t] > 0 => p \in shown

\* app/reasoning/chat_router.py:287-290: a confirmation "reports exactly which legs
\* filled and which didn't rather than aborting the whole batch on one failure":
\* unless the database or the process fails, an order request that ends has
\* tried every leg.
EveryLegIsTried ==
  [][\A h \in Handlers :
       (pc[h] \in OrderSteps /\ pc'[h] = "idle" /\ faults' = faults /\ crashes' = crashes)
         => legs[h] = {leg[h]}]_vars

\* app/reasoning/chat_router.py:1054-1058: adding a holding in the chat "refuses
\* to silently overwrite an existing holding".
AddNeverOverwrites ==
  [][\A h \in Handlers :
       (pc[h] = "add" /\ pc'[h] = "idle" /\ holdings' # holdings)
         => holdings[leg[h].ticker] = 0]_vars
=============================================================================
