------------------------------- MODULE Sweeps -------------------------------
(***************************************************************************)
(* The proactive sweeps: rating changes (app/reasoning/rating_alerts.py)   *)
(* and daily briefings (app/reasoning/daily_briefing.py), with the         *)
(* briefing a user asks for in the chat (chat_router.py), which moves the  *)
(* same cursor.  Each sweep is one HTTP request started by a cron job      *)
(* outside the program; nothing keeps two of them from overlapping.  Every *)
(* read and write of the database is a transaction and a step of its own,  *)
(* and a time is read before the statement that stores it gets the lock.   *)
(*                                                                         *)
(* Abstracted: a user's watchlist and portfolio are one set of tracked     *)
(* tickers, which both functions read together; the text of a briefing is  *)
(* the set of rating changes it mentions; push notifications, which never  *)
(* fail a sweep, are left out.                                             *)
(***************************************************************************)
EXTENDS Naturals, FiniteSets

CONSTANTS
  Users,       \* all users that are ever registered
  Tickers,
  Ratings,
  None,        \* no rating, no time
  Sweepers,    \* bound: rating sweeps running at one time
  Digesters,   \* bound: briefing sweeps running at one time
  Interval,    \* DAILY_BRIEFING_MIN_INTERVAL_SECONDS, in ticks of the clock
  MaxClock,    \* bound: ticks of the clock
  MaxReports,  \* bound: completed reports that change a rating
  MaxFaults    \* bound: failing writes and requests

ASSUME NoneAssumption == None \notin Ratings /\ None \notin Nat
ASSUME BoundsAssumption ==
  Interval \in Nat \ {0} /\ MaxClock \in Nat /\ MaxReports \in Nat /\ MaxFaults \in Nat

VARIABLES
  \* tables
  users,       \* registered users
  tracked,     \* watchlist and portfolio
  rating,      \* latest completed rating of each user and ticker
  seen,        \* rating_alerts_seen: the rating and when it was written
  briefedAt,   \* users.last_briefing_at
  \* requests
  alerting,    \* the rating sweeps
  briefing,    \* the briefing sweeps
  asked,       \* of each user, a chat request for a briefing
  \* what users were told
  told,        \* the rating of the last proposal for each user and ticker
  known,       \* pairs whose rating was proposed since it last changed
  mentioned,   \* when the newest change mentioned in a briefing was seen
  excused,     \* changes a briefing may miss, see Overtaken and AskReply
  \* the environment
  clock, reports, faults

tables == <<users, tracked, rating, seen, briefedAt>>
requests == <<alerting, briefing, asked>>
history == <<told, known, mentioned, excused>>
env == <<clock, reports, faults>>
vars == <<tables, requests, history, env>>

Pairs == Users \X Tickers
SeenRows == [rating : Ratings, at : 0..MaxClock]
Changes == SUBSET (Tickers \X (0..MaxClock))

\* A rating sweep: users and tickers still to visit, the rating read and the time of the mark.
Alerting == [pc : {"off", "next", "read", "notify", "mark", "store"}, todo : SUBSET Users,
             user : Users \cup {None}, left : SUBSET Tickers,
             ticker : Tickers \cup {None}, rating : Ratings \cup {None}, at : 0..MaxClock]
AlertingOff == [pc |-> "off", todo |-> {}, user |-> None, left |-> {},
                ticker |-> None, rating |-> None, at |-> 0]

\* A briefing under way: since when, and the changes it mentions.
Composing == [pc : {"off", "next", "since", "changes", "deliver", "compose", "stamp", "reply"},
              todo : SUBSET Users, user : Users \cup {None}, now : 0..MaxClock,
              since : 0..MaxClock, found : Changes]
ComposingOff == [pc |-> "off", todo |-> {}, user |-> None, now |-> 0, since |-> 0, found |-> {}]

TypeOK ==
  /\ users \subseteq Users
  /\ tracked \in [Users -> SUBSET Tickers]
  /\ rating \in [Pairs -> Ratings \cup {None}]
  /\ seen \in [Pairs -> SeenRows \cup {None}]
  /\ briefedAt \in [Users -> 0..MaxClock \cup {None}]
  /\ alerting \in [Sweepers -> Alerting]
  /\ briefing \in [Digesters -> Composing]
  /\ asked \in [Users -> Composing]
  /\ told \in [Pairs -> Ratings \cup {None}]
  /\ known \subseteq Pairs
  /\ mentioned \in [Pairs -> 0..MaxClock \cup {None}]
  /\ excused \subseteq Pairs
  /\ clock \in 0..MaxClock /\ reports \in 0..MaxReports /\ faults \in 0..MaxFaults

Init ==
  /\ users = Users
  /\ tracked = [u \in Users |-> {}]
  /\ rating = [p \in Pairs |-> None]
  /\ seen = [p \in Pairs |-> None]
  /\ briefedAt = [u \in Users |-> None]
  /\ alerting = [w \in Sweepers |-> AlertingOff]
  /\ briefing = [d \in Digesters |-> ComposingOff]
  /\ asked = [u \in Users |-> ComposingOff]
  /\ told = [p \in Pairs |-> None]
  /\ known = {}
  /\ mentioned = [p \in Pairs |-> None]
  /\ excused = {}
  /\ clock = 0 /\ reports = 0 /\ faults = 0

-----------------------------------------------------------------------------
(* The rest of the program *)

Tick ==
  /\ clock < MaxClock /\ clock' = clock + 1
  /\ UNCHANGED <<tables, requests, history, reports, faults>>

\* A ticker enters or leaves the watchlist or the portfolio.
Track(u, t) ==
  /\ u \in users
  /\ tracked' = [tracked EXCEPT ![u] = IF t \in @ THEN @ \ {t} ELSE @ \cup {t}]
  /\ UNCHANGED <<users, rating, seen, briefedAt, requests, history, env>>

LastSeen(p) == IF seen[p] = None THEN None ELSE seen[p].rating

\* A report completes with another rating than the one before.
Report(u, t, r) ==
  /\ u \in users
  /\ rating[<<u, t>>] # r
  /\ reports < MaxReports /\ reports' = reports + 1
  /\ rating' = [rating EXCEPT ![<<u, t>>] = r]
  /\ known' = IF LastSeen(<<u, t>>) = r THEN known \cup {<<u, t>>} ELSE known \ {<<u, t>>}
  /\ UNCHANGED <<users, tracked, seen, briefedAt, requests, told, mentioned, excused, clock, faults>>

\* delete_user_account: jobs, watchlist and the row go, rating_alerts_seen stays.
Erase(u) ==
  /\ u \in users
  /\ users' = users \ {u}
  /\ tracked' = [tracked EXCEPT ![u] = {}]
  /\ rating' = [p \in Pairs |-> IF p[1] = u THEN None ELSE rating[p]]
  /\ briefedAt' = [briefedAt EXCEPT ![u] = None]
  /\ UNCHANGED <<seen, requests, history, env>>

-----------------------------------------------------------------------------
(* sweep_rating_changes.  A definition called a variant is deliberately wrong:  *)
(* it belongs to no behaviour and shows which property such a bug breaks.       *)

Fault == faults < MaxFaults /\ faults' = faults + 1

AlertStart(w) ==
  /\ alerting[w].pc = "off"
  /\ alerting' = [alerting EXCEPT ![w] = [AlertingOff EXCEPT !.pc = "next", !.todo = users]]
  /\ UNCHANGED <<tables, briefing, asked, history, env>>

\* The next user with the tickers tracked at this moment, or the end.
AlertUser(w) ==
  /\ alerting[w].pc = "next" /\ alerting[w].left = {}
  /\ \/ \E u \in alerting[w].todo :
          alerting' = [alerting EXCEPT ![w] =
            [alerting[w] EXCEPT !.todo = @ \ {u}, !.user = u, !.left = tracked[u]]]
     \/ alerting[w].todo = {} /\ alerting' = [alerting EXCEPT ![w] = AlertingOff]
  /\ UNCHANGED <<tables, briefing, asked, history, env>>

\* The next ticker and its latest rating; one never researched is passed over.
AlertRead(w) ==
  /\ alerting[w].pc = "next"
  /\ \E t \in alerting[w].left :
       LET r == rating[<<alerting[w].user, t>>]
       IN  alerting' = [alerting EXCEPT ![w] =
             IF r = None THEN [alerting[w] EXCEPT !.left = @ \ {t}]
             ELSE [alerting[w] EXCEPT !.left = @ \ {t}, !.pc = "read", !.ticker = t, !.rating = r]]
  /\ UNCHANGED <<tables, briefing, asked, history, env>>

At(w) == <<alerting[w].user, alerting[w].ticker>>

\* The ticker is done with.
NextTicker(w) == [alerting[w] EXCEPT !.pc = "next", !.ticker = None, !.rating = None, !.at = 0]

\* Variant: a ticker notified about once is left alone.
AlertCompareOnce(w) ==
  /\ alerting[w].pc = "read"
  /\ alerting' = [alerting EXCEPT ![w] =
       IF LastSeen(At(w)) # None THEN NextTicker(w) ELSE [@ EXCEPT !.pc = "notify"]]
  /\ UNCHANGED <<tables, briefing, asked, history, env>>

AlertCompare(w) ==
  /\ alerting[w].pc = "read"
  /\ alerting' = [alerting EXCEPT ![w] =
       IF LastSeen(At(w)) = alerting[w].rating THEN NextTicker(w) ELSE [@ EXCEPT !.pc = "notify"]]
  /\ UNCHANGED <<tables, briefing, asked, history, env>>

\* The chat message of a proposal.
Propose(w) ==
  /\ told' = [told EXCEPT ![At(w)] = alerting[w].rating]
  /\ known' = IF rating[At(w)] = alerting[w].rating THEN known \cup {At(w)} ELSE known

\* Variant: a proposal that could not be written is marked seen all the same.
AlertNotifyAnyhow(w) ==
  /\ alerting[w].pc = "notify"
  /\ alerting' = [alerting EXCEPT ![w].pc = "mark"]
  /\ \/ /\ Propose(w)
        /\ UNCHANGED faults
     \/ Fault /\ UNCHANGED <<told, known>>
  /\ UNCHANGED <<tables, briefing, asked, mentioned, excused, clock, reports>>

\* The proposal is written to the chat; if that fails, the next ticker's turn.
AlertNotify(w) ==
  /\ alerting[w].pc = "notify"
  /\ \/ /\ Propose(w)
        /\ alerting' = [alerting EXCEPT ![w].pc = "mark"]
        /\ UNCHANGED faults
     \/ /\ Fault
        /\ alerting' = [alerting EXCEPT ![w] = NextTicker(w)]
        /\ UNCHANGED <<told, known>>
  /\ UNCHANGED <<tables, briefing, asked, mentioned, excused, clock, reports>>

\* The time of the mark is read; then the statement waits for the lock.
AlertMark(w) ==
  /\ alerting[w].pc = "mark"
  /\ alerting' = [alerting EXCEPT ![w].pc = "store", ![w].at = clock]
  /\ UNCHANGED <<tables, briefing, asked, history, env>>

\* A briefing that will not see what is stored only now, though its cursor will pass it.
Missing(b, at) ==
  \/ b.pc = "changes" /\ at < b.since
  \/ b.pc \in {"deliver", "stamp"} /\ at < b.now

\* A change that becomes visible too late for the time it bears: the cursor has passed that,
\* or a briefing has read that will move it past; one asked for sets it when it is composed.
Overtaken(u, at) ==
  \/ briefedAt[u] # None /\ at < briefedAt[u]
  \/ \E d \in Digesters : briefing[d].user = u /\ Missing(briefing[d], at)
  \/ Missing(asked[u], at) \/ asked[u].pc = "compose"

AlertStore(w) ==
  /\ alerting[w].pc = "store"
  /\ seen' = [seen EXCEPT ![At(w)] = [rating |-> alerting[w].rating, at |-> alerting[w].at]]
  /\ excused' = IF Overtaken(alerting[w].user, alerting[w].at) THEN excused \cup {At(w)}
                ELSE excused \ {At(w)}
  /\ alerting' = [alerting EXCEPT ![w] = NextTicker(w)]
  /\ UNCHANGED <<users, tracked, rating, briefedAt, briefing, asked, told, known, mentioned, env>>

\* A database call outside the try block raises, or the process dies.
AlertAborts(w) ==
  /\ alerting[w].pc # "off"
  /\ Fault
  /\ alerting' = [alerting EXCEPT ![w] = AlertingOff]
  /\ UNCHANGED <<tables, briefing, asked, history, clock, reports>>

-----------------------------------------------------------------------------
(* sweep_daily_briefings *)

BriefStart(d) ==
  /\ briefing[d].pc = "off"
  /\ briefing' = [briefing EXCEPT ![d] =
       [ComposingOff EXCEPT !.pc = "next", !.todo = users, !.now = clock]]
  /\ UNCHANGED <<tables, alerting, asked, history, env>>

Due(u, now) == briefedAt[u] = None \/ now - briefedAt[u] >= Interval

\* The next user; one briefed less than an interval ago is passed over.
BriefUser(d) ==
  /\ briefing[d].pc = "next"
  /\ \/ \E u \in briefing[d].todo :
          briefing' = [briefing EXCEPT ![d] =
            IF Due(u, briefing[d].now)
            THEN [briefing[d] EXCEPT !.todo = @ \ {u}, !.user = u, !.pc = "since"]
            ELSE [briefing[d] EXCEPT !.todo = @ \ {u}]]
     \/ briefing[d].todo = {} /\ briefing' = [briefing EXCEPT ![d] = ComposingOff]
  /\ UNCHANGED <<tables, alerting, asked, history, env>>

\* build_briefing: the cursor (a user erased meanwhile has none) ...
Since(u) == IF briefedAt[u] = None THEN 0 ELSE briefedAt[u]

\* Variant: changes seen at the very moment of the cursor are left out.
ChangesAfter(u, since) ==
  {<<t, seen[<<u, t>>].at>> : t \in {x \in Tickers : seen[<<u, x>>] # None /\ seen[<<u, x>>].at > since}}

\* ... and the changes seen since (get_rating_alerts_seen_since).
ChangesSince(u, since) ==
  {<<t, seen[<<u, t>>].at>> : t \in {x \in Tickers : seen[<<u, x>>] # None /\ seen[<<u, x>>].at >= since}}

BriefSince(d) ==
  /\ briefing[d].pc = "since"
  /\ briefing' = [briefing EXCEPT ![d] =
       [@ EXCEPT !.pc = "changes", !.since = Since(briefing[d].user)]]
  /\ UNCHANGED <<tables, alerting, asked, history, env>>

BriefChanges(d) ==
  /\ briefing[d].pc = "changes"
  /\ briefing' = [briefing EXCEPT ![d] =
       [@ EXCEPT !.pc = "deliver", !.found = ChangesSince(briefing[d].user, briefing[d].since)]]
  /\ UNCHANGED <<tables, alerting, asked, history, env>>

Newer(c, p) == c[1] = p[2] /\ (mentioned[p] = None \/ c[2] > mentioned[p])

\* The user is told of these changes.
Mention(u, found) ==
  mentioned' = [p \in Pairs |-> IF p[1] = u /\ \E c \in found : Newer(c, p)
                                THEN (CHOOSE c \in found : Newer(c, p))[2] ELSE mentioned[p]]

\* The chat message is written after the model has answered; if that fails,
\* the next user's turn.
BriefDeliver(d) ==
  /\ briefing[d].pc = "deliver"
  /\ \/ /\ Mention(briefing[d].user, briefing[d].found)
        /\ briefing' = [briefing EXCEPT ![d].pc = "stamp"]
        /\ UNCHANGED faults
     \/ /\ Fault
        /\ briefing' = [briefing EXCEPT ![d] =
             [@ EXCEPT !.pc = "next", !.user = None, !.since = 0, !.found = {}]]
        /\ UNCHANGED mentioned
  /\ UNCHANGED <<tables, alerting, asked, told, known, excused, clock, reports>>

Stamp(u, when) ==
  briefedAt' = IF u \in users THEN [briefedAt EXCEPT ![u] = when] ELSE briefedAt

\* Variant: the cursor is the time of the delivery.
BriefStampLate(d) ==
  /\ briefing[d].pc = "stamp"
  /\ Stamp(briefing[d].user, clock)
  /\ briefing' = [briefing EXCEPT ![d].pc = "next"]
  /\ UNCHANGED <<users, tracked, rating, seen, alerting, asked, history, env>>

\* The cursor is the time the sweep started, be it behind the one of a sweep started later.
BriefStamp(d) ==
  /\ briefing[d].pc = "stamp"
  /\ Stamp(briefing[d].user, briefing[d].now)
  /\ briefing' = [briefing EXCEPT ![d] =
       [@ EXCEPT !.pc = "next", !.user = None, !.since = 0, !.found = {}]]
  /\ UNCHANGED <<users, tracked, rating, seen, alerting, asked, history, env>>

BriefAborts(d) ==
  /\ briefing[d].pc # "off"
  /\ Fault
  /\ briefing' = [briefing EXCEPT ![d] = ComposingOff]
  /\ UNCHANGED <<tables, alerting, asked, history, clock, reports>>

-----------------------------------------------------------------------------
(* _handle_daily_briefing: "give me my briefing" *)

Ask(u) ==
  /\ u \in users /\ asked[u].pc = "off"
  /\ asked' = [asked EXCEPT ![u] = [@ EXCEPT !.pc = "changes", !.since = Since(u)]]
  /\ UNCHANGED <<tables, alerting, briefing, history, env>>

AskChanges(u) ==
  /\ asked[u].pc = "changes"
  /\ asked' = [asked EXCEPT ![u] =
       [@ EXCEPT !.pc = "compose", !.found = ChangesSince(u, asked[u].since)]]
  /\ UNCHANGED <<tables, alerting, briefing, history, env>>

\* The model has answered: the cursor is to be the time now ...
AskComposed(u) ==
  /\ asked[u].pc = "compose"
  /\ asked' = [asked EXCEPT ![u] = [@ EXCEPT !.pc = "stamp", !.now = clock]]
  /\ UNCHANGED <<tables, alerting, briefing, history, env>>

\* ... and is, once the statement has the lock.
AskStamp(u) ==
  /\ asked[u].pc = "stamp"
  /\ Stamp(u, asked[u].now)
  /\ asked' = [asked EXCEPT ![u].pc = "reply"]
  /\ UNCHANGED <<users, tracked, rating, seen, alerting, briefing, history, env>>

\* The reply is written and returned; a request that fails first has moved the
\* cursor for nothing.
AskReply(u) ==
  /\ asked[u].pc = "reply"
  /\ asked' = [asked EXCEPT ![u] = ComposingOff]
  /\ \/ Mention(u, asked[u].found) /\ UNCHANGED <<excused, faults>>
     \/ /\ Fault /\ UNCHANGED mentioned
        /\ excused' = excused \cup {<<u, c[1]>> : c \in asked[u].found}
  /\ UNCHANGED <<tables, alerting, briefing, told, known, clock, reports>>

AlertStep(w) ==
  \/ AlertStart(w) \/ AlertUser(w) \/ AlertRead(w) \/ AlertCompare(w) \/ AlertNotify(w)
  \/ AlertMark(w) \/ AlertStore(w)
BriefStep(d) ==
  \/ BriefStart(d) \/ BriefUser(d) \/ BriefSince(d) \/ BriefChanges(d) \/ BriefDeliver(d)
  \/ BriefStamp(d)
AskStep(u) == AskChanges(u) \/ AskComposed(u) \/ AskStamp(u) \/ AskReply(u)

Next ==
  \/ Tick
  \/ \E u \in Users, t \in Tickers : Track(u, t) \/ \E r \in Ratings : Report(u, t, r)
  \/ \E u \in Users : Erase(u) \/ Ask(u) \/ AskStep(u)
  \/ \E w \in Sweepers : AlertStep(w) \/ AlertAborts(w)
  \/ \E d \in Digesters : BriefStep(d) \/ BriefAborts(d)

Spec == Init /\ [][Next]_vars

\* The cron job keeps starting rating sweeps, and a started one runs on.
Fairness == \A w \in Sweepers : WF_vars(AlertStep(w))

FairSpec == Spec /\ Fairness

-----------------------------------------------------------------------------
(* Safety *)

\* A time is overtaken only while its row waits for the lock, or a briefing that somebody
\* asked for is composed.
OnlyLateAreOvertaken ==
  \A w \in Sweepers :
    alerting[w].pc = "store" /\ Overtaken(alerting[w].user, alerting[w].at)
      => alerting[w].at < clock \/ asked[alerting[w].user].pc = "compose"

\* A change recorded before the cursor of the briefings was mentioned in one,
\* or its reply is on the way; unless it could be read only after its time had been overtaken
\* (Overtaken), or was lost with the reply of a briefing asked for.
NoChangeSkipped ==
  /\ OnlyLateAreOvertaken
  /\ \A u \in users, t \in Tickers :
       seen[<<u, t>>] # None /\ briefedAt[u] # None /\ asked[u].pc # "reply" /\ <<u, t>> \notin excused
         => \/ seen[<<u, t>>].at >= briefedAt[u]
            \/ mentioned[<<u, t>>] # None /\ mentioned[<<u, t>>] >= seen[<<u, t>>].at

\* Every change recorded before the cursor was mentioned in a briefing, or its
\* reply is on the way ("list rating changes since the last briefing").
NoChangeSkippedEver ==
  \A u \in users, t \in Tickers :
    seen[<<u, t>>] # None /\ briefedAt[u] # None /\ asked[u].pc # "reply"
      => \/ seen[<<u, t>>].at >= briefedAt[u]
         \/ mentioned[<<u, t>>] # None /\ mentioned[<<u, t>>] >= seen[<<u, t>>].at

(* Liveness *)

\* A change of the rating of a tracked ticker is proposed to the user: however
\* sweeps overlap and fail, none that lasts is swallowed.
RatingsAreProposed ==
  \A u \in Users, t \in Tickers :
    []<>(rating[<<u, t>>] = None \/ t \notin tracked[u] \/ <<u, t>> \in known)

\* What the user was told last stays the rating ("already seen and won't re-fire
\* until the rating genuinely changes again").
ProposalsSettle ==
  \A u \in Users, t \in Tickers :
    []<>(rating[<<u, t>>] = None \/ t \notin tracked[u] \/ told[<<u, t>>] = rating[<<u, t>>])
=============================================================================
