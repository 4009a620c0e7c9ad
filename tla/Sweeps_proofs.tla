---------------------------- MODULE Sweeps_proofs ----------------------------
EXTENDS MCAccounts, Sequences, FiniteSetTheorems, WellFoundedInduction, TLAPS

(***************************************************************************)
(* Types, and what a request has set by the time it gets to a step.        *)
(***************************************************************************)

\* A rating sweep under way has a user, and a ticker and its rating from their reading on.
Alerts == {k \in Alerting :
             /\ k.left # {} => k.user \in Users
             /\ k.pc \in {"read", "notify", "mark", "store"} =>
                  k.user \in Users /\ k.ticker \in Tickers /\ k.rating \in Ratings}

\* A briefing mentions one change of a ticker.
OneEach(found) == \A c, d \in found : c[1] = d[1] => c = d

Digests == {b \in Composing :
              b.pc \notin {"off", "next"} => b.user \in Users}

Tables ==
  /\ users \subseteq Users
  /\ tracked \in [Users -> SUBSET Tickers]
  /\ rating \in [Pairs -> Ratings \cup {None}]
  /\ seen \in [Pairs -> SeenRows \cup {None}]
  /\ briefedAt \in [Users -> 0..MaxClock \cup {None}]

Surroundings ==
  /\ told \in [Pairs -> Ratings \cup {None}]
  /\ known \subseteq Pairs
  /\ mentioned \in [Pairs -> 0..MaxClock \cup {None}]
  /\ excused \subseteq Pairs
  /\ clock \in 0..MaxClock /\ reports \in 0..MaxReports /\ faults \in 0..MaxFaults

Runs ==
  /\ alerting \in [Sweepers -> Alerts]
  /\ briefing \in [Digesters -> Digests]
  /\ asked \in [Users -> Composing]

TypeInv == Tables /\ Runs /\ Surroundings

LEMMA TypeParts == TypeInv => TypeOK
BY DEF TypeInv, Tables, Runs, Surroundings, TypeOK, Alerts, Digests

\* What a step makes of a request.
LEMMA AlertForms ==
  ASSUME NEW k \in Alerts
  PROVE  /\ AlertingOff \in Alerts
         /\ \A todo \in SUBSET Users : [AlertingOff EXCEPT !.pc = "next", !.todo = todo] \in Alerts
         /\ \A u \in Users, left \in SUBSET Tickers :
              k.pc = "next" => [k EXCEPT !.todo = @ \ {u}, !.user = u, !.left = left] \in Alerts
         /\ \A t \in Tickers : [k EXCEPT !.left = @ \ {t}] \in Alerts
         /\ \A t \in k.left, r \in Ratings :
              [k EXCEPT !.left = @ \ {t}, !.pc = "read", !.ticker = t, !.rating = r] \in Alerts
         /\ k.pc \in {"read", "notify", "mark", "store"} =>
              /\ [k EXCEPT !.pc = "next", !.ticker = None, !.rating = None, !.at = 0] \in Alerts
              /\ [k EXCEPT !.pc = "notify"] \in Alerts /\ [k EXCEPT !.pc = "mark"] \in Alerts
              /\ \A n \in 0..MaxClock : [k EXCEPT !.pc = "store", !.at = n] \in Alerts
<1>0. 0 \in 0..MaxClock
  BY BoundsAssumption
<1>1. AlertingOff \in Alerts /\ AlertingOff.left = {}
  BY <1>0 DEF AlertingOff, Alerts, Alerting
<1>2. \A d \in Alerts, todo \in SUBSET Users :
        d.left = {} => [d EXCEPT !.pc = "next", !.todo = todo] \in Alerts
  BY DEF Alerts, Alerting
<1>3. \A u \in Users, left \in SUBSET Tickers :
        k.pc = "next" => [k EXCEPT !.todo = @ \ {u}, !.user = u, !.left = left] \in Alerts
  BY DEF Alerts, Alerting
<1>4. \A t \in Tickers : [k EXCEPT !.left = @ \ {t}] \in Alerts
  BY DEF Alerts, Alerting
<1>5. \A t \in k.left, r \in Ratings :
        [k EXCEPT !.left = @ \ {t}, !.pc = "read", !.ticker = t, !.rating = r] \in Alerts
  BY DEF Alerts, Alerting
<1>6. k.pc \in {"read", "notify", "mark", "store"} =>
        /\ \A n \in 0..MaxClock :
             /\ [k EXCEPT !.pc = "next", !.ticker = None, !.rating = None, !.at = n] \in Alerts
             /\ [k EXCEPT !.pc = "store", !.at = n] \in Alerts
        /\ [k EXCEPT !.pc = "notify"] \in Alerts /\ [k EXCEPT !.pc = "mark"] \in Alerts
  BY DEF Alerts, Alerting
<1> HIDE DEF AlertingOff
<1> QED
  BY <1>0, <1>1, <1>2, <1>3, <1>4, <1>5, <1>6

LEMMA DigestForms ==
  ASSUME NEW b \in Composing, BoundsAssumption
  PROVE  /\ ComposingOff \in Composing /\ ComposingOff \in Digests
         /\ \A todo \in SUBSET Users, now \in 0..MaxClock :
              [ComposingOff EXCEPT !.pc = "next", !.todo = todo, !.now = now] \in Digests
         /\ b \in Digests =>
              /\ \A u \in Users : [b EXCEPT !.todo = @ \ {u}, !.user = u, !.pc = "since"] \in Digests
              /\ b.pc = "next" => \A u \in Users : [b EXCEPT !.todo = @ \ {u}] \in Digests
              /\ b.pc = "since" =>
                   \A s \in 0..MaxClock : [b EXCEPT !.pc = "changes", !.since = s] \in Digests
              /\ b.pc = "changes" =>
                   \A f \in Changes : [b EXCEPT !.pc = "deliver", !.found = f] \in Digests
              /\ b.pc = "deliver" =>
                   [b EXCEPT !.pc = "stamp"] \in Digests
              /\ [b EXCEPT !.pc = "next", !.user = None, !.since = 0, !.found = {}] \in Digests
         /\ \A s \in 0..MaxClock : [b EXCEPT !.pc = "changes", !.since = s] \in Composing
         /\ \A f \in Changes : [b EXCEPT !.pc = "compose", !.found = f] \in Composing
         /\ \A n \in 0..MaxClock : [b EXCEPT !.pc = "stamp", !.now = n] \in Composing
         /\ [b EXCEPT !.pc = "reply"] \in Composing
<1>1. ComposingOff \in Digests
  BY DEF ComposingOff, Composing, Digests, Changes, BoundsAssumption
<1>2. \A d \in Digests, todo \in SUBSET Users, now \in 0..MaxClock :
        [d EXCEPT !.pc = "next", !.todo = todo, !.now = now] \in Digests
  BY DEF Composing, Digests
<1>3. b \in Digests =>
        /\ \A u \in Users : [b EXCEPT !.todo = @ \ {u}, !.user = u, !.pc = "since"] \in Digests
        /\ b.pc = "next" => \A u \in Users : [b EXCEPT !.todo = @ \ {u}] \in Digests
  BY DEF Composing, Digests
<1>4. b \in Digests =>
        /\ b.pc = "since" =>
             \A s \in 0..MaxClock : [b EXCEPT !.pc = "changes", !.since = s] \in Digests
        /\ b.pc = "changes" =>
             \A f \in Changes : [b EXCEPT !.pc = "deliver", !.found = f] \in Digests
  BY DEF Composing, Digests
<1>5. b \in Digests =>
        /\ b.pc = "deliver" =>
             [b EXCEPT !.pc = "stamp"] \in Digests
        /\ [b EXCEPT !.pc = "next", !.user = None, !.since = 0, !.found = {}] \in Digests
  <2>1. 0 \in 0..MaxClock /\ {} \in Changes
    BY DEF BoundsAssumption, Changes
  <2>2. b \in Digests => \A n \in 0..MaxClock, f \in Changes :
          [b EXCEPT !.pc = "next", !.user = None, !.since = n, !.found = f] \in Digests
    BY DEF Composing, Digests
  <2>3. b \in Digests /\ b.pc = "deliver" =>
          [b EXCEPT !.pc = "stamp"] \in Digests
    BY DEF Composing, Digests
  <2> QED
    BY <2>1, <2>2, <2>3
<1>6. /\ \A s \in 0..MaxClock : [b EXCEPT !.pc = "changes", !.since = s] \in Composing
      /\ \A f \in Changes : [b EXCEPT !.pc = "compose", !.found = f] \in Composing
      /\ \A n \in 0..MaxClock : [b EXCEPT !.pc = "stamp", !.now = n] \in Composing
      /\ [b EXCEPT !.pc = "reply"] \in Composing
  BY DEF Composing
<1>7. ComposingOff \in Composing
  BY <1>1 DEF Digests
<1> HIDE DEF ComposingOff
<1> QED
  BY <1>1, <1>2, <1>3, <1>4, <1>5, <1>6, <1>7

LEMMA ChangesType ==
  ASSUME Tables, NEW u \in Users, NEW since
  PROVE  ChangesSince(u, since) \in Changes /\ OneEach(ChangesSince(u, since))
<1>1. \A t \in Tickers : seen[<<u, t>>] # None => seen[<<u, t>>].at \in 0..MaxClock
  BY DEF Tables, Pairs, SeenRows
<1>2. ASSUME NEW c \in ChangesSince(u, since)
      PROVE  \E t \in Tickers : c = <<t, seen[<<u, t>>].at>> /\ seen[<<u, t>>].at \in 0..MaxClock
  BY <1>1 DEF ChangesSince
<1>3. ASSUME NEW c \in ChangesSince(u, since)
      PROVE  c \in Tickers \X (0..MaxClock) /\ c = <<c[1], seen[<<u, c[1]>>].at>>
  <2>1. PICK t \in Tickers : c = <<t, seen[<<u, t>>].at>> /\ seen[<<u, t>>].at \in 0..MaxClock
    BY <1>2
  <2> QED
    BY <2>1
<1>4. ASSUME NEW c \in ChangesSince(u, since), NEW d \in ChangesSince(u, since), c[1] = d[1]
      PROVE  c = d
  BY <1>3, <1>4
<1> QED
  BY <1>3, <1>4 DEF Changes, OneEach

LEMMA TypeInit == Init => TypeInv
<1> SUFFICES ASSUME Init PROVE TypeInv
  OBVIOUS
<1>1. 0 \in 0..MaxClock /\ 0 \in 0..MaxReports /\ 0 \in 0..MaxFaults
  BY BoundsAssumption
<1>2. AlertingOff \in Alerts
  BY <1>1 DEF AlertingOff, Alerts, Alerting
<1>3. ComposingOff \in Digests /\ ComposingOff \in Composing
  BY <1>1 DEF ComposingOff, Composing, Digests, Changes
<1> QED
  BY <1>1, <1>2, <1>3 DEF Init, TypeInv, Tables, Runs, Surroundings

LEMMA AlertType ==
  ASSUME TypeInv, NEW w \in Sweepers, AlertStep(w) \/ AlertAborts(w)
  PROVE  TypeInv'
<1> DEFINE k == alerting[w]
<1>1. k \in Alerts /\ k \in Alerting /\ alerting \in [Sweepers -> Alerts]
  BY DEF TypeInv, Runs, Alerts
<1>2. k.pc \in {"read", "notify", "mark", "store"} => At(w) \in Pairs /\ k.rating \in Ratings
  BY <1>1 DEF At, Pairs, Alerts
<1>a. ASSUME NEW d \in Alerts, alerting' = [alerting EXCEPT ![w] = d], UNCHANGED <<briefing, asked>>
      PROVE  Runs'
  BY <1>a DEF TypeInv, Runs
<1>3. CASE AlertStart(w)
  <2>1. [AlertingOff EXCEPT !.pc = "next", !.todo = users] \in Alerts
    BY <1>1, AlertForms DEF TypeInv, Tables
  <2> QED
    BY <1>3, <1>a, <2>1 DEF AlertStart, TypeInv, Tables, Surroundings, tables, history, env
<1>4. CASE AlertUser(w)
  <2>1. CASE alerting' = [alerting EXCEPT ![w] = AlertingOff]
    BY <1>4, <1>1, <1>a, <2>1, AlertForms
    DEF AlertUser, TypeInv, Tables, Surroundings, tables, history, env
  <2>2. ASSUME NEW u \in k.todo,
               alerting' = [alerting EXCEPT ![w] =
                 [k EXCEPT !.todo = @ \ {u}, !.user = u, !.left = tracked[u]]]
        PROVE  Runs'
    <3>1. u \in Users /\ tracked[u] \in SUBSET Tickers /\ k.pc = "next"
      BY <1>1, <1>4 DEF Alerting, TypeInv, Tables, AlertUser
    <3>2. [k EXCEPT !.todo = @ \ {u}, !.user = u, !.left = tracked[u]] \in Alerts
      BY <1>1, <3>1, AlertForms
    <3> QED
      BY <1>4, <1>a, <2>2, <3>2 DEF AlertUser
  <2>3. Runs'
    <3>1. CASE \E u \in k.todo : alerting' = [alerting EXCEPT ![w] =
                 [alerting[w] EXCEPT !.todo = @ \ {u}, !.user = u, !.left = tracked[u]]]
      BY <1>1, <2>2, <3>1
    <3>2. CASE alerting' = [alerting EXCEPT ![w] = AlertingOff]
      BY <1>1, <1>4, <1>a, <3>2, AlertForms DEF AlertUser
    <3> QED
      BY <1>4, <3>1, <3>2 DEF AlertUser
  <2> QED
    BY <1>4, <2>3 DEF AlertUser, TypeInv, Tables, Surroundings, tables, history, env
<1>5. CASE AlertRead(w)
  <2>1. PICK t \in k.left :
          IF rating[<<k.user, t>>] = None
          THEN alerting' = [alerting EXCEPT ![w] = [k EXCEPT !.left = @ \ {t}]]
          ELSE alerting' = [alerting EXCEPT ![w] =
                 [k EXCEPT !.left = @ \ {t}, !.pc = "read", !.ticker = t,
                           !.rating = rating[<<k.user, t>>]]]
    <3>1. PICK t \in k.left :
            LET r == rating[<<k.user, t>>]
            IN  alerting' = [alerting EXCEPT ![w] =
                  IF r = None THEN [alerting[w] EXCEPT !.left = @ \ {t}]
                  ELSE [alerting[w] EXCEPT !.left = @ \ {t}, !.pc = "read", !.ticker = t, !.rating = r]]
      BY <1>5 DEF AlertRead
    <3> QED
      BY <1>1, <3>1
  <2>2. t \in Tickers /\ rating[<<k.user, t>>] \in Ratings \cup {None}
    BY <1>1 DEF Alerts, Alerting, Pairs, TypeInv, Tables
  <2>3. Runs'
    <3>1. CASE rating[<<k.user, t>>] = None
      <4>1. [k EXCEPT !.left = @ \ {t}] \in Alerts
        BY <1>1, <2>2, AlertForms
      <4> QED
        BY <1>5, <1>a, <2>1, <3>1, <4>1 DEF AlertRead
    <3>2. CASE rating[<<k.user, t>>] # None
      <4> DEFINE r == rating[<<k.user, t>>]
      <4>1. [k EXCEPT !.left = @ \ {t}, !.pc = "read", !.ticker = t, !.rating = r] \in Alerts
        BY <1>1, <2>2, <3>2, AlertForms
      <4> QED
        BY <1>5, <1>a, <2>1, <3>2, <4>1 DEF AlertRead
    <3> QED
      BY <3>1, <3>2
  <2> QED
    BY <1>5, <2>3 DEF AlertRead, TypeInv, Tables, Surroundings, tables, history, env
<1>b. k.pc \in {"read", "notify", "mark", "store"} =>
        NextTicker(w) \in Alerts /\ [k EXCEPT !.pc = "notify"] \in Alerts
          /\ [k EXCEPT !.pc = "mark"] \in Alerts
  BY <1>1, AlertForms DEF NextTicker
<1>6. CASE AlertCompare(w)
  <2>1. Runs'
    BY <1>1, <1>6, <1>a, <1>b DEF AlertCompare
  <2> QED
    BY <1>6, <2>1 DEF AlertCompare, TypeInv, Tables, Surroundings, tables, history, env
<1>7. CASE AlertNotify(w)
  <2>1. Runs'
    <3>1. alerting' = [alerting EXCEPT ![w] = [k EXCEPT !.pc = "mark"]] \/ 
          alerting' = [alerting EXCEPT ![w] = NextTicker(w)]
      BY <1>1, <1>7 DEF AlertNotify
    <3> QED
      BY <1>1, <1>7, <1>a, <1>b, <3>1 DEF AlertNotify
  <2>2. /\ told' \in [Pairs -> Ratings \cup {None}] /\ known' \subseteq Pairs
        /\ faults' \in 0..MaxFaults
    <3>1. CASE Propose(w) /\ UNCHANGED faults
      BY <1>2, <1>7, <3>1 DEF AlertNotify, Propose, TypeInv, Surroundings
    <3>2. CASE Fault /\ UNCHANGED <<told, known>>
      BY <3>2, BoundsAssumption DEF Fault, TypeInv, Surroundings
    <3> QED
      BY <1>7, <3>1, <3>2 DEF AlertNotify
  <2> QED
    BY <1>7, <2>1, <2>2 DEF AlertNotify, TypeInv, Tables, Surroundings, tables
<1>8. CASE AlertMark(w)
  <2>1. [k EXCEPT !.pc = "store", !.at = clock] \in Alerts
    BY <1>1, <1>8, AlertForms DEF AlertMark, TypeInv, Surroundings
  <2>2. alerting' = [alerting EXCEPT ![w] = [k EXCEPT !.pc = "store", !.at = clock]]
    BY <1>1, <1>8 DEF AlertMark
  <2>3. Runs'
    BY <1>8, <1>a, <2>1, <2>2 DEF AlertMark
  <2> QED
    BY <1>8, <2>3 DEF AlertMark, TypeInv, Tables, Surroundings, tables, history, env
<1>10. CASE AlertStore(w)
  <2>1. Runs'
    BY <1>1, <1>10, <1>a, <1>b DEF AlertStore
  <2>2. seen' \in [Pairs -> SeenRows \cup {None}] /\ excused' \subseteq Pairs
    <3>1. At(w) \in Pairs /\ [rating |-> k.rating, at |-> k.at] \in SeenRows
      BY <1>1, <1>2, <1>10 DEF AlertStore, SeenRows, Alerting
    <3> QED
      BY <1>10, <3>1 DEF AlertStore, TypeInv, Tables, Surroundings
  <2> QED
    BY <1>10, <2>1, <2>2 DEF AlertStore, TypeInv, Tables, Surroundings, env
<1>9. CASE AlertAborts(w)
  <2>1. Runs'
    BY <1>1, <1>9, <1>a, AlertForms DEF AlertAborts
  <2>2. faults' \in 0..MaxFaults
    BY <1>9, BoundsAssumption DEF AlertAborts, Fault, TypeInv, Surroundings
  <2> QED
    BY <1>9, <2>1, <2>2 DEF AlertAborts, TypeInv, Tables, Surroundings, tables, history
<1> QED
  BY <1>3, <1>4, <1>5, <1>6, <1>7, <1>8, <1>9, <1>10 DEF AlertStep

LEMMA MentionType ==
  ASSUME Surroundings, NEW u, NEW found \in Changes, Mention(u, found)
  PROVE  mentioned' \in [Pairs -> 0..MaxClock \cup {None}]
<1>1. ASSUME NEW p \in Pairs, \E c \in found : Newer(c, p)
      PROVE  (CHOOSE c \in found : Newer(c, p))[2] \in 0..MaxClock
  <2> DEFINE c == CHOOSE c \in found : Newer(c, p)
  <2>1. c \in found
    BY <1>1
  <2> HIDE DEF c
  <2>2. c \in Tickers \X (0..MaxClock)
    BY <2>1 DEF Changes
  <2> QED
    BY <2>2 DEF c
<1> QED
  BY <1>1 DEF Mention, Surroundings

LEMMA BriefType ==
  ASSUME TypeInv, NEW d \in Digesters, BriefStep(d) \/ BriefAborts(d)
  PROVE  TypeInv'
<1> DEFINE b == briefing[d]
<1>1. b \in Digests /\ b \in Composing /\ briefing \in [Digesters -> Digests]
  BY DEF TypeInv, Runs, Digests
<1>2. /\ b.found \in Changes /\ b.now \in 0..MaxClock
      /\ \A u : Since(u) \in 0..MaxClock \/ u \notin Users
  <2>1. \A u \in Users : Since(u) \in 0..MaxClock
    BY BoundsAssumption DEF Since, TypeInv, Tables
  <2> QED
    BY <1>1, <2>1 DEF Composing
<1>a. ASSUME NEW c \in Digests, briefing' = [briefing EXCEPT ![d] = c], UNCHANGED <<alerting, asked>>
      PROVE  Runs'
  BY <1>a DEF TypeInv, Runs
<1>3. CASE BriefStart(d)
  <2>5. [ComposingOff EXCEPT !.pc = "next", !.todo = users, !.now = clock] \in Digests
    BY <1>1, <1>2, <1>3, DigestForms, BoundsAssumption DEF BriefStart, TypeInv, Tables, Surroundings
  <2>6. briefing' = [briefing EXCEPT ![d] = [ComposingOff EXCEPT !.pc = "next", !.todo = users, !.now = clock]]
    BY <1>1, <1>3 DEF BriefStart
  <2>7. Runs'
    BY <1>3, <1>a, <2>5, <2>6 DEF BriefStart
  <2> QED
    BY <1>3, <2>7 DEF BriefStart, TypeInv, Tables, Surroundings, tables, history, env
<1>4. CASE BriefUser(d)
  <2>1. ASSUME briefing' = [briefing EXCEPT ![d] = ComposingOff] PROVE Runs'
    <3>1. ComposingOff \in Digests
      BY <1>1, DigestForms, BoundsAssumption
    <3>2. UNCHANGED <<alerting, asked>>
      BY <1>4 DEF BriefUser
    <3> HIDE DEF ComposingOff
    <3> QED
      BY <1>a, <2>1, <3>1, <3>2
  <2>2. ASSUME NEW u \in b.todo,
               briefing' = [briefing EXCEPT ![d] =
                 IF Due(u, b.now) THEN [b EXCEPT !.todo = @ \ {u}, !.user = u, !.pc = "since"]
                 ELSE [b EXCEPT !.todo = @ \ {u}]]
        PROVE  Runs'
    <3>1. u \in Users /\ b.pc = "next"
      BY <1>1, <1>4 DEF Composing, BriefUser
    <3>2. /\ [b EXCEPT !.todo = @ \ {u}, !.user = u, !.pc = "since"] \in Digests
          /\ [b EXCEPT !.todo = @ \ {u}] \in Digests
      BY <1>1, <3>1, DigestForms, BoundsAssumption
    <3>3. \/ briefing' = [briefing EXCEPT ![d] = [b EXCEPT !.todo = @ \ {u}, !.user = u, !.pc = "since"]]
          \/ briefing' = [briefing EXCEPT ![d] = [b EXCEPT !.todo = @ \ {u}]]
      <4>1. CASE Due(u, b.now)
        BY <1>1, <2>2, <4>1
      <4>2. CASE ~Due(u, b.now)
        BY <1>1, <2>2, <4>2
      <4> QED
        BY <4>1, <4>2
    <3> QED
      BY <1>4, <1>a, <3>2, <3>3 DEF BriefUser
  <2>3. Runs'
    <3>1. \/ \E u \in b.todo :
               briefing' = [briefing EXCEPT ![d] =
                 IF Due(u, b.now) THEN [b EXCEPT !.todo = @ \ {u}, !.user = u, !.pc = "since"]
                 ELSE [b EXCEPT !.todo = @ \ {u}]]
          \/ briefing' = [briefing EXCEPT ![d] = ComposingOff]
      BY <1>4 DEF BriefUser
    <3> QED
      BY <2>1, <2>2, <3>1
  <2> QED
    BY <1>4, <2>3 DEF BriefUser, TypeInv, Tables, Surroundings, tables, history, env
<1>5. CASE BriefSince(d)
  <2>1. b.user \in Users
    BY <1>1, <1>5 DEF BriefSince, Digests
  <2>5. [b EXCEPT !.pc = "changes", !.since = Since(b.user)] \in Digests
    BY <1>1, <1>2, <1>5, <2>1, DigestForms, BoundsAssumption DEF BriefSince
  <2>6. briefing' = [briefing EXCEPT ![d] = [b EXCEPT !.pc = "changes", !.since = Since(b.user)]]
    BY <1>1, <1>5 DEF BriefSince
  <2>7. Runs'
    BY <1>5, <1>a, <2>5, <2>6 DEF BriefSince
  <2> QED
    BY <1>5, <2>7 DEF BriefSince, TypeInv, Tables, Surroundings, tables, history, env
<1>6. CASE BriefChanges(d)
  <2>1. b.user \in Users
    BY <1>1, <1>6 DEF BriefChanges, Digests
  <2>2. ChangesSince(b.user, b.since) \in Changes
    BY <2>1, ChangesType DEF TypeInv
  <2>5. [b EXCEPT !.pc = "deliver", !.found = ChangesSince(b.user, b.since)] \in Digests
    BY <1>1, <1>2, <1>6, <2>2, DigestForms, BoundsAssumption DEF BriefChanges
  <2>6. briefing' = [briefing EXCEPT ![d] = [b EXCEPT !.pc = "deliver", !.found = ChangesSince(b.user, b.since)]]
    BY <1>1, <1>6 DEF BriefChanges
  <2>7. Runs'
    BY <1>6, <1>a, <2>5, <2>6 DEF BriefChanges
  <2> QED
    BY <1>6, <2>7 DEF BriefChanges, TypeInv, Tables, Surroundings, tables, history, env
<1>7. CASE BriefDeliver(d)
  <2>1. /\ [b EXCEPT !.pc = "stamp"] \in Digests
        /\ [b EXCEPT !.pc = "next", !.user = None, !.since = 0, !.found = {}] \in Digests
    BY <1>1, <1>7, DigestForms, BoundsAssumption DEF BriefDeliver
  <2>2. \/ briefing' = [briefing EXCEPT ![d] = [b EXCEPT !.pc = "stamp"]]
        \/ briefing' = [briefing EXCEPT ![d] =
             [b EXCEPT !.pc = "next", !.user = None, !.since = 0, !.found = {}]]
    BY <1>1, <1>7 DEF BriefDeliver
  <2>3. Runs'
    BY <1>7, <1>a, <2>1, <2>2 DEF BriefDeliver
  <2>4. mentioned' \in [Pairs -> 0..MaxClock \cup {None}] /\ faults' \in 0..MaxFaults
    <3>1. CASE Mention(b.user, b.found) /\ UNCHANGED faults
      BY <1>2, <3>1, MentionType DEF TypeInv, Surroundings
    <3>2. CASE Fault /\ UNCHANGED mentioned
      BY <3>2, BoundsAssumption DEF Fault, TypeInv, Surroundings
    <3> QED
      BY <1>7, <3>1, <3>2 DEF BriefDeliver
  <2> QED
    BY <1>7, <2>3, <2>4 DEF BriefDeliver, TypeInv, Tables, Surroundings, tables
<1>8. CASE BriefStamp(d)
  <2>5. [b EXCEPT !.pc = "next", !.user = None, !.since = 0, !.found = {}] \in Digests
    BY <1>1, <1>2, <1>8, DigestForms, BoundsAssumption DEF BriefStamp
  <2>6. briefing' = [briefing EXCEPT ![d] = [b EXCEPT !.pc = "next", !.user = None, !.since = 0, !.found = {}]]
    BY <1>1, <1>8 DEF BriefStamp
  <2>7. Runs'
    BY <1>8, <1>a, <2>5, <2>6 DEF BriefStamp
  <2>8. briefedAt' \in [Users -> 0..MaxClock \cup {None}]
    BY <1>2, <1>8 DEF BriefStamp, Stamp, TypeInv, Tables
  <2> QED
    BY <1>8, <2>7, <2>8 DEF BriefStamp, TypeInv, Tables, Surroundings, tables, history, env
<1>9. CASE BriefAborts(d)
  <2>1. Runs'
    BY <1>1, <1>9, <1>a, DigestForms, BoundsAssumption DEF BriefAborts
  <2>2. faults' \in 0..MaxFaults
    BY <1>9, BoundsAssumption DEF BriefAborts, Fault, TypeInv, Surroundings
  <2> QED
    BY <1>9, <2>1, <2>2 DEF BriefAborts, TypeInv, Tables, Surroundings, tables, history
<1> QED
  BY <1>3, <1>4, <1>5, <1>6, <1>7, <1>8, <1>9 DEF BriefStep

LEMMA AskType ==
  ASSUME TypeInv, NEW u \in Users, Ask(u) \/ AskStep(u)
  PROVE  TypeInv'
<1>1. asked[u] \in Composing /\ asked[u].found \in Changes
  BY DEF TypeInv, Runs, Composing
<1>a. ASSUME NEW b \in Composing, asked' = [asked EXCEPT ![u] = b], UNCHANGED <<alerting, briefing>>
      PROVE  Runs'
  BY <1>a DEF TypeInv, Runs
<1>2. CASE Ask(u)
  <2>1. Since(u) \in 0..MaxClock
    BY BoundsAssumption DEF Since, TypeInv, Tables
  <2>2. [asked[u] EXCEPT !.pc = "changes", !.since = Since(u)] \in Composing
    BY <1>1, <2>1, DigestForms, BoundsAssumption
  <2>3. asked' = [asked EXCEPT ![u] = [asked[u] EXCEPT !.pc = "changes", !.since = Since(u)]]
    BY <1>2 DEF Ask, TypeInv, Runs
  <2>4. Runs'
    BY <1>2, <1>a, <2>2, <2>3 DEF Ask
  <2> QED
    BY <1>2, <2>4 DEF Ask, TypeInv, Tables, Surroundings, tables, history, env
<1>3. CASE AskChanges(u)
  <2> DEFINE f == ChangesSince(u, asked[u].since)
  <2>1. f \in Changes
    BY ChangesType DEF TypeInv
  <2>2. [asked[u] EXCEPT !.pc = "compose", !.found = f] \in Composing
    BY <1>1, <2>1, DigestForms, BoundsAssumption
  <2>3. asked' = [asked EXCEPT ![u] = [asked[u] EXCEPT !.pc = "compose", !.found = f]]
    BY <1>3 DEF AskChanges, TypeInv, Runs
  <2>4. Runs'
    BY <1>3, <1>a, <2>2, <2>3 DEF AskChanges
  <2> QED
    BY <1>3, <2>4 DEF AskChanges, TypeInv, Tables, Surroundings, tables, history, env
<1>6. CASE AskComposed(u)
  <2>1. [asked[u] EXCEPT !.pc = "stamp", !.now = clock] \in Composing
    BY <1>1, DigestForms, BoundsAssumption DEF TypeInv, Surroundings
  <2>2. asked' = [asked EXCEPT ![u] = [asked[u] EXCEPT !.pc = "stamp", !.now = clock]]
    BY <1>6 DEF AskComposed, TypeInv, Runs
  <2>3. Runs'
    BY <1>6, <1>a, <2>1, <2>2 DEF AskComposed
  <2> QED
    BY <1>6, <2>3 DEF AskComposed, TypeInv, Tables, Surroundings, tables, history, env
<1>4. CASE AskStamp(u)
  <2>1. [asked[u] EXCEPT !.pc = "reply"] \in Composing
    BY <1>1, DigestForms, BoundsAssumption
  <2>2. asked' = [asked EXCEPT ![u] = [asked[u] EXCEPT !.pc = "reply"]]
    BY <1>4 DEF AskStamp, TypeInv, Runs
  <2>3. Runs'
    BY <1>4, <1>a, <2>1, <2>2 DEF AskStamp
  <2>4. briefedAt' \in [Users -> 0..MaxClock \cup {None}]
    <3>1. asked[u].now \in 0..MaxClock
      BY <1>1 DEF Composing
    <3> QED
      BY <1>4, <3>1 DEF AskStamp, Stamp, TypeInv, Tables
  <2> QED
    BY <1>4, <2>3, <2>4 DEF AskStamp, TypeInv, Tables, Surroundings, history, env
<1>5. CASE AskReply(u)
  <2>1. Runs'
    BY <1>1, <1>5, <1>a, DigestForms, BoundsAssumption DEF AskReply
  <2>2. /\ mentioned' \in [Pairs -> 0..MaxClock \cup {None}] /\ faults' \in 0..MaxFaults
        /\ excused' \subseteq Pairs
    <3>1. CASE Mention(u, asked[u].found) /\ UNCHANGED <<excused, faults>>
      BY <1>1, <3>1, MentionType DEF TypeInv, Surroundings
    <3>2. CASE /\ Fault /\ UNCHANGED mentioned
               /\ excused' = excused \cup {<<u, c[1]>> : c \in asked[u].found}
      <4>1. \A c \in asked[u].found : <<u, c[1]>> \in Pairs
        BY <1>1 DEF Changes, Pairs
      <4> QED
        BY <3>2, <4>1, BoundsAssumption DEF Fault, TypeInv, Surroundings
    <3> QED
      BY <1>5, <3>1, <3>2 DEF AskReply
  <2> QED
    BY <1>5, <2>1, <2>2 DEF AskReply, TypeInv, Tables, Surroundings, tables
<1> QED
  BY <1>2, <1>3, <1>4, <1>5, <1>6 DEF AskStep

LEMMA TypeNext == TypeInv /\ [Next]_vars => TypeInv'
<1> SUFFICES ASSUME TypeInv, [Next]_vars PROVE TypeInv'
  OBVIOUS
<1>1. CASE Tick
  <2>1. clock' \in 0..MaxClock
    BY <1>1, BoundsAssumption DEF Tick, TypeInv, Surroundings
  <2> QED
    BY <1>1, <2>1 DEF Tick, TypeInv, Tables, Runs, Surroundings, tables, requests, history
<1>2. ASSUME NEW u \in Users, NEW t \in Tickers, Track(u, t) PROVE TypeInv'
  <2>1. tracked' \in [Users -> SUBSET Tickers]
    BY <1>2 DEF Track, TypeInv, Tables
  <2> QED
    BY <1>2, <2>1 DEF Track, TypeInv, Tables, Runs, Surroundings, requests, history, env
<1>3. ASSUME NEW u \in Users, NEW t \in Tickers, NEW r \in Ratings, Report(u, t, r) PROVE TypeInv'
  <2>1. rating' \in [Pairs -> Ratings \cup {None}] /\ known' \subseteq Pairs
    BY <1>3 DEF Report, TypeInv, Tables, Surroundings, Pairs
  <2>2. reports' \in 0..MaxReports
    BY <1>3, BoundsAssumption DEF Report, TypeInv, Surroundings
  <2> QED
    BY <1>3, <2>1, <2>2 DEF Report, TypeInv, Tables, Runs, Surroundings, requests
<1>4. ASSUME NEW u \in Users, Erase(u) PROVE TypeInv'
  <2>1. /\ users' \subseteq Users /\ tracked' \in [Users -> SUBSET Tickers]
        /\ rating' \in [Pairs -> Ratings \cup {None}]
        /\ briefedAt' \in [Users -> 0..MaxClock \cup {None}]
    BY <1>4 DEF Erase, TypeInv, Tables
  <2> QED
    BY <1>4, <2>1 DEF Erase, TypeInv, Tables, Runs, Surroundings, requests, history, env
<1>5. CASE UNCHANGED vars
  BY <1>5 DEF vars, tables, requests, history, env, TypeInv, Tables, Runs, Surroundings
<1> QED
  BY <1>1, <1>2, <1>3, <1>4, <1>5, AlertType, BriefType, AskType DEF Next

\* Tables, requests and what is remembered of the past stay of their kinds.
THEOREM TypeCorrect == Spec => []TypeOK
BY TypeInit, TypeNext, TypeParts, PTL DEF Spec

(***************************************************************************)
(* Times.  Nothing is seen, briefed or read in the future, and a briefing  *)
(* mentions one change of a ticker.                                        *)
(***************************************************************************)

Timely(b) == b.now <= clock /\ b.since <= clock /\ OneEach(b.found)

Past ==
  /\ \A p \in Pairs : seen[p] # None => seen[p].at <= clock
  /\ \A u \in Users : briefedAt[u] # None => briefedAt[u] <= clock
  /\ \A w \in Sweepers : alerting[w].at <= clock
  /\ \A d \in Digesters : Timely(briefing[d])
  /\ \A u \in Users : Timely(asked[u])

LEMMA PastInit == Init => Past
BY BoundsAssumption DEF Init, Past, Timely, AlertingOff, ComposingOff, OneEach

LEMMA OffIsTimely == TypeInv => Timely(ComposingOff)
BY DEF Timely, ComposingOff, OneEach, TypeInv, Surroundings

LEMMA SinceIsPast ==
  ASSUME TypeInv, Past, NEW u \in Users
  PROVE  Since(u) <= clock
BY BoundsAssumption DEF Since, Past, TypeInv, Tables, Surroundings

\* What a step of a rating sweep makes of the times.
LEMMA AlertTimes ==
  ASSUME TypeInv, NEW w \in Sweepers, AlertStep(w) \/ AlertAborts(w)
  PROVE  /\ alerting'[w].at \in {alerting[w].at, 0, clock}
         /\ \A v \in Sweepers \ {w} : alerting'[v] = alerting[v]
         /\ UNCHANGED <<users, briefedAt, briefing, asked, mentioned, clock>>
         /\ ~AlertStore(w) => UNCHANGED <<seen, excused>>
<1>1. alerting \in [Sweepers -> Alerting] /\ AlertingOff.at = 0
  BY DEF TypeInv, Runs, Alerts, AlertingOff
<1>2. CASE AlertStart(w) \/ AlertAborts(w)
  BY <1>1, <1>2
  DEF AlertStart, AlertAborts, AlertingOff, Alerting, AlertStore, tables, history, env
<1>3. CASE AlertUser(w)
  <2> HIDE DEF AlertingOff
  <2> QED
    BY <1>1, <1>3, ZenonT(40) DEF AlertUser, Alerting, AlertStore, tables, history, env
<1>4. CASE AlertRead(w)
  BY <1>1, <1>4, SMTT(30) DEF AlertRead, Alerting, AlertStore, tables, history, env
<1>5. CASE AlertCompare(w) \/ AlertMark(w)
  BY <1>1, <1>5 DEF AlertCompare, AlertMark, NextTicker, Alerting, AlertStore, tables, history, env
<1>6. CASE AlertNotify(w)
  <2>1. UNCHANGED <<users, seen, briefedAt, briefing, asked, mentioned, excused, clock>>
    BY <1>6 DEF AlertNotify, tables
  <2>2. /\ [alerting[w] EXCEPT !.pc = "mark"].at = alerting[w].at
        /\ NextTicker(w).at = 0
    BY <1>1 DEF NextTicker, Alerting
  <2>3. \/ alerting' = [alerting EXCEPT ![w] = [alerting[w] EXCEPT !.pc = "mark"]]
        \/ alerting' = [alerting EXCEPT ![w] = NextTicker(w)]
    BY <1>6 DEF AlertNotify
  <2>4. /\ alerting'[w].at \in {alerting[w].at, 0}
        /\ \A v \in Sweepers \ {w} : alerting'[v] = alerting[v]
    BY <1>1, <2>2, <2>3
  <2> QED
    BY <2>1, <2>4
<1>7. CASE AlertStore(w)
  BY <1>1, <1>7 DEF AlertStore, NextTicker, Alerting, env
<1> QED
  BY <1>2, <1>3, <1>4, <1>5, <1>6, <1>7 DEF AlertStep

\* What a step of a briefing sweep leaves alone.
LEMMA BriefKeeps ==
  ASSUME TypeInv, NEW d \in Digesters, BriefStep(d) \/ BriefAborts(d)
  PROVE  /\ \A x \in Digesters \ {d} : briefing'[x] = briefing[x]
         /\ UNCHANGED <<users, seen, alerting, asked, excused, clock>>
         /\ ~BriefDeliver(d) => UNCHANGED mentioned
         /\ ~BriefStamp(d) => UNCHANGED briefedAt
<1>1. briefing \in [Digesters -> Digests]
  BY DEF TypeInv, Runs
<1>2. CASE BriefUser(d)
  BY <1>1, <1>2 DEF BriefUser, tables, history, env
<1>3. CASE ~BriefUser(d)
  BY <1>1, <1>3
  DEF BriefStep, BriefStart, BriefSince, BriefChanges, BriefDeliver, BriefStamp, BriefAborts,
      tables, history, env
<1> QED
  BY <1>2, <1>3

\* What it makes of its briefing.
LEMMA BriefBecomes ==
  ASSUME TypeInv, NEW d \in Digesters
  PROVE  /\ BriefStart(d) => /\ briefing'[d].pc = "next" /\ briefing'[d].now = clock
                             /\ briefing'[d].since = 0 /\ briefing'[d].found = {}
         /\ BriefUser(d) => /\ briefing'[d].pc \in {"off", "next", "since"}
                            /\ \/ briefing'[d] = ComposingOff
                               \/ /\ briefing'[d].now = briefing[d].now
                                  /\ briefing'[d].since = briefing[d].since
                                  /\ briefing'[d].found = briefing[d].found
         /\ BriefSince(d) => /\ briefing[d].user \in Users /\ briefing'[d].user = briefing[d].user
                             /\ briefing'[d].pc = "changes"
                             /\ briefing'[d].since = Since(briefing[d].user)
                             /\ briefing'[d].now = briefing[d].now
                             /\ briefing'[d].found = briefing[d].found
         /\ BriefChanges(d) => /\ briefing[d].user \in Users /\ briefing'[d].user = briefing[d].user
                               /\ briefing[d].pc = "changes" /\ briefing'[d].pc = "deliver"
                               /\ briefing'[d].now = briefing[d].now
                               /\ briefing'[d].since = briefing[d].since
                               /\ briefing'[d].found = ChangesSince(briefing[d].user, briefing[d].since)
         /\ BriefDeliver(d) =>
              /\ briefing[d].pc = "deliver" /\ briefing[d].user \in Users
              /\ briefing'[d].now = briefing[d].now
              /\ \/ /\ briefing'[d].pc = "stamp" /\ briefing'[d].user = briefing[d].user
                    /\ briefing'[d].since = briefing[d].since
                    /\ briefing'[d].found = briefing[d].found
                    /\ Mention(briefing[d].user, briefing[d].found)
                 \/ /\ briefing'[d].pc = "next" /\ briefing'[d].since = 0
                    /\ briefing'[d].found = {} /\ UNCHANGED mentioned
         /\ BriefStamp(d) => /\ briefing[d].pc = "stamp" /\ briefing'[d].pc = "next"
                             /\ briefing'[d].now = briefing[d].now
                             /\ briefing'[d].since = 0 /\ briefing'[d].found = {}
                             /\ Stamp(briefing[d].user, briefing[d].now)
         /\ BriefAborts(d) => briefing'[d] = ComposingOff
<1>1. briefing \in [Digesters -> Digests] /\ briefing[d] \in Composing
      /\ (briefing[d].pc \notin {"off", "next"} => briefing[d].user \in Users)
  BY DEF TypeInv, Runs, Digests
<1>2. ComposingOff.pc = "off"
  BY DEF ComposingOff
<1>3. ASSUME BriefStart(d)
      PROVE  /\ briefing'[d].pc = "next" /\ briefing'[d].now = clock
             /\ briefing'[d].since = 0 /\ briefing'[d].found = {}
  BY <1>1, <1>3 DEF BriefStart, ComposingOff
<1>4. ASSUME BriefUser(d)
      PROVE  /\ briefing'[d].pc \in {"off", "next", "since"}
             /\ \/ briefing'[d] = ComposingOff
                \/ /\ briefing'[d].now = briefing[d].now /\ briefing'[d].since = briefing[d].since
                   /\ briefing'[d].found = briefing[d].found
  <2> HIDE DEF ComposingOff
  <2>1. \/ briefing'[d] = ComposingOff
        \/ \E u \in briefing[d].todo :
             \/ briefing'[d] = [briefing[d] EXCEPT !.todo = @ \ {u}, !.user = u, !.pc = "since"]
             \/ briefing'[d] = [briefing[d] EXCEPT !.todo = @ \ {u}]
    <3>1. ASSUME NEW u \in briefing[d].todo,
                 briefing' = [briefing EXCEPT ![d] =
                   IF Due(u, briefing[d].now)
                   THEN [briefing[d] EXCEPT !.todo = @ \ {u}, !.user = u, !.pc = "since"]
                   ELSE [briefing[d] EXCEPT !.todo = @ \ {u}]]
          PROVE  \/ briefing'[d] = [briefing[d] EXCEPT !.todo = @ \ {u}, !.user = u, !.pc = "since"]
                 \/ briefing'[d] = [briefing[d] EXCEPT !.todo = @ \ {u}]
      <4>1. CASE Due(u, briefing[d].now)
        BY <1>1, <3>1, <4>1
      <4>2. CASE ~Due(u, briefing[d].now)
        BY <1>1, <3>1, <4>2
      <4> QED
        BY <4>1, <4>2
    <3>2. \/ \E u \in briefing[d].todo :
               briefing' = [briefing EXCEPT ![d] =
                 IF Due(u, briefing[d].now)
                 THEN [briefing[d] EXCEPT !.todo = @ \ {u}, !.user = u, !.pc = "since"]
                 ELSE [briefing[d] EXCEPT !.todo = @ \ {u}]]
          \/ briefing' = [briefing EXCEPT ![d] = ComposingOff]
      BY <1>4 DEF BriefUser
    <3>3. briefing' = [briefing EXCEPT ![d] = ComposingOff] => briefing'[d] = ComposingOff
      BY <1>1
    <3> QED
      BY <3>1, <3>2, <3>3
  <2>2. briefing[d].pc = "next"
    BY <1>4 DEF BriefUser
  <2> QED
    BY <1>1, <1>2, <2>1, <2>2 DEF Composing
<1>5. ASSUME BriefSince(d)
      PROVE  /\ briefing[d].user \in Users /\ briefing'[d].user = briefing[d].user
             /\ briefing'[d].pc = "changes" /\ briefing'[d].since = Since(briefing[d].user)
             /\ briefing'[d].now = briefing[d].now /\ briefing'[d].found = briefing[d].found
  BY <1>1, <1>5 DEF BriefSince, Composing
<1>6. ASSUME BriefChanges(d)
      PROVE  /\ briefing[d].user \in Users /\ briefing'[d].user = briefing[d].user
             /\ briefing[d].pc = "changes" /\ briefing'[d].pc = "deliver"
             /\ briefing'[d].now = briefing[d].now /\ briefing'[d].since = briefing[d].since
             /\ briefing'[d].found = ChangesSince(briefing[d].user, briefing[d].since)
  BY <1>1, <1>6 DEF BriefChanges, Composing
<1>7. ASSUME BriefDeliver(d)
      PROVE  /\ briefing[d].pc = "deliver" /\ briefing[d].user \in Users
             /\ briefing'[d].now = briefing[d].now
             /\ \/ /\ briefing'[d].pc = "stamp" /\ briefing'[d].user = briefing[d].user
                   /\ briefing'[d].since = briefing[d].since
                   /\ briefing'[d].found = briefing[d].found
                   /\ Mention(briefing[d].user, briefing[d].found)
                \/ /\ briefing'[d].pc = "next" /\ briefing'[d].since = 0
                   /\ briefing'[d].found = {} /\ UNCHANGED mentioned
  <2>1. /\ briefing[d].pc = "deliver"
        /\ \/ /\ briefing'[d] = [briefing[d] EXCEPT !.pc = "stamp"]
              /\ Mention(briefing[d].user, briefing[d].found)
           \/ /\ briefing'[d] =
                   [briefing[d] EXCEPT !.pc = "next", !.user = None, !.since = 0, !.found = {}]
              /\ UNCHANGED mentioned
    BY <1>1, <1>7 DEF BriefDeliver
  <2>2. briefing[d].user \in Users
    BY <1>1, <2>1
  <2>3. CASE briefing'[d] = [briefing[d] EXCEPT !.pc = "stamp"]
               /\ Mention(briefing[d].user, briefing[d].found)
    BY <1>1, <2>1, <2>2, <2>3 DEF Composing
  <2>4. CASE /\ briefing'[d] =
                   [briefing[d] EXCEPT !.pc = "next", !.user = None, !.since = 0, !.found = {}]
             /\ UNCHANGED mentioned
    BY <1>1, <2>1, <2>2, <2>4 DEF Composing
  <2> QED
    BY <2>1, <2>3, <2>4
<1>8. ASSUME BriefStamp(d)
      PROVE  /\ briefing[d].pc = "stamp" /\ briefing'[d].pc = "next"
             /\ briefing'[d].now = briefing[d].now
             /\ briefing'[d].since = 0 /\ briefing'[d].found = {}
             /\ Stamp(briefing[d].user, briefing[d].now)
  BY <1>1, <1>8 DEF BriefStamp, Composing
<1>9. ASSUME BriefAborts(d) PROVE briefing'[d] = ComposingOff
  BY <1>1, <1>9 DEF BriefAborts
<1> HIDE DEF ComposingOff
<1> QED
  BY <1>3, <1>4, <1>5, <1>6, <1>7, <1>8, <1>9

\* A request for a briefing.
LEMMA AskBecomes ==
  ASSUME TypeInv, NEW v \in Users, Ask(v) \/ AskStep(v)
  PROVE  /\ \A x \in Users \ {v} : asked'[x] = asked[x]
         /\ UNCHANGED <<users, seen, alerting, briefing, clock>>
         /\ ~AskStamp(v) => UNCHANGED briefedAt
         /\ ~AskReply(v) => UNCHANGED <<mentioned, excused>>
         /\ \/ /\ Ask(v) /\ asked[v].pc = "off" /\ asked'[v].pc = "changes"
               /\ asked'[v].since = Since(v) /\ asked'[v].found = asked[v].found
               /\ asked'[v].now = asked[v].now
            \/ /\ AskChanges(v) /\ asked[v].pc = "changes" /\ asked'[v].pc = "compose"
               /\ asked'[v].since = asked[v].since /\ asked'[v].now = asked[v].now
               /\ asked'[v].found = ChangesSince(v, asked[v].since)
            \/ /\ AskComposed(v) /\ asked[v].pc = "compose" /\ asked'[v].pc = "stamp"
               /\ asked'[v].since = asked[v].since /\ asked'[v].now = clock
               /\ asked'[v].found = asked[v].found
            \/ /\ AskStamp(v) /\ asked[v].pc = "stamp" /\ asked'[v].pc = "reply"
               /\ asked'[v].since = asked[v].since /\ asked'[v].now = asked[v].now
               /\ asked'[v].found = asked[v].found /\ Stamp(v, asked[v].now)
            \/ AskReply(v) /\ asked[v].pc = "reply" /\ asked'[v] = ComposingOff
<1>1. asked \in [Users -> Composing]
  BY DEF TypeInv, Runs
<1> HIDE DEF ComposingOff
<1>2. CASE Ask(v)
  BY <1>1, <1>2 DEF Ask, AskStamp, AskReply, Composing, tables, history, env
<1>3. CASE AskChanges(v)
  BY <1>1, <1>3 DEF AskChanges, AskStamp, AskReply, Composing, tables, history, env
<1>4. CASE AskComposed(v)
  BY <1>1, <1>4 DEF AskComposed, AskStamp, AskReply, Composing, tables, history, env
<1>5. CASE AskStamp(v)
  BY <1>1, <1>5 DEF AskStamp, AskReply, Composing, history, env
<1>6. CASE AskReply(v)
  BY <1>1, <1>6 DEF AskStamp, AskReply, tables
<1> QED
  BY <1>2, <1>3, <1>4, <1>5, <1>6 DEF AskStep

LEMMA PastNext == TypeInv /\ Past /\ [Next]_vars => Past'
<1> SUFFICES ASSUME TypeInv, Past, [Next]_vars PROVE Past'
  OBVIOUS
<1>a. /\ clock \in 0..MaxClock /\ clock \in Nat
      /\ \A w \in Sweepers : alerting[w].at \in Nat
      /\ \A d \in Digesters : briefing[d].now \in Nat /\ briefing[d].since \in Nat
      /\ \A u \in Users : asked[u].now \in Nat /\ asked[u].since \in Nat
      /\ \A p \in Pairs : seen[p] # None => seen[p].at \in Nat
      /\ \A u \in Users : briefedAt[u] # None => briefedAt[u] \in Nat
  BY DEF TypeInv, Surroundings, Runs, Tables, Digests, Alerts, Alerting, Composing, SeenRows
<1>b. ASSUME UNCHANGED <<seen, briefedAt, alerting, briefing, asked, clock>> PROVE Past'
  BY <1>b DEF Past, Timely, OneEach
<1>1. CASE Tick
  <2>1. clock' = clock + 1 /\ UNCHANGED <<seen, briefedAt, alerting, briefing, asked>>
    BY <1>1 DEF Tick, tables, requests
  <2> QED
    BY <1>a, <2>1 DEF Past, Timely, OneEach
<1>2. ASSUME NEW u \in Users, NEW t \in Tickers, Track(u, t) \/ \E r \in Ratings : Report(u, t, r)
      PROVE  Past'
  BY <1>2, <1>b DEF Track, Report, requests, env
<1>3. ASSUME NEW u \in Users, Erase(u) PROVE Past'
  <2>1. \A v \in Users : briefedAt'[v] # None => briefedAt'[v] = briefedAt[v]
    BY <1>3 DEF Erase, TypeInv, Tables
  <2> QED
    BY <1>3, <2>1 DEF Erase, Past, Timely, OneEach, requests, env
<1>4. ASSUME NEW w \in Sweepers, AlertStep(w) \/ AlertAborts(w) PROVE Past'
  <2>1. \A v \in Sweepers : alerting'[v].at <= clock
    BY <1>4, <1>a, AlertTimes DEF Past
  <2>2. \A p \in Pairs : seen'[p] # None => seen'[p].at <= clock
    <3>1. CASE AlertStore(w)
      <4>1. \A p \in Pairs : seen'[p] = seen[p] \/ seen'[p].at = alerting[w].at
        BY <3>1 DEF AlertStore, TypeInv, Tables
      <4> QED
        BY <4>1 DEF Past
    <3>2. CASE ~AlertStore(w)
      BY <1>4, <3>2, AlertTimes DEF Past
    <3> QED
      BY <3>1, <3>2
  <2> QED
    BY <1>4, <2>1, <2>2, AlertTimes DEF Past, Timely, OneEach
<1>5. ASSUME NEW d \in Digesters, BriefStep(d) \/ BriefAborts(d) PROVE Past'
  <2>1. Timely(briefing[d]) /\ UNCHANGED <<seen, alerting, asked, clock>>
    BY <1>5, BriefKeeps DEF Past
  <2>2. briefing'[d].now <= clock /\ briefing'[d].since <= clock /\ OneEach(briefing'[d].found)
    <3> HIDE DEF ComposingOff
    <3>1. CASE BriefStart(d)
      BY <1>a, <3>1, BriefBecomes DEF OneEach
    <3>2. CASE BriefUser(d) \/ BriefAborts(d)
      BY <2>1, <3>2, BriefBecomes, OffIsTimely DEF Timely
    <3>3. CASE BriefSince(d)
      BY <2>1, <3>3, BriefBecomes, SinceIsPast DEF Timely
    <3>4. CASE BriefChanges(d)
      BY <2>1, <3>4, BriefBecomes, ChangesType DEF Timely, TypeInv
    <3>5. CASE BriefDeliver(d) \/ BriefStamp(d)
      <4>1. 0 <= clock /\ OneEach({})
        BY <1>a DEF OneEach
      <4> QED
        BY <2>1, <3>5, <4>1, BriefBecomes DEF Timely
    <3> QED
      BY <1>5, <3>1, <3>2, <3>3, <3>4, <3>5 DEF BriefStep
  <2>3. \A x \in Digesters :
          briefing'[x].now <= clock /\ briefing'[x].since <= clock /\ OneEach(briefing'[x].found)
    BY <1>5, <2>2, BriefKeeps DEF Past, Timely
  <2>4. \A u \in Users : briefedAt'[u] # None => briefedAt'[u] <= clock
    <3>1. CASE BriefStamp(d)
      <4>1. \A u \in Users : briefedAt'[u] = briefedAt[u] \/ briefedAt'[u] = briefing[d].now
        BY <3>1 DEF BriefStamp, Stamp, TypeInv, Tables
      <4> QED
        BY <2>1, <4>1 DEF Past, Timely
    <3>2. CASE ~BriefStamp(d)
      BY <1>5, <3>2, BriefKeeps DEF Past
    <3> QED
      BY <3>1, <3>2
  <2> QED
    BY <2>1, <2>3, <2>4 DEF Past, Timely, OneEach
<1>6. ASSUME NEW v \in Users, Ask(v) \/ AskStep(v) PROVE Past'
  <2>1. Timely(asked[v]) /\ UNCHANGED <<seen, alerting, briefing, clock>>
    BY <1>6, AskBecomes DEF Past
  <2>2. asked'[v].now <= clock /\ asked'[v].since <= clock /\ OneEach(asked'[v].found)
    <3>1. Since(v) <= clock /\ OneEach(ChangesSince(v, asked[v].since)) /\ Timely(ComposingOff)
      BY SinceIsPast, ChangesType, OffIsTimely DEF TypeInv
    <3> HIDE DEF ComposingOff
    <3> QED
      BY <1>6, <1>a, <2>1, <3>1, AskBecomes DEF Timely
  <2>3. \A u \in Users : asked'[u].now <= clock /\ asked'[u].since <= clock /\ OneEach(asked'[u].found)
    BY <1>6, <2>2, AskBecomes DEF Past, Timely
  <2>4. \A u \in Users : briefedAt'[u] # None => briefedAt'[u] <= clock
    <3>1. CASE AskStamp(v)
      <4>1. \A u \in Users : briefedAt'[u] = briefedAt[u] \/ briefedAt'[u] = asked[v].now
        BY <3>1 DEF AskStamp, Stamp, TypeInv, Tables
      <4> QED
        BY <2>1, <4>1 DEF Past, Timely
    <3>2. CASE ~AskStamp(v)
      BY <1>6, <3>2, AskBecomes DEF Past
    <3> QED
      BY <3>1, <3>2
  <2> QED
    BY <2>1, <2>3, <2>4 DEF Past, Timely, OneEach
<1>7. CASE UNCHANGED vars
  BY <1>7, <1>b DEF vars, tables, requests, env
<1> QED
  BY <1>1, <1>2, <1>3, <1>4, <1>5, <1>6, <1>7 DEF Next

(***************************************************************************)
(* Briefings.  A change that a cursor has passed, or is about to pass, was *)
(* mentioned or is in the reply under way, unless it is excused.  What     *)
(* becomes visible later either bears a time that no cursor passes, or is  *)
(* excused as overtaken.                                                   *)
(***************************************************************************)

Change(u, t) == <<t, seen[<<u, t>>].at>>

Told(u, t) ==
  \/ <<u, t>> \in excused
  \/ mentioned[<<u, t>>] # None /\ mentioned[<<u, t>>] >= seen[<<u, t>>].at
  \/ asked[u].pc = "reply" /\ Change(u, t) \in asked[u].found

SeenBefore(u, t, when) == seen[<<u, t>>].at < when

ByCursor(u, t) == briefedAt[u] # None /\ SeenBefore(u, t, briefedAt[u]) => Told(u, t)

ByDigest(d, u, t) ==
  briefing[d].user = u =>
    /\ briefing[d].pc = "changes" /\ SeenBefore(u, t, briefing[d].since) => Told(u, t)
    /\ briefing[d].pc = "deliver" /\ SeenBefore(u, t, briefing[d].now) =>
         Told(u, t) \/ Change(u, t) \in briefing[d].found
    /\ briefing[d].pc = "stamp" /\ SeenBefore(u, t, briefing[d].now) => Told(u, t)

ByDigests(u, t) == \A d \in Digesters : ByDigest(d, u, t)

ByAnswer(u, t) ==
  /\ asked[u].pc = "changes" /\ SeenBefore(u, t, asked[u].since) => Told(u, t)
  /\ asked[u].pc = "compose" => Told(u, t) \/ Change(u, t) \in asked[u].found
  /\ asked[u].pc = "stamp" /\ SeenBefore(u, t, asked[u].now) =>
       Told(u, t) \/ Change(u, t) \in asked[u].found

Accounted(u, t) ==
  seen[<<u, t>>] # None => ByCursor(u, t) /\ ByDigests(u, t) /\ ByAnswer(u, t)

NothingLost == \A u \in users, t \in Tickers : Accounted(u, t)

LEMMA NothingLostInit == Init => NothingLost
BY DEF Init, NothingLost, Accounted, Pairs

\* A mention is never taken back, and mentions all that was found.
LEMMA MentionTells ==
  ASSUME TypeInv, NEW u \in Users, NEW found \in Changes, OneEach(found), Mention(u, found)
  PROVE  /\ \A p \in Pairs : mentioned[p] # None =>
              mentioned'[p] # None /\ mentioned'[p] >= mentioned[p]
         /\ \A c \in found : mentioned'[<<u, c[1]>>] # None /\ mentioned'[<<u, c[1]>>] >= c[2]
<1>1. \A p \in Pairs : mentioned[p] # None => mentioned[p] \in Nat
  BY DEF TypeInv, Surroundings
<1>2. \A c \in found : c \in Tickers \X (0..MaxClock) /\ c[2] \in Nat /\ c[2] # None
  <2>1. \A c \in found : c \in Tickers \X (0..MaxClock)
    BY DEF Changes
  <2> QED
    BY <2>1, NoneAssumption
<1>3. ASSUME NEW p \in Pairs, \E c \in found : Newer(c, p)
      PROVE  (CHOOSE c \in found : Newer(c, p)) \in found
               /\ Newer(CHOOSE c \in found : Newer(c, p), p)
  BY <1>3
<1>4. ASSUME NEW p \in Pairs
      PROVE  mentioned'[p] = IF p[1] = u /\ \E c \in found : Newer(c, p)
                             THEN (CHOOSE c \in found : Newer(c, p))[2] ELSE mentioned[p]
  BY DEF Mention
<1>5. ASSUME NEW p \in Pairs, mentioned[p] # None
      PROVE  mentioned'[p] # None /\ mentioned'[p] >= mentioned[p]
  <2>1. CASE p[1] = u /\ \E c \in found : Newer(c, p)
    <3> DEFINE c == CHOOSE c \in found : Newer(c, p)
    <3>1. c \in found /\ Newer(c, p) /\ mentioned'[p] = c[2]
      BY <1>3, <1>4, <2>1
    <3> HIDE DEF c
    <3> QED
      BY <1>1, <1>2, <1>5, <3>1 DEF Newer
  <2>2. CASE ~(p[1] = u /\ \E c \in found : Newer(c, p))
    <3>1. mentioned'[p] = mentioned[p]
      BY <1>4, <2>2
    <3> QED
      BY <1>1, <1>5, <3>1
  <2> QED
    BY <2>1, <2>2
<1>6. ASSUME NEW d \in found
      PROVE  mentioned'[<<u, d[1]>>] # None /\ mentioned'[<<u, d[1]>>] >= d[2]
  <2> DEFINE p == <<u, d[1]>>
  <2>1. p \in Pairs /\ p[1] = u /\ p[2] = d[1]
    BY <1>2 DEF Pairs
  <2> HIDE DEF p
  <2>2. CASE Newer(d, p)
    <3> DEFINE c == CHOOSE c \in found : Newer(c, p)
    <3>1. c \in found /\ Newer(c, p) /\ mentioned'[p] = c[2]
      BY <1>3, <1>4, <2>1, <2>2
    <3> HIDE DEF c
    <3>2. c = d
      BY <2>1, <3>1 DEF Newer, OneEach
    <3> QED
      BY <1>2, <3>1, <3>2 DEF p
  <2>3. CASE ~Newer(d, p)
    <3>1. mentioned[p] # None /\ ~(d[2] > mentioned[p])
      BY <2>1, <2>3 DEF Newer
    <3>2. mentioned'[p] # None /\ mentioned'[p] >= mentioned[p]
      BY <1>5, <2>1, <3>1
    <3>3. mentioned'[p] \in Nat /\ mentioned[p] \in Nat
      <4>1. mentioned' \in [Pairs -> 0..MaxClock \cup {None}]
        BY MentionType DEF TypeInv
      <4> QED
        BY <1>1, <2>1, <3>1, <3>2, <4>1
    <3> QED
      BY <1>2, <3>1, <3>2, <3>3 DEF p
  <2> QED
    BY <2>2, <2>3
<1> QED
  BY <1>5, <1>6

\* What has been told stays told.
LEMMA StaysTold ==
  ASSUME TypeInv, TypeInv', NEW u \in Users, NEW t \in Tickers, Told(u, t),
         seen[<<u, t>>] # None, seen'[<<u, t>>] = seen[<<u, t>>],
         <<u, t>> \in excused => <<u, t>> \in excused',
         mentioned[<<u, t>>] # None =>
           mentioned'[<<u, t>>] # None /\ mentioned'[<<u, t>>] >= mentioned[<<u, t>>],
         asked[u].pc = "reply" => asked'[u].pc = "reply" /\ asked'[u].found = asked[u].found
  PROVE  Told(u, t)'
<1> DEFINE p == <<u, t>>
<1>1. p \in Pairs
  BY DEF Pairs
<1>2. mentioned[p] # None => mentioned[p] \in Nat
  BY <1>1 DEF TypeInv, Surroundings
<1>3. mentioned'[p] # None => mentioned'[p] \in Nat
  BY <1>1 DEF TypeInv, Surroundings
<1>4. seen[p].at \in Nat
  BY <1>1 DEF TypeInv, Tables, SeenRows
<1> QED
  BY <1>2, <1>3, <1>4 DEF Told, Change

\* A step that is not about a ticker's briefing leaves it accounted for.
LEMMA StaysAccounted ==
  ASSUME TypeInv, TypeInv', NEW u \in Users, NEW t \in Tickers, Accounted(u, t),
         UNCHANGED <<seen, excused, mentioned, asked, briefing>>, briefedAt'[u] = briefedAt[u]
  PROVE  Accounted(u, t)'
BY DEF Accounted, ByCursor, ByDigests, ByDigest, ByAnswer, SeenBefore, Change, Told

LEMMA AlertsLoseNothing ==
  ASSUME TypeInv, TypeInv', NothingLost, NEW w \in Sweepers, AlertStep(w) \/ AlertAborts(w)
  PROVE  NothingLost'
<1> SUFFICES ASSUME NEW u \in users, NEW t \in Tickers, seen'[<<u, t>>] # None
             PROVE  ByCursor(u, t)' /\ ByDigests(u, t)' /\ ByAnswer(u, t)'
  BY AlertTimes DEF NothingLost, Accounted
<1>0. u \in Users /\ Accounted(u, t)
  BY DEF TypeInv, Tables, NothingLost
<1>1. CASE ~AlertStore(w)
  BY <1>0, <1>1, AlertTimes, StaysAccounted DEF Accounted
<1>2. CASE AlertStore(w) /\ At(w) # <<u, t>>
  <2>1. /\ seen'[<<u, t>>] = seen[<<u, t>>] /\ (<<u, t>> \in excused' <=> <<u, t>> \in excused)
        /\ UNCHANGED <<mentioned, asked, briefing, briefedAt>>
    BY <1>2 DEF AlertStore, TypeInv, Tables, Pairs
  <2> QED
    BY <1>0, <2>1 DEF Accounted, ByCursor, ByDigests, ByDigest, ByAnswer, SeenBefore, Change, Told
<1>3. CASE AlertStore(w) /\ At(w) = <<u, t>>
  <2> DEFINE n == alerting[w].at
  <2>1. /\ seen'[<<u, t>>].at = n /\ UNCHANGED <<mentioned, asked, briefing, briefedAt>>
        /\ Overtaken(u, n) => <<u, t>> \in excused'
    BY <1>0, <1>3 DEF AlertStore, At, TypeInv, Tables, Pairs
  <2>2. CASE Overtaken(u, n)
    BY <2>1, <2>2 DEF ByCursor, ByDigests, ByDigest, ByAnswer, Told
  <2>3. CASE ~Overtaken(u, n)
    BY <2>1, <2>3 DEF Overtaken, Missing, ByCursor, ByDigests, ByDigest, ByAnswer, SeenBefore
  <2> QED
    BY <2>2, <2>3
<1> QED
  BY <1>1, <1>2, <1>3

\* A briefing sweep accounts for a ticker as before if its own part does.
LEMMA BriefAccounts ==
  ASSUME TypeInv, TypeInv', NEW d \in Digesters, BriefStep(d) \/ BriefAborts(d),
         NEW u \in Users, NEW t \in Tickers, ByCursor(u, t), ByDigests(u, t), ByAnswer(u, t),
         ~BriefStamp(d), Told(u, t) => Told(u, t)', ByDigest(d, u, t)'
  PROVE  ByCursor(u, t)' /\ ByDigests(u, t)' /\ ByAnswer(u, t)'
<1>1. /\ \A x \in Digesters \ {d} : briefing'[x] = briefing[x]
      /\ UNCHANGED <<seen, asked, briefedAt>>
  BY BriefKeeps
<1>2. \A x \in Digesters \ {d} : ByDigest(x, u, t)'
  BY <1>1 DEF ByDigests, ByDigest, SeenBefore, Change
<1> QED
  BY <1>1, <1>2 DEF ByCursor, ByDigests, ByAnswer, SeenBefore, Change

LEMMA BriefingsLoseNothing ==
  ASSUME TypeInv, TypeInv', Past, NothingLost, NEW d \in Digesters, BriefStep(d) \/ BriefAborts(d)
  PROVE  NothingLost'
<1> DEFINE b == briefing[d]
<1> SUFFICES ASSUME NEW u \in users, NEW t \in Tickers, seen[<<u, t>>] # None
             PROVE  ByCursor(u, t)' /\ ByDigests(u, t)' /\ ByAnswer(u, t)'
  BY BriefKeeps DEF NothingLost, Accounted
<1>0. u \in Users /\ ByCursor(u, t) /\ ByDigests(u, t) /\ ByAnswer(u, t) /\ ByDigest(d, u, t)
  BY DEF TypeInv, Tables, NothingLost, Accounted, ByDigests
<1>1. b \in Composing /\ Timely(b) /\ UNCHANGED <<seen, asked, excused>>
  BY BriefKeeps DEF TypeInv, Runs, Digests, Past
<1>2. ~BriefDeliver(d) => (Told(u, t)' <=> Told(u, t)) /\ Change(u, t)' = Change(u, t)
  BY <1>1, BriefKeeps DEF Told, Change
<1>3. CASE BriefStart(d) \/ BriefUser(d) \/ BriefAborts(d)
  <2>1. briefing'[d].pc \in {"off", "next", "since"}
    <3>1. ComposingOff.pc = "off"
      BY DEF ComposingOff
    <3> HIDE DEF ComposingOff
    <3> QED
      BY <1>3, <3>1, BriefBecomes
  <2>2. ~BriefDeliver(d) /\ ~BriefStamp(d)
    <3>1. BriefStart(d) \/ BriefUser(d) => b.pc \in {"off", "next"}
      BY DEF BriefStart, BriefUser
    <3>2. BriefDeliver(d) \/ BriefStamp(d) => b.pc \in {"deliver", "stamp"}
      BY DEF BriefDeliver, BriefStamp
    <3>3. BriefAborts(d) => ~BriefDeliver(d) /\ ~BriefStamp(d)
      <4>1. BriefAborts(d) => briefing'[d].pc = "off"
        BY BriefBecomes DEF ComposingOff
      <4>2. BriefDeliver(d) \/ BriefStamp(d) => briefing'[d].pc \in {"stamp", "next"}
        BY BriefBecomes
      <4> QED
        BY <4>1, <4>2
    <3> QED
      BY <1>3, <3>1, <3>2, <3>3
  <2> QED
    BY <1>0, <1>2, <2>1, <2>2, BriefAccounts DEF ByDigest
<1>4. CASE BriefSince(d)
  <2>1. b.user = u /\ SeenBefore(u, t, Since(u)) => Told(u, t)
    <3>1. ~SeenBefore(u, t, 0)
      BY <1>0 DEF SeenBefore, TypeInv, Tables, Pairs, SeenRows
    <3> QED
      BY <1>0, <3>1 DEF ByCursor, Since
  <2>2. ~BriefDeliver(d) /\ ~BriefStamp(d)
    BY <1>4 DEF BriefSince, BriefDeliver, BriefStamp
  <2>3. ByDigest(d, u, t)'
    BY <1>1, <1>2, <1>4, <2>1, <2>2, BriefBecomes DEF ByDigest, SeenBefore
  <2> QED
    BY <1>0, <1>2, <2>2, <2>3, BriefAccounts
<1>5. CASE BriefChanges(d)
  <2>1. b.user = u => Told(u, t) \/ Change(u, t) \in ChangesSince(u, b.since)
    <3>1. seen[<<u, t>>].at \in Nat /\ b.since \in Nat
      BY <1>0, <1>1 DEF TypeInv, Tables, Pairs, SeenRows, Composing
    <3>2. CASE SeenBefore(u, t, b.since)
      BY <1>0, <1>5, <3>2 DEF ByDigest, BriefChanges
    <3>3. CASE seen[<<u, t>>].at >= b.since
      BY <3>3 DEF ChangesSince, Change
    <3> QED
      BY <3>1, <3>2, <3>3 DEF SeenBefore
  <2>2. ~BriefDeliver(d) /\ ~BriefStamp(d)
    BY <1>5 DEF BriefChanges, BriefDeliver, BriefStamp
  <2>3. ByDigest(d, u, t)'
    BY <1>1, <1>2, <1>5, <2>1, <2>2, BriefBecomes DEF ByDigest, SeenBefore
  <2> QED
    BY <1>0, <1>2, <2>2, <2>3, BriefAccounts
<1>6. CASE BriefDeliver(d)
  <2>1. b.found \in Changes /\ OneEach(b.found) /\ b.user \in Users
    BY <1>1, <1>6, BriefBecomes DEF Composing, Timely
  <2>2. Told(u, t) => Told(u, t)'
    <3>1. mentioned[<<u, t>>] # None =>
            mentioned'[<<u, t>>] # None /\ mentioned'[<<u, t>>] >= mentioned[<<u, t>>]
      <4>1. <<u, t>> \in Pairs
        BY <1>0 DEF Pairs
      <4>2. mentioned[<<u, t>>] # None => mentioned[<<u, t>>] >= mentioned[<<u, t>>]
        BY <4>1 DEF TypeInv, Surroundings
      <4> QED
        BY <1>6, <2>1, <4>1, <4>2, BriefBecomes, MentionTells
    <3> QED
      BY <1>0, <1>1, <3>1, StaysTold
  <2>3. Mention(b.user, b.found) /\ b.user = u /\ Change(u, t) \in b.found => Told(u, t)'
    <3>1. Change(u, t)[1] = t /\ Change(u, t)[2] = seen[<<u, t>>].at
      BY DEF Change
    <3> QED
      BY <1>1, <2>1, <3>1, MentionTells DEF Told
  <2>4. ByDigest(d, u, t)'
    BY <1>0, <1>1, <1>6, <2>2, <2>3, BriefBecomes DEF ByDigest, SeenBefore
  <2>5. ~BriefStamp(d)
    BY <1>6 DEF BriefDeliver, BriefStamp
  <2> QED
    BY <1>0, <2>2, <2>4, <2>5, BriefAccounts
<1>7. CASE BriefStamp(d)
  <2>1. /\ b.pc = "stamp" /\ briefing'[d].pc = "next" /\ Stamp(b.user, b.now)
        /\ \A x \in Digesters \ {d} : briefing'[x] = briefing[x]
    BY <1>7, BriefBecomes, BriefKeeps
  <2>2. ~BriefDeliver(d)
    BY <1>7 DEF BriefDeliver, BriefStamp
  <2>3. briefedAt'[u] = IF b.user = u THEN b.now ELSE briefedAt[u]
    BY <1>0, <2>1 DEF Stamp, TypeInv, Tables
  <2>4. ByCursor(u, t)'
    BY <1>0, <1>1, <1>2, <2>1, <2>2, <2>3 DEF ByCursor, ByDigest, SeenBefore
  <2>5. \A x \in Digesters : ByDigest(x, u, t)'
    BY <1>0, <1>1, <1>2, <2>1, <2>2 DEF ByDigests, ByDigest, SeenBefore
  <2> QED
    BY <1>0, <1>1, <1>2, <2>2, <2>4, <2>5 DEF ByDigests, ByAnswer, SeenBefore
<1> QED
  BY <1>3, <1>4, <1>5, <1>6, <1>7 DEF BriefStep

LEMMA AnswersLoseNothing ==
  ASSUME TypeInv, TypeInv', Past, NothingLost, NEW v \in Users, Ask(v) \/ AskStep(v)
  PROVE  NothingLost'
<1> SUFFICES ASSUME NEW u \in users, NEW t \in Tickers, seen[<<u, t>>] # None
             PROVE  ByCursor(u, t)' /\ ByDigests(u, t)' /\ ByAnswer(u, t)'
  BY AskBecomes DEF NothingLost, Accounted
<1>0. u \in Users /\ ByCursor(u, t) /\ ByDigests(u, t) /\ ByAnswer(u, t)
  BY DEF TypeInv, Tables, NothingLost, Accounted
<1>1. /\ asked \in [Users -> Composing] /\ seen[<<u, t>>].at \in Nat
      /\ UNCHANGED <<seen, briefing>> /\ Change(u, t)' = Change(u, t)
  BY <1>0, AskBecomes DEF TypeInv, Runs, Tables, Pairs, SeenRows, Change
\* What was told stays told, and then it is the cursor and the answer that matter.
<1>a. ASSUME Told(u, t) => Told(u, t)', ByCursor(u, t)', ByAnswer(u, t)'
      PROVE  ByCursor(u, t)' /\ ByDigests(u, t)' /\ ByAnswer(u, t)'
  BY <1>0, <1>1, <1>a DEF ByDigests, ByDigest, SeenBefore
<1>2. CASE v # u
  <2>1. asked'[u] = asked[u] /\ briefedAt'[u] = briefedAt[u]
    BY <1>0, <1>2, AskBecomes DEF AskStamp, Stamp, TypeInv, Tables
  <2>2. Told(u, t) => Told(u, t)'
    <3>1. CASE AskReply(v)
      <4>1. asked[v].found \in Changes /\ OneEach(asked[v].found)
        BY <1>1 DEF Composing, Past, Timely
      <4>2. \/ Mention(v, asked[v].found) /\ UNCHANGED excused
            \/ UNCHANGED mentioned /\ excused' = excused \cup {<<v, c[1]>> : c \in asked[v].found}
        BY <3>1 DEF AskReply
      <4>3. <<u, t>> \in Pairs
        BY <1>0 DEF Pairs
      <4>4. mentioned[<<u, t>>] # None => mentioned[<<u, t>>] >= mentioned[<<u, t>>]
        BY <4>3 DEF TypeInv, Surroundings
      <4>5. mentioned[<<u, t>>] # None =>
              mentioned'[<<u, t>>] # None /\ mentioned'[<<u, t>>] >= mentioned[<<u, t>>]
        BY <4>1, <4>2, <4>3, <4>4, MentionTells
      <4> QED
        BY <1>0, <1>1, <2>1, <4>2, <4>5, StaysTold
    <3>2. CASE ~AskReply(v)
      BY <1>1, <2>1, <3>2, AskBecomes DEF Told
    <3> QED
      BY <3>1, <3>2
  <2> QED
    BY <1>0, <1>1, <1>a, <2>1, <2>2 DEF ByCursor, ByAnswer, SeenBefore
<1>3. CASE v = u /\ Ask(u)
  <2>1. /\ asked[u].pc = "off" /\ asked'[u].pc = "changes" /\ asked'[u].since = Since(u)
        /\ UNCHANGED <<briefedAt, mentioned, excused>>
    BY <1>3, AskBecomes DEF Ask, AskChanges, AskComposed, AskStamp, AskReply
  <2>2. Told(u, t) => Told(u, t)'
    BY <1>1, <2>1 DEF Told
  <2>3. SeenBefore(u, t, Since(u)) => Told(u, t)
    BY <1>0, <1>1 DEF ByCursor, Since, SeenBefore
  <2> QED
    BY <1>0, <1>1, <1>a, <2>1, <2>2, <2>3 DEF ByCursor, ByAnswer, SeenBefore
<1>4. CASE v = u /\ AskChanges(u)
  <2>1. /\ asked[u].pc = "changes" /\ asked'[u].pc = "compose"
        /\ asked'[u].found = ChangesSince(u, asked[u].since)
        /\ UNCHANGED <<briefedAt, mentioned, excused>>
    BY <1>4, AskBecomes DEF Ask, AskChanges, AskComposed, AskStamp, AskReply
  <2>2. Told(u, t) => Told(u, t)'
    BY <1>1, <2>1 DEF Told
  <2>3. Told(u, t) \/ Change(u, t) \in asked'[u].found
    <3>1. asked[u].since \in Nat
      BY <1>0, <1>1 DEF Composing
    <3>2. CASE SeenBefore(u, t, asked[u].since)
      BY <1>0, <2>1, <3>2 DEF ByAnswer
    <3>3. CASE seen[<<u, t>>].at >= asked[u].since
      BY <2>1, <3>3 DEF ChangesSince, Change
    <3> QED
      BY <1>1, <3>1, <3>2, <3>3 DEF SeenBefore
  <2> QED
    BY <1>0, <1>1, <1>a, <2>1, <2>2, <2>3 DEF ByCursor, ByAnswer, SeenBefore
<1>5. CASE v = u /\ AskComposed(u)
  <2>1. /\ asked[u].pc = "compose" /\ asked'[u].pc = "stamp" /\ asked'[u].found = asked[u].found
        /\ UNCHANGED <<briefedAt, mentioned, excused>>
    BY <1>5, AskBecomes DEF Ask, AskChanges, AskComposed, AskStamp, AskReply
  <2>2. Told(u, t) => Told(u, t)'
    BY <1>1, <2>1 DEF Told
  <2> QED
    BY <1>0, <1>1, <1>a, <2>1, <2>2 DEF ByCursor, ByAnswer, SeenBefore
<1>6. CASE v = u /\ AskStamp(u)
  <2>1. /\ asked[u].pc = "stamp" /\ asked'[u].pc = "reply" /\ asked'[u].found = asked[u].found
        /\ Stamp(u, asked[u].now) /\ UNCHANGED <<mentioned, excused>>
    BY <1>6, AskBecomes DEF Ask, AskChanges, AskComposed, AskStamp, AskReply
  <2>2. Told(u, t) => Told(u, t)'
    BY <1>1, <2>1 DEF Told
  <2>3. briefedAt'[u] = asked[u].now
    BY <1>0, <2>1 DEF Stamp, TypeInv, Tables
  <2>4. SeenBefore(u, t, asked[u].now) => Told(u, t)'
    BY <1>0, <1>1, <2>1, <2>2 DEF ByAnswer, Told
  <2> QED
    BY <1>1, <1>a, <2>1, <2>2, <2>3, <2>4 DEF ByCursor, ByAnswer, SeenBefore
<1>7. CASE v = u /\ AskReply(u)
  <2>1. asked[u].pc = "reply" /\ asked'[u].pc = "off" /\ UNCHANGED briefedAt
    <3>1. ComposingOff.pc = "off"
      BY DEF ComposingOff
    <3> HIDE DEF ComposingOff
    <3> QED
      BY <1>7, <3>1, AskBecomes DEF Ask, AskChanges, AskComposed, AskStamp, AskReply
  <2>2. asked[u].found \in Changes /\ OneEach(asked[u].found)
    BY <1>0, <1>1 DEF Composing, Past, Timely
  <2>3. \/ Mention(u, asked[u].found) /\ UNCHANGED excused
        \/ UNCHANGED mentioned /\ excused' = excused \cup {<<u, c[1]>> : c \in asked[u].found}
    BY <1>7 DEF AskReply
  <2>4. Change(u, t) \in asked[u].found => Told(u, t)'
    <3>1. Change(u, t)[1] = t /\ Change(u, t)[2] = seen[<<u, t>>].at
      BY DEF Change
    <3>2. CASE Mention(u, asked[u].found)
      BY <1>0, <1>1, <2>2, <3>1, <3>2, MentionTells DEF Told
    <3>3. CASE excused' = excused \cup {<<u, c[1]>> : c \in asked[u].found}
      BY <3>1, <3>3 DEF Told
    <3> QED
      BY <2>3, <3>2, <3>3
  <2>5. Told(u, t) => Told(u, t)'
    <3>1. <<u, t>> \in Pairs /\ mentioned \in [Pairs -> 0..MaxClock \cup {None}]
          /\ mentioned' \in [Pairs -> 0..MaxClock \cup {None}]
      BY <1>0 DEF Pairs, TypeInv, Surroundings
    <3>2. /\ mentioned[<<u, t>>] # None => mentioned[<<u, t>>] \in Nat
          /\ mentioned'[<<u, t>>] # None => mentioned'[<<u, t>>] \in Nat
      BY <3>1
    <3>3. mentioned[<<u, t>>] # None =>
            mentioned'[<<u, t>>] # None /\ mentioned'[<<u, t>>] >= mentioned[<<u, t>>]
      BY <1>0, <2>2, <2>3, <3>1, <3>2, MentionTells
    <3>4. <<u, t>> \in excused => <<u, t>> \in excused'
      BY <2>3
    <3> QED
      BY <1>1, <2>4, <3>2, <3>3, <3>4 DEF Told
  <2> QED
    BY <1>0, <1>1, <1>a, <2>1, <2>5 DEF ByCursor, ByAnswer, SeenBefore
<1> QED
  BY <1>2, <1>3, <1>4, <1>5, <1>6, <1>7 DEF AskStep

LEMMA NothingLostNext == TypeInv /\ TypeInv' /\ Past /\ NothingLost /\ [Next]_vars => NothingLost'
<1> SUFFICES ASSUME TypeInv, TypeInv', Past, NothingLost, [Next]_vars PROVE NothingLost'
  OBVIOUS
<1>a. ASSUME UNCHANGED <<seen, excused, mentioned, asked, briefing>>, users' \subseteq users,
             \A u \in users' : briefedAt'[u] = briefedAt[u]
      PROVE  NothingLost'
  <2>1. \A u \in users', t \in Tickers : u \in Users /\ Accounted(u, t)
    BY <1>a DEF NothingLost, TypeInv, Tables
  <2> QED
    BY <1>a, <2>1, StaysAccounted DEF NothingLost
<1>1. CASE Tick
  BY <1>1, <1>a DEF Tick, tables, requests, history
<1>2. ASSUME NEW u \in Users, NEW t \in Tickers, Track(u, t) \/ \E r \in Ratings : Report(u, t, r)
      PROVE  NothingLost'
  BY <1>2, <1>a DEF Track, Report, requests, history
<1>3. ASSUME NEW u \in Users, Erase(u) PROVE NothingLost'
  <2>1. \A v \in users' : v \in Users /\ v # u
    BY <1>3 DEF Erase, TypeInv, Tables
  <2>2. \A v \in users' : briefedAt'[v] = briefedAt[v]
    BY <1>3, <2>1 DEF Erase, TypeInv, Tables
  <2> QED
    BY <1>3, <1>a, <2>2 DEF Erase, requests, history
<1>4. CASE UNCHANGED vars
  BY <1>4, <1>a DEF vars, tables, requests, history
<1> QED
  BY <1>1, <1>2, <1>3, <1>4, AlertsLoseNothing, BriefingsLoseNothing, AnswersLoseNothing DEF Next

\* Whatever waits for the lock with a time that no longer counts has waited for it, or a briefing
\* asked for is composed meanwhile.
LEMMA LateOnly ==
  ASSUME TypeInv, Past
  PROVE  OnlyLateAreOvertaken
<1> SUFFICES ASSUME NEW w \in Sweepers, alerting[w].pc = "store",
                    Overtaken(alerting[w].user, alerting[w].at)
             PROVE  alerting[w].at < clock \/ asked[alerting[w].user].pc = "compose"
  BY DEF OnlyLateAreOvertaken
<1>1. alerting[w].user \in Users /\ alerting[w].at \in Nat /\ clock \in Nat
  BY DEF TypeInv, Runs, Surroundings, Alerts, Alerting
<1>2. /\ briefedAt[alerting[w].user] # None =>
           briefedAt[alerting[w].user] \in Nat /\ briefedAt[alerting[w].user] <= clock
      /\ \A b \in Composing : Timely(b) => (Missing(b, alerting[w].at) => alerting[w].at < clock)
  BY <1>1 DEF TypeInv, Tables, Past, Composing, Timely, Missing
<1>3. /\ \A d \in Digesters : briefing[d] \in Composing /\ Timely(briefing[d])
      /\ asked[alerting[w].user] \in Composing /\ Timely(asked[alerting[w].user])
  BY <1>1 DEF TypeInv, Runs, Digests, Past
<1> QED
  BY <1>1, <1>2, <1>3 DEF Overtaken

\* A rating change that a briefing's cursor has passed was mentioned in a briefing, however the
\* sweeps of either kind and requests for a briefing overlap, fail and die, except for what became
\* visible after its time had been overtaken or was lost with the reply of a briefing asked for;
\* and that happens only to a row that waited for the lock or beside a briefing asked for.
THEOREM ChangesAreMentioned == Spec => []NoChangeSkipped
<1>1. TypeInv /\ Past /\ NothingLost => NoChangeSkipped
  <2> SUFFICES ASSUME TypeInv, Past, NothingLost, NEW u \in users, NEW t \in Tickers,
                      seen[<<u, t>>] # None, briefedAt[u] # None, asked[u].pc # "reply",
                      <<u, t>> \notin excused
               PROVE  \/ seen[<<u, t>>].at >= briefedAt[u]
                      \/ mentioned[<<u, t>>] # None /\ mentioned[<<u, t>>] >= seen[<<u, t>>].at
    BY LateOnly DEF NoChangeSkipped
  <2>1. u \in Users /\ ByCursor(u, t)
    BY DEF TypeInv, Tables, NothingLost, Accounted
  <2>2. seen[<<u, t>>].at \in Nat /\ briefedAt[u] \in Nat
    BY <2>1 DEF TypeInv, Tables, Pairs, SeenRows
  <2> QED
    BY <2>1, <2>2 DEF ByCursor, SeenBefore, Told
<1>2. TypeInv /\ Past /\ NothingLost /\ [Next]_vars => TypeInv' /\ Past' /\ NothingLost'
  BY TypeNext, PastNext, NothingLostNext
<1> QED
  BY <1>1, <1>2, TypeInit, PastInit, NothingLostInit, PTL DEF Spec

(***************************************************************************)
(* The scoreboard                                                          *)
(***************************************************************************)

\* What the market, the calls logged and their checkpoints are like
Market ==
  /\ day \in 0..MaxDay /\ splits \in {0, 1} /\ bars = [d \in 0..MaxDay |-> bars[d]]
  /\ \A d \in 0..MaxDay : bars[d] # None =>
       bars[d] \in Nat /\ d <= day /\ (splits = 0 => bars[d] % 2 = 0)

Logged ==
  /\ \E S : calls \in Seq(S)
  /\ Len(calls) <= MaxCalls
  /\ \A c \in 1..Len(calls) : calls[c].rating \in Tracker!CallRatings /\ calls[c].day \in 0..day

Matured ==
  {r \in (1..MaxCalls) \X Windows : r[1] <= Len(calls) /\ calls[r[1]].day + r[2] <= day}

\* What a price has been divided by since s splits
Scale(n, s) == 2 ^ (n - s)

\* A close of day d, read on day e at s splits, is the right one for the date.
Fits(date, d, e, close, s) ==
  /\ d \in 0..e /\ e \in 0..day /\ close \in Nat /\ s \in 0..splits /\ date <= e
  /\ bars[d] # None
  /\ d < e => close = bars[d] * Scale(splits, s)
  /\ d # date => \A x \in 0..MaxDay :
       bars[x] # None => ~Tracker!Between(d, x, date) /\ (x = date => e <= x)

\* What a sweep has read, and what is recorded of a row
Looks(k) ==
  /\ k = [due |-> k.due, price |-> k.price]
  /\ k.due \in Seq(Matured)
  /\ k.price # None =>
       /\ k.due # <<>>
       /\ LET r == Head(k.due) p == k.price
          IN  Fits(calls[r[1]].day + r[2], p.day, p.read, p.close, p.splits)

Right(r, o) ==
  /\ r \in Matured
  /\ o.correct = Tracker!score_rating(calls[r[1]].rating, o.realized)
  /\ Fits(calls[r[1]].day + r[2], o.day, o.read, o.realized[2], o.splits)

Looking ==
  /\ sweep = [w \in Sweepers |-> sweep[w]]
  /\ \A w \in Sweepers : Looks(sweep[w])

Scores ==
  /\ outcomes = [r \in (1..MaxCalls) \X Windows |-> outcomes[r]]
  /\ \A r \in (1..MaxCalls) \X Windows : outcomes[r] # None => Right(r, outcomes[r])

Board == Market /\ Logged /\ Looking /\ Scores

LEMMA Scales == Scale(0, 0) = 1 /\ Scale(1, 1) = 1 /\ Scale(1, 0) = 2
<1>1. 2 ^ 0 = 1 /\ 2 ^ 1 = 2
  OBVIOUS
<1>2. 0 - 0 = 0 /\ 1 - 1 = 0 /\ 1 - 0 = 1
  OBVIOUS
<1> QED
  BY <1>1, <1>2, Zenon DEF Scale

(* The nearest day *)

\* A set of numbers has a least one.
LEMMA Least == ASSUME NEW S \in SUBSET Nat, S # {} PROVE \E n \in S : \A m \in S : n <= m
<1>1. PICK x \in S : \A y \in S : ~(<<y, x>> \in OpToRel(<, Nat))
  BY NatLessThanWellFounded, WFMin
<1>2. OpToRel(<, Nat) = {p \in Nat \X Nat : p[1] < p[2]}
  BY DEF OpToRel
<1>3. ASSUME NEW y \in S PROVE x <= y
  <2>1. <<y, x>> \notin {p \in Nat \X Nat : p[1] < p[2]}
    BY <1>1, <1>2
  <2> QED
    BY <2>1
<1> QED
  BY <1>3

LEMMA NearestDay ==
  ASSUME NEW b, NEW date \in Nat, Tracker!Trading(b) # {}
  PROVE  /\ Tracker!Nearest(b, date) \in Tracker!Trading(b)
         /\ \A e \in Tracker!Trading(b) :
              Tracker!Distance(Tracker!Nearest(b, date), date) <= Tracker!Distance(e, date)
<1> DEFINE T == Tracker!Trading(b)
           Key(d) == 2 * Tracker!Distance(d, date) + (IF d < date THEN 0 ELSE 1)
           Nearer(d, e) == \/ Tracker!Distance(d, date) < Tracker!Distance(e, date)
                           \/ Tracker!Distance(d, date) = Tracker!Distance(e, date) /\ d < e
<1>1. \A d \in T : d \in Nat /\ Tracker!Distance(d, date) \in Nat
  BY TrackerAssumption DEF Tracker!Trading, Tracker!Days, Tracker!Distance
<1>2. PICK d \in T : \A e \in T : Key(d) <= Key(e)
  <2> DEFINE S == {Key(d) : d \in T}
  <2>1. S \in SUBSET Nat /\ S # {}
    BY <1>1
  <2>2. PICK n \in S : \A m \in S : n <= m
    BY <2>1, Least
  <2> QED
    BY <2>2
<1>3. \A e \in T \ {d} : Nearer(d, e)
  BY <1>1, <1>2 DEF Tracker!Distance
<1>4. Tracker!Nearest(b, date) = CHOOSE x \in T : \A e \in T \ {x} : Nearer(x, e)
  BY DEF Tracker!Nearest
<1>5. Tracker!Nearest(b, date) \in T /\ \A e \in T \ {Tracker!Nearest(b, date)} : Nearer(Tracker!Nearest(b, date), e)
  <2> HIDE DEF T, Nearer
  <2> QED
    BY <1>2, <1>3, <1>4
<1> QED
  BY <1>1, <1>5

\* The nearest day of the history read today fits.
LEMMA NearestFits ==
  ASSUME Market, NEW date \in 0..day, Tracker!Trading(bars) # {}
  PROVE  LET d == Tracker!Nearest(bars, date)
         IN  Fits(date, d, day, bars[d], splits)
<1> DEFINE d == Tracker!Nearest(bars, date)
<1>1. date \in Nat
  BY TrackerAssumption DEF Market
<1>2. d \in Tracker!Trading(bars)
      /\ \A e \in Tracker!Trading(bars) : Tracker!Distance(d, date) <= Tracker!Distance(e, date)
  BY <1>1, NearestDay
<1>3. d \in 0..day /\ bars[d] # None /\ bars[d] \in Nat
  BY <1>2, TrackerAssumption DEF Tracker!Trading, Tracker!Days, Market
<1>4. ASSUME NEW x \in 0..MaxDay, bars[x] # None, d # date
      PROVE  ~Tracker!Between(d, x, date) /\ x # date
  <2>1. Tracker!Distance(d, date) <= Tracker!Distance(x, date)
    BY <1>2, <1>4 DEF Tracker!Trading, Tracker!Days
  <2> HIDE DEF d
  <2> QED
    BY <1>1, <1>3, <1>4, <2>1, TrackerAssumption DEF Tracker!Distance, Tracker!Between, Market
<1> HIDE DEF d
<1>5. d < day => bars[d] = bars[d] * Scale(splits, splits)
  BY <1>3, Scales DEF Market
<1>6. Fits(date, d, day, bars[d], splits)
  BY <1>3, <1>4, <1>5, TrackerAssumption DEF Fits, Market
<1> QED
  BY <1>6 DEF d

(* The market *)

\* What the market does to what was read before.
LEMMA MarketMoves ==
  ASSUME Market, None \notin Nat,
         Tracker!Opens \/ Tracker!Moves \/ Tracker!DayPasses \/ Tracker!Split
           \/ UNCHANGED <<day, bars, splits>>
  PROVE  /\ Market' /\ day <= day'
         /\ \A date \in Nat : \A d, e, close, s :
              Fits(date, d, e, close, s) => Fits(date, d, e, close, s)'
<1> USE TrackerAssumption
<1>1. CASE UNCHANGED <<day, bars, splits>>
  BY <1>1 DEF Market, Fits
<1>2. ASSUME NEW q \in Nat, splits = 0 => q % 2 = 0, bars' = [bars EXCEPT ![day] = q],
             UNCHANGED <<day, splits>>
      PROVE  /\ Market' /\ day <= day'
             /\ \A date \in Nat : \A d, e, close, s :
                  Fits(date, d, e, close, s) => Fits(date, d, e, close, s)'
  <2>1. /\ \A x \in 0..MaxDay \ {day} : bars'[x] = bars[x]
        /\ bars'[day] = q
    BY <1>2 DEF Market
  <2>2. Market' /\ day <= day'
    <3>1. bars' = [d \in 0..MaxDay |-> bars'[d]]
      BY <1>2 DEF Market
    <3>2. ASSUME NEW d \in 0..MaxDay, bars'[d] # None
          PROVE  bars'[d] \in Nat /\ d <= day /\ (splits = 0 => bars'[d] % 2 = 0)
      BY <1>2, <2>1, <3>2 DEF Market
    <3> QED
      BY <1>2, <3>1, <3>2 DEF Market
  <2>3. ASSUME NEW date \in Nat, NEW d, NEW e, NEW close, NEW s, Fits(date, d, e, close, s)
        PROVE  Fits(date, d, e, close, s)'
    <3>1. d \in 0..e /\ e \in 0..day /\ bars'[d] # None /\ (d < e => bars'[d] = bars[d])
      BY <1>2, <2>1, <2>3 DEF Fits, Market
    <3>2. ASSUME d # date, NEW x \in 0..MaxDay, bars'[x] # None
          PROVE  ~Tracker!Between(d, x, date) /\ (x = date => e <= x)
      <4>1. CASE x = day
        BY <2>3, <3>1, <3>2, <4>1 DEF Fits, Tracker!Between, Market
      <4>2. CASE x # day
        BY <2>1, <2>3, <3>2, <4>2 DEF Fits
      <4> QED
        BY <4>1, <4>2
    <3>3. d < e => close = bars'[d] * Scale(splits', s)
      BY <1>2, <2>3, <3>1 DEF Fits
    <3> QED
      BY <1>2, <2>3, <3>1, <3>2, <3>3 DEF Fits
  <2> QED
    BY <2>2, <2>3
<1>3. CASE Tracker!Opens \/ Tracker!Moves
  <2>1. PICK p \in Prices : bars' = [bars EXCEPT ![day] = p \div 2 ^ splits]
    BY <1>3 DEF Tracker!Opens, Tracker!Moves, Tracker!Quoted, Tracker!Scaled
  <2>2. UNCHANGED <<day, splits>>
    BY <1>3 DEF Tracker!Opens, Tracker!Moves
  <2>3. p \in Nat /\ p % 2 = 0
    OBVIOUS
  <2>4. 2 ^ 0 = 1 /\ 2 ^ 1 = 2
    OBVIOUS
  <2>5. splits = 0 => p \div 2 ^ splits = p
    BY <2>3, <2>4
  <2>6. splits = 1 => p \div 2 ^ splits \in Nat
    BY <2>3, <2>4
  <2> QED
    BY <1>2, <2>1, <2>2, <2>3, <2>5, <2>6 DEF Market
<1>4. CASE Tracker!DayPasses
  <2>1. day \in Nat /\ day < MaxDay /\ day' = day + 1 /\ UNCHANGED <<bars, splits>>
    BY <1>4 DEF Tracker!DayPasses, Market
  <2>2. Market' /\ day <= day'
    BY <2>1 DEF Market
  <2>3. ASSUME NEW date \in Nat, NEW d, NEW e, NEW close, NEW s, Fits(date, d, e, close, s)
        PROVE  Fits(date, d, e, close, s)'
    BY <2>1, <2>3 DEF Fits
  <2> QED
    BY <2>2, <2>3
<1>5. CASE Tracker!Split
  <2>1. /\ splits = 0 /\ splits' = 1 /\ day' = day
        /\ bars' = [d \in 0..MaxDay |-> IF bars[d] = None THEN None ELSE bars[d] \div 2]
    BY <1>5 DEF Tracker!Split, Tracker!Days
  <2>2. ASSUME NEW d \in 0..MaxDay
        PROVE  /\ bars'[d] # None => bars[d] # None /\ bars'[d] \in Nat /\ bars[d] = bars'[d] * 2
               /\ bars[d] # None => bars'[d] # None
    <3>1. CASE bars[d] = None
      BY <2>1, <3>1
    <3>2. ASSUME NEW v \in Nat, v % 2 = 0, v = bars[d], bars[d] # None
          PROVE  bars'[d] = v \div 2 /\ v \div 2 \in Nat /\ v = (v \div 2) * 2
      BY <2>1, <3>2
    <3> QED
      BY <2>1, <3>1, <3>2 DEF Market
  <2>3. Market' /\ day <= day'
    BY <2>1, <2>2 DEF Market
  <2>4. ASSUME NEW date \in Nat, NEW d, NEW e, NEW close, NEW s, Fits(date, d, e, close, s)
        PROVE  Fits(date, d, e, close, s)'
    <3>1. d \in 0..MaxDay /\ s = 0
      BY <2>1, <2>4 DEF Fits, Market
    <3>2. d < e => close = bars'[d] * Scale(splits', s)
      BY <2>1, <2>2, <2>4, <3>1, Scales DEF Fits, Market
    <3> QED
      BY <2>1, <2>2, <2>4, <3>1, <3>2 DEF Fits
  <2> QED
    BY <2>3, <2>4
<1> QED
  BY <1>1, <1>3, <1>4, <1>5

(* The calls and the sweeps *)

LEMMA MaturedIs ==
  ASSUME Logged, NEW r \in Matured
  PROVE  /\ r \in (1..MaxCalls) \X Windows /\ r[1] \in 1..Len(calls) /\ r[2] \in Nat
         /\ calls[r[1]].day + r[2] <= day
<1>1. Len(calls) \in Nat
  BY DEF Logged
<1>2. r \in (1..MaxCalls) \X Windows /\ r[1] <= Len(calls) /\ calls[r[1]].day + r[2] <= day
  BY DEF Matured
<1>3. r[1] \in 1..MaxCalls /\ r[2] \in Windows
  BY <1>2
<1>4. r[2] \in Nat /\ MaxCalls \in Nat
  BY <1>3, TrackerAssumption
<1>5. r[1] \in 1..Len(calls)
  BY <1>1, <1>2, <1>3, <1>4
<1> QED
  BY <1>2, <1>4, <1>5

\* What has matured stays so.
LEMMA MaturedGrows ==
  ASSUME Market, Logged, day' \in Nat, day <= day', Len(calls) <= Len(calls'),
         Len(calls') \in Nat, \A c \in 1..Len(calls) : calls'[c] = calls[c]
  PROVE  /\ \A r \in Matured : r \in Matured' /\ calls'[r[1]] = calls[r[1]] /\ calls[r[1]].day + r[2] \in 0..day
         /\ Seq(Matured) \subseteq Seq(Matured')
<1>1. ASSUME NEW r \in Matured
      PROVE  r \in Matured' /\ calls'[r[1]] = calls[r[1]] /\ calls[r[1]].day + r[2] \in 0..day
  <2>1. /\ r \in (1..MaxCalls) \X Windows /\ r[1] \in 1..Len(calls) /\ r[2] \in Nat
        /\ calls[r[1]].day + r[2] <= day
    BY MaturedIs
  <2>2. calls'[r[1]] = calls[r[1]] /\ calls[r[1]].day \in Nat
    BY <2>1 DEF Logged, Market
  <2>3. r[1] <= Len(calls') /\ calls'[r[1]].day + r[2] <= day'
    <3>1. Len(calls) \in Nat /\ day \in Nat
      BY TrackerAssumption DEF Logged, Market
    <3> QED
      BY <2>1, <2>2, <3>1
  <2>4. r \in Matured'
    BY <2>1, <2>3 DEF Matured
  <2>5. calls[r[1]].day + r[2] \in 0..day
    BY <2>1, <2>2, TrackerAssumption DEF Market
  <2> QED
    BY <2>2, <2>4, <2>5
<1>2. ASSUME NEW s \in Seq(Matured) PROVE s \in Seq(Matured')
  BY <1>1
<1> QED
  BY <1>1, <1>2

\* A step of the market, and a call logged, leave what was found in place.
LEMMA MarketKeeps ==
  ASSUME Board, Market', day <= day', UNCHANGED <<outcomes, sweep>>,
         \A date \in Nat : \A d, e, close, s : Fits(date, d, e, close, s) => Fits(date, d, e, close, s)',
         Logged', Len(calls) <= Len(calls'), Len(calls') \in Nat,
         \A c \in 1..Len(calls) : calls'[c] = calls[c]
  PROVE  Board'
<1>1. day' \in Nat /\ Market /\ Logged
  BY TrackerAssumption DEF Market, Board
<1>2. /\ \A r \in Matured : r \in Matured' /\ calls'[r[1]] = calls[r[1]] /\ calls[r[1]].day + r[2] \in 0..day
      /\ Seq(Matured) \subseteq Seq(Matured')
  BY <1>1, MaturedGrows
<1>3. ASSUME NEW r \in Matured, NEW d, NEW e, NEW close, NEW s, Fits(calls[r[1]].day + r[2], d, e, close, s)
      PROVE  Fits(calls[r[1]].day + r[2], d, e, close, s)'
  <2>1. calls'[r[1]] = calls[r[1]]
    BY <1>2
  <2>2. PICK date \in Nat : date = calls[r[1]].day + r[2]
    BY <1>2
  <2>3. Fits(date, d, e, close, s)'
    BY <1>3, <2>2
  <2> QED
    BY <2>1, <2>2, <2>3
<1>4. ASSUME NEW k, Looks(k) PROVE Looks(k)'
  <2>1. k.due # <<>> => Head(k.due) \in Matured
    BY <1>4 DEF Looks
  <2> QED
    BY <1>2, <1>3, <1>4, <2>1 DEF Looks
<1>5. ASSUME NEW r, NEW o, Right(r, o) PROVE Right(r, o)'
  BY <1>2, <1>3, <1>5 DEF Right
<1>6. Looking'
  BY <1>4 DEF Board, Looking
<1>7. Scores'
  BY <1>5 DEF Board, Scores
<1> QED
  BY <1>6, <1>7 DEF Board

LEMMA LogKeeps == ASSUME Board, Tracker!Log PROVE Board'
<1>1. /\ Len(calls) < MaxCalls /\ UNCHANGED <<day, bars, splits, outcomes, sweep>>
      /\ \E c : /\ c.rating \in Tracker!CallRatings /\ c.day = day
               /\ calls' = Append(calls, c)
  BY DEF Tracker!Log, Tracker!market
<1>2. PICK c : c.rating \in Tracker!CallRatings /\ c.day = day /\ calls' = Append(calls, c)
  BY <1>1
<1>3. PICK S : calls \in Seq(S)
  BY DEF Board, Logged
<1>4. calls \in Seq(S \cup {c})
  BY <1>3
<1>5. /\ calls' \in Seq(S \cup {c}) /\ Len(calls') = Len(calls) + 1 /\ Len(calls) \in Nat
      /\ \A n \in 1..Len(calls) : calls'[n] = calls[n]
      /\ calls'[Len(calls) + 1] = c
  BY <1>2, <1>3, <1>4
<1>6. Market' /\ day \in 0..day
  BY <1>1, TrackerAssumption DEF Board, Market
<1>7. Logged'
  <2>1. ASSUME NEW n \in 1..Len(calls')
        PROVE  calls'[n].rating \in Tracker!CallRatings /\ calls'[n].day \in 0..day
    <3>1. n \in 1..Len(calls) \/ n = Len(calls) + 1
      BY <1>5
    <3> QED
      BY <1>2, <1>5, <1>6, <3>1 DEF Board, Logged
  <2> QED
    BY <1>1, <1>5, <2>1, TrackerAssumption DEF Logged
<1>8. \A date \in Nat : \A d, e, close, s : Fits(date, d, e, close, s) => Fits(date, d, e, close, s)'
  BY <1>1 DEF Fits
<1> QED
  BY <1>1, <1>5, <1>6, <1>7, <1>8, MarketKeeps DEF Market

LEMMA WorldKeeps ==
  ASSUME Board, None \notin Nat,
         Tracker!Opens \/ Tracker!Moves \/ Tracker!DayPasses \/ Tracker!Split
           \/ UNCHANGED <<day, bars, splits, calls, outcomes, sweep>>
  PROVE  Board'
<1>1. UNCHANGED <<calls, outcomes, sweep>>
  BY DEF Tracker!Opens, Tracker!Moves, Tracker!DayPasses, Tracker!Split
<1>2. /\ Market' /\ day <= day'
      /\ \A date \in Nat : \A d, e, close, s : Fits(date, d, e, close, s) => Fits(date, d, e, close, s)'
  BY MarketMoves DEF Board
<1>3. Len(calls) \in Nat
  BY DEF Board, Logged
<1>4. Logged'
  BY <1>1, <1>2, TrackerAssumption DEF Board, Logged, Market
<1> QED
  BY <1>1, <1>2, <1>3, <1>4, MarketKeeps

(* A sweep *)

\* One sweep goes on, and what it does for the rest is right.
LEMMA SweepKeeps ==
  ASSUME Board, NEW w \in Sweepers, NEW k, UNCHANGED <<day, bars, splits, calls, outcomes>>,
         sweep' = [sweep EXCEPT ![w] = k], Looks(k)
  PROVE  Board'
<1>1. \A x \in Sweepers : sweep'[x] = IF x = w THEN k ELSE sweep[x]
  BY DEF Board, Looking
<1>2. \A x : Looks(x) => Looks(x)'
  BY DEF Looks, Matured, Fits
<1>3. Looking'
  BY <1>1, <1>2 DEF Board, Looking
<1>4. Market' /\ Logged' /\ Scores'
  BY DEF Board, Market, Logged, Scores, Right, Matured, Fits
<1> QED
  BY <1>3, <1>4 DEF Board

LEMMA RestOfRows ==
  ASSUME NEW k, Looks(k), k.due # <<>>
  PROVE  Looks([due |-> Tail(k.due), price |-> None]) /\ Head(k.due) \in Matured
BY DEF Looks

LEMMA GoesOnAs ==
  ASSUME Looking, NEW w \in Sweepers, Tracker!GoesOn(w)
  PROVE  sweep' = [sweep EXCEPT ![w] = [due |-> Tail(sweep[w].due), price |-> None]]
BY DEF Tracker!GoesOn

LEMMA StopsKeeps ==
  ASSUME Board, NEW w \in Sweepers, UNCHANGED <<day, bars, splits, calls, outcomes>>,
         Tracker!Raises(w) \/ (sweep[w].due # <<>> /\ Tracker!GoesOn(w))
  PROVE  Board'
<1>1. Looks(sweep[w]) /\ Looking
  BY DEF Board, Looking
<1>2. CASE Tracker!Raises(w)
  <2>1. Looks(Tracker!Idle)
    BY DEF Looks, Tracker!Idle
  <2> QED
    BY <1>2, <2>1, SweepKeeps DEF Tracker!Raises
<1>3. CASE sweep[w].due # <<>> /\ Tracker!GoesOn(w)
  BY <1>1, <1>3, GoesOnAs, RestOfRows, SweepKeeps
<1> QED
  BY <1>2, <1>3

LEMMA SameCardinality == ASSUME NEW S PROVE Tracker!Cardinality(S) = Cardinality(S)
BY DEF Tracker!Cardinality, Cardinality

LEMMA BeginKeeps == ASSUME Board, NEW w \in Sweepers, Tracker!Begin(w) PROVE Board'
<1> DEFINE Found == {r \in Tracker!Row : Tracker!Pending(r) /\ Tracker!Due(r) <= day}
<1>1. /\ sweep[w] = Tracker!Idle /\ UNCHANGED <<day, bars, splits, calls, outcomes>>
      /\ \E rows \in Tracker!SetToSeqs(Found) : sweep' = [sweep EXCEPT ![w].due = rows]
  BY DEF Tracker!Begin, Tracker!market
<1>2. PICK rows \in Tracker!SetToSeqs(Found) : sweep' = [sweep EXCEPT ![w].due = rows]
  BY <1>1
<1>3. rows \in Seq(Found)
  <2>1. IsFiniteSet((1..MaxCalls) \X Windows)
    <3>1. MaxCalls \in Int /\ 1 \in Int
      BY TrackerAssumption
    <3>2. IsFiniteSet(1..MaxCalls) /\ IsFiniteSet(Windows)
      BY <3>1, FS_Interval, TrackerAssumption
    <3> QED
      BY <3>2, FS_Product
  <2>2. Cardinality(Found) \in Nat
    BY <2>1, FS_Subset, FS_CardinalityType DEF Tracker!Row
  <2>3. Tracker!Cardinality(Found) = Cardinality(Found)
    BY SameCardinality
  <2>4. rows \in [1..Cardinality(Found) -> Found]
    BY <1>2, <2>3 DEF Tracker!SetToSeqs
  <2> HIDE DEF Found
  <2> QED
    BY <2>2, <2>4
<1>4. Found \subseteq Matured
  BY DEF Tracker!Row, Tracker!Pending, Tracker!Due, Matured
<1>5. sweep' = [sweep EXCEPT ![w] = [due |-> rows, price |-> None]]
  <2> HIDE DEF Found
  <2>1. [[due |-> <<>>, price |-> None] EXCEPT !.due = rows] = [due |-> rows, price |-> None]
    OBVIOUS
  <2>2. sweep[w] = [due |-> <<>>, price |-> None]
    BY <1>1 DEF Tracker!Idle
  <2>3. sweep' = [sweep EXCEPT ![w] = [[due |-> <<>>, price |-> None] EXCEPT !.due = rows]]
    BY <1>2, <2>2
  <2> QED
    BY <2>1, <2>3
<1>6. Looks([due |-> rows, price |-> None])
  <2>1. rows \in Seq(Matured)
    <3> HIDE DEF Found
    <3> QED
      BY <1>3, <1>4
  <2> QED
    BY <2>1 DEF Looks
<1> QED
  BY <1>1, <1>5, <1>6, SweepKeeps

LEMMA PriceKeeps == ASSUME Board, NEW w \in Sweepers, Tracker!Price(w) PROVE Board'
<1> DEFINE k == sweep[w] r == Head(k.due) d == Tracker!Nearest(bars, Tracker!Due(r))
           price == [close |-> bars[d], day |-> d, read |-> day, splits |-> splits]
<1>1. /\ k.due # <<>> /\ k.price = None /\ UNCHANGED <<day, bars, splits, calls, outcomes>>
      /\ \/ Tracker!GoesOn(w) \/ Tracker!Raises(w)
         \/ Tracker!Trading(bars) # {} /\ sweep' = [sweep EXCEPT ![w].price = price]
  BY DEF Tracker!Price, Tracker!market
<1>2. CASE Tracker!GoesOn(w) \/ Tracker!Raises(w)
  BY <1>1, <1>2, StopsKeeps
<1>3. CASE Tracker!Trading(bars) # {} /\ sweep' = [sweep EXCEPT ![w].price = price]
  <2>1. Looks(k) /\ r \in Matured
    BY <1>1, RestOfRows DEF Board, Looking
  <2>2. Tracker!Due(r) = calls[r[1]].day + r[2] /\ Tracker!Due(r) \in 0..day
    <3>1. r[2] \in Nat /\ r[1] \in 1..Len(calls) /\ calls[r[1]].day + r[2] <= day
      <4> HIDE DEF r
      <4> QED
        BY <2>1, MaturedIs DEF Board
    <3>2. calls[r[1]].day \in Nat /\ day \in Nat
      BY <3>1, TrackerAssumption DEF Board, Logged, Market
    <3> HIDE DEF r
    <3> QED
      BY <3>1, <3>2 DEF Tracker!Due
  <2>3. Fits(Tracker!Due(r), d, day, bars[d], splits)
    <3> HIDE DEF r
    <3> QED
      BY <1>3, <2>2, NearestFits DEF Board
  <2>4. sweep' = [sweep EXCEPT ![w] = [due |-> k.due, price |-> price]]
    <3>1. k = [due |-> k.due, price |-> k.price]
      BY <2>1 DEF Looks
    <3>2. [k EXCEPT !.price = price] = [due |-> k.due, price |-> price]
      <4> HIDE DEF price, k
      <4> QED
        BY <3>1
    <3> HIDE DEF price
    <3> QED
      BY <1>3, <3>2
  <2>5. Looks([due |-> k.due, price |-> price])
    BY <1>1, <2>1, <2>2, <2>3 DEF Looks
  <2> HIDE DEF price, k
  <2> QED
    BY <1>1, <2>4, <2>5, SweepKeeps
<1> QED
  BY <1>1, <1>2, <1>3

LEMMA RecordKeeps == ASSUME Board, NEW w \in Sweepers, Tracker!Record(w) PROVE Board'
<1> DEFINE k == sweep[w] r == Head(k.due) p == k.price
           realized == <<calls[r[1]].price, p.close>>
           o == [realized |-> realized, correct |-> Tracker!score_rating(calls[r[1]].rating, realized),
                 day |-> p.day, read |-> p.read, splits |-> p.splits]
<1>1. /\ p # None /\ UNCHANGED <<day, bars, splits, calls>>
      /\ outcomes' = [outcomes EXCEPT ![r] = o] /\ Tracker!GoesOn(w)
  BY DEF Tracker!Record, Tracker!market
<1>2. Looks(k) /\ k.due # <<>>
  BY <1>1 DEF Board, Looking, Looks
<1>3. r \in Matured /\ Looks([due |-> Tail(k.due), price |-> None])
  BY <1>2, RestOfRows
<1>4. Right(r, o)
  <2>1. o.realized[2] = p.close
    OBVIOUS
  <2>2. Fits(calls[r[1]].day + r[2], o.day, o.read, o.realized[2], o.splits)
    BY <1>1, <1>2 DEF Looks
  <2> QED
    BY <1>3, <2>2 DEF Right
<1>5. \A q, x : Right(q, x) => Right(q, x)'
  BY <1>1 DEF Right, Matured, Fits
<1>6. \A x : Looks(x) => Looks(x)'
  BY <1>1 DEF Looks, Matured, Fits
<1>7. Scores'
  <2>1. \A q \in (1..MaxCalls) \X Windows : outcomes'[q] = IF q = r THEN o ELSE outcomes[q]
    <3> HIDE DEF o, r
    <3> QED
      BY <1>1 DEF Board, Scores
  <2>2. outcomes' = [q \in (1..MaxCalls) \X Windows |-> outcomes'[q]]
    <3> HIDE DEF o, r
    <3> QED
      BY <1>1 DEF Board, Scores
  <2>3. \A q \in (1..MaxCalls) \X Windows : outcomes'[q] # None => Right(q, outcomes[q])'
    <3>1. ASSUME NEW q \in (1..MaxCalls) \X Windows, outcomes'[q] # None PROVE Right(q, outcomes'[q])
      <4> HIDE DEF o, r
      <4> QED
        BY <1>4, <2>1, <3>1 DEF Board, Scores
    <3> QED
      BY <1>5, <3>1
  <2> QED
    BY <2>2, <2>3 DEF Scores
<1>8. Looking'
  <2>1. sweep' = [sweep EXCEPT ![w] = [due |-> Tail(k.due), price |-> None]]
    BY <1>1, GoesOnAs DEF Board
  <2> HIDE DEF k
  <2>2. \A x \in Sweepers : sweep'[x] = IF x = w THEN [due |-> Tail(k.due), price |-> None] ELSE sweep[x]
    BY <2>1 DEF Board, Looking
  <2> QED
    BY <1>3, <1>6, <2>1, <2>2 DEF Board, Looking
<1>9. Market' /\ Logged'
  BY <1>1 DEF Board, Market, Logged
<1> QED
  BY <1>7, <1>8, <1>9 DEF Board

LEMMA BoardInit == Tracker!Init => Board
<1> SUFFICES ASSUME Tracker!Init PROVE Board
  OBVIOUS
<1>1. /\ day = 0 /\ splits = 0 /\ calls = <<>> /\ bars \in [0..MaxDay -> {None}]
      /\ outcomes = [r \in (1..MaxCalls) \X Windows |-> None]
      /\ sweep = [w \in Sweepers |-> [due |-> <<>>, price |-> None]]
  BY DEF Tracker!Init, Tracker!Days, Tracker!Row, Tracker!Idle
<1>2. Market
  <2>1. day \in 0..MaxDay
    BY <1>1, TrackerAssumption
  <2>2. \A d \in 0..MaxDay : bars[d] = None
    BY <1>1
  <2> QED
    BY <1>1, <2>1, <2>2 DEF Market
<1>3. Logged
  <2>1. calls \in Seq({}) /\ Len(calls) = 0
    BY <1>1
  <2> QED
    BY <2>1, TrackerAssumption DEF Logged
<1>4. Scores
  BY <1>1 DEF Scores
<1>5. Looks([due |-> <<>>, price |-> None])
  BY DEF Looks
<1> QED
  BY <1>1, <1>2, <1>3, <1>4, <1>5 DEF Board, Looking

LEMMA BoardNext == None \notin Nat /\ Board /\ [Tracker!Next]_Tracker!vars => Board'
<1> SUFFICES ASSUME None \notin Nat, Board, [Tracker!Next]_Tracker!vars PROVE Board'
  OBVIOUS
<1>1. ASSUME NEW w \in Sweepers,
             Tracker!Sweep(w) \/ Tracker!HistoryFails(w) \/ Tracker!RecordFails(w)
      PROVE  Board'
  <2>1. CASE Tracker!HistoryFails(w) \/ Tracker!RecordFails(w)
    <3>1. Tracker!Raises(w) \/ (sweep[w].due # <<>> /\ Tracker!GoesOn(w))
      BY <2>1 DEF Tracker!HistoryFails, Tracker!RecordFails
    <3>2. UNCHANGED <<day, bars, splits, calls, outcomes>>
      BY <2>1 DEF Tracker!HistoryFails, Tracker!RecordFails, Tracker!market
    <3> QED
      BY <3>1, <3>2, StopsKeeps
  <2> QED
    BY <1>1, <2>1, BeginKeeps, PriceKeeps, RecordKeeps DEF Tracker!Sweep
<1>2. CASE UNCHANGED Tracker!vars
  BY <1>2, WorldKeeps DEF Tracker!vars, Tracker!market
<1> QED
  BY <1>1, <1>2, LogKeeps, WorldKeeps DEF Tracker!Next

(* What follows *)

LEMMA ScoredItsDate == ASSUME Board PROVE Tracker!ScoredAtItsDate
<1> SUFFICES ASSUME NEW r \in (1..MaxCalls) \X Windows, outcomes[r] # None
             PROVE  LET o == outcomes[r] IN
                    /\ o.day # Tracker!Due(r) =>
                         \A d \in Tracker!Trading(bars) :
                           ~Tracker!Between(o.day, d, Tracker!Due(r)) /\ (d = Tracker!Due(r) => o.read <= d)
                    /\ o.day < o.read => o.realized[2] = bars[o.day] * 2 ^ (splits - o.splits)
  BY DEF Tracker!ScoredAtItsDate, Tracker!Row
<1>1. Right(r, outcomes[r])
  BY DEF Board, Scores
<1> QED
  BY <1>1 DEF Right, Fits, Scale, Tracker!Due, Tracker!Trading, Tracker!Days

\* On the calls that say the same, the model is right as often as who always says it.
LEMMA OneRule ==
  ASSUME Board, NEW n \in Windows, NEW said \in Tracker!CallRatings
  PROVE  LET rows == {r \in Tracker!ScoredRows(n) : calls[r[1]].rating = said}
         IN  Tracker!Breakdown(n, said) = Tracker!naive_baseline_accuracy(rows, said)
<1> DEFINE rows == {r \in Tracker!ScoredRows(n) : calls[r[1]].rating = said}
<1>1. ASSUME NEW r \in rows
      PROVE  outcomes[r].correct = Tracker!score_rating(said, outcomes[r].realized)
  BY DEF Board, Scores, Right, Tracker!ScoredRows, Tracker!Row
<1>2. {r \in rows : outcomes[r].correct} = {r \in rows : Tracker!score_rating(said, outcomes[r].realized)}
  <2> HIDE DEF rows
  <2> QED
    BY <1>1, Zenon
<1> HIDE DEF rows
<1>3. Tracker!ModelAccuracy(rows) = Tracker!naive_baseline_accuracy(rows, said)
  BY <1>2 DEF Tracker!ModelAccuracy, Tracker!naive_baseline_accuracy, Tracker!Accuracy
<1> QED
  BY <1>3 DEF rows, Tracker!Breakdown

\* The calls of a window are those scored and those not.
LEMMA PartsAddUp ==
  ASSUME Board, NEW n \in Windows, Tracker!ScoredRows(n) # {}
  PROVE  Tracker!ModelAccuracy(Tracker!ScoredRows(n))[2]
           + Tracker!Cardinality({c \in DOMAIN calls : outcomes[<<c, n>>] = None}) = Len(calls)
<1> DEFINE Yes == {c \in DOMAIN calls : outcomes[<<c, n>>] # None}
           No == {c \in DOMAIN calls : outcomes[<<c, n>>] = None}
           rows == Tracker!ScoredRows(n)
<1>1. Len(calls) \in Nat /\ DOMAIN calls = 1..Len(calls)
  BY DEF Board, Logged
<1>2. Cardinality(1..Len(calls)) = Len(calls) /\ IsFiniteSet(1..Len(calls))
  <2>1. Len(calls) \in Int /\ 1 \in Int
    BY <1>1
  <2>2. IsFiniteSet(1..Len(calls)) /\ Cardinality(1..Len(calls)) = IF 1 > Len(calls) THEN 0 ELSE Len(calls) - 1 + 1
    BY <2>1, FS_Interval
  <2> QED
    BY <1>1, <2>2
<1>3. Cardinality(Yes) + Cardinality(No) = Len(calls) /\ IsFiniteSet(Yes)
  <2>1. IsFiniteSet(Yes) /\ IsFiniteSet(No)
    BY <1>1, <1>2, FS_Subset
  <2>2. Yes \cup No = 1..Len(calls) /\ Yes \cap No = {}
    BY <1>1
  <2>3. Cardinality(Yes) \in Nat /\ Cardinality(No) \in Nat
    BY <2>1, FS_CardinalityType
  <2> HIDE DEF Yes, No
  <2>4. Cardinality(Yes \cup No) = Cardinality(Yes) + Cardinality(No) - Cardinality(Yes \cap No)
    BY <2>1, FS_Union
  <2>5. Cardinality(Yes \cap No) = 0
    BY <2>2, FS_EmptySet
  <2>6. Cardinality(Yes \cup No) = Len(calls)
    BY <1>2, <2>2
  <2> QED
    BY <1>1, <2>1, <2>3, <2>4, <2>5, <2>6
<1>4. Cardinality(rows) = Cardinality(Yes)
  <2> DEFINE f == [c \in Yes |-> <<c, n>>]
  <2>1. \A c \in Yes : <<c, n>> \in rows
    <3>1. Len(calls) <= MaxCalls
      BY DEF Board, Logged
    <3> QED
      BY <1>1, <3>1, TrackerAssumption DEF Tracker!ScoredRows, Tracker!Row
  <2>2. \A r \in rows : r[1] \in Yes /\ r = <<r[1], n>>
    BY <1>1, MaturedIs DEF Board, Scores, Right, Tracker!ScoredRows, Tracker!Row
  <2> HIDE DEF Yes, rows
  <2>3. f \in Bijection(Yes, rows)
    BY <2>1, <2>2 DEF Bijection, Injection, Surjection, IsInjective
  <2>4. ExistsBijection(Yes, rows)
    BY <2>3 DEF ExistsBijection
  <2> QED
    BY <1>3, <2>4, FS_Bijection
<1>5. Tracker!ModelAccuracy(rows)[2] = Tracker!Cardinality(rows)
  <2> HIDE DEF rows
  <2>1. rows # {}
    BY DEF rows
  <2> QED
    BY <2>1 DEF Tracker!ModelAccuracy, Tracker!Accuracy
<1> HIDE DEF rows, Yes, No
<1>6. Tracker!Cardinality(rows) = Cardinality(rows) /\ Tracker!Cardinality(No) = Cardinality(No)
  BY SameCardinality
<1> QED
  BY <1>3, <1>4, <1>5, <1>6 DEF rows, No

\* Of any number of calls, windows and days, whatever sweeps overlap, fail or come late, and
\* whatever prices and splits come in between: a call is scored by the close of its own date, or
\* of a day next to it, final unless it was the day of the sweep, and it is counted beside the
\* two other raters by one rule and over the same rows (check_matured_checkpoints,
\* _closest_price_on_or_near, get_scoreboard).
THEOREM CallsScored == MCSpec => []OutcomesHold
<1>1. Board => OutcomesHold
  BY ScoredItsDate, OneRule, PartsAddUp DEF OutcomesHold, Tracker!OutcomesHold, Tracker!ComparedByOneRule
<1>2. MCInit => Board
  BY BoardInit DEF MCInit
<1>3. [MCNext]_<<vars, tracker, scene>> => [Tracker!Next]_Tracker!vars
  BY DEF MCNext, Proposing, Scoring, tracker, Tracker!vars, Tracker!market
<1>4. None \notin Nat
  BY NoneAssumption
<1> QED
  BY <1>1, <1>2, <1>3, <1>4, BoardNext, PTL DEF MCSpec

(***************************************************************************)
(* Accounts: the types.  A request under way knows whom and what it is     *)
(* about, which the type alone leaves open.                                *)
(***************************************************************************)

RequestOf == [kind : Store!Kinds, email : Emails \cup {None}, user : Users \cup {None},
          table : Store!TableNames \cup {None}, since : 0..MaxClock]

Complete(r) ==
  /\ r.kind = "signup" => r.email \in Emails
  /\ r.kind \in {"login", "delete", "write", "resolve"} => r.user \in Users
  /\ r.kind = "write" => r.table \in Store!TableNames

\* What was asked for was asked no later than now.
Addressed == \A q \in Handlers : Complete(request[q]) /\ request[q].since <= time

AccountsTypeInv == Store!TypeOK /\ Addressed /\ IsFiniteSet(attempts)

LEMMA SameCount == ASSUME NEW S PROVE Store!Cardinality(S) = Cardinality(S)
BY DEF Store!Cardinality, Cardinality

LEMMA AccountsTypeInit == Store!Init => AccountsTypeInv
BY BoundsAssumption, AccountsAssumption, FS_EmptySet DEF Store!Init, AccountsTypeInv, Store!TypeOK,
   Addressed, Complete, Store!Idle

\* A request keeps the type whatever well-formed one it becomes.
LEMMA BecomeType ==
  ASSUME AccountsTypeInv, NEW q \in Handlers, NEW r \in {Store!Idle} \cup RequestOf, Complete(r),
         r.since <= time, UNCHANGED time, Store!Become(q, r)
  PROVE  request' \in [Handlers -> {Store!Idle} \cup RequestOf] /\ Addressed'
BY DEF AccountsTypeInv, Store!TypeOK, Addressed, Store!Become, RequestOf

LEMMA RecordType ==
  /\ Complete(Store!Idle) /\ Store!Idle.since = 0
  /\ \A e \in Emails : Store!SigningUp(e) \in RequestOf /\ Complete(Store!SigningUp(e)) /\ Store!SigningUp(e).since = 0
  /\ \A u \in Users : Store!SigningIn(u) \in RequestOf /\ Complete(Store!SigningIn(u)) /\ Store!SigningIn(u).since = 0
BY BoundsAssumption, AccountsAssumption DEF Store!Idle, RequestOf, Complete, Store!Kinds,
   Store!SigningUp, Store!SigningIn

LEMMA AccountsTypeNext == AccountsTypeInv /\ [Store!Next]_Store!vars => AccountsTypeInv'
<1> SUFFICES ASSUME AccountsTypeInv, [Store!Next]_Store!vars PROVE AccountsTypeInv'
  OBVIOUS
<1> DEFINE Others ==
      /\ accounts \subseteq [id : Users, email : Emails]
      /\ sessions \subseteq [token : Tokens, user : Users, expires : 0..(MaxClock + SessionTTL)]
      /\ stored \subseteq Users \X Store!TableNames
      /\ attempts \subseteq [user : Users, at : 0..MaxClock, no : Nat \ {0}]
      /\ used \subseteq Users \cup Tokens
      /\ erased \subseteq Users /\ overtaken \subseteq Handlers
      /\ strays \subseteq Tokens /\ late \subseteq Users \X Store!TableNames
      /\ answers \subseteq {"ok", "taken", "failed"}
      /\ time \in 0..MaxClock
      /\ IsFiniteSet(attempts)
<1>a. Others /\ request \in [Handlers -> {Store!Idle} \cup RequestOf] /\ Addressed /\ time \in Nat
  BY BoundsAssumption, AccountsAssumption DEF AccountsTypeInv, Store!TypeOK, RequestOf
<1>b. ASSUME Others', request' \in [Handlers -> {Store!Idle} \cup RequestOf], Addressed' PROVE AccountsTypeInv'
  BY <1>b DEF AccountsTypeInv, Store!TypeOK, RequestOf
<1>c. ASSUME NEW q \in Handlers, Store!Become(q, Store!Idle) \/ Store!End(q), Others', UNCHANGED time
      PROVE  AccountsTypeInv'
  BY <1>a, <1>b, <1>c, BecomeType, RecordType DEF Store!End
<1>d. ASSUME NEW q \in Handlers, request[q].kind \in {"login", "delete", "write", "resolve"}
      PROVE  request[q].user \in Users
  BY <1>a, <1>d DEF Addressed, Complete
<1>1. ASSUME NEW q \in Handlers, NEW e \in Emails, Store!Signup(q, e) PROVE AccountsTypeInv'
  <2>1. Others' /\ UNCHANGED time
    BY <1>a, <1>1 DEF Store!Signup, Store!erasure
  <2>2. UNCHANGED request \/ Store!Become(q, Store!SigningUp(e))
    BY <1>1, RecordType DEF Store!Signup
  <2> QED
    BY <1>a, <1>b, <2>1, <2>2, BecomeType, RecordType DEF Addressed
<1>2. ASSUME NEW q \in Handlers, NEW e \in Emails, Store!Login(q, e) PROVE AccountsTypeInv'
  <2>1. PICK u \in Users : Store!Become(q, Store!SigningIn(u))
    BY <1>a, <1>2, RecordType DEF Store!Login, Store!AccountOf
  <2>2. Others' /\ UNCHANGED time
    BY <1>a, <1>2 DEF Store!Login, Store!erasure
  <2> QED
    BY <1>a, <1>b, <2>1, <2>2, BecomeType, RecordType
<1>3. ASSUME NEW q \in Handlers, Store!SignupInsert(q) PROVE AccountsTypeInv'
  <2>1. CASE Store!AccountOf(request[q].email) = {}
    <3>1. PICK u \in Users \ used :
            /\ accounts' = accounts \cup {[id |-> u, email |-> request[q].email]}
            /\ used' = used \cup {u}
            /\ Store!Become(q, Store!SigningIn(u))
            /\ answers' = answers \cup {"ok"}
            /\ UNCHANGED <<sessions, stored, attempts, erased, overtaken, strays, late, time>>
      BY <1>3, <2>1, RecordType DEF Store!SignupInsert
    <3>2. request[q].email \in Emails
      BY <1>a, <1>3 DEF Store!SignupInsert, Addressed, Complete
    <3>3. Others' /\ UNCHANGED time
      BY <1>a, <3>1, <3>2
    <3> QED
      BY <1>a, <1>b, <3>1, <3>3, BecomeType, RecordType
  <2>2. CASE Store!AccountOf(request[q].email) # {}
    BY <1>a, <1>c, <1>3, <2>2 DEF Store!SignupInsert, Store!End
  <2> QED
    BY <2>1, <2>2
<1>4. ASSUME NEW q \in Handlers, Store!CreateSession(q) PROVE AccountsTypeInv'
  <2>1. request[q].user \in Users /\ time + SessionTTL \in 0..(MaxClock + SessionTTL)
    BY <1>a, <1>d, <1>4, BoundsAssumption, AccountsAssumption DEF Store!CreateSession
  <2> QED
    BY <1>a, <1>c, <1>4, <2>1 DEF Store!CreateSession, Store!End
<1>5. ASSUME NEW q \in Handlers, Store!Write(q) PROVE AccountsTypeInv'
  <2>1. request[q].user \in Users /\ request[q].table \in Store!TableNames
    BY <1>a, <1>d, <1>5 DEF Store!Write, Addressed, Complete
  <2> QED
    BY <1>a, <1>c, <1>5, <2>1 DEF Store!Write, Store!End
<1>6. ASSUME NEW q \in Handlers, NEW u \in Users, NEW kind \in {"write", "delete", "resolve"},
             NEW table \in Store!TableNames \cup {None}, kind = "write" => table \in Store!TableNames,
             Store!Admit(q, u, kind, table)
      PROVE  AccountsTypeInv'
  <2> DEFINE r == [kind |-> kind, email |-> None, user |-> u, table |-> table, since |-> time]
  <2>1. r \in RequestOf /\ Complete(r) /\ r.since <= time
    BY <1>a, <1>6 DEF RequestOf, Complete, Store!Kinds
  <2>2. Others' /\ UNCHANGED time /\ Store!Become(q, r)
    BY <1>a, <1>6 DEF Store!Admit, Store!Enter
  <2> HIDE DEF r
  <2> QED
    BY <1>a, <1>b, <2>1, <2>2, BecomeType
<1>7. ASSUME NEW q \in Handlers, Store!Claim(q) PROVE AccountsTypeInv'
  <2>1. request[q].user \in Users
    BY <1>d, <1>7 DEF Store!Claim
  <2>2. Cardinality(Store!Attempts(request[q].user)) \in Nat
    BY <1>a, FS_Subset, FS_CardinalityType DEF Store!Attempts
  <2>3. \/ attempts' = attempts
        \/ attempts' = attempts \cup {Store!Attempt(request[q].user)}
    BY <1>7 DEF Store!Claim
  <2>4. IsFiniteSet(attempts')
    BY <1>a, <2>3, FS_AddElement
  <2>5. Store!Attempt(request[q].user) \in [user : Users, at : 0..MaxClock, no : Nat \ {0}]
    BY <1>a, <2>1, <2>2, SameCount DEF Store!Attempt
  <2> QED
    BY <1>a, <1>c, <1>7, <2>3, <2>4, <2>5 DEF Store!Claim, Store!End
<1>8. ASSUME NEW q \in Handlers, Store!Erase(q) PROVE AccountsTypeInv'
  <2>1. request[q].user \in Users
    BY <1>d, <1>8 DEF Store!Erase
  <2> QED
    BY <1>a, <1>c, <1>8, <2>1 DEF Store!Erase, Store!Overtake
<1>9. ASSUME NEW t \in Tokens, Store!Logout(t) PROVE AccountsTypeInv'
  BY <1>9 DEF Store!Logout, Store!erasure, AccountsTypeInv, Store!TypeOK, Addressed, Complete
<1>10. CASE Store!Tick
  <2>1. Others'
    BY <1>a, <1>10, BoundsAssumption, AccountsAssumption DEF Store!Tick, Store!erasure
  <2>2. Addressed'
    BY <1>a, <1>10, BoundsAssumption, AccountsAssumption DEF Store!Tick, Addressed, Complete, RequestOf, Store!Idle
  <2> QED
    BY <1>a, <1>b, <1>10, <2>1, <2>2 DEF Store!Tick
<1>11. CASE UNCHANGED Store!vars
  BY <1>11 DEF Store!vars, Store!erasure, AccountsTypeInv, Store!TypeOK, Addressed, Complete
<1>12. ASSUME NEW q \in Handlers, NEW u \in Users, Store!Ask(q, u) PROVE AccountsTypeInv'
  BY <1>6, <1>12 DEF Store!Ask
<1> QED
  BY <1>1, <1>2, <1>3, <1>4, <1>5, <1>7, <1>8, <1>9, <1>10, <1>11, <1>12 DEF Store!Next

\* With the sweeps at rest, what happens is what happens to accounts.
LEMMA AccountsAlone == AccountsSpec => Store!Spec
<1>1. AccountsInit => Store!Init
  BY DEF AccountsInit
<1>2. [AccountsNext]_<<Store!vars, sweeping>> => [Store!Next]_Store!vars
  BY DEF AccountsNext
<1> QED
  BY <1>1, <1>2, PTL DEF AccountsSpec, Store!Spec

\* Requests, tables and the attempts counted stay of their kinds.
THEOREM AccountsTypeCorrect == AccountsSpec => []Store!TypeOK
<1>1. AccountsTypeInv => Store!TypeOK
  BY DEF AccountsTypeInv
<1> QED
  BY <1>1, AccountsTypeInit, AccountsTypeNext, AccountsAlone, PTL DEF Store!Spec

(***************************************************************************)
(* The erasure.  An id is used once: accounts, sessions and requests bear  *)
(* ids handed out before, so that no signup gives an erased account's id   *)
(* to somebody new.                                                        *)
(***************************************************************************)

IdsUsed ==
  /\ erased \subseteq used
  /\ \A a \in accounts : a.id \in used
  /\ \A s \in sessions : s.user \in used
  /\ \A q \in Handlers : request[q].user # None => request[q].user \in used

LEMMA IdsUsedNext == AccountsTypeInv /\ IdsUsed /\ [Store!Next]_Store!vars => IdsUsed'
<1> SUFFICES ASSUME AccountsTypeInv, IdsUsed, [Store!Next]_Store!vars PROVE IdsUsed'
  OBVIOUS
<1>1. ASSUME UNCHANGED <<used, erased>>, accounts' \subseteq accounts, sessions' \subseteq sessions,
             \A p \in Handlers : request'[p] = request[p] \/ request'[p].user \in used \cup {None}
      PROVE  IdsUsed'
  BY <1>1 DEF IdsUsed
<1>2. ASSUME NEW q \in Handlers, NEW r, Store!Become(q, r), r.user \in used \cup {None}
      PROVE  \A p \in Handlers : request'[p] = request[p] \/ request'[p].user \in used \cup {None}
  BY <1>2 DEF Store!Become, AccountsTypeInv, Store!TypeOK
<1>3. Store!Idle.user = None
  BY DEF Store!Idle
<1>4. ASSUME NEW q \in Handlers, NEW e \in Emails, Store!Signup(q, e) PROVE IdsUsed'
  BY <1>1, <1>2, <1>4 DEF Store!Signup, Store!SigningUp, Store!erasure
<1>5. ASSUME NEW q \in Handlers, NEW e \in Emails, Store!Login(q, e) PROVE IdsUsed'
  <2>1. PICK a \in accounts : Store!Become(q, Store!SigningIn(a.id))
    BY <1>5 DEF Store!Login, Store!AccountOf
  <2>2. Store!SigningIn(a.id).user \in used
    BY DEF Store!SigningIn, IdsUsed
  <2> QED
    BY <1>1, <1>2, <1>5, <2>1, <2>2 DEF Store!Login, Store!erasure
<1>6. ASSUME NEW q \in Handlers, Store!SignupInsert(q) PROVE IdsUsed'
  <2>1. CASE Store!AccountOf(request[q].email) = {}
    <3>1. PICK u \in Users \ used :
            /\ accounts' = accounts \cup {[id |-> u, email |-> request[q].email]}
            /\ used' = used \cup {u} /\ Store!Become(q, Store!SigningIn(u))
            /\ UNCHANGED <<sessions, erased>>
      BY <1>6, <2>1 DEF Store!SignupInsert
    <3>2. \A p \in Handlers : request'[p] = request[p] \/ request'[p].user = u
      BY <3>1 DEF Store!Become, Store!SigningIn, AccountsTypeInv, Store!TypeOK
    <3> QED
      BY <3>1, <3>2 DEF IdsUsed
  <2>2. CASE Store!AccountOf(request[q].email) # {}
    BY <1>1, <1>2, <1>3, <1>6, <2>2 DEF Store!SignupInsert, Store!End
  <2> QED
    BY <2>1, <2>2
<1>7. ASSUME NEW q \in Handlers, Store!CreateSession(q) PROVE IdsUsed'
  <2>1. request[q].user \in used
    BY <1>7, AccountsAssumption DEF Store!CreateSession, AccountsTypeInv, Addressed, Complete, IdsUsed
  <2>2. PICK t \in Tokens :
          /\ sessions' = sessions \cup
               {[token |-> t, user |-> request[q].user, expires |-> time + SessionTTL]}
          /\ used' = used \cup {t} /\ Store!Become(q, Store!Idle)
          /\ UNCHANGED <<accounts, erased>>
    BY <1>7 DEF Store!CreateSession, Store!End
  <2>3. \A p \in Handlers : request'[p] = request[p] \/ request'[p].user = None
    BY <1>3, <2>2 DEF Store!Become, AccountsTypeInv, Store!TypeOK
  <2> QED
    BY <2>1, <2>2, <2>3 DEF IdsUsed
<1>8. ASSUME NEW q \in Handlers, Store!Write(q) \/ Store!Claim(q) \/ Store!Erase(q) PROVE IdsUsed'
  <2>1. Store!Become(q, Store!Idle) /\ UNCHANGED used /\ accounts' \subseteq accounts
        /\ sessions' \subseteq sessions
    BY <1>8 DEF Store!Write, Store!Claim, Store!Erase, Store!End, Store!Overtake
  <2>2. UNCHANGED erased \/ (erased' = erased \cup {request[q].user} /\ request[q].kind = "delete")
    BY <1>8 DEF Store!Write, Store!Claim, Store!Erase
  <2>3. request[q].kind = "delete" => request[q].user \in used
    BY AccountsAssumption DEF AccountsTypeInv, Addressed, Complete, IdsUsed
  <2>4. \A p \in Handlers : request'[p] = request[p] \/ request'[p].user = None
    BY <1>3, <2>1 DEF Store!Become, AccountsTypeInv, Store!TypeOK
  <2> QED
    BY <2>1, <2>2, <2>3, <2>4 DEF IdsUsed
<1>9. ASSUME NEW q \in Handlers, NEW u \in Users, NEW kind, NEW table, Store!Admit(q, u, kind, table)
      PROVE  IdsUsed'
  <2> DEFINE r == [kind |-> kind, email |-> None, user |-> u, table |-> table, since |-> time]
  <2>1. u \in used
    BY <1>9 DEF Store!Admit, Store!SessionsOf, IdsUsed
  <2>2. Store!Become(q, r) /\ r.user = u
    BY <1>9 DEF Store!Admit, Store!Enter
  <2>3. UNCHANGED <<used, erased, accounts, sessions>>
    BY <1>9 DEF Store!Admit, Store!Enter
  <2> QED
    BY <1>1, <1>2, <2>1, <2>2, <2>3
<1>10. ASSUME NEW q \in Handlers, NEW u \in Users, Store!Ask(q, u) PROVE IdsUsed'
  BY <1>9, <1>10 DEF Store!Ask
<1>11. ASSUME NEW t \in Tokens, Store!Logout(t) PROVE IdsUsed'
  BY <1>1, <1>11 DEF Store!Logout, Store!erasure
<1>12. CASE Store!Tick \/ UNCHANGED Store!vars
  BY <1>1, <1>12 DEF Store!Tick, Store!vars, Store!erasure
<1> QED
  BY <1>4, <1>5, <1>6, <1>7, <1>8, <1>10, <1>11, <1>12 DEF Store!Next

LEMMA ErasureNext == AccountsTypeInv /\ IdsUsed /\ ErasureHolds /\ [Store!Next]_Store!vars => ErasureHolds'
<1> SUFFICES ASSUME AccountsTypeInv, IdsUsed, ErasureHolds, [Store!Next]_Store!vars PROVE ErasureHolds'
  OBVIOUS
<1> USE DEF ErasureHolds, Store!ErasureHolds
<1>0. None \notin erased /\ Store!Idle.user = None
  BY AccountsAssumption DEF AccountsTypeInv, Store!TypeOK, Store!Idle
\* A step that stores nothing and lets nobody in.
<1>1. ASSUME accounts' \subseteq accounts, sessions' \subseteq sessions, stored' \subseteq stored,
             UNCHANGED <<erased, strays, late>>, overtaken' = overtaken,
             \A p \in Handlers : request'[p] = request[p] \/ request'[p].user \notin erased
      PROVE  ErasureHolds'
  BY <1>1
\* A request ends.
<1>2. ASSUME NEW q \in Handlers, Store!End(q)
      PROVE  \A u \in erased, p \in Handlers : request'[p].user = u => p \in overtaken'
  BY <1>0, <1>2 DEF Store!End, Store!Become, AccountsTypeInv, Store!TypeOK
<1>3. ASSUME NEW q \in Handlers, NEW r, Store!Become(q, r), r.user \notin erased
      PROVE  \A p \in Handlers : request'[p] = request[p] \/ request'[p].user \notin erased
  BY <1>3 DEF Store!Become, AccountsTypeInv, Store!TypeOK
<1>4. ASSUME NEW q \in Handlers, NEW e \in Emails, Store!Signup(q, e) PROVE ErasureHolds'
  <2>1. Store!SigningUp(e).user = None
    BY DEF Store!SigningUp
  <2> QED
    BY <1>0, <1>1, <1>3, <1>4, <2>1 DEF Store!Signup, Store!erasure
<1>5. ASSUME NEW q \in Handlers, NEW e \in Emails, Store!Login(q, e) PROVE ErasureHolds'
  <2>1. PICK a \in accounts : Store!Become(q, Store!SigningIn(a.id))
    BY <1>5 DEF Store!Login, Store!AccountOf
  <2>2. Store!SigningIn(a.id).user \notin erased
    BY DEF Store!SigningIn
  <2> QED
    BY <1>1, <1>3, <1>5, <2>1, <2>2 DEF Store!Login, Store!erasure
<1>6. ASSUME NEW q \in Handlers, Store!SignupInsert(q) PROVE ErasureHolds'
  <2>1. CASE Store!AccountOf(request[q].email) = {}
    <3>1. PICK u \in Users \ used :
            /\ accounts' = accounts \cup {[id |-> u, email |-> request[q].email]}
            /\ Store!Become(q, Store!SigningIn(u))
            /\ UNCHANGED <<sessions, stored, erased, overtaken, strays, late>>
      BY <1>6, <2>1 DEF Store!SignupInsert
    <3>2. u \notin erased /\ Store!SigningIn(u).user = u
      BY <3>1 DEF IdsUsed, Store!SigningIn
    <3>3. \A p \in Handlers : request'[p] = request[p] \/ request'[p].user \notin erased
      BY <1>3, <3>1, <3>2
    <3> QED
      BY <3>1, <3>2, <3>3
  <2>2. CASE Store!AccountOf(request[q].email) # {}
    BY <1>2, <1>6, <2>2 DEF Store!SignupInsert
  <2> QED
    BY <2>1, <2>2
<1>7. ASSUME NEW q \in Handlers, Store!CreateSession(q) PROVE ErasureHolds'
  <2>1. PICK t \in Tokens :
          /\ sessions' = sessions \cup
               {[token |-> t, user |-> request[q].user, expires |-> time + SessionTTL]}
          /\ strays' = IF q \in overtaken THEN strays \cup {t} ELSE strays
    BY <1>7 DEF Store!CreateSession
  <2>2. UNCHANGED <<accounts, stored, erased, late>> /\ Store!End(q)
    BY <1>7 DEF Store!CreateSession
  <2> QED
    BY <1>2, <2>1, <2>2
<1>8. ASSUME NEW q \in Handlers, Store!Write(q) PROVE ErasureHolds'
  <2>1. /\ stored' = stored \cup {<<request[q].user, request[q].table>>}
        /\ late' = IF q \in overtaken THEN late \cup {<<request[q].user, request[q].table>>} ELSE late
        /\ UNCHANGED <<accounts, sessions, erased, strays>> /\ Store!End(q)
    BY <1>8 DEF Store!Write
  <2>2. \A u \in erased, r \in stored' : r[1] = u => r[2] \in Store!KeptTables \/ r \in late'
    BY <2>1
  <2> QED
    BY <1>2, <2>1, <2>2
<1>9. ASSUME NEW q \in Handlers, Store!Claim(q) PROVE ErasureHolds'
  BY <1>2, <1>9 DEF Store!Claim
<1>10. ASSUME NEW q \in Handlers, Store!Erase(q) PROVE ErasureHolds'
  <2> DEFINE u == request[q].user
  <2>1. /\ accounts' = {a \in accounts : a.id # u} /\ sessions' = {s \in sessions : s.user # u}
        /\ stored' = {r \in stored : r[1] # u \/ r[2] \in Store!KeptTables}
        /\ erased' = erased \cup {u} /\ UNCHANGED <<strays, late>> /\ Store!Overtake(q, u)
        /\ u \in Users
    BY <1>10 DEF Store!Erase, AccountsTypeInv, Addressed, Complete
  <2>2. request'[q].user = None /\ \A p \in Handlers \ {q} : request'[p] = request[p]
    BY <1>0, <2>1 DEF Store!Overtake, Store!Become, AccountsTypeInv, Store!TypeOK
  <2>3. \A v \in erased', p \in Handlers : request'[p].user = v => p \in overtaken'
    BY <1>0, <2>1, <2>2, AccountsAssumption DEF Store!Overtake
  <2> QED
    BY <2>1, <2>3
<1>11. ASSUME NEW q \in Handlers, NEW u \in Users, NEW kind, NEW table, Store!Admit(q, u, kind, table)
       PROVE  ErasureHolds'
  <2> DEFINE r == [kind |-> kind, email |-> None, user |-> u, table |-> table, since |-> time]
  <2>1. UNCHANGED <<accounts, sessions, stored, erased, strays, late>> /\ Store!Become(q, r)
    BY <1>11 DEF Store!Admit, Store!Enter
  <2>2. PICK s \in sessions : s.user = u /\ s.expires >= time
    BY <1>11 DEF Store!Admit, Store!SessionsOf
  <2>3. u \in erased => q \in overtaken'
    BY <1>11, <2>2 DEF Store!Admit, Store!Enter, Store!SessionsOf
  <2>4. overtaken \subseteq overtaken'
    BY <1>11 DEF Store!Admit, Store!Enter
  <2>5. request'[q].user = u /\ \A p \in Handlers \ {q} : request'[p] = request[p]
    BY <2>1 DEF Store!Become, AccountsTypeInv, Store!TypeOK
  <2> HIDE DEF r
  <2> QED
    BY <2>1, <2>3, <2>4, <2>5
<1>12. ASSUME NEW q \in Handlers, NEW u \in Users, Store!Ask(q, u) PROVE ErasureHolds'
  BY <1>11, <1>12 DEF Store!Ask
<1>13. ASSUME NEW t \in Tokens, Store!Logout(t) PROVE ErasureHolds'
  BY <1>1, <1>13 DEF Store!Logout, Store!erasure
<1>14. CASE Store!Tick \/ UNCHANGED Store!vars
  BY <1>1, <1>14 DEF Store!Tick, Store!vars, Store!erasure
<1> QED
  BY <1>4, <1>5, <1>6, <1>7, <1>8, <1>9, <1>10, <1>12, <1>13, <1>14 DEF Store!Next

\* Of an erased account nothing is left that its erasure empties, and nothing acts for it, but
\* what was under way when it was erased and what that stores and lets in (delete_user_account,
\* get_current_user): a session that an overtaken login opens, a row that an overtaken request adds.
THEOREM Erasure == AccountsSpec => []ErasureHolds
<1>1. Store!Init => IdsUsed /\ ErasureHolds
  BY DEF Store!Init, IdsUsed, ErasureHolds, Store!ErasureHolds, Store!Idle
<1> QED
  BY <1>1, AccountsTypeInit, AccountsTypeNext, IdsUsedNext, ErasureNext, AccountsAlone, PTL DEF Store!Spec

(***************************************************************************)
(* The limit on resolutions.  What a transaction counts are the attempts   *)
(* of a window that opened at the request's own time, which may be long    *)
(* ago; it counts every attempt recorded since, so that any window the new *)
(* attempt falls into lies within what was counted.                        *)
(***************************************************************************)

Within(u, t) == {a \in Store!Attempts(u) : a.at <= t /\ a.at + Window > t}

\* The attempts of a window are among those counted by a request as old as the
\* window's end, or older.
LEMMA CountedAttempts ==
  ASSUME AccountsTypeInv, NEW u \in Users, NEW t \in 0..MaxClock, NEW s \in 0..MaxClock, s <= t
  PROVE  Within(u, t) \subseteq Store!Recent(u, s)
BY BoundsAssumption, AccountsAssumption DEF Within, Store!Recent, Store!Attempts, AccountsTypeInv, Store!TypeOK

\* The counts are numbers.
LEMMA AttemptsAreFinite ==
  ASSUME AccountsTypeInv
  PROVE  \A u, t : /\ IsFiniteSet(Within(u, t)) /\ Cardinality(Within(u, t)) \in Nat
                   /\ IsFiniteSet(Store!Recent(u, t)) /\ Cardinality(Store!Recent(u, t)) \in Nat
                   /\ IsFiniteSet(Store!Attempts(u)) /\ Cardinality(Store!Attempts(u)) \in Nat
<1> SUFFICES ASSUME NEW u, NEW t
             PROVE  /\ IsFiniteSet(Within(u, t)) /\ Cardinality(Within(u, t)) \in Nat
                    /\ IsFiniteSet(Store!Recent(u, t)) /\ Cardinality(Store!Recent(u, t)) \in Nat
                    /\ IsFiniteSet(Store!Attempts(u)) /\ Cardinality(Store!Attempts(u)) \in Nat
  OBVIOUS
<1>1. /\ Within(u, t) \subseteq attempts /\ Store!Recent(u, t) \subseteq attempts
      /\ Store!Attempts(u) \subseteq attempts
  BY DEF Within, Store!Recent, Store!Attempts
<1> QED
  BY <1>1, FS_Subset, FS_CardinalityType DEF AccountsTypeInv

LEMMA LimitNext ==
  AccountsTypeInv /\ ResolutionsWithinLimit /\ [Store!Next]_Store!vars => ResolutionsWithinLimit'
<1> SUFFICES ASSUME AccountsTypeInv, ResolutionsWithinLimit, [Store!Next]_Store!vars,
                    NEW u \in Users, NEW t \in 0..MaxClock
             PROVE  Cardinality(Within(u, t)') <= Limit
  BY SameCount DEF ResolutionsWithinLimit, Store!ResolutionsWithinLimit, Within
<1> DEFINE A == Within(u, t)
           B == Within(u, t)'
<1>1. IsFiniteSet(A) /\ Cardinality(A) \in Nat /\ Cardinality(A) <= Limit
  BY AttemptsAreFinite, SameCount DEF ResolutionsWithinLimit, Store!ResolutionsWithinLimit, Within
<1>2. ASSUME B \subseteq A PROVE Cardinality(B) <= Limit
  <2>1. IsFiniteSet(B) /\ Cardinality(B) <= Cardinality(A)
    BY <1>1, <1>2, FS_Subset
  <2>2. Cardinality(B) \in Nat
    BY <2>1, FS_CardinalityType
  <2> QED
    BY <1>1, <2>1, <2>2, BoundsAssumption, AccountsAssumption
<1>3. ASSUME NEW q \in Handlers, Store!Claim(q) PROVE Cardinality(B) <= Limit
  <2> DEFINE s == request[q].since
             v == request[q].user
             R == Store!Recent(v, s)
             new == Store!Attempt(v)
  <2>1. CASE attempts' = attempts
    BY <1>2, <2>1 DEF Within, Store!Attempts
  <2>2. CASE attempts' = attempts \cup {new} /\ Cardinality(R) < Limit
    <3>1. B \subseteq A \cup {new}
      BY <2>2 DEF Within, Store!Attempts
    <3>2. CASE new \notin B
      BY <1>2, <3>1, <3>2
    <3>3. CASE new \in B
      <4>1. u = v /\ time <= t
        BY <3>3 DEF Within, Store!Attempts, Store!Attempt
      <4>2. s \in 0..MaxClock /\ s <= t
        BY <4>1, BoundsAssumption, AccountsAssumption DEF AccountsTypeInv, Store!TypeOK, Addressed, Store!Idle
      <4>3. A \subseteq R
        BY <4>1, <4>2, CountedAttempts
      <4>4. IsFiniteSet(R) /\ Cardinality(R) \in Nat
        BY AttemptsAreFinite
      <4> HIDE DEF A, B, R, new
      <4>5. Cardinality(A) <= Cardinality(R)
        BY <4>3, <4>4, FS_Subset
      <4>6. /\ IsFiniteSet(A \cup {new})
            /\ Cardinality(A \cup {new}) = IF new \in A THEN Cardinality(A) ELSE Cardinality(A) + 1
        BY <1>1, FS_AddElement, Zenon
      <4>7. Cardinality(A \cup {new}) <= Cardinality(A) + 1
        BY <1>1, <4>6
      <4>8. IsFiniteSet(B) /\ Cardinality(B) <= Cardinality(A \cup {new})
        BY <3>1, <4>6, FS_Subset
      <4>9. Cardinality(B) \in Nat /\ Cardinality(A \cup {new}) \in Nat
        BY <4>6, <4>8, FS_CardinalityType
      <4> QED
        BY <1>1, <2>2, <4>4, <4>5, <4>7, <4>8, <4>9, BoundsAssumption, AccountsAssumption
    <3> QED
      BY <3>2, <3>3
  <2> QED
    BY <1>3, <2>1, <2>2, SameCount DEF Store!Claim
<1>4. ASSUME UNCHANGED attempts PROVE Cardinality(B) <= Limit
  BY <1>2, <1>4 DEF Within, Store!Attempts
<1> QED
  BY <1>3, <1>4
  DEF Store!Next, Store!Ask, Store!Admit, Store!Enter, Store!Signup, Store!SignupInsert, Store!Login,
      Store!CreateSession, Store!Write, Store!Erase, Store!Logout, Store!Tick, Store!vars

\* However requests run side by side, and however long after their admission they
\* count, no window of time holds more than Limit resolutions of a user.
THEOREM ResolutionLimit == AccountsSpec => []ResolutionsWithinLimit
<1>1. Store!Init => ResolutionsWithinLimit
  <2> SUFFICES ASSUME Store!Init, NEW u \in Users, NEW t \in 0..MaxClock
               PROVE  Cardinality(Within(u, t)) <= Limit
    BY SameCount DEF ResolutionsWithinLimit, Store!ResolutionsWithinLimit, Within
  <2>1. Within(u, t) = {}
    BY DEF Store!Init, Within, Store!Attempts
  <2> QED
    BY <2>1, FS_EmptySet, BoundsAssumption, AccountsAssumption
<1> QED
  BY <1>1, AccountsTypeInit, AccountsTypeNext, LimitNext, AccountsAlone, PTL DEF Store!Spec

(***************************************************************************)
(* Every resolution let through is counted: the numbers tell a user's      *)
(* attempts apart, also those of one instant.                              *)
(***************************************************************************)

Numbered == \A a \in attempts : a.no <= Cardinality(Store!Attempts(a.user))

\* An attempt recorded is a new one: the limit is on attempts, not on numbers.
LEMMA AttemptIsNew ==
  ASSUME AccountsTypeInv, Numbered, NEW u \in Users
  PROVE  Store!Attempt(u) \notin attempts
<1> SUFFICES ASSUME Store!Attempt(u) \in attempts PROVE FALSE
  OBVIOUS
<1>1. Cardinality(Store!Attempts(u)) \in Nat
  BY AttemptsAreFinite
<1>2. Store!Attempt(u).user = u /\ Store!Attempt(u).no = Cardinality(Store!Attempts(u)) + 1
  BY SameCount DEF Store!Attempt
<1>3. Store!Attempt(u).no <= Cardinality(Store!Attempts(u))
  BY <1>2 DEF Numbered
<1> QED
  BY <1>1, <1>2, <1>3

LEMMA NumberedNext == AccountsTypeInv /\ Numbered /\ [Store!Next]_Store!vars => Numbered'
<1> SUFFICES ASSUME AccountsTypeInv, Numbered, [Store!Next]_Store!vars, NEW a \in attempts'
             PROVE  a.no <= Cardinality(Store!Attempts(a.user)')
  BY DEF Numbered
<1> DEFINE A == Store!Attempts(a.user)
           B == Store!Attempts(a.user)'
<1>1. IsFiniteSet(A) /\ Cardinality(A) \in Nat
  BY AttemptsAreFinite
<1>2. ASSUME NEW q \in Handlers, Store!Claim(q), attempts' # attempts
      PROVE  a.no <= Cardinality(B)
  <2> DEFINE v == request[q].user
             new == Store!Attempt(v)
  <2>1. attempts' = attempts \cup {new}
    BY <1>2 DEF Store!Claim
  <2>2. v \in Users
    BY <1>2 DEF Store!Claim, AccountsTypeInv, Addressed, Complete
  <2>3. new \notin attempts
    BY <2>2, AttemptIsNew
  <2>4. CASE a = new
    <3>1. new.user = v /\ new.no = Cardinality(Store!Attempts(v)) + 1
      BY SameCount DEF Store!Attempt
    <3>2. B = A \cup {new} /\ new \notin A
      BY <2>1, <2>3, <2>4, <3>1 DEF Store!Attempts
    <3>3. a.no = Cardinality(A) + 1
      BY <2>4, <3>1
    <3> HIDE DEF A, B, new
    <3>4. Cardinality(B) = Cardinality(A) + 1
      BY <1>1, <3>2, FS_AddElement, Zenon
    <3> QED
      BY <1>1, <3>3, <3>4
  <2>5. CASE a # new
    <3>1. a.no <= Cardinality(A) /\ a.no \in Nat
      BY <2>1, <2>5 DEF Numbered, AccountsTypeInv, Store!TypeOK
    <3>2. A \subseteq B
      BY <2>1 DEF Store!Attempts
    <3>3. B \subseteq A \cup {new}
      BY <2>1 DEF Store!Attempts
    <3> HIDE DEF A, B, new
    <3>4. IsFiniteSet(A \cup {new})
      BY <1>1, FS_AddElement
    <3>5. IsFiniteSet(B)
      BY <3>3, <3>4, FS_Subset
    <3>6. Cardinality(A) <= Cardinality(B) /\ Cardinality(B) \in Nat
      BY <3>2, <3>5, FS_Subset, FS_CardinalityType
    <3> QED
      BY <1>1, <3>1, <3>6
  <2> QED
    BY <2>4, <2>5
<1>3. ASSUME UNCHANGED attempts PROVE a.no <= Cardinality(B)
  BY <1>3 DEF Numbered, Store!Attempts
<1> QED
  BY <1>2, <1>3
  DEF Store!Next, Store!Ask, Store!Admit, Store!Enter, Store!Signup, Store!SignupInsert, Store!Login,
      Store!CreateSession, Store!Write, Store!Erase, Store!Logout, Store!Tick, Store!vars

\* Every attempt that is let through adds one to what later ones count: an attempt
\* recorded is never one that was there.
THEOREM AttemptsAreCounted == AccountsSpec => []Numbered
<1>1. Store!Init => Numbered
  BY DEF Store!Init, Numbered
<1> QED
  BY <1>1, AccountsTypeInit, AccountsTypeNext, NumberedNext, AccountsAlone, PTL DEF Store!Spec

=============================================================================
