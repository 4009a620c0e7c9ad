----------------------------- MODULE Agent_proofs -----------------------------
EXTENDS MCAgent, SequenceTheorems, FiniteSetTheorems, WellFoundedInduction, TLAPS

(***************************************************************************)
(* Plans.  Union2 appends one tool after the other; what holds of a list   *)
(* and one more tool gives, five times, what holds of the union.           *)
(***************************************************************************)

Distinct(s) == \A i, j \in 1..Len(s) : s[i] = s[j] => i = j

LEMMA ToSetOfSeq ==
  ASSUME NEW S, NEW s \in Seq(S)
  PROVE  ToSet(s) = {s[i] : i \in 1..Len(s)} /\ ToSet(s) \subseteq S
BY DEF ToSet

LEMMA OneMore ==
  ASSUME NEW S, NEW s \in Seq(S), NEW x \in S
  PROVE  /\ s \o <<x>> \in Seq(S) /\ ToSet(s \o <<x>>) = ToSet(s) \cup {x}
         /\ Len(s \o <<x>>) = Len(s) + 1 /\ (s \o <<x>>)[Len(s) + 1] = x
         /\ \A i \in 1..Len(s) : (s \o <<x>>)[i] = s[i]
         /\ Distinct(s) /\ x \notin ToSet(s) => Distinct(s \o <<x>>)
<1> DEFINE t == s \o <<x>>
<1>1. /\ t \in Seq(S) /\ Len(t) = Len(s) + 1 /\ t[Len(s) + 1] = x
      /\ \A i \in 1..Len(s) : t[i] = s[i]
  OBVIOUS
<1>2. ToSet(s) = {s[i] : i \in 1..Len(s)} /\ ToSet(t) = {t[i] : i \in 1..Len(t)}
  BY <1>1, ToSetOfSeq
<1> HIDE DEF t
<1>3. ToSet(t) = ToSet(s) \cup {x}
  BY <1>1, <1>2
<1>4. ASSUME Distinct(s), x \notin ToSet(s) PROVE Distinct(t)
  BY <1>1, <1>2, <1>4 DEF Distinct
<1> QED
  BY <1>1, <1>3, <1>4 DEF t

\* The tools of the first list, and of the second one those before a place.
Before(first, second, n) ==
  ToSet(first) \cup {second[j] : j \in {k \in 1..Len(second) : k < n}}

\* What the tool at place i adds.
LEMMA AddFresh ==
  ASSUME NEW S, NEW first \in Seq(S), NEW second \in Seq(S), Distinct(second),
         NEW p \in Seq(S), Distinct(p), NEW i \in 1..5, NEW n, n = i + 1,
         ToSet(p) = Before(first, second, i)
  PROVE  LET q == p \o Fresh(first, second, i)
         IN  q \in Seq(S) /\ Distinct(q) /\ ToSet(q) = Before(first, second, n)
<1> USE DEF Before
<1> DEFINE q == p \o Fresh(first, second, i)
<1>1. CASE i \in 1..Len(second) /\ second[i] \notin ToSet(first)
  <2>1. q = p \o <<second[i]>> /\ second[i] \in S
    BY <1>1 DEF Fresh
  <2>2. second[i] \notin ToSet(p)
    BY <1>1 DEF Distinct
  <2>3. q \in Seq(S) /\ Distinct(q) /\ ToSet(q) = ToSet(p) \cup {second[i]}
    BY <2>1, <2>2, OneMore
  <2> HIDE DEF q
  <2> QED
    BY <1>1, <2>3 DEF q
<1>2. CASE i \in 1..Len(second) /\ second[i] \in ToSet(first)
  <2>1. q = p
    BY <1>2 DEF Fresh
  <2>2. Before(first, second, n) = Before(first, second, i)
    BY <1>2
  <2> QED
    BY <2>1, <2>2
<1>3. CASE i \notin 1..Len(second)
  <2>1. q = p
    BY <1>3 DEF Fresh
  <2>2. Before(first, second, n) = Before(first, second, i)
    BY <1>3
  <2> QED
    BY <2>1, <2>2
<1> QED
  BY <1>1, <1>2, <1>3

\* The union has the tools of both lists, each of them once.
LEMMA UnionOfTwo ==
  ASSUME NEW S, NEW first \in Seq(S), Distinct(first),
         NEW second \in Seq(S), Distinct(second), Len(second) <= 5
  PROVE  /\ Union2(first, second) \in Seq(S) /\ Distinct(Union2(first, second))
         /\ ToSet(Union2(first, second)) = ToSet(first) \cup ToSet(second)
<1> DEFINE p1 == first \o Fresh(first, second, 1)
           p2 == p1 \o Fresh(first, second, 2)
           p3 == p2 \o Fresh(first, second, 3)
           p4 == p3 \o Fresh(first, second, 4)
           p5 == p4 \o Fresh(first, second, 5)
<1>0. ToSet(first) = Before(first, second, 1)
  BY DEF Before
<1>1. p1 \in Seq(S) /\ Distinct(p1) /\ ToSet(p1) = Before(first, second, 2)
  BY <1>0, AddFresh
<1>2. p2 \in Seq(S) /\ Distinct(p2) /\ ToSet(p2) = Before(first, second, 3)
  <2> HIDE DEF p1
  <2> QED
    BY <1>1, AddFresh
<1>3. p3 \in Seq(S) /\ Distinct(p3) /\ ToSet(p3) = Before(first, second, 4)
  <2> HIDE DEF p2
  <2> QED
    BY <1>2, AddFresh
<1>4. p4 \in Seq(S) /\ Distinct(p4) /\ ToSet(p4) = Before(first, second, 5)
  <2> HIDE DEF p3
  <2> QED
    BY <1>3, AddFresh
<1>5. p5 \in Seq(S) /\ Distinct(p5) /\ ToSet(p5) = Before(first, second, 6)
  <2> HIDE DEF p4
  <2> QED
    BY <1>4, AddFresh
<1>6. Union2(first, second) = p5
  BY DEF Union2
<1>7. Before(first, second, 6) = ToSet(first) \cup ToSet(second)
  BY ToSetOfSeq DEF Before
<1> QED
  BY <1>5, <1>6, <1>7

\* What is planned for a question: the closing tools come after the evidence, if they
\* are none of it.
LEMMA UnionWithClosing ==
  ASSUME NEW first \in Seq(PlannableTools)
  PROVE  Union2(first, TrailingTools) = first \o TrailingTools
<1>1. ToSet(first) \subseteq PlannableTools
  BY ToSetOfSeq
<1>2. /\ DOMAIN TrailingTools = 1..4
      /\ \A i \in 1..4 : TrailingTools[i] \notin ToSet(first)
  BY <1>1 DEF TrailingTools, PlannableTools
<1>3. Union2(first, TrailingTools) =
        first \o <<TrailingTools[1]>> \o <<TrailingTools[2]>> \o <<TrailingTools[3]>> \o <<TrailingTools[4]>>
          \o <<>>
  <2>1. /\ Fresh(first, TrailingTools, 1) = <<TrailingTools[1]>>
        /\ Fresh(first, TrailingTools, 2) = <<TrailingTools[2]>>
        /\ Fresh(first, TrailingTools, 3) = <<TrailingTools[3]>>
        /\ Fresh(first, TrailingTools, 4) = <<TrailingTools[4]>>
        /\ Fresh(first, TrailingTools, 5) = <<>>
    BY <1>2 DEF Fresh
  <2> QED
    BY <2>1, ZenonT(40) DEF Union2
<1> DEFINE S == PlannableTools \cup {TrailingTools[i] : i \in 1..4}
           p1 == first \o <<TrailingTools[1]>>
           p2 == p1 \o <<TrailingTools[2]>>
           p3 == p2 \o <<TrailingTools[3]>>
           p4 == p3 \o <<TrailingTools[4]>>
           q == first \o TrailingTools
           n == Len(first)
<1>4. first \in Seq(S) /\ TrailingTools \in Seq(S) /\ Len(TrailingTools) = 4
  BY DEF TrailingTools
<1>5. \A i \in 1..4 : TrailingTools[i] \in S
  OBVIOUS
<1> HIDE DEF S
<1>6. /\ p1 \in Seq(S) /\ Len(p1) = n + 1 /\ p1[n + 1] = TrailingTools[1]
      /\ \A i \in 1..n : p1[i] = first[i]
  BY <1>4, <1>5, OneMore
<1>7. /\ p2 \in Seq(S) /\ Len(p2) = n + 2 /\ p2[n + 2] = TrailingTools[2]
      /\ \A i \in 1..(n + 1) : p2[i] = p1[i]
  <2> HIDE DEF p1
  <2> QED
    BY <1>4, <1>5, <1>6, OneMore
<1>8. /\ p3 \in Seq(S) /\ Len(p3) = n + 3 /\ p3[n + 3] = TrailingTools[3]
      /\ \A i \in 1..(n + 2) : p3[i] = p2[i]
  <2> HIDE DEF p2
  <2> QED
    BY <1>4, <1>5, <1>7, OneMore
<1>9. /\ p4 \in Seq(S) /\ Len(p4) = n + 4 /\ p4[n + 4] = TrailingTools[4]
      /\ \A i \in 1..(n + 3) : p4[i] = p3[i]
  <2> HIDE DEF p3
  <2> QED
    BY <1>4, <1>5, <1>8, OneMore
<1>10. /\ q \in Seq(S) /\ Len(q) = n + 4
       /\ \A i \in 1..n : q[i] = first[i]
       /\ \A i \in 1..4 : q[n + i] = TrailingTools[i]
  <2>1. /\ q \in Seq(S) /\ Len(q) = n + 4
        /\ \A i \in 1..(n + 4) : q[i] = IF i <= n THEN first[i] ELSE TrailingTools[i - n]
    <3> DEFINE r == TrailingTools
    <3>1. first \in Seq(S) /\ r \in Seq(S) /\ Len(r) = 4
      BY <1>4
    <3> HIDE DEF r
    <3>2. /\ first \o r \in Seq(S) /\ Len(first \o r) = Len(first) + Len(r)
          /\ \A i \in 1..(Len(first) + Len(r)) :
               (first \o r)[i] = IF i <= Len(first) THEN first[i] ELSE r[i - Len(first)]
      BY <3>1, ConcatProperties
    <3> QED
      BY <3>1, <3>2 DEF r
  <2>2. n \in Nat
    BY <1>4
  <2> HIDE DEF q, n
  <2> QED
    BY <2>1, <2>2
<1>11. n \in Nat
  BY <1>4
<1>12. p4 = q
  <2> HIDE DEF p1, p2, p3, p4, q, n
  <2>1. \A i \in 1..Len(p4) : p4[i] = q[i]
    BY <1>6, <1>7, <1>8, <1>9, <1>10, <1>11
  <2> QED
    BY <1>9, <1>10, <2>1, SeqEqual
<1>13. p4 \o <<>> = p4
  BY <1>9, ConcatEmptySeq
<1> QED
  BY <1>3, <1>12, <1>13

LEMMA RulesAreLists ==
  \A i \in 1..6 : /\ FallbackRules[i] \in Seq(PlannableTools) /\ Distinct(FallbackRules[i])
                  /\ Len(FallbackRules[i]) >= 1 /\ Len(FallbackRules[i]) <= 4
<1> SUFFICES ASSUME NEW i \in 1..6
             PROVE  /\ FallbackRules[i] \in Seq(PlannableTools) /\ Distinct(FallbackRules[i])
                    /\ Len(FallbackRules[i]) >= 1 /\ Len(FallbackRules[i]) <= 4
  OBVIOUS
<1>1. CASE i = 1
  BY <1>1 DEF FallbackRules, PlannableTools, Distinct
<1>2. CASE i = 2
  BY <1>2 DEF FallbackRules, PlannableTools, Distinct
<1>3. CASE i = 3
  BY <1>3 DEF FallbackRules, PlannableTools, Distinct
<1>4. CASE i = 4
  BY <1>4 DEF FallbackRules, PlannableTools, Distinct
<1>5. CASE i = 5
  BY <1>5 DEF FallbackRules, PlannableTools, Distinct
<1>6. CASE i = 6
  BY <1>6 DEF FallbackRules, PlannableTools, Distinct
<1> QED
  BY <1>1, <1>2, <1>3, <1>4, <1>5, <1>6

\* The plan of the rules fired is not empty, and has each tool once.
LEMMA RulePlanIsList ==
  ASSUME NEW fired \in SUBSET (1..6)
  PROVE  /\ RulePlan[fired] \in Seq(PlannableTools) /\ Distinct(RulePlan[fired])
         /\ ToSet(RulePlan[fired]) # {}
<1> DEFINE Selected(p, i) == IF i \in fired THEN Union2(p, FallbackRules[i]) ELSE p
           Good(p) == p \in Seq(PlannableTools) /\ Distinct(p)
           p1 == Selected(<<>>, 1)
           p2 == Selected(p1, 2)
           p3 == Selected(p2, 3)
           p4 == Selected(p3, 4)
           p5 == Selected(p4, 5)
           p6 == Selected(p5, 6)
<1>0. Good(<<>>)
  BY DEF Distinct
<1>1. \A p : \A i \in 1..6 : Good(p) => /\ Good(Selected(p, i)) 
                                        /\ ToSet(p) \subseteq ToSet(Selected(p, i))
                                        /\ i \in fired => ToSet(Selected(p, i)) # {}
  <2> SUFFICES ASSUME NEW p, NEW i \in 1..6, Good(p), i \in fired
               PROVE  /\ Good(Selected(p, i)) /\ ToSet(p) \subseteq ToSet(Selected(p, i))
                      /\ ToSet(Selected(p, i)) # {}
    OBVIOUS
  <2> DEFINE r == FallbackRules[i]
  <2>1. r \in Seq(PlannableTools) /\ Distinct(r) /\ Len(r) >= 1 /\ Len(r) <= 4
    BY RulesAreLists
  <2> HIDE DEF r
  <2>a. p \in Seq(PlannableTools) /\ Distinct(p)
    OBVIOUS
  <2>2. Good(Union2(p, r)) /\ ToSet(Union2(p, r)) = ToSet(p) \cup ToSet(r)
    BY <2>1, <2>a, UnionOfTwo
  <2>3. r[1] \in ToSet(r)
    BY <2>1, ToSetOfSeq
  <2> QED
    BY <2>2, <2>3 DEF r
<1> HIDE DEF Selected, Good
<1>2. Good(p1) /\ (1 \in fired => ToSet(p1) # {})
  BY <1>0, <1>1
<1>3. Good(p2) /\ ToSet(p1) \subseteq ToSet(p2) /\ (2 \in fired => ToSet(p2) # {})
  <2> HIDE DEF p1
  <2> QED
    BY <1>1, <1>2
<1>4. Good(p3) /\ ToSet(p2) \subseteq ToSet(p3) /\ (3 \in fired => ToSet(p3) # {})
  <2> HIDE DEF p2
  <2> QED
    BY <1>1, <1>3
<1>5. Good(p4) /\ ToSet(p3) \subseteq ToSet(p4) /\ (4 \in fired => ToSet(p4) # {})
  <2> HIDE DEF p3
  <2> QED
    BY <1>1, <1>4
<1>6. Good(p5) /\ ToSet(p4) \subseteq ToSet(p5) /\ (5 \in fired => ToSet(p5) # {})
  <2> HIDE DEF p4
  <2> QED
    BY <1>1, <1>5
<1>7. Good(p6) /\ ToSet(p5) \subseteq ToSet(p6) /\ (6 \in fired => ToSet(p6) # {})
  <2> HIDE DEF p5
  <2> QED
    BY <1>1, <1>6
<1>8. CASE fired = {}
  <2> DEFINE p == <<"market_data_tool">>
  <2>1. RulePlan[fired] = p
    BY <1>8 DEF RulePlan
  <2>2. p \in Seq(PlannableTools) /\ Len(p) = 1
    BY DEF PlannableTools
  <2>3. Distinct(p)
    BY <2>2 DEF Distinct
  <2>4. ToSet(p) = {p[i] : i \in 1..Len(p)}
    BY <2>2, ToSetOfSeq
  <2> HIDE DEF p
  <2>5. p[1] \in ToSet(p)
    BY <2>2, <2>4
  <2> QED
    BY <2>1, <2>2, <2>3, <2>5
<1>9. CASE fired # {}
  <2>1. RulePlan[fired] = p6
    BY <1>9 DEF RulePlan, Selected
  <2>2. PICK i \in 1..6 : i \in fired
    BY <1>9
  <2> HIDE DEF p1, p2, p3, p4, p5, p6
  <2>3. ToSet(p6) # {}
    BY <1>2, <1>3, <1>4, <1>5, <1>6, <1>7, <2>2
  <2> QED
    BY <1>7, <2>1, <2>3 DEF Good
<1> QED
  BY <1>8, <1>9

\* There are five tools to plan.
LEMMA AtMostFive ==
  ASSUME NEW s \in Seq(PlannableTools), Distinct(s)
  PROVE  Len(s) <= 5
<1> SUFFICES ASSUME Len(s) >= 6 PROVE FALSE
  OBVIOUS
<1>1. \A i \in 1..6 : s[i] \in PlannableTools
  OBVIOUS
<1>2. \A i, j \in 1..6 : s[i] = s[j] => i = j
  BY DEF Distinct
<1>3. /\ s[1] \in PlannableTools /\ s[2] \in PlannableTools /\ s[3] \in PlannableTools
      /\ s[4] \in PlannableTools /\ s[5] \in PlannableTools /\ s[6] \in PlannableTools
  BY <1>1
<1>4. /\ s[1] # s[2] /\ s[1] # s[3] /\ s[1] # s[4] /\ s[1] # s[5] /\ s[1] # s[6]
      /\ s[2] # s[3] /\ s[2] # s[4] /\ s[2] # s[5] /\ s[2] # s[6]
      /\ s[3] # s[4] /\ s[3] # s[5] /\ s[3] # s[6]
      /\ s[4] # s[5] /\ s[4] # s[6] /\ s[5] # s[6]
  BY <1>2
<1> QED
  BY <1>3, <1>4 DEF PlannableTools

OnComparison == IF question.mode = "comparison" THEN <<"comparison_tool">> ELSE <<>>
EvidenceFor(proposal) == Union2(CreatePlan(proposal), OnComparison)

\* Whatever the model proposes, the evidence planned has each tool once and covers
\* what the question demands, which is never nothing.
LEMMA EvidencePlanned ==
  ASSUME question.fired \in SUBSET (1..6), NEW proposal \in Proposals
  PROVE  /\ EvidenceFor(proposal) \in Seq(PlannableTools) /\ Distinct(EvidenceFor(proposal))
         /\ Demanded \subseteq ToSet(EvidenceFor(proposal)) /\ Demanded # {}
<1> DEFINE r == RulePlan[question.fired]
           c == CreatePlan(proposal)
           e == EvidenceFor(proposal)
<1>1. proposal \in Seq(PlannableTools) /\ Distinct(proposal)
  BY CountsAssumption DEF Proposals, Distinct
<1>2. r \in Seq(PlannableTools) /\ Distinct(r) /\ ToSet(r) # {}
  BY RulePlanIsList
<1> HIDE DEF r
<1>3. Len(r) <= 5
  BY <1>2, AtMostFive
<1>4. /\ c \in Seq(PlannableTools) /\ Distinct(c)
      /\ ToSet(c) = ToSet(proposal) \cup ToSet(r)
  BY <1>1, <1>2, <1>3, UnionOfTwo DEF CreatePlan, r
<1> HIDE DEF c
<1>5. /\ OnComparison \in Seq(PlannableTools) /\ Distinct(OnComparison) /\ Len(OnComparison) <= 5
      /\ ToSet(OnComparison) = IF question.mode = "comparison" THEN {"comparison_tool"} ELSE {}
  <2>1. CASE question.mode = "comparison"
    <3> DEFINE s == <<"comparison_tool">>
    <3>1. s \in Seq(PlannableTools) /\ Len(s) = 1 /\ s[1] = "comparison_tool"
      BY DEF PlannableTools
    <3>2. OnComparison = s
      BY <2>1 DEF OnComparison
    <3> HIDE DEF s
    <3>3. ToSet(s) = {"comparison_tool"}
      BY <3>1, ToSetOfSeq
    <3>4. Distinct(s)
      BY <3>1 DEF Distinct
    <3> QED
      BY <2>1, <3>1, <3>2, <3>3, <3>4
  <2>2. CASE question.mode # "comparison"
    BY <2>2 DEF OnComparison, Distinct, ToSet
  <2> QED
    BY <2>1, <2>2
<1>6. /\ e \in Seq(PlannableTools) /\ Distinct(e)
      /\ ToSet(e) = ToSet(c) \cup ToSet(OnComparison)
  BY <1>4, <1>5, UnionOfTwo DEF EvidenceFor, c
<1>7. Demanded = ToSet(r) \cup ToSet(OnComparison)
  BY <1>5 DEF Demanded, r
<1> QED
  BY <1>2, <1>4, <1>6, <1>7

(***************************************************************************)
(* Tools: what a context keeps of its type, and what each leaves alone.    *)
(***************************************************************************)

Outcomes == [ok : BOOLEAN, context : Contexts]

\* The parts of a context that FinSight's rating is derived from.
SameBasis(c, d) ==
  d.valuation = c.valuation /\ d.sentiment = c.sentiment /\ d.news = c.news

LEMMA Ends ==
  \A c : /\ Ok(c).ok = TRUE /\ Ok(c).context = c
         /\ Raise(c).ok = FALSE /\ Raise(c).context = c
         /\ c \in Contexts => Ok(c) \in Outcomes /\ Raise(c) \in Outcomes
BY DEF Ok, Raise, Outcomes

\* A rating is one, and the quality of a signal is typed.
LEMMA RatingType ==
  \A c \in Contexts : Recommended(c).rating \in Ratings /\ ReportData(c) \in Reports
<1> SUFFICES ASSUME NEW c \in Contexts
             PROVE  Recommended(c).rating \in Ratings /\ ReportData(c) \in Reports
  OBVIOUS
<1>1. \A v, labels : DeriveRecommendation(v, labels).rating \in Ratings
  BY DEF DeriveRecommendation, RatingFromScore, FallbackRating, Ratings, Calls
<1>2. Recommended(c).rating \in Ratings
  BY <1>1 DEF Recommended
<1>3. c.score \in (0..100) \cup {Missing}
  BY ReadingsAssumption DEF Contexts
<1>4. \A r, s : s \in (0..100) \cup {Missing} =>
        /\ SignalQuality(r, s).label \in {"LOW", "MEDIUM", "HIGH"}
        /\ SignalQuality(r, s).confidence \in (0..100) \cup {Missing}
  BY DEF SignalQuality, QualityLow, QualityHigh, DisagreementPenalty
<1> QED
  BY <1>2, <1>3, <1>4 DEF ReportData, Reports

\* A profile is put on a context without disturbing the other parts.
LEMMA PutProfile ==
  ASSUME NEW c \in Contexts, NEW i \in {"none", "blank", "known"}, NEW d, d = [c EXCEPT !.info = i]
  PROVE  /\ d \in Contexts /\ SameBasis(c, d)
         /\ d.consensus = c.consensus /\ d.report = c.report
         /\ d.info = i /\ d.financials = c.financials
BY DEF Contexts, SameBasis

LEMMA PutStatements ==
  ASSUME NEW c \in Contexts, NEW d, d = [c EXCEPT !.info = "known", !.financials = TRUE]
  PROVE  /\ d \in Contexts /\ SameBasis(c, d)
         /\ d.consensus = c.consensus /\ d.report = c.report
BY DEF Contexts, SameBasis

LEMMA PutScoredPdf ==
  ASSUME NEW c \in Contexts, NEW d, d = [c EXCEPT !.pdf = "scored", !.logged = TRUE]
  PROVE  /\ d \in Contexts /\ SameBasis(c, d)
         /\ d.consensus = c.consensus /\ d.report = c.report
         /\ d.info = c.info /\ d.financials = c.financials
BY DEF Contexts, SameBasis

LEMMA MarketDataType ==
  ASSUME NEW c \in Contexts, NEW r \in MarketData(c)
  PROVE  /\ r \in Outcomes /\ SameBasis(c, r.context)
         /\ r.context.consensus = c.consensus /\ r.context.report = c.report
         /\ ~question.listed => ~r.ok /\ r.context.info # "known" /\ r.context.financials = c.financials
<1>1. CASE r = Raise([c EXCEPT !.info = "blank"])
  BY <1>1, PutProfile DEF Raise, Outcomes
<1>2. CASE question.listed /\ r = Raise([c EXCEPT !.info = "known"])
  BY <1>2, PutProfile DEF Raise, Outcomes
<1>3. CASE question.listed /\ r = Ok([c EXCEPT !.info = "known", !.financials = TRUE])
  BY <1>3, PutStatements DEF Ok, Outcomes
<1> QED
  BY <1>1, <1>2, <1>3 DEF MarketData

\* A ticker that does not exist: no profile, no statements.
Unknown(c) == c.info # "known" /\ c.financials = FALSE

LEMMA ValuationType ==
  ASSUME NEW c \in Contexts, NEW r \in Valuation(c)
  PROVE  /\ r \in Outcomes
         /\ r.context.consensus = c.consensus /\ r.context.report = c.report
         /\ ~question.listed /\ Unknown(c) =>
              Unknown(r.context) /\ r.context.valuation = c.valuation
<1> DEFINE first == IF c.financials THEN {Ok(c)} ELSE MarketData(c)
           Kept(x) == /\ x \in Outcomes
                      /\ x.context.consensus = c.consensus /\ x.context.report = c.report
                      /\ ~question.listed /\ Unknown(c) =>
                           ~x.ok /\ Unknown(x.context) /\ x.context.valuation = c.valuation
           Stores(x, v) == \/ r = Ok([x.context EXCEPT !.valuation = v])
                           \/ r = Raise([x.context EXCEPT !.valuation = v])
<1>1. ASSUME NEW x \in first PROVE Kept(x)
  <2>1. CASE c.financials
    <3>1. x.ok = TRUE /\ x.context = c /\ x \in Outcomes
      BY <1>1, <2>1, Ends
    <3> QED
      BY <2>1, <3>1 DEF Unknown
  <2>2. CASE ~c.financials
    BY <1>1, <2>2, MarketDataType DEF Unknown, SameBasis
  <2> QED
    BY <2>1, <2>2
<1> HIDE DEF first
<1>2. \/ r \in {x \in first : ~x.ok}
      \/ \E x \in first : /\ x.ok
                          /\ \/ r = Raise(x.context)
                             \/ \E v \in Valuations : Stores(x, v)
  BY SMTT(30) DEF Valuation, After, first
<1>3. CASE r \in first /\ ~r.ok
  BY <1>1, <1>3
<1>4. ASSUME NEW x \in first, x.ok, r = Raise(x.context) PROVE Kept(r)
  <2>1. Kept(x) /\ x.context \in Contexts
    BY <1>1 DEF Outcomes
  <2> QED
    BY <1>4, <2>1, Ends
<1>5. ASSUME NEW x \in first, x.ok, NEW v \in Valuations, Stores(x, v)
      PROVE  /\ r \in Outcomes /\ (question.listed \/ ~Unknown(c))
             /\ r.context.consensus = c.consensus /\ r.context.report = c.report
  <2>1. Kept(x) /\ x.context \in Contexts
    BY <1>1 DEF Outcomes
  <2> DEFINE d == [x.context EXCEPT !.valuation = v]
  <2>2. d \in Contexts /\ d.consensus = x.context.consensus /\ d.report = x.context.report
    BY <2>1 DEF Contexts
  <2> HIDE DEF d
  <2>3. r.context = d /\ r \in Outcomes
    BY <1>5, <2>2, Ends DEF d
  <2> QED
    BY <1>5, <2>1, <2>2, <2>3
<1>6. CASE \E x \in first : x.ok /\ r = Raise(x.context)
  BY <1>4, <1>6
<1>7. CASE \E x \in first : x.ok /\ \E v \in Valuations : Stores(x, v)
  <2>1. PICK x \in first : x.ok /\ \E v \in Valuations : Stores(x, v)
    BY <1>7
  <2>2. PICK v \in Valuations : Stores(x, v)
    BY <2>1
  <2>3. /\ r \in Outcomes /\ (question.listed \/ ~Unknown(c))
        /\ r.context.consensus = c.consensus /\ r.context.report = c.report
    BY <1>5, <2>1, <2>2
  <2> QED
    BY <2>3
<1> QED
  BY <1>2, <1>3, <1>6, <1>7

LEMMA RagType ==
  ASSUME NEW c \in Contexts, NEW r \in Rag(c)
  PROVE  /\ r \in Outcomes /\ SameBasis(c, r.context)
         /\ r.context.consensus = c.consensus /\ r.context.report = c.report
         /\ Unknown(c) => Unknown(r.context)
<1> DEFINE d == [c EXCEPT !.chunks = TRUE]
<1>1. /\ d \in Contexts /\ SameBasis(c, d) /\ d.consensus = c.consensus /\ d.report = c.report
      /\ d.info = c.info /\ d.financials = c.financials
  BY DEF Contexts, SameBasis
<1>2. r = Raise(c) \/ r = Ok(c) \/ r = Ok(d)
  BY DEF Rag
<1> HIDE DEF d
<1> QED
  BY <1>1, <1>2, Ends DEF SameBasis, Unknown

LEMMA SentimentType ==
  ASSUME NEW c \in Contexts, NEW r \in Sentiment(c)
  PROVE  /\ r \in Outcomes /\ r.context.valuation = c.valuation
         /\ r.context.consensus = c.consensus /\ r.context.report = c.report
         /\ Unknown(c) => Unknown(r.context)
<1> DEFINE first == IF c.chunks THEN {Ok(c)} ELSE Rag(c)
           Kept(x) == /\ x \in Outcomes /\ x.context.valuation = c.valuation
                      /\ x.context.consensus = c.consensus /\ x.context.report = c.report
                      /\ Unknown(c) => Unknown(x.context)
<1>1. ASSUME NEW x \in first PROVE Kept(x)
  <2>1. CASE c.chunks
    BY <1>1, <2>1, Ends
  <2>2. CASE ~c.chunks
    BY <1>1, <2>2, RagType DEF SameBasis
  <2> QED
    BY <2>1, <2>2
<1> HIDE DEF first
<1>2. \/ r \in first
      \/ \E x \in first : r = Raise(x.context) \/ r = Ok(x.context)
      \/ \E x \in first, l \in Labels : r = Ok([x.context EXCEPT !.sentiment = l])
  BY DEF Sentiment, After, first
<1>3. ASSUME NEW x \in first, r = Raise(x.context) \/ r = Ok(x.context) PROVE Kept(r)
  <2>1. Kept(x) /\ x.context \in Contexts
    BY <1>1 DEF Outcomes
  <2> QED
    BY <1>3, <2>1, Ends
<1>4. ASSUME NEW x \in first, NEW l \in Labels, r = Ok([x.context EXCEPT !.sentiment = l])
      PROVE  Kept(r)
  <2>1. Kept(x) /\ x.context \in Contexts
    BY <1>1 DEF Outcomes
  <2> DEFINE d == [x.context EXCEPT !.sentiment = l]
  <2>2. /\ d \in Contexts /\ d.consensus = x.context.consensus /\ d.report = x.context.report
        /\ d.valuation = x.context.valuation
        /\ d.info = x.context.info /\ d.financials = x.context.financials
    BY <2>1 DEF Contexts
  <2> HIDE DEF d
  <2>3. r.context = d /\ r \in Outcomes
    BY <1>4, <2>2, Ends DEF d
  <2> QED
    BY <2>1, <2>2, <2>3 DEF Unknown
<1> HIDE DEF Kept
<1>5. Kept(r)
  BY <1>1, <1>2, <1>3, <1>4
<1> QED
  BY <1>5 DEF Kept

\* The evidence tools and the news: no rating is made or changed.
EvidenceTools == PlannableTools \cup {"news_tool"}

LEMMA EvidenceType ==
  ASSUME NEW c \in Contexts, NEW t \in EvidenceTools, NEW r \in ToolResults(t, c)
  PROVE  /\ r \in Outcomes
         /\ r.context.consensus = c.consensus /\ r.context.report = c.report
         /\ ~question.listed /\ Unknown(c) =>
              Unknown(r.context) /\ r.context.valuation = c.valuation
<1>1. CASE t = "market_data_tool"
  BY <1>1, MarketDataType DEF ToolResults, Unknown, SameBasis
<1>2. CASE t = "valuation_tool"
  BY <1>2, ValuationType DEF ToolResults
<1>3. CASE t = "rag_tool"
  BY <1>3, RagType DEF ToolResults, SameBasis
<1>4. CASE t = "sentiment_tool"
  BY <1>4, SentimentType DEF ToolResults
<1>5. CASE t = "comparison_tool"
  <2> DEFINE d == [c EXCEPT !.summary = "comparison"]
  <2>1. /\ d \in Contexts /\ d.consensus = c.consensus /\ d.report = c.report
        /\ d.valuation = c.valuation /\ d.info = c.info /\ d.financials = c.financials
    BY DEF Contexts
  <2>2. r = Raise(c) \/ r = Ok(c) \/ r = Ok(d)
    BY <1>5 DEF ToolResults, Comparison
  <2> HIDE DEF d
  <2> QED
    BY <2>1, <2>2, Ends DEF Unknown
<1>6. CASE t = "news_tool"
  <2>1. r = Raise(c) \/ \E l \in Labels \cup {Missing} : r = Ok([c EXCEPT !.news = l])
    BY <1>6 DEF ToolResults, News
  <2>2. ASSUME NEW l \in Labels \cup {Missing}
        PROVE  LET d == [c EXCEPT !.news = l]
               IN  /\ d \in Contexts /\ d.consensus = c.consensus /\ d.report = c.report
                   /\ d.valuation = c.valuation /\ d.info = c.info /\ d.financials = c.financials
    BY DEF Contexts
  <2>3. CASE r = Raise(c)
    BY <2>3, Ends
  <2>4. ASSUME NEW l \in Labels \cup {Missing}, r = Ok([c EXCEPT !.news = l])
        PROVE  /\ r \in Outcomes
               /\ r.context.consensus = c.consensus /\ r.context.report = c.report
               /\ r.context.valuation = c.valuation
               /\ r.context.info = c.info /\ r.context.financials = c.financials
    BY <2>2, <2>4, Ends
  <2> QED
    BY <2>1, <2>3, <2>4 DEF Unknown
<1> QED
  BY <1>1, <1>2, <1>3, <1>4, <1>5, <1>6 DEF EvidenceTools, PlannableTools

\* The consensus tool uses the rating there is at its time, or none.
LEMMA ConsensusType ==
  ASSUME NEW c \in Contexts, NEW r \in ToolResults("institutional_consensus_tool", c)
  PROVE  /\ r \in Outcomes /\ SameBasis(c, r.context) /\ r.context.report = c.report
         /\ r.context.consensus \in {c.consensus, Recommended(c).rating}
         /\ Unknown(c) => Unknown(r.context)
<1> DEFINE d == [c EXCEPT !.consensus = Recommended(c).rating]
<1>1. r = Raise(c) \/ r = Ok(c) \/ (Recommended(c).rating \in Calls /\ r = Ok(d))
  BY DEF ToolResults, Consensus
<1>2. Recommended(c).rating \in Calls =>
        /\ d \in Contexts /\ SameBasis(c, d) /\ d.report = c.report
        /\ d.consensus = Recommended(c).rating /\ d.info = c.info /\ d.financials = c.financials
  BY DEF Contexts, SameBasis
<1> HIDE DEF d
<1> QED
  BY <1>1, <1>2, Ends DEF SameBasis, Unknown

\* The report has the rating there is at its time.
LEMMA ReportType ==
  ASSUME NEW c \in Contexts, NEW r \in Report(c)
  PROVE  /\ r \in Outcomes /\ SameBasis(c, r.context) /\ r.context.consensus = c.consensus
         /\ r.context.report.rating = Recommended(c).rating
         /\ Unknown(c) => Unknown(r.context)
<1> DEFINE d == [c EXCEPT !.report = ReportData(c)]
           e == [d EXCEPT !.pdf = "unscored"]
<1>1. /\ d \in Contexts /\ SameBasis(c, d) /\ d.consensus = c.consensus
      /\ d.report = ReportData(c) /\ d.info = c.info /\ d.financials = c.financials
  BY RatingType DEF Contexts, SameBasis
<1>2. /\ e \in Contexts /\ SameBasis(d, e) /\ e.consensus = d.consensus
      /\ e.report = d.report /\ e.info = d.info /\ e.financials = d.financials
  <2> HIDE DEF d
  <2> QED
    BY <1>1 DEF Contexts, SameBasis
<1>3. r = Raise(d) \/ r = Ok(e)
  BY DEF Report
<1>4. ReportData(c).rating = Recommended(c).rating
  BY DEF ReportData
<1> HIDE DEF d, e
<1> QED
  BY <1>1, <1>2, <1>3, <1>4, Ends DEF SameBasis, Unknown

\* The evaluation leaves the ratings alone.
LEMMA EvaluationType ==
  ASSUME NEW c \in Contexts, NEW r \in ToolResults("evaluation_tool", c)
  PROVE  /\ r \in Outcomes /\ SameBasis(c, r.context)
         /\ r.context.consensus = c.consensus /\ r.context.report = c.report
         /\ Unknown(c) => Unknown(r.context)
<1>1. \/ r = Ok(c) \/ r = Raise(c)
      \/ \E s \in Scores : LET d == [c EXCEPT !.score = s]
                           IN  r = Raise(d) \/ r = Ok([d EXCEPT !.pdf = "scored", !.logged = TRUE])
  BY DEF ToolResults, Evaluation
<1>2. ASSUME NEW s \in Scores, NEW d, d = [c EXCEPT !.score = s],
             r = Raise(d) \/ r = Ok([d EXCEPT !.pdf = "scored", !.logged = TRUE])
      PROVE  /\ r \in Outcomes /\ SameBasis(c, r.context)
             /\ r.context.consensus = c.consensus /\ r.context.report = c.report
             /\ Unknown(c) => Unknown(r.context)
  <2> DEFINE e == [d EXCEPT !.pdf = "scored", !.logged = TRUE]
  <2>1. /\ d \in Contexts /\ SameBasis(c, d) /\ d.consensus = c.consensus
        /\ d.report = c.report /\ d.info = c.info /\ d.financials = c.financials
    BY <1>2 DEF Contexts, SameBasis
  <2>2. /\ e \in Contexts /\ SameBasis(d, e) /\ e.consensus = d.consensus
        /\ e.report = d.report /\ e.info = d.info /\ e.financials = d.financials
    BY <2>1, PutScoredPdf
  <2>3. r = Raise(d) \/ r = Ok(e)
    BY <1>2
  <2> HIDE DEF e
  <2> QED
    BY <2>1, <2>2, <2>3, Ends DEF SameBasis, Unknown
<1> QED
  BY <1>1, <1>2, Ends DEF SameBasis

(***************************************************************************)
(* Type correctness, in two parts: the run and the provider.               *)
(***************************************************************************)

Questions == [orchestrator : {"hand_rolled", "langgraph"}, mode : {"single", "comparison"},
              listed : BOOLEAN, fired : SUBSET (1..6)]

RunType ==
  /\ question \in Questions
  /\ pc \in {"start", "planning", "tools", "narrating", "end"}
  /\ plan \in Seq(Tools) /\ step \in Nat /\ node \in Tools \cup {"none", "end"}
  /\ context \in Contexts
  /\ tried \in Seq(Tools) /\ faults \in 0..MaxFaults
  /\ outcome \in [status : {"none", "done", "error"}, rating : Ratings \cup {Missing},
                  tracked : BOOLEAN, usage : Nat \cup {Missing}]

CallType == [phase : {"idle", "sent", "adding", "answered", "failed"},
             attempt : 0..MaxRetries, seen : Nat \cup {Missing}]

ProviderType ==
  /\ usage \in Nat \cup {Missing} /\ spent \in Nat /\ foreign \in 0..MaxForeign
  /\ alone \in BOOLEAN
  /\ call \in [Threads -> CallType]

LEMMA TypeParts == TypeOK <=> RunType /\ ProviderType
BY DEF TypeOK, RunType, ProviderType, Questions, CallType

LEMMA TypeInit == Init => TypeOK
<1> SUFFICES ASSUME Init PROVE RunType /\ ProviderType
  BY TypeParts
<1>1. Blank \in Contexts
  BY DEF Blank, Contexts
<1>2. ProviderType
  BY CountsAssumption DEF Init, ProviderType, NoCall, CallType
<1> QED
  BY <1>1, <1>2, CountsAssumption DEF Init, RunType, NoOutcome, Questions

LEMMA ToolType ==
  ASSUME NEW c \in Contexts, NEW t \in Tools, t # "report_tool", NEW r \in ToolResults(t, c)
  PROVE  r \in Outcomes
<1>1. \/ t \in EvidenceTools \/ t = "institutional_consensus_tool" \/ t = "evaluation_tool"
  BY DEF Tools, EvidenceTools
<1> QED
  BY <1>1, EvidenceType, ConsensusType, EvaluationType

LEMMA AdvanceType ==
  ASSUME RunType, NEW t \in Tools, t \in PlannableTools \/ t \in ToSet(TrailingTools), Advance(t)
  PROVE  step' \in Nat /\ node' \in Tools \cup {"none", "end"}
<1>1. /\ TrailingTools \in Seq(Tools) /\ Len(TrailingTools) = 4 /\ DOMAIN TrailingTools = 1..4
      /\ TrailingTools[1] \in Tools
  BY DEF TrailingTools, Tools
<1>2. CASE question.orchestrator = "hand_rolled" \/ t \in PlannableTools
  <2>1. step' = step + 1 /\ node' = Dispatch(plan, step + 1)
    BY <1>2 DEF Advance
  <2> QED
    BY <1>1, <2>1 DEF RunType, Dispatch
<1>3. CASE ~(question.orchestrator = "hand_rolled" \/ t \in PlannableTools)
  <2> DEFINE i == CHOOSE j \in DOMAIN TrailingTools : TrailingTools[j] = t
  <2>1. \E j \in DOMAIN TrailingTools : TrailingTools[j] = t
    BY <1>3 DEF ToSet
  <2>2. i \in 1..4
    BY <1>1, <2>1
  <2>3. node' = (IF i = Len(TrailingTools) THEN "end" ELSE TrailingTools[i + 1]) /\ step' = step
    BY <1>3 DEF Advance
  <2> HIDE DEF i
  <2>4. \A k \in 1..4 : TrailingTools[k] \in Tools
    BY <1>1
  <2>5. i # 4 => i + 1 \in 1..4
    BY <2>2
  <2> QED
    BY <1>1, <2>3, <2>4, <2>5 DEF RunType
<1> QED
  BY <1>2, <1>3

LEMMA FinishType ==
  ASSUME RunType, NEW t \in Tools, NEW results \in SUBSET Outcomes, Finish(t, results),
         UNCHANGED <<question, plan, outcome>>, pc' = "tools"
  PROVE  RunType'
<1>1. t \in PlannableTools \/ t \in ToSet(TrailingTools)
  BY DEF Tools, ToSet, TrailingTools
<1>2. step' \in Nat /\ node' \in Tools \cup {"none", "end"}
  BY <1>1, AdvanceType DEF Finish
<1>3. context' \in Contexts /\ faults' \in 0..MaxFaults
  <2>1. PICK r \in results :
          /\ context' = r.context
          /\ faults' = faults \/ (faults < MaxFaults /\ faults' = faults + 1)
    BY DEF Finish
  <2> QED
    BY <2>1, CountsAssumption DEF RunType, Outcomes
<1>4. tried' = Append(tried, t)
  BY DEF Finish
<1> QED
  BY <1>2, <1>3, <1>4 DEF RunType

LEMMA TypeNext == TypeOK /\ [Next]_vars => TypeOK'
<1> SUFFICES ASSUME RunType, ProviderType, [Next]_vars PROVE RunType' /\ ProviderType'
  BY TypeParts DEF TypeOK, RunType, ProviderType, Questions, CallType
<1>a. "job" \in Threads /\ Requests \subseteq Threads
  BY DEF Threads
<1>b. /\ NoCall \in CallType /\ Sent \in CallType
      /\ \A phase \in {"answered", "failed"} : [NoCall EXCEPT !.phase = phase] \in CallType
  BY CountsAssumption DEF NoCall, Sent, CallType
<1>c. \A k \in CallType :
        /\ \A n \in 0..MaxRetries : [k EXCEPT !.attempt = n] \in CallType
        /\ [k EXCEPT !.phase = "idle"] \in CallType /\ [k EXCEPT !.phase = "answered"] \in CallType
        /\ \A x \in Nat \cup {Missing} : [k EXCEPT !.phase = "adding", !.seen = x] \in CallType
  BY DEF CallType
<1>1. ASSUME NEW th \in Requests, ForeignCall(th) PROVE RunType' /\ ProviderType'
  <2>1. RunType'
    BY <1>1 DEF ForeignCall, RunType, agentVars
  <2>2. call' \in [Threads -> CallType]
    BY <1>1, <1>a, <1>b DEF ForeignCall, ProviderType
  <2>3. foreign' \in 0..MaxForeign
    BY <1>1, CountsAssumption DEF ForeignCall, ProviderType
  <2> QED
    BY <1>1, <2>1, <2>2, <2>3 DEF ForeignCall, ProviderType
<1>2. ASSUME NEW th \in Threads, CallStep(th) PROVE RunType' /\ ProviderType'
  <2>1. RunType'
    BY <1>2 DEF CallStep, Answer, Account, Retry, GiveUp, RunType, agentVars
  <2>2. ASSUME NEW phase \in {"answered", "failed"}, Return(th, phase)
        PROVE  call' \in [Threads -> CallType]
    BY <2>2, <1>b DEF Return, ProviderType
  <2>3. CASE Answer(th)
    <3>1. call[th] \in CallType /\ usage \in Nat \cup {Missing}
      BY DEF ProviderType
    <3>2. call' \in [Threads -> CallType]
      <4>1. CASE call' = [call EXCEPT ![th].phase = "adding", ![th].seen = usage]
        <5> DEFINE k == [call[th] EXCEPT !.phase = "adding", !.seen = usage]
        <5>1. k \in CallType
          BY <3>1, <1>c
        <5>2. call' = [call EXCEPT ![th] = k]
          BY <4>1 DEF ProviderType
        <5> HIDE DEF k
        <5> QED
          BY <5>1, <5>2 DEF ProviderType
      <4>2. CASE Return(th, "answered")
        BY <2>2, <4>2
      <4> QED
        BY <2>3, <4>1, <4>2 DEF Answer
    <3>3. UNCHANGED <<usage, foreign, alone, spent>>
      BY <2>3 DEF Answer
    <3> QED
      BY <2>1, <3>2, <3>3 DEF ProviderType
  <2>4. CASE Account(th)
    <3>1. usage' \in Nat /\ spent' \in Nat
      <4>1. call[th] \in CallType /\ spent \in Nat
        BY DEF ProviderType
      <4> QED
        BY <2>4, <4>1 DEF Account, CallType
    <3>2. call' \in [Threads -> CallType]
      BY <2>2, <2>4 DEF Account
    <3>3. UNCHANGED <<foreign, alone>>
      BY <2>4 DEF Account
    <3> QED
      BY <2>1, <3>1, <3>2, <3>3 DEF ProviderType
  <2>5. CASE Retry(th)
    <3> DEFINE k == [call[th] EXCEPT !.attempt = call[th].attempt + 1]
    <3>1. call[th] \in CallType
      BY DEF ProviderType
    <3>2. call[th].attempt + 1 \in 0..MaxRetries
      BY <2>5, <3>1, CountsAssumption DEF Retry, CallType
    <3>3. k \in CallType
      BY <3>1, <3>2, <1>c
    <3>4. call' = [call EXCEPT ![th] = k]
      BY <2>5 DEF Retry, ProviderType
    <3>5. UNCHANGED <<usage, foreign, alone, spent>>
      BY <2>5 DEF Retry
    <3> HIDE DEF k
    <3> QED
      BY <2>1, <3>3, <3>4, <3>5 DEF ProviderType
  <2>6. CASE GiveUp(th)
    <3>1. call' \in [Threads -> CallType]
      BY <2>2, <2>6 DEF GiveUp
    <3>2. UNCHANGED <<usage, foreign, alone, spent>>
      BY <2>6 DEF GiveUp
    <3> QED
      BY <2>1, <3>1, <3>2 DEF ProviderType
  <2> QED
    BY <1>2, <2>1, <2>3, <2>4, <2>5, <2>6 DEF CallStep
<1>3. CASE Start
  <2>1. RunType'
    BY <1>3 DEF Start, RunType, agentVars, NoOutcome
  <2>2. call' \in [Threads -> CallType]
    BY <1>3, <1>a, <1>b DEF Start, ProviderType
  <2>3. alone' \in BOOLEAN
    BY <1>3 DEF Start, ProviderType
  <2>4. ProviderType'
    BY <1>3, <2>2, <2>3 DEF Start, ProviderType
  <2> QED
    BY <2>1, <2>4
<1>4. CASE Plan
  <2>1. PICK proposal \in Proposals :
          plan' = IF question.orchestrator = "hand_rolled"
                  THEN Union2(EvidenceFor(proposal), TrailingTools) ELSE EvidenceFor(proposal)
    BY <1>4 DEF Plan, EvidenceFor, OnComparison
  <2>2. EvidenceFor(proposal) \in Seq(PlannableTools)
    BY EvidencePlanned DEF RunType, Questions
  <2>3. plan' \in Seq(Tools)
    <3>1. EvidenceFor(proposal) \in Seq(Tools) /\ TrailingTools \in Seq(Tools)
      BY <2>2 DEF Tools, TrailingTools
    <3> QED
      BY <2>1, <2>2, <3>1, UnionWithClosing, ConcatProperties
  <2>4. node' \in Tools \cup {"end"}
    <3>1. node' = Dispatch(plan', 0) /\ TrailingTools[1] \in Tools
      BY <1>4 DEF Plan, TrailingTools, Tools
    <3> QED
      BY <2>3, <3>1 DEF Dispatch
  <2>5. RunType'
    BY <1>4, <2>3, <2>4 DEF Plan, RunType
  <2>6. ProviderType'
    BY <1>4, <1>a, <1>b DEF Plan, ProviderType
  <2> QED
    BY <2>5, <2>6
<1>5. ASSUME NEW t \in Tools, RunTool(t) PROVE RunType' /\ ProviderType'
  <2>1. ToolResults(t, context) \subseteq Outcomes
    BY <1>5, ToolType DEF RunTool, RunType
  <2>2. RunType'
    BY <1>5, <2>1, FinishType DEF RunTool
  <2>3. ProviderType'
    BY <1>5 DEF RunTool, llmVars, ProviderType
  <2> QED
    BY <2>2, <2>3
<1>6. CASE BeginReport
  <2>1. context' \in Contexts
    BY <1>6 DEF BeginReport, RunType, Contexts
  <2>2. RunType'
    BY <1>6, <2>1 DEF BeginReport, RunType
  <2>3. call' \in [Threads -> CallType]
    <3>1. CASE call' = [call EXCEPT !["job"] = Sent]
      BY <1>a, <1>b, <3>1 DEF ProviderType
    <3>2. CASE call' = [call EXCEPT !["job"].phase = "answered"]
      <4> DEFINE k == [call["job"] EXCEPT !.phase = "answered"]
      <4>1. k \in CallType
        BY <1>a, <1>c DEF ProviderType
      <4>2. call' = [call EXCEPT !["job"] = k]
        BY <1>a, <3>2 DEF ProviderType
      <4> HIDE DEF k
      <4> QED
        BY <1>a, <4>1, <4>2 DEF ProviderType
    <3> QED
      BY <1>6, <3>1, <3>2 DEF BeginReport
  <2>4. ProviderType'
    BY <1>6, <2>3 DEF BeginReport, ProviderType
  <2> QED
    BY <2>2, <2>4
<1>7. CASE EndReport
  <2>1. Report(context) \subseteq Outcomes /\ {Raise(context)} \subseteq Outcomes
    BY ReportType, Ends DEF RunType
  <2>2. "report_tool" \in Tools
    BY DEF Tools
  <2>3. RunType'
    BY <1>7, <2>1, <2>2, FinishType DEF EndReport
  <2>4. ProviderType'
    <3> DEFINE k == [call["job"] EXCEPT !.phase = "idle"]
    <3>1. k \in CallType
      BY <1>a, <1>c DEF ProviderType
    <3>2. call' = [call EXCEPT !["job"] = k]
      BY <1>a, <1>7 DEF EndReport, ProviderType
    <3> HIDE DEF k
    <3> QED
      BY <1>7, <1>a, <3>1, <3>2 DEF EndReport, ProviderType
  <2> QED
    BY <2>3, <2>4
<1>8. CASE Complete
  <2>1. (IF context.report = Missing THEN Missing ELSE context.report.rating) \in Ratings \cup {Missing}
    BY DEF RunType, Contexts, Reports
  <2>2. RunType'
    BY <1>8, <2>1 DEF Complete, RunType, ProviderType, agentVars
  <2>3. ProviderType'
    BY <1>8 DEF Complete, llmVars, ProviderType
  <2> QED
    BY <2>2, <2>3
<1>9. CASE UNCHANGED vars
  BY <1>9 DEF vars, agentVars, llmVars, RunType, ProviderType
<1> QED
  BY <1>1, <1>2, <1>3, <1>4, <1>5, <1>6, <1>7, <1>8, <1>9, <1>a DEF Next, JobStep

\* A run, its context and the provider's accounts stay of their kinds, whatever the
\* tools and the model come to.
THEOREM TypeCorrect == Spec => []TypeOK
BY TypeInit, TypeNext, PTL DEF Spec

(***************************************************************************)
(* Usage.  Reading the usage and storing the sum are two steps; nothing    *)
(* comes between them as long as no other request calls the provider.      *)
(***************************************************************************)

Own == IF spent = 0 THEN Missing ELSE spent

OwnUsage ==
  /\ pc = "start" => spent = 0 /\ outcome = NoOutcome
  /\ alone => \A th \in Requests : InPhase(th, "idle")
  /\ pc \in {"planning", "tools", "narrating"} /\ alone =>
       /\ usage = Own
       /\ InPhase("job", "adding") => call["job"].seen = usage
  /\ pc \in {"start", "tools", "end"} => InPhase("job", "idle")
  /\ outcome.status = "done" => pc = "end"
  /\ UsageIsOwn

LEMMA OwnUsageInit == Init => OwnUsage
BY DEF Init, OwnUsage, InPhase, NoCall, Threads, NoOutcome, UsageIsOwn

LEMMA OwnUsageNext == TypeOK /\ OwnUsage /\ [Next]_vars => OwnUsage'
<1> SUFFICES ASSUME RunType, ProviderType, OwnUsage, [Next]_vars PROVE OwnUsage'
  BY TypeParts
<1>a. "job" \in Threads /\ Requests \subseteq Threads /\ "job" \notin Requests
  BY RequestsAssumption DEF Threads
<1>1. ASSUME NEW th \in Requests, ForeignCall(th) PROVE OwnUsage'
  <2>1. /\ alone' = FALSE /\ call'["job"] = call["job"]
        /\ UNCHANGED <<pc, usage, spent, outcome>>
    BY <1>1, <1>a DEF ForeignCall, ProviderType
  <2> QED
    BY <2>1 DEF OwnUsage, InPhase, UsageIsOwn, Own
<1>2. ASSUME NEW th \in Requests, CallStep(th) PROVE OwnUsage'
  <2>1. call'["job"] = call["job"] /\ UNCHANGED <<pc, alone, outcome, spent>>
    BY <1>2, <1>a DEF CallStep, Answer, Account, Retry, GiveUp, Return, ProviderType
  <2>2. ~alone
    BY <1>2 DEF OwnUsage, CallStep, Answer, Account, Retry, GiveUp, InPhase
  <2> QED
    BY <2>1, <2>2 DEF OwnUsage, InPhase, UsageIsOwn, Own
<1>3. CASE CallStep("job")
  <2>1. /\ UNCHANGED <<pc, alone, outcome>>
        /\ \A th \in Requests : call'[th] = call[th]
        /\ pc \in {"planning", "narrating"}
    <3>1. UNCHANGED <<pc, alone, outcome>> /\ ~InPhase("job", "idle")
      BY <1>3 DEF CallStep, Answer, Account, Retry, GiveUp, InPhase
    <3>2. \A th \in Requests : call'[th] = call[th]
      BY <1>3, <1>a DEF CallStep, Answer, Account, Retry, GiveUp, Return, ProviderType
    <3> QED
      BY <3>1, <3>2 DEF OwnUsage, RunType
  <2>2. \A phase : Return("job", phase) => call'["job"].phase = phase
    BY <1>a DEF Return, ProviderType, NoCall
  <2>3. alone => /\ usage' = Own'
                 /\ InPhase("job", "adding")' => call'["job"].seen = usage'
    <3> SUFFICES ASSUME alone PROVE /\ usage' = Own'
                                    /\ InPhase("job", "adding")' => call'["job"].seen = usage'
      OBVIOUS
    <3>1. usage = Own /\ (InPhase("job", "adding") => call["job"].seen = usage)
      BY <2>1 DEF OwnUsage
    <3>2. CASE Answer("job")
      <4>1. UNCHANGED <<usage, spent>>
        BY <3>2 DEF Answer
      <4>2. CASE call' = [call EXCEPT !["job"].phase = "adding", !["job"].seen = usage]
        <5>1. call'["job"].seen = usage
          BY <1>a, <4>2 DEF ProviderType, CallType
        <5> QED
          BY <3>1, <4>1, <5>1 DEF Own
      <4>3. CASE Return("job", "answered")
        BY <2>2, <3>1, <4>1, <4>3 DEF Own, InPhase
      <4> QED
        BY <3>2, <4>2, <4>3 DEF Answer
    <3>3. CASE Account("job")
      <4>1. usage' = (IF usage = Missing THEN 0 ELSE usage) + 1 /\ spent' = spent + 1
        BY <3>1, <3>3 DEF Account
      <4>2. spent \in Nat
        BY DEF ProviderType
      <4>3. usage' = spent'
        BY <3>1, <4>1, <4>2, MissingAssumption DEF Own
      <4>4. call'["job"].phase # "adding"
        BY <2>2, <3>3 DEF Account
      <4> QED
        BY <4>1, <4>2, <4>3, <4>4 DEF Own, InPhase
    <3>4. CASE Retry("job")
      <4>1. call'["job"].phase = "sent" /\ UNCHANGED <<usage, spent>>
        BY <1>a, <3>4 DEF Retry, InPhase, ProviderType, CallType
      <4> QED
        BY <3>1, <4>1 DEF Own, InPhase
    <3>5. CASE GiveUp("job")
      BY <2>2, <3>1, <3>5 DEF GiveUp, Own, InPhase
    <3> QED
      BY <1>3, <3>2, <3>3, <3>4, <3>5 DEF CallStep
  <2> QED
    BY <2>1, <2>3 DEF OwnUsage, InPhase, UsageIsOwn
<1>4. CASE Start
  <2>1. CASE pc' = "end"
    <3>1. call' = call /\ outcome'.status = "error" /\ UNCHANGED spent /\ pc = "start" /\ alone' = alone
      BY <1>4, <2>1 DEF Start, NoOutcome
    <3>2. UNCHANGED alone
      BY <3>1
    <3> QED
      BY <2>1, <3>1 DEF OwnUsage, InPhase, UsageIsOwn
  <2>2. CASE pc' = "planning"
    <3>1. /\ usage' = Missing /\ spent' = 0 /\ outcome' = NoOutcome /\ call'["job"] = Sent
          /\ alone' => \A th \in Requests : InPhase(th, "idle")
          /\ \A th \in Requests : call'[th] = call[th]
      BY <1>4, <1>a, <2>2 DEF Start, OwnUsage, ProviderType
    <3> QED
      BY <2>2, <3>1 DEF OwnUsage, InPhase, UsageIsOwn, Own, NoOutcome, Sent, NoCall
  <2> QED
    BY <1>4, <2>1, <2>2 DEF Start
<1>5. ASSUME \/ Plan \/ EndReport \/ BeginReport
      PROVE  OwnUsage'
  <2>1. /\ pc \in {"planning", "tools", "narrating"} /\ pc' \in {"tools", "narrating"}
        /\ UNCHANGED <<usage, alone, spent, outcome>>
        /\ \A th \in Requests : call'[th] = call[th]
    BY <1>5, <1>a DEF Plan, BeginReport, EndReport, ProviderType
  <2>2. call'["job"].phase # "adding" /\ (pc' = "tools" => call'["job"].phase = "idle")
    BY <1>5, <1>a DEF Plan, BeginReport, EndReport, ProviderType, CallType, Sent, NoCall
  <2> QED
    BY <2>1, <2>2 DEF OwnUsage, InPhase, UsageIsOwn, Own
<1>6. ASSUME NEW t \in Tools, RunTool(t) PROVE OwnUsage'
  BY <1>6 DEF RunTool, llmVars, OwnUsage, InPhase, UsageIsOwn, Own
<1>7. CASE Complete
  <2>1. pc = "tools" /\ pc' = "end" /\ outcome'.usage = usage /\ UNCHANGED <<usage, call, foreign, alone, spent>>
    BY <1>7 DEF Complete, llmVars
  <2> QED
    BY <2>1 DEF OwnUsage, InPhase, UsageIsOwn, Own
<1>8. CASE UNCHANGED vars
  BY <1>8 DEF vars, llmVars, OwnUsage, InPhase, UsageIsOwn, Own
<1> QED
  BY <1>1, <1>2, <1>3, <1>4, <1>5, <1>6, <1>7, <1>8 DEF Next, JobStep

\* A job that no other request's call fell into records the usage of its own calls:
\* each answer's once, whatever was retried, and none of an earlier job's.
THEOREM UsageOwn == Spec => []UsageIsOwn
<1>1. OwnUsage => UsageIsOwn
  BY DEF OwnUsage
<1> QED
  BY <1>1, TypeInit, TypeNext, OwnUsageInit, OwnUsageNext, PTL DEF Spec

(***************************************************************************)
(* Order.  A run with a plan follows it: the tools tried are the evidence  *)
(* planned and the closing tools up to a place, the next tool is the one   *)
(* at the next place.  The graph's step stops at the end of its plan.      *)
(***************************************************************************)

HandRolled == question.orchestrator = "hand_rolled"

At(evidence, i) == IF i <= Len(evidence) THEN evidence[i] ELSE TrailingTools[i - Len(evidence)]
NodeAfter(evidence, n) == IF n < Len(evidence) + 4 THEN At(evidence, n + 1) ELSE "end"
StepAfter(evidence, n) == IF HandRolled \/ n <= Len(evidence) THEN n ELSE Len(evidence)

Planned(evidence) ==
  /\ evidence \in Seq(PlannableTools) /\ Distinct(evidence) /\ Demanded \subseteq ToSet(evidence)
  /\ plan = IF HandRolled THEN evidence \o TrailingTools ELSE evidence

Followed(evidence) ==
  /\ Planned(evidence)
  /\ Len(tried) <= Len(evidence) + 4
  /\ \A i \in 1..Len(tried) : tried[i] = At(evidence, i)
  /\ step = StepAfter(evidence, Len(tried))
  /\ node = NodeAfter(evidence, Len(tried))

Order ==
  /\ pc \in {"start", "planning"} => plan = <<>> /\ tried = <<>>
  /\ pc \in {"tools", "narrating"} => plan # <<>> /\ \E evidence : Followed(evidence)
  /\ pc = "narrating" => node = "report_tool"
  /\ pc = "end" => \/ plan = <<>> /\ tried = <<>>
                   \/ plan # <<>> /\ node = "end" /\ \E evidence : Followed(evidence)

LEMMA Places ==
  ASSUME NEW evidence \in Seq(PlannableTools)
  PROVE  /\ Len(TrailingTools) = 4 /\ DOMAIN TrailingTools = 1..4
         /\ \A i \in 1..Len(evidence) :
              At(evidence, i) = evidence[i] /\ At(evidence, i) \in PlannableTools
         /\ \A i \in 1..4 : At(evidence, Len(evidence) + i) = TrailingTools[i]
         /\ \A i \in 1..4 : TrailingTools[i] \in Tools \ PlannableTools /\ TrailingTools[i] # "end"
         /\ \A i, j \in 1..4 : TrailingTools[i] = TrailingTools[j] => i = j
         /\ \A n \in 0..(Len(evidence) + 4) :
              (evidence \o TrailingTools) \in Seq(Tools)
                /\ Len(evidence \o TrailingTools) = Len(evidence) + 4
                /\ (n # 0 => (evidence \o TrailingTools)[n] = At(evidence, n))
<1>1. /\ Len(TrailingTools) = 4 /\ DOMAIN TrailingTools = 1..4 /\ TrailingTools \in Seq(Tools)
      /\ \A i \in 1..4 : TrailingTools[i] \in Tools \ PlannableTools /\ TrailingTools[i] # "end"
      /\ \A i, j \in 1..4 : TrailingTools[i] = TrailingTools[j] => i = j
  BY DEF TrailingTools, Tools, PlannableTools
<1>2. evidence \in Seq(Tools) /\ Len(evidence) \in Nat
  BY DEF Tools
<1> DEFINE r == TrailingTools
<1>3. r \in Seq(Tools) /\ Len(r) = 4
  BY <1>1
<1> HIDE DEF r
<1>4. /\ evidence \o r \in Seq(Tools) /\ Len(evidence \o r) = Len(evidence) + 4
      /\ \A i \in 1..(Len(evidence) + 4) :
           (evidence \o r)[i] = IF i <= Len(evidence) THEN evidence[i] ELSE r[i - Len(evidence)]
  <2>1. /\ evidence \o r \in Seq(Tools) /\ Len(evidence \o r) = Len(evidence) + Len(r)
        /\ \A i \in 1..(Len(evidence) + Len(r)) :
             (evidence \o r)[i] = IF i <= Len(evidence) THEN evidence[i] ELSE r[i - Len(evidence)]
    BY <1>2, <1>3, ConcatProperties
  <2> QED
    BY <1>3, <2>1
<1>5. \A i \in 1..4 : Len(evidence) + i > Len(evidence) /\ (Len(evidence) + i) - Len(evidence) = i
  BY <1>2
<1>6. \A i \in 1..4 : At(evidence, Len(evidence) + i) = TrailingTools[i]
  <2> SUFFICES ASSUME NEW i \in 1..4 PROVE At(evidence, Len(evidence) + i) = r[i]
    BY DEF r
  <2>1. ~(Len(evidence) + i <= Len(evidence)) /\ (Len(evidence) + i) - Len(evidence) = i
    BY <1>2
  <2> QED
    BY <2>1 DEF At, r
<1>7. \A i \in 1..Len(evidence) : At(evidence, i) = evidence[i] /\ At(evidence, i) \in PlannableTools
  BY DEF At
<1>8. \A n \in 0..(Len(evidence) + 4) : n # 0 => (evidence \o TrailingTools)[n] = At(evidence, n)
  BY <1>2, <1>4 DEF At, r
<1>9. (evidence \o TrailingTools) \in Seq(Tools) /\ Len(evidence \o TrailingTools) = Len(evidence) + 4
  BY <1>4 DEF r
<1> QED
  BY <1>1, <1>6, <1>7, <1>8, <1>9, Zenon

\* Both ways to find the next tool come to the same.
LEMMA DispatchFollows ==
  ASSUME NEW evidence, Planned(evidence), NEW n \in Nat,
         n <= IF HandRolled THEN Len(evidence) + 4 ELSE Len(evidence)
  PROVE  Dispatch(plan, n) = NodeAfter(evidence, n)
<1>0. evidence \in Seq(PlannableTools) /\ Len(evidence) \in Nat
  BY DEF Planned
<1>1. CASE HandRolled
  <2>1. plan = evidence \o TrailingTools /\ Len(plan) = Len(evidence) + 4
    BY <1>0, <1>1, Places DEF Planned
  <2>2. n < Len(evidence) + 4 => plan[n + 1] = At(evidence, n + 1)
    BY <1>0, <2>1, Places
  <2> QED
    BY <1>0, <1>1, <2>1, <2>2 DEF Dispatch, NodeAfter, HandRolled
<1>2. CASE ~HandRolled
  <2>1. plan = evidence
    BY <1>2 DEF Planned
  <2>2. n < Len(evidence) => plan[n + 1] = At(evidence, n + 1)
    BY <1>0, <2>1, Places
  <2>3. At(evidence, Len(evidence) + 1) = TrailingTools[1]
    BY <1>0, Places
  <2> QED
    BY <1>0, <1>2, <2>1, <2>2, <2>3 DEF Dispatch, NodeAfter, HandRolled
<1> QED
  BY <1>1, <1>2

LEMMA AdvanceFollows ==
  ASSUME NEW evidence, Planned(evidence), NEW n \in 0..(Len(evidence) + 3),
         step = StepAfter(evidence, n), Advance(At(evidence, n + 1))
  PROVE  step' = StepAfter(evidence, n + 1) /\ node' = NodeAfter(evidence, n + 1)
<1> DEFINE t == At(evidence, n + 1)
           m == Len(evidence)
<1>0. evidence \in Seq(PlannableTools) /\ m \in Nat
  BY DEF Planned
<1>1. CASE HandRolled \/ n < m
  <2>1. HandRolled \/ t \in PlannableTools
    BY <1>0, <1>1, Places
  <2>2. step' = n + 1 /\ node' = Dispatch(plan, n + 1)
    BY <1>0, <1>1, <2>1 DEF Advance, StepAfter, HandRolled
  <2>3. n + 1 \in Nat /\ n + 1 <= IF HandRolled THEN m + 4 ELSE m
    BY <1>0, <1>1
  <2> QED
    BY <1>0, <1>1, <2>2, <2>3, DispatchFollows DEF StepAfter
<1>2. CASE ~HandRolled /\ n >= m
  <2> DEFINE i == n + 1 - m
  <2>1. i \in 1..4 /\ n + 1 = m + i
    BY <1>0, <1>2
  <2>2. t = TrailingTools[i] /\ t \notin PlannableTools
    <3> HIDE DEF i, m
    <3> QED
      BY <1>0, <2>1, Places DEF m
  <2>3. (CHOOSE j \in DOMAIN TrailingTools : TrailingTools[j] = t) = i
    <3> HIDE DEF i
    <3> QED
      BY <1>0, <2>1, <2>2, Places
  <2>4. UNCHANGED step /\ node' = (IF i = 4 THEN "end" ELSE TrailingTools[i + 1])
    BY <1>0, <1>2, <2>2, <2>3, Places DEF Advance, HandRolled
  <2>5. i # 4 => At(evidence, n + 1 + 1) = TrailingTools[i + 1]
    <3>1. i # 4 => i + 1 \in 1..4 /\ n + 1 + 1 = m + (i + 1)
      BY <1>0, <2>1
    <3> HIDE DEF i
    <3> QED
      BY <1>0, <3>1, Places
  <2>6. step' = StepAfter(evidence, n + 1)
    BY <1>0, <1>2, <2>4 DEF StepAfter
  <2>7. node' = NodeAfter(evidence, n + 1)
    <3>1. i = 4 <=> ~(n + 1 < m + 4)
      BY <1>0, <2>1
    <3> HIDE DEF i
    <3> QED
      BY <2>4, <2>5, <3>1 DEF NodeAfter
  <2> QED
    BY <2>6, <2>7
<1> QED
  BY <1>0, <1>1, <1>2

\* While a run is on its course, its next tool is a tool.
LEMMA NextTool ==
  ASSUME RunType, NEW evidence, Followed(evidence)
  PROVE  /\ node = "end" <=> Len(tried) = Len(evidence) + 4
         /\ node # "end" => /\ Len(tried) \in 0..(Len(evidence) + 3)
                            /\ node = At(evidence, Len(tried) + 1) /\ node \in Tools
<1>1. evidence \in Seq(PlannableTools) /\ Len(evidence) \in Nat /\ Len(tried) \in Nat
  BY DEF Followed, Planned, RunType
<1>2. \A i \in 1..(Len(evidence) + 4) : At(evidence, i) \in Tools /\ At(evidence, i) # "end"
  <2> SUFFICES ASSUME NEW i \in 1..(Len(evidence) + 4)
               PROVE  At(evidence, i) \in Tools /\ At(evidence, i) # "end"
    OBVIOUS
  <2>1. CASE i <= Len(evidence)
    BY <1>1, <2>1, Places DEF PlannableTools, Tools
  <2>2. CASE i > Len(evidence)
    <3> DEFINE k == i - Len(evidence)
    <3>1. k \in 1..4 /\ i = Len(evidence) + k
      BY <1>1, <2>2
    <3> HIDE DEF k
    <3> QED
      BY <1>1, <3>1, Places
  <2> QED
    BY <1>1, <2>1, <2>2
<1> QED
  BY <1>1, <1>2 DEF Followed, NodeAfter

LEMMA FinishFollows ==
  ASSUME RunType, NEW evidence, Followed(evidence), node # "end",
         NEW results, Finish(node, results), UNCHANGED <<question, plan>>
  PROVE  Followed(evidence)'
<1> DEFINE n == Len(tried)
<1>1. Planned(evidence) /\ evidence \in Seq(PlannableTools) /\ n \in Nat
  BY DEF Followed, Planned, RunType
<1>2. n \in 0..(Len(evidence) + 3) /\ node = At(evidence, n + 1) /\ node \in Tools
  BY NextTool
<1>3. tried' = Append(tried, node) /\ tried' \in Seq(Tools) /\ Len(tried') = n + 1
  BY <1>2 DEF Finish, RunType
<1>4. \A i \in 1..(n + 1) : tried'[i] = At(evidence, i)
  BY <1>1, <1>2, <1>3 DEF Followed, RunType
<1>5. step' = StepAfter(evidence, n + 1) /\ node' = NodeAfter(evidence, n + 1)
  BY <1>1, <1>2, AdvanceFollows DEF Followed, Finish
<1>6. Planned(evidence)'
  BY <1>1 DEF Planned, Demanded, HandRolled
<1>7. step' = StepAfter(evidence, Len(tried))' /\ node' = NodeAfter(evidence, Len(tried))'
  BY <1>3, <1>5 DEF StepAfter, NodeAfter, At, HandRolled
<1> QED
  BY <1>1, <1>2, <1>3, <1>4, <1>6, <1>7 DEF Followed

LEMMA OrderInit == Init => Order
BY DEF Init, Order

LEMMA PlanFollows ==
  ASSUME RunType, Order, Plan
  PROVE  /\ Order' /\ tried = <<>> /\ tried' = <<>> /\ pc = "planning" /\ pc' = "tools" /\ plan' # <<>>
         /\ question' = question /\ Demanded \in SUBSET PlannableTools
<1>1. PICK proposal \in Proposals :
        plan' = IF HandRolled THEN Union2(EvidenceFor(proposal), TrailingTools)
                ELSE EvidenceFor(proposal)
  BY DEF Plan, EvidenceFor, OnComparison, HandRolled
<1>a. PICK evidence : evidence = EvidenceFor(proposal)
  OBVIOUS
<1>2. /\ evidence \in Seq(PlannableTools) /\ Distinct(evidence)
      /\ Demanded \subseteq ToSet(evidence) /\ Demanded # {}
  BY <1>a, EvidencePlanned DEF RunType, Questions
<1>3. plan' = IF HandRolled THEN evidence \o TrailingTools ELSE evidence
  BY <1>1, <1>2, <1>a, UnionWithClosing
<1>4. /\ pc = "planning" /\ pc' = "tools" /\ step' = 0 /\ node' = Dispatch(plan', 0)
      /\ tried' = tried /\ question' = question /\ tried = <<>>
  BY DEF Plan, Order
<1>5. Len(evidence) \in Nat /\ Len(evidence) >= 1 /\ ToSet(evidence) \subseteq PlannableTools
  BY <1>2, ToSetOfSeq
<1>6. Planned(evidence)'
  BY <1>2, <1>3, <1>4 DEF Planned, Demanded, HandRolled
<1>7. plan' # <<>> /\ Dispatch(plan', 0) = NodeAfter(evidence, 0)
  <2>1. At(evidence, 1) = evidence[1]
    BY <1>2, <1>5, Places
  <2>2. CASE HandRolled
    <3>1. plan' = evidence \o TrailingTools /\ Len(plan') = Len(evidence) + 4 /\ plan'[1] = At(evidence, 1)
      BY <1>2, <1>3, <1>5, <2>2, Places
    <3> QED
      BY <1>5, <3>1 DEF Dispatch, NodeAfter
  <2>3. CASE ~HandRolled
    BY <1>2, <1>3, <1>5, <2>1, <2>3 DEF Dispatch, NodeAfter
  <2> QED
    BY <2>2, <2>3
<1>8. Followed(evidence)'
  BY <1>4, <1>5, <1>6, <1>7 DEF Followed, StepAfter, NodeAfter, At
<1>9. Order'
  BY <1>4, <1>7, <1>8 DEF Order
<1> QED
  BY <1>2, <1>4, <1>5, <1>7, <1>9

LEMMA OrderNext == TypeOK /\ Order /\ [Next]_vars => Order'
<1> SUFFICES ASSUME RunType, Order, [Next]_vars PROVE Order'
  BY TypeParts
<1>a. ASSUME NEW evidence, Followed(evidence), UNCHANGED <<question, plan, tried, step, node>>
      PROVE  Followed(evidence)'
  BY <1>a DEF Followed, Planned, Demanded, HandRolled, StepAfter
<1>b. ASSUME NEW results, pc \in {"tools", "narrating"}, node # "end", Finish(node, results),
             UNCHANGED <<question, plan>>, pc' = "tools"
      PROVE  Order'
  <2>1. PICK evidence : Followed(evidence)
    BY <1>b DEF Order
  <2>2. Followed(evidence)'
    BY <1>b, <2>1, FinishFollows
  <2> QED
    BY <1>b, <2>2 DEF Order
<1>c. ASSUME UNCHANGED <<question, agentVars, pc>> PROVE Order'
  BY <1>a, <1>c DEF Order, agentVars
<1>1. ASSUME NEW th \in Requests, ForeignCall(th) PROVE Order'
  BY <1>1, <1>c DEF ForeignCall
<1>2. ASSUME NEW th \in Threads, CallStep(th) PROVE Order'
  BY <1>2, <1>c DEF CallStep, Answer, Account, Retry, GiveUp
<1>3. CASE Start
  BY <1>3 DEF Start, Order, agentVars
<1>4. CASE Plan
  BY <1>4, PlanFollows
<1>5. ASSUME NEW t \in Tools, RunTool(t) PROVE Order'
  BY <1>5, <1>b DEF RunTool, Tools, PlannableTools
<1>6. CASE BeginReport
  BY <1>6, <1>a DEF BeginReport, Order
<1>7. CASE EndReport
  BY <1>7, <1>b DEF EndReport, Order
<1>8. CASE Complete
  BY <1>8, <1>a DEF Complete, Order, agentVars
<1>9. CASE UNCHANGED vars
  BY <1>9, <1>c DEF vars
<1> QED
  BY <1>1, <1>2, <1>3, <1>4, <1>5, <1>6, <1>7, <1>8, <1>9 DEF Next, JobStep, Threads

THEOREM RunsFollowPlans == Spec => []Order
BY TypeInit, TypeNext, OrderInit, OrderNext, PTL DEF Spec

(***************************************************************************)
(* The contract.  Reading the plan demands the evidence, a tool that ends  *)
(* is a step of the contract, whatever it came to; the rest stutters.      *)
(***************************************************************************)

ToDemand == IF pc \in {"start", "planning"} \/ plan = <<>> THEN {} ELSE Demanded

LEMMA TriedSoFar ==
  ASSUME RunType, NEW evidence, Followed(evidence)
  PROVE  /\ Contract!Tried = {At(evidence, i) : i \in 1..Len(tried)}
         /\ Contract!ClosingTools = {TrailingTools[j] : j \in 1..4}
         /\ Contract!TriedClosing = {TrailingTools[j] : j \in 1..(Len(tried) - Len(evidence))}
         /\ Len(tried) >= Len(evidence) => Demanded \subseteq Contract!Tried
<1> DEFINE n == Len(tried)
           m == Len(evidence)
           T == {At(evidence, i) : i \in 1..n}
           C == {TrailingTools[j] : j \in 1..4}
<1>1. evidence \in Seq(PlannableTools) /\ m \in Nat /\ n \in Nat /\ n <= m + 4
  BY DEF Followed, Planned, RunType
<1>2. Contract!Tried = T
  <2>1. DOMAIN tried = 1..n /\ \A i \in 1..n : tried[i] = At(evidence, i)
    BY DEF Followed, RunType
  <2> QED
    BY <2>1 DEF Contract!Tried
<1>3. Contract!ClosingTools = C
  BY <1>1, Places DEF Contract!ClosingTools
<1>4. \A i \in 1..m : At(evidence, i) \in PlannableTools
  BY <1>1, Places
<1>5. \A j \in 1..4 : At(evidence, m + j) = TrailingTools[j] /\ TrailingTools[j] \notin PlannableTools
  BY <1>1, Places
<1>6. \A j, k \in 1..4 : TrailingTools[j] = TrailingTools[k] => j = k
  BY <1>1, Places
<1>7. ASSUME NEW x PROVE x \in T \cap C <=> x \in {TrailingTools[j] : j \in 1..(n - m)}
  <2> HIDE DEF n, m
  <2>1. ASSUME NEW i \in 1..n, NEW k \in 1..4, At(evidence, i) = TrailingTools[k]
        PROVE  k \in 1..(n - m)
    <3>1. i > m
      BY <1>1, <1>4, <1>5, <2>1
    <3> DEFINE j == i - m
    <3>2. j \in 1..4 /\ i = m + j
      BY <1>1, <3>1
    <3> HIDE DEF j
    <3>3. j = k
      BY <1>5, <1>6, <2>1, <3>2
    <3> QED
      BY <1>1, <3>2, <3>3
  <2>2. ASSUME NEW k \in 1..(n - m) PROVE TrailingTools[k] \in T \cap C
    <3>1. k \in 1..4 /\ m + k \in 1..n
      BY <1>1
    <3> QED
      BY <1>5, <3>1
  <2> QED
    BY <2>1, <2>2
<1>8. T \cap C = {TrailingTools[j] : j \in 1..(n - m)}
  BY <1>7
<1>9. n >= m => Demanded \subseteq T
  <2>1. Demanded \subseteq {evidence[i] : i \in 1..m}
    BY <1>1, ToSetOfSeq DEF Followed, Planned
  <2>2. \A i \in 1..m : At(evidence, i) = evidence[i]
    BY <1>1, Places
  <2> QED
    BY <1>1, <2>1, <2>2
<1> QED
  BY <1>2, <1>3, <1>8, <1>9 DEF Contract!TriedClosing

LEMMA FinishKeepsContract ==
  ASSUME RunType, Order, pc \in {"tools", "narrating"}, pc' = "tools", node # "end",
         NEW results, Finish(node, results), UNCHANGED <<question, plan>>
  PROVE  Contract!Next
<1>1. PICK evidence : Followed(evidence)
  BY DEF Order
<1> DEFINE n == Len(tried)
           m == Len(evidence)
<1>2. evidence \in Seq(PlannableTools) /\ Distinct(evidence) /\ m \in Nat /\ n \in Nat
  BY <1>1 DEF Followed, Planned, RunType
<1>3. n \in 0..(m + 3) /\ node = At(evidence, n + 1)
  BY <1>1, NextTool
<1>4. /\ Contract!Tried = {At(evidence, i) : i \in 1..n}
      /\ Contract!TriedClosing = {TrailingTools[j] : j \in 1..(n - m)}
      /\ n >= m => Demanded \subseteq Contract!Tried
  BY <1>1, TriedSoFar
<1>5. tried' = Append(tried, node) /\ UNCHANGED ToDemand /\ ~(pc = "end") /\ ~(pc' = "end") /\ ToDemand = Demanded
  BY DEF Finish, ToDemand, Demanded, Order
<1>6. CASE n < m
  <2>1. node \in PlannableTools /\ node = evidence[n + 1]
    BY <1>2, <1>3, <1>6, Places
  <2>2. node \notin Contract!Tried
    <3>1. \A i \in 1..n : At(evidence, i) = evidence[i]
      BY <1>2, <1>6, Places
    <3> QED
      BY <1>2, <1>3, <1>4, <1>6, <2>1, <3>1 DEF Distinct
  <2>3. Contract!TriedClosing = {}
    BY <1>2, <1>4, <1>6
  <2>4. Contract!TryEvidence(node)
    BY <1>5, <2>2, <2>3 DEF Contract!TryEvidence, ToDemand
  <2> QED
    BY <2>1, <2>4 DEF Contract!Next
<1>7. CASE n >= m
  <2> DEFINE i == n + 1 - m
  <2>1. i \in 1..4 /\ n + 1 = m + i /\ n - m = i - 1
    BY <1>2, <1>3, <1>7
  <2> HIDE DEF i, m, n
  <2>2. node = TrailingTools[i] /\ i \in DOMAIN TrailingTools
    BY <1>2, <1>3, <2>1, Places DEF m
  <2>3. Contract!TriedClosing = {TrailingTools[j] : j \in 1..(i - 1)}
    BY <1>4, <2>1
  <2>4. Contract!TryClosing
    BY <1>4, <1>5, <1>7, <2>2, <2>3 DEF Contract!TryClosing, ToDemand
  <2> QED
    BY <2>4 DEF Contract!Next
<1> QED
  BY <1>2, <1>6, <1>7

LEMMA ContractInit == Init => Contract!Init
BY DEF Init, Contract!Init

LEMMA ContractNext == TypeOK /\ Order /\ [Next]_vars => [Contract!Next]_Contract!vars
<1> SUFFICES ASSUME RunType, Order, [Next]_vars PROVE [Contract!Next]_Contract!vars
  BY TypeParts
<1>a. ASSUME UNCHANGED <<question, plan, tried>>,
             pc = pc' \/ (pc = "start" /\ pc' = "planning") \/ (pc = "tools" /\ pc' = "narrating")
      PROVE  UNCHANGED Contract!vars
  BY <1>a DEF Contract!vars, Demanded
<1>1. ASSUME NEW th \in Requests, ForeignCall(th) PROVE UNCHANGED Contract!vars
  BY <1>1, <1>a DEF ForeignCall, agentVars
<1>2. ASSUME NEW th \in Threads, CallStep(th) PROVE UNCHANGED Contract!vars
  BY <1>2, <1>a DEF CallStep, Answer, Account, Retry, GiveUp, agentVars
<1>3. CASE Start
  <2>1. CASE pc' = "planning"
    BY <1>3, <1>a, <2>1 DEF Start, agentVars
  <2>2. CASE pc' = "end"
    <3>1. /\ pc = "start" /\ plan = <<>> /\ plan' = <<>> /\ tried = <<>> /\ tried' = <<>>
      BY <1>3 DEF Start, Order, agentVars
    <3>2. Contract!End
      BY <2>2, <3>1 DEF Contract!End
    <3> QED
      BY <3>2 DEF Contract!Next
  <2> QED
    BY <1>3, <2>1, <2>2 DEF Start
<1>4. CASE Plan
  <2>1. /\ tried = <<>> /\ tried' = <<>> /\ pc = "planning" /\ pc' = "tools" /\ plan' # <<>>
        /\ question' = question /\ Demanded \in SUBSET PlannableTools
    BY <1>4, PlanFollows
  <2>2. Contract!Demand(Demanded)
    BY <2>1 DEF Contract!Demand, Demanded
  <2> QED
    BY <2>1, <2>2 DEF Contract!Next
<1>5. ASSUME NEW t \in Tools, RunTool(t) PROVE Contract!Next
  BY <1>5, FinishKeepsContract DEF RunTool, Tools, PlannableTools
<1>6. CASE BeginReport
  BY <1>6, <1>a DEF BeginReport
<1>7. CASE EndReport
  BY <1>7, FinishKeepsContract DEF EndReport, Order
<1>8. CASE Complete
  <2>1. /\ pc = "tools" /\ pc' = "end" /\ node = "end" /\ UNCHANGED <<question, plan, tried>>
    BY <1>8 DEF Complete, agentVars
  <2>2. PICK evidence : Followed(evidence)
    BY <2>1 DEF Order
  <2>3. Len(tried) - Len(evidence) = 4
    <3>1. Len(tried) = Len(evidence) + 4
      BY <2>1, <2>2, NextTool
    <3>2. evidence \in Seq(PlannableTools)
      BY <2>2 DEF Followed, Planned
    <3>3. Len(evidence) \in Nat
      BY <3>2
    <3> QED
      BY <3>1, <3>3
  <2>4. Contract!TriedClosing = Contract!ClosingTools
    <3>1. /\ Contract!ClosingTools = {TrailingTools[j] : j \in 1..4}
          /\ Contract!TriedClosing = {TrailingTools[j] : j \in 1..(Len(tried) - Len(evidence))}
      BY <2>2, TriedSoFar
    <3> QED
      BY <2>3, <3>1
  <2>5. Contract!End
    BY <2>1, <2>4 DEF Contract!End, Demanded
  <2> QED
    BY <2>5 DEF Contract!Next
<1>9. CASE UNCHANGED vars
  BY <1>9, <1>a DEF vars, agentVars
<1> QED
  BY <1>1, <1>2, <1>3, <1>4, <1>5, <1>6, <1>7, <1>8, <1>9 DEF Next, JobStep, Threads

\* Both orchestrators keep the contract: whatever the model proposes and whichever
\* tools fail, the evidence that the question demands is tried once, before the closing
\* tools, which are all tried, once and in their order.
THEOREM Refinement == Spec => ImplementsContract
<1>1. TypeOK /\ Order /\ [Next]_vars => [Contract!Next]_Contract!vars
  BY ContractNext
<1> QED
  BY <1>1, TypeInit, TypeNext, OrderInit, OrderNext, ContractInit, PTL
     DEF Spec, ImplementsContract, Contract!Spec

(***************************************************************************)
(* Ratings.  The basis of the rating does not change once one is made: the *)
(* tools that change it come before the closing tools that rate.  For a    *)
(* ticker that does not exist there is no profile and never a valuation.   *)
(***************************************************************************)

Rated ==
  /\ pc \in {"start", "planning"} => context.consensus = Missing /\ context.report = Missing
  /\ context.consensus # Missing =>
       /\ context.consensus = Recommended(context).rating
       /\ node \in {"report_tool", "evaluation_tool", "end"}
  /\ context.report # Missing =>
       /\ context.report.rating = Recommended(context).rating
       /\ node \in {"evaluation_tool", "end"}
  /\ ~question.listed => Unknown(context) /\ context.valuation = Missing
  /\ UnknownTickerNotRated

LEMMA SameBasisSameRating ==
  \A c, d : SameBasis(c, d) => Recommended(d) = Recommended(c)
BY DEF SameBasis, Recommended

LEMMA NoValuationNoRating ==
  \A c : c.valuation = Missing => Recommended(c).rating = "Insufficient Data"
BY DEF Recommended, DeriveRecommendation, HasUpside

\* The closing tools come one after the other.
LEMMA NextClosing ==
  ASSUME RunType, NEW evidence, Followed(evidence), node # "end",
         NEW results, Finish(node, results), UNCHANGED <<question, plan>>,
         NEW i \in 1..4, node = TrailingTools[i]
  PROVE  node' = IF i = 4 THEN "end" ELSE TrailingTools[i + 1]
<1> DEFINE n == Len(tried)
           m == Len(evidence)
<1>1. evidence \in Seq(PlannableTools) /\ m \in Nat
  BY DEF Followed, Planned
<1>2. n \in 0..(m + 3) /\ node = At(evidence, n + 1) /\ node \in Tools
  BY NextTool
<1>a. /\ \A j \in 1..m : At(evidence, j) \in PlannableTools
      /\ \A j \in 1..4 : At(evidence, m + j) = TrailingTools[j] /\ TrailingTools[j] \notin PlannableTools
      /\ \A j, k \in 1..4 : TrailingTools[j] = TrailingTools[k] => j = k
  BY <1>1, Places
<1>3. n + 1 = m + i
  <2>1. n + 1 > m
    <3> HIDE DEF n, m
    <3>1. node \notin PlannableTools
      BY <1>a
    <3>2. n + 1 \notin 1..m
      BY <1>2, <1>a, <3>1
    <3> QED
      BY <1>1, <1>2, <3>2
  <2> DEFINE k == n + 1 - m
  <2>2. k \in 1..4 /\ n + 1 = m + k
    BY <1>1, <1>2, <2>1
  <2> HIDE DEF k, n, m
  <2>3. k = i
    BY <1>2, <1>a, <2>2, ZenonT(40)
  <2> QED
    BY <2>2, <2>3
<1>4. node' = NodeAfter(evidence, n + 1)
  <2>1. Followed(evidence)' /\ tried' = Append(tried, node)
    BY FinishFollows DEF Finish
  <2>2. Len(tried') = n + 1
    BY <1>2, <2>1 DEF RunType
  <2>3. node' = NodeAfter(evidence, Len(tried'))
    BY <2>1 DEF Followed, NodeAfter, At
  <2> QED
    BY <2>2, <2>3
<1>5. CASE i = 4
  BY <1>1, <1>3, <1>4, <1>5 DEF NodeAfter
<1>6. CASE i # 4
  <2>1. i + 1 \in 1..4 /\ n + 1 < m + 4 /\ n + 1 + 1 = m + (i + 1)
    BY <1>1, <1>3, <1>6
  <2> HIDE DEF n, m
  <2>2. At(evidence, n + 1 + 1) = TrailingTools[i + 1]
    BY <1>1, <2>1, Places DEF m
  <2> QED
    BY <1>4, <1>6, <2>1, <2>2 DEF NodeAfter, m
<1> QED
  BY <1>5, <1>6

\* What a tool other than the report comes to keeps the ratings.
LEMMA ToolKeepsRatings ==
  ASSUME RunType, Order, Rated, NEW t \in Tools, RunTool(t)
  PROVE  Rated'
<1>1. PICK evidence : Followed(evidence)
  BY DEF Order, RunTool
<1>2. PICK r \in ToolResults(t, context) : context' = r.context
  BY DEF RunTool, Finish
<1>3. /\ context \in Contexts /\ node = t /\ t # "end" /\ pc = "tools" /\ pc' = "tools"
      /\ UNCHANGED <<question, plan, outcome>> /\ Finish(node, ToolResults(t, context))
  BY DEF RunType, RunTool, Tools, PlannableTools
<1>4. /\ TrailingTools[2] = "institutional_consensus_tool" /\ TrailingTools[3] = "report_tool"
      /\ TrailingTools[4] = "evaluation_tool"
  BY DEF TrailingTools
<1>5. UnknownTickerNotRated'
  BY <1>3 DEF Rated, UnknownTickerNotRated
<1>6. CASE t \in EvidenceTools
  <2>1. context.consensus = Missing /\ context.report = Missing
    BY <1>3, <1>6 DEF Rated, EvidenceTools, PlannableTools
  <2>2. context'.consensus = Missing /\ context'.report = Missing
    BY <1>2, <1>3, <1>6, <2>1, EvidenceType
  <2>3. ~question.listed => Unknown(context') /\ context'.valuation = Missing
    BY <1>2, <1>3, <1>6, EvidenceType DEF Rated
  <2> QED
    BY <1>3, <1>5, <2>2, <2>3 DEF Rated, Unknown
<1>7. CASE t = "institutional_consensus_tool"
  <2>1. node' = "report_tool"
    BY <1>1, <1>3, <1>4, <1>7, NextClosing
  <2>2. /\ SameBasis(context, context') /\ context'.report = context.report
        /\ context'.consensus \in {context.consensus, Recommended(context).rating}
        /\ Unknown(context) => Unknown(context')
    BY <1>2, <1>3, <1>7, ConsensusType
  <2>3. Recommended(context') = Recommended(context) /\ context'.valuation = context.valuation
    BY <2>2, SameBasisSameRating DEF SameBasis
  <2>4. context.report = Missing /\ context.consensus = Missing
    BY <1>3, <1>7 DEF Rated
  <2>5. context'.consensus # Missing => context'.consensus = Recommended(context').rating
    BY <2>2, <2>3, <2>4
  <2>6. ~question.listed => Unknown(context') /\ context'.valuation = Missing
    BY <2>2, <2>3 DEF Rated
  <2> QED
    BY <1>3, <1>5, <2>1, <2>2, <2>4, <2>5, <2>6 DEF Rated, Unknown, Recommended
<1>8. CASE t = "evaluation_tool"
  <2>1. node' = "end"
    BY <1>1, <1>3, <1>4, <1>8, NextClosing
  <2>2. /\ SameBasis(context, context') /\ context'.report = context.report
        /\ context'.consensus = context.consensus
        /\ Unknown(context) => Unknown(context')
    BY <1>2, <1>3, <1>8, EvaluationType
  <2>3. Recommended(context') = Recommended(context) /\ context'.valuation = context.valuation
    BY <2>2, SameBasisSameRating DEF SameBasis
  <2>4. /\ context'.consensus # Missing => context'.consensus = Recommended(context').rating
        /\ context'.report # Missing => context'.report.rating = Recommended(context').rating
        /\ ~question.listed => Unknown(context') /\ context'.valuation = Missing
    BY <2>2, <2>3 DEF Rated
  <2> QED
    BY <1>3, <1>5, <2>1, <2>4 DEF Rated, Unknown, Recommended
<1> QED
  BY <1>6, <1>7, <1>8 DEF Tools, EvidenceTools, RunTool

\* The report has the rating that the institutions got, if they got one.
LEMMA ReportKeepsRatings ==
  ASSUME RunType, Order, Rated, EndReport
  PROVE  Rated'
<1>1. PICK evidence : Followed(evidence)
  BY DEF Order, EndReport
<1>2. /\ context \in Contexts /\ node = "report_tool" /\ pc' = "tools"
      /\ UNCHANGED <<question, plan, outcome>>
      /\ Finish(node, Report(context)) \/ Finish(node, {Raise(context)})
  BY DEF RunType, EndReport, Order
<1>3. node' = "evaluation_tool"
  <2>1. TrailingTools[3] = "report_tool" /\ TrailingTools[4] = "evaluation_tool"
    BY DEF TrailingTools
  <2> QED
    BY <1>1, <1>2, <2>1, NextClosing
<1>4. /\ SameBasis(context, context') /\ context'.consensus = context.consensus
      /\ context'.report # Missing => context'.report.rating = Recommended(context).rating
      /\ Unknown(context) => Unknown(context')
  <2>1. CASE Finish(node, Report(context))
    <3>1. PICK r \in Report(context) : context' = r.context
      BY <2>1 DEF Finish
    <3> QED
      BY <1>2, <3>1, ReportType
  <2>2. CASE Finish(node, {Raise(context)})
    <3>1. context' = context
      BY <2>2, Ends DEF Finish
    <3> QED
      BY <1>2, <3>1 DEF SameBasis, Rated
  <2> QED
    BY <1>2, <2>1, <2>2
<1>5. Recommended(context') = Recommended(context) /\ context'.valuation = context.valuation
  BY <1>4, SameBasisSameRating DEF SameBasis
<1>6. /\ context'.consensus # Missing => context'.consensus = Recommended(context').rating
      /\ context'.report # Missing => context'.report.rating = Recommended(context').rating
      /\ ~question.listed => Unknown(context') /\ context'.valuation = Missing
  BY <1>4, <1>5 DEF Rated
<1>7. UnknownTickerNotRated'
  BY <1>2 DEF Rated, UnknownTickerNotRated
<1> QED
  BY <1>2, <1>3, <1>6, <1>7 DEF Rated, Unknown, Recommended

LEMMA RatedInit == Init => Rated
BY MissingAssumption DEF Init, Rated, Blank, Unknown, UnknownTickerNotRated, NoOutcome

LEMMA RatedNext == TypeOK /\ Order /\ Rated /\ [Next]_vars => Rated'
<1> SUFFICES ASSUME RunType, Order, Rated, [Next]_vars PROVE Rated'
  BY TypeParts
<1>a. ASSUME UNCHANGED <<question, context, node, outcome>>,
             pc' = pc \/ pc' \notin {"start", "planning"} \/ pc = "start"
      PROVE  Rated'
  BY <1>a DEF Rated, Unknown, Recommended, UnknownTickerNotRated
<1>1. ASSUME NEW th \in Requests, ForeignCall(th) PROVE Rated'
  BY <1>1, <1>a DEF ForeignCall, agentVars
<1>2. ASSUME NEW th \in Threads, CallStep(th) PROVE Rated'
  BY <1>2, <1>a DEF CallStep, Answer, Account, Retry, GiveUp, agentVars
<1>3. CASE Start
  <2>1. CASE pc' = "planning"
    BY <1>3, <1>a, <2>1 DEF Start, agentVars
  <2>2. CASE pc' = "end"
    <3>1. outcome'.rating = Missing /\ outcome'.tracked = FALSE /\ UNCHANGED <<question, context, node>>
      BY <1>3, <2>2 DEF Start, NoOutcome, agentVars
    <3>2. UnknownTickerNotRated'
      BY <3>1, MissingAssumption DEF UnknownTickerNotRated
    <3> QED
      BY <2>2, <3>1, <3>2 DEF Rated, Unknown, Recommended
  <2> QED
    BY <1>3, <2>1, <2>2 DEF Start
<1>4. CASE Plan
  BY <1>4 DEF Plan, Rated, Unknown, Recommended, UnknownTickerNotRated
<1>5. ASSUME NEW t \in Tools, RunTool(t) PROVE Rated'
  BY <1>5, ToolKeepsRatings
<1>6. CASE BeginReport
  <2>1. /\ SameBasis(context, context') /\ context'.consensus = context.consensus
        /\ context'.report = context.report
        /\ context'.info = context.info /\ context'.financials = context.financials
    BY <1>6 DEF BeginReport, RunType, Contexts, SameBasis
  <2>2. Recommended(context') = Recommended(context) /\ context'.valuation = context.valuation
    BY <2>1, SameBasisSameRating DEF SameBasis
  <2>3. pc' = "narrating" /\ UNCHANGED <<question, node, outcome>>
    BY <1>6 DEF BeginReport
  <2>4. UnknownTickerNotRated'
    BY <2>3 DEF Rated, UnknownTickerNotRated
  <2>5. /\ context'.consensus # Missing =>
             context'.consensus = Recommended(context').rating
               /\ node' \in {"report_tool", "evaluation_tool", "end"}
        /\ context'.report # Missing =>
             context'.report.rating = Recommended(context').rating
               /\ node' \in {"evaluation_tool", "end"}
        /\ ~question.listed => Unknown(context') /\ context'.valuation = Missing
    BY <2>1, <2>2, <2>3 DEF Rated, Unknown
  <2> QED
    BY <2>3, <2>4, <2>5 DEF Rated, Unknown, Recommended
<1>7. CASE EndReport
  BY <1>7, ReportKeepsRatings
<1>8. CASE Complete
  <2> DEFINE rating == IF context.report = Missing THEN Missing ELSE context.report.rating
  <2>1. ~question.listed => rating \notin Calls
    BY NoValuationNoRating, MissingAssumption DEF Rated, Calls
  <2>2. PICK kept \in BOOLEAN :
          outcome' = [status |-> "done", rating |-> rating, usage |-> usage,
                      tracked |-> kept /\ rating \in Calls /\ context.info = "known"]
    BY <1>8 DEF Complete
  <2> HIDE DEF rating
  <2>3. ~question.listed => outcome'.rating \notin Calls /\ ~outcome'.tracked
    BY <2>1, <2>2
  <2>4. pc' = "end" /\ UNCHANGED <<question, context, node>>
    BY <1>8 DEF Complete, agentVars
  <2> QED
    BY <2>3, <2>4 DEF Rated, Unknown, Recommended, UnknownTickerNotRated
<1>9. CASE UNCHANGED vars
  BY <1>9, <1>a DEF vars, agentVars
<1> QED
  BY <1>1, <1>2, <1>3, <1>4, <1>5, <1>6, <1>7, <1>8, <1>9 DEF Next, JobStep, Threads

\* The rating that the institutional consensus works with is the rating of the report,
\* and a ticker that does not exist gets no call, although the exception that says so
\* is swallowed.
THEOREM RatingsAgree == Spec => []RatingsHold
<1>1. Rated => RatingsHold
  BY DEF Rated, RatingsHold, ConsensusUsesReportRating
<1> QED
  BY <1>1, TypeInit, TypeNext, OrderInit, OrderNext, RatedInit, RatedNext, PTL DEF Spec


(***************************************************************************)
(* Narrative.  A section is what stands under the first heading of its     *)
(* name: there is one, since the lines of an answer are numbered.          *)
(***************************************************************************)

\* A set of numbers has a least one.
LEMMA Least == ASSUME NEW S \in SUBSET Nat, S # {} PROVE \E n \in S : \A m \in S : n <= m
<1>1. PICK x \in S : \A y \in S : ~(<<y, x>> \in OpToRel(<, Nat))
  BY NatLessThanWellFounded, WFMin
<1>2. OpToRel(<, Nat) = {p \in Nat \X Nat : p[1] < p[2]}
  BY DEF OpToRel
<1>3. ASSUME NEW y \in S PROVE x <= y
  <2>1. <<y, x>> \notin {p \in Nat \X Nat : p[1] < p[2]}
    BY <1>1, <1>2
  <2> QED
    BY <2>1
<1> QED
  BY <1>3

\* The line h is the first heading of the section s.
Opens(a, h, s) ==
  /\ h \in N!Headings(a) /\ a[h].heading = s
  /\ \A j \in N!Headings(a) : a[j].heading = s => h <= j

LEMMA FirstOpens ==
  ASSUME NEW a \in Seq(N!Lines), NEW h \in DOMAIN a, NEW s \in Sections, Opens(a, h, s)
  PROVE  N!First(a, s) = h
<1>1. N!First(a, s) \in N!Headings(a) /\ Opens(a, N!First(a, s), s)
  BY DEF N!First, Opens
<1>2. N!Headings(a) \subseteq Nat
  BY DEF N!Headings
<1> QED
  BY <1>1, <1>2 DEF Opens

LEMMA SomeOpens ==
  ASSUME NEW a \in Seq(N!Lines), NEW s \in Sections, NEW k \in N!Headings(a), a[k].heading = s
  PROVE  \E h \in DOMAIN a : Opens(a, h, s)
<1> DEFINE own_ == {j \in N!Headings(a) : a[j].heading = s}
<1>1. own_ \in SUBSET Nat /\ own_ # {}
  BY DEF N!Headings
<1>2. PICK h \in own_ : \A j \in own_ : h <= j
  BY <1>1, Least
<1>3. h \in DOMAIN a
  BY DEF N!Headings
<1> QED
  BY <1>2, <1>3 DEF Opens

\* What a heading h has under it.
Under(a, h, i) ==
  /\ a[i].says # Missing /\ a[i].says.tone # "drift" /\ h < i
  /\ \A j \in DOMAIN a : h < j /\ j < i =>
       a[j].heading = Missing /\ (a[j].says # Missing => a[j].says.tone # "drift")

LEMMA ContentIsUnder ==
  ASSUME NEW a \in Seq(N!Lines), NEW h \in DOMAIN a, NEW i \in DOMAIN a
  PROVE  i \in N!Content(a, h) <=> Under(a, h, i)
<1>1. DOMAIN a \subseteq Nat
  OBVIOUS
<1>2. ASSUME i \in N!Content(a, h) PROVE Under(a, h, i)
  BY <1>1, <1>2 DEF N!Content, N!Headings, Under
<1>3. ASSUME Under(a, h, i) PROVE i \in N!Content(a, h)
  BY <1>1, <1>3 DEF N!Content, N!Headings, Under
<1> QED
  BY <1>2, <1>3

\* The sections of an answer have the text that stands under their first headings.
LEMMA TextIsUnder ==
  ASSUME NEW a \in Seq(N!Lines), NEW rating, NEW s \in Sections, NEW i \in DOMAIN a
  PROVE  i \in N!SectionsOf(a, rating)[s].text <=> \E h \in DOMAIN a : Opens(a, h, s) /\ Under(a, h, i)
<1> DEFINE found == N!Split(a)
<1>1. N!SectionsOf(a, rating)[s].text = IF s \in DOMAIN found THEN found[s] ELSE {}
  BY DEF N!SectionsOf
<1>2. DOMAIN found = {a[k].heading : k \in N!Headings(a)}
  BY DEF N!Split
<1>3. ASSUME s \in DOMAIN found PROVE found[s] = N!Content(a, N!First(a, s))
  BY <1>3 DEF N!Split
<1>4. ASSUME i \in N!SectionsOf(a, rating)[s].text
      PROVE  \E h \in DOMAIN a : Opens(a, h, s) /\ Under(a, h, i)
  <2>1. s \in DOMAIN found
    BY <1>1, <1>4
  <2>2. PICK h \in DOMAIN a : Opens(a, h, s)
    BY <1>2, <2>1, SomeOpens
  <2>3. i \in N!Content(a, h)
    BY <1>1, <1>3, <1>4, <2>1, <2>2, FirstOpens
  <2> QED
    BY <2>2, <2>3, ContentIsUnder
<1>5. ASSUME NEW h \in DOMAIN a, Opens(a, h, s), Under(a, h, i)
      PROVE  i \in N!SectionsOf(a, rating)[s].text
  <2>1. s \in DOMAIN found
    BY <1>2, <1>5 DEF Opens
  <2>2. i \in N!Content(a, h)
    BY <1>5, ContentIsUnder
  <2> QED
    BY <1>1, <1>3, <1>5, <2>1, <2>2, FirstOpens
<1> QED
  BY <1>4, <1>5


(***************************************************************************)
(* What a report shows was written for it.  The cache is shared, and its   *)
(* entries outlive the reports they were written for: what ties an entry   *)
(* to a report is that the key is the whole prompt.                        *)
(***************************************************************************)

Stages == {"idle", "news", "read", "asking", "called", "shown", "scored"}

CacheKept == \A e \in cache : e.key = N!Key(e.writtenFor) /\ e.answer \in Seq(N!Lines)

Told(w) ==
  /\ at[w] \in {"asking", "called", "shown", "scored"} => prompt[w] = N!PromptOf(material[w])
  /\ N!Written(w) =>
       /\ writtenFor[w] = prompt[w] /\ answer[w] \in Seq(N!Lines)
       /\ shown[w] = N!SectionsOf(answer[w], material[w].rating)
  /\ at[w] = "scored" =>
       \E news, evidence, grounding :
         metrics[w] = N!ScoresOf(answer[w], shown[w], material[w], news, evidence, grounding)

ProseType ==
  /\ at \in [Workers -> Stages]
  /\ DOMAIN material = Workers /\ material = [w \in Workers |-> material[w]]
  /\ prompt = [w \in Workers |-> prompt[w]] /\ answer = [w \in Workers |-> answer[w]]
  /\ shown = [w \in Workers |-> shown[w]] /\ metrics = [w \in Workers |-> metrics[w]]
  /\ writtenFor = [w \in Workers |-> writtenFor[w]]

ProseKept == ProseType /\ CacheKept /\ \A w \in Workers : Told(w)

LEMMA ProseInit == N!Init => ProseKept
BY DEF N!Init, ProseKept, ProseType, CacheKept, Told, N!Written, Stages

\* A worker of which nothing changes.
LEMMA ToldStays ==
  ASSUME NEW v, Told(v), at'[v] = at[v], material'[v] = material[v], prompt'[v] = prompt[v],
         answer'[v] = answer[v], shown'[v] = shown[v], metrics'[v] = metrics[v],
         writtenFor'[v] = writtenFor[v]
  PROVE  Told(v)'
BY DEF Told, N!Written

\* An answer in Present's sense.
LEMMA PresentTold ==
  ASSUME ProseKept, NEW w \in Workers, NEW a \in Seq(N!Lines), at[w] \in {"asking", "called"},
         N!Present(w, a, prompt[w])
  PROVE  ProseType' /\ \A v \in Workers : Told(v)'
<1>1. ProseType'
  <2>1. at' \in [Workers -> Stages]
    BY DEF ProseKept, ProseType, N!Present, Stages
  <2>2. DOMAIN material' = Workers /\ material' = [v \in Workers |-> material'[v]]
    BY DEF ProseKept, ProseType, N!Present
  <2>3. prompt' = [v \in Workers |-> prompt'[v]]
    BY DEF ProseKept, ProseType, N!Present
  <2>4. answer' = [v \in Workers |-> answer'[v]]
    BY DEF ProseKept, ProseType, N!Present
  <2>5. shown' = [v \in Workers |-> shown'[v]]
    BY DEF ProseKept, ProseType, N!Present
  <2>6. metrics' = [v \in Workers |-> metrics'[v]]
    BY DEF ProseKept, ProseType, N!Present
  <2>7. writtenFor' = [v \in Workers |-> writtenFor'[v]]
    BY DEF ProseKept, ProseType, N!Present
  <2> QED
    BY <2>1, <2>2, <2>3, <2>4, <2>5, <2>6, <2>7 DEF ProseType
<1>2. Told(w)'
  BY DEF ProseKept, ProseType, N!Present, Told, N!Written
<1>3. ASSUME NEW v \in Workers \ {w} PROVE Told(v)'
  BY <1>3, ToldStays DEF ProseKept, ProseType, N!Present
<1> QED
  BY <1>1, <1>2, <1>3

LEMMA LeaveTold ==
  ASSUME ProseKept, NEW w \in Workers, N!Leave(w)
  PROVE  ProseKept'
<1>1. ProseType'
  <2>1. at' \in [Workers -> Stages]
    BY DEF ProseKept, ProseType, N!Leave, Stages
  <2>2. DOMAIN material' = Workers /\ material' = [v \in Workers |-> material'[v]]
    BY DEF ProseKept, ProseType, N!Leave
  <2>3. prompt' = [v \in Workers |-> prompt'[v]]
    BY DEF ProseKept, ProseType, N!Leave
  <2>4. answer' = [v \in Workers |-> answer'[v]]
    BY DEF ProseKept, ProseType, N!Leave
  <2>5. shown' = [v \in Workers |-> shown'[v]]
    BY DEF ProseKept, ProseType, N!Leave
  <2>6. metrics' = [v \in Workers |-> metrics'[v]]
    BY DEF ProseKept, ProseType, N!Leave
  <2>7. writtenFor' = [v \in Workers |-> writtenFor'[v]]
    BY DEF ProseKept, ProseType, N!Leave
  <2> QED
    BY <2>1, <2>2, <2>3, <2>4, <2>5, <2>6, <2>7 DEF ProseType
<1>2. Told(w)'
  BY DEF ProseKept, ProseType, N!Leave, Told, N!Written
<1>3. ASSUME NEW v \in Workers \ {w} PROVE Told(v)'
  BY <1>3, ToldStays DEF ProseKept, ProseType, N!Leave
<1>4. CacheKept'
  BY DEF ProseKept, CacheKept, N!Leave
<1> QED
  BY <1>1, <1>2, <1>3, <1>4 DEF ProseKept

LEMMA ProseNext == ProseKept /\ [N!Next]_N!vars => ProseKept'
<1> SUFFICES ASSUME ProseKept, [N!Next]_N!vars PROVE ProseKept'
  OBVIOUS
<1>1. ASSUME UNCHANGED N!vars PROVE ProseKept'
  BY <1>1 DEF N!vars, N!own, ProseKept, ProseType, CacheKept, Told, N!Written
<1>2. ASSUME NEW w \in Workers, NEW articles, NEW named, N!ReadNews(w, articles, named)
      PROVE  ProseKept'
  <2>1. ProseType'
    <3>1. at' \in [Workers -> Stages]
      BY <1>2 DEF ProseKept, ProseType, N!ReadNews, Stages
    <3>2. DOMAIN material' = Workers /\ material' = [v \in Workers |-> material'[v]]
      BY <1>2 DEF ProseKept, ProseType, N!ReadNews
    <3>3. prompt' = [v \in Workers |-> prompt'[v]]
      BY <1>2 DEF ProseKept, ProseType, N!ReadNews
    <3>4. answer' = [v \in Workers |-> answer'[v]]
      BY <1>2 DEF ProseKept, ProseType, N!ReadNews
    <3>5. shown' = [v \in Workers |-> shown'[v]]
      BY <1>2 DEF ProseKept, ProseType, N!ReadNews
    <3>6. metrics' = [v \in Workers |-> metrics'[v]]
      BY <1>2 DEF ProseKept, ProseType, N!ReadNews
    <3>7. writtenFor' = [v \in Workers |-> writtenFor'[v]]
      BY <1>2 DEF ProseKept, ProseType, N!ReadNews
    <3> QED
      BY <3>1, <3>2, <3>3, <3>4, <3>5, <3>6, <3>7 DEF ProseType
  <2>2. Told(w)'
    BY <1>2 DEF ProseKept, ProseType, N!ReadNews, Told, N!Written
  <2>3. ASSUME NEW v \in Workers \ {w} PROVE Told(v)'
    BY <1>2, <2>3, ToldStays DEF ProseKept, ProseType, N!ReadNews
  <2>4. CacheKept'
    BY <1>2 DEF ProseKept, CacheKept, N!ReadNews
  <2> QED
    BY <2>1, <2>2, <2>3, <2>4 DEF ProseKept
<1>3. ASSUME NEW w \in Workers, NEW filing, N!ReadFiling(w, filing) PROVE ProseKept'
  <2>1. /\ at[w] = "news" /\ at' = [at EXCEPT ![w] = "read"]
        /\ \E m : material' = [material EXCEPT ![w] = m]
        /\ UNCHANGED <<prompt, answer, shown, metrics, writtenFor, cache>>
    <3>1. CASE UNCHANGED material
      <4>1. material' = [material EXCEPT ![w] = material[w]]
        BY <3>1 DEF ProseKept, ProseType
      <4> QED
        BY <1>3, <4>1 DEF N!ReadFiling
    <3>2. ASSUME NEW m, material' = [material EXCEPT ![w] = m]
          PROVE  \E n : material' = [material EXCEPT ![w] = n]
      BY <3>2
    <3> QED
      BY <1>3, <3>1, <3>2 DEF N!ReadFiling
  <2>2. ProseType'
    BY <2>1 DEF ProseKept, ProseType, Stages
  <2>3. Told(w)'
    BY <2>1 DEF ProseKept, ProseType, Told, N!Written
  <2>4. ASSUME NEW v \in Workers \ {w} PROVE Told(v)'
    BY <2>1, <2>4, ToldStays DEF ProseKept, ProseType
  <2>5. CacheKept'
    BY <2>1 DEF ProseKept, CacheKept
  <2> QED
    BY <2>2, <2>3, <2>4, <2>5 DEF ProseKept
<1>4. ASSUME NEW w \in Workers, NEW rating, NEW growth, NEW days, N!Compose(w, rating, growth, days)
      PROVE  ProseKept'
  <2>1. /\ at[w] = "read" /\ at' = [at EXCEPT ![w] = "asking"]
        /\ \E m : material' = [material EXCEPT ![w] = m]
        /\ prompt' = [prompt EXCEPT ![w] = N!PromptOf(material'[w])]
        /\ UNCHANGED <<answer, shown, metrics, writtenFor, cache>>
    <3>1. \E m : material' = [material EXCEPT ![w] = m]
      BY <1>4 DEF ProseKept, ProseType, N!Compose
    <3> QED
      BY <1>4, <3>1 DEF N!Compose
  <2>2. ProseType'
    <3>1. PICK m : material' = [material EXCEPT ![w] = m]
      BY <2>1
    <3>2. DOMAIN material' = Workers /\ material' = [v \in Workers |-> material'[v]]
      BY <3>1 DEF ProseKept, ProseType
    <3>3. prompt' = [v \in Workers |-> prompt'[v]]
      BY <2>1 DEF ProseKept, ProseType
    <3>4. at' \in [Workers -> Stages]
      BY <2>1 DEF ProseKept, ProseType, Stages
    <3> QED
      BY <2>1, <3>2, <3>3, <3>4 DEF ProseKept, ProseType
  <2>3. Told(w)'
    BY <2>1 DEF ProseKept, ProseType, Told, N!Written
  <2>4. ASSUME NEW v \in Workers \ {w} PROVE Told(v)'
    BY <2>1, <2>4, ToldStays DEF ProseKept, ProseType
  <2>5. CacheKept'
    BY <2>1 DEF ProseKept, CacheKept
  <2> QED
    BY <2>2, <2>3, <2>4, <2>5 DEF ProseKept
<1>5. ASSUME NEW w \in Workers, N!TakeFromCache(w) PROVE ProseKept'
  <2>1. PICK kept \in cache : kept.key = N!Key(prompt[w]) /\ N!Present(w, kept.answer, kept.writtenFor)
    BY <1>5 DEF N!TakeFromCache
  <2>2. kept.writtenFor = prompt[w] /\ kept.answer \in Seq(N!Lines)
    BY <2>1 DEF ProseKept, CacheKept, N!Key
  <2>3. CacheKept'
    BY <1>5 DEF ProseKept, CacheKept, N!TakeFromCache
  <2>4. at[w] \in {"asking", "called"}
    BY <1>5 DEF N!TakeFromCache
  <2> QED
    BY <2>1, <2>2, <2>3, <2>4, PresentTold DEF ProseKept
<1>6. ASSUME NEW w \in Workers, N!Ask(w) PROVE ProseKept'
  <2>1. ProseType'
    <3>1. at' \in [Workers -> Stages]
      BY <1>6 DEF ProseKept, ProseType, N!Ask, Stages
    <3>2. DOMAIN material' = Workers /\ material' = [v \in Workers |-> material'[v]]
      BY <1>6 DEF ProseKept, ProseType, N!Ask
    <3>3. prompt' = [v \in Workers |-> prompt'[v]]
      BY <1>6 DEF ProseKept, ProseType, N!Ask
    <3>4. answer' = [v \in Workers |-> answer'[v]]
      BY <1>6 DEF ProseKept, ProseType, N!Ask
    <3>5. shown' = [v \in Workers |-> shown'[v]]
      BY <1>6 DEF ProseKept, ProseType, N!Ask
    <3>6. metrics' = [v \in Workers |-> metrics'[v]]
      BY <1>6 DEF ProseKept, ProseType, N!Ask
    <3>7. writtenFor' = [v \in Workers |-> writtenFor'[v]]
      BY <1>6 DEF ProseKept, ProseType, N!Ask
    <3> QED
      BY <3>1, <3>2, <3>3, <3>4, <3>5, <3>6, <3>7 DEF ProseType
  <2>2. Told(w)'
    BY <1>6 DEF ProseKept, ProseType, N!Ask, Told, N!Written
  <2>3. ASSUME NEW v \in Workers \ {w} PROVE Told(v)'
    BY <1>6, <2>3, ToldStays DEF ProseKept, ProseType, N!Ask
  <2>4. CacheKept'
    BY <1>6 DEF ProseKept, CacheKept, N!Ask
  <2> QED
    BY <2>1, <2>2, <2>3, <2>4 DEF ProseKept
<1>7. ASSUME NEW w \in Workers, NEW a \in Seq(N!Lines), N!Generate(w, a) PROVE ProseKept'
  <2>1. at[w] \in {"asking", "called"} /\ N!Present(w, a, prompt[w])
    BY <1>7 DEF N!Generate
  <2>2. CacheKept'
    BY <1>7 DEF ProseKept, CacheKept, N!Generate
  <2> QED
    BY <2>1, <2>2, PresentTold DEF ProseKept
<1>8. ASSUME NEW w \in Workers, N!NoAnswer(w) \/ N!Finish(w) PROVE ProseKept'
  BY <1>8, LeaveTold DEF N!NoAnswer, N!Finish
<1>9. ASSUME NEW w \in Workers, NEW n, NEW e, NEW g, N!Evaluate(w, n, e, g) PROVE ProseKept'
  <2>1. ProseType'
    <3>1. at' \in [Workers -> Stages]
      BY <1>9 DEF ProseKept, ProseType, N!Evaluate, Stages
    <3>2. DOMAIN material' = Workers /\ material' = [v \in Workers |-> material'[v]]
      BY <1>9 DEF ProseKept, ProseType, N!Evaluate
    <3>3. prompt' = [v \in Workers |-> prompt'[v]]
      BY <1>9 DEF ProseKept, ProseType, N!Evaluate
    <3>4. answer' = [v \in Workers |-> answer'[v]]
      BY <1>9 DEF ProseKept, ProseType, N!Evaluate
    <3>5. shown' = [v \in Workers |-> shown'[v]]
      BY <1>9 DEF ProseKept, ProseType, N!Evaluate
    <3>6. metrics' = [v \in Workers |-> metrics'[v]]
      BY <1>9 DEF ProseKept, ProseType, N!Evaluate
    <3>7. writtenFor' = [v \in Workers |-> writtenFor'[v]]
      BY <1>9 DEF ProseKept, ProseType, N!Evaluate
    <3> QED
      BY <3>1, <3>2, <3>3, <3>4, <3>5, <3>6, <3>7 DEF ProseType
  <2>2. Told(w)'
    <3>1. metrics'[w] = N!ScoresOf(answer'[w], shown'[w], material'[w], n, e, g)
      BY <1>9 DEF ProseKept, ProseType, N!Evaluate
    <3> QED
      BY <1>9, <3>1 DEF ProseKept, ProseType, N!Evaluate, Told, N!Written
  <2>3. ASSUME NEW v \in Workers \ {w} PROVE Told(v)'
    BY <1>9, <2>3, ToldStays DEF ProseKept, ProseType, N!Evaluate
  <2>4. CacheKept'
    BY <1>9 DEF ProseKept, CacheKept, N!Evaluate
  <2> QED
    BY <2>1, <2>2, <2>3, <2>4 DEF ProseKept
<1>10. ASSUME N!Forget PROVE ProseKept'
  BY <1>10 DEF N!Forget, N!own, ProseKept, ProseType, CacheKept, Told, N!Written
<1> QED
  BY <1>1, <1>2, <1>3, <1>4, <1>5, <1>6, <1>7, <1>8, <1>9, <1>10 DEF N!Next


(***************************************************************************)
(* What follows of what was told.                                          *)
(***************************************************************************)

\* Shares of a number of sections.
LEMMA ShareOf ==
  ASSUME NEW n \in Nat \ {0}, NEW k \in 0..n
  PROVE  (N!Percent(k, n) = 100 <=> k = n) /\ (N!Percent(k, n) = 0 <=> k * 100 < n)
<1>1. N!Percent(k, n) = (k * 100) \div n
  BY DEF N!Percent
<1> QED
  BY <1>1, SMTT(30)


\* The prompt has the rating, the day, the divergence and the numbered items of its report.
LEMMA PromptBelongs ==
  ASSUME ProseKept
  PROVE  N!WrittenForThisReport /\ N!NumbersMeanTheSame
<1>1. ASSUME NEW w \in Workers, N!Written(w) PROVE writtenFor[w] = N!PromptOf(material[w])
  BY <1>1 DEF ProseKept, Told, N!Written
<1>2. ASSUME NEW w \in Workers, N!Written(w)
      PROVE  /\ writtenFor[w].rating = material[w].rating
             /\ writtenFor[w].upcoming = N!Upcoming(material[w].days)
             /\ writtenFor[w].divergence = N!Diverges(material[w].growth)
             /\ \A n \in DOMAIN material[w].selected :
                  writtenFor[w].news.items[n] = N!AsRead(material[w].selected[n])
             /\ writtenFor[w].evidence = material[w].retrieved
  <2>1. writtenFor[w] = N!PromptOf(material[w])
    BY <1>1, <1>2
  <2> QED
    BY <2>1 DEF N!PromptOf, N!NewsBlock, N!EvidenceBlock
<1>3. N!WrittenForThisReport
  BY <1>2 DEF N!WrittenForThisReport
<1>4. N!NumbersMeanTheSame
  BY <1>2 DEF N!NumbersMeanTheSame
<1> QED
  BY <1>3, <1>4

LEMMA HeadingsHold ==
  ASSUME ProseKept
  PROVE  N!ShownUnderItsHeading
<1> SUFFICES ASSUME NEW w \in Workers, N!Written(w), NEW i \in DOMAIN answer[w], NEW s \in Sections
             PROVE  i \in shown[w][s].text <=>
                      /\ answer[w][i].says # Missing /\ answer[w][i].says.tone # "drift"
                      /\ \E h \in DOMAIN answer[w] :
                           /\ h < i /\ answer[w][h].heading = s
                           /\ \A j \in DOMAIN answer[w] : j < h => answer[w][j].heading # s
                           /\ \A j \in {k \in DOMAIN answer[w] : h < k /\ k < i} :
                                /\ answer[w][j].heading = Missing
                                /\ answer[w][j].says # Missing => answer[w][j].says.tone # "drift"
  BY DEF N!ShownUnderItsHeading
<1> DEFINE a == answer[w]
<1>1. a \in Seq(N!Lines) /\ shown[w] = N!SectionsOf(a, material[w].rating)
  BY DEF ProseKept, Told
<1>2. i \in shown[w][s].text <=> \E h \in DOMAIN a : Opens(a, h, s) /\ Under(a, h, i)
  BY <1>1, TextIsUnder
<1>3. s # Missing /\ DOMAIN a \subseteq Nat
  BY <1>1, NarrativeAssumption
<1> HIDE DEF a
<1>4. ASSUME NEW h \in DOMAIN a
      PROVE  Opens(a, h, s) <=> a[h].heading = s /\ \A j \in DOMAIN a : j < h => a[j].heading # s
  BY <1>3 DEF Opens, N!Headings
<1> QED
  BY <1>2, <1>4 DEF Under, a

LEMMA NotesHold ==
  ASSUME ProseKept
  PROVE  N!ContradictionsAreNoted
<1> SUFFICES ASSUME NEW w \in Workers, N!Written(w), NEW s \in Sections
             PROVE  shown[w][s].note <=>
                      \E i \in shown[w][s].text :
                        N!Contradicts(material[w].rating, answer[w][i].says.tone)
  BY DEF N!ContradictionsAreNoted
<1>1. shown[w] = N!SectionsOf(answer[w], material[w].rating)
  BY DEF ProseKept, Told
<1> QED
  BY <1>1 DEF N!SectionsOf

LEMMA SameCardinality == \A S : N!Cardinality(S) = Cardinality(S)
BY DEF N!Cardinality, Cardinality

LEMMA ScoresHold ==
  ASSUME ProseKept
  PROVE  N!FailuresAreScored
<1> SUFFICES ASSUME NEW w \in Workers, at[w] = "scored"
             PROVE  /\ metrics[w].absent = {s \in Sections : shown[w][s].text = {}}
                    /\ metrics[w].completeness = 100 <=> metrics[w].absent = {}
                    /\ metrics[w].completeness = 0 <=> metrics[w].absent = Sections
  BY DEF N!FailuresAreScored
<1>1. shown[w] = N!SectionsOf(answer[w], material[w].rating)
  BY DEF ProseKept, Told, N!Written
<1>2. ASSUME NEW s \in Sections, shown[w][s].placeholder PROVE shown[w][s].text = {}
  <2>1. shown[w][s].placeholder = (s \notin DOMAIN N!Split(answer[w]))
    BY <1>1 DEF N!SectionsOf
  <2>2. shown[w][s].text
          = IF s \in DOMAIN N!Split(answer[w]) THEN N!Split(answer[w])[s] ELSE {}
    BY <1>1 DEF N!SectionsOf
  <2> QED
    BY <1>2, <2>1, <2>2
<1> DEFINE absent == {s \in Sections : shown[w][s].text = {}}
           n == Cardinality(Sections)
           k == Cardinality(Sections \ absent)
<1>3. N!MissingSections(shown[w]) = absent
  BY <1>2 DEF N!MissingSections
<1>4. PICK news, evidence, grounding :
        metrics[w] = N!ScoresOf(answer[w], shown[w], material[w], news, evidence, grounding)
  BY DEF ProseKept, Told
<1>5. metrics[w].absent = absent /\ metrics[w].completeness = N!Percent(k, n)
  <2>1. metrics[w].absent = N!MissingSections(shown[w])
    BY <1>4 DEF N!ScoresOf
  <2>2. metrics[w].completeness
          = N!Percent(Cardinality(Sections \ N!MissingSections(shown[w])), Cardinality(Sections))
    BY <1>4, SameCardinality DEF N!ScoresOf
  <2> QED
    BY <1>3, <2>1, <2>2
<1>6. IsFiniteSet(Sections) /\ n \in 1..100
  BY NarrativeAssumption
<1>7. IsFiniteSet(Sections \ absent) /\ k \in Nat /\ k <= n
  BY <1>6, FS_Subset, FS_CardinalityType
<1>8. k = n <=> absent = {}
  BY <1>6, FS_Subset
<1>9. k = 0 <=> absent = Sections
  BY <1>7, FS_EmptySet
<1> HIDE DEF n, k, absent
<1>10. (N!Percent(k, n) = 100 <=> k = n) /\ (N!Percent(k, n) = 0 <=> k * 100 < n)
  BY <1>6, <1>7, ShareOf
<1>11. k * 100 < n <=> k = 0
  BY <1>6, <1>7
<1> QED
  BY <1>5, <1>8, <1>9, <1>10, <1>11 DEF absent

\* However workers share the cache, and whatever it keeps, forgets or loses, the prose of a
\* report belongs to the data it stands beside (narrative_builder, evaluation_engine): it was
\* written for its rating, its day and its numbered sources, stands under its own headings,
\* notes what contradicts the rating, and is scored by the sections it has.
THEOREM NarrativeKept == N!Spec => []NarrativeHolds
<1>1. ProseKept => NarrativeHolds
  BY PromptBelongs, HeadingsHold, NotesHold, ScoresHold DEF NarrativeHolds, N!NarrativeHolds
<1> QED
  BY <1>1, ProseInit, ProseNext, PTL DEF N!Spec

=============================================================================
