------------------------------ MODULE MCAgent ------------------------------
(***************************************************************************)
(* Agent with a bound on what runs beside what: another request calls the  *)
(* provider, or an earlier job has left its usage there, only beside a job *)
(* of the hand-rolled orchestrator whose question fires the second rule:   *)
(* the former before or after its tools, or during the report.             *)
(* A question about one company fires none of the rules, the first, second *)
(* or last (in the graph, the first or second); a comparison the fifth.    *)
(*                                                                         *)
(* The prose of reports is a scene of its own, of which no run of the      *)
(* agent is a part: what a report cites, how an answer of the model is     *)
(* worded, or what two workers find in the cache.                          *)
(***************************************************************************)
EXTENDS Agent

CONSTANTS
  Workers, Sections, Proximity, TopK, MaxChunkChars, Categories, PerCategoryMin, MaxSelected,
  Filings, Feeds, Growths, Days, Groundings,
  MaxLines,   \* bound: lines of an answer
  MaxCached   \* bound: entries of the cache

ASSUME EvidenceAssumption ==
  /\ MaxChunkChars \in Nat /\ PerCategoryMin \in Nat /\ MaxSelected \in Nat
  /\ Categories \in Seq(STRING) /\ Len(Categories) * PerCategoryMin <= MaxSelected
ASSUME NarrativeAssumption ==
  /\ Missing \notin Sections /\ IsFiniteSet(Sections)
  /\ Cardinality(Sections) \in 1..100   \* five; a share is a whole number of percent
  /\ Proximity \in Nat /\ TopK \in Nat /\ MaxLines \in Nat /\ MaxCached \in Nat
  /\ Days \subseteq Int /\ Groundings \subseteq 0..100

VARIABLES at, material, prompt, answer, shown, metrics, writtenFor, cache, scene

N == INSTANCE Narrative

prose == <<at, material, prompt, answer, shown, metrics, writtenFor, cache>>

MCUpsides == {500}
MCHistories == {200}

Simple ==
  /\ question.orchestrator = "hand_rolled" /\ question.mode = "single"
  /\ question.fired = {2} /\ question.listed

RunInit ==
  /\ Simple \/ usage = Missing
  /\ question.fired \in
       IF question.mode = "comparison" THEN {{5}}
       ELSE IF question.orchestrator = "langgraph" THEN {{1}, {2}} ELSE {{}, {1}, {2}, {6}}

RunNext ==
  /\ Next
  /\ foreign' # foreign => Simple /\ pc # "tools"

-----------------------------------------------------------------------------
(* What the sources and the model may answer *)

MCCategories == <<"litigation", "macro">>

Article(url, byTicker, byName, commas, material_, categories) ==
  [url |-> url, byTicker |-> byTicker, byName |-> byName, commas |-> commas,
   material |-> material_, categories |-> categories]

MCArticles ==
  {Article(1, 1, 0, 0, 0, {"litigation", "macro"}), Article(2, 0, 1, 1, 0, {}),
   Article(3, 0, 2, 0, 1, {}), Article(4, 0, 0, 0, 0, {"litigation"}),
   Article(5, 0, 0, 0, 2, {"macro"}), Article(6, 1, 0, 2, 0, {"macro"})}

\* All articles in some order; the latest is repeated by the oldest; two articles.
MCFeeds ==
  LET all == SetToSeqs(MCArticles)
  IN  {<<>>} \cup {SubSeq(f, 1, 2) : f \in all} \cup all \cup {Append(f, f[1]) : f \in all}

Paragraph(chars, words, quoted) == [chars |-> chars, words |-> words, quoted |-> quoted]

MCParagraphs ==
  {Paragraph(2, {"revenue", "growth"}, "nobody"), Paragraph(4, {"ai", "guidance"}, "CFO"),
   Paragraph(9, {}, "President")}

MCFilings ==
  LET texts == {<<>>} \cup {<<p>> : p \in MCParagraphs}
      turns ==
        [speaker : {"CEO", "Analyst"},
         text : texts \cup {<<p, q>> : p \in {r \in MCParagraphs : r.chars = 9},
                                       q \in {r \in MCParagraphs : r.chars = 2}}]
  IN  {[opening |-> o, turns |-> <<>>] : o \in SeqOf(MCParagraphs, 4)}
        \cup {[opening |-> o, turns |-> t] : o \in {<<>>, <<CHOOSE p \in MCParagraphs : TRUE>>},
                                          t \in SeqOf(turns, 3)}

MCGrowths ==
  {[cash |-> -1, revenue |-> 1, income |-> Missing], [cash |-> 1, revenue |-> 1, income |-> -1]}

Sentence(tone, news, evidence) == [tone |-> tone, news |-> news, evidence |-> evidence]
Cited == Sentence("plain", {2}, {1})
Bullish == Sentence("bullish", {}, {})
Drift == Sentence("drift", {1}, {})

WordedLines ==
  [says : {Cited, Bullish, Drift, Missing}, heading : Sections \cup {Missing}]
    \ {[says |-> Missing, heading |-> Missing]}

\* An answer that says what its report is about, as far as it goes: one sentence a section.
Whole(tone) ==
  LET order == SetToSeq(Sections)
  IN  [i \in 1..(2 * Len(order)) |->
         IF i % 2 = 1 THEN [says |-> Missing, heading |-> order[(i + 1) \div 2]]
         ELSE [says |-> Sentence(tone, {1}, {1, 2}), heading |-> Missing]]

-----------------------------------------------------------------------------
(* The scenes *)

Small == CHOOSE f \in Feeds : Len(f) = 2
Brief == [opening |-> <<CHOOSE p \in MCParagraphs : TRUE>>, turns |-> <<>>]
Plain == [opening |-> SetToSeq(MCParagraphs), turns |-> <<>>]

\* What a report may cite: rich in the news, or in the filing.
QuotesNext ==
  \E w \in Workers :
    /\ \A v \in Workers \ {w} : at[v] = "idle"
    /\ \/ /\ at[w] = "idle"
          /\ \E articles \in Feeds, named \in BOOLEAN : N!ReadNews(w, articles, named)
       \/ /\ at[w] = "news" /\ material[w].articles = <<>>
          /\ \E filing \in Filings \cup {Missing} : N!ReadFiling(w, filing)

\* How one report is worded.
WordingNext ==
  LET w == CHOOSE v \in Workers : TRUE
  IN  \/ N!ReadNews(w, Small, TRUE)
      \/ N!ReadFiling(w, Brief)
      \/ N!Compose(w, "Sell", CHOOSE g \in Growths : TRUE, Missing)
      \/ N!Ask(w)
      \/ at[w] = "called" /\ \E a \in SeqOf(WordedLines, MaxLines) : N!Generate(w, a)
      \/ \E g \in Groundings : N!Evaluate(w, {}, {}, g)

\* Two workers and the cache.
SharedNext ==
  \/ \E w \in Workers :
       \/ N!ReadNews(w, Small, TRUE)
       \/ N!ReadFiling(w, Plain)
       \/ \E rating \in {"Buy", "Sell"}, growth \in Growths, days \in Days :
            N!Compose(w, rating, growth, days)
       \/ N!TakeFromCache(w) \/ N!Ask(w) \/ N!NoAnswer(w) \/ N!Finish(w)
       \/ N!Generate(w, Whole("bullish"))
       \/ N!Evaluate(w, {}, DOMAIN material[w].retrieved, 0)
  \/ N!Forget
SharedStep == SharedNext /\ Cardinality(cache') <= MaxCached

MCInit ==
  /\ Init /\ N!Init
  /\ scene \in {"run", "quotes", "wording", "shared"}
  /\ IF scene = "run" THEN RunInit
     ELSE Simple /\ usage = Missing

MCNext ==
  /\ UNCHANGED scene
  /\ \/ scene = "run" /\ RunNext /\ UNCHANGED prose
     \/ scene = "quotes" /\ QuotesNext /\ UNCHANGED vars
     \/ scene = "wording" /\ WordingNext /\ UNCHANGED vars
     \/ scene = "shared" /\ SharedStep /\ UNCHANGED vars

MCSpec ==
  /\ MCInit /\ [][MCNext]_<<vars, prose, scene>>
  /\ WF_vars(scene = "run" /\ JobStep)

-----------------------------------------------------------------------------
(* The properties of Narrative, of this instance *)

\* The prose of a report belongs to the data it stands beside: to its rating, its day, its
\* numbered sources; under its own headings, with what contradicts the rating noted and what
\* is missing counted.
NarrativeHolds == N!NarrativeHolds

\* What the model is given to cite is what the filing says and what the news hold for it;
\* the report lists it, and its scores count it.
EvidenceHolds == N!EvidenceHolds

\* What the docstrings of narrative_builder, Text_chunker and news_client say, and the code
\* does not keep.
WrittenIsShown == N!WrittenIsShown
ChunksFit == N!ChunksFit
CompanyComesFirst == N!CompanyComesFirst
=============================================================================
