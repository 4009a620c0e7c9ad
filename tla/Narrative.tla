------------------------------ MODULE Narrative ------------------------------
(***************************************************************************)
(* The prose of a report: what news_tool and rag_tool put before the       *)
(* model, the narrative that report_tool has it write in one call          *)
(* (reporting/narrative_builder.py) or takes from the cache that all       *)
(* workers share (core/cache.py), and what evaluation_tool makes of it     *)
(* (app/evaluation).  The reports here are of one ticker.                  *)
(*                                                                         *)
(* Of the model's answer remain its lines: each is a sentence, a heading,  *)
(* or a sentence with a heading glued to its end.  A heading that shares   *)
(* its line with what follows it, or is glued on without a "#", is not     *)
(* recognised: that line is a sentence.                                    *)
(***************************************************************************)
EXTENDS Evidence

CONSTANTS
  Missing,
  Workers,    \* threads that write reports
  Sections,   \* NARRATIVE_SECTIONS
  Ratings,    \* of a report; "Buy" and "Sell" among them
  Proximity,  \* EARNINGS_PROXIMITY_DAYS
  TopK,       \* TOP_K_EVIDENCE
  Filings, Feeds,  \* what the sources may answer
  Growths,    \* growth of free cash flow, revenue and income
  Days,       \* days until the next earnings
  Groundings  \* shares, in percent, of the claims that the summary supports

VARIABLES
  at,        \* where a worker is with its report
  material,  \* what its report is written from
  prompt,    \* what its model is asked
  answer,    \* what it was answered
  shown,     \* the sections of its report
  metrics,   \* the scores of its report
  writtenFor, \* history: the prompt that the answer was written for
  cache      \* answers kept, by the key of the prompt

own == <<at, material, prompt, answer, shown, metrics, writtenFor>>
vars == <<own, cache>>

\* The tone is that of the phrases watched for; what the model says beside the report is
\* drift.  A sentence may be tagged with items by their number.
Sentences ==
  [tone : {"plain", "bullish", "bearish", "drift"}, news : SUBSET Nat, evidence : SUBSET Nat]
Lines ==
  [says : Sentences \cup {Missing}, heading : Sections \cup {Missing}]

-----------------------------------------------------------------------------
(* The prompt *)

\* _growth_divergence_block: cash falls while revenue or income grow.
Diverges(growth) ==
  /\ growth.cash # Missing /\ growth.cash < 0
  /\ \E g \in {growth.revenue, growth.income} : g # Missing /\ g > 0

\* _earnings_proximity_block, of the days that are left today.
Upcoming(days) == IF days \in 0..Proximity THEN days ELSE Missing

\* An article as it is put to the model, which is not given the address.
AsRead(article) == [f \in DOMAIN article \ {"url"} |-> article[f]]

\* _news_data_block: the articles by number, and the numbers by category.
NewsBlock(m) ==
  [found |-> Len(m.articles), items |-> [n \in DOMAIN m.selected |-> AsRead(m.selected[n])],
   byCategory |-> [c \in ToSet(Categories) |->
                     {n \in DOMAIN m.selected : c \in m.selected[n].categories}]]

\* ResearchSummaryBuilder: the chunks by number, in the order in which they were retrieved.
EvidenceBlock(m) == m.retrieved

\* _build_prompt
PromptOf(m) ==
  [rating |-> m.rating, growth |-> m.growth, divergence |-> Diverges(m.growth),
   upcoming |-> Upcoming(m.days), news |-> NewsBlock(m), evidence |-> EvidenceBlock(m)]

\* Variant: the day on which the prompt is built does not count.
KeyWithoutDay(p) == [p EXCEPT !.upcoming = Missing]

\* make_key: a hash of the ticker and the whole prompt.
Key(p) == p

-----------------------------------------------------------------------------
(* From the answer to the sections.  A section is known by its lines of the answer. *)

Headings(a) == {i \in DOMAIN a : a[i].heading # Missing}

\* The heading that counts: of several of the same name the first.
First(a, s) ==
  CHOOSE i \in Headings(a) :
    a[i].heading = s /\ \A j \in Headings(a) : a[j].heading = s => i <= j

\* The lines up to the next heading, whose own line may begin with a sentence; cut where
\* the model drifts.
Content(a, h) ==
  {i \in DOMAIN a :
     /\ i > h /\ a[i].says # Missing
     /\ \A j \in Headings(a) : j > h => i <= j
     /\ \A j \in DOMAIN a : h < j /\ j <= i /\ a[j].says # Missing => a[j].says.tone # "drift"}

\* _split_sections
Split(a) ==
  [s \in {a[i].heading : i \in Headings(a)} |-> Content(a, First(a, s))]

\* _apply_contradiction_guardrail
Contradicts(rating, tone) ==
  (rating = "Sell" /\ tone = "bullish") \/ (rating = "Buy" /\ tone = "bearish")

\* build_narrative_sections: a section without a heading has a placeholder for its text.
SectionsOf(a, rating) ==
  LET found == Split(a)
      Text(s) == IF s \in DOMAIN found THEN found[s] ELSE {}
  IN  [s \in Sections |->
         [text |-> Text(s), placeholder |-> s \notin DOMAIN found,
          note |-> \E i \in Text(s) : Contradicts(rating, a[i].says.tone)]]

-----------------------------------------------------------------------------
(* The evaluation *)

\* ReportValidator: the placeholder, or nothing.
MissingSections(sections) ==
  {s \in Sections : sections[s].placeholder \/ sections[s].text = {}}

\* The numbers that the tags of the report name, of the items there are.
Tagged(a, sections, items, field) ==
  {n \in DOMAIN items : \E s \in Sections : \E i \in sections[s].text : n \in a[i].says[field]}

\* A share in whole percent.
Percent(part, whole) == IF whole = 0 THEN 0 ELSE (part * 100) \div whole

\* ScoreAggregator, in hundredths of a percent.  The news do not count.
Overall(grounding, retrieval, citation, completeness) ==
  40 * grounding + 20 * retrieval + 20 * citation + 20 * completeness

\* RetrievalEvaluator: five chunks are all that is asked for.
RetrievalScore(m) == Min({Len(m.retrieved) * 20, 100})

\* EvaluationEngine: an item also counts as used when the report shares enough of its words.
ScoresOf(a, sections, m, paraphrasedNews, paraphrased, grounding) ==
  LET evidence == Tagged(a, sections, m.retrieved, "evidence") \cup paraphrased
      absent == MissingSections(sections)
      completeness == Percent(Cardinality(Sections \ absent), Cardinality(Sections))
  IN  [news |-> Tagged(a, sections, m.selected, "news") \cup paraphrasedNews,
       evidence |-> evidence, absent |-> absent, completeness |-> completeness,
       overall |-> Overall(grounding, RetrievalScore(m),
                           Percent(Cardinality(evidence), Len(m.retrieved)), completeness)]

-----------------------------------------------------------------------------
NoMaterial ==
  [articles |-> <<>>, named |-> FALSE, selected |-> <<>>, filing |-> Missing, chunks |-> <<>>,
   retrieved |-> <<>>, citations |-> <<>>, rating |-> Missing, growth |-> Missing,
   days |-> Missing, references |-> <<>>]

Init ==
  /\ at = [w \in Workers |-> "idle"]
  /\ material = [w \in Workers |-> NoMaterial]
  /\ prompt = [w \in Workers |-> Missing]
  /\ answer = [w \in Workers |-> <<>>]
  /\ shown = [w \in Workers |-> Missing]
  /\ metrics = [w \in Workers |-> Missing]
  /\ writtenFor = [w \in Workers |-> Missing]
  /\ cache = {}

\* NewsTool, for a company whose name the context may not have.
ReadNews(w, articles, named) ==
  /\ at[w] = "idle"
  /\ at' = [at EXCEPT ![w] = "news"]
  /\ material' = [material EXCEPT ![w] =
       [NoMaterial EXCEPT !.articles = articles, !.named = named,
                          !.selected = SelectForAnalysis(articles, named)]]
  /\ UNCHANGED <<prompt, answer, shown, metrics, writtenFor, cache>>

\* query_documents: those of the chunks that are the most similar to the question.
Similar(chunks) ==
  LET k == Min({TopK, Len(chunks)})
  IN  {[i \in 1..k |-> chunks[o[i]]] : o \in {f \in [1..k -> DOMAIN chunks] : IsInjective(f)}}

\* RAGTool: without a filing there is no evidence.
ReadFiling(w, filing) ==
  /\ at[w] = "news"
  /\ at' = [at EXCEPT ![w] = "read"]
  /\ \/ filing = Missing /\ UNCHANGED material
     \/ /\ filing # Missing
        /\ \E retrieved \in Similar(Chunks(filing)) :
             material' = [material EXCEPT ![w] =
               [@ EXCEPT !.filing = filing, !.chunks = Chunks(filing), !.retrieved = retrieved,
                         !.citations = Citations(retrieved)]]
  /\ UNCHANGED <<prompt, answer, shown, metrics, writtenFor, cache>>

\* build_report_data has derived the rating and listed the references; the prompt is built,
\* today.
Compose(w, rating, growth, days) ==
  /\ at[w] = "read"
  /\ at' = [at EXCEPT ![w] = "asking"]
  /\ material' = [material EXCEPT ![w] =
       [@ EXCEPT !.rating = rating, !.growth = growth, !.days = days,
                 !.references = References(material[w].filing # Missing, material[w].citations,
                                           material[w].selected)]]
  /\ prompt' = [prompt EXCEPT ![w] = PromptOf(material'[w])]
  /\ UNCHANGED <<answer, shown, metrics, writtenFor, cache>>

\* The report is assembled from an answer.
Present(w, a, p) ==
  /\ at' = [at EXCEPT ![w] = "shown"]
  /\ answer' = [answer EXCEPT ![w] = a]
  /\ shown' = [shown EXCEPT ![w] = SectionsOf(a, material[w].rating)]
  /\ writtenFor' = [writtenFor EXCEPT ![w] = p]
  /\ UNCHANGED <<material, prompt, metrics>>

\* cache_get
TakeFromCache(w) ==
  /\ at[w] = "asking"
  /\ \E kept \in cache :
       kept.key = Key(prompt[w]) /\ Present(w, kept.answer, kept.writtenFor)
  /\ UNCHANGED cache

\* Nothing is found, or Redis is away, and the model is called.
Ask(w) ==
  /\ at[w] = "asking"
  /\ at' = [at EXCEPT ![w] = "called"]
  /\ UNCHANGED <<material, prompt, answer, shown, metrics, writtenFor, cache>>

\* The model answers; cache_set replaces what another worker has put there, or is lost.
Generate(w, a) ==
  /\ at[w] = "called"
  /\ Present(w, a, prompt[w])
  /\ LET entry == [key |-> Key(prompt[w]), answer |-> a, writtenFor |-> prompt[w]]
     IN  cache' \in {cache, {e \in cache : e.key # entry.key} \cup {entry}}

\* The run is over, and with it its context.
Leave(w) ==
  /\ at' = [at EXCEPT ![w] = "idle"]
  /\ material' = [material EXCEPT ![w] = NoMaterial]
  /\ prompt' = [prompt EXCEPT ![w] = Missing]
  /\ answer' = [answer EXCEPT ![w] = <<>>]
  /\ shown' = [shown EXCEPT ![w] = Missing]
  /\ metrics' = [metrics EXCEPT ![w] = Missing]
  /\ writtenFor' = [writtenFor EXCEPT ![w] = Missing]
  /\ UNCHANGED cache

\* The provider raises, and so does report_tool: the run ends without a report.
NoAnswer(w) == at[w] = "called" /\ Leave(w)

\* EvaluationTool
Evaluate(w, paraphrasedNews, paraphrased, grounding) ==
  /\ at[w] = "shown"
  /\ at' = [at EXCEPT ![w] = "scored"]
  /\ metrics' = [metrics EXCEPT ![w] =
       ScoresOf(answer[w], shown[w], material[w], paraphrasedNews, paraphrased, grounding)]
  /\ UNCHANGED <<material, prompt, answer, shown, writtenFor, cache>>

Finish(w) == at[w] = "scored" /\ Leave(w)

\* An entry expires, or no longer bears the signature of the process.
Forget ==
  /\ \E e \in cache : cache' = cache \ {e}
  /\ UNCHANGED own

Next ==
  \/ \E w \in Workers :
       \/ \E articles \in Feeds, named \in BOOLEAN : ReadNews(w, articles, named)
       \/ \E filing \in Filings \cup {Missing} : ReadFiling(w, filing)
       \/ \E rating \in Ratings, growth \in Growths, days \in Days \cup {Missing} :
            Compose(w, rating, growth, days)
       \/ TakeFromCache(w) \/ Ask(w) \/ NoAnswer(w) \/ Finish(w)
       \/ \E a \in Seq(Lines) : Generate(w, a)
       \/ \E n \in SUBSET DOMAIN material[w].selected, e \in SUBSET DOMAIN material[w].retrieved,
             g \in Groundings : Evaluate(w, n, e, g)
  \/ Forget

Spec == Init /\ [][Next]_vars

-----------------------------------------------------------------------------
(* Properties *)

Written(w) == at[w] \in {"shown", "scored"}

\* A report shows what the model wrote for the rating, the days left, the articles and the
\* chunks that it is about, whatever answers the cache has kept.
WrittenForThisReport ==
  \A w \in Workers : Written(w) =>
    /\ writtenFor[w].rating = material[w].rating
    /\ writtenFor[w].upcoming = Upcoming(material[w].days)
    /\ writtenFor[w].divergence = Diverges(material[w].growth)

\* A number in the text means to the reader, and to the evaluation, what it meant to the
\* model: the chunk that stood under it in the prompt, or an article that reads the same.
NumbersMeanTheSame ==
  \A w \in Workers : Written(w) =>
    /\ \A n \in DOMAIN material[w].selected :
         writtenFor[w].news.items[n] = AsRead(material[w].selected[n])
    /\ \A n \in DOMAIN material[w].retrieved : writtenFor[w].evidence[n] = material[w].retrieved[n]

\* A sentence is shown under a heading exactly when that is the last heading before it, the
\* first of its name, and the model has not drifted in between.
ShownUnderItsHeading ==
  \A w \in Workers : Written(w) =>
    LET a == answer[w]
        Between(h, i) == {j \in DOMAIN a : h < j /\ j < i}
    IN  \A i \in DOMAIN a, s \in Sections :
          i \in shown[w][s].text <=>
            /\ a[i].says # Missing /\ a[i].says.tone # "drift"
            /\ \E h \in DOMAIN a :
                 /\ h < i /\ a[h].heading = s
                 /\ \A j \in DOMAIN a : j < h => a[j].heading # s
                 /\ \A j \in Between(h, i) :
                      a[j].heading = Missing /\ (a[j].says # Missing => a[j].says.tone # "drift")

\* Whatever contradicts the rating stands beside a note that says so, and no other section
\* has the note.
ContradictionsAreNoted ==
  \A w \in Workers : Written(w) =>
    \A s \in Sections :
      shown[w][s].note <=>
        \E i \in shown[w][s].text : Contradicts(material[w].rating, answer[w][i].says.tone)

\* A section counts as missing exactly when no sentence of the model is shown in it, and a
\* report is complete exactly when none is missing.
FailuresAreScored ==
  \A w \in Workers : at[w] = "scored" =>
    /\ metrics[w].absent = {s \in Sections : shown[w][s].text = {}}
    /\ metrics[w].completeness = 100 <=> metrics[w].absent = {}
    /\ metrics[w].completeness = 0 <=> metrics[w].absent = Sections

\* The prose of a report belongs to the data it stands beside.
NarrativeHolds ==
  /\ WrittenForThisReport /\ NumbersMeanTheSame /\ ShownUnderItsHeading
  /\ ContradictionsAreNoted /\ FailuresAreScored

\* The references of a report are its citations and its articles in the order of their
\* numbers, and each citation is of the chunk of that number.
CitesInOrder(m) ==
  LET Listed(type) == SelectSeq(m.references, LAMBDA r : r.type = type)
  IN  m.references # <<>> =>
        /\ Len(Listed("News")) = Len(m.selected)
        /\ \A n \in DOMAIN m.selected : Listed("News")[n].cites = m.selected[n]
        /\ Len(Listed("Retrieved Evidence")) = Len(m.retrieved)
        /\ \A n \in DOMAIN m.retrieved :
             /\ Listed("Retrieved Evidence")[n].cites.id = n
             /\ Listed("Retrieved Evidence")[n].cites.text = m.retrieved[n].text

\* Every score is a share, and a report that shows no sentence of the model gets at most
\* four fifths, however well the rest of it is scored.
ScoresAreShares(w) ==
  at[w] = "scored" =>
    metrics[w].overall \in 0..(IF metrics[w].absent = Sections THEN 8000 ELSE 10000)

\* What the model is given to cite is what the filing says and what the news hold for it; the
\* report lists it, and its scores count it.
EvidenceHolds ==
  \A w \in Workers :
    LET m == material[w]
    IN  /\ SelectsWell(m.articles, m.named, m.selected)
        /\ m.filing # Missing => FilingKept(m.filing, m.chunks)
        /\ CitesInOrder(m) /\ ScoresAreShares(w)

\* What the docstring of _split_sections is about: text that the model wrote under a heading
\* is not lost to an example of the headings that it wrote before.
WrittenIsShown ==
  \A w \in Workers : Written(w) =>
    \A h \in Headings(answer[w]) :
      Content(answer[w], h) # {} => shown[w][answer[w][h].heading].text # {}

\* What the docstring of select_for_analysis says: a generic article is not selected while one
\* about the company is left.
CompanyComesFirst ==
  \A w \in Workers :
    LET m == material[w]
    IN  ExhaustsSpecific(m.articles, m.named, m.selected)

\* What a comment of Text_chunker says: no chunk of more than one paragraph is too long.
ChunksFit ==
  \A w \in Workers : \A c \in ToSet(material[w].chunks) :
    Len(c.text) > 1 => Chars(c.text) <= MaxChunkChars
=============================================================================
