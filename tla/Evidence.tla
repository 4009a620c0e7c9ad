------------------------------ MODULE Evidence ------------------------------
(***************************************************************************)
(* What the model that writes a report is given to cite: the chunks of a   *)
(* filing (rag/Text_chunker.py, rag/citation_engine.py) and the articles   *)
(* selected from the news (reporting/news_client.py).  Pure functions.     *)
(*                                                                         *)
(* A filing is what stands before its first speaker's mark ("CFO:") and    *)
(* the turns of the speakers marked after it.  Of a paragraph remain its   *)
(* length, the keywords in it and whose words it says it quotes; of an     *)
(* article its URL and what the counts on its headline come to.            *)
(***************************************************************************)
EXTENDS Integers, FiniteSets, SequencesExt

CONSTANTS
  MaxChunkChars,   \* MAX_CHUNK_CHARS
  Categories,      \* RISK_CATEGORIES, in order
  PerCategoryMin,  \* PER_CATEGORY_MIN
  MaxSelected      \* MAX_SELECTED, no less than the shares of all categories

-----------------------------------------------------------------------------
(* A filing in chunks *)

\* The paragraphs of a chunk are joined by newlines.
Chars(text) == MapThenSumSet(LAMBDA i : text[i].chars, DOMAIN text) + Len(text) - 1

Words(text) == UNION {text[i].words : i \in DOMAIN text}

\* _split_paragraphs: a chunk is closed when the next paragraph does not fit.
Packed(paragraphs) ==
  LET Add(packed, p) ==
        IF packed.open # <<>> /\ Chars(Append(packed.open, p)) > MaxChunkChars
        THEN [closed |-> Append(packed.closed, packed.open), open |-> <<p>>]
        ELSE [packed EXCEPT !.open = Append(@, p)]
      end == FoldLeft(Add, [closed |-> <<>>, open |-> <<>>], paragraphs)
  IN  IF end.open = <<>> THEN end.closed ELSE Append(end.closed, end.open)

\* _paragraph_block: the first attribution counts, and of the titles only two.
Attributed(text) ==
  LET quotes == SelectSeq(text, LAMBDA p : p.quoted # "nobody")
  IN  IF quotes # <<>> /\ Head(quotes).quoted \in {"CEO", "CFO"}
      THEN Head(quotes).quoted ELSE "Management"

\* _split_by_speaker: what stands before the first mark is in no block.
Blocks(filing) ==
  IF filing.turns # <<>>
  THEN SelectSeq(filing.turns, LAMBDA t : t.text # <<>>)
  ELSE LET texts == Packed(filing.opening)
       IN  [i \in DOMAIN texts |-> [speaker |-> Attributed(texts[i]), text |-> texts[i]]]

\* The keywords of the sections, of which the first that fits is taken.
SectionWords ==
  <<[name |-> "Guidance", words |-> {"guidance", "outlook", "forecast"}],
    [name |-> "Financial Performance", words |-> {"revenue", "sales", "margin", "profit", "eps"}],
    [name |-> "AI", words |-> {"artificial intelligence", "ai", "machine learning", "generative"}],
    [name |-> "Cloud", words |-> {"cloud", "azure", "aws"}],
    [name |-> "Capital Allocation", words |-> {"capital", "buyback", "dividend"}]>>

SectionOf(text) ==
  LET fits == {i \in DOMAIN SectionWords : SectionWords[i].words \cap Words(text) # {}}
  IN  IF fits = {} THEN "General Discussion" ELSE SectionWords[Min(fits)].name

ImportantWords ==
  {"guidance", "revenue", "margin", "eps", "cash flow", "free cash flow", "buyback",
   "capital allocation", "growth", "forecast", "ai", "artificial intelligence", "enterprise",
   "demand", "operating income"}

\* In hundredths.
Importance(text) == Min({50 + 5 * Cardinality(ImportantWords \cap Words(text)), 100})

Chunks(filing) ==
  LET blocks == Blocks(filing)
  IN  [i \in DOMAIN blocks |->
         [index |-> i - 1, speaker |-> blocks[i].speaker, text |-> blocks[i].text,
          section |-> SectionOf(blocks[i].text), importance |-> Importance(blocks[i].text)]]

\* CitationEngine: the metadata of a chunk holds no id, so its rank stands in for it.
Citations(retrieved) ==
  [i \in DOMAIN retrieved |->
     [id |-> i, speaker |-> retrieved[i].speaker, section |-> retrieved[i].section,
      importance |-> retrieved[i].importance, text |-> retrieved[i].text]]

-----------------------------------------------------------------------------
(* The articles of a ticker, the latest first.  named is whether market_data_tool has *)
(* left the company's name on the context: without it only the ticker is looked for.  *)

Mentions(a, named) == a.byTicker + (IF named THEN a.byName ELSE 0)
Specific(a, named) == Mentions(a, named) > 0
Centrality(a, named) == Mentions(a, named) - a.commas + a.material

Urls(articles) == {articles[i].url : i \in DOMAIN articles}

\* The most central first, of equals the later one: a stable sort.
Ranked(articles, named) ==
  LET specific == {i \in DOMAIN articles : Specific(articles[i], named)}
      Before(i) ==
        {j \in specific :
           \/ Centrality(articles[j], named) > Centrality(articles[i], named)
           \/ Centrality(articles[j], named) = Centrality(articles[i], named) /\ j < i}
      Place(k) == CHOOSE i \in specific : Cardinality(Before(i)) = k - 1
  IN  [k \in 1..Cardinality(specific) |-> articles[Place(k)]]

\* take: up to n more, none twice, and no more in all than there is room for.
Take(selected, pool, n) ==
  LET Add(s, a) ==
        IF Len(s) >= MaxSelected \/ Len(s) >= Len(selected) + n \/ a.url \in Urls(s)
        THEN s ELSE Append(s, a)
  IN  FoldLeft(Add, selected, pool)

\* Variant: the generic articles fill up before the specific ones are exhausted.
SelectByRecency(articles, named) ==
  LET In(c) == SelectSeq(articles, LAMBDA a : c \in a.categories)
      TakeCategory(s, c) == Take(s, In(c), PerCategoryMin)
  IN  IF Len(articles) <= MaxSelected THEN articles
      ELSE Take(FoldLeft(TakeCategory, <<>>, Categories), articles, MaxSelected)

\* select_for_analysis: each category in turn, then the specific, then the generic ones.
SelectForAnalysis(articles, named) ==
  LET specific == Ranked(articles, named)
      generic == SelectSeq(articles, LAMBDA a : a.url \notin Urls(specific))
      In(pool, c) == SelectSeq(pool, LAMBDA a : c \in a.categories)
      TakeCategory(s, c) ==
        LET own == Take(s, In(specific, c), PerCategoryMin)
        IN  Take(own, In(generic, c), PerCategoryMin - (Len(own) - Len(s)))
      diverse == FoldLeft(TakeCategory, <<>>, Categories)
  IN  IF Len(articles) <= MaxSelected THEN articles
      ELSE Take(Take(diverse, specific, MaxSelected), generic, MaxSelected)

\* _references: the filing, the citations, the articles selected, and the market data.
References(filing, citations, selected) ==
  (IF filing THEN <<[type |-> "SEC Filing"]>> ELSE <<>>)
    \o [i \in DOMAIN citations |-> [type |-> "Retrieved Evidence", cites |-> citations[i]]]
    \o [i \in DOMAIN selected |-> [type |-> "News", cites |-> selected[i]]]
    \o <<[type |-> "Market Data"]>>

-----------------------------------------------------------------------------
(* What the functions promise *)

\* A filing without speakers is kept whole and in order, in chunks that fit unless they are
\* one paragraph, and none of which could have taken the next paragraph.
PacksWell(paragraphs, texts) ==
  /\ FlattenSeq(texts) = paragraphs
  /\ \A i \in DOMAIN texts :
       /\ texts[i] # <<>>
       /\ Len(texts[i]) > 1 => Chars(texts[i]) <= MaxChunkChars
       /\ i < Len(texts) => Chars(Append(texts[i], Head(texts[i + 1]))) > MaxChunkChars

\* What a speaker says is kept, after what was said before, under that speaker.
KeepsTurns(turns, chunks) ==
  LET Said(who, seq) == FlattenSeq([i \in DOMAIN seq |-> IF seq[i].speaker = who THEN seq[i].text
                                                          ELSE <<>>])
  IN  /\ \A i \in DOMAIN turns : Said(turns[i].speaker, chunks) = Said(turns[i].speaker, turns)
      /\ FlattenSeq([i \in DOMAIN chunks |-> chunks[i].text])
           = FlattenSeq([i \in DOMAIN turns |-> turns[i].text])

FilingKept(filing, chunks) ==
  IF filing.turns = <<>>
  THEN PacksWell(filing.opening, [i \in DOMAIN chunks |-> chunks[i].text])
  ELSE KeepsTurns(filing.turns, chunks)

\* An article about the company that is not selected though it is there.
PassedOver(articles, named, selected) ==
  {b \in ToSet(articles) \ ToSet(selected) : Specific(b, named)}

\* A selection from more articles than fit is as large as it may be, no article twice; each
\* category has its share of what there is; of the articles about the company a more central
\* one is passed over only for a category it is not in.  A generic article is preferred to
\* one about the company only for the share of a category of which no such article is left,
\* and there are no more of them than those shares.
SelectsWell(articles, named, selected) ==
  LET chosen == ToSet(selected)
      passed == PassedOver(articles, named, selected)
      Of(c, set) == {a \in set : c \in a.categories}
      short == {c \in ToSet(Categories) : Of(c, passed) = {}}
      generic == {a \in chosen : ~Specific(a, named)}
  IN  IF Len(articles) <= MaxSelected THEN selected = articles
      ELSE /\ Len(selected) = Cardinality(chosen)
           /\ Len(selected) = Min({MaxSelected, Cardinality(ToSet(articles))})
           /\ \A c \in ToSet(Categories) :
                Cardinality(Of(c, chosen)) >= Min({PerCategoryMin, Cardinality(Of(c, ToSet(articles)))})
           /\ \A a \in chosen \ generic, b \in passed :
                \/ Centrality(a, named) >= Centrality(b, named)
                \/ (a.categories \ b.categories) \cap ToSet(Categories) # {}
           /\ passed # {} => /\ \A a \in generic : a.categories \cap short # {}
                             /\ Cardinality(generic) <= PerCategoryMin * Cardinality(short)

\* What the docstring and a test say: the articles about the company are exhausted "before
\* the generic pool is used at all".
ExhaustsSpecific(articles, named, selected) ==
  PassedOver(articles, named, selected) = {} \/ \A a \in ToSet(selected) : Specific(a, named)
=============================================================================
