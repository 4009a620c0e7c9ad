----------------------------- MODULE MCSources -----------------------------
(* The disclosures and the caches share nothing: each behaviour has one scene, *)
(* the disclosures of one ticker, or the calls that read the same sources.     *)
EXTENDS CompanyIndex

CONSTANTS
  Requests, SecTickers, NseTickers, Kinds,
  MaxExhibits, MaxFilings, MaxFaults, MaxReqCrashes, MaxExpiries
VARIABLES
  feed, map, cache, store, lock, reqAt, ticker, todo, filing, found, overtaken, emptied,
  faults, reqCrashes, expiries,
  scene

MCKinds ==
  {[form |-> "8-K", text |-> TRUE], [form |-> "8-K", text |-> FALSE],
   [form |-> "10-Q", text |-> TRUE]}

\* Phrases by what they resemble; ties between the lists are broken either way.
MCPhrases ==
  LET all == UsTitles \cup NseTitles
      us == CHOOSE s \in [1..Cardinality(UsTitles) -> UsTitles] : Range(s) = UsTitles
      Rank(t) == IF t \in NseTitles THEN 0 ELSE 2 * (CHOOSE i \in DOMAIN us : us[i] = t)
      ranks == {[t \in all |-> Rank(t)], [t \in all |-> IF t \in NseTitles THEN 9 ELSE Rank(t)]}
  IN  [score : [all -> {80, 86, 90}], rank : ranks, shares : {UsTitles, all}]

Message(tokens, contained, phrases, proposal) ==
  [tokens |-> tokens, contained |-> contained, phrases |-> phrases, proposal |-> proposal]

MCMessages ==
  LET words == [us : UsTitles \cup {None}, nse : NseTitles \cup {None}, checked : BOOLEAN]
  IN  {Message(<<>>, <<>>, <<p>>, None) : p \in {x \in MCPhrases : x.shares = UsTitles}}
        \cup {Message(<<>>, <<>>, <<>>, p) : p \in MCPhrases}
        \cup {Message(t, c, <<>>, None) : t \in {<<>>} \cup {<<w>> : w \in words},
                                          c \in {<<>>} \cup {<<u>> : u \in UsTitles}}

D == INSTANCE Disclosures WITH
       at <- reqAt, crashes <- reqCrashes, MaxCrashes <- MaxReqCrashes

disclosures == <<feed, map, cache, store, lock, reqAt, ticker, todo, filing, found, overtaken,
                 emptied, faults, reqCrashes, expiries>>

Listed == SecTickers \cup NseTickers
Scenes == {{t} : t \in Listed} \cup {{"statement", "edgar", "yfinance"}}
            \cup {{c} : c \in Calls \ {"statement", "edgar", "yfinance"}}
Tickers == scene \cap Listed
Asked == scene \cap Calls
Origins == UNION {ToSet(Reads[c]) : c \in Asked}

MCInit == Init /\ D!Init /\ scene \in Scenes

Disclose ==
  /\ Tickers # {}
  /\ \/ \E r \in Requests : D!Step(r) \/ \E t \in Tickers : D!Ask(r, t)
     \/ \E t \in Tickers : D!Publish(t)
     \/ D!Crash \/ (scene \cap SecTickers # {} /\ D!TickerMapAges)
  /\ UNCHANGED vars

Remind ==
  /\ Asked # {}
  /\ \/ \E th \in Threads : Step(th) \/ \E c \in Asked : Begin(th, c)
     \/ \E s \in Origins : FileAges(s) \/ MemoryAges(s) \/ Outage(s) \/ Restored(s)
     \/ Crash
  /\ UNCHANGED disclosures

MCNext == UNCHANGED scene /\ (Disclose \/ Remind)
MCSpec ==
  /\ MCInit /\ [][MCNext]_<<vars, disclosures, scene>>
  /\ Fairness /\ \A th \in Threads : WF_vars(\E c \in Asked : Begin(th, c))
  /\ \A r \in Requests : WF_disclosures(D!Step(r)) /\ SF_disclosures(D!LockAndCheck(r))
  /\ \A t \in Listed : SF_disclosures(t \in scene /\ \E r \in Requests : D!Ask(r, t))

-----------------------------------------------------------------------------
(* The properties of Disclosures, of this instance *)

\* Requests that ingest filings of one ticker at the same time leave one of them stored, and
\* what was stored is gone only while it is replaced, or after a failure in between; a report
\* finds the filing it cites, unless another request replaced it meanwhile.
FilingsHold == D!FilingsHold

\* Once the sources answer, calls come to be answered; and the store comes to hold the best
\* filing, unless a crash left a file torn.
SourcesRecover == OutagesPass /\ D!StoreCatchesUp

\* What a comment of rag_pipeline.py promises, and the code does not keep.
NeverObservablyEmpty == D!NeverObservablyEmpty

\* What citation_engine.py takes for granted, and rag_pipeline.py does not keep.
CitedFilingOnly == D!CitedFilingOnly
=============================================================================
