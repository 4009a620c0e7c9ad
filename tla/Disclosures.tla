---------------------------- MODULE Disclosures ----------------------------
(***************************************************************************)
(* The evidence of a report: rag_tool.py fetches the most useful recent    *)
(* filing of a ticker (sec_edgar_client.py, or nse_filings_client.py for   *)
(* tickers of the NSE), ingests it into the vector store unless its chunks *)
(* are stored already (rag_pipeline.py, chroma_store.py), and retrieves    *)
(* the chunks it will cite.  Requests run in the worker threads; what the  *)
(* disk keeps (the ticker map, the fetched filings, the vector store)      *)
(* outlives a crash.                                                       *)
(*                                                                         *)
(* A filing is known by its place in the feed of its ticker.  All chunks   *)
(* of a filing are stored by one call, so the store holds filings.  Left   *)
(* out: what the text says, how it is cut and ranked, and tickers that the *)
(* source does not list.                                                   *)
(***************************************************************************)
EXTENDS Naturals, Sequences, FiniteSets, SequencesExt

CONSTANTS
  Requests,    \* worker threads that run the tool
  SecTickers, NseTickers,  \* of the two markets, disjoint
  Kinds,       \* bound: what gets published, [form : Forms, text : BOOLEAN], of SEC tickers
  None,
  MaxExhibits, \* limit: 8-Ks looked at
  MaxFilings,  \* bound: filings of a ticker
  MaxFaults,   \* bound: calls that fail
  MaxCrashes,  \* bound
  MaxExpiries  \* bound: times that the ticker map grows old

Tickers == SecTickers \cup NseTickers
Forms == {"8-K", "10-Q", "10-K"}

VARIABLES
  feed,      \* of each ticker, the filings published, the oldest first
  map,       \* the file TICKER_MAP_CACHE: what it contains, and whether it is fresh
  cache,     \* the files of fetched filings
  store,     \* of each ticker, the filings whose chunks are stored
  lock,      \* of each ticker, the request that holds its lock
  at,        \* what a request is about to do
  ticker,    \* its ticker
  todo,      \* the filings it may still turn to, the best first
  filing,    \* the disclosure it has fetched
  found,     \* the filings of the chunks it has retrieved
  \* history
  overtaken, \* the store was changed between a request's ingestion and its retrieval
  emptied,   \* a re-ingestion was cut short after it had deleted
  faults, crashes, expiries

disk == <<map, cache>>
request == <<at, ticker, todo, filing, found>>
bounds == <<faults, crashes, expiries>>
vars == <<feed, disk, store, lock, request, overtaken, emptied, bounds>>

Filings == 1..MaxFilings
\* A file that is being written, or whose writer crashed, is torn: JSON, cut short.
Contents == {"none", "torn", "whole"}
Published == [form : Forms \cup {"results"}, text : BOOLEAN]

TypeOK ==
  /\ feed \in [Tickers -> BoundedSeq(Published, MaxFilings)]
  /\ map \in [content : Contents, fresh : BOOLEAN]
  /\ cache \in [Tickers -> [Filings -> Contents]]
  /\ store \in [Tickers -> SUBSET Filings]
  /\ lock \in [Tickers -> Requests \cup {None}]
  /\ at \in [Requests -> {"idle", "map", "download", "mapping", "feed", "choose", "fetch", "writing",
                          "ingest", "delete", "add", "query", "done"}]
  /\ ticker \in [Requests -> Tickers \cup {None}]
  /\ todo \in [Requests -> BoundedSeq(Filings, MaxFilings)]
  /\ filing \in [Requests -> 0..MaxFilings]
  /\ found \in [Requests -> SUBSET Filings]
  /\ overtaken \in [Requests -> BOOLEAN] /\ emptied \in [Tickers -> BOOLEAN]
  /\ faults \in 0..MaxFaults /\ crashes \in 0..MaxCrashes /\ expiries \in 0..MaxExpiries

Init ==
  /\ feed = [t \in Tickers |-> <<>>]
  /\ map = [content |-> "none", fresh |-> FALSE]
  /\ cache = [t \in Tickers |-> [f \in Filings |-> "none"]]
  /\ store = [t \in Tickers |-> {}] /\ lock = [t \in Tickers |-> None]
  /\ at = [r \in Requests |-> "idle"] /\ ticker = [r \in Requests |-> None]
  /\ todo = [r \in Requests |-> <<>>] /\ filing = [r \in Requests |-> 0]
  /\ found = [r \in Requests |-> {}]
  /\ overtaken = [r \in Requests |-> FALSE] /\ emptied = [t \in Tickers |-> FALSE]
  /\ faults = 0 /\ crashes = 0 /\ expiries = 0

-----------------------------------------------------------------------------
(* Which filing.  A definition called a variant is deliberately wrong: it       *)
(* belongs to no behaviour and shows which property such a bug breaks.          *)

\* _filings_by_form: the filings of a form, the newest first.
OfForm(s, form) == Reverse(SelectSeq([i \in 1..Len(s) |-> i], LAMBDA i : s[i].form = form))

Newest(s, n) == SubSeq(s, 1, IF Len(s) < n THEN Len(s) ELSE n)

\* The order of fetch_company_disclosure: the exhibits of earnings announcements, then
\* the last quarterly and the last annual report; of the NSE the last results.
Candidates(t, s) ==
  IF t \in NseTickers THEN Newest(OfForm(s, "results"), 1)
  ELSE Newest(OfForm(s, "8-K"), MaxExhibits) \o Newest(OfForm(s, "10-Q"), 1)
         \o Newest(OfForm(s, "10-K"), 1)

\* The filing that a request gets if nothing goes wrong; 0 is none.
Best(t) ==
  LET readable == SelectSeq(Candidates(t, feed[t]), LAMBDA f : feed[t][f].text)
  IN  IF readable = <<>> THEN 0 ELSE Head(readable)

\* A call to the source that fails for good, all its retries included.
Fault == faults < MaxFaults /\ faults' = faults + 1 /\ UNCHANGED <<crashes, expiries>>

\* The tool ends with no evidence.
GivesUp(r) ==
  /\ at' = [at EXCEPT ![r] = "idle"] /\ ticker' = [ticker EXCEPT ![r] = None]
  /\ todo' = [todo EXCEPT ![r] = <<>>] /\ filing' = [filing EXCEPT ![r] = 0]
  /\ found' = [found EXCEPT ![r] = {}]

Goes(r, step) == at' = [at EXCEPT ![r] = step]

\* What a file may contain when r has written it: others may be writing it, too.
Written(others) == IF others = {} THEN {"whole"} ELSE {"torn", "whole"}

-----------------------------------------------------------------------------
(* RAGTool.run: the disclosure *)

Ask(r, t) ==
  /\ at[r] \in {"idle", "done"}
  /\ at' = [at EXCEPT ![r] = IF t \in SecTickers THEN "map" ELSE "feed"]
  /\ ticker' = [ticker EXCEPT ![r] = t]
  /\ todo' = [todo EXCEPT ![r] = <<>>] /\ filing' = [filing EXCEPT ![r] = 0]
  /\ found' = [found EXCEPT ![r] = {}] /\ overtaken' = [overtaken EXCEPT ![r] = FALSE]
  /\ UNCHANGED <<feed, disk, store, lock, emptied, bounds>>

\* _load_ticker_map: a fresh file is read, and must be whole.
LoadTickerMap(r) ==
  /\ at[r] = "map"
  /\ \/ /\ map.fresh => map.content = "none"
        /\ Goes(r, "download") /\ UNCHANGED <<ticker, todo, filing, found>>
     \/ /\ map = [content |-> "whole", fresh |-> TRUE]
        /\ Goes(r, "feed") /\ UNCHANGED <<ticker, todo, filing, found>>
     \/ /\ map = [content |-> "torn", fresh |-> TRUE]
        /\ GivesUp(r)
  /\ UNCHANGED <<feed, disk, store, lock, overtaken, emptied, bounds>>

\* Else the map is fetched, and then the file is opened for writing, whoever else has
\* written it meanwhile.
DownloadTickerMap(r) ==
  /\ at[r] = "download"
  /\ \/ /\ map' = [content |-> "torn", fresh |-> TRUE]
        /\ Goes(r, "mapping") /\ UNCHANGED <<ticker, todo, filing, found, bounds>>
     \/ Fault /\ GivesUp(r) /\ UNCHANGED map
  /\ UNCHANGED <<feed, cache, store, lock, overtaken, emptied>>

TickerMapWritten(r) ==
  /\ at[r] = "mapping"
  /\ \E c \in Written({q \in Requests \ {r} : at[q] = "mapping"}) : map' = [map EXCEPT !.content = c]
  /\ Goes(r, "feed")
  /\ UNCHANGED <<feed, cache, store, lock, ticker, todo, filing, found, overtaken, emptied, bounds>>

\* The list of filings is never cached.
GetFilings(r) ==
  /\ at[r] = "feed"
  /\ \/ /\ Goes(r, "choose")
        /\ todo' = [todo EXCEPT ![r] = Candidates(ticker[r], feed[ticker[r]])]
        /\ UNCHANGED <<ticker, filing, found, bounds>>
     \/ Fault /\ GivesUp(r)
  /\ UNCHANGED <<feed, disk, store, lock, overtaken, emptied>>

\* The next candidate is read from its file, if there is one, which must be whole.
ReadFiling(r) ==
  /\ at[r] = "choose"
  /\ IF todo[r] = <<>> THEN GivesUp(r)
     ELSE CASE cache[ticker[r]][Head(todo[r])] = "whole" ->
                 /\ Goes(r, "ingest") /\ filing' = [filing EXCEPT ![r] = Head(todo[r])]
                 /\ todo' = [todo EXCEPT ![r] = <<>>]
                 /\ UNCHANGED <<ticker, found>>
            [] cache[ticker[r]][Head(todo[r])] = "torn" -> GivesUp(r)
            [] OTHER -> Goes(r, "fetch") /\ UNCHANGED <<ticker, todo, filing, found>>
  /\ UNCHANGED <<feed, disk, store, lock, overtaken, emptied, bounds>>

\* A filing without a usable text is passed over.
FetchFiling(r) ==
  /\ at[r] = "fetch"
  /\ LET t == ticker[r] f == Head(todo[r])
     IN  \/ /\ ~feed[t][f].text
            /\ Goes(r, "choose") /\ todo' = [todo EXCEPT ![r] = Tail(@)]
            /\ UNCHANGED <<cache, ticker, filing, found, bounds>>
         \/ /\ feed[t][f].text
            /\ cache' = [cache EXCEPT ![t][f] = "torn"]
            /\ Goes(r, "writing") /\ UNCHANGED <<ticker, todo, filing, found, bounds>>
         \/ Fault /\ GivesUp(r) /\ UNCHANGED cache
  /\ UNCHANGED <<feed, map, store, lock, overtaken, emptied>>

FilingWritten(r) ==
  /\ at[r] = "writing"
  /\ LET t == ticker[r] f == Head(todo[r])
     IN  /\ \E c \in Written({q \in Requests \ {r} : /\ at[q] = "writing" /\ ticker[q] = t
                                                     /\ Head(todo[q]) = f}) :
              cache' = [cache EXCEPT ![t][f] = c]
         /\ filing' = [filing EXCEPT ![r] = f]
  /\ Goes(r, "ingest") /\ todo' = [todo EXCEPT ![r] = <<>>]
  /\ UNCHANGED <<feed, map, store, lock, ticker, found, overtaken, emptied, bounds>>

-----------------------------------------------------------------------------
(* Ingestion and retrieval *)

Release(t) == lock' = [lock EXCEPT ![t] = None]

\* The store of t changes: who is about to retrieve will see it.
Overtake(t) ==
  overtaken' = [q \in Requests |-> overtaken[q] \/ (at[q] = "query" /\ ticker[q] = t)]

\* Variant: nothing is ingested when anything is stored.
LockAndCheckAny(r) ==
  /\ at[r] = "ingest" /\ lock[ticker[r]] = None
  /\ IF store[ticker[r]] # {}
     THEN Goes(r, "query") /\ UNCHANGED lock
     ELSE Goes(r, "delete") /\ lock' = [lock EXCEPT ![ticker[r]] = r]
  /\ UNCHANGED <<feed, disk, store, ticker, todo, filing, found, overtaken, emptied, bounds>>

\* Under the lock of the ticker: nothing is ingested when the chunks of exactly this
\* filing are stored.
LockAndCheck(r) ==
  /\ at[r] = "ingest" /\ lock[ticker[r]] = None
  /\ IF filing[r] \in store[ticker[r]]
     THEN Goes(r, "query") /\ UNCHANGED lock
     ELSE Goes(r, "delete") /\ lock' = [lock EXCEPT ![ticker[r]] = r]
  /\ UNCHANGED <<feed, disk, store, ticker, todo, filing, found, overtaken, emptied, bounds>>

DeleteStored(r) ==
  /\ at[r] = "delete"
  /\ \/ /\ store' = [store EXCEPT ![ticker[r]] = {}]
        /\ Overtake(ticker[r])
        /\ Goes(r, "add") /\ UNCHANGED <<lock, ticker, todo, filing, found, bounds>>
     \/ Fault /\ GivesUp(r) /\ Release(ticker[r]) /\ UNCHANGED <<store, overtaken>>
  /\ UNCHANGED <<feed, disk, emptied>>

\* The embedding or the store fails: the lock is released, and the store left empty.
AddFails(r) ==
  /\ at[r] = "add"
  /\ Fault /\ GivesUp(r) /\ Release(ticker[r])
  /\ emptied' = [emptied EXCEPT ![ticker[r]] = TRUE]
  /\ UNCHANGED <<feed, disk, store, overtaken>>

AddDocuments(r) ==
  /\ at[r] = "add"
  /\ store' = [store EXCEPT ![ticker[r]] = @ \cup {filing[r]}]
  /\ emptied' = [emptied EXCEPT ![ticker[r]] = FALSE]
  /\ Overtake(ticker[r]) /\ Release(ticker[r])
  /\ Goes(r, "query")
  /\ UNCHANGED <<feed, disk, ticker, todo, filing, found, bounds>>

\* query_pipeline takes no lock; what it finds is cited as the disclosure fetched.
Retrieve(r) ==
  /\ at[r] = "query"
  /\ \/ /\ found' = [found EXCEPT ![r] = store[ticker[r]]]
        /\ Goes(r, "done") /\ UNCHANGED <<ticker, todo, filing, bounds>>
     \/ Fault /\ GivesUp(r)
  /\ UNCHANGED <<feed, disk, store, lock, overtaken, emptied>>

-----------------------------------------------------------------------------
(* The world *)

Publish(t) ==
  /\ Len(feed[t]) < MaxFilings
  /\ \E k \in IF t \in SecTickers THEN Kinds ELSE [form : {"results"}, text : BOOLEAN] :
       feed' = [feed EXCEPT ![t] = Append(@, k)]
  /\ UNCHANGED <<disk, store, lock, request, overtaken, emptied, bounds>>

\* The process ends and starts again: the disk remains.
Crash ==
  /\ crashes < MaxCrashes /\ crashes' = crashes + 1
  /\ at' = [r \in Requests |-> "idle"] /\ ticker' = [r \in Requests |-> None]
  /\ todo' = [r \in Requests |-> <<>>] /\ filing' = [r \in Requests |-> 0]
  /\ found' = [r \in Requests |-> {}]
  /\ lock' = [t \in Tickers |-> None]
  /\ emptied' = [t \in Tickers |-> \/ emptied[t]
                                   \/ \E r \in Requests : at[r] = "add" /\ ticker[r] = t]
  /\ UNCHANGED <<feed, disk, store, overtaken, faults, expiries>>

TickerMapAges ==
  /\ map.fresh /\ expiries < MaxExpiries
  /\ expiries' = expiries + 1 /\ map' = [map EXCEPT !.fresh = FALSE]
  /\ UNCHANGED <<feed, cache, store, lock, request, overtaken, emptied, faults, crashes>>

Step(r) ==
  \/ LoadTickerMap(r) \/ DownloadTickerMap(r) \/ TickerMapWritten(r) \/ GetFilings(r)
  \/ ReadFiling(r) \/ FetchFiling(r) \/ FilingWritten(r)
  \/ LockAndCheck(r) \/ DeleteStored(r) \/ AddDocuments(r) \/ AddFails(r) \/ Retrieve(r)

Next ==
  \/ \E r \in Requests : Step(r) \/ \E t \in Tickers : Ask(r, t)
  \/ \E t \in Tickers : Publish(t)
  \/ Crash \/ TickerMapAges

Spec == Init /\ [][Next]_vars

\* Threads run, a lock that becomes free is given in turn, and reports are asked for.
Fairness ==
  /\ \A r \in Requests : WF_vars(Step(r)) /\ SF_vars(LockAndCheck(r))
  /\ \A t \in Tickers : SF_vars(\E r \in Requests : Ask(r, t))
FairSpec == Spec /\ Fairness

-----------------------------------------------------------------------------
(* Safety *)

\* Requests that ingest filings of one ticker at the same time never leave the chunks of
\* two filings beside each other; and what was stored is gone only while a request that
\* holds the lock replaces it, or when a failure or a crash came between its deletion and
\* its addition.
OneFilingStored ==
  /\ \A t \in Tickers : Cardinality(store[t]) <= 1
  /\ \A r \in Requests :
       filing[r] # 0 /\ at[r] \in {"query", "done"} /\ store[ticker[r]] = {} =>
         \/ emptied[ticker[r]]
         \/ lock[ticker[r]] # None /\ at[lock[ticker[r]]] = "add"

\* A report retrieves chunks of the filing that it cites, and of no other, unless the
\* store was changed between its ingestion and its retrieval.
CitesWhatItFound ==
  \A r \in Requests : at[r] = "done" => found[r] = {filing[r]} \/ overtaken[r]

\* One filing stored, and every report of the one it cites.
FilingsHold == OneFilingStored /\ CitesWhatItFound

(* Liveness *)

\* A crash tore a file that every request will read and none will write again.
Damaged(t) ==
  \/ t \in SecTickers /\ map = [content |-> "torn", fresh |-> TRUE]
  \/ cache[t][Best(t)] = "torn"

\* While reports are asked for, the store comes to hold the best filing, whatever older
\* one a late request put back, unless a crash left a file torn.
StoreCatchesUp ==
  \A t \in Tickers : <>[](Best(t) # 0 => store[t] = {Best(t)} \/ Damaged(t))

(* Promised by comments of the code, and not kept *)

\* The store is never observably empty for a ticker that is being read.
NeverObservablyEmpty == \A r \in Requests : at[r] = "done" => found[r] # {}

\* Every chunk of a report comes from the filing that is cited.
CitedFilingOnly == \A r \in Requests : at[r] = "done" => found[r] \subseteq {filing[r]}
=============================================================================
