---------------------------- MODULE SourceCaches ----------------------------
(***************************************************************************)
(* What the server remembers of its sources: every answer of a market-data *)
(* or news service, of a list of companies or of EDGAR is kept in a file   *)
(* of DATA_DIR, in a dictionary of the process, or in Redis, and read      *)
(* again until it is too old.  No file or dictionary is locked, and        *)
(* requests run in threads.  What a cache does when its source cannot be   *)
(* reached differs from cache to cache, and so does what it keeps.         *)
(*                                                                         *)
(* Left out: what an answer says, how a request is retried before it has   *)
(* failed, and the copy in Redis of statements built from EDGAR's facts.   *)
(* A cache with an entry per ticker stands for one entry of it.            *)
(***************************************************************************)
EXTENDS Naturals, Sequences, FiniteSets, SequencesExt

CONSTANTS
  Threads,
  None,
  MaxOutages, \* bound: times that a source cannot be reached
  MaxCrashes  \* bound

ASSUME BoundsAssumption == {MaxOutages, MaxCrashes} \subseteq Nat

(* The caches.  "file": kept in a file; "both": in a file, and in memory while the  *)
(* process lives; "memory": in memory, or in Redis, for a time.  When its source     *)
(* fails, a cache "raises", answers with "nothing" and keeps nothing, has "kept"     *)
(* nothing as if the source had said so, or finds an "old file" good enough.         *)

LoadIndex == [kept |-> "both", fails |-> "old file"]
LoadNseIndex == [kept |-> "both", fails |-> "kept"]
LoadCryptoIndex == [kept |-> "both", fails |-> "kept"]
FetchMarketNews == [kept |-> "file", fails |-> "nothing"]
FetchCompanyNews == [kept |-> "file", fails |-> "nothing"]
FetchCompanyFacts == [kept |-> "file", fails |-> "nothing"]
CachedStatement == [kept |-> "memory", fails |-> "raises"]
GetQuote == [kept |-> "memory", fails |-> "raises"]
GetCorporateActions == [kept |-> "memory", fails |-> "kept"]
GetCorporateActionsHistory == [kept |-> "memory", fails |-> "kept"]
GetBenchmarkHistory == [kept |-> "memory", fails |-> "nothing"]
GetCompanyInfo == [kept |-> "memory", fails |-> "kept"]
GetPeerInfo == [kept |-> "memory", fails |-> "kept"]
GetTopMovers == [kept |-> "memory", fails |-> "kept"]
GetUniverseFundamentals == [kept |-> "memory", fails |-> "kept"]

Cache ==
  [us |-> LoadIndex, nse |-> LoadNseIndex, crypto |-> LoadCryptoIndex,
   marketNews |-> FetchMarketNews, news |-> FetchCompanyNews, facts |-> FetchCompanyFacts,
   statement |-> CachedStatement, quote |-> GetQuote, actions |-> GetCorporateActions,
   history |-> GetCorporateActionsHistory, benchmark |-> GetBenchmarkHistory,
   info |-> GetCompanyInfo, peers |-> GetPeerInfo, movers |-> GetTopMovers,
   screener |-> GetUniverseFundamentals]
Sources == DOMAIN Cache

Files == {s \in Sources : Cache[s].kept \in {"file", "both"}}
Forever == {s \in Sources : Cache[s].kept = "both"}
Keepers == {s \in Sources : Cache[s].fails = "kept"}
Raising == {s \in Sources : Cache[s].fails \in {"raises", "old file"}}
Lists == {"us", "nse"}  \* read from the file as a list, then made a set

\* What a call reads: all of it in turn, or one after the other until something answers.
\* An annual statement is taken from yfinance, then from EDGAR, or only from yfinance, or
\* from EDGAR first.
Calls == (Sources \ {"us", "nse", "facts"}) \cup {"resolve", "suggest", "yfinance", "edgar"}
Reads ==
  [c \in Calls |->
     CASE c \in {"resolve", "suggest"} -> <<"us", "nse">>
       [] c = "statement" -> <<"statement", "facts">>
       [] c = "yfinance" -> <<"statement">>
       [] c = "edgar" -> <<"facts", "statement">>
       [] OTHER -> <<c>>]
Alternatives == {"statement", "edgar"}

VARIABLES
  file,    \* of each file, what it contains and whether it is fresh
  memory,  \* of each source, what is remembered and whether it is fresh
  down,    \* the sources that cannot be reached
  at,      \* what a thread is about to do
  call,    \* the call it runs
  got,     \* what its call has got from each source so far
  value,   \* what it is about to write
  \* history
  refused, \* the sources that it could not reach during the call
  torn,    \* it has read a file cut short
  listed,  \* the list of US companies was on disk when the call began
  outages, crashes

thread == <<at, call, got, value>>
history == <<refused, torn, listed>>
vars == <<file, memory, down, thread, history, outages, crashes>>

\* A torn file is being written, or its writer crashed.
Contents == {"none", "torn", "empty", "full"}
Answers == {"full", "raw", "empty", "raised"}
Steps == {"idle", "load", "read", "convert", "fetch", "write", "merge", "done"}

TypeOK ==
  /\ file \in [Files -> [content : Contents, fresh : BOOLEAN]]
  /\ memory \in [Sources -> [content : {"none", "empty", "full"}, raw : BOOLEAN, fresh : BOOLEAN]]
  /\ down \subseteq Sources
  /\ at \in [Threads -> Steps] /\ call \in [Threads -> Calls \cup {None}]
  /\ got \in [Threads -> Seq(Answers)] /\ value \in [Threads -> {"empty", "full"}]
  /\ refused \in [Threads -> SUBSET Sources] /\ torn \in [Threads -> BOOLEAN]
  /\ listed \in [Threads -> BOOLEAN]
  /\ outages \in 0..MaxOutages /\ crashes \in 0..MaxCrashes

Forgotten == [s \in Sources |-> [content |-> "none", raw |-> FALSE, fresh |-> FALSE]]

Init ==
  /\ file = [s \in Files |-> [content |-> "none", fresh |-> FALSE]]
  /\ memory = Forgotten /\ down = {}
  /\ at = [th \in Threads |-> "idle"] /\ call = [th \in Threads |-> None]
  /\ got = [th \in Threads |-> <<>>] /\ value = [th \in Threads |-> "empty"]
  /\ refused = [th \in Threads |-> {}] /\ torn = [th \in Threads |-> FALSE]
  /\ listed = [th \in Threads |-> FALSE]
  /\ outages = 0 /\ crashes = 0

-----------------------------------------------------------------------------
(* A thread reads its sources.  A definition called a variant is deliberately   *)
(* wrong: it belongs to no behaviour and shows which property it breaks.        *)

Source(th) == Reads[call[th]][Len(got[th]) + 1]
Goes(th, step) == at' = [at EXCEPT ![th] = step]

\* The source has answered a: the call goes on with the next source, or ends.
Answer(th, a) ==
  LET n == Len(got[th]) + 1
      ends == \/ n = Len(Reads[call[th]])
              \/ IF call[th] \in Alternatives THEN a = "full" ELSE a = "raised"
  IN  /\ got' = [got EXCEPT ![th] = Append(@, a)]
      /\ Goes(th, IF ~ends THEN "load"
                  ELSE IF call[th] = "suggest" /\ a # "raised" THEN "merge" ELSE "done")
      /\ value' = [value EXCEPT ![th] = "empty"] /\ UNCHANGED call

\* Variant: nothing remembered is ever too old.
RememberedForever(s) == memory[s].content # "none"

Remembered(s) == memory[s].content # "none" /\ (s \in Forever \/ memory[s].fresh)
Remember(s, c, raw) == memory' = [memory EXCEPT ![s] = [content |-> c, raw |-> raw, fresh |-> TRUE]]

Begin(th, c) ==
  /\ at[th] \in {"idle", "done"}
  /\ Goes(th, "load") /\ call' = [call EXCEPT ![th] = c] /\ got' = [got EXCEPT ![th] = <<>>]
  /\ refused' = [refused EXCEPT ![th] = {}] /\ torn' = [torn EXCEPT ![th] = FALSE]
  /\ listed' = [listed EXCEPT ![th] = file["us"].content = "full"]
  /\ UNCHANGED <<file, memory, down, value, outages, crashes>>

\* Memory, then the file if it is fresh, then the source.
Load(th) ==
  /\ at[th] = "load"
  /\ LET s == Source(th)
     IN  IF Remembered(s)
         THEN Answer(th, IF memory[s].raw THEN "raw" ELSE memory[s].content)
         ELSE /\ Goes(th, IF s \in Files /\ file[s].content # "none" /\ file[s].fresh
                          THEN "read" ELSE "fetch")
              /\ UNCHANGED <<call, got, value>>
  /\ UNCHANGED <<file, memory, down, history, outages, crashes>>

\* Redis cannot be reached, or does not know what was set.
RedisMisses(th) ==
  /\ at[th] = "load" /\ Source(th) = "statement"
  /\ Goes(th, "fetch")
  /\ UNCHANGED <<file, memory, down, call, got, value, history, outages, crashes>>

\* json.load of the file of s, which must be whole.  EDGAR's facts are fetched again if
\* it is not; of the others, the lists are put into memory as they are, then converted.
ReadFile(th, s) ==
  CASE file[s].content = "torn" ->
         /\ torn' = [torn EXCEPT ![th] = TRUE] /\ UNCHANGED memory
         /\ IF s = "facts" THEN Goes(th, "fetch") /\ UNCHANGED <<call, got, value>>
            ELSE Answer(th, "raised")
    [] file[s].content # "torn" /\ s \in Lists ->
         /\ Remember(s, file[s].content, TRUE)
         /\ Goes(th, "convert") /\ UNCHANGED <<call, got, value, torn>>
    [] OTHER ->
         /\ IF s \in Forever THEN Remember(s, file[s].content, FALSE) ELSE UNCHANGED memory
         /\ Answer(th, file[s].content) /\ UNCHANGED torn

Read(th) ==
  /\ at[th] = "read" /\ ReadFile(th, Source(th))
  /\ UNCHANGED <<file, down, refused, listed, outages, crashes>>

Convert(th) ==
  /\ at[th] = "convert"
  /\ memory' = [memory EXCEPT ![Source(th)].raw = FALSE]
  /\ Answer(th, memory[Source(th)].content)
  /\ UNCHANGED <<file, down, history, outages, crashes>>

\* A value to keep: opened for writing, a file is cut short at once.
Keep(th, s, c) ==
  IF s \in Files
  THEN /\ file' = [file EXCEPT ![s] = [content |-> "torn", fresh |-> TRUE]]
       /\ value' = [value EXCEPT ![th] = c]
       /\ Goes(th, "write") /\ UNCHANGED <<memory, call, got>>
  ELSE Remember(s, c, FALSE) /\ Answer(th, c) /\ UNCHANGED file

Fetch(th) ==
  /\ at[th] = "fetch" /\ Source(th) \notin down
  /\ Keep(th, Source(th), "full")
  /\ UNCHANGED <<down, history, outages, crashes>>

\* Variant: an old file is not good enough.
FetchFailsForGood(th) ==
  /\ at[th] = "fetch" /\ Source(th) \in down
  /\ refused' = [refused EXCEPT ![th] = @ \cup {Source(th)}]
  /\ Answer(th, IF Source(th) \in Raising THEN "raised" ELSE "empty")
  /\ UNCHANGED <<file, memory, down, torn, listed, outages, crashes>>

\* Variant: every failure is kept.
FetchFailsKept(th) ==
  /\ at[th] = "fetch" /\ Source(th) \in down
  /\ refused' = [refused EXCEPT ![th] = @ \cup {Source(th)}]
  /\ Keep(th, Source(th), "empty")
  /\ UNCHANGED <<down, torn, listed, outages, crashes>>

FetchFails(th) ==
  /\ at[th] = "fetch" /\ Source(th) \in down
  /\ refused' = [refused EXCEPT ![th] = @ \cup {Source(th)}]
  /\ LET s == Source(th)
     IN  CASE Cache[s].fails = "old file" /\ file[s].content # "none" -> ReadFile(th, s) /\ UNCHANGED file
           [] s \in Keepers -> Keep(th, s, "empty") /\ UNCHANGED torn
           [] OTHER -> /\ Answer(th, IF s \in Raising THEN "raised" ELSE "empty")
                       /\ UNCHANGED <<file, memory, torn>>
  /\ UNCHANGED <<down, listed, outages, crashes>>

\* The file is whole, unless another thread is writing it too.
Write(th) ==
  /\ at[th] = "write"
  /\ LET s == Source(th)
         others == {o \in Threads \ {th} : at[o] = "write" /\ Source(o) = s}
     IN  /\ \E c \in {value[th]} \cup (IF others = {} THEN {} ELSE {"torn"}) :
              file' = [file EXCEPT ![s].content = c]
         /\ IF s \in Forever THEN Remember(s, value[th], FALSE) ELSE UNCHANGED memory
         /\ Answer(th, value[th])
  /\ UNCHANGED <<down, history, outages, crashes>>

\* suggest_companies unites the tickers of both lists: a list and a set have no union.  A
\* list that it has got may have become a set meanwhile.
Merge(th) ==
  /\ at[th] = "merge"
  /\ \/ UNCHANGED got
     \/ /\ Cardinality({n \in 1..2 : got[th][n] = "raw"}) = 1
        /\ got' = [got EXCEPT ![th] = Append(@, "raised")]
  /\ Goes(th, "done")
  /\ UNCHANGED <<file, memory, down, call, value, history, outages, crashes>>

-----------------------------------------------------------------------------
(* The world *)

FileAges(s) ==
  /\ s \in Files /\ file[s].fresh /\ file' = [file EXCEPT ![s].fresh = FALSE]
  /\ UNCHANGED <<memory, down, thread, history, outages, crashes>>

MemoryAges(s) ==
  /\ s \notin Files /\ memory[s].fresh /\ memory' = [memory EXCEPT ![s].fresh = FALSE]
  /\ UNCHANGED <<file, down, thread, history, outages, crashes>>

Outage(s) ==
  /\ s \notin down /\ outages < MaxOutages
  /\ down' = down \cup {s} /\ outages' = outages + 1
  /\ UNCHANGED <<file, memory, thread, history, crashes>>

Restored(s) ==
  /\ s \in down /\ down' = down \ {s}
  /\ UNCHANGED <<file, memory, thread, history, outages, crashes>>

\* The files remain, and Redis: but a new process does not read what an old one has signed.
Crash ==
  /\ crashes < MaxCrashes /\ crashes' = crashes + 1
  /\ memory' = Forgotten
  /\ at' = [th \in Threads |-> "idle"] /\ call' = [th \in Threads |-> None]
  /\ got' = [th \in Threads |-> <<>>] /\ value' = [th \in Threads |-> "empty"]
  /\ refused' = [th \in Threads |-> {}] /\ torn' = [th \in Threads |-> FALSE]
  /\ listed' = [th \in Threads |-> FALSE]
  /\ UNCHANGED <<file, down, outages>>

Step(th) ==
  \/ Load(th) \/ RedisMisses(th) \/ Read(th) \/ Convert(th) \/ Fetch(th) \/ FetchFails(th) \/ Write(th) \/ Merge(th)

Next ==
  \/ \E th \in Threads : Step(th) \/ \E c \in Calls : Begin(th, c)
  \/ \E s \in Sources : FileAges(s) \/ MemoryAges(s) \/ Outage(s) \/ Restored(s)
  \/ Crash

Spec == Init /\ [][Next]_vars

\* Threads run and get new calls, time passes, and an outage ends.
CallFairness == \A th \in Threads : WF_vars(\E c \in Calls : Begin(th, c))
Fairness ==
  /\ \A th \in Threads : WF_vars(Step(th))
  /\ \A s \in Sources : WF_vars(FileAges(s) \/ MemoryAges(s))
  /\ WF_vars(\E s \in Sources : Restored(s))
FairSpec == Spec /\ Fairness /\ CallFairness

-----------------------------------------------------------------------------
(* Safety *)

Bad == {"empty", "raised"}

\* Answers of th that are bad, as places in what its call reads.
BadAnswers(th) == {n \in DOMAIN got[th] : n <= Len(Reads[call[th]]) /\ got[th][n] \in Bad}

\* Nobody goes without data for an outage that another request met: a bad answer means
\* that the request itself was refused by the source, or met a file cut short, and, of the
\* list of US companies, that none was on disk.  Some caches keep a failure on purpose.
FailuresAreNotKept ==
  \A th \in Threads : \A n \in BadAnswers(th) :
    LET s == Reads[call[th]][n]
    IN  s \in Keepers \/ torn[th] \/ (s \in refused[th] /\ ~(s = "us" /\ listed[th]))

(* Liveness *)

Answered(th) ==
  IF call[th] \in Alternatives THEN Last(got[th]) = "full"
  ELSE /\ \A n \in BadAnswers(th) : Reads[call[th]][n] \in Keepers \cap Forever
       /\ Len(got[th]) = Len(Reads[call[th]])

\* Once no source fails any more, calls come to be answered, what was kept of a failure
\* included, unless one meets a file while it is written.  What a process keeps for ever
\* is excepted.
OutagesPass ==
  \A th \in Threads : <>[](at[th] = "done" => Answered(th) \/ torn[th])

(* Promised by comments of the code, and not kept *)

\* fetch_company_news never raises.
NewsNeverRaises == \A th \in Threads : call[th] = "news" => "raised" \notin Range(got[th])

\* An outage of the NSE's list is over for whoever asks when the source is back.
NseOutagePasses ==
  \A th \in Threads : call[th] = "resolve" /\ "nse" \notin refused[th] => "empty" \notin Range(got[th])

\* The two lists can always be searched as one.
SuggestsFromBoth ==
  \A th \in Threads : at[th] = "done" /\ call[th] = "suggest" => Len(got[th]) <= 2
=============================================================================
