----------------------------- MODULE Sources_proofs -----------------------------
(***************************************************************************)
(* What holds of the server's caches of its sources, of the names it looks *)
(* up in them, and of the filings its reports cite, for any number of      *)
(* threads, tickers, outages and crashes.                                  *)
(***************************************************************************)
EXTENDS MCSources, SequenceTheorems, FiniteSetTheorems, TLAPS

(***************************************************************************)
(* The caches and the calls                                                *)
(***************************************************************************)

LEMMA SourceNames ==
  Sources = {"us", "nse", "crypto", "marketNews", "news", "facts", "statement", "quote",
             "actions", "history", "benchmark", "info", "peers", "movers", "screener"}
BY DEF Sources, Cache

\* Only the list of US companies is read from an old file.
LEMMA OldFileIsUs == \A s \in Sources : (Cache[s].fails = "old file") <=> s = "us"
<1>1. /\ Cache["us"] = LoadIndex /\ Cache["nse"] = LoadNseIndex
      /\ Cache["crypto"] = LoadCryptoIndex /\ Cache["marketNews"] = FetchMarketNews
      /\ Cache["news"] = FetchCompanyNews /\ Cache["facts"] = FetchCompanyFacts
      /\ Cache["statement"] = CachedStatement /\ Cache["quote"] = GetQuote
      /\ Cache["actions"] = GetCorporateActions
      /\ Cache["history"] = GetCorporateActionsHistory
      /\ Cache["benchmark"] = GetBenchmarkHistory /\ Cache["info"] = GetCompanyInfo
      /\ Cache["peers"] = GetPeerInfo /\ Cache["movers"] = GetTopMovers
      /\ Cache["screener"] = GetUniverseFundamentals
  BY DEF Cache
<1>2. /\ LoadIndex.fails = "old file"
      /\ \A c \in {LoadNseIndex, LoadCryptoIndex, FetchMarketNews, FetchCompanyNews,
                   FetchCompanyFacts, CachedStatement, GetQuote, GetCorporateActions,
                   GetCorporateActionsHistory, GetBenchmarkHistory, GetCompanyInfo, GetPeerInfo,
                   GetTopMovers, GetUniverseFundamentals} : c.fails # "old file"
  BY DEF LoadIndex, LoadNseIndex, LoadCryptoIndex, FetchMarketNews, FetchCompanyNews,
         FetchCompanyFacts, CachedStatement, GetQuote, GetCorporateActions,
         GetCorporateActionsHistory, GetBenchmarkHistory, GetCompanyInfo, GetPeerInfo,
         GetTopMovers, GetUniverseFundamentals
<1> QED
  BY <1>1, <1>2, SourceNames

LEMMA ListsAreFiles == Lists \subseteq Files \cap Forever /\ Files \subseteq Sources
<1>1. Cache["us"].kept = "both" /\ Cache["nse"].kept = "both"
  BY DEF Cache, LoadIndex, LoadNseIndex
<1> QED
  BY <1>1, SourceNames DEF Lists, Files, Forever

LEMMA UsIsAList == "us" \in Lists \cap Files \cap Sources
BY ListsAreFiles DEF Lists

\* A call reads one source, or two.
LEMMA ReadsTwo ==
  ASSUME NEW c \in Calls
  PROVE  /\ Len(Reads[c]) \in {1, 2}
         /\ \A n \in 1..Len(Reads[c]) : Reads[c][n] \in Sources
<1>1. Reads[c] = CASE c \in {"resolve", "suggest"} -> <<"us", "nse">>
                   [] c = "statement" -> <<"statement", "facts">>
                   [] c = "yfinance" -> <<"statement">>
                   [] c = "edgar" -> <<"facts", "statement">>
                   [] OTHER -> <<c>>
  BY DEF Reads
<1>2. CASE c \in {"resolve", "suggest"}
  <2>1. Reads[c] = <<"us", "nse">>
    BY <1>1, <1>2
  <2> QED
    BY <2>1, SourceNames
<1>3. CASE c = "statement"
  <2>1. Reads[c] = <<"statement", "facts">>
    BY <1>1, <1>3
  <2> QED
    BY <2>1, SourceNames
<1>4. CASE c = "yfinance"
  <2>1. Reads[c] = <<"statement">>
    BY <1>1, <1>4
  <2> QED
    BY <2>1, SourceNames
<1>5. CASE c = "edgar"
  <2>1. Reads[c] = <<"facts", "statement">>
    BY <1>1, <1>5
  <2> QED
    BY <2>1, SourceNames
<1>6. CASE c \notin {"resolve", "suggest", "statement", "yfinance", "edgar"}
  <2>1. Reads[c] = <<c>> /\ c \in Sources
    BY <1>1, <1>6 DEF Calls
  <2> QED
    BY <2>1
<1> QED
  BY <1>2, <1>3, <1>4, <1>5, <1>6

\* The lists are read the one after the other.
LEMMA ReadsLists ==
  /\ "suggest" \in Calls /\ Reads["suggest"] = <<"us", "nse">>
  /\ "resolve" \in Calls /\ Reads["resolve"] = <<"us", "nse">>
<1>1. "suggest" \in Calls /\ "resolve" \in Calls
  BY DEF Calls
<1> QED
  BY <1>1 DEF Reads

(***************************************************************************)
(* The invariant.  Whatever is remembered as empty is remembered by a      *)
(* cache that keeps failures, after an outage; a bad answer has an excuse. *)
(***************************************************************************)

Reading == {"load", "read", "convert", "fetch", "write"}

MayBe(s, c) == c = "empty" => s \in Keepers /\ outages > 0

Caches ==
  /\ down # {} => outages > 0
  /\ \A s \in Files : MayBe(s, file[s].content)
  /\ \A s \in Sources : MayBe(s, memory[s].content)

\* What th has read as a bad answer of its n-th source
Excused(th, n) ==
  LET s == Reads[call[th]][n]
  IN  /\ got[th][n] = "empty" => outages > 0
      /\ s \in Keepers \/ torn[th] \/ (s \in refused[th] /\ ~(s = "us" /\ listed[th]))

Excuses(th) == \A n \in BadAnswers(th) : Excused(th, n)

\* Where a thread is in its call
Place(th) ==
  /\ at[th] = "idle" => got[th] = <<>> /\ ~listed[th]
  /\ at[th] # "idle" => call[th] \in Calls
  /\ at[th] \in Reading => Len(got[th]) < Len(Reads[call[th]])
  /\ at[th] = "merge" => Len(got[th]) = 2 /\ Len(Reads[call[th]]) = 2
  /\ at[th] = "read" => Source(th) \in Files /\ file[Source(th)].content # "none"
  /\ at[th] = "convert" => Source(th) \in Lists /\ memory[Source(th)].content # "none"
  /\ at[th] = "write" => Source(th) \in Files /\ MayBe(Source(th), value[th])
  /\ listed[th] => file["us"].content # "none"

Sound == Caches /\ \A th \in Threads : Place(th) /\ Excuses(th)

LEMMA SourceOfCall ==
  ASSUME TypeOK, NEW th \in Threads, Place(th), at[th] \in Reading
  PROVE  call[th] \in Calls /\ Source(th) \in Sources
         /\ Len(got[th]) + 1 \in 1..Len(Reads[call[th]]) /\ Len(got[th]) \in Nat
<1>1. call[th] \in Calls /\ Len(got[th]) < Len(Reads[call[th]])
  BY DEF Place, Reading
<1>2. got[th] \in Seq(Answers)
  BY DEF TypeOK
<1>3. Len(got[th]) \in Nat
  BY <1>2
<1>4. Len(Reads[call[th]]) \in {1, 2} /\ \A n \in 1..Len(Reads[call[th]]) : Reads[call[th]][n] \in Sources
  BY <1>1, ReadsTwo
<1> QED
  BY <1>1, <1>3, <1>4 DEF Source

\* A source answers: the thread goes on.
LEMMA AnswerMoves ==
  ASSUME TypeOK, NEW th \in Threads, Place(th), at[th] \in Reading, NEW a \in Answers, Answer(th, a)
  PROVE  /\ got' = [got EXCEPT ![th] = Append(@, a)] /\ got' \in [Threads -> Seq(Answers)]
         /\ call' = call
         /\ at' \in [Threads -> Steps] /\ at' = [at EXCEPT ![th] = at'[th]]
         /\ at'[th] \in {"load", "merge", "done"}
         /\ at'[th] = "load" => Len(got[th]) + 1 < Len(Reads[call[th]])
         /\ at'[th] = "merge" => Len(got[th]) + 1 = 2 /\ Len(Reads[call[th]]) = 2
         /\ value' \in [Threads -> {"empty", "full"}] /\ value' = [value EXCEPT ![th] = "empty"]
<1> DEFINE n == Len(got[th]) + 1
           ends == \/ n = Len(Reads[call[th]])
                   \/ IF call[th] \in Alternatives THEN a = "full" ELSE a = "raised"
<1>1. /\ got' = [got EXCEPT ![th] = Append(@, a)]
      /\ at' = [at EXCEPT ![th] = IF ~ends THEN "load"
                                    ELSE IF call[th] = "suggest" /\ a # "raised"
                                         THEN "merge" ELSE "done"]
      /\ value' = [value EXCEPT ![th] = "empty"] /\ UNCHANGED call
  BY DEF Answer, Goes
<1>2. n \in 1..Len(Reads[call[th]]) /\ Len(Reads[call[th]]) \in {1, 2} /\ call[th] \in Calls
  BY SourceOfCall, ReadsTwo
<1>3. got' \in [Threads -> Seq(Answers)]
  BY <1>1 DEF TypeOK
<1>4. /\ at'[th] \in {"load", "merge", "done"}
      /\ at'[th] = "load" => ~ends
      /\ at'[th] = "merge" => ends /\ call[th] = "suggest" /\ a # "raised"
  <2> HIDE DEF ends
  <2> QED
    BY <1>1 DEF TypeOK
<1>5. at'[th] = "load" => n < Len(Reads[call[th]])
  BY <1>2, <1>4
<1>6. at'[th] = "merge" => n = 2 /\ Len(Reads[call[th]]) = 2
  <2> SUFFICES ASSUME at'[th] = "merge" PROVE n = 2 /\ Len(Reads[call[th]]) = 2
    OBVIOUS
  <2>1. ends /\ call[th] = "suggest" /\ a # "raised"
    BY <1>4
  <2>2. "suggest" \notin Alternatives
    BY DEF Alternatives
  <2>3. n = Len(Reads[call[th]])
    BY <2>1, <2>2
  <2> QED
    BY <2>1, <2>3, ReadsLists
<1>7. at' \in [Threads -> Steps] /\ at' = [at EXCEPT ![th] = at'[th]]
  <2>1. \A x : at' = [at EXCEPT ![th] = x] => at' = [at EXCEPT ![th] = at'[th]]
    BY DEF TypeOK
  <2>2. at' = [at EXCEPT ![th] = at'[th]]
    BY <1>1, <2>1
  <2> QED
    BY <1>4, <2>2 DEF TypeOK, Steps
<1> QED
  BY <1>1, <1>3, <1>4, <1>5, <1>6, <1>7 DEF TypeOK

\* Files and memory are not forgotten, but by a crash.
Grows ==
  /\ \A s \in Files : file'[s].content = "none" => file[s].content = "none"
  /\ \A s \in Sources : memory'[s].content = "none" => memory[s].content = "none"
  /\ outages > 0 => outages' > 0

SameThread(o) ==
  /\ at'[o] = at[o] /\ call'[o] = call[o] /\ got'[o] = got[o] /\ value'[o] = value[o]
  /\ refused'[o] = refused[o] /\ torn'[o] = torn[o] /\ listed'[o] = listed[o]

\* Who does nothing stays where it is.
LEMMA OthersKept ==
  ASSUME TypeOK, NEW o \in Threads, Place(o), Excuses(o), SameThread(o), Grows
  PROVE  Place(o)' /\ Excuses(o)'
<1>1. at[o] \in Reading => Source(o) \in Sources
  BY SourceOfCall
<1>2. Source(o)' = Source(o) /\ BadAnswers(o)' = BadAnswers(o)
  BY DEF Source, BadAnswers, SameThread
<1>3. Place(o)'
  BY <1>1, <1>2, UsIsAList DEF Place, SameThread, Grows, MayBe, Reading
<1>4. Excuses(o)'
  BY <1>2 DEF Excuses, Excused, SameThread, Grows
<1> QED
  BY <1>3, <1>4

\* An answer that is bad for a reason leaves the thread with its excuses.
LEMMA ActorAnswers ==
  ASSUME TypeOK, NEW th \in Threads, Place(th), Excuses(th), at[th] \in Reading,
         NEW a \in Answers, Answer(th, a), Grows,
         refused[th] \subseteq refused'[th], torn[th] => torn'[th], listed'[th] = listed[th],
         a = "empty" => outages' > 0,
         a \in Bad => \/ Source(th) \in Keepers \/ torn'[th]
                      \/ Source(th) \in refused'[th] /\ ~(Source(th) = "us" /\ listed[th])
  PROVE  Place(th)' /\ Excuses(th)'
<1> DEFINE n == Len(got[th]) + 1
<1>1. /\ call[th] \in Calls /\ n \in 1..Len(Reads[call[th]]) /\ Source(th) = Reads[call[th]][n]
      /\ call'[th] = call[th] /\ got[th] \in Seq(Answers)
  BY SourceOfCall, AnswerMoves DEF Source, TypeOK
<1>2. /\ got'[th] = Append(got[th], a) /\ at'[th] \in {"load", "merge", "done"}
      /\ at'[th] = "load" => n < Len(Reads[call[th]])
      /\ at'[th] = "merge" => n = 2 /\ Len(Reads[call[th]]) = 2
  BY AnswerMoves DEF TypeOK
<1>3. /\ Len(got'[th]) = n /\ got'[th][n] = a
      /\ \A i \in 1..Len(got[th]) : got'[th][i] = got[th][i]
      /\ DOMAIN got'[th] = 1..n /\ DOMAIN got[th] = 1..Len(got[th])
  BY <1>1, <1>2
<1>4. Place(th)'
  BY <1>1, <1>2, <1>3, UsIsAList DEF Place, Reading, Grows
<1>5. ASSUME NEW i \in BadAnswers(th)' PROVE Excused(th, i)'
  <2>1. i \in 1..n /\ i <= Len(Reads[call[th]]) /\ got'[th][i] \in Bad
    BY <1>1, <1>3, <1>5 DEF BadAnswers
  <2>2. CASE i = n
    BY <1>1, <1>3, <2>1, <2>2 DEF Excused
  <2>3. CASE i # n
    <3>1. i \in BadAnswers(th) /\ got'[th][i] = got[th][i]
      BY <1>1, <1>3, <2>1, <2>3 DEF BadAnswers
    <3>2. Excused(th, i)
      BY <3>1 DEF Excuses
    <3> QED
      BY <1>1, <3>1, <3>2 DEF Excused, Grows
  <2> QED
    BY <2>2, <2>3
<1> QED
  BY <1>4, <1>5 DEF Excuses

\* A thread that goes on without an answer keeps the excuses it has.
LEMMA ExcusesKept ==
  ASSUME NEW th \in Threads, Excuses(th), Grows, call'[th] = call[th], got'[th] = got[th],
         refused[th] \subseteq refused'[th], torn[th] => torn'[th], listed'[th] = listed[th]
  PROVE  Excuses(th)'
<1>1. BadAnswers(th)' = BadAnswers(th)
  BY DEF BadAnswers
<1> QED
  BY <1>1 DEF Excuses, Excused, Grows

Entry == [content : {"none", "empty", "full"}, raw : BOOLEAN, fresh : BOOLEAN]
Record == [content : Contents, fresh : BOOLEAN]

\* What is remembered of one source leaves the others alone.
LEMMA RememberMoves ==
  ASSUME TypeOK, Caches, NEW s \in Sources, NEW c \in {"empty", "full"}, NEW raw \in BOOLEAN,
         Remember(s, c, raw), MayBe(s, c), UNCHANGED outages
  PROVE  /\ memory' \in [Sources -> Entry] /\ memory'[s].content = c
         /\ \A q \in Sources : MayBe(q, memory[q].content)' /\
                               (memory'[q].content = "none" => memory[q].content = "none")
<1>1. memory' = [memory EXCEPT ![s] = [content |-> c, raw |-> raw, fresh |-> TRUE]]
  BY DEF Remember
<1>2. [content |-> c, raw |-> raw, fresh |-> TRUE] \in Entry
  BY DEF Entry
<1>3. memory' \in [Sources -> Entry] /\ memory'[s].content = c
  BY <1>1, <1>2 DEF TypeOK, Entry
<1>4. \A q \in Sources \ {s} : memory'[q] = memory[q]
  BY <1>1 DEF TypeOK
<1> QED
  BY <1>3, <1>4 DEF Caches, MayBe

\* What is written to one file leaves the others alone.
LEMMA FileMoves ==
  ASSUME TypeOK, Caches, NEW s \in Files, NEW r \in Record, r.content # "none",
         file' = [file EXCEPT ![s] = r], MayBe(s, r.content), UNCHANGED outages
  PROVE  /\ file' \in [Files -> Record] /\ file'[s].content = r.content
         /\ \A q \in Files : MayBe(q, file[q].content)' /\
                             (file'[q].content = "none" => file[q].content = "none")
<1>1. file' \in [Files -> Record] /\ file'[s] = r
  BY DEF TypeOK, Record
<1>2. \A q \in Files \ {s} : file'[q] = file[q]
  BY DEF TypeOK
<1> QED
  BY <1>1, <1>2 DEF Caches, MayBe

\* The steps of reading a file
Unread(th) ==
  /\ Goes(th, "fetch") /\ UNCHANGED <<memory, call, got, value>>
  /\ torn' = [torn EXCEPT ![th] = TRUE]
Refused(th) ==
  /\ Answer(th, "raised") /\ UNCHANGED memory
  /\ torn' = [torn EXCEPT ![th] = TRUE]
Loaded(th) ==
  /\ file[Source(th)].content \in {"empty", "full"} /\ Source(th) \in Lists
  /\ Remember(Source(th), file[Source(th)].content, TRUE)
  /\ Goes(th, "convert") /\ UNCHANGED <<call, got, value, torn>>
Taken(th) ==
  /\ file[Source(th)].content \in {"empty", "full"}
  /\ Remember(Source(th), file[Source(th)].content, FALSE) \/ UNCHANGED memory
  /\ Answer(th, file[Source(th)].content) /\ UNCHANGED torn

LEMMA ReadFileCases ==
  ASSUME TypeOK, NEW th \in Threads, Source(th) \in Files,
         file[Source(th)].content # "none", ReadFile(th, Source(th))
  PROVE  Unread(th) \/ Refused(th) \/ Loaded(th) \/ Taken(th)
<1> DEFINE s == Source(th)
<1>1. file[s].content \in Contents
  BY DEF TypeOK
<1>2. CASE file[s].content = "torn"
  <2>1. /\ torn' = [torn EXCEPT ![th] = TRUE] /\ UNCHANGED memory
        /\ IF s = "facts" THEN Goes(th, "fetch") /\ UNCHANGED <<call, got, value>>
           ELSE Answer(th, "raised")
    BY <1>2 DEF ReadFile
  <2> QED
    BY <2>1 DEF Unread, Refused
<1>3. CASE file[s].content # "torn" /\ s \in Lists
  <2>1. Remember(s, file[s].content, TRUE) /\ Goes(th, "convert") /\ UNCHANGED <<call, got, value, torn>>
    BY <1>3 DEF ReadFile
  <2> QED
    BY <1>1, <1>3, <2>1 DEF Loaded, Contents
<1>4. CASE file[s].content # "torn" /\ s \notin Lists
  <2>1. /\ IF s \in Forever THEN Remember(s, file[s].content, FALSE) ELSE UNCHANGED memory
        /\ Answer(th, file[s].content) /\ UNCHANGED torn
    BY <1>4 DEF ReadFile
  <2> QED
    BY <1>1, <1>4, <2>1 DEF Taken, Contents
<1> QED
  BY <1>2, <1>3, <1>4

\* A thread goes to a step of reading without an answer.
LEMMA GoesTo ==
  ASSUME TypeOK, NEW th \in Threads, NEW step \in Steps, Goes(th, step)
  PROVE  /\ at' \in [Threads -> Steps] /\ at'[th] = step
         /\ \A o \in Threads \ {th} : at'[o] = at[o]
BY DEF Goes, TypeOK

\* What a step of th leaves to the files, the memory and the other threads
Leaves(th) ==
  /\ file' \in [Files -> Record] /\ memory' \in [Sources -> Entry]
  /\ refused' \in [Threads -> SUBSET Sources] /\ torn' \in [Threads -> BOOLEAN]
  /\ UNCHANGED <<down, listed, outages, crashes>>
  /\ Grows /\ Caches'
  /\ refused[th] \subseteq refused'[th] /\ (torn[th] => torn'[th])
  /\ \A o \in Threads \ {th} : refused'[o] = refused[o] /\ torn'[o] = torn[o]

\* An answer, given for a reason if it is bad, keeps everything.
LEMMA AnswerKeeps ==
  ASSUME TypeOK, Sound, NEW th \in Threads, at[th] \in Reading,
         NEW a \in Answers, Answer(th, a), Leaves(th),
         a = "empty" => outages > 0,
         a \in Bad => \/ Source(th) \in Keepers \/ torn'[th]
                      \/ Source(th) \in refused'[th] /\ ~(Source(th) = "us" /\ listed[th])
  PROVE  TypeOK' /\ Sound'
<1>1. Place(th) /\ Excuses(th)
  BY DEF Sound
<1>2. Place(th)' /\ Excuses(th)'
  BY <1>1, ActorAnswers DEF Leaves
<1>3. /\ got' = [got EXCEPT ![th] = Append(@, a)] /\ got' \in [Threads -> Seq(Answers)]
      /\ call' = call /\ at' \in [Threads -> Steps] /\ at' = [at EXCEPT ![th] = at'[th]]
      /\ value' \in [Threads -> {"empty", "full"}] /\ value' = [value EXCEPT ![th] = "empty"]
  BY <1>1, AnswerMoves
<1>4. ASSUME NEW o \in Threads \ {th} PROVE Place(o)' /\ Excuses(o)'
  <2>1. SameThread(o)
    BY <1>3 DEF SameThread, Leaves, TypeOK
  <2> QED
    BY <2>1, OthersKept DEF Sound, Leaves
<1>5. TypeOK'
  BY <1>3 DEF TypeOK, Leaves, Record, Entry
<1> QED
  BY <1>2, <1>4, <1>5 DEF Sound, Leaves

\* So does a step to another place.
LEMMA PlaceKeeps ==
  ASSUME TypeOK, Sound, NEW th \in Threads, NEW step \in Steps, Goes(th, step), Leaves(th),
         UNCHANGED <<call, got>>, value' \in [Threads -> {"empty", "full"}],
         \A o \in Threads \ {th} : value'[o] = value[o],
         Place(th)'
  PROVE  TypeOK' /\ Sound'
<1>1. Excuses(th)'
  BY ExcusesKept DEF Sound, Leaves
<1>2. at' \in [Threads -> Steps] /\ \A o \in Threads \ {th} : at'[o] = at[o]
  BY GoesTo
<1>3. ASSUME NEW o \in Threads \ {th} PROVE Place(o)' /\ Excuses(o)'
  <2>1. SameThread(o)
    BY <1>2 DEF SameThread, Leaves
  <2> QED
    BY <2>1, OthersKept DEF Sound, Leaves
<1>4. TypeOK'
  BY <1>2 DEF TypeOK, Leaves, Record, Entry
<1> QED
  BY <1>1, <1>3, <1>4 DEF Sound, Leaves

\* A step that touches no cache leaves what it has to.
LEMMA LeavesAll ==
  ASSUME TypeOK, Sound, NEW th \in Threads,
         UNCHANGED <<file, memory, down, refused, torn, listed, outages, crashes>>
  PROVE  Leaves(th)
BY DEF TypeOK, Sound, Leaves, Record, Entry, Grows, Caches, MayBe

LEMMA LoadKeeps ==
  ASSUME TypeOK, Sound, NEW th \in Threads, Load(th) \/ RedisMisses(th)
  PROVE  TypeOK' /\ Sound'
<1> DEFINE s == Source(th)
<1>1. at[th] = "load" /\ at[th] \in Reading /\ Place(th)
  BY DEF Load, RedisMisses, Reading, Sound
<1>2. Leaves(th)
  BY LeavesAll DEF Load, RedisMisses, history
<1>3. s \in Sources /\ call[th] \in Calls /\ Len(got[th]) < Len(Reads[call[th]])
  BY <1>1, SourceOfCall DEF Place
<1>4. ASSUME NEW step \in {"read", "fetch"}, Goes(th, step), UNCHANGED <<call, got, value>>,
             step = "read" => s \in Files /\ file[s].content # "none", UNCHANGED file
      PROVE  TypeOK' /\ Sound'
  <2>1. at'[th] = step /\ step \in Steps
    BY <1>4, GoesTo DEF Steps
  <2>2. Source(th)' = s /\ listed'[th] = listed[th] /\ file' = file /\ call'[th] = call[th]
        /\ got'[th] = got[th] /\ at'[th] \in {"read", "fetch"}
    BY <1>2, <1>4, <2>1 DEF Source, Leaves
  <2>3. Place(th)'
    <3>1. listed[th] => file["us"].content # "none"
      BY <1>1 DEF Place
    <3> QED
      BY <1>3, <1>4, <2>1, <2>2, <3>1 DEF Place
  <2> QED
    BY <1>2, <1>4, <2>1, <2>3, PlaceKeeps DEF TypeOK
<1>5. CASE Load(th) /\ Remembered(s)
  <2> DEFINE a == IF memory[s].raw THEN "raw" ELSE memory[s].content
  <2>1. Answer(th, a)
    BY <1>5 DEF Load
  <2>2. memory[s].content \in {"empty", "full"} /\ MayBe(s, memory[s].content)
    BY <1>3, <1>5 DEF Remembered, TypeOK, Sound, Caches
  <2>3. a = "raw" \/ a = memory[s].content
    OBVIOUS
  <2> HIDE DEF a
  <2>4. a \in Answers /\ (a \in Bad => s \in Keepers /\ outages > 0)
    BY <2>2, <2>3 DEF Answers, Bad, MayBe
  <2>5. a = "empty" => outages > 0
    BY <2>4 DEF Bad
  <2> QED
    BY <1>1, <1>2, <2>1, <2>4, <2>5, AnswerKeeps
<1>6. CASE Load(th) /\ ~Remembered(s)
  <2> DEFINE step == IF s \in Files /\ file[s].content # "none" /\ file[s].fresh
                     THEN "read" ELSE "fetch"
  <2>1. Goes(th, step) /\ UNCHANGED <<call, got, value>> /\ UNCHANGED file
    BY <1>6 DEF Load
  <2>2. step \in {"read", "fetch"} /\ (step = "read" => s \in Files /\ file[s].content # "none")
    OBVIOUS
  <2> HIDE DEF step
  <2> QED
    BY <1>4, <2>1, <2>2
<1>7. CASE RedisMisses(th)
  BY <1>4, <1>7 DEF RedisMisses
<1> QED
  BY <1>5, <1>6, <1>7

LEMMA ReadFileKeeps ==
  ASSUME TypeOK, Sound, NEW th \in Threads, at[th] \in {"read", "fetch"},
         Source(th) \in Files, file[Source(th)].content # "none", ReadFile(th, Source(th)),
         UNCHANGED <<file, down, listed, outages, crashes>>,
         refused' \in [Threads -> SUBSET Sources], refused[th] \subseteq refused'[th],
         \A o \in Threads \ {th} : refused'[o] = refused[o]
  PROVE  TypeOK' /\ Sound'
<1> DEFINE s == Source(th)
           c == file[s].content
<1>1. at[th] \in Reading /\ Place(th) /\ Caches
  BY DEF Reading, Sound
<1>2. s \in Sources /\ call[th] \in Calls /\ Len(got[th]) < Len(Reads[call[th]])
  BY <1>1, SourceOfCall DEF Place
<1>3. file' \in [Files -> Record] /\ MayBe(s, c)
  BY DEF TypeOK, Record, Sound, Caches
<1>4. ASSUME memory' \in [Sources -> Entry],
             \A q \in Sources : MayBe(q, memory[q].content)' /\
                                (memory'[q].content = "none" => memory[q].content = "none"),
             torn' \in [Threads -> BOOLEAN], torn[th] => torn'[th],
             \A o \in Threads \ {th} : torn'[o] = torn[o]
      PROVE  Leaves(th)
  BY <1>1, <1>3, <1>4 DEF Leaves, Grows, Caches, MayBe
<1>5. ASSUME UNCHANGED memory
      PROVE  /\ memory' \in [Sources -> Entry]
             /\ \A q \in Sources : MayBe(q, memory[q].content)' /\
                                   (memory'[q].content = "none" => memory[q].content = "none")
  BY <1>1, <1>5 DEF TypeOK, Entry, Caches, MayBe
<1>6. ASSUME torn' = [torn EXCEPT ![th] = TRUE]
      PROVE  torn' \in [Threads -> BOOLEAN] /\ torn'[th]
             /\ \A o \in Threads \ {th} : torn'[o] = torn[o]
  BY <1>6 DEF TypeOK
<1>7. CASE Unread(th)
  <2>1. Leaves(th)
    BY <1>4, <1>5, <1>6, <1>7 DEF Unread
  <2>2. Goes(th, "fetch") /\ "fetch" \in Steps /\ at'[th] = "fetch" /\ UNCHANGED <<call, got, value>>
    BY <1>7, GoesTo DEF Unread, Steps
  <2>3. Place(th)'
    BY <1>1, <1>2, <2>2 DEF Place
  <2> QED
    BY <2>1, <2>2, <2>3, PlaceKeeps DEF TypeOK
<1>8. CASE Refused(th)
  <2>1. Leaves(th) /\ torn'[th]
    BY <1>4, <1>5, <1>6, <1>8 DEF Refused
  <2>2. Answer(th, "raised") /\ "raised" \in Answers
    BY <1>8 DEF Refused, Answers
  <2> QED
    BY <1>1, <2>1, <2>2, AnswerKeeps
<1>9. CASE Loaded(th)
  <2>1. /\ memory' \in [Sources -> Entry] /\ memory'[s].content = c /\ c # "none"
        /\ \A q \in Sources : MayBe(q, memory[q].content)' /\
                              (memory'[q].content = "none" => memory[q].content = "none")
    BY <1>1, <1>2, <1>3, <1>9, RememberMoves DEF Loaded
  <2>2. UNCHANGED <<call, got, value, torn>> /\ Goes(th, "convert") /\ s \in Lists
    BY <1>9 DEF Loaded
  <2>3. Leaves(th)
    BY <1>4, <2>1, <2>2 DEF TypeOK
  <2>4. "convert" \in Steps /\ at'[th] = "convert" /\ Source(th)' = s
    BY <2>2, GoesTo DEF Steps, Source
  <2>5. Place(th)'
    BY <1>1, <1>2, <2>1, <2>2, <2>4 DEF Place
  <2> QED
    BY <2>2, <2>3, <2>4, <2>5, PlaceKeeps DEF TypeOK
<1>10. CASE Taken(th)
  <2>1. /\ memory' \in [Sources -> Entry]
        /\ \A q \in Sources : MayBe(q, memory[q].content)' /\
                              (memory'[q].content = "none" => memory[q].content = "none")
    <3>1. CASE UNCHANGED memory
      BY <1>5, <3>1
    <3>2. CASE Remember(s, c, FALSE)
      BY <1>1, <1>2, <1>3, <1>10, <3>2, RememberMoves DEF Taken
    <3> QED
      BY <1>10, <3>1, <3>2 DEF Taken
  <2>2. Answer(th, c) /\ UNCHANGED torn /\ c \in {"empty", "full"}
    BY <1>10 DEF Taken
  <2>3. Leaves(th)
    BY <1>4, <2>1, <2>2 DEF TypeOK
  <2>4. c \in Answers /\ (c = "empty" => outages > 0) /\ (c \in Bad => s \in Keepers)
    BY <1>3, <2>2 DEF Answers, Bad, MayBe
  <2> HIDE DEF c
  <2> QED
    BY <1>1, <2>2, <2>3, <2>4, AnswerKeeps
<1> QED
  BY <1>7, <1>8, <1>9, <1>10, ReadFileCases

LEMMA ReadKeeps == ASSUME TypeOK, Sound, NEW th \in Threads, Read(th) PROVE TypeOK' /\ Sound'
<1>1. at[th] = "read" /\ Source(th) \in Files /\ file[Source(th)].content # "none"
  BY DEF Read, Sound, Place
<1>2. /\ ReadFile(th, Source(th)) /\ refused' = refused
      /\ UNCHANGED <<file, down, listed, outages, crashes>>
  BY DEF Read
<1> QED
  BY <1>1, <1>2, ReadFileKeeps DEF TypeOK

LEMMA ConvertKeeps == ASSUME TypeOK, Sound, NEW th \in Threads, Convert(th) PROVE TypeOK' /\ Sound'
<1> DEFINE s == Source(th)
           c == memory[s].content
<1>1. at[th] = "convert" /\ at[th] \in Reading /\ Place(th) /\ Caches
  BY DEF Convert, Reading, Sound
<1>2. s \in Sources /\ c # "none" /\ memory[s] \in Entry
  BY <1>1, SourceOfCall DEF Place, TypeOK, Entry
<1>3. c \in {"empty", "full"} /\ MayBe(s, c)
  BY <1>1, <1>2 DEF Entry, Caches
<1>4. memory' = [memory EXCEPT ![s] = [memory[s] EXCEPT !.raw = FALSE]] /\ Answer(th, c)
      /\ UNCHANGED <<file, down, history, outages, crashes>>
  BY DEF Convert
<1>5. [memory[s] EXCEPT !.raw = FALSE] \in Entry /\ [memory[s] EXCEPT !.raw = FALSE].content = c
  BY <1>2 DEF Entry
<1>6. memory' \in [Sources -> Entry] /\ \A q \in Sources : memory'[q].content = memory[q].content
  BY <1>2, <1>4, <1>5 DEF TypeOK, Entry
<1>7. Leaves(th)
  BY <1>1, <1>4, <1>6 DEF Leaves, Grows, Caches, MayBe, TypeOK, Record, history
<1>8. c \in Answers /\ (c = "empty" => outages > 0) /\ (c \in Bad => s \in Keepers)
  BY <1>3 DEF Answers, Bad, MayBe
<1>9. Answer(th, c)
  BY <1>4
<1> HIDE DEF c
<1> QED
  BY <1>1, <1>7, <1>8, <1>9, AnswerKeeps

\* An answer is kept, in a file that is cut short first, or in memory.
LEMMA KeepKeeps ==
  ASSUME TypeOK, Sound, NEW th \in Threads, at[th] = "fetch", NEW c \in {"empty", "full"},
         Keep(th, Source(th), c), MayBe(Source(th), c),
         UNCHANGED <<down, torn, listed, outages, crashes>>,
         refused' \in [Threads -> SUBSET Sources], refused[th] \subseteq refused'[th],
         \A o \in Threads \ {th} : refused'[o] = refused[o]
  PROVE  TypeOK' /\ Sound'
<1> DEFINE s == Source(th)
<1>1. at[th] \in Reading /\ Place(th) /\ Caches
  BY DEF Reading, Sound
<1>2. s \in Sources /\ call[th] \in Calls /\ Len(got[th]) < Len(Reads[call[th]])
  BY <1>1, SourceOfCall DEF Place
<1>3. CASE s \in Files
  <2> DEFINE r == [content |-> "torn", fresh |-> TRUE]
  <2>1. file' = [file EXCEPT ![s] = r] /\ value' = [value EXCEPT ![th] = c]
        /\ Goes(th, "write") /\ UNCHANGED <<memory, call, got>>
    BY <1>3 DEF Keep
  <2>2. r \in Record /\ r.content # "none" /\ MayBe(s, r.content)
    BY DEF Record, Contents, MayBe
  <2> HIDE DEF r
  <2>3. /\ file' \in [Files -> Record]
        /\ \A q \in Files : MayBe(q, file[q].content)' /\
                            (file'[q].content = "none" => file[q].content = "none")
    BY <1>1, <1>3, <2>1, <2>2, FileMoves
  <2>4. Leaves(th)
    BY <1>1, <2>1, <2>3 DEF Leaves, Grows, Caches, MayBe, TypeOK, Entry
  <2>5. /\ "write" \in Steps /\ at'[th] = "write" /\ Source(th)' = s /\ value'[th] = c
        /\ value' \in [Threads -> {"empty", "full"}]
        /\ \A o \in Threads \ {th} : value'[o] = value[o]
    BY <2>1, GoesTo DEF Steps, Source, TypeOK
  <2>6. Place(th)'
    BY <1>1, <1>2, <1>3, <2>1, <2>3, <2>5, UsIsAList DEF Place, MayBe
  <2> QED
    BY <2>1, <2>4, <2>5, <2>6, PlaceKeeps
<1>4. CASE s \notin Files
  <2>1. Remember(s, c, FALSE) /\ Answer(th, c) /\ UNCHANGED file
    BY <1>4 DEF Keep
  <2>2. /\ memory' \in [Sources -> Entry]
        /\ \A q \in Sources : MayBe(q, memory[q].content)' /\
                              (memory'[q].content = "none" => memory[q].content = "none")
    BY <1>1, <1>2, <2>1, RememberMoves
  <2>3. Leaves(th)
    BY <1>1, <2>1, <2>2 DEF Leaves, Grows, Caches, MayBe, TypeOK, Record
  <2>4. c \in Answers /\ (c = "empty" => outages > 0) /\ (c \in Bad => s \in Keepers)
    BY DEF Answers, Bad, MayBe
  <2> QED
    BY <1>1, <2>1, <2>3, <2>4, AnswerKeeps
<1> QED
  BY <1>3, <1>4

LEMMA FetchKeeps == ASSUME TypeOK, Sound, NEW th \in Threads, Fetch(th) PROVE TypeOK' /\ Sound'
<1>1. at[th] = "fetch" /\ Keep(th, Source(th), "full") /\ UNCHANGED <<down, history, outages, crashes>>
  BY DEF Fetch
<1>2. MayBe(Source(th), "full") /\ refused' = refused
  BY <1>1 DEF MayBe, history
<1> QED
  BY <1>1, <1>2, KeepKeeps DEF TypeOK, history

LEMMA FetchFailsKeeps ==
  ASSUME TypeOK, Sound, NEW th \in Threads, FetchFails(th)
  PROVE  TypeOK' /\ Sound'
<1> DEFINE s == Source(th)
<1>1. at[th] = "fetch" /\ at[th] \in Reading /\ Place(th) /\ Caches /\ s \in down
  BY DEF FetchFails, Reading, Sound
<1>2. s \in Sources /\ outages > 0
  BY <1>1, SourceOfCall DEF Caches
<1>3. /\ refused' = [refused EXCEPT ![th] = @ \cup {s}]
      /\ UNCHANGED <<down, listed, outages, crashes>>
  BY DEF FetchFails
<1>4. /\ refused' \in [Threads -> SUBSET Sources] /\ refused'[th] = refused[th] \cup {s}
      /\ \A o \in Threads \ {th} : refused'[o] = refused[o]
  BY <1>2, <1>3 DEF TypeOK
<1>5. CASE Cache[s].fails = "old file" /\ file[s].content # "none"
  <2>1. s = "us"
    BY <1>2, <1>5, OldFileIsUs
  <2>2. s \notin Keepers
    BY <1>5 DEF Keepers
  <2>3. ReadFile(th, s) /\ UNCHANGED file
    BY <1>5, <2>2 DEF FetchFails
  <2> QED
    BY <1>1, <1>3, <1>4, <1>5, <2>1, <2>3, UsIsAList, ReadFileKeeps
<1>6. CASE s \in Keepers
  <2>1. Cache[s].fails # "old file"
    BY <1>6 DEF Keepers
  <2>2. Keep(th, s, "empty") /\ UNCHANGED torn
    BY <1>6, <2>1 DEF FetchFails
  <2>3. MayBe(s, "empty")
    BY <1>2, <1>6 DEF MayBe
  <2> QED
    BY <1>1, <1>3, <1>4, <2>2, <2>3, KeepKeeps
<1>7. CASE s \notin Keepers /\ ~(Cache[s].fails = "old file" /\ file[s].content # "none")
  <2> DEFINE a == IF s \in Raising THEN "raised" ELSE "empty"
  <2>1. Answer(th, a) /\ UNCHANGED <<file, memory, torn>>
    BY <1>7 DEF FetchFails
  <2>2. a \in Answers
    BY DEF Answers
  <2>3. ~(s = "us" /\ listed[th])
    <3>1. s = "us" => file["us"].content = "none"
      BY <1>2, <1>7, OldFileIsUs
    <3> QED
      BY <1>1, <3>1 DEF Place
  <2>4. Leaves(th)
    BY <1>1, <1>3, <1>4, <2>1 DEF Leaves, Grows, Caches, MayBe, TypeOK, Record, Entry
  <2>5. s \in refused'[th]
    BY <1>4
  <2> HIDE DEF a
  <2> QED
    BY <1>1, <1>2, <2>1, <2>2, <2>3, <2>4, <2>5, AnswerKeeps
<1> QED
  BY <1>5, <1>6, <1>7

LEMMA WriteKeeps == ASSUME TypeOK, Sound, NEW th \in Threads, Write(th) PROVE TypeOK' /\ Sound'
<1> DEFINE s == Source(th)
           v == value[th]
<1>1. at[th] = "write" /\ at[th] \in Reading /\ Place(th) /\ Caches
  BY DEF Write, Reading, Sound
<1>2. s \in Sources /\ s \in Files /\ v \in {"empty", "full"} /\ MayBe(s, v)
  BY <1>1, SourceOfCall DEF Place, TypeOK
<1>3. PICK c \in {v, "torn"} : file' = [file EXCEPT ![s] = [file[s] EXCEPT !.content = c]]
  BY DEF Write
<1>4. /\ IF s \in Forever THEN Remember(s, v, FALSE) ELSE UNCHANGED memory
      /\ Answer(th, v) /\ UNCHANGED <<down, history, outages, crashes>>
  BY DEF Write
<1>5. /\ file' \in [Files -> Record]
      /\ \A q \in Files : MayBe(q, file[q].content)' /\
                          (file'[q].content = "none" => file[q].content = "none")
  <2> DEFINE r == [file[s] EXCEPT !.content = c]
  <2>1. r \in Record /\ r.content = c
    BY <1>2 DEF TypeOK, Record, Contents
  <2>2. r.content # "none" /\ MayBe(s, r.content)
    BY <1>2, <2>1 DEF MayBe
  <2>3. file' = [file EXCEPT ![s] = r] /\ UNCHANGED outages
    BY <1>3, <1>4
  <2> HIDE DEF r
  <2> QED
    BY <1>1, <1>2, <2>1, <2>2, <2>3, FileMoves
<1>6. /\ memory' \in [Sources -> Entry]
      /\ \A q \in Sources : MayBe(q, memory[q].content)' /\
                            (memory'[q].content = "none" => memory[q].content = "none")
  <2>1. CASE s \in Forever
    BY <1>1, <1>2, <1>4, <2>1, RememberMoves
  <2>2. CASE s \notin Forever
    BY <1>1, <1>4, <2>2 DEF TypeOK, Entry, Caches, MayBe
  <2> QED
    BY <2>1, <2>2
<1>7. Leaves(th)
  BY <1>1, <1>4, <1>5, <1>6 DEF Leaves, Grows, Caches, MayBe, TypeOK, history
<1>8. v \in Answers /\ (v = "empty" => outages > 0) /\ (v \in Bad => s \in Keepers)
  BY <1>2 DEF Answers, Bad, MayBe
<1>9. Answer(th, v)
  BY <1>4
<1> HIDE DEF v
<1> QED
  BY <1>1, <1>7, <1>8, <1>9, AnswerKeeps

\* What suggest_companies adds is not an answer of a source.
LEMMA MergeKeeps == ASSUME TypeOK, Sound, NEW th \in Threads, Merge(th) PROVE TypeOK' /\ Sound'
<1>1. /\ at[th] = "merge" /\ Place(th) /\ Excuses(th) /\ Caches
      /\ Goes(th, "done") /\ UNCHANGED <<file, memory, down, call, value, history, outages, crashes>>
  BY DEF Merge, Sound
<1>2. /\ at' \in [Threads -> Steps] /\ at'[th] = "done"
      /\ \A o \in Threads \ {th} : at'[o] = at[o]
  BY <1>1, GoesTo DEF Steps
<1>3. /\ call[th] \in Calls /\ Len(got[th]) = 2 /\ Len(Reads[call[th]]) = 2 /\ got[th] \in Seq(Answers)
  BY <1>1 DEF Place, TypeOK
<1>4. /\ got' \in [Threads -> Seq(Answers)] /\ got'[th] \in {got[th], Append(got[th], "raised")}
      /\ \A o \in Threads \ {th} : got'[o] = got[o]
  <2>1. CASE UNCHANGED got
    BY <2>1 DEF TypeOK
  <2>2. CASE got' = [got EXCEPT ![th] = Append(@, "raised")]
    <3>1. Append(got[th], "raised") \in Seq(Answers)
      BY <1>3 DEF Answers
    <3> QED
      BY <2>2, <3>1 DEF TypeOK
  <2> QED
    BY <2>1, <2>2 DEF Merge
<1>5. BadAnswers(th)' \subseteq BadAnswers(th) /\ \A i \in BadAnswers(th)' : got'[th][i] = got[th][i]
  <2>1. CASE got'[th] = got[th]
    BY <1>1, <2>1 DEF BadAnswers
  <2>2. CASE got'[th] = Append(got[th], "raised")
    BY <1>1, <1>3, <2>2 DEF BadAnswers
  <2> QED
    BY <1>4, <2>1, <2>2
<1>6. Place(th)' /\ Excuses(th)'
  <2>1. Place(th)'
    BY <1>1, <1>2, <1>3 DEF Place, Reading, history
  <2>2. Excuses(th)'
    BY <1>1, <1>5 DEF Excuses, Excused, history
  <2> QED
    BY <2>1, <2>2
<1>7. Caches' /\ Grows
  BY <1>1 DEF Caches, MayBe, Grows
<1>8. ASSUME NEW o \in Threads \ {th} PROVE Place(o)' /\ Excuses(o)'
  <2>1. SameThread(o)
    BY <1>1, <1>2, <1>4 DEF SameThread, history
  <2> QED
    BY <1>7, <2>1, OthersKept DEF Sound
<1>9. TypeOK'
  BY <1>1, <1>2, <1>4 DEF TypeOK, history
<1> QED
  BY <1>6, <1>7, <1>8, <1>9 DEF Sound

LEMMA BeginKeeps ==
  ASSUME TypeOK, Sound, NEW th \in Threads, NEW c \in Calls, Begin(th, c)
  PROVE  TypeOK' /\ Sound'
<1>1. /\ Goes(th, "load") /\ call' = [call EXCEPT ![th] = c] /\ got' = [got EXCEPT ![th] = <<>>]
      /\ refused' = [refused EXCEPT ![th] = {}] /\ torn' = [torn EXCEPT ![th] = FALSE]
      /\ listed' = [listed EXCEPT ![th] = file["us"].content = "full"]
      /\ UNCHANGED <<file, memory, down, value, outages, crashes>>
  BY DEF Begin
<1>2. /\ at' \in [Threads -> Steps] /\ at'[th] = "load"
      /\ \A o \in Threads \ {th} : at'[o] = at[o]
  BY <1>1, GoesTo DEF Steps
<1>3. Caches' /\ Grows
  BY <1>1 DEF Sound, Caches, MayBe, Grows
<1>4. TypeOK'
  <2>1. call' \in [Threads -> Calls \cup {None}] /\ got' \in [Threads -> Seq(Answers)]
    BY <1>1 DEF TypeOK
  <2>2. refused' \in [Threads -> SUBSET Sources] /\ torn' \in [Threads -> BOOLEAN]
    BY <1>1 DEF TypeOK
  <2>3. listed' \in [Threads -> BOOLEAN]
    BY <1>1 DEF TypeOK
  <2> QED
    BY <1>1, <1>2, <2>1, <2>2, <2>3 DEF TypeOK
<1>5. call'[th] = c /\ got'[th] = <<>> /\ (listed'[th] => file["us"].content = "full")
  BY <1>1 DEF TypeOK
<1>6. Place(th)' /\ Excuses(th)'
  <2>1. Place(th)'
    BY <1>1, <1>2, <1>5, ReadsTwo DEF Place, Reading
  <2>2. BadAnswers(th)' = {}
    BY <1>5 DEF BadAnswers
  <2> QED
    BY <2>1, <2>2 DEF Excuses
<1>7. ASSUME NEW o \in Threads \ {th} PROVE Place(o)' /\ Excuses(o)'
  <2>1. SameThread(o)
    BY <1>1, <1>2 DEF SameThread, TypeOK
  <2> QED
    BY <1>3, <2>1, OthersKept DEF Sound
<1> QED
  BY <1>3, <1>4, <1>6, <1>7 DEF Sound

LEMMA WorldKeeps ==
  ASSUME TypeOK, Sound, NEW s \in Sources,
         FileAges(s) \/ MemoryAges(s) \/ Outage(s) \/ Restored(s)
  PROVE  TypeOK' /\ Sound'
<1>1. UNCHANGED <<thread, history>>
  BY DEF FileAges, MemoryAges, Outage, Restored
<1>2. /\ file' \in [Files -> Record] /\ \A q \in Files : file'[q].content = file[q].content
  <2>1. CASE FileAges(s)
    BY <2>1 DEF FileAges, TypeOK, Record
  <2>2. CASE MemoryAges(s) \/ Outage(s) \/ Restored(s)
    BY <2>2 DEF MemoryAges, Outage, Restored, TypeOK, Record
  <2> QED
    BY <2>1, <2>2
<1>3. /\ memory' \in [Sources -> Entry] /\ \A q \in Sources : memory'[q].content = memory[q].content
  <2>1. CASE MemoryAges(s)
    BY <2>1 DEF MemoryAges, TypeOK, Entry
  <2>2. CASE FileAges(s) \/ Outage(s) \/ Restored(s)
    BY <2>2 DEF FileAges, Outage, Restored, TypeOK, Entry
  <2> QED
    BY <2>1, <2>2
<1>4. /\ down' \subseteq Sources /\ outages' \in 0..MaxOutages /\ crashes' = crashes
      /\ outages > 0 => outages' > 0
      /\ down' # {} => outages' > 0
  BY BoundsAssumption DEF FileAges, MemoryAges, Outage, Restored, TypeOK, Sound, Caches
<1>5. Caches' /\ Grows
  BY <1>2, <1>3, <1>4 DEF Sound, Caches, MayBe, Grows
<1>6. TypeOK'
  BY <1>1, <1>2, <1>3, <1>4 DEF TypeOK, Record, Entry, thread, history
<1>7. ASSUME NEW o \in Threads PROVE Place(o)' /\ Excuses(o)'
  <2>1. SameThread(o)
    BY <1>1 DEF SameThread, thread, history
  <2> QED
    BY <1>5, <2>1, OthersKept DEF Sound
<1> QED
  BY <1>5, <1>6, <1>7 DEF Sound

\* Threads that do nothing, in a process that remembers nothing
LEMMA IdleSound ==
  ASSUME at = [th \in Threads |-> "idle"], got = [th \in Threads |-> <<>>],
         listed = [th \in Threads |-> FALSE]
  PROVE  \A th \in Threads : Place(th) /\ Excuses(th)
<1> SUFFICES ASSUME NEW th \in Threads PROVE Place(th) /\ Excuses(th)
  OBVIOUS
<1>1. at[th] = "idle" /\ got[th] = <<>> /\ ~listed[th]
  OBVIOUS
<1>2. BadAnswers(th) = {}
  BY <1>1 DEF BadAnswers
<1> QED
  BY <1>1, <1>2 DEF Place, Reading, Excuses

LEMMA ForgottenType == Forgotten \in [Sources -> Entry] /\ \A s \in Sources : Forgotten[s].content = "none"
BY DEF Forgotten, Entry

LEMMA CrashKeeps == ASSUME TypeOK, Sound, Crash PROVE TypeOK' /\ Sound'
<1>1. /\ memory' = Forgotten /\ UNCHANGED <<file, down, outages>>
      /\ at' = [th \in Threads |-> "idle"] /\ got' = [th \in Threads |-> <<>>]
      /\ listed' = [th \in Threads |-> FALSE]
  BY DEF Crash
<1>2. ASSUME NEW th \in Threads PROVE Place(th)' /\ Excuses(th)'
  <2>1. at'[th] = "idle" /\ got'[th] = <<>> /\ ~listed'[th]
    BY <1>1
  <2>2. BadAnswers(th)' = {}
    BY <2>1 DEF BadAnswers
  <2> QED
    BY <2>1, <2>2 DEF Place, Reading, Excuses
<1>3. Caches'
  BY <1>1, ForgottenType DEF Sound, Caches, MayBe
<1>4. TypeOK'
  BY <1>1, ForgottenType, BoundsAssumption DEF Crash, TypeOK, Steps, Entry
<1> QED
  BY <1>2, <1>3, <1>4 DEF Sound

LEMMA SoundInit == Init => TypeOK /\ Sound
<1> SUFFICES ASSUME Init PROVE TypeOK /\ Sound
  OBVIOUS
<1>1. TypeOK
  BY ForgottenType, BoundsAssumption DEF Init, TypeOK, Entry, Contents, Steps
<1>2. Caches
  BY ForgottenType DEF Init, Caches, MayBe
<1>3. \A th \in Threads : Place(th) /\ Excuses(th)
  BY IdleSound DEF Init
<1> QED
  BY <1>1, <1>2, <1>3 DEF Sound

LEMMA SoundNext == TypeOK /\ Sound /\ [Next]_vars => TypeOK' /\ Sound'
<1> SUFFICES ASSUME TypeOK, Sound, [Next]_vars PROVE TypeOK' /\ Sound'
  OBVIOUS
<1>1. ASSUME NEW th \in Threads, Step(th) PROVE TypeOK' /\ Sound'
  BY <1>1, LoadKeeps, ReadKeeps, ConvertKeeps, FetchKeeps, FetchFailsKeeps, WriteKeeps, MergeKeeps
  DEF Step
<1>2. ASSUME NEW th \in Threads, NEW c \in Calls, Begin(th, c) PROVE TypeOK' /\ Sound'
  BY <1>2, BeginKeeps
<1>3. ASSUME NEW s \in Sources, FileAges(s) \/ MemoryAges(s) \/ Outage(s) \/ Restored(s)
      PROVE  TypeOK' /\ Sound'
  BY <1>3, WorldKeeps
<1>4. CASE Crash
  BY <1>4, CrashKeeps
<1>5. CASE UNCHANGED vars
  <2>1. \A o \in Threads : SameThread(o)
    BY <1>5 DEF vars, SameThread, thread, history
  <2>2. Grows /\ Caches'
    BY <1>5 DEF vars, Grows, Sound, Caches, MayBe
  <2>3. TypeOK'
    BY <1>5 DEF vars, TypeOK, thread, history
  <2> QED
    BY <2>1, <2>2, <2>3, OthersKept DEF Sound
<1> QED
  BY <1>1, <1>2, <1>3, <1>4, <1>5 DEF Next

(***************************************************************************)
(* The theorems                                                            *)
(***************************************************************************)

\* Whatever files, memory and calls contain, they contain answers, also of files cut short, of
\* processes that crashed and of writers that collide.
THEOREM TypeCorrect == Spec => []TypeOK
BY SoundInit, SoundNext, PTL DEF Spec

\* Nobody goes without data for an outage that another request met, whatever threads, crashes
\* and outages interleave: a bad answer was kept by a cache that keeps failures on purpose, or
\* the request itself was refused, with no list on disk to fall back on, or met a file cut
\* short (load_company_index, fetch_company_news, _cached_statement and the other caches).
THEOREM NotKept == Spec => []FailuresAreNotKept
<1>1. Sound => FailuresAreNotKept
  BY DEF Sound, Excuses, Excused, FailuresAreNotKept
<1> QED
  BY <1>1, SoundInit, SoundNext, PTL DEF Spec

\* What resembles a phrase most among all titles, if it is not Indian, does so without the Indian
\* ones; and nothing else does.
LEMMA BestStays ==
  ASSUME NEW p, Phrase(p), ~MostlyIndian(p)
  PROVE  BestTitleMatch(p, {}) = BestTitleMatch(p, NseTitles)
<1> DEFINE all == UsTitles \cup NseTitles
<1>1. \A t \in all : p.score[t] \in Nat /\ p.rank[t] \in Nat
  BY DEF Phrase
<1>2. \A t, u, v \in all : Better(p, t, u) /\ Better(p, u, v) => Better(p, t, v)
  BY <1>1 DEF Better
<1>3. \A t, u \in all : ~(Better(p, t, u) /\ Better(p, u, t))
  BY <1>1 DEF Better
<1>4. \A x \in NseTitles : \E u \in UsTitles : Better(p, u, x)
  BY DEF MostlyIndian
<1>5. UsTitles \cap NseTitles = {}
  BY MessagesAssumption
<1>6. ASSUME NEW t \in BestTitleMatch(p, NseTitles) PROVE t \in BestTitleMatch(p, {})
  <2>1. t \in all /\ \A u \in all \ {t} : Better(p, t, u)
    BY <1>6 DEF BestTitleMatch
  <2>2. t \notin NseTitles
    <3> SUFFICES ASSUME t \in NseTitles PROVE FALSE
      OBVIOUS
    <3>1. PICK u \in UsTitles : Better(p, u, t)
      BY <1>4
    <3> QED
      BY <1>3, <1>5, <2>1, <3>1
  <2> QED
    BY <2>1, <2>2 DEF BestTitleMatch
<1>7. ASSUME NEW t \in BestTitleMatch(p, {}) PROVE t \in BestTitleMatch(p, NseTitles)
  <2>1. t \in UsTitles /\ \A u \in UsTitles \ {t} : Better(p, t, u)
    BY <1>7 DEF BestTitleMatch
  <2>2. ASSUME NEW x \in NseTitles PROVE Better(p, t, x)
    <3>1. PICK u \in UsTitles : Better(p, u, x)
      BY <1>4
    <3> QED
      BY <1>2, <2>1, <3>1
  <2> QED
    BY <2>1, <2>2 DEF BestTitleMatch
<1> QED
  BY <1>6, <1>7

\* Without the NSE's list the same is found in a message that has nothing Indian in it.
LEMMA SameFound ==
  ASSUME NEW m \in Messages, ~Indian(m)
  PROVE  Companies(m, {}) = Companies(m, NseTitles)
<1>1. \A i \in DOMAIN m.tokens : TokenTickers(m.tokens[i], {}) = TokenTickers(m.tokens[i], NseTitles)
  BY MessagesAssumption DEF TokenTickers, Indian
<1>2. \A i \in DOMAIN m.phrases : Matches(m.phrases[i], {}) = Matches(m.phrases[i], NseTitles)
  BY BestStays, MessagesAssumption DEF Matches, Indian
<1>3. m.proposal # None => Matches(m.proposal, {}) = Matches(m.proposal, NseTitles)
  BY BestStays, MessagesAssumption DEF Matches, Indian
<1>4. [i \in DOMAIN m.tokens |-> TokenTickers(m.tokens[i], {})]
        = [i \in DOMAIN m.tokens |-> TokenTickers(m.tokens[i], NseTitles)]
  BY <1>1
<1>5. [i \in DOMAIN m.phrases |-> One(Matches(m.phrases[i], {}))]
        = [i \in DOMAIN m.phrases |-> One(Matches(m.phrases[i], NseTitles))]
  BY <1>2
<1>6. NothingFound(m, {}) <=> NothingFound(m, NseTitles)
  BY <1>1, <1>2 DEF NothingFound
<1>7. Proposed(m, {}) = Proposed(m, NseTitles)
  BY <1>3 DEF Proposed
<1> QED
  BY <1>4, <1>5, <1>6, <1>7 DEF Companies

\* An attempt at a ticker that is not refused then has been found before, unless only then the
\* list has it.
LEMMA AttemptsAnswered ==
  ASSUME NEW m \in Messages, NEW nse, NEW nseThen, Attempts(m), CarriedOver(m, nse, nseThen)
  PROVE  \E t \in nseThen : t \notin nse
<1>1. PICK i \in DOMAIN m.tokens : m.tokens[i].checked
  BY DEF Attempts
<1>2. TokenTickers(m.tokens[i], nse) = <<>>
  BY DEF CarriedOver, NothingFound
<1>3. m.tokens[i].us = None /\ m.tokens[i].nse \notin nse
  BY <1>2 DEF TokenTickers
<1>4. m.tokens[i].nse \in nseThen
  BY <1>1, <1>3 DEF CarriedOver, Unresolved
<1> QED
  BY <1>3, <1>4

\* Without the NSE's list, which is missing only after an outage, a message is taken to name
\* what it is taken to name with it, unless it has something Indian in it; and an order that
\* attempts a ticker is never placed for another talked about before, unless the list came
\* between two looks at it (resolve_companies, has_unresolved_ticker_attempt).
THEOREM NamesRight == Spec => []NseOutageConfined
<1>1. TypeOK /\ Sound => NseOutageConfined
  <2> SUFFICES ASSUME TypeOK, Sound, NEW th \in Threads, Resolved(th)
               PROVE
                 /\ NseInHand(th) # NseTitles =>
                      /\ outages > 0
                      /\ \A m \in Messages :
                           Indian(m) \/ Companies(m, NseInHand(th)) = Companies(m, NseTitles)
                 /\ \A m \in Messages :
                      Attempts(m) /\ CarriedOver(m, NseInHand(th), NseInMemory) =>
                        NseInHand(th) = {} /\ NseInMemory # {}
    BY DEF NseOutageConfined
  <2>1. NseInHand(th) # NseTitles => NseInHand(th) = {} /\ got[th][2] = "empty"
    BY DEF NseInHand
  <2>2. NseInHand(th) # NseTitles => outages > 0
    <3> SUFFICES ASSUME got[th][2] = "empty" PROVE outages > 0
      BY <2>1
    <3>1. Len(got[th]) = 2 /\ got[th] \in Seq(Answers) /\ Len(Reads[call[th]]) = 2
      BY ReadsLists DEF Resolved, TypeOK
    <3>2. 2 \in BadAnswers(th)
      BY <3>1 DEF BadAnswers, Bad
    <3> QED
      BY <3>2 DEF Sound, Excuses, Excused
  <2>3. ASSUME NEW m \in Messages, NseInHand(th) # NseTitles
        PROVE  Indian(m) \/ Companies(m, NseInHand(th)) = Companies(m, NseTitles)
    BY <2>1, <2>3, SameFound
  <2>4. ASSUME NEW m \in Messages, Attempts(m), CarriedOver(m, NseInHand(th), NseInMemory)
        PROVE  NseInHand(th) = {} /\ NseInMemory # {}
    <3>1. PICK t \in NseInMemory : t \notin NseInHand(th)
      BY <2>4, AttemptsAnswered
    <3> QED
      BY <3>1 DEF NseInHand, NseInMemory
  <2> QED
    BY <2>2, <2>3, <2>4
<1> QED
  BY <1>1, SoundInit, SoundNext, PTL DEF Spec

(***************************************************************************)
(* The disclosures                                                         *)
(***************************************************************************)

\* The maps of tickers and of requests
Maps ==
  /\ store = [t \in Listed |-> store[t]] /\ lock = [t \in Listed |-> lock[t]]
  /\ emptied = [t \in Listed |-> emptied[t]] /\ \A t \in Listed : emptied[t] \in BOOLEAN
  /\ reqAt = [r \in Requests |-> reqAt[r]] /\ ticker = [r \in Requests |-> ticker[r]]
  /\ filing = [r \in Requests |-> filing[r]] /\ found = [r \in Requests |-> found[r]]
  /\ overtaken = [r \in Requests |-> overtaken[r]] /\ \A r \in Requests : overtaken[r] \in BOOLEAN
  /\ \A r \in Requests : reqAt[r] # "idle" => ticker[r] \in Listed

Ingests(r) == reqAt[r] \in {"delete", "add"}

\* The lock of a ticker belongs to the request that ingests a filing of it.
Locked ==
  /\ \A t \in Listed : lock[t] # None =>
       lock[t] \in Requests /\ Ingests(lock[t]) /\ ticker[lock[t]] = t
  /\ \A r \in Requests : Ingests(r) => lock[ticker[r]] = r

\* What a request has deleted stays deleted until it adds.
OneStored ==
  /\ \A t \in Listed : store[t] = {} \/ \E f \in store[t] : store[t] = {f}
  /\ \A r \in Requests : reqAt[r] = "add" => store[ticker[r]] = {}

\* What a request ingested is still there, unless it is being replaced or the store changed.
Replaced(t) == emptied[t] \/ (lock[t] # None /\ reqAt[lock[t]] = "add")
Ingested ==
  \A r \in Requests :
    /\ reqAt[r] \in {"query", "done"} /\ store[ticker[r]] = {} => Replaced(ticker[r])
    /\ reqAt[r] = "query" => overtaken[r] \/ store[ticker[r]] = {filing[r]}
    /\ reqAt[r] = "done" => overtaken[r] \/ found[r] = {filing[r]}

Stored == Maps /\ Locked /\ OneStored /\ Ingested

\* The instance's operator is the same.
LEMMA SameCardinality == ASSUME NEW S PROVE D!Cardinality(S) = Cardinality(S)
BY DEF D!Cardinality, Cardinality

LEMMA StoredHolds == ASSUME Stored PROVE D!FilingsHold
<1> USE DEF Stored
<1>1. ASSUME NEW t \in Listed PROVE Cardinality(store[t]) <= 1
  <2>1. CASE store[t] = {}
    BY <2>1, FS_EmptySet
  <2>2. ASSUME NEW f, store[t] = {f} PROVE Cardinality(store[t]) <= 1
    BY <2>2, FS_Singleton
  <2> QED
    BY <2>1, <2>2 DEF OneStored
<1>2. D!OneFilingStored
  BY <1>1, SameCardinality DEF Ingested, Replaced, Listed, D!OneFilingStored, D!Tickers
<1>3. D!CitesWhatItFound
  BY DEF Ingested, D!CitesWhatItFound
<1> QED
  BY <1>2, <1>3 DEF D!FilingsHold

LEMMA StoreInit == D!Init => Stored
BY DEF D!Init, D!Tickers, Listed, Stored, Maps, Locked, Ingests, OneStored, Ingested

\* A request goes on outside ingestion and retrieval.
Quiet == {"idle", "map", "download", "mapping", "feed", "choose", "fetch", "writing", "ingest"}

LEMMA QuietStep ==
  ASSUME Stored, NEW r \in Requests, reqAt[r] \in Quiet \cup {"query", "done"}, NEW p \in Quiet,
         reqAt' = [reqAt EXCEPT ![r] = p], p # "idle" => ticker'[r] \in Listed,
         ticker' = [ticker EXCEPT ![r] = ticker'[r]], filing' = [filing EXCEPT ![r] = filing'[r]],
         found' = [found EXCEPT ![r] = found'[r]],
         overtaken' = [overtaken EXCEPT ![r] = overtaken'[r]], overtaken'[r] \in BOOLEAN,
         UNCHANGED <<store, lock, emptied>>
  PROVE  Stored'
<1> USE DEF Stored
<1>1. /\ reqAt'[r] = p
      /\ \A q \in Requests \ {r} : /\ reqAt'[q] = reqAt[q] /\ ticker'[q] = ticker[q]
                                   /\ filing'[q] = filing[q] /\ found'[q] = found[q]
                                   /\ overtaken'[q] = overtaken[q]
  BY DEF Maps
<1>2. Maps'
  BY <1>1 DEF Maps, Quiet
<1>3. Locked'
  BY <1>1 DEF Locked, Ingests, Quiet
<1>4. OneStored'
  BY <1>1 DEF OneStored, Quiet
<1>5. \A t \in Listed : Replaced(t) => Replaced(t)'
  BY <1>1 DEF Replaced, Locked, Quiet
<1>6. ASSUME NEW q \in Requests
      PROVE  /\ reqAt'[q] \in {"query", "done"} /\ store'[ticker'[q]] = {} => Replaced(ticker[q])' /\ q # r
             /\ reqAt'[q] = "query" => overtaken'[q] \/ store'[ticker'[q]] = {filing'[q]}
             /\ reqAt'[q] = "done" => overtaken'[q] \/ found'[q] = {filing'[q]}
  <2>1. CASE q = r
    BY <1>1, <2>1 DEF Quiet
  <2>2. CASE q # r /\ reqAt[q] \in {"query", "done"}
    <3>1. ticker[q] \in Listed
      BY <2>2 DEF Maps
    <3> QED
      BY <1>1, <1>5, <2>2, <3>1 DEF Ingested
  <2>3. CASE q # r /\ reqAt[q] \notin {"query", "done"}
    BY <1>1, <2>3
  <2> QED
    BY <2>1, <2>2, <2>3
<1>7. Ingested'
  BY <1>6 DEF Ingested
<1> QED
  BY <1>2, <1>3, <1>4, <1>7

\* A request with no filing under way gives up.
LEMMA GivenUpKeeps ==
  ASSUME Stored, NEW r \in Requests, reqAt[r] \in Quiet \cup {"query", "done"}, D!GivesUp(r),
         UNCHANGED <<store, lock, overtaken, emptied>>
  PROVE  Stored'
<1>1. /\ reqAt' = [reqAt EXCEPT ![r] = "idle"] /\ ticker' = [ticker EXCEPT ![r] = ticker'[r]]
      /\ filing' = [filing EXCEPT ![r] = filing'[r]] /\ found' = [found EXCEPT ![r] = found'[r]]
  BY DEF D!GivesUp, Stored, Maps
<1>2. /\ overtaken' = [overtaken EXCEPT ![r] = overtaken'[r]] /\ overtaken'[r] \in BOOLEAN
      /\ "idle" \in Quiet
  BY DEF Stored, Maps, Quiet
<1> QED
  BY <1>1, <1>2, QuietStep

\* What a request does up to the ingestion, and whatever it gives up before it.
LEMMA SeekKeeps ==
  ASSUME Stored, NEW r \in Requests,
         \/ D!LoadTickerMap(r) \/ D!DownloadTickerMap(r) \/ D!TickerMapWritten(r)
         \/ D!GetFilings(r) \/ D!ReadFiling(r) \/ D!FetchFiling(r)
         \/ D!FilingWritten(r) \/ \E t \in Listed : D!Ask(r, t)
  PROVE  Stored'
<1>1. /\ reqAt[r] \in Quiet \cup {"done"} /\ UNCHANGED <<store, lock, emptied>>
  BY DEF D!LoadTickerMap, D!DownloadTickerMap, D!TickerMapWritten, D!GetFilings,
         D!ReadFiling, D!FetchFiling, D!FilingWritten, D!Ask, Quiet, D!disk
<1>2. ASSUME D!GivesUp(r), UNCHANGED overtaken PROVE Stored'
  BY <1>1, <1>2, GivenUpKeeps
<1>3. ASSUME NEW p \in Quiet, D!Goes(r, p), reqAt[r] # "idle",
             UNCHANGED <<ticker, found, overtaken>>,
             filing' = [filing EXCEPT ![r] = filing'[r]]
      PROVE  Stored'
  BY <1>1, <1>3, QuietStep DEF D!Goes, Stored, Maps
<1>4. filing = [filing EXCEPT ![r] = filing[r]]
  BY DEF Stored, Maps
<1>5. \A x : [filing EXCEPT ![r] = x][r] = x
  BY DEF Stored, Maps
<1>6. ASSUME NEW t \in Listed, D!Ask(r, t) PROVE Stored'
  <2>1. /\ ticker' = [ticker EXCEPT ![r] = t] /\ filing' = [filing EXCEPT ![r] = 0]
        /\ found' = [found EXCEPT ![r] = {}] /\ overtaken' = [overtaken EXCEPT ![r] = FALSE]
    BY <1>6 DEF D!Ask
  <2>2. /\ ticker'[r] = t /\ filing'[r] = 0 /\ found'[r] = {} /\ overtaken'[r] = FALSE
    BY <2>1 DEF Stored, Maps
  <2>3. PICK p \in {"map", "feed"} : reqAt' = [reqAt EXCEPT ![r] = p]
    BY <1>6 DEF D!Ask
  <2> QED
    BY <1>1, <2>1, <2>2, <2>3, QuietStep DEF Quiet
<1>7. CASE D!LoadTickerMap(r)
  BY <1>2, <1>3, <1>4, <1>7 DEF D!LoadTickerMap, Quiet, D!disk
<1>13. CASE D!DownloadTickerMap(r)
  BY <1>2, <1>3, <1>4, <1>13 DEF D!DownloadTickerMap, Quiet
<1>8. CASE D!TickerMapWritten(r)
  BY <1>3, <1>4, <1>8 DEF D!TickerMapWritten, Quiet
<1>9. CASE D!GetFilings(r)
  BY <1>2, <1>3, <1>4, <1>9 DEF D!GetFilings, Quiet
<1>10. CASE D!ReadFiling(r)
  BY <1>2, <1>3, <1>4, <1>5, <1>10 DEF D!ReadFiling, Quiet
<1>11. CASE D!FetchFiling(r)
  BY <1>2, <1>3, <1>4, <1>11 DEF D!FetchFiling, Quiet
<1>12. CASE D!FilingWritten(r)
  BY <1>3, <1>5, <1>12 DEF D!FilingWritten, Quiet
<1> QED
  BY <1>6, <1>7, <1>8, <1>9, <1>10, <1>11, <1>12, <1>13

\* Ingestion begins, or is found to be done.
LEMMA LockKeeps ==
  ASSUME Stored, None \notin Requests, NEW r \in Requests, D!LockAndCheck(r)
  PROVE  Stored'
<1> USE DEF Stored
<1> DEFINE t == ticker[r]
<1>1. t \in Listed /\ reqAt[r] = "ingest" /\ lock[t] = None
  BY DEF D!LockAndCheck, Maps
<1>2. /\ UNCHANGED <<store, ticker, filing, found, overtaken, emptied>>
      /\ reqAt' = [reqAt EXCEPT ![r] = reqAt'[r]]
      /\ \/ reqAt'[r] = "query" /\ UNCHANGED lock /\ filing[r] \in store[t]
         \/ reqAt'[r] = "delete" /\ lock' = [lock EXCEPT ![t] = r]
  BY DEF D!LockAndCheck, D!Goes, Maps
<1>3. /\ \A q \in Requests \ {r} : reqAt'[q] = reqAt[q]
      /\ \A u \in Listed \ {t} : lock'[u] = lock[u]
      /\ reqAt'[r] = "query" => lock' = lock
      /\ reqAt'[r] = "delete" => lock'[t] = r
  BY <1>1, <1>2 DEF Maps
<1>4. Maps'
  BY <1>1, <1>2, <1>3 DEF Maps
<1>5. Locked'
  <2>1. ASSUME NEW u \in Listed, lock'[u] # None
        PROVE  lock'[u] \in Requests /\ reqAt'[lock'[u]] \in {"delete", "add"} /\ ticker'[lock'[u]] = u
    <3>1. CASE lock[u] # None
      BY <1>1, <1>2, <1>3, <2>1, <3>1 DEF Locked, Ingests
    <3>2. CASE lock[u] = None
      BY <1>1, <1>2, <1>3, <2>1, <3>2
    <3> QED
      BY <3>1, <3>2
  <2>2. ASSUME NEW q \in Requests, reqAt'[q] \in {"delete", "add"} PROVE lock'[ticker'[q]] = q
    <3>1. CASE q = r
      BY <1>2, <1>3, <2>2, <3>1
    <3>2. CASE q # r
      <4>1. reqAt[q] \in {"delete", "add"} /\ ticker'[q] = ticker[q]
        BY <1>2, <1>3, <2>2, <3>2
      <4>2. ticker[q] \in Listed /\ lock[ticker[q]] = q
        BY <4>1 DEF Maps, Locked, Ingests
      <4> QED
        BY <1>1, <1>2, <1>3, <4>1, <4>2
    <3> QED
      BY <3>1, <3>2
  <2> QED
    BY <2>1, <2>2 DEF Locked, Ingests
<1>6. OneStored'
  BY <1>2, <1>3 DEF OneStored
<1>7. \A u \in Listed : Replaced(u) => Replaced(u)'
  BY <1>1, <1>2, <1>3 DEF Replaced, Locked
<1>8. ASSUME NEW q \in Requests
      PROVE  /\ reqAt'[q] \in {"query", "done"} /\ store[ticker[q]] = {} => Replaced(ticker[q])'
             /\ reqAt'[q] = "query" => overtaken[q] \/ store[ticker[q]] = {filing[q]}
             /\ reqAt'[q] = "done" => overtaken[q] \/ found[q] = {filing[q]}
  <2>1. CASE q = r
    BY <1>1, <1>2, <2>1 DEF OneStored
  <2>2. CASE q # r /\ reqAt[q] \in {"query", "done"}
    <3>1. ticker[q] \in Listed
      BY <2>2 DEF Maps
    <3> QED
      BY <1>2, <1>3, <1>7, <2>2, <3>1 DEF Ingested
  <2>3. CASE q # r /\ reqAt[q] \notin {"query", "done"}
    BY <1>3, <2>3
  <2> QED
    BY <2>1, <2>2, <2>3
<1>9. Ingested'
  BY <1>2, <1>8 DEF Ingested
<1> QED
  BY <1>4, <1>5, <1>6, <1>9

\* The request that holds the lock of a ticker lets go of it.
LEMMA LetGo ==
  ASSUME Stored, None \notin Requests, NEW r \in Requests, Ingests(r), NEW t, t = ticker[r],
         reqAt' = [reqAt EXCEPT ![r] = reqAt'[r]], reqAt'[r] \in {"idle", "query"},
         reqAt'[r] = "query" => ticker'[r] = t,
         ticker' = [ticker EXCEPT ![r] = ticker'[r]], lock' = [lock EXCEPT ![t] = None]
  PROVE  /\ Locked' /\ \A q \in Requests \ {r} : reqAt'[q] = reqAt[q] /\ ticker'[q] = ticker[q]
         /\ \A u \in Listed \ {t} : Replaced(u) /\ emptied'[u] = emptied[u] => Replaced(u)'
<1> USE DEF Stored
<1>1. /\ \A q \in Requests \ {r} : reqAt'[q] = reqAt[q] /\ ticker'[q] = ticker[q]
      /\ \A u \in Listed \ {t} : lock'[u] = lock[u]
      /\ t \in Listed /\ lock'[t] = None /\ lock[t] = r
  BY DEF Maps, Locked, Ingests
<1>2. \A q \in Requests \ {r} : Ingests(q) => ticker[q] # t
  BY <1>1 DEF Locked
<1>3. \A u \in Listed \ {t} : lock[u] # r
  BY <1>1 DEF Locked
<1>4. Locked'
  <2>1. ASSUME NEW u \in Listed, lock'[u] # None
        PROVE  lock'[u] \in Requests /\ reqAt'[lock'[u]] \in {"delete", "add"} /\ ticker'[lock'[u]] = u
    <3>1. u # t /\ lock'[u] = lock[u] /\ lock[u] # r
      BY <1>1, <1>3, <2>1
    <3> QED
      BY <1>1, <2>1, <3>1 DEF Locked, Ingests
  <2>2. ASSUME NEW q \in Requests, reqAt'[q] \in {"delete", "add"} PROVE lock'[ticker'[q]] = q
    <3>1. q # r /\ reqAt'[q] = reqAt[q] /\ ticker'[q] = ticker[q]
      BY <1>1, <2>2 DEF Maps
    <3>2. ticker[q] \in Listed /\ ticker[q] # t /\ lock[ticker[q]] = q
      BY <1>2, <2>2, <3>1 DEF Maps, Locked, Ingests
    <3> QED
      BY <1>1, <3>1, <3>2
  <2> QED
    BY <2>1, <2>2 DEF Locked, Ingests
<1>5. ASSUME NEW u \in Listed, u # t, Replaced(u), emptied'[u] = emptied[u] PROVE Replaced(u)'
  BY <1>1, <1>3, <1>5 DEF Replaced, Locked
<1> QED
  BY <1>1, <1>4, <1>5

\* What the others have is kept by a step that leaves the store of their ticker alone.
LEMMA OtherRequests ==
  ASSUME Stored, NEW q \in Requests, Maps',
         UNCHANGED <<reqAt[q], ticker[q], filing[q], found[q]>>,
         overtaken[q] => overtaken'[q],
         \/ store'[ticker[q]] = store[ticker[q]] \/ reqAt[q] # "query" \/ overtaken'[q],
         \/ store'[ticker[q]] = store[ticker[q]] /\ (Replaced(ticker[q]) => Replaced(ticker[q])')
         \/ store'[ticker[q]] # {} \/ Replaced(ticker[q])'
  PROVE  /\ reqAt'[q] \in {"query", "done"} /\ store'[ticker'[q]] = {} => Replaced(ticker[q])'
         /\ reqAt'[q] = "query" => overtaken'[q] \/ store'[ticker'[q]] = {filing'[q]}
         /\ reqAt'[q] = "done" => overtaken'[q] \/ found'[q] = {filing'[q]}
BY DEF Stored, Ingested

\* A failure lets go of the lock: what was stored is still there, or the ticker is marked.
LEMMA FailureKeeps ==
  ASSUME Stored, None \notin Requests, NEW r \in Requests, Ingests(r),
         D!GivesUp(r), D!Release(ticker[r]), UNCHANGED <<store, overtaken>>,
         \/ reqAt[r] = "delete" /\ UNCHANGED emptied
         \/ emptied' = [emptied EXCEPT ![ticker[r]] = TRUE]
  PROVE  Stored'
<1> USE DEF Stored
<1> DEFINE t == ticker[r]
<1>1. /\ reqAt' = [reqAt EXCEPT ![r] = "idle"] /\ ticker' = [ticker EXCEPT ![r] = None]
      /\ filing' = [filing EXCEPT ![r] = 0] /\ found' = [found EXCEPT ![r] = {}]
      /\ lock' = [lock EXCEPT ![t] = None]
  BY DEF D!GivesUp, D!Release
<1>2. t \in Listed /\ reqAt'[r] = "idle" /\ ticker'[r] = None /\ lock[t] = r
  BY <1>1 DEF Maps, Ingests, Locked
<1>3. /\ Locked'
      /\ \A q \in Requests \ {r} : reqAt'[q] = reqAt[q] /\ ticker'[q] = ticker[q]
      /\ \A u \in Listed \ {t} : Replaced(u) /\ emptied'[u] = emptied[u] => Replaced(u)'
  <2>1. /\ reqAt' = [reqAt EXCEPT ![r] = reqAt'[r]] /\ ticker' = [ticker EXCEPT ![r] = ticker'[r]]
    BY <1>1, <1>2
  <2> QED
    BY <1>1, <1>2, <2>1, LetGo
<1>4. /\ \A q \in Requests \ {r} : filing'[q] = filing[q] /\ found'[q] = found[q]
      /\ \A u \in Listed \ {t} : emptied'[u] = emptied[u]
      /\ emptied[t] => emptied'[t]
  BY <1>1, <1>2 DEF Maps
<1>5. Maps'
  BY <1>1, <1>2, <1>3 DEF Maps
<1>6. OneStored'
  BY <1>2, <1>3 DEF OneStored, Maps
<1>7. ASSUME NEW u, u = t, Replaced(u) PROVE Replaced(u)'
  <2>1. CASE emptied[t]
    BY <1>4, <1>7, <2>1 DEF Replaced
  <2>2. CASE reqAt[r] = "add"
    <3>1. emptied' = [emptied EXCEPT ![t] = TRUE]
      BY <2>2
    <3>2. emptied'[t] = TRUE
      BY <1>2, <3>1 DEF Maps
    <3> QED
      BY <1>7, <3>2 DEF Replaced
  <2> QED
    BY <1>2, <1>7, <2>1, <2>2 DEF Replaced
<1>8. ASSUME NEW q \in Requests
      PROVE  /\ reqAt'[q] \in {"query", "done"} /\ store'[ticker'[q]] = {} => Replaced(ticker[q])'
             /\ reqAt'[q] = "query" => overtaken'[q] \/ store'[ticker'[q]] = {filing'[q]}
             /\ reqAt'[q] = "done" => overtaken'[q] \/ found'[q] = {filing'[q]}
  <2>1. CASE q = r
    BY <1>2, <2>1
  <2>2. CASE q # r /\ reqAt[q] \in {"query", "done"}
    <3>1. ticker[q] \in Listed
      BY <2>2 DEF Maps
    <3>2. ASSUME Replaced(ticker[q]) PROVE Replaced(ticker[q])'
      <4>1. ASSUME NEW u, u = t, u = ticker[q] PROVE Replaced(ticker[q])'
        <5>1. Replaced(u)'
          BY <1>7, <3>2, <4>1
        <5> QED
          BY <1>3, <2>2, <4>1, <5>1 DEF Replaced
      <4>2. ASSUME NEW u \in Listed \ {t}, u = ticker[q] PROVE Replaced(ticker[q])'
        <5>1. Replaced(u)'
          BY <1>3, <1>4, <3>2, <4>2
        <5> QED
          BY <1>3, <2>2, <4>2, <5>1 DEF Replaced
      <4> QED
        BY <3>1, <4>1, <4>2
    <3> QED
      BY <1>3, <1>4, <1>5, <2>2, <3>2, OtherRequests
  <2>3. CASE q # r /\ reqAt[q] \notin {"query", "done"}
    BY <1>3, <2>3
  <2> QED
    BY <2>1, <2>2, <2>3
<1>9. Ingested'
  BY <1>8 DEF Ingested
<1> QED
  BY <1>3, <1>5, <1>6, <1>9

LEMMA DeleteKeeps ==
  ASSUME Stored, None \notin Requests, NEW r \in Requests, D!DeleteStored(r) PROVE Stored'
<1> USE DEF Stored
<1> DEFINE t == ticker[r]
<1>1. reqAt[r] = "delete" /\ t \in Listed /\ lock[t] = r
  BY DEF D!DeleteStored, Maps, Locked, Ingests
<1>2. CASE D!GivesUp(r) /\ D!Release(ticker[r]) /\ UNCHANGED <<store, overtaken, emptied>>
  BY <1>1, <1>2, FailureKeeps DEF Ingests
<1>3. CASE /\ store' = [store EXCEPT ![t] = {}] /\ D!Overtake(t) /\ D!Goes(r, "add")
           /\ UNCHANGED <<lock, ticker, filing, found, emptied>>
  <2>1. reqAt' = [reqAt EXCEPT ![r] = "add"]
    BY <1>3 DEF D!Goes
  <2>2. /\ reqAt'[r] = "add" /\ \A q \in Requests \ {r} : reqAt'[q] = reqAt[q]
        /\ store'[t] = {} /\ \A u \in Listed \ {t} : store'[u] = store[u]
    BY <1>1, <1>3, <2>1 DEF Maps
  <2>3. \A q \in Requests : overtaken'[q] = (overtaken[q] \/ (reqAt[q] = "query" /\ ticker[q] = t))
    BY <1>3 DEF D!Overtake
  <2>4. Maps'
    <3>1. \A q \in Requests : overtaken'[q] \in BOOLEAN
      BY <2>3 DEF Maps
    <3>2. overtaken' = [q \in Requests |-> overtaken'[q]]
      BY <1>3 DEF D!Overtake
    <3> QED
      BY <1>1, <1>3, <2>1, <2>2, <3>1, <3>2 DEF Maps
  <2>5. Locked'
    BY <1>1, <1>3, <2>2 DEF Locked, Ingests
  <2>6. OneStored'
    BY <1>3, <2>2, SMTT(30) DEF OneStored, Maps
  <2>7. Replaced(t)' /\ \A u \in Listed \ {t} : Replaced(u) => Replaced(u)'
    BY <1>1, <1>3, <2>2 DEF Replaced, Locked
  <2>8. ASSUME NEW q \in Requests
        PROVE  /\ reqAt'[q] \in {"query", "done"} /\ store'[ticker'[q]] = {} => Replaced(ticker[q])'
               /\ reqAt'[q] = "query" => overtaken'[q] \/ store'[ticker'[q]] = {filing'[q]}
               /\ reqAt'[q] = "done" => overtaken'[q] \/ found'[q] = {filing'[q]}
    <3>1. CASE q = r
      BY <2>2, <3>1
    <3>2. CASE q # r /\ reqAt[q] \in {"query", "done"}
      <4>1. ticker[q] \in Listed /\ UNCHANGED <<reqAt[q], ticker[q], filing[q], found[q]>>
            /\ (overtaken[q] => overtaken'[q])
        BY <1>3, <2>2, <2>3, <3>2 DEF Maps
      <4>2. CASE ticker[q] = t
        <5>1. reqAt[q] # "query" \/ overtaken'[q]
          BY <2>3, <4>2, <3>2
        <5>2. Replaced(ticker[q])'
          BY <1>3, <2>7, <4>2 DEF Replaced
        <5> QED
          BY <2>4, <4>1, <5>1, <5>2, OtherRequests
      <4>3. CASE ticker[q] # t
        BY <2>2, <2>4, <2>7, <4>1, <4>3, OtherRequests
      <4> QED
        BY <4>2, <4>3
    <3>3. CASE q # r /\ reqAt[q] \notin {"query", "done"}
      BY <2>2, <3>3
    <3> QED
      BY <3>1, <3>2, <3>3
  <2>9. Ingested'
    BY <2>8 DEF Ingested
  <2> QED
    BY <2>4, <2>5, <2>6, <2>9
<1> QED
  BY <1>2, <1>3 DEF D!DeleteStored

LEMMA AddKeeps ==
  ASSUME Stored, None \notin Requests, NEW r \in Requests, D!AddDocuments(r) PROVE Stored'
<1> USE DEF Stored
<1> DEFINE t == ticker[r]
<1>1. reqAt[r] = "add" /\ t \in Listed /\ lock[t] = r /\ store[t] = {}
  BY DEF D!AddDocuments, Maps, Locked, Ingests, OneStored
<1>2. /\ store' = [store EXCEPT ![t] = store[t] \cup {filing[r]}]
      /\ emptied' = [emptied EXCEPT ![t] = FALSE]
      /\ lock' = [lock EXCEPT ![t] = None] /\ reqAt' = [reqAt EXCEPT ![r] = "query"]
      /\ D!Overtake(t) /\ UNCHANGED <<ticker, filing, found>>
  BY DEF D!AddDocuments, D!Release, D!Goes
<1>3. /\ store'[t] = {filing[r]} /\ \A u \in Listed \ {t} : store'[u] = store[u] /\ emptied'[u] = emptied[u]
      /\ reqAt'[r] = "query" /\ \A q \in Requests \ {r} : reqAt'[q] = reqAt[q]
  BY <1>1, <1>2 DEF Maps
<1>4. \A q \in Requests : overtaken'[q] = (overtaken[q] \/ (reqAt[q] = "query" /\ ticker[q] = t))
  BY <1>2 DEF D!Overtake
<1>5. Maps'
  <2>1. \A q \in Requests : overtaken'[q] \in BOOLEAN
    BY <1>4 DEF Maps
  <2>2. overtaken' = [q \in Requests |-> overtaken'[q]]
    BY <1>2 DEF D!Overtake
  <2>3. emptied' = [u \in Listed |-> emptied'[u]] /\ \A u \in Listed : emptied'[u] \in BOOLEAN
    BY <1>2 DEF Maps
  <2> QED
    BY <1>1, <1>2, <1>3, <2>1, <2>2, <2>3 DEF Maps
<1>6. /\ Locked'
      /\ \A q \in Requests \ {r} : reqAt'[q] = "add" => ticker'[q] # t
      /\ \A u \in Listed \ {t} : Replaced(u) /\ emptied'[u] = emptied[u] => Replaced(u)'
  <2>1. /\ reqAt' = [reqAt EXCEPT ![r] = reqAt'[r]] /\ ticker' = [ticker EXCEPT ![r] = ticker'[r]]
        /\ ticker'[r] = t /\ Ingests(r) /\ reqAt'[r] \in {"idle", "query"}
    BY <1>1, <1>2, <1>3 DEF Maps, Ingests
  <2>2. lock' = [lock EXCEPT ![t] = None]
    BY <1>2
  <2>3. ASSUME NEW u, u = t
        PROVE  /\ Locked' /\ \A q \in Requests \ {r} : reqAt'[q] = "add" => ticker'[q] # u
               /\ \A v \in Listed \ {u} : Replaced(v) /\ emptied'[v] = emptied[v] => Replaced(v)'
    <3>1. /\ u = ticker[r] /\ lock' = [lock EXCEPT ![u] = None]
          /\ reqAt'[r] = "query" => ticker'[r] = u
      BY <2>1, <2>2, <2>3
    <3> HIDE DEF Stored, t
    <3>2. /\ Ingests(r) /\ reqAt' = [reqAt EXCEPT ![r] = reqAt'[r]]
          /\ ticker' = [ticker EXCEPT ![r] = ticker'[r]] /\ reqAt'[r] \in {"idle", "query"}
      BY <2>1
    <3>3. Locked'
      BY <3>1, <3>2, LetGo
    <3>4. ASSUME NEW q \in Requests \ {r}, reqAt'[q] = "add" PROVE ticker'[q] # u
      <4>1. lock'[u] = None
        BY <1>1, <3>1 DEF Stored, Maps, t
      <4>2. lock'[ticker'[q]] = q
        BY <3>3, <3>4 DEF Locked, Ingests
      <4> QED
        BY <4>1, <4>2
    <3>5. ASSUME NEW v \in Listed \ {u}, Replaced(v), emptied'[v] = emptied[v] PROVE Replaced(v)'
      BY <3>1, <3>2, <3>5, LetGo
    <3> QED
      BY <3>3, <3>4, <3>5
  <2> QED
    BY <2>3
<1>7. OneStored'
  BY <1>2, <1>3, <1>6 DEF OneStored, Maps
<1>8. ASSUME NEW q \in Requests
      PROVE  /\ reqAt'[q] \in {"query", "done"} /\ store'[ticker'[q]] = {} => Replaced(ticker[q])'
             /\ reqAt'[q] = "query" => overtaken'[q] \/ store'[ticker'[q]] = {filing'[q]}
             /\ reqAt'[q] = "done" => overtaken'[q] \/ found'[q] = {filing'[q]}
  <2>1. CASE q = r
    BY <1>2, <1>3, <2>1
  <2>2. CASE q # r /\ reqAt[q] \in {"query", "done"}
    <3>1. ticker[q] \in Listed /\ UNCHANGED <<reqAt[q], ticker[q], filing[q], found[q]>>
          /\ (overtaken[q] => overtaken'[q])
      BY <1>2, <1>3, <1>4, <2>2 DEF Maps
    <3>2. CASE ticker[q] = t
      <4>1. reqAt[q] # "query" \/ overtaken'[q]
        BY <1>4, <2>2, <3>2
      <4>2. store'[ticker[q]] # {}
        BY <1>3, <3>2
      <4> QED
        BY <1>5, <3>1, <4>1, <4>2, OtherRequests
    <3>3. CASE ticker[q] # t
      BY <1>3, <1>5, <1>6, <3>1, <3>3, OtherRequests
    <3> QED
      BY <3>2, <3>3
  <2>3. CASE q # r /\ reqAt[q] \notin {"query", "done"}
    BY <1>3, <2>3
  <2> QED
    BY <2>1, <2>2, <2>3
<1>9. Ingested'
  BY <1>8 DEF Ingested
<1> QED
  BY <1>5, <1>6, <1>7, <1>9

LEMMA RetrieveKeeps ==
  ASSUME Stored, NEW r \in Requests, D!Retrieve(r) PROVE Stored'
<1> USE DEF Stored
<1>1. reqAt[r] = "query" /\ UNCHANGED <<store, lock, overtaken, emptied>>
  BY DEF D!Retrieve
<1>2. CASE D!GivesUp(r)
  <2> HIDE DEF Stored
  <2> QED
    BY <1>1, <1>2, GivenUpKeeps
<1>3. CASE /\ found' = [found EXCEPT ![r] = store[ticker[r]]]
           /\ D!Goes(r, "done") /\ UNCHANGED <<ticker, filing>>
  <2>1. /\ reqAt'[r] = "done" /\ found'[r] = store[ticker[r]]
        /\ \A q \in Requests \ {r} : reqAt'[q] = reqAt[q] /\ found'[q] = found[q]
    BY <1>3 DEF D!Goes, Maps
  <2>2. Maps'
    BY <1>1, <1>3, <2>1 DEF D!Goes, Maps
  <2>3. Locked' /\ OneStored'
    BY <1>1, <1>3, <2>1 DEF Locked, Ingests, OneStored
  <2>4. \A u \in Listed : Replaced(u) => Replaced(u)'
    BY <1>1, <2>1 DEF Replaced, Locked
  <2>5. ASSUME NEW q \in Requests
        PROVE  /\ reqAt'[q] \in {"query", "done"} /\ store'[ticker'[q]] = {} => Replaced(ticker[q])'
               /\ reqAt'[q] = "query" => overtaken'[q] \/ store'[ticker'[q]] = {filing'[q]}
               /\ reqAt'[q] = "done" => overtaken'[q] \/ found'[q] = {filing'[q]}
    <3>1. reqAt[q] # "idle" => ticker[q] \in Listed
      BY DEF Maps
    <3>2. CASE q = r
      BY <1>1, <1>3, <2>1, <2>4, <3>1, <3>2 DEF Ingested
    <3>3. CASE q # r
      BY <1>1, <1>3, <2>1, <2>4, <3>1, <3>3 DEF Ingested
    <3> QED
      BY <3>2, <3>3
  <2>6. Ingested'
    BY <2>5 DEF Ingested
  <2> QED
    BY <2>2, <2>3, <2>6
<1> QED
  BY <1>2, <1>3 DEF D!Retrieve

LEMMA CrashedKeeps == ASSUME Stored, D!Crash PROVE Stored'
<1>1. /\ reqAt' = [q \in Requests |-> "idle"] /\ ticker' = [q \in Requests |-> None]
      /\ filing' = [q \in Requests |-> 0] /\ found' = [q \in Requests |-> {}]
      /\ lock' = [t \in Listed |-> None] /\ UNCHANGED <<store, overtaken>>
      /\ emptied' = [t \in Listed |-> emptied'[t]] /\ \A t \in Listed : emptied'[t] \in BOOLEAN
  BY DEF D!Crash, D!Tickers, Listed, Stored, Maps
<1> QED
  BY <1>1 DEF Stored, Maps, Locked, Ingests, OneStored, Ingested

LEMMA StoreNext == None \notin Requests /\ Stored /\ [D!Next]_D!vars => Stored'
<1> SUFFICES ASSUME None \notin Requests, Stored, [D!Next]_D!vars PROVE Stored'
  OBVIOUS
<1>1. ASSUME NEW r \in Requests, D!Step(r) \/ \E t \in Listed : D!Ask(r, t) PROVE Stored'
  <2>1. CASE D!AddFails(r)
    BY <2>1, FailureKeeps DEF D!AddFails, Ingests
  <2> QED
    BY <1>1, <2>1, SeekKeeps, LockKeeps, DeleteKeeps, AddKeeps, RetrieveKeeps DEF D!Step
<1>2. ASSUME UNCHANGED <<store, lock, D!request, overtaken, emptied>> PROVE Stored'
  <2>1. UNCHANGED <<store, lock, reqAt, ticker, filing, found, overtaken, emptied>>
    BY <1>2 DEF D!request
  <2>2. Maps /\ Locked /\ OneStored /\ Ingested
    BY DEF Stored
  <2>3. Maps'
    BY <2>1, <2>2 DEF Maps
  <2>4. Locked'
    BY <2>1, <2>2 DEF Locked, Ingests
  <2>5. OneStored'
    BY <2>1, <2>2 DEF OneStored
  <2>6. Ingested'
    BY <2>1, <2>2 DEF Ingested, Replaced
  <2> QED
    BY <2>3, <2>4, <2>5, <2>6 DEF Stored
<1>3. CASE \E t \in Listed : D!Publish(t)
  BY <1>2, <1>3 DEF D!Publish
<1>4. CASE D!Crash
  BY <1>4, CrashedKeeps
<1>5. CASE D!TickerMapAges
  BY <1>2, <1>5 DEF D!TickerMapAges
<1>6. CASE UNCHANGED D!vars
  BY <1>2, <1>6 DEF D!vars
<1> QED
  BY <1>1, <1>3, <1>4, <1>5, <1>6 DEF D!Next, D!Tickers, Listed

\* Requests that ingest filings of one ticker at the same time leave one of them stored, and what
\* was stored is gone only while it is replaced, or after a failure or a crash in between; a
\* report finds the filing it cites, unless another request replaced it meanwhile
\* (_ingest_disclosure under _lock_for, replace_documents, query_pipeline).
THEOREM FilingsKept == ASSUME None \notin Requests PROVE D!Spec => []FilingsHold
<1>1. Stored => D!FilingsHold
  BY StoredHolds
<1>2. Stored /\ [D!Next]_D!vars => Stored'
  BY StoreNext
<1> QED
  BY <1>1, <1>2, StoreInit, PTL DEF D!Spec, FilingsHold
==============================================================================
