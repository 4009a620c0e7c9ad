---------------------------- MODULE CompanyIndex ----------------------------
(***************************************************************************)
(* company_resolver.py: the companies that a message names, looked up in   *)
(* the lists that SourceCaches loads.  A ticker stands for its title; how  *)
(* much a phrase resembles a title, and what the LLM proposes, is whatever *)
(* it may be.  Of more than 25 titles that resemble a phrase most, the     *)
(* code looks at 25: left out.                                             *)
(***************************************************************************)
EXTENDS SourceCaches

CONSTANTS
  UsTitles, NseTitles,  \* the companies of the two lists
  Messages

\* A phrase by its score with each title; a lower rank is a title that starts with the phrase,
\* or else is shorter, or else comes earlier; and the titles that share most of its words.
Phrase(p) ==
  /\ p.score \in [UsTitles \cup NseTitles -> Nat] /\ p.rank \in [UsTitles \cup NseTitles -> Nat]
  /\ p.shares \subseteq UsTitles \cup NseTitles

\* A message is its words that may be tickers, in order, by what they are in either list; the
\* tickers of aliases and coins that it contains, be it inside of words; the phrases with
\* capitals that are looked up; and what the LLM would propose.  Only of a word of two to five
\* capitals that is none of a command's is it checked whether it is an attempt at a ticker.
ASSUME MessagesAssumption ==
  /\ UsTitles \cap NseTitles = {} /\ None \notin UsTitles \cup NseTitles
  /\ \A m \in Messages :
       /\ \A i \in DOMAIN m.tokens :
            /\ m.tokens[i].us \in UsTitles \cup {None} /\ m.tokens[i].nse \in NseTitles \cup {None}
            /\ m.tokens[i].checked \in BOOLEAN
       /\ \A i \in DOMAIN m.phrases : Phrase(m.phrases[i])
       /\ m.proposal # None => Phrase(m.proposal)

-----------------------------------------------------------------------------
(* Below, nse is what the NSE's list holds: everything, or nothing. *)

FuzzyMatchThreshold == 85

Distinct(s) ==
  FoldLeft(LAMBDA found, t : IF t \in ToSet(found) THEN found ELSE Append(found, t), <<>>, s)

TokenTickers(token, nse) ==
  (IF token.us # None THEN <<token.us>> ELSE <<>>)
    \o (IF token.nse \in nse THEN <<token.nse>> ELSE <<>>)

Better(p, t, u) == p.score[t] > p.score[u] \/ (p.score[t] = p.score[u] /\ p.rank[t] < p.rank[u])

\* Variant: whatever of the NSE's list is good enough goes before the other list.
NseMatchFirst(p, nse) ==
  LET good == {t \in nse : p.score[t] >= FuzzyMatchThreshold}
      titles == IF good # {} THEN good ELSE UsTitles
  IN  {t \in titles : \A u \in titles \ {t} : Better(p, t, u)}

\* The title of both lists that resembles the phrase most.
BestTitleMatch(p, nse) ==
  LET titles == UsTitles \cup nse
  IN  {t \in titles : \A u \in titles \ {t} : Better(p, t, u)}

Matches(p, nse) == {t \in BestTitleMatch(p, nse) : p.score[t] >= FuzzyMatchThreshold}
One(set) == IF set = {} THEN <<>> ELSE <<CHOOSE t \in set : TRUE>>

\* resolve_companies: exact tickers, aliases, phrases; the LLM is asked when nothing was found,
\* and what it proposes must share most of its words with the title it resembles.
NothingFound(m, nse) ==
  /\ \A i \in DOMAIN m.tokens : TokenTickers(m.tokens[i], nse) = <<>>
  /\ m.contained = <<>>
  /\ \A i \in DOMAIN m.phrases : Matches(m.phrases[i], nse) = {}

Proposed(m, nse) ==
  IF m.proposal = None THEN {} ELSE Matches(m.proposal, nse) \cap m.proposal.shares

Companies(m, nse) ==
  IF NothingFound(m, nse) THEN One(Proposed(m, nse))
  ELSE Distinct(FlattenSeq([i \in DOMAIN m.tokens |-> TokenTickers(m.tokens[i], nse)])
                  \o m.contained
                  \o FlattenSeq([i \in DOMAIN m.phrases |-> One(Matches(m.phrases[i], nse))]))

\* has_unresolved_ticker_attempt: a word that looks like a ticker is in neither list.
Unresolved(m, nse) ==
  \E i \in DOMAIN m.tokens :
    m.tokens[i].checked /\ m.tokens[i].us = None /\ m.tokens[i].nse \notin nse

\* An order or an alert of the chat that names no company is for the one talked about before,
\* unless it attempts a ticker: by the list as it is read then.
CarriedOver(m, nse, nseThen) ==
  NothingFound(m, nse) /\ Proposed(m, nse) = {} /\ ~Unresolved(m, nseThen)

-----------------------------------------------------------------------------
(* What is found with the lists in hand *)

\* The lists have been read for a message.
Resolved(th) == at[th] = "done" /\ call[th] = "resolve" /\ Len(got[th]) = 2 /\ Last(got[th]) # "raised"

NseInHand(th) == IF got[th][2] = "empty" THEN {} ELSE NseTitles
NseInMemory == IF memory["nse"].content = "empty" THEN {} ELSE NseTitles

\* An Indian title resembles the phrase more than any title of the other list.
MostlyIndian(p) == \E x \in NseTitles : \A u \in UsTitles : ~Better(p, u, x)

Indian(m) ==
  \/ \E i \in DOMAIN m.tokens : m.tokens[i].nse # None
  \/ \E i \in DOMAIN m.phrases : MostlyIndian(m.phrases[i])
  \/ m.proposal # None /\ MostlyIndian(m.proposal)

\* It has a word that is an attempt at a ticker.
Attempts(m) == \E i \in DOMAIN m.tokens : m.tokens[i].checked

\* What a message is taken to name without the NSE's list is what it is taken to name with it,
\* unless it has an Indian ticker or resembles an Indian title most; and only after an outage
\* is it looked up without.  An order that attempts a ticker is not placed for the company
\* talked about before, unless the list was missed by the first look and came before the second.
NseOutageConfined ==
  \A th \in Threads : Resolved(th) =>
    /\ NseInHand(th) # NseTitles =>
         /\ outages > 0
         /\ \A m \in Messages : Indian(m) \/ Companies(m, NseInHand(th)) = Companies(m, NseTitles)
    /\ \A m \in Messages :
         Attempts(m) /\ CarriedOver(m, NseInHand(th), NseInMemory) =>
           NseInHand(th) = {} /\ NseInMemory # {}

\* Promised by a comment of the code, and not kept: an attempt at a ticker must "never silently
\* fall back to a DIFFERENT ticker carried over from earlier conversation".
CarriedOverOnlyUnnamed ==
  \A th \in Threads, m \in Messages :
    Resolved(th) /\ Attempts(m) => ~CarriedOver(m, NseInHand(th), NseInMemory)
=============================================================================
