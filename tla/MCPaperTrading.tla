--------------------------- MODULE MCPaperTrading ---------------------------
(***************************************************************************)
(* Instances of PaperTrading for TLC, and the conversation of ChatThread   *)
(* that its proposals and alerts come from.  The orders follow the tables  *)
(* of an account, the conversation its rows: a behaviour of this module    *)
(* has one of the two scenes.                                              *)
(***************************************************************************)
EXTENDS PaperTrading, Sequences, TLC

CONSTANTS Scenes, HistoryLimit, MaxRows, MaxNotices, MaxCrossed

ASSUME ChatAssumption ==
  /\ Nobody \notin Tickers
  /\ HistoryLimit \in Nat \ {0}
  /\ {MaxRows, MaxNotices, MaxCrossed} \subseteq Nat

VARIABLES
  thread, proposed, req, overlapped, outage, chatFaults,
  scene

Chat == INSTANCE ChatThread WITH
          None <- Nobody, pending <- proposed, faults <- chatFaults

conversation == <<thread, proposed, req, overlapped, outage, chatFaults>>

MCInit == Init /\ Chat!Init /\ scene \in Scenes

\* Requests that overlap are followed until the conversation has MaxCrossed rows.
Rows == IF overlapped THEN MaxCrossed ELSE MaxRows

Trade == scene = "orders" /\ Next /\ UNCHANGED conversation
Talk ==
  /\ scene = "conversation"
  /\ \/ Chat!Next /\ Len(thread') <= Rows'
     \/ Len(thread) >= Rows /\ UNCHANGED conversation
  /\ UNCHANGED vars

MCNext == UNCHANGED scene /\ (Trade \/ Talk)
MCSpec == MCInit /\ [][MCNext]_<<vars, conversation, scene>>
MCFairSpec == MCSpec /\ Fairness

\* Identities are only compared for equality.
ChatSymmetry == Permutations(Handlers) \cup Permutations(Tickers)

-----------------------------------------------------------------------------
(* The properties of ChatThread, of this instance *)

\* What a message does is for the ticker it names, or for the one carried over where the code
\* says so; a yes executes what the conversation has come to; and a message that no model
\* could be asked about does nothing.
ChatHolds == Chat!ChatHolds

\* What comments of chat_router.py promise, and the code does not keep.
YesAnswersItsQuestion == Chat!YesAnswersItsQuestion
AlertsOnlyNamed == Chat!AlertsOnlyNamed
NamedIsNotCarried == Chat!NamedIsNotCarried
=============================================================================
