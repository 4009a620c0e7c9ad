---------------------------- MODULE AgentContract ----------------------------
(***************************************************************************)
(* What both orchestrators promise of a research run: every tool that the  *)
(* question demands and every closing tool is tried once and no more, all  *)
(* evidence before the first closing tool, the closing tools in their      *)
(* order, whichever of them fail.                                          *)
(***************************************************************************)
EXTENDS Naturals, Sequences

CONSTANTS Evidence, Closing

VARIABLES demanded, tried, ended

vars == <<demanded, tried, ended>>

Tried == {tried[i] : i \in DOMAIN tried}
ClosingTools == {Closing[i] : i \in DOMAIN Closing}
TriedClosing == Tried \cap ClosingTools

Init == demanded = {} /\ tried = <<>> /\ ended = FALSE

\* The question is read and tells which evidence it needs.
Demand(tools) ==
  /\ ~ended /\ demanded = {} /\ tried = <<>>
  /\ demanded' = tools
  /\ UNCHANGED <<tried, ended>>

TryEvidence(t) ==
  /\ ~ended /\ t \notin Tried
  /\ TriedClosing = {}
  /\ tried' = Append(tried, t)
  /\ UNCHANGED <<demanded, ended>>

\* The first closing tool that has not been tried.
TryClosing ==
  /\ ~ended /\ demanded \subseteq Tried
  /\ \E i \in DOMAIN Closing :
       /\ TriedClosing = {Closing[j] : j \in 1..(i - 1)}
       /\ tried' = Append(tried, Closing[i])
  /\ UNCHANGED <<demanded, ended>>

End ==
  /\ ~ended /\ ended' = TRUE
  /\ tried # <<>> => TriedClosing = ClosingTools
  /\ UNCHANGED <<demanded, tried>>

Next ==
  \/ \E tools \in SUBSET Evidence : Demand(tools)
  \/ \E t \in Evidence : TryEvidence(t)
  \/ TryClosing
  \/ End

Spec == Init /\ [][Next]_vars
=============================================================================
