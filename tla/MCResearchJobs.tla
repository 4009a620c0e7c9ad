--------------------------- MODULE MCResearchJobs ---------------------------
(* Instances of ResearchJobs for TLC. *)
EXTENDS ResearchJobs, TLC

\* Job ids are drawn at random and only compared for equality; so are the
\* threads of a kind.
Symmetry == Permutations(Jobs) \cup Permutations(Clients) \cup Permutations(Workers)
=============================================================================
