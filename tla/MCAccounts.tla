----------------------------- MODULE MCAccounts -----------------------------
(***************************************************************************)
(* Accounts on a small instance, of the users whom the sweeps of MCSweeps  *)
(* tell about their tickers.  The two share no row but a user's id: in the *)
(* behaviours of this module no sweep runs.                                *)
(***************************************************************************)
EXTENDS MCSweeps, TLC

CONSTANTS Emails, Tokens, Handlers, SessionTTL, Window, Limit

ASSUME AccountsAssumption ==
  /\ None \notin Users \cup Emails \cup Tokens
  /\ SessionTTL \in Nat /\ Window \in Nat \ {0} /\ Limit \in Nat \ {0}

VARIABLES accounts, sessions, stored, attempts, request, used, erased, overtaken, strays, late,
  answers, time

Store == INSTANCE Accounts WITH Requests <- Handlers, rows <- stored, clock <- time

sweeping == <<vars, tracker, scene>>

\* What belongs to the sweeps is not looked at.
NoSweeps ==
  /\ users = None /\ tracked = None /\ rating = None /\ seen = None /\ briefedAt = None
  /\ alerting = None /\ briefing = None /\ asked = None
  /\ told = None /\ known = None /\ mentioned = None /\ excused = None
  /\ clock = None /\ reports = None /\ faults = None
  /\ day = None /\ bars = None /\ splits = None /\ moves = None /\ calls = None
  /\ outcomes = None /\ sweep = None /\ outages = None
  /\ scene = "accounts"

AccountsInit == Store!Init /\ NoSweeps
AccountsNext == Store!Next /\ UNCHANGED sweeping
AccountsSpec == AccountsInit /\ [][AccountsNext]_<<Store!vars, sweeping>>

Symmetry == Permutations(Handlers) \cup Permutations(Tokens)

-----------------------------------------------------------------------------
(* The properties of Accounts, of this instance *)

\* However requests run side by side, no more than Limit resolutions fall into any window of
\* time.
ResolutionsWithinLimit == Store!ResolutionsWithinLimit

\* Of an erased account nothing is left in the tables that its erasure empties, and nothing
\* acts for it, but what was under way when it was erased and what that leads to.
ErasureHolds == Store!ErasureHolds

\* What delete_user_account and the signup say, and the code does not keep.
ErasureIsComplete == Store!ErasureIsComplete
ConflictsAreReported == Store!ConflictsAreReported
=============================================================================
