---------------------------- MODULE Preferences -----------------------------
(***************************************************************************)
(* A preference on the profile page (lib/useAuth.ts: setRiskTolerance,     *)
(* setDisplayName): shown at once, saved, and set back to what was shown   *)
(* before when saving fails.                                               *)
(***************************************************************************)
EXTENDS Naturals, Sequences, SequencesExt

CONSTANTS
  Values, First,
  MaxClicks,       \* bound
  MaxFaults        \* bound

VARIABLES
  saved, shown,
  patches,         \* requests, in the order they were sent
  crossed,         \* history: one was sent while another was under way
  lost,            \* history: one was served, and its answer lost
  clicks, faults

vars == <<saved, shown, patches, crossed, lost, clicks, faults>>

Init ==
  /\ saved = First /\ shown = First /\ patches = <<>>
  /\ crossed = FALSE /\ lost = FALSE /\ clicks = 0 /\ faults = 0

Set ==
  \E v \in Values \ {shown} :
    /\ clicks < MaxClicks /\ clicks' = clicks + 1
    /\ shown' = v
    /\ patches' = Append(patches, [value |-> v, previous |-> shown, served |-> FALSE])
    /\ crossed' = (crossed \/ patches # <<>>)
    /\ UNCHANGED <<saved, lost, faults>>

Serve ==
  \E k \in DOMAIN patches :
    /\ ~patches[k].served
    /\ saved' = patches[k].value
    /\ patches' = [patches EXCEPT ![k].served = TRUE]
    /\ UNCHANGED <<shown, crossed, lost, clicks, faults>>

Answered ==
  \E k \in DOMAIN patches :
    /\ patches[k].served
    /\ patches' = RemoveAt(patches, k)
    /\ UNCHANGED <<saved, shown, crossed, lost, clicks, faults>>

Reverted(patch) == patch.previous

Failed ==
  \E k \in DOMAIN patches :
    /\ faults < MaxFaults /\ faults' = faults + 1
    /\ shown' = Reverted(patches[k])
    /\ lost' = (lost \/ patches[k].served)
    /\ patches' = RemoveAt(patches, k)
    /\ UNCHANGED <<saved, crossed, clicks>>

Next == Set \/ Serve \/ Answered \/ Failed

-----------------------------------------------------------------------------

\* A preference shown is one that is saved, once all is answered: provided it is not changed
\* again before the answer, and no answer is lost.
ShowsSaved == patches = <<>> /\ ~crossed /\ ~lost => shown = saved

\* "rather than silently left showing a value that was never actually persisted": two changes
\* in a row that both fail leave the first one shown.  Refuted by hand in web_client.cfg.
NeverUnsaved == patches = <<>> /\ ~lost => shown = saved
=============================================================================
