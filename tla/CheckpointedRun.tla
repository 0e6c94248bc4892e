--------------------------- MODULE CheckpointedRun ---------------------------
(***************************************************************************)
(* What the run loop promises whoever resubmits a job: a run advances one  *)
(* cycle at a time, may be cut off at any point, and goes on from the      *)
(* start or from a state it has saved, never from one it did not reach; it *)
(* finishes only at one of the limits it was given.                        *)
(***************************************************************************)
EXTENDS Integers, FiniteSets

CONSTANTS
  StartTime,  \* start_time
  MaxStep     \* the longest time step

VARIABLES
  at,         \* <<cycle, time>> of the running state
  saved,      \* the <<cycle, time>> that can be resumed from
  limit,      \* <<cycle, time>> at which the run is to end
  phase       \* "running", "down" or "finished"

Origin == <<0, StartTime>>

AInit == at = Origin /\ saved = {} /\ limit \in Int \X Int /\ phase = "running"

Begin ==
  /\ phase # "running" /\ phase' = "running"
  /\ at' \in saved \cup {Origin}
  /\ limit' \in Int \X Int
  /\ saved' = saved

Step ==
  /\ phase = "running" /\ phase' = "running"
  /\ at[1] < limit[1] /\ at[2] < limit[2]
  /\ \E dt \in 1 .. MaxStep : at' = <<at[1] + 1, at[2] + dt>>
  /\ UNCHANGED <<saved, limit>>

(* A state takes the place of one saved under the same number. *)
Save ==
  /\ phase = "running" /\ phase' \in {"running", "finished"}
  /\ saved' = {s \in saved : s[1] # at[1]} \cup {at}
  /\ phase' = "finished" => at[1] >= limit[1] \/ at[2] >= limit[2]
  /\ UNCHANGED <<at, limit>>

Finish ==
  /\ phase = "running" /\ phase' = "finished"
  /\ at[1] >= limit[1] \/ at[2] >= limit[2]
  /\ UNCHANGED <<at, saved, limit>>

Cut ==
  /\ phase = "running" /\ phase' = "down"
  /\ UNCHANGED <<at, saved, limit>>

ANext == Begin \/ Step \/ Save \/ Finish \/ Cut

ASpec == AInit /\ [][ANext]_<<at, saved, limit, phase>>

=============================================================================
