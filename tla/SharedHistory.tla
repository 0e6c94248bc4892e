---------------------------- MODULE SharedHistory ----------------------------
(***************************************************************************)
(* What a run promises of its solution: all of it, on every level of the   *)
(* mesh, has been through the same steps and the same edits of the grains, *)
(* in the same order.  A step integrates all of it from what the last      *)
(* operation left; a rebuilt mesh holds the solution the old one held; a   *)
(* restart goes on from the saved solution.                                *)
(***************************************************************************)
EXTENDS Sequences

CONSTANT Operation

VARIABLES
  solution,  \* the histories of its values: one, as long as all is well
  saved      \* the solution on disk; {} if there is none

hvars == <<solution, saved>>

HInit == solution = {<<>>} /\ saved = {}

Do(op) ==
  /\ \E h \in solution : solution = {h} /\ solution' = {Append(h, op)}
  /\ UNCHANGED saved

Save == saved' = solution /\ UNCHANGED solution

Restore ==
  /\ saved # {}
  /\ solution' = saved
  /\ UNCHANGED saved

HNext == (\E op \in Operation : Do(op)) \/ Save \/ Restore

HSpec == HInit /\ [][HNext]_hvars
==============================================================================
