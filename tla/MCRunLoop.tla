------------------------------ MODULE MCRunLoop ------------------------------
(***************************************************************************)
(* Instances of RunLoop.                                                   *)
(***************************************************************************)
EXTENDS RunLoop

Every(kind, n, first) == [kind |-> kind, every |-> n, first |-> first, last |-> TRUE]

Off == Every("step", 0, FALSE)

Limits(max, delta, end) == [max |-> max, delta |-> delta, end |-> end]

(* Events by steps: files every 2, meshes every 2, grains counted at every  *)
(* step, extended every 3, made fundamental every 2.                        *)
StepInterval ==
  [restart |-> Every("step", 2, FALSE), regrid |-> Every("step", 2, FALSE),
   grains |-> Every("step", 1, TRUE), visit |-> Off,
   extend |-> Every("step", 3, FALSE), fundamental |-> Every("step", 2, FALSE)]

StepDecks == {Limits(5, Unset, 10), Limits(Unset, 3, Unset)}

(* Events by time. *)
TimeInterval ==
  [restart |-> Every("time", 3, FALSE), regrid |-> Every("time", 2, FALSE),
   grains |-> Every("time", 2, FALSE), visit |-> Every("time", 2, FALSE),
   extend |-> Every("time", 3, TRUE), fundamental |-> Off]

TimeDecks == {Limits(4, Unset, 6), Limits(3, 2, 7)}

(* A regrid interval that includes the first step. *)
RegridFirstInterval ==
  [e \in Event |-> IF e = "regrid" THEN Every("step", 5, TRUE)
                   ELSE IF e = "restart" THEN Every("step", 2, FALSE) ELSE Off]

=============================================================================
