-------------------------- MODULE ImplicitStepProofs --------------------------
(***************************************************************************)
(* What ImplicitStep computes its right-hand sides, difference quotients   *)
(* and preconditioners from, for every deck and every limit of CPODES.     *)
(***************************************************************************)
EXTENDS ImplicitStep, TLAPS

-----------------------------------------------------------------------------
(* Facts about the callbacks. *)

(* A vector at a time, of a kind and with a number is a Point.             *)
LEMMA PointType ==
  ASSUME NEW t \in Nat, NEW n \in Nat,
         NEW kind \in {"none", "initial", "trial", "predicted", "corrected", "perturbed"}
  PROVE  At(t, kind, n) \in Point /\ At(t, kind, n).time = t /\ At(t, kind, n).kind = kind
BY DEF At, Point

(* Nothing was computed nowhere.                                           *)
LEMMA NowhereType == Nowhere \in Point /\ Nowhere.time = 0
BY PointType DEF Nowhere

(* So is the result that there is not yet.                                 *)
LEMMA NoResultType == NoResult \in RightHandSide
BY NowhereType DEF NoResult, RightHandSide

(* The types of the noise and of the static variables of the frame.        *)
Noise == [drawn : Point, time : Nat \cup {-1}]

Frame == [velocity : Point, reference : Point, since : Nat]

(* An evaluation with fd_flag 0 computes every field anew, and the noise   *)
(* and the reference when the time is new.                                 *)
LEMMA EvaluateBase ==
  ASSUME TypeOK, NEW p \in Point, Evaluate(p, FALSE)
  PROVE  /\ field' \in [Field -> Point] /\ noise' \in Noise /\ frame' \in Frame
         /\ rhs' \in RightHandSide /\ jv' = jv
         /\ \A f \in Field : rhs'.used[f] = p /\ field'[f] = p
         /\ rhs'.at = p /\ rhs'.drawn = noise'.drawn /\ rhs'.reference = frame'.reference
         /\ noise'.time = p.time /\ frame'.velocity = p
         /\ noise'.drawn = IF p.time # noise.time THEN p ELSE noise.drawn
         /\ frame'.reference = IF p.time # noise.time /\ time.last # frame.since
                               THEN frame.velocity ELSE frame.reference
         /\ frame'.since = IF p.time # noise.time /\ time.last # frame.since
                           THEN time.last ELSE frame.since
<1> USE DEF Noise, Frame
<1>1. field' = [f \in Field |-> p]
  BY DEF Evaluate, FieldsAt, Recomputes
<1>2. FieldsAt(p, FALSE) = [f \in Field |-> p]
  BY DEF FieldsAt, Recomputes
<1>3. /\ noise' \in Noise /\ noise'.time = p.time
      /\ noise'.drawn = IF p.time # noise.time THEN p ELSE noise.drawn
  BY DEF Evaluate, NoiseAt, NewTime, TypeOK, Point
<1>4. /\ frame' \in Frame /\ frame'.velocity = p
      /\ frame'.reference = IF p.time # noise.time /\ time.last # frame.since
                            THEN frame.velocity ELSE frame.reference
      /\ frame'.since = IF p.time # noise.time /\ time.last # frame.since
                        THEN time.last ELSE frame.since
  BY DEF Evaluate, FrameAt, NewReference, NewTime, TypeOK
<1>5. rhs' = [at |-> p, used |-> [f \in Field |-> p], drawn |-> noise'.drawn,
              reference |-> frame'.reference]
  BY <1>2 DEF Evaluate, Result
<1>6. rhs' \in RightHandSide
  BY <1>5, <1>3, <1>4 DEF RightHandSide
<1> QED
  BY <1>1, <1>3, <1>4, <1>5, <1>6 DEF Evaluate

(* An evaluation with fd_flag 1 lags two fields if the deck asks for it,   *)
(* draws no noise and moves no reference.                                  *)
LEMMA EvaluatePerturbed ==
  ASSUME TypeOK, NEW p \in Point, Evaluate(p, TRUE)
  PROVE  /\ field' \in [Field -> Point] /\ noise' \in Noise /\ frame' \in Frame
         /\ jv' \in RightHandSide /\ rhs' = rhs
         /\ jv'.at = p /\ jv'.used = field'
         /\ jv'.drawn = noise.drawn /\ jv'.reference = frame.reference
         /\ noise'.drawn = noise.drawn /\ noise'.time = p.time
         /\ frame'.velocity = p /\ frame'.reference = frame.reference
         /\ frame'.since = frame.since
         /\ \A f \in Field : field'[f] = IF f \in {"gradient", "diffusion"} /\ deck.lag
                                         THEN field[f] ELSE p
<1> USE DEF Noise, Frame
<1>1. /\ field' \in [Field -> Point] /\ field' = FieldsAt(p, TRUE)
      /\ \A f \in Field : field'[f] = IF f \in {"gradient", "diffusion"} /\ deck.lag
                                      THEN field[f] ELSE p
  BY DEF Evaluate, FieldsAt, Recomputes, TypeOK
<1>2. noise' \in Noise /\ noise'.drawn = noise.drawn /\ noise'.time = p.time
  BY DEF Evaluate, NoiseAt, NewTime, TypeOK, Point
<1>3. /\ frame' \in Frame /\ frame'.velocity = p /\ frame'.reference = frame.reference
      /\ frame'.since = frame.since
  BY DEF Evaluate, FrameAt, NewReference, NewTime, TypeOK
<1>4. jv' = [at |-> p, used |-> field', drawn |-> noise.drawn, reference |-> frame.reference]
  BY <1>1 DEF Evaluate, Result, NoiseAt, FrameAt, NewReference, NewTime
<1>5. jv' \in RightHandSide
  BY <1>1, <1>4 DEF RightHandSide, TypeOK
<1> QED
  BY <1>1, <1>2, <1>3, <1>4, <1>5 DEF Evaluate

-----------------------------------------------------------------------------
(* Types. *)

(* The counters are below their limits as long as they may still grow.     *)
CountInv ==
  /\ pc # "failed" => cp.ncf < MaxNcf /\ cp.nef < MaxNef
  /\ pc \in {"evaluate", "setup", "linear", "precondition", "product", "correct"} =>
       cp.m < MaxCor
  /\ pc = "product" => cp.k < MaxKrylov

TypeInv == TypeOK /\ CountInv

(* The types of the counters, the times and the bounded counters.          *)
Counters ==
  [nst : Nat, nstlset : Nat, ncf : 0 .. MaxNcf, nef : 0 .. MaxNef, m : 0 .. MaxCor,
   k : 0 .. MaxKrylov, jcur : BOOLEAN, setup : BOOLEAN]

Times == [saved : Nat, now : Nat, last : Nat]

Counts == [time : Nat, n : Nat, trials : Nat, steps : Nat, solvers : Nat]

LEMMA TypeInit == Init => TypeInv
<1> SUFFICES ASSUME Init PROVE TypeInv
  OBVIOUS
<1>1. cp \in Counters
  BY StepAssumption DEF Init, FreshSolver, Counters
<1>2. /\ time \in [saved : Nat, now : Nat, last : Nat]
      /\ frame \in [velocity : Point, reference : Point, since : Nat]
      /\ count \in [time : Nat, n : Nat, trials : Nat, steps : Nat, solvers : Nat]
  BY NowhereType DEF Init
<1>3. /\ rhs \in RightHandSide /\ jv \in RightHandSide
      /\ field \in [Field -> Point] /\ y \in Point
      /\ op \in [at : Point, quat : SUBSET Point, phase : SUBSET Point, conc : SUBSET Point]
      /\ noise \in [drawn : Point, time : Nat \cup {-1}]
  BY NowhereType, NoResultType DEF Init
<1>4. CountInv
  BY StepAssumption DEF Init, FreshSolver, CountInv
<1> QED
  BY <1>1, <1>2, <1>3, <1>4 DEF Init, TypeInv, TypeOK, Counters

LEMMA TypeStep == TypeInv /\ [Next]_vars => TypeInv'
<1> SUFFICES ASSUME TypeInv, [Next]_vars PROVE TypeInv'
  OBVIOUS
<1> USE StepAssumption
<1>t. /\ TypeOK /\ CountInv
      /\ cp \in Counters
      /\ time \in Times /\ count \in Counts /\ y \in Point
  BY DEF TypeInv, TypeOK, Counters, Times, Counts
<1>n. /\ time.saved \in Nat /\ time.now \in Nat
      /\ count.time \in Nat /\ count.time + 1 \in Nat /\ count.n \in Nat
      /\ count.trials + 1 \in Nat /\ count.steps + 1 \in Nat
      /\ cp.nst \in Nat /\ cp.nst + 1 \in Nat
      /\ 0 \in 0 .. MaxNcf /\ 0 \in 0 .. MaxNef /\ 0 \in 0 .. MaxCor /\ 0 \in 0 .. MaxKrylov
  BY <1>t DEF Counters, Times, Counts
<1>p. /\ At(time.saved, "initial", 0) \in Point
      /\ At(count.time + 1, "trial", 0) \in Point
      /\ At(count.time + 1, "predicted", 0) \in Point
      /\ At(time.now, "predicted", 0) \in Point
      /\ At(time.now, "corrected", count.n) \in Point
      /\ At(time.now, "perturbed", count.n) \in Point
  BY <1>n, PointType
<1>0. CASE UNCHANGED vars
  BY <1>0, <1>t DEF vars, TypeInv, TypeOK, CountInv
<1>1. CASE NewSolver
  <2>1. cp' \in Counters
    BY <1>1, <1>n DEF NewSolver, FreshSolver, Counters
  <2> QED
    BY <1>1, <1>t, <2>1 DEF NewSolver, FreshSolver, callbacks, TypeInv, TypeOK, CountInv, Counters
<1>2. CASE EvaluateInitial
  <2>1. y' \in Point /\ Evaluate(y', FALSE)
    BY <1>2, <1>p DEF EvaluateInitial
  <2>2. /\ field' \in [Field -> Point] /\ noise' \in Noise /\ frame' \in Frame
        /\ rhs' \in RightHandSide /\ jv' = jv
    BY <1>t, <2>1, EvaluateBase
  <2> QED
    BY <1>2, <1>t, <2>1, <2>2
    DEF EvaluateInitial, OperatorAfter, TypeInv, TypeOK, CountInv, Noise, Frame
<1>3. CASE EvaluateTrial
  <2>1. y' \in Point /\ Evaluate(y', FALSE)
    BY <1>3, <1>p DEF EvaluateTrial
  <2>2. /\ field' \in [Field -> Point] /\ noise' \in Noise /\ frame' \in Frame
        /\ rhs' \in RightHandSide /\ jv' = jv
    BY <1>t, <2>1, EvaluateBase
  <2>3. count' \in Counts
    BY <1>3, <1>t, <1>n DEF EvaluateTrial, Counts
  <2>4. CountInv'
    BY <1>3, <1>t DEF EvaluateTrial, CountInv
  <2>u. UNCHANGED <<pc, deck, cp, time, op>>
    BY <1>3 DEF EvaluateTrial, OperatorAfter
  <2>5. TypeOK'
    BY <2>u, <1>t, <2>1, <2>2, <2>3 DEF TypeOK, Noise, Frame, Counts
  <2> QED
    BY <2>4, <2>5 DEF TypeInv
<1>4. CASE NextStep
  BY <1>4, <1>t DEF NextStep, callbacks, TypeInv, TypeOK, CountInv
<1>5. CASE Predict
  <2>1. y' \in Point
    BY <1>5, <1>p DEF Predict
  <2>2. PICK changed \in BOOLEAN :
          cp' = [cp EXCEPT !.m = 0,
                           !.setup = deck.precond /\ \/ cp.ncf > 0 \/ cp.nef > 0 \/ cp.nst = 0
                                                     \/ cp.nst >= cp.nstlset + MaxPrecondSteps
                                                     \/ changed]
    BY <1>5 DEF Predict
  <2>3. deck.precond \in BOOLEAN
    BY <1>t DEF TypeOK
  <2>4. cp' \in Counters /\ cp'.m = 0 /\ cp'.ncf = cp.ncf /\ cp'.nef = cp.nef
    BY <2>2, <2>3, <1>t, <1>n DEF Counters
  <2>5. time' \in Times /\ count' \in Counts
    BY <1>5, <1>t, <1>n DEF Predict, Times, Counts
  <2> QED
    BY <1>5, <1>t, <2>1, <2>4, <2>5
    DEF Predict, callbacks, TypeInv, TypeOK, CountInv, Counters, Times, Counts
<1>6. CASE EvaluateAtIterate
  <2>1. /\ field' \in [Field -> Point] /\ noise' \in Noise /\ frame' \in Frame
        /\ rhs' \in RightHandSide /\ jv' = jv
    BY <1>6, <1>t, EvaluateBase DEF EvaluateAtIterate
  <2> QED
    BY <1>6, <1>t, <2>1
    DEF EvaluateAtIterate, OperatorAfter, TypeInv, TypeOK, CountInv, Noise, Frame
<1>7. CASE PrecondSet
  <2>1. field' \in [Field -> Point]
    BY <1>7, <1>t DEF PrecondSet, TypeOK, Field
  <2>2. op' \in [at : Point, quat : SUBSET Point, phase : SUBSET Point, conc : SUBSET Point]
    BY <1>7, <1>t, <2>1 DEF PrecondSet, Field
  <2>3. cp' \in Counters /\ cp'.ncf = cp.ncf /\ cp'.nef = cp.nef /\ cp'.m = cp.m
    BY <1>7, <1>t DEF PrecondSet, Counters
  <2> QED
    BY <1>7, <1>t, <2>1, <2>2, <2>3 DEF PrecondSet, TypeInv, TypeOK, CountInv, Counters
<1>8. CASE SolveLinear
  <2>1. /\ cp' \in Counters /\ cp'.ncf = cp.ncf /\ cp'.nef = cp.nef /\ cp'.m = cp.m
        /\ cp'.k = 0
    BY <1>8, <1>t, <1>n DEF SolveLinear, Counters
  <2> QED
    BY <1>8, <1>t, <2>1, NoResultType
    DEF SolveLinear, callbacks, TypeInv, TypeOK, CountInv, Counters
<1>9. CASE PrecondSolve
  BY <1>9, <1>t DEF PrecondSolve, AfterVector, callbacks, TypeInv, TypeOK, CountInv
<1>10. CASE Product
  <2>1. PICK p \in Point : Evaluate(p, TRUE) /\ op' = OperatorAfter(p)
    BY <1>10, <1>p DEF Product
  <2>2. /\ field' \in [Field -> Point] /\ noise' \in Noise /\ frame' \in Frame
        /\ jv' \in RightHandSide /\ rhs' = rhs
    BY <1>t, <2>1, EvaluatePerturbed
  <2>3. /\ cp' \in Counters /\ cp'.ncf = cp.ncf /\ cp'.nef = cp.nef /\ cp'.m = cp.m
        /\ cp'.k = cp.k + 1
    BY <1>10, <1>t DEF Product, Counters, CountInv
  <2> QED
    BY <1>10, <1>t, <2>1, <2>2, <2>3
    DEF Product, AfterVector, OperatorAfter, TypeInv, TypeOK, CountInv, Counters, Noise, Frame
<1>11. CASE NewtonConverges
  <2>1. cp' \in Counters /\ cp'.ncf = 0 /\ cp'.nef = cp.nef
    BY <1>11, <1>t, <1>n DEF NewtonConverges, Converged, Counters
  <2> QED
    BY <1>11, <1>t, <2>1 DEF NewtonConverges, callbacks, TypeInv, TypeOK, CountInv, Counters
<1>12. CASE NewtonContinues
  <2>1. y' \in Point /\ Evaluate(y', FALSE)
    BY <1>12, <1>p DEF NewtonContinues
  <2>2. /\ field' \in [Field -> Point] /\ noise' \in Noise /\ frame' \in Frame
        /\ rhs' \in RightHandSide /\ jv' = jv
    BY <1>t, <2>1, EvaluateBase
  <2>3. /\ cp' \in Counters /\ cp'.ncf = cp.ncf /\ cp'.nef = cp.nef /\ cp'.m = cp.m + 1
    BY <1>12, <1>t DEF NewtonContinues, Counters
  <2> QED
    BY <1>12, <1>t, <2>1, <2>2, <2>3
    DEF NewtonContinues, OperatorAfter, TypeInv, TypeOK, CountInv, Counters, Noise, Frame
<1>13. CASE NewtonStops
  <2>1. cp' \in Counters /\ cp'.ncf = cp.ncf /\ cp'.nef = cp.nef
    BY <1>13, <1>t DEF NewtonStops, Counters, CountInv
  <2> QED
    BY <1>13, <1>t, <2>1 DEF NewtonStops, callbacks, TypeInv, TypeOK, CountInv, Counters
<1>14. CASE Retry
  <2>1. y' \in Point
    BY <1>14, <1>p DEF Retry
  <2>2. cp' \in Counters /\ cp'.ncf = cp.ncf /\ cp'.nef = cp.nef /\ cp'.m = 0
    BY <1>14, <1>t, <1>n DEF Retry, Counters
  <2> QED
    BY <1>14, <1>t, <2>1, <2>2 DEF Retry, callbacks, TypeInv, TypeOK, CountInv, Counters
<1>15. CASE NewtonFails
  <2>1. cp' \in Counters /\ cp'.ncf = cp.ncf + 1 /\ cp'.nef = cp.nef
    BY <1>15, <1>t DEF NewtonFails, Counters, CountInv
  <2>2. pc' = "failed" \/ (pc' = "predict" /\ cp.ncf + 1 # MaxNcf)
    BY <1>15 DEF NewtonFails, Last
  <2> QED
    BY <1>15, <1>t, <2>1, <2>2 DEF NewtonFails, callbacks, TypeInv, TypeOK, CountInv, Counters
<1>16. CASE ErrorTestFails
  <2>1. cp' \in Counters /\ cp'.nef = cp.nef + 1 /\ cp'.ncf = cp.ncf
    BY <1>16, <1>t DEF ErrorTestFails, Counters, CountInv
  <2>2. pc' = "failed" \/ (pc' = "predict" /\ cp.nef + 1 # MaxNef)
    BY <1>16 DEF ErrorTestFails, Last
  <2> QED
    BY <1>16, <1>t, <2>1, <2>2 DEF ErrorTestFails, callbacks, TypeInv, TypeOK, CountInv, Counters
<1>17. CASE Accept
  <2>1. cp' \in Counters /\ cp'.nef = 0 /\ cp'.ncf = cp.ncf
    BY <1>17, <1>t, <1>n DEF Accept, Counters
  <2>2. time' \in Times /\ count' \in Counts
    BY <1>17, <1>t, <1>n DEF Accept, Times, Counts
  <2>3. CountInv'
    BY <1>17, <1>t, <2>1 DEF Accept, CountInv, Counters
  <2>u. pc' = "idle" /\ UNCHANGED <<deck, y, rhs, jv, field, noise, frame, op>>
    BY <1>17 DEF Accept, callbacks
  <2>4. TypeOK'
    BY <2>u, <1>t, <2>1, <2>2 DEF TypeOK, Counters, Times, Counts
  <2> QED
    BY <2>3, <2>4 DEF TypeInv
<1> QED
  BY <1>0, <1>1, <1>2, <1>3, <1>4, <1>5, <1>6, <1>7, <1>8, <1>9, <1>10, <1>11, <1>12,
     <1>13, <1>14, <1>15, <1>16, <1>17 DEF Next, Solve, NewtonIteration

(* Every variable keeps its type: no counter of CPODES passes its limit,   *)
(* whatever fails.                                                         *)
THEOREM TypeCorrect == Spec => []TypeOK
<1>1. TypeInv => TypeOK
  BY DEF TypeInv
<1> QED
  BY TypeInit, TypeStep, <1>1, PTL DEF Spec

-----------------------------------------------------------------------------
(* Where the right-hand sides come from. *)

Solving == {"setup", "linear", "precondition", "product", "correct"}

(* From the evaluation at an iterate to the end of the linear solve the    *)
(* noise, the reference and the lagged fields stay those of the iterate.   *)
(* The noise is that of the time evaluatePhaseRHS was last called with.    *)
SourceInv ==
  /\ pc \in {"evaluate"} \cup Solving => y.time = time.now
  /\ noise.time # -1 => noise.drawn.time = noise.time
  /\ \A f \in Field : rhs.used[f] = rhs.at
  /\ rhs.drawn.time = rhs.at.time
  /\ pc \in Solving =>
       /\ noise.time = time.now /\ rhs.at = y
       /\ noise.drawn = rhs.drawn /\ frame.reference = rhs.reference
       /\ deck.lag => field["gradient"] = y /\ field["diffusion"] = y
  /\ pc = "setup" => \A f \in Field : field[f] = y
  /\ DifferenceHasOneBase

LEMMA SourceInit == Init => SourceInv
BY NowhereType
DEF Init, SourceInv, DifferenceHasOneBase, Solving, NoResult, Nowhere, At, Field, FreshSolver

(* What an evaluation with fd_flag 0 establishes, wherever it is made.     *)
LEMMA SourceOfBase ==
  ASSUME TypeOK, SourceInv, NEW p \in Point, Evaluate(p, FALSE)
  PROVE  /\ noise'.time = p.time /\ noise'.drawn.time = noise'.time
         /\ \A f \in Field : rhs'.used[f] = rhs'.at /\ field'[f] = p
         /\ rhs'.at = p /\ rhs'.drawn.time = rhs'.at.time
         /\ noise'.drawn = rhs'.drawn /\ frame'.reference = rhs'.reference
<1>1. p.time \in Nat
  BY DEF Point
<1>2. /\ noise'.time = p.time
      /\ noise'.drawn = IF p.time # noise.time THEN p ELSE noise.drawn
  BY EvaluateBase
<1>3. noise.time # -1 => noise.drawn.time = noise.time
  BY DEF SourceInv
<1>4. noise'.drawn.time = p.time
  BY <1>1, <1>2, <1>3
<1>5. /\ \A f \in Field : rhs'.used[f] = p /\ field'[f] = p
      /\ rhs'.at = p /\ rhs'.drawn = noise'.drawn /\ rhs'.reference = frame'.reference
  BY EvaluateBase
<1> QED
  BY <1>2, <1>4, <1>5

LEMMA SourceStep == TypeOK /\ SourceInv /\ [Next]_vars => SourceInv'
<1> SUFFICES ASSUME TypeOK, SourceInv, [Next]_vars PROVE SourceInv'
  OBVIOUS
<1> USE DEF Solving
<1>t. /\ time \in Times /\ count \in Counts /\ cp \in Counters /\ y \in Point
      /\ time.saved \in Nat /\ time.now \in Nat /\ count.time + 1 \in Nat /\ count.n \in Nat
      /\ "gradient" \in Field /\ "diffusion" \in Field
  BY DEF TypeOK, Times, Counts, Counters, Field
<1>q. /\ At(time.saved, "initial", 0) \in Point
      /\ At(count.time + 1, "trial", 0) \in Point
  BY <1>t, PointType
<1>p. /\ At(count.time + 1, "predicted", 0).time = count.time + 1
      /\ At(time.now, "predicted", 0).time = time.now
      /\ At(time.now, "corrected", count.n) \in Point
      /\ At(time.now, "corrected", count.n).time = time.now
      /\ At(time.now, "perturbed", count.n) \in Point
      /\ At(time.now, "perturbed", count.n).time = time.now
  BY <1>t, PointType
<1>0. CASE UNCHANGED vars
  BY <1>0 DEF vars, SourceInv, DifferenceHasOneBase
<1>1. CASE NewSolver
  BY <1>1 DEF NewSolver, callbacks, SourceInv, DifferenceHasOneBase
<1>2. CASE EvaluateInitial
  <2>1. y' \in Point /\ Evaluate(y', FALSE) /\ pc' \in {"trial", "predict"}
    BY <1>2, <1>q DEF EvaluateInitial
  <2> QED
    BY <2>1, SourceOfBase DEF SourceInv, DifferenceHasOneBase
<1>3. CASE EvaluateTrial
  <2>1. y' \in Point /\ Evaluate(y', FALSE) /\ pc' = "trial"
    BY <1>3, <1>q DEF EvaluateTrial
  <2> QED
    BY <2>1, SourceOfBase DEF SourceInv, DifferenceHasOneBase
<1>4. CASE NextStep
  BY <1>4 DEF NextStep, callbacks, SourceInv, DifferenceHasOneBase
<1>5. CASE Predict
  <2>1. y'.time = count.time + 1 /\ time'.now = count.time + 1
    BY <1>5, <1>t, <1>p DEF Predict, Times
  <2> QED
    BY <1>5, <2>1 DEF Predict, callbacks, SourceInv, DifferenceHasOneBase
<1>6. CASE EvaluateAtIterate
  <2>1. Evaluate(y, FALSE) /\ y' = y /\ pc' \in {"setup", "linear"} /\ UNCHANGED <<time, deck>>
    BY <1>6 DEF EvaluateAtIterate
  <2>2. y.time = time.now
    BY <1>6 DEF EvaluateAtIterate, SourceInv
  <2> QED
    BY <1>t, <2>1, <2>2, SourceOfBase DEF SourceInv, DifferenceHasOneBase
<1>7. CASE PrecondSet
  <2>1. \A f \in Field : field'[f] = y
    BY <1>7 DEF PrecondSet, SourceInv, TypeOK, Field
  <2> QED
    BY <1>7, <1>t, <2>1 DEF PrecondSet, SourceInv, DifferenceHasOneBase
<1>8. CASE SolveLinear
  <2>1. cp'.k = 0
    BY <1>8, <1>t DEF SolveLinear, Counters
  <2> QED
    BY <1>8, <2>1 DEF SolveLinear, callbacks, SourceInv, DifferenceHasOneBase
<1>9. CASE PrecondSolve
  BY <1>9 DEF PrecondSolve, AfterVector, callbacks, SourceInv, DifferenceHasOneBase
<1>10. CASE Product
  <2>1. PICK p \in Point : Evaluate(p, TRUE) /\ p.time = time.now
    BY <1>10, <1>p DEF Product
  <2>2. /\ jv'.at = p /\ jv'.used = field' /\ rhs' = rhs
        /\ jv'.drawn = noise.drawn /\ jv'.reference = frame.reference
        /\ noise'.drawn = noise.drawn /\ noise'.time = p.time
        /\ frame'.reference = frame.reference
        /\ \A f \in Field : field'[f] = IF f \in {"gradient", "diffusion"} /\ deck.lag
                                        THEN field[f] ELSE p
    BY <2>1, EvaluatePerturbed
  <2>3. /\ pc = "product" /\ pc' \in {"precondition", "correct", "product", "diverged"}
        /\ UNCHANGED <<deck, time, y>>
    BY <1>10 DEF Product, AfterVector
  <2>4. time.now # -1
    BY <1>t
  <2>5. \A f \in Field : field'[f] \in {p, y}
    BY <2>2, <2>3 DEF SourceInv
  <2> QED
    BY <1>t, <2>1, <2>2, <2>3, <2>4, <2>5 DEF SourceInv, DifferenceHasOneBase
<1>11. CASE NewtonConverges
  BY <1>11 DEF NewtonConverges, callbacks, SourceInv, DifferenceHasOneBase
<1>12. CASE NewtonContinues
  <2>1. /\ y' \in Point /\ Evaluate(y', FALSE) /\ y'.time = time.now
        /\ pc' = "linear" /\ UNCHANGED <<time, deck>>
    BY <1>12, <1>p DEF NewtonContinues
  <2> QED
    BY <1>t, <2>1, SourceOfBase DEF SourceInv, DifferenceHasOneBase
<1>13. CASE NewtonStops
  BY <1>13 DEF NewtonStops, callbacks, SourceInv, DifferenceHasOneBase
<1>14. CASE Retry
  BY <1>14, <1>p DEF Retry, callbacks, SourceInv, DifferenceHasOneBase
<1>15. CASE NewtonFails
  BY <1>15 DEF NewtonFails, callbacks, SourceInv, DifferenceHasOneBase
<1>16. CASE ErrorTestFails
  BY <1>16 DEF ErrorTestFails, callbacks, SourceInv, DifferenceHasOneBase
<1>17. CASE Accept
  BY <1>17 DEF Accept, callbacks, SourceInv, DifferenceHasOneBase
<1> QED
  BY <1>0, <1>1, <1>2, <1>3, <1>4, <1>5, <1>6, <1>7, <1>8, <1>9, <1>10, <1>11, <1>12,
     <1>13, <1>14, <1>15, <1>16, <1>17 DEF Next, Solve, NewtonIteration

(* Newton works with the right-hand side of its iterate, whatever was      *)
(* evaluated before it.                                                    *)
THEOREM RightHandSidesAreCurrent == Spec => []RightHandSideIsCurrent
<1>1. SourceInv => RightHandSideIsCurrent
  BY DEF SourceInv, RightHandSideIsCurrent, InSolve, Solving
<1>2. TypeInv => TypeOK
  BY DEF TypeInv
<1> QED
  BY TypeInit, TypeStep, SourceInit, SourceStep, <1>1, <1>2, PTL DEF Spec

(* A difference quotient is one of a single base, for every deck.          *)
THEOREM DifferencesHaveOneBase == Spec => []DifferenceHasOneBase
<1>1. SourceInv => DifferenceHasOneBase
  BY DEF SourceInv
<1>2. TypeInv => TypeOK
  BY DEF TypeInv
<1> QED
  BY TypeInit, TypeStep, SourceInit, SourceStep, <1>1, <1>2, PTL DEF Spec

-----------------------------------------------------------------------------
(* What the preconditioner was made from. *)

(* The operators belong to one vector, a prediction.                       *)
OperatorsOfOne ==
  /\ op.at.kind = "predicted"
  /\ op.quat = {op.at} /\ op.phase = {op.at} /\ op.conc = {op.at}

(* They do from the first setup of a solver on.  In the first step there   *)
(* is a setup before every linear solve.                                   *)
OperatorInv ==
  /\ pc \in {"evaluate", "setup"} => y.kind = "predicted"
  /\ deck.precond /\ (\/ cp.nst > 0
                      \/ InSolve \/ pc \in {"test", "diverged"}
                      \/ pc = "evaluate" /\ ~ cp.setup)
       => OperatorsOfOne

LEMMA OperatorStep == TypeOK /\ SourceInv /\ OperatorInv /\ [Next]_vars => OperatorInv'
<1> SUFFICES ASSUME TypeOK, SourceInv, OperatorInv, [Next]_vars PROVE OperatorInv'
  OBVIOUS
<1> USE DEF OperatorsOfOne, InSolve
<1>t. /\ cp \in Counters /\ cp.nst \in Nat /\ deck.precond \in BOOLEAN
      /\ count.time + 1 \in Nat /\ time.now \in Nat
  BY StepAssumption DEF TypeOK, Counters
<1>p. /\ At(count.time + 1, "predicted", 0).kind = "predicted"
      /\ At(time.now, "predicted", 0).kind = "predicted"
  BY <1>t, PointType
<1>0. CASE UNCHANGED vars
  BY <1>0 DEF vars, OperatorInv
<1>1. CASE NewSolver
  BY <1>1 DEF NewSolver, FreshSolver, callbacks, OperatorInv
<1>2. CASE EvaluateInitial
  BY <1>2 DEF EvaluateInitial, OperatorAfter, OperatorInv
<1>3. CASE EvaluateTrial
  BY <1>3 DEF EvaluateTrial, OperatorAfter, OperatorInv
<1>4. CASE NextStep
  BY <1>4 DEF NextStep, OperatorInv
<1>5. CASE Predict
  <2>1. PICK changed \in BOOLEAN :
          cp' = [cp EXCEPT !.m = 0,
                           !.setup = deck.precond /\ \/ cp.ncf > 0 \/ cp.nef > 0 \/ cp.nst = 0
                                                     \/ cp.nst >= cp.nstlset + MaxPrecondSteps
                                                     \/ changed]
    BY <1>5 DEF Predict
  <2>2. cp'.nst = cp.nst /\ (deck.precond /\ cp.nst = 0 => cp'.setup)
    BY <2>1, <1>t DEF Counters
  <2>3. /\ pc' = "evaluate" /\ y'.kind = "predicted" /\ UNCHANGED <<deck, op>>
    BY <1>5, <1>p DEF Predict
  <2>4. cp.nst = 0 \/ cp.nst > 0
    BY <1>t
  <2> QED
    BY <2>2, <2>3, <2>4 DEF OperatorInv
<1>6. CASE EvaluateAtIterate
  BY <1>6 DEF EvaluateAtIterate, OperatorAfter, OperatorInv
<1>7. CASE PrecondSet
  <2>1. \A f \in Field : field'[f] = y
    BY <1>7 DEF PrecondSet, SourceInv, TypeOK, Field
  <2>2. /\ op'.at = y /\ op'.quat = {field'["coefficients"], field'["gradient"]}
        /\ op'.phase = {field'["coefficients"], field'["temperature"]}
        /\ op'.conc = {field'["diffusion"]} /\ pc' = "linear"
    BY <1>7 DEF PrecondSet
  <2>3. y.kind = "predicted"
    BY <1>7 DEF PrecondSet, OperatorInv
  <2> QED
    BY <2>1, <2>2, <2>3 DEF OperatorInv, Field
<1>8. CASE SolveLinear
  <2>1. cp'.nst = cp.nst
    BY <1>8, <1>t DEF SolveLinear, Counters
  <2> QED
    BY <1>8, <2>1 DEF SolveLinear, OperatorInv
<1>9. CASE PrecondSolve
  BY <1>9 DEF PrecondSolve, AfterVector, OperatorInv
<1>10. CASE Product
  <2>1. cp'.nst = cp.nst
    BY <1>10, <1>t DEF Product, Counters
  <2> QED
    BY <1>10, <2>1 DEF Product, AfterVector, OperatorAfter, OperatorInv
<1>11. CASE NewtonConverges
  <2>1. cp'.nst = cp.nst
    BY <1>11, <1>t DEF NewtonConverges, Converged, Counters
  <2> QED
    BY <1>11, <2>1 DEF NewtonConverges, OperatorInv
<1>12. CASE NewtonContinues
  <2>1. cp'.nst = cp.nst
    BY <1>12, <1>t DEF NewtonContinues, Counters
  <2> QED
    BY <1>12, <2>1 DEF NewtonContinues, OperatorAfter, OperatorInv
<1>13. CASE NewtonStops
  <2>1. cp'.nst = cp.nst
    BY <1>13, <1>t DEF NewtonStops, Counters
  <2> QED
    BY <1>13, <2>1 DEF NewtonStops, OperatorInv
<1>14. CASE Retry
  <2>1. cp'.nst = cp.nst /\ cp'.setup
    BY <1>14, <1>t DEF Retry, Counters
  <2> QED
    BY <1>14, <2>1, <1>p DEF Retry, OperatorInv
<1>15. CASE NewtonFails
  <2>1. cp'.nst = cp.nst
    BY <1>15, <1>t DEF NewtonFails, Counters
  <2> QED
    BY <1>15, <2>1 DEF NewtonFails, OperatorInv
<1>16. CASE ErrorTestFails
  <2>1. cp'.nst = cp.nst
    BY <1>16, <1>t DEF ErrorTestFails, Counters
  <2> QED
    BY <1>16, <2>1 DEF ErrorTestFails, OperatorInv
<1>17. CASE Accept
  BY <1>17 DEF Accept, OperatorInv
<1> QED
  BY <1>0, <1>1, <1>2, <1>3, <1>4, <1>5, <1>6, <1>7, <1>8, <1>9, <1>10, <1>11, <1>12,
     <1>13, <1>14, <1>15, <1>16, <1>17 DEF Next, Solve, NewtonIteration

(* In a linear solve there is one preconditioner, made from one vector.    *)
THEOREM PreconditionerIsOne == Spec => []OneLinearization
<1>1. Init => OperatorInv
  BY DEF Init, OperatorInv, InSolve, FreshSolver
<1>2. OperatorInv => OneLinearization
  BY DEF OperatorInv, OperatorsOfOne, OneLinearization
<1>3. TypeInv => TypeOK
  BY DEF TypeInv
<1> QED
  BY TypeInit, TypeStep, SourceInit, SourceStep, OperatorStep, <1>1, <1>2, <1>3, PTL DEF Spec

-----------------------------------------------------------------------------
(* Which attempt a current preconditioner was made for. *)

(* jcur tells that the preconditioner is of this attempt.  It is reset     *)
(* only when Newton converges, so that a prediction that follows a failure *)
(* may find it set: that prediction is followed by a setup.                *)
CurrentInv ==
  /\ pc \in {"idle", "trial", "test"} => ~ cp.jcur
  /\ pc = "predict" /\ cp.ncf = 0 /\ cp.nef = 0 /\ cp.nst > 0 => ~ cp.jcur
  /\ deck.precond /\ pc = "evaluate" /\ ~ cp.setup => ~ cp.jcur
  /\ deck.precond /\ cp.jcur /\ (InSolve \/ pc = "diverged") => op.at.time = time.now

LEMMA CurrentStep == TypeOK /\ SourceInv /\ CurrentInv /\ [Next]_vars => CurrentInv'
<1> SUFFICES ASSUME TypeOK, SourceInv, CurrentInv, [Next]_vars PROVE CurrentInv'
  OBVIOUS
<1> USE DEF InSolve
<1>t. /\ cp \in Counters /\ cp.nst \in Nat /\ cp.ncf \in Nat /\ cp.nef \in Nat
      /\ deck.precond \in BOOLEAN /\ cp.jcur \in BOOLEAN
  BY StepAssumption DEF TypeOK, Counters
<1>0. CASE UNCHANGED vars
  BY <1>0 DEF vars, CurrentInv
<1>1. CASE NewSolver
  BY <1>1 DEF NewSolver, FreshSolver, CurrentInv
<1>2. CASE EvaluateInitial
  <2>1. cp.nst = 0 /\ ~ cp.jcur /\ pc' \in {"trial", "predict"} /\ UNCHANGED cp
    BY <1>2 DEF EvaluateInitial, CurrentInv
  <2> QED
    BY <2>1 DEF CurrentInv
<1>3. CASE EvaluateTrial
  BY <1>3 DEF EvaluateTrial, CurrentInv
<1>4. CASE NextStep
  BY <1>4 DEF NextStep, CurrentInv
<1>5. CASE Predict
  <2>1. PICK changed \in BOOLEAN :
          cp' = [cp EXCEPT !.m = 0,
                           !.setup = deck.precond /\ \/ cp.ncf > 0 \/ cp.nef > 0 \/ cp.nst = 0
                                                     \/ cp.nst >= cp.nstlset + MaxPrecondSteps
                                                     \/ changed]
    BY <1>5 DEF Predict
  <2>2. /\ cp'.jcur = cp.jcur
        /\ deck.precond /\ (cp.ncf > 0 \/ cp.nef > 0 \/ cp.nst = 0) => cp'.setup
    BY <2>1, <1>t DEF Counters
  <2>3. pc = "predict" /\ pc' = "evaluate" /\ UNCHANGED <<deck, op>>
    BY <1>5 DEF Predict
  <2>4. /\ cp.nst = 0 \/ cp.nst > 0
        /\ cp.ncf = 0 \/ cp.ncf > 0
        /\ cp.nef = 0 \/ cp.nef > 0
    BY <1>t
  <2> QED
    BY <2>2, <2>3, <2>4 DEF CurrentInv
<1>6. CASE EvaluateAtIterate
  BY <1>6 DEF EvaluateAtIterate, OperatorAfter, CurrentInv
<1>7. CASE PrecondSet
  <2>1. y.time = time.now
    BY <1>7 DEF PrecondSet, SourceInv, Solving
  <2>2. op'.at = y /\ time' = time /\ pc' = "linear"
    BY <1>7 DEF PrecondSet
  <2> QED
    BY <2>1, <2>2 DEF CurrentInv
<1>8. CASE SolveLinear
  <2>1. cp'.jcur = cp.jcur
    BY <1>8, <1>t DEF SolveLinear, Counters
  <2> QED
    BY <1>8, <2>1 DEF SolveLinear, CurrentInv
<1>9. CASE PrecondSolve
  BY <1>9 DEF PrecondSolve, AfterVector, CurrentInv
<1>10. CASE Product
  <2>1. cp'.jcur = cp.jcur
    BY <1>10, <1>t DEF Product, Counters
  <2> QED
    BY <1>10, <2>1 DEF Product, AfterVector, OperatorAfter, CurrentInv
<1>11. CASE NewtonConverges
  <2>1. ~ cp'.jcur
    BY <1>11, <1>t DEF NewtonConverges, Converged, Counters
  <2> QED
    BY <1>11, <2>1 DEF NewtonConverges, CurrentInv
<1>12. CASE NewtonContinues
  <2>1. cp'.jcur = cp.jcur
    BY <1>12, <1>t DEF NewtonContinues, Counters
  <2> QED
    BY <1>12, <2>1 DEF NewtonContinues, OperatorAfter, CurrentInv
<1>13. CASE NewtonStops
  <2>1. cp'.jcur = cp.jcur
    BY <1>13, <1>t DEF NewtonStops, Counters
  <2> QED
    BY <1>13, <2>1 DEF NewtonStops, CurrentInv
<1>14. CASE Retry
  <2>1. cp'.setup
    BY <1>14, <1>t DEF Retry, Counters
  <2> QED
    BY <1>14, <2>1 DEF Retry, CurrentInv
<1>15. CASE NewtonFails
  <2>1. cp'.ncf > 0
    BY <1>15, <1>t DEF NewtonFails, Counters
  <2> QED
    BY <1>15, <2>1 DEF NewtonFails, CurrentInv
<1>16. CASE ErrorTestFails
  <2>1. cp'.nef > 0
    BY <1>16, <1>t DEF ErrorTestFails, Counters
  <2> QED
    BY <1>16, <2>1 DEF ErrorTestFails, CurrentInv
<1>17. CASE Accept
  <2>1. cp'.jcur = cp.jcur
    BY <1>17, <1>t DEF Accept, Counters
  <2> QED
    BY <1>17, <2>1 DEF Accept, CurrentInv
<1> QED
  BY <1>0, <1>1, <1>2, <1>3, <1>4, <1>5, <1>6, <1>7, <1>8, <1>9, <1>10, <1>11, <1>12,
     <1>13, <1>14, <1>15, <1>16, <1>17 DEF Next, Solve, NewtonIteration

(* Newton fails for good only with a preconditioner made for the attempt.  *)
THEOREM FailuresAreWithNewPreconditioner == Spec => FailsWithNewPreconditioner
<1>1. Init => CurrentInv
  BY DEF Init, CurrentInv, InSolve, FreshSolver
<1>2. CurrentInv /\ [Next]_vars =>
        [pc = "diverged" /\ pc' \in {"predict", "failed"} /\ deck.precond
           => op.at.time = time.now]_vars
  <2> SUFFICES ASSUME CurrentInv, [Next]_vars,
                      pc = "diverged", pc' \in {"predict", "failed"}, deck.precond
               PROVE  op.at.time = time.now
    OBVIOUS
  <2>1. NewtonFails
    BY DEF Next, Solve, NewtonIteration, vars, NewSolver, EvaluateInitial, EvaluateTrial,
           NextStep, Predict, EvaluateAtIterate, PrecondSet, SolveLinear, PrecondSolve,
           Product, NewtonConverges, NewtonContinues, NewtonStops, Retry, ErrorTestFails,
           Accept
  <2>2. cp.jcur
    BY <2>1 DEF NewtonFails, SecondPass
  <2> QED
    BY <2>2 DEF CurrentInv
<1>3. TypeInv => TypeOK
  BY DEF TypeInv
<1> QED
  BY TypeInit, TypeStep, SourceInit, SourceStep, CurrentStep, <1>1, <1>2, <1>3, PTL
  DEF Spec, FailsWithNewPreconditioner

-----------------------------------------------------------------------------
(* The velocity of the frame. *)

(* The velocity computed last is that at the end of the last accepted      *)
(* step, or none was computed yet.                                         *)
VelocityOfAccepted ==
  \/ frame.velocity.time = time.saved
  \/ frame.velocity = Nowhere /\ frame.reference = Nowhere

(* As long as the reference has still to follow the last accepted step,    *)
(* no attempt has computed a velocity.  That an attempt is noticed by the  *)
(* callbacks needs a time they have not seen.                              *)
FrameInv ==
  /\ noise.time <= count.time /\ time.saved <= count.time /\ time.now <= count.time
  /\ pc = "idle" \/ time.last # frame.since => VelocityOfAccepted
  /\ pc = "evaluate" => time.now # noise.time \/ time.last = frame.since
  /\ pc \in Solving \cup {"diverged", "test"} =>
       time.last = frame.since /\ frame.velocity.time = time.now

LEMMA FrameStep == TypeOK /\ SourceInv /\ FrameInv /\ [Next]_vars => FrameInv'
<1> SUFFICES ASSUME TypeOK, SourceInv, FrameInv, [Next]_vars PROVE FrameInv'
  OBVIOUS
<1> USE DEF Solving, VelocityOfAccepted
<1>t. /\ time \in Times /\ count \in Counts /\ cp \in Counters /\ y \in Point
      /\ time.saved \in Nat /\ time.now \in Nat /\ count.time \in Nat
      /\ count.time + 1 \in Nat /\ count.n \in Nat /\ noise.time \in Int
  BY DEF TypeOK, Times, Counts, Counters
<1>p. /\ At(time.saved, "initial", 0) \in Point
      /\ At(time.saved, "initial", 0).time = time.saved
  BY <1>t, PointType
<1>s. /\ At(count.time + 1, "trial", 0) \in Point
      /\ At(count.time + 1, "trial", 0).time = count.time + 1
  BY <1>t, PointType
<1>r. /\ At(time.now, "corrected", count.n) \in Point
      /\ At(time.now, "corrected", count.n).time = time.now
      /\ At(time.now, "perturbed", count.n) \in Point
      /\ At(time.now, "perturbed", count.n).time = time.now
  BY <1>t, PointType
<1>0. CASE UNCHANGED vars
  BY <1>0 DEF vars, FrameInv
<1>1. CASE NewSolver
  <2>1. time'.saved = time.saved /\ time'.now = time.now /\ count'.time = count.time
    BY <1>1, <1>t DEF NewSolver, Times, Counts
  <2> QED
    BY <1>1, <2>1 DEF NewSolver, callbacks, FrameInv
<1>2. CASE EvaluateInitial
  <2>1. /\ y' \in Point /\ Evaluate(y', FALSE) /\ y'.time = time.saved
        /\ pc' \in {"trial", "predict"} /\ UNCHANGED <<time, count>>
    BY <1>2, <1>p DEF EvaluateInitial
  <2>2. noise'.time = time.saved /\ frame'.velocity.time = time.saved
    BY <2>1, EvaluateBase
  <2> QED
    BY <2>1, <2>2 DEF FrameInv
<1>3. CASE EvaluateTrial
  <2>1. /\ y' \in Point /\ Evaluate(y', FALSE) /\ y'.time = count.time + 1
        /\ pc' = "trial" /\ UNCHANGED time
    BY <1>3, <1>s DEF EvaluateTrial
  <2>2. count'.time = count.time + 1
    BY <1>3, <1>t DEF EvaluateTrial, Counts
  <2>3. y'.time # noise.time
    BY <1>t, <2>1 DEF FrameInv
  <2>4. noise'.time = count.time + 1 /\ time.last = frame'.since
    BY <2>1, <2>3, EvaluateBase
  <2> QED
    BY <1>t, <2>1, <2>2, <2>4 DEF FrameInv
<1>4. CASE NextStep
  BY <1>4 DEF NextStep, callbacks, FrameInv
<1>5. CASE Predict
  <2>1. /\ time'.now = count.time + 1 /\ time'.saved = time.saved /\ time'.last = time.last
        /\ count'.time = count.time + 1
    BY <1>5, <1>t DEF Predict, Times, Counts
  <2>2. pc' = "evaluate" /\ UNCHANGED <<noise, frame>>
    BY <1>5 DEF Predict, callbacks
  <2>3. count.time + 1 # noise.time
    BY <1>t DEF FrameInv
  <2> QED
    BY <1>t, <2>1, <2>2, <2>3 DEF FrameInv
<1>6. CASE EvaluateAtIterate
  <2>1. /\ Evaluate(y, FALSE) /\ pc = "evaluate" /\ pc' \in {"setup", "linear"}
        /\ UNCHANGED <<time, count>>
    BY <1>6 DEF EvaluateAtIterate
  <2>2. y.time = time.now
    BY <2>1 DEF SourceInv
  <2>3. time.last = frame'.since
    BY <1>t, <2>1, <2>2, EvaluateBase DEF FrameInv
  <2>4. noise'.time = time.now /\ frame'.velocity.time = time.now
    BY <1>t, <2>1, <2>2, EvaluateBase
  <2> QED
    BY <2>1, <2>3, <2>4 DEF FrameInv
<1>7. CASE PrecondSet
  BY <1>7 DEF PrecondSet, FrameInv
<1>8. CASE SolveLinear
  BY <1>8 DEF SolveLinear, callbacks, FrameInv
<1>9. CASE PrecondSolve
  BY <1>9 DEF PrecondSolve, AfterVector, callbacks, FrameInv
<1>10. CASE Product
  <2>1. PICK p \in Point : Evaluate(p, TRUE) /\ p.time = time.now
    BY <1>10, <1>r DEF Product
  <2>2. /\ noise'.time = time.now /\ frame'.velocity.time = time.now
        /\ frame'.since = frame.since
    BY <2>1, EvaluatePerturbed
  <2>3. /\ pc = "product" /\ pc' \in {"precondition", "correct", "product", "diverged"}
        /\ UNCHANGED time /\ count'.time = count.time
    BY <1>10, <1>t DEF Product, AfterVector, Counts
  <2> QED
    BY <2>2, <2>3 DEF FrameInv
<1>11. CASE NewtonConverges
  BY <1>11 DEF NewtonConverges, callbacks, FrameInv
<1>12. CASE NewtonContinues
  <2>1. /\ y' \in Point /\ Evaluate(y', FALSE) /\ y'.time = time.now
        /\ pc = "correct" /\ pc' = "linear" /\ UNCHANGED time
    BY <1>12, <1>r DEF NewtonContinues
  <2>2. count'.time = count.time
    BY <1>12, <1>t DEF NewtonContinues, Counts
  <2>3. /\ noise'.time = time.now /\ frame'.velocity.time = time.now
    BY <2>1, EvaluateBase
  <2>4. time.last = frame'.since
    BY <2>1, EvaluateBase DEF FrameInv
  <2> QED
    BY <2>1, <2>2, <2>3, <2>4 DEF FrameInv
<1>13. CASE NewtonStops
  BY <1>13 DEF NewtonStops, callbacks, FrameInv
<1>14. CASE Retry
  <2>1. count'.time = count.time
    BY <1>14, <1>t DEF Retry, Counts
  <2> QED
    BY <1>14, <2>1 DEF Retry, callbacks, FrameInv
<1>15. CASE NewtonFails
  <2>1. time'.now = time.saved /\ time'.saved = time.saved /\ time'.last = time.last
    BY <1>15, <1>t DEF NewtonFails, Times
  <2> QED
    BY <1>15, <2>1 DEF NewtonFails, callbacks, FrameInv
<1>16. CASE ErrorTestFails
  <2>1. time'.now = time.saved /\ time'.saved = time.saved /\ time'.last = time.last
    BY <1>16, <1>t DEF ErrorTestFails, Times
  <2> QED
    BY <1>16, <2>1 DEF ErrorTestFails, callbacks, FrameInv
<1>17. CASE Accept
  <2>1. time'.now = time.now /\ time'.saved = time.now /\ count'.time = count.time
    BY <1>17, <1>t DEF Accept, Times, Counts
  <2> QED
    BY <1>17, <2>1 DEF Accept, callbacks, FrameInv
<1> QED
  BY <1>0, <1>1, <1>2, <1>3, <1>4, <1>5, <1>6, <1>7, <1>8, <1>9, <1>10, <1>11, <1>12,
     <1>13, <1>14, <1>15, <1>16, <1>17 DEF Next, Solve, NewtonIteration

(* An evaluation with fd_flag 0 moves the reference to a velocity at the   *)
(* end of the last accepted step, or leaves it.                            *)
LEMMA ReferenceMoves ==
  ASSUME TypeOK, FrameInv, NEW p \in Point, Evaluate(p, FALSE),
         frame'.reference # frame.reference
  PROVE  frame'.reference.time = time.saved
<1>1. frame'.reference = frame.velocity /\ time.last # frame.since
  BY EvaluateBase
<1> QED
  BY <1>1 DEF FrameInv, VelocityOfAccepted

(* The velocity of the frame is continued from an accepted step only.      *)
THEOREM FramesFollowAcceptedSteps == Spec => FrameFromAccepted
<1>1. Init => FrameInv
  BY NowhereType DEF Init, FrameInv, VelocityOfAccepted, Solving
<1>2. TypeOK /\ FrameInv /\ [Next]_vars =>
        [frame.reference' # frame.reference => frame.reference'.time = time.saved]_vars
  <2> SUFFICES ASSUME TypeOK, FrameInv, [Next]_vars, frame'.reference # frame.reference
               PROVE  frame'.reference.time = time.saved
    OBVIOUS
  <2>t. /\ y \in Point /\ time.saved \in Nat /\ time.now \in Nat
        /\ count.time + 1 \in Nat /\ count.n \in Nat
    BY DEF TypeOK
  <2>p. /\ At(time.saved, "initial", 0) \in Point
        /\ At(count.time + 1, "trial", 0) \in Point
        /\ At(time.now, "corrected", count.n) \in Point
        /\ At(time.now, "perturbed", count.n) \in Point
    BY <2>t, PointType
  <2>1. \A p \in Point : Evaluate(p, TRUE) => frame'.reference = frame.reference
    BY EvaluatePerturbed
  <2>2. ~ Product
    BY <2>1, <2>p DEF Product
  <2>3. EvaluateInitial \/ EvaluateTrial \/ EvaluateAtIterate \/ NewtonContinues
    BY <2>2 DEF Next, Solve, NewtonIteration, vars, callbacks, NewSolver, NextStep, Predict,
                PrecondSet, SolveLinear, PrecondSolve, NewtonConverges, NewtonStops, Retry,
                NewtonFails, ErrorTestFails, Accept
  <2>4. \E p \in Point : Evaluate(p, FALSE)
    BY <2>3, <2>t, <2>p DEF EvaluateInitial, EvaluateTrial, EvaluateAtIterate, NewtonContinues
  <2> QED
    BY <2>4, ReferenceMoves
<1>3. TypeInv => TypeOK
  BY DEF TypeInv
<1> QED
  BY TypeInit, TypeStep, SourceInit, SourceStep, FrameStep, <1>1, <1>2, <1>3, PTL
  DEF Spec, FrameFromAccepted

-----------------------------------------------------------------------------
(***************************************************************************)
(* A step uses up its limits.  Each action of a step makes one of the five *)
(* numbers of Left smaller and keeps those before it.  The second pass may *)
(* set Newton's iterations back because the preconditioner it waits for is *)
(* not set up: PassInv.                                                    *)
(***************************************************************************)
PassInv == pc \in {"linear", "precondition", "product", "correct", "diverged"} => ~ cp.setup

LEMMA Earlier ==
  ASSUME NEW a, NEW b, NEW c, NEW d, NEW e, NEW f, NEW g, NEW h, NEW i, NEW j,
         \/ a < f
         \/ a = f /\ b < g
         \/ a = f /\ b = g /\ c < h
         \/ a = f /\ b = g /\ c = h /\ d < i
         \/ a = f /\ b = g /\ c = h /\ d = i /\ e < j
  PROVE  Before(<<a, b, c, d, e>>, <<f, g, h, i, j>>)
<1> DEFINE u == <<a, b, c, d, e>>
           v == <<f, g, h, i, j>>
<1>1. /\ u[1] = a /\ u[2] = b /\ u[3] = c /\ u[4] = d /\ u[5] = e
      /\ v[1] = f /\ v[2] = g /\ v[3] = h /\ v[4] = i /\ v[5] = j
  OBVIOUS
<1> HIDE DEF u, v
<1>2. \A n \in 1 .. 4 : n = 1 \/ n = 2 \/ n = 3 \/ n = 4
  OBVIOUS
<1>3. CASE a < f
  <2>1. u[1] < v[1] /\ \A n \in 1 .. 0 : u[n] = v[n]
    BY <1>1, <1>3
  <2> QED BY <2>1 DEF Before, u, v
<1>4. CASE a = f /\ b < g
  <2>1. u[2] < v[2] /\ \A n \in 1 .. 1 : u[n] = v[n]
    BY <1>1, <1>4
  <2> QED BY <2>1 DEF Before, u, v
<1>5. CASE a = f /\ b = g /\ c < h
  <2>1. u[3] < v[3] /\ \A n \in 1 .. 2 : u[n] = v[n]
    BY <1>1, <1>5
  <2> QED BY <2>1 DEF Before, u, v
<1>6. CASE a = f /\ b = g /\ c = h /\ d < i
  <2>1. u[4] < v[4] /\ \A n \in 1 .. 3 : u[n] = v[n]
    BY <1>1, <1>6
  <2> QED BY <2>1 DEF Before, u, v
<1>7. CASE a = f /\ b = g /\ c = h /\ d = i /\ e < j
  <2>1. u[5] < v[5] /\ \A n \in 1 .. 4 : u[n] = v[n]
    BY <1>1, <1>2, <1>7
  <2> QED BY <2>1 DEF Before, u, v
<1> QED BY <1>3, <1>4, <1>5, <1>6, <1>7

LEMMA PassStep == TypeOK /\ PassInv /\ [Next]_vars => PassInv'
<1> SUFFICES ASSUME TypeOK, PassInv, [Next]_vars PROVE PassInv'
  OBVIOUS
<1>c. cp \in Counters
  BY DEF TypeOK, Counters
<1>0. CASE UNCHANGED vars
  BY <1>0 DEF vars, PassInv
<1>1. CASE \/ NewSolver \/ EvaluateInitial \/ EvaluateTrial \/ NextStep \/ Predict \/ Retry
           \/ NewtonConverges \/ NewtonFails \/ ErrorTestFails \/ Accept
  BY <1>1 DEF NewSolver, EvaluateInitial, EvaluateTrial, NextStep, Predict, Retry,
              NewtonConverges, NewtonFails, ErrorTestFails, Accept, PassInv
<1>2. CASE EvaluateAtIterate
  BY <1>2 DEF EvaluateAtIterate, PassInv
<1>3. CASE PrecondSet
  <2>1. ~ cp'.setup
    BY <1>3, <1>c DEF PrecondSet, Counters
  <2> QED BY <2>1 DEF PassInv
<1>4. CASE SolveLinear \/ PrecondSolve \/ Product \/ NewtonContinues \/ NewtonStops
  <2>1. cp'.setup = cp.setup
    BY <1>4, <1>c DEF SolveLinear, PrecondSolve, Product, NewtonContinues, NewtonStops, Counters
  <2>2. pc \in {"linear", "precondition", "product", "correct"}
    BY <1>4 DEF SolveLinear, PrecondSolve, Product, NewtonContinues, NewtonStops
  <2> QED BY <2>1, <2>2 DEF PassInv
<1> QED
  BY <1>0, <1>1, <1>2, <1>3, <1>4 DEF Next, Solve, NewtonIteration

(* The numbers that are left are not negative.                             *)
LEMMA LeftType ==
  ASSUME TypeInv, Stepping
  PROVE  /\ ErrorTests \in Nat /\ Failures \in Nat /\ Passes \in Nat
         /\ Iterations \in Nat /\ Calls \in Nat
<1>1. /\ cp.nef \in 0 .. MaxNef /\ cp.ncf \in 0 .. MaxNcf /\ cp.m \in 0 .. MaxCor
      /\ cp.k \in 0 .. MaxKrylov
      /\ MaxNef \in Nat /\ MaxNcf \in Nat /\ MaxCor \in Nat /\ MaxKrylov \in Nat
  BY StepAssumption DEF TypeInv, TypeOK
<1>2. ErrorTests \in Nat
  BY <1>1 DEF ErrorTests
<1>3. Passes \in Nat
  BY DEF Passes
<1>4. Calls \in Nat
  <2>1. MaxKrylov - cp.k \in Nat
    BY <1>1
  <2> QED BY <1>1, <2>1 DEF Calls
<1> QED BY <1>1, <1>2, <1>3, <1>4 DEF Failures, Iterations

(* Each action of a step, by the number it makes smaller.                  *)
LEMMA LeftShrinks ==
  ASSUME TypeInv, PassInv, Stepping, Stepping', Next
  PROVE  \/ ErrorTests' < ErrorTests
         \/ ErrorTests' = ErrorTests /\ Failures' < Failures
         \/ ErrorTests' = ErrorTests /\ Failures' = Failures /\ Passes' < Passes
         \/ ErrorTests' = ErrorTests /\ Failures' = Failures /\ Passes' = Passes
              /\ Iterations' < Iterations
         \/ ErrorTests' = ErrorTests /\ Failures' = Failures /\ Passes' = Passes
              /\ Iterations' = Iterations /\ Calls' < Calls
<1>c. /\ cp \in Counters /\ deck.precond \in BOOLEAN
      /\ cp.nef \in 0 .. MaxNef /\ cp.ncf \in 0 .. MaxNcf /\ cp.m \in 0 .. MaxCor
      /\ cp.k \in 0 .. MaxKrylov /\ cp.setup \in BOOLEAN /\ cp.jcur \in BOOLEAN
  BY StepAssumption DEF TypeInv, TypeOK, Counters
<1>n. MaxNef \in Nat /\ MaxNcf \in Nat /\ MaxCor \in Nat /\ MaxKrylov \in Nat
  BY StepAssumption
<1> DEFINE Same == ErrorTests' = ErrorTests /\ Failures' = Failures
<1>s. ASSUME cp'.nef = cp.nef, cp'.ncf = cp.ncf, pc # "test", pc' # "test"
      PROVE  Same
  BY <1>s DEF ErrorTests, Failures
<1>1. CASE Predict
  <2>1. cp'.nef = cp.nef /\ cp'.ncf = cp.ncf /\ pc = "predict" /\ pc' = "evaluate"
    BY <1>1, <1>c DEF Predict, Counters
  <2>2. Same
    BY <1>s, <2>1
  <2>3. Passes = 2 /\ Passes' \in {0, 1}
    BY <2>1 DEF Passes
  <2> QED BY <2>2, <2>3
<1>2. CASE EvaluateAtIterate
  <2>1. cp' = cp /\ deck' = deck /\ pc = "evaluate" /\ pc' \in {"setup", "linear"}
    BY <1>2 DEF EvaluateAtIterate
  <2>2. Same /\ Passes' = Passes /\ Iterations' = Iterations
    BY <1>s, <2>1 DEF Passes, Iterations
  <2>3. Calls = 2 * MaxKrylov + 6 /\ Calls' < 2 * MaxKrylov + 6
    BY <1>n, <2>1 DEF Calls
  <2> QED BY <2>2, <2>3
<1>3. CASE PrecondSet
  <2>1. /\ cp'.nef = cp.nef /\ cp'.ncf = cp.ncf /\ cp'.m = cp.m /\ cp'.jcur = TRUE
        /\ pc = "setup" /\ pc' = "linear" /\ deck' = deck
    BY <1>3, <1>c DEF PrecondSet, Counters
  <2>2. Same /\ Iterations' = Iterations
    BY <1>s, <2>1 DEF Iterations
  <2>3. Passes' = 0 /\ Passes \in {0, 1}
    BY <2>1 DEF Passes
  <2>4. Calls' < Calls
    BY <1>n, <2>1 DEF Calls
  <2> QED BY <2>2, <2>3, <2>4
<1>4. CASE SolveLinear
  <2>1. /\ cp'.nef = cp.nef /\ cp'.ncf = cp.ncf /\ cp'.m = cp.m /\ cp'.jcur = cp.jcur
        /\ cp'.setup = cp.setup /\ cp'.k = 0
        /\ pc = "linear" /\ pc' \in {"correct", "precondition", "product"} /\ deck' = deck
    BY <1>4, <1>c DEF SolveLinear, Counters
  <2>2. Same /\ Passes' = Passes /\ Iterations' = Iterations
    BY <1>s, <2>1 DEF Passes, Iterations
  <2>3. Calls' < Calls
    BY <1>n, <2>1 DEF Calls
  <2> QED BY <2>2, <2>3
<1>5. CASE PrecondSolve
  <2>1. cp' = cp /\ deck' = deck /\ pc = "precondition" /\ pc' \in {"correct", "product", "diverged"}
    BY <1>5 DEF PrecondSolve, AfterVector
  <2>2. Same /\ Passes' = Passes /\ Iterations' = Iterations
    BY <1>s, <2>1 DEF Passes, Iterations
  <2>3. Calls' < Calls
    BY <1>c, <1>n, <2>1 DEF Calls
  <2> QED BY <2>2, <2>3
<1>6. CASE Product
  <2>1. /\ cp'.nef = cp.nef /\ cp'.ncf = cp.ncf /\ cp'.m = cp.m /\ cp'.jcur = cp.jcur
        /\ cp'.setup = cp.setup /\ cp'.k = cp.k + 1
        /\ pc = "product" /\ deck' = deck
    BY <1>6, <1>c DEF Product, Counters
  <2>2. pc' \in {"correct", "precondition", "product", "diverged"}
    BY <1>6 DEF Product, AfterVector
  <2>3. Same /\ Passes' = Passes /\ Iterations' = Iterations
    BY <1>s, <2>1, <2>2 DEF Passes, Iterations
  <2>4. cp.k < MaxKrylov
    BY <2>1 DEF TypeInv, CountInv
  <2>5. Calls' < Calls
    BY <1>c, <1>n, <2>1, <2>2, <2>4 DEF Calls
  <2> QED BY <2>3, <2>5
<1>7. CASE NewtonConverges
  <2>1. cp'.nef = cp.nef /\ pc = "correct" /\ pc' = "test"
    BY <1>7, <1>c DEF NewtonConverges, Converged, Counters
  <2>2. ErrorTests' < ErrorTests
    BY <1>c, <1>n, <2>1 DEF ErrorTests
  <2> QED BY <2>2
<1>8. CASE NewtonContinues \/ NewtonStops
  <2>1. /\ cp'.nef = cp.nef /\ cp'.ncf = cp.ncf /\ cp'.m = cp.m + 1 /\ cp'.jcur = cp.jcur
        /\ cp'.setup = cp.setup /\ pc = "correct" /\ pc' \in {"linear", "diverged"}
        /\ deck' = deck
    BY <1>8, <1>c DEF NewtonContinues, NewtonStops, Counters
  <2>2. Same /\ Passes' = Passes
    BY <1>s, <2>1 DEF Passes
  <2>3. Iterations' < Iterations
    BY <1>c, <1>n, <2>1 DEF Iterations
  <2> QED BY <2>2, <2>3
<1>9. CASE Retry
  <2>1. /\ cp'.nef = cp.nef /\ cp'.ncf = cp.ncf /\ cp'.setup = TRUE
        /\ pc = "diverged" /\ pc' = "evaluate" /\ deck' = deck
        /\ deck.precond /\ ~ cp.jcur
    BY <1>9, <1>c DEF Retry, SecondPass, Counters
  <2>2. Same
    BY <1>s, <2>1
  <2>3. Passes = 1 /\ Passes' = 0
    BY <2>1 DEF Passes, PassInv
  <2> QED BY <2>2, <2>3
<1>10. CASE NewtonFails
  <2>1. cp'.nef = cp.nef /\ cp'.ncf = cp.ncf + 1 /\ pc = "diverged" /\ pc' \in {"predict", "failed"}
    BY <1>10, <1>c DEF NewtonFails, Counters
  <2>2. ErrorTests' = ErrorTests /\ Failures' < Failures
    BY <1>c, <1>n, <2>1 DEF ErrorTests, Failures
  <2> QED BY <2>2
<1>11. CASE ErrorTestFails
  <2>1. cp'.nef = cp.nef + 1 /\ pc = "test" /\ pc' \in {"predict", "failed"}
    BY <1>11, <1>c DEF ErrorTestFails, Counters
  <2>2. ErrorTests' < ErrorTests
    BY <1>c, <1>n, <2>1 DEF ErrorTests
  <2> QED BY <2>2
<1>12. CASE NewSolver \/ EvaluateInitial \/ EvaluateTrial \/ NextStep \/ Accept
  BY <1>12 DEF NewSolver, EvaluateInitial, EvaluateTrial, NextStep, Accept, Stepping
<1> QED
  BY <1>1, <1>2, <1>3, <1>4, <1>5, <1>6, <1>7, <1>8, <1>9, <1>10, <1>11, <1>12
  DEF Next, Solve, NewtonIteration

(***************************************************************************)
(* Whatever the norms and the tests of convergence are, a step of CPODES   *)
(* ends: each of its actions makes what is left of maxnef, maxncf, the     *)
(* passes, maxcor and the Krylov space smaller, in this order.             *)
(***************************************************************************)
THEOREM StepsUseUpLimits == Spec => StepShrinks
<1>1. Init => PassInv
  BY DEF Init, PassInv
<1>2. TypeInv /\ PassInv /\ [Next]_vars
        => [Stepping /\ Stepping' => /\ Left \in Nat \X Nat \X Nat \X Nat \X Nat
                                     /\ Before(Left', Left)]_vars
  <2> SUFFICES ASSUME TypeInv, PassInv, Next, Stepping, Stepping'
               PROVE  Left \in Nat \X Nat \X Nat \X Nat \X Nat /\ Before(Left', Left)
    OBVIOUS
  <2>1. Left \in Nat \X Nat \X Nat \X Nat \X Nat
    BY LeftType DEF Left
  <2>2. Before(Left', Left)
    BY LeftShrinks, Earlier DEF Left
  <2> QED BY <2>1, <2>2
<1>3. TypeInv => TypeOK
  BY DEF TypeInv
<1> QED
  BY TypeInit, TypeStep, PassStep, <1>1, <1>2, <1>3, PTL DEF Spec, StepShrinks
==============================================================================
