----------------------------- MODULE ImplicitStep -----------------------------
(***************************************************************************)
(* One implicit step: CPODES, as AMPE changed it, with the callbacks of    *)
(* QuatIntegrator.  The fields a callback computes stay in the hierarchy   *)
(* for the callbacks that follow, which compute some of them anew and use  *)
(* others as they are.                                                     *)
(*                                                                         *)
(* A field's value is where it was computed: a Point names a solution      *)
(* vector and the time that goes with it.  Times are numbered in the order *)
(* in which CPODES comes up with them, so that each attempt at a step has  *)
(* one of its own; vectors are numbered in an attempt.  Norms and tests of *)
(* convergence are free choices.                                           *)
(***************************************************************************)
EXTENDS Integers

CONSTANTS
  Decks,            \* the input decks: [lag, precond], that is
                    \* lag_quat_sidegrad and use_preconditioner
  MaxCor,           \* maxcor: Newton iterations
  MaxNcf,           \* maxncf: failures to converge
  MaxNef,           \* maxnef: failures of the error test
  MaxPrecondSteps,  \* steps a preconditioner is used for
  MaxKrylov,        \* dimension of the Krylov space
  MaxTrials,        \* bound: evaluations to find the first step size
  MaxSteps,         \* bound: steps
  MaxSolvers        \* bound: times the solver is made anew

ASSUME StepAssumption ==
  /\ Decks \subseteq [lag : BOOLEAN, precond : BOOLEAN]
  /\ MaxCor \in Nat \ {0} /\ MaxNcf \in Nat \ {0} /\ MaxNef \in Nat \ {0}
  /\ MaxPrecondSteps \in Nat \ {0} /\ MaxKrylov \in Nat \ {0}
  /\ MaxTrials \in Nat /\ MaxSteps \in Nat /\ MaxSolvers \in Nat

VARIABLES
  pc,       \* what CPODES does next
  deck,     \* the deck of the run
  cp,       \* counters and flags of CPODES
  time,     \* saved: time of the history zn; now: tn; last: d_actual_t_f
  y,        \* the present iterate
  rhs,      \* ftemp: the right-hand side last evaluated with fd_flag 0
  jv,       \* the one last evaluated with fd_flag 1, in this linear solve
  field,    \* where the fields of the hierarchy were computed
  op,       \* what the operators of the preconditioner were made from
  noise,    \* d_noise_id, and old_time of evaluatePhaseRHS
  frame,    \* the static variables of computeFrameVelocity
  count     \* the bounded counters, and those that number times and vectors

vars == <<pc, deck, cp, time, y, rhs, jv, field, op, noise, frame, count>>

callbacks == <<field, noise, frame>>

(* The vectors a callback is given.                                        *)
Point == [time : Nat, kind : {"none", "initial", "trial", "predicted", "corrected", "perturbed"},
          n : Nat]

At(t, kind, n) == [time |-> t, kind |-> kind, n |-> n]

Nowhere == At(0, "none", 0)

-----------------------------------------------------------------------------
(* evaluateRHSFunction.                                                    *)

(* coefficients: all that setCoefficients computes in any case; gradient:  *)
(* quat_grad_side_copy and the modulus; diffusion: of the concentration.   *)
Field == {"temperature", "coefficients", "gradient", "diffusion"}

\* fd_flag is not looked at.
MutantRecomputes(fd) == ~ deck.lag

Recomputes(fd) == ~ fd \/ ~ deck.lag

FieldsAt(p, fd) ==
  [f \in Field |-> IF f \in {"gradient", "diffusion"} /\ ~ Recomputes(fd) THEN field[f] ELSE p]

\* The noise is drawn for every evaluation.
MutantNewTime(p, fd) == TRUE

NewTime(p, fd) == p.time # noise.time /\ ~ fd

\* The reference follows every new time, that of a second attempt too.
MutantNewReference(p, fd) == NewTime(p, fd)

NewReference(p, fd) == NewTime(p, fd) /\ time.last # frame.since

(* The noise, and the velocity of the frame, which is found by comparing   *)
(* the solid fraction with that at the reference.                          *)
NoiseAt(p, fd) ==
  [drawn |-> IF NewTime(p, fd) THEN p ELSE noise.drawn, time |-> p.time]

FrameAt(p, fd) ==
  [velocity |-> p,
   reference |-> IF NewReference(p, fd) THEN frame.velocity ELSE frame.reference,
   since |-> IF NewReference(p, fd) THEN time.last ELSE frame.since]

(* A right-hand side: the vector it is for, and what it was computed from. *)
Result(p, fd) ==
  [at |-> p, used |-> FieldsAt(p, fd), drawn |-> NoiseAt(p, fd).drawn,
   reference |-> FrameAt(p, fd).reference]

Evaluate(p, fd) ==
  /\ field' = FieldsAt(p, fd)
  /\ noise' = NoiseAt(p, fd)
  /\ frame' = FrameAt(p, fd)
  /\ IF fd THEN jv' = Result(p, fd) /\ UNCHANGED rhs ELSE rhs' = Result(p, fd) /\ UNCHANGED jv

\* The face coefficients go to those of the operator.
MutantOperatorAfter(p) == [op EXCEPT !.quat = {p}]

(* evaluateRHS of the quaternion operator computes face coefficients into  *)
(* scratch data, not into those of the operator.                           *)
OperatorAfter(p) == op

-----------------------------------------------------------------------------
(* CPODES between two solves.                                              *)

FreshSolver ==
  [nst |-> 0, nstlset |-> 0, ncf |-> 0, nef |-> 0, m |-> 0, k |-> 0,
   jcur |-> FALSE, setup |-> FALSE]

NoResult ==
  [at |-> Nowhere, used |-> [f \in Field |-> Nowhere], drawn |-> Nowhere, reference |-> Nowhere]

(* A new run begins at time 0, a restarted one at a later time; the static *)
(* variables are set in the first call.                                    *)
Init ==
  /\ pc = "idle" /\ deck \in Decks
  /\ cp = FreshSolver
  /\ \E t \in {0, 1} : /\ time = [saved |-> t, now |-> t, last |-> 0]
                       /\ frame = [velocity |-> Nowhere, reference |-> Nowhere, since |-> t]
                       /\ count = [time |-> t, n |-> 0, trials |-> 0, steps |-> 0, solvers |-> 0]
  /\ y = Nowhere /\ rhs = NoResult /\ jv = NoResult
  /\ field = [f \in Field |-> Nowhere]
  /\ op = [at |-> Nowhere, quat |-> {}, phase |-> {}, conc |-> {}]
  /\ noise = [drawn |-> Nowhere, time |-> -1]

(* resetIntegrator: the actual final time of a new solver is 0.            *)
NewSolver ==
  /\ pc = "idle" /\ count.solvers < MaxSolvers
  /\ cp' = FreshSolver
  /\ time' = [time EXCEPT !.last = 0]
  /\ count' = [count EXCEPT !.solvers = @ + 1]
  /\ UNCHANGED <<pc, deck, y, rhs, jv, callbacks, op>>

(* CPode at nst = 0: the derivative at the start, and, if no initial step  *)
(* size was given, trial evaluations to find one.                          *)
EvaluateInitial ==
  /\ pc = "idle" /\ cp.nst = 0 /\ count.steps < MaxSteps
  /\ pc' = IF time.saved = 0 THEN "trial" ELSE "predict"
  /\ y' = At(time.saved, "initial", 0)
  /\ Evaluate(y', FALSE)
  /\ op' = OperatorAfter(y')
  /\ UNCHANGED <<deck, cp, time, count>>

EvaluateTrial ==
  /\ pc = "trial" /\ count.trials < MaxTrials
  /\ y' = At(count.time + 1, "trial", 0)
  /\ Evaluate(y', FALSE)
  /\ op' = OperatorAfter(y')
  /\ count' = [count EXCEPT !.time = @ + 1, !.trials = @ + 1]
  /\ UNCHANGED <<pc, deck, cp, time>>

(* CPode at the next steps.                                                *)
NextStep ==
  /\ \/ pc = "idle" /\ cp.nst > 0 /\ count.steps < MaxSteps
     \/ pc = "trial"
  /\ pc' = "predict"
  /\ UNCHANGED <<deck, cp, time, y, rhs, jv, callbacks, op, count>>

-----------------------------------------------------------------------------
(* cpStep and cpNlsNewtonExpl.                                             *)

(* The prediction.  The preconditioner is set up after a failure, in the   *)
(* first step, when it is old, and when gamma has changed much.            *)
Predict ==
  /\ pc = "predict" /\ pc' = "evaluate"
  /\ time' = [time EXCEPT !.now = count.time + 1]
  /\ y' = At(count.time + 1, "predicted", 0)
  /\ \E changed \in BOOLEAN :
       cp' = [cp EXCEPT !.m = 0,
                        !.setup = deck.precond /\ \/ cp.ncf > 0 \/ cp.nef > 0 \/ cp.nst = 0
                                                  \/ cp.nst >= cp.nstlset + MaxPrecondSteps
                                                  \/ changed]
  /\ count' = [count EXCEPT !.time = @ + 1, !.n = 1]
  /\ UNCHANGED <<deck, rhs, jv, callbacks, op>>

EvaluateAtIterate ==
  /\ pc = "evaluate" /\ pc' = IF cp.setup THEN "setup" ELSE "linear"
  /\ Evaluate(y, FALSE)
  /\ op' = OperatorAfter(y)
  /\ UNCHANGED <<deck, cp, time, y, count>>

(* cpSpgmrSetup and CPSpgmrPrecondSet: the coefficients are computed at    *)
(* the prediction, except the diffusion of the concentration, and copied.  *)
PrecondSet ==
  /\ pc = "setup" /\ pc' = "linear"
  /\ field' = [field EXCEPT !["coefficients"] = y, !["gradient"] = y]
  /\ op' = [at |-> y, quat |-> {field'["coefficients"], field'["gradient"]},
            phase |-> {field'["coefficients"], field'["temperature"]},
            conc |-> {field'["diffusion"]}]
  /\ cp' = [cp EXCEPT !.setup = FALSE, !.jcur = TRUE, !.nstlset = cp.nst]
  /\ UNCHANGED <<deck, time, y, rhs, jv, noise, frame, count>>

-----------------------------------------------------------------------------
(* cpSpgmrSolve and SpgmrSolve.                                            *)

(* A small right-hand side is its own solution.                            *)
SolveLinear ==
  /\ pc = "linear"
  /\ pc' \in {"correct", IF deck.precond THEN "precondition" ELSE "product"}
  /\ cp' = [cp EXCEPT !.k = 0] /\ jv' = NoResult
  /\ UNCHANGED <<deck, time, y, rhs, callbacks, op, count>>

(* What follows when the Krylov space has k vectors: the residual is small *)
(* enough, or there is room for a vector, or the solve has failed; the QR  *)
(* factorization can fail at any vector.                                   *)
AfterVector(k) ==
  {"correct", "diverged"} \cup IF k < MaxKrylov THEN {"product"} ELSE {}

(* CPSpgmrPrecondSolve; a block solve that does not converge is a failure. *)
PrecondSolve ==
  /\ pc = "precondition"
  /\ pc' \in AfterVector(cp.k)
  /\ UNCHANGED <<deck, cp, time, y, rhs, jv, callbacks, op, count>>

(* cpSpilsDQjtvExpl: the right-hand side at y + sigma v, with fd_flag 1.   *)
Product ==
  /\ pc = "product"
  /\ LET p == At(time.now, "perturbed", count.n)
     IN  Evaluate(p, TRUE) /\ op' = OperatorAfter(p)
  /\ cp' = [cp EXCEPT !.k = @ + 1]
  /\ pc' \in IF deck.precond THEN {"precondition"} ELSE AfterVector(cp.k + 1)
  /\ count' = [count EXCEPT !.n = @ + 1]
  /\ UNCHANGED <<deck, time, y>>

-----------------------------------------------------------------------------
(* cpNewtonIterationExpl, after a linear solve.                            *)

\* jcur is left TRUE.
MutantConverged == [cp EXCEPT !.ncf = 0]

Converged == [cp EXCEPT !.jcur = FALSE, !.ncf = 0]

NewtonConverges ==
  /\ pc = "correct" /\ pc' = "test"
  /\ cp' = Converged
  /\ UNCHANGED <<deck, time, y, rhs, jv, callbacks, op, count>>

NewtonContinues ==
  /\ pc = "correct" /\ cp.m + 1 < MaxCor
  /\ y' = At(time.now, "corrected", count.n)
  /\ Evaluate(y', FALSE)
  /\ op' = OperatorAfter(y')
  /\ cp' = [cp EXCEPT !.m = @ + 1]
  /\ pc' = "linear"
  /\ count' = [count EXCEPT !.n = @ + 1]
  /\ UNCHANGED <<deck, time>>

NewtonStops ==
  /\ pc = "correct"
  /\ cp.m >= 1 \/ cp.m + 1 = MaxCor
  /\ pc' = "diverged"
  /\ cp' = [cp EXCEPT !.m = @ + 1]
  /\ UNCHANGED <<deck, time, y, rhs, jv, callbacks, op, count>>

\* The loop goes on whether or not the preconditioner is new.
MutantSecondPass == deck.precond

SecondPass == deck.precond /\ ~ cp.jcur

(* A failure with an old preconditioner: once more from the prediction.    *)
(* The vectors that follow have numbers the first pass cannot come to.     *)
Retry ==
  /\ pc = "diverged" /\ SecondPass /\ pc' = "evaluate"
  /\ y' = At(time.now, "predicted", 0)
  /\ cp' = [cp EXCEPT !.setup = TRUE, !.m = 0]
  /\ count' = [count EXCEPT !.n = MaxCor * (MaxKrylov + 1) + 1]
  /\ UNCHANGED <<deck, time, rhs, jv, callbacks, op>>

\* The number of failures is compared after the step was given up.
MutantLast(n, max) == n > max

Last(n, max) == n = max

(* cpNls: zn is restored, and the step tried with a smaller step size, or  *)
(* given up, also because the step size is the least one.                  *)
NewtonFails ==
  /\ pc = "diverged" /\ ~ SecondPass
  /\ time' = [time EXCEPT !.now = time.saved]
  /\ cp' = [cp EXCEPT !.ncf = @ + 1]
  /\ pc' \in IF Last(cp.ncf + 1, MaxNcf) THEN {"failed"} ELSE {"predict", "failed"}
  /\ UNCHANGED <<deck, y, rhs, jv, callbacks, op, count>>

-----------------------------------------------------------------------------
(* cpStep after the nonlinear solve; the projection cannot fail.           *)

ErrorTestFails ==
  /\ pc = "test"
  /\ time' = [time EXCEPT !.now = time.saved]
  /\ cp' = [cp EXCEPT !.nef = @ + 1]
  /\ pc' \in IF Last(cp.nef + 1, MaxNef) THEN {"failed"} ELSE {"predict", "failed"}
  /\ UNCHANGED <<deck, y, rhs, jv, callbacks, op, count>>

Accept ==
  /\ pc = "test" /\ pc' = "idle"
  /\ time' = [time EXCEPT !.saved = time.now, !.last = time.now]
  /\ cp' = [cp EXCEPT !.nst = @ + 1, !.nef = 0]
  /\ count' = [count EXCEPT !.steps = @ + 1]
  /\ UNCHANGED <<deck, y, rhs, jv, callbacks, op>>

NewtonIteration == NewtonConverges \/ NewtonContinues \/ NewtonStops

Solve ==
  \/ EvaluateInitial \/ EvaluateTrial \/ NextStep
  \/ Predict \/ EvaluateAtIterate \/ PrecondSet
  \/ SolveLinear \/ PrecondSolve \/ Product
  \/ NewtonIteration \/ Retry \/ NewtonFails
  \/ ErrorTestFails \/ Accept

Next == NewSolver \/ Solve

Spec == Init /\ [][Next]_vars /\ WF_vars(Solve)
-----------------------------------------------------------------------------
(* Properties. *)

RightHandSide == [at : Point, used : [Field -> Point], drawn : Point, reference : Point]

(* Every variable has its type: no counter passes its limit.  (CPodeMem,   *)
(* the data of QuatIntegrator and the static variables)                    *)
TypeOK ==
  /\ pc \in {"idle", "trial", "predict", "evaluate", "setup", "linear", "precondition",
             "product", "correct", "diverged", "test", "failed"}
  /\ deck \in Decks
  /\ cp \in [nst : Nat, nstlset : Nat, ncf : 0 .. MaxNcf, nef : 0 .. MaxNef, m : 0 .. MaxCor,
             k : 0 .. MaxKrylov, jcur : BOOLEAN, setup : BOOLEAN]
  /\ time \in [saved : Nat, now : Nat, last : Nat]
  /\ y \in Point
  /\ rhs \in RightHandSide /\ jv \in RightHandSide
  /\ field \in [Field -> Point]
  /\ op \in [at : Point, quat : SUBSET Point, phase : SUBSET Point, conc : SUBSET Point]
  /\ noise \in [drawn : Point, time : Nat \cup {-1}]
  /\ frame \in [velocity : Point, reference : Point, since : Nat]
  /\ count \in [time : Nat, n : Nat, trials : Nat, steps : Nat, solvers : Nat]

InSolve == pc \in {"linear", "precondition", "product", "correct"}

(* The right-hand side Newton works with is that of its iterate: nothing   *)
(* in it was left by a difference quotient, a preconditioner or an attempt *)
(* that came before, and the noise is that of the attempt.                 *)
(* (evaluateRHSFunction with fd_flag 0)                                    *)
RightHandSideIsCurrent ==
  /\ \A f \in Field : rhs.used[f] = rhs.at
  /\ rhs.drawn.time = rhs.at.time
  /\ InSolve => rhs.at = y

(* The two right-hand sides of a difference quotient differ by the         *)
(* perturbation: a field is that of the one vector or that of the other,   *)
(* and the noise and the reference of the frame are the same.              *)
(* (evaluateRHSFunction with fd_flag 1, called by cpSpilsDQjtvExpl)        *)
DifferenceHasOneBase ==
  pc \in {"precondition", "product", "correct"} /\ cp.k > 0 =>
    /\ \A f \in Field : jv.used[f] \in {jv.at, rhs.at}
    /\ jv.drawn = rhs.drawn /\ jv.reference = rhs.reference

(* In a linear solve the preconditioner is one and the same, and belongs   *)
(* to one vector: the evaluations in between, which write the data it was  *)
(* made from, do not change it.  (setOperatorCoefficients, which copies)   *)
OneLinearization ==
  InSolve /\ deck.precond =>
    op.at.kind = "predicted" /\ {op.quat, op.phase, op.conc} = {{op.at}}

(* The velocity of the frame is continued from a step that was accepted,   *)
(* never from an attempt that was not.  (computeFrameVelocity)             *)
FrameFromAccepted ==
  [][frame.reference' # frame.reference => frame.reference'.time = time.saved]_vars

(* A step is made smaller, or given up, because Newton does not converge   *)
(* only when it has failed with a preconditioner made for this attempt.    *)
(* (the two passes of cpNlsNewtonExpl)                                     *)
FailsWithNewPreconditioner ==
  [][pc = "diverged" /\ pc' \in {"predict", "failed"} /\ deck.precond
       => op.at.time = time.now]_vars

(* A step is accepted or given up in the end: ncf counts again from 0      *)
(* after every error test that fails.  (cpStep)                            *)
StepEnds == pc = "predict" ~> pc \in {"idle", "failed"}

Stepping == pc \notin {"idle", "trial", "failed"}

(* What is left of the linear solve, in calls.                             *)
Calls ==
  CASE pc = "evaluate"     -> 2 * MaxKrylov + 6
    [] pc = "setup"        -> 2 * MaxKrylov + 5
    [] pc = "linear"       -> 2 * MaxKrylov + 4
    [] pc = "precondition" -> 2 * (MaxKrylov - cp.k) + 3
    [] pc = "product"      -> 2 * (MaxKrylov - cp.k) + 2
    [] pc = "correct"      -> 1
    [] OTHER               -> 0

(* Error tests, failures to converge, passes from the prediction, Newton   *)
(* iterations and calls that a step can still take.                        *)
ErrorTests == 2 * (MaxNef - cp.nef) + (IF pc = "test" THEN 0 ELSE 1)

Failures == MaxNcf - cp.ncf

Passes ==
  IF pc = "predict" THEN 2 ELSE IF deck.precond /\ ~ cp.jcur /\ ~ cp.setup THEN 1 ELSE 0

Iterations == MaxCor - cp.m

Left == <<ErrorTests, Failures, Passes, Iterations, Calls>>

Before(a, b) == \E i \in 1 .. 5 : a[i] < b[i] /\ \A j \in 1 .. i - 1 : a[j] = b[j]

(* Whatever the norms are, the nested loops of a step use up their limits: *)
(* no reset of a counter lets a step go on for ever.  (maxnef, maxncf, the *)
(* two passes, maxcor and the Krylov space)                                *)
StepShrinks ==
  [][Stepping /\ Stepping' =>
       Left \in Nat \X Nat \X Nat \X Nat \X Nat /\ Before(Left', Left)]_vars

==============================================================================
