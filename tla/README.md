# AMPE: a verification project

TLA+ models of AMPE (Adaptive Mesh Phase-field Evolution, `src/source`), TLC runs
that check them on small instances, and TLAPS proofs of what holds for every
instance.

- [The system](#the-system)
- [The modules](#the-modules)
- [Grain numbering](#grain-numbering), [Grain extension](#grain-extension),
  [Event intervals and the run loop](#event-intervals-and-the-run-loop),
  [The life of the solver](#the-life-of-the-solver), [The implicit step](#the-implicit-step)
- [The runs](#the-runs)
- [The proofs](#the-proofs)
- [Where the code and its documentation disagree](#where-the-code-and-its-documentation-disagree)
- [What is not modelled](#what-is-not-modelled)
- [Plan](#plan)

## The system

AMPE evolves phase, orientation (quaternions), concentration and temperature on
an adaptively refined mesh that is distributed over MPI ranks. `main.C` and
`AMPE.C` create a `QuatModel` (a `PFModel`) and call `Initialize` and `Run`.

    main -> AMPE -> QuatModel : PFModel
                      |  Run: the time loop ------ EventInterval (9 of them)
                      |  Advance ----------------- QuatIntegrator -> CPODESSolver -> CPODES
                      |     resetGrains                  |  evaluateRHSFunction
                      |        |                         |  preconditioner: *SysSolver
                      |  computeGrainDiagnostics         |     -> FACPreconditioner -> *FACOps
                      |        |                         |  CALPHAD / KKS -> NewtonSolver
                      |      Grains (numbering, extension)
                      |  Regrid, writeRestartFile
                    SAMRAI: patch hierarchy, fills, coarsening, restart files

All ranks run the same program. They meet only in SAMRAI's ghost fills and
fine-to-coarse transfers and in MPI collectives. Nothing is multi-threaded.

| Component | State | Operations | Hard behaviour | What makes it correct |
|---|---|---|---|---|
| Grain numbering (`Grains.C`, `MinIntCoarsen.C`) | a label per cell of each level, the number of grains | `findAndNumberGrains`, `computeGrainVolumes` | a flood over patches, levels and ranks, each at its own pace; collectives; a coarse copy of fine labels | labels never leave a connected region; touching cells agree; numbers are dense; every rank returns |
| Grain extension (`Grains.C`) | a flag and an orientation per cell | `extendGrainOrientation` | the same exchanges; a layer per iteration; a per-rank stopping test | orientations come from grains, from the nearest one, and reach every covered cell |
| Event intervals (`EventInterval.C`) | previous time, time of the last event | `includeInitial`, `hasIntervalPassed`, `includeFinal` | long steps, first step after a restart, an event already recorded at this time | no event is missed or doubled |
| Run loop and restart (`PFModel.C`, `QuatModel.C`) | cycle, time, limits, grain counts, files on disk | `Initialize`, `Run`, `Advance`, `resetGrains`, `writeRestartFile`, `Regrid` | kills and resubmissions between any steps; two decks; two grain counters that lag each other | a kill costs a bounded amount; the deck's limits hold and are used up; merges are acted on |
| Patch hierarchy (SAMRAI, vendored) | levels, patches, owners | fills, coarsening, regridding | ghosts from three places | (external) |
| Model driver and integrator driver (`QuatModel.C`, `QuatIntegrator.C`, `CPODESSolver.C`) | levels and fields, solver object and its vectors, schedules, weights, three clocks | `initializeLevelData`, `resetHierarchyConfiguration`, `Regrid`, `initialize`, `updateSolution`, `Advance` | which copy of a field, of a level and of the time is current after an edit, a regrid or a restart; cold and warm starts | the solver integrates what the model last wrote, on the levels there are |
| Right-hand side and preconditioner callbacks (`QuatIntegrator.C`) | fields shared by all callbacks, copies kept by operators, static variables of the frame | `evaluateRHSFunction`, `setCoefficients`, `computeFrameVelocity`, `CPSpgmrPrecondSet`, `CPSpgmrPrecondSolve` | difference quotients, failed attempts and a lagged preconditioner write the fields the next call uses; an unbounded fixed-point loop | a right-hand side is of one vector; a difference quotient and a preconditioner have one base |
| CPODES (`base/sundials/src/cpodes`, changed by AMPE) | history, counters of failures, age of the preconditioner | `CPode`, `cpStep`, `cpNlsNewtonExpl`, `cpSpgmrSolve` | retries with a new preconditioner, two failure counters that reset each other | a step ends; it fails only with a new preconditioner |
| FAC preconditioner (`FACPreconditioner.C`) | error and residual per level | `solveSystem`, three cycles | stopping test | numerical |
| Newton solvers (`NewtonSolver.C`, `DampedNewtonSolver.C`, `math_utilities.C`) | a static size and work arrays | `ComputeSolution` | solvers of different sizes in turn | a result is within tolerance or reported as a failure |
| Level operators and hypre, quaternion solver | real fields | smoothing, residuals | none in control | numerical |
| Free energies, CALPHAD, KKS, diffusion, mobilities, temperatures | real fields | per-cell formulas | none in control | numerical |
| Boundary helpers, initial fields, plot files, fortran kernels, noise | real fields, files | per-cell formulas, I/O | none in control | numerical |

`PROJECT.json` lists every component with its files, every hazard with its line,
and the lines each definition models.

## The modules

| Module | What it is |
|---|---|
| `PatchHierarchy` | builds small SAMRAI hierarchies from a list of boxes: owners, ghost sources (same level, coarser level, or outside), children, visiting order |
| `DistributedHierarchy` | the same data as constants, with the assumptions the proofs use |
| `GrainNumbering` | `Grains::findAndNumberGrains` |
| `GrainExtension` | `Grains::extendGrainOrientation` |
| `EventInterval` | `EventInterval`: predicates and the state each query leaves |
| `RunLoop` | `PFModel::Run` with the steps of `QuatModel` it calls, kills and resubmissions; uses `EventInterval` |
| `CheckpointedRun` | the abstract specification `RunLoop` implements |
| `SolverLifecycle` | levels, fields, solver, schedules, weights and clocks from `setupHierarchy` to a restart |
| `SharedHistory` | the abstract specification `SolverLifecycle` implements |
| `ImplicitStep` | a step of CPODES with the callbacks of `QuatIntegrator` |
| `MCGrainNumbering`, `MCGrainExtension`, `MCRunLoop`, `MCSolverLifecycle`, `MCImplicitStep` | instances for TLC |
| `SetLemmas`, `GrainNumberingProofs`, `GrainExtensionProofs` | proofs about the grain modules |
| `RunLoopProofs`, `RunLoopPromiseProofs`, `RunLoopTimerProofs` | proofs about the run loop, each extending the one before |
| `SolverLifecycleProofs`, `ImplicitStepProofs` | proofs about the solver |

The three views of a run fit together by their steps. `RunLoop` has the loop, the timers
and the files, and takes what a step does to the solution for granted.
`SolverLifecycle` has the same loop with its timers replaced by free choices, and what
each stage does to the levels and the solver; its `Step` is one accepted step of CPODES.
`ImplicitStep` is what happens in that `Step`. `GrainExtension` is what happens in
`ResetGrains`, and `GrainNumbering` in the diagnostics.

An operator named `Mutant...` is a plausible bug in the definition after it; each
property is known to fail when its mutant takes that definition's place.

## Grain numbering

*State.* `g` is the field `grain_number`, `solid` the cells whose phase reaches the
threshold, `ctl[r]` the place of rank r in the method, `msg[tag][c]` the value of
cell c its owner has packed for an exchange, `changed` the ranks' flags,
`counter`, `grain_list` and `numberOfGrains` the locals and the member of the same
names.

*Steps.* `Init` gives each solid cell its number. A transfer to the coarser level is
`Send` then `Coarsen` (which waits for the fine cells it needs); a ghost fill is
`Fill`, and the sweep waits for it (`HaloReady`). A sweep changes the field in place,
so it is a step per cell (`SweepCell`) in the order SAMRAI's iterators give. Inside
a patch a neighbour's newest value is read, across patches the packed one.
`AllReduce` and `Gather` are collectives and happen when all ranks have arrived.
`Renumber` and the last transfers follow. The four neighbour tests are kept as in
the code: each compares with the cell's value at the start, so the last smaller
neighbour wins, not the smallest. Two collectives are simplified: `sumReduction` and
`allGatherv`, between which nothing happens, are the one step `Gather`, and the all-reduce of
`count_cells` (`Grains.C:415`), whose sum is only printed, is left out, so that ranks
meet less often in the model than in the code: it has all orders of the code, and more.

*Data.* Labels are the code's own numbers, computed by `CellNumber` from
`level_offset` and `level_stride` exactly as the code does, collisions between
levels included. `int` overflow is not modelled (the instances are far below it).
The weight of a cell, zero where a finer level covers it, is `Covered`.

*Properties.* `LabelOrigin` is the main one: for every set of cells that no label
flows into, the labels in it, and all values in transit from it, began in it. So
grains that no chain of neighbours joins never mix, whatever the ranks' order.
`LabelsOnlyFall`: in the loop no label rises and no cell leaves its grain; a covered cell
gets its label from the cells under it before the loop, and the transfers, which overwrite it with
whatever arrives, never raise it.
`SameGrainSameNumber`: if convergence is reported, touching cells agree, across
patches, ranks and levels. `NumbersDense`: at the end the numbers in use are
0 .. n-1 and covered cells hold the least number under them. `GrainsSeparated`
(one level): grains that do not touch differ. `GrainsCounted` (one level): when
convergence is reported, `numberOfGrains` is the number of grains. `NoRankWaits`: some
rank can always go on, or all are in the same collective. `StepsAdvance`: every step
takes a rank to a later stage of the one order all ranks follow, or all of them to the
next iteration. `Termination`: all ranks return.

## Grain extension

*State.* `flag` and `quat` are `grain_extend` and `grain_quat`, `unset` the ranks'
`one_still_unset`, `nn` the iterations. The orientation of a cell is the *set of cells
it was averaged from*, so a copy stays a copy and a coarse average is a union.
Exchanges are as above. A sweep reads only scratch copies, so it is one step for all
of a rank's patches on a level. `StillUnset` keeps the code's reset of
`one_still_unset` inside the loop over patches: the last patch decides. The ghosts
outside a non-periodic domain are never filled; `Sweep` lets their flag be 0 or 1.

*Properties.* `OrientationFromGrain`: a settled cell, also a covered one and also in
transit, has an orientation made of cells inside grains, on at most two levels, or on three if a
cell of level 1 under the third is above the threshold only with all the cells in it (otherwise its
flag is coarsened to level 0 before the cells in it correct it). `NearestGrain` (one level):
it is that of a nearest grain, taken in the iteration equal to its distance, so the
decomposition does not matter. `CoveredIsAverage`: when the method
returns every covered cell has the average of the orientations under it. In an iteration a level
is transferred to the coarser one before the finer ones are swept, so on three levels the coarsest covered
cells lag; the transfers after the loop (`Grains.C:1098`) have to make up for it.
`NoRankWaits` and `Termination` as above.

## Event intervals and the run loop

*State.* `sim` is the simulation: cycle, time, the number of levels it may have,
the number of grains, the cycle the orientations were last made fundamental.
`limit` is `d_max_cycles` and `d_end_time`; `timer` the state of the intervals;
`files` the restart files on disk; `counted` and `known` are `d_number_of_grains` of
`Grains` and of `QuatModel`; `flag` is `flag_visit_dump`; `pc` the place in `Run`.
`session`, `dumps` and `pending` are history variables for the properties.

*Steps.* One for each stage of `Run`: `Preliminaries`, `Advance` (with `resetGrains`
and `makeQuatFundamental`, including the short circuits that keep a timer from being
asked), `SaveState`, `Diagnose`, `Plot`, `Regrid`, `Conclude`. `Crash` can come
between any two, and `Resubmit` starts again from the beginning or from a file,
with any of the decks. A file of a run with more than one level cannot be resumed from:
`Initialize` asks for every level there can be (`QuatModel.C:972`) and aborts
(`RestartFails`, the subject of `lifecycle_restart`); only files of `Restartable` are. A restart
deck that lowers `max_levels` below that of the file is left out. `Regrid`
is the timer of the regrids only; what one does to the levels is in `SolverLifecycle`. `FreshLimit` and `RestartLimit` rank `max_cycles` and
`max_delta_cycles` as `getFromInput` and `getFromRestart` do. The numbers of grains
and the time steps are arbitrary; nothing of the fields is kept. Orientation is
evolved (`with_orientation`) in this model. `TimestepOutput`, `ScalarDiagnostics` and
`Test` have no effect on the modelled state.

*Properties.* `LossBounded`: what a kill costs. `MergeIsHandled`: a fall in the number of grains,
seen by the diagnostics, is acted on by the next `Advance` although the two counts are
updated apart. `FrameIsKept`: skipping `hasIntervalPassed` loses no due event.
`DeckIsObeyed`: the limits of the deck hold across restarts. `DeckIsExhausted`: a run
that ends below its end time has made all the cycles its deck asks for, so the
limit that comes with a file does not cut a resumed run short. `FinalStateSaved`,
`PlotsOnceAndLast`, `NoPlotMissed`: files and plots at the end and by time.
`ImplementsPromise`: the run implements `CheckpointedRun`, which says what a batch
script relies on: cycles advance by one, a run resumes only from a saved state or
the start, and finishes only at a limit.

## The life of the solver

*State.* `level[ln]` is the stamp of the `PatchLevel` object in the hierarchy, so a
schedule (`sched`, `scratch`) or a weight made for another object shows. `field` holds,
for each level, the *histories* of its values: the sequence of steps and edits they have
been through. `solver` is `d_sundials_solver`: the levels its vectors span, the time and
step size it was given, the time it has reached, and `zn`, the histories in its own
vectors. `clock` has the time of `PFModel` and that of the integrator, `relax` the levels
of the quat-only integrator's vectors, `mapped` the static `first_time` of
`QuatModel::Regrid`, `file` the restart file, `cause` why a run was aborted.

*Steps.* `Build` is a level made by `setupHierarchy`, with the calls SAMRAI then makes
(`initializeLevelData`, `resetHierarchyConfiguration`); `InitializeIntegrator`;
`ResetGrains`, `MakeQuatFundamental` or neither, then `Step`; `WriteRestartFile`; `Regrid`
to any number of levels up to one more than there were, with `resetHierarchyConfiguration`
only if there is a finer level; `Crash`, `Restart`. `BuildFails`, `EditFails`,
`SolveFails`, `RegridFails` and `RestartFails` are the places where the code reaches a
level, a solver or an algorithm that is not there; `Abort` ends the run.

*Properties.* `ContinuesTheSolution`: `SolverLifecycle` implements `SharedHistory`, in
which the whole solution has one history, and each step integrates all of it from what
the last edit, regrid or restart left. It speaks of cold starts only. `SchedulesCurrent`,
`UsesCurrentWeights`: nothing is used that was made for levels that are gone.
`ResumesAtCurrent`: the three clocks agree before a step. `HistoryIsMapped`: no vector
is refined through scratch data registered for another.

*What the model shows beside its properties.* In a warm start `updateSolution` returns at
once, so an edit of the orientations never reaches the solver, and the next step writes
over it. The warm solver's vectors keep the levels they were made on: levels added later
are not integrated (`QuatIntegrator.C:650` against `:1785`). In both, a regrid that
leaves fewer levels than the vectors lie on ends in an abort. With `amr_level_of_data` 1,
level 0 is filled from `d_initial_level`, which is null then (`BuildFails`). A warm
restart needs a solver before there is one, and an adaptive restart fails
(`lifecycle_restart`). `RunLoop` follows the code in this: it resumes only from files of
runs on one level. It knows cold starts only.

## The implicit step

*State.* The value of a field is a `Point`, *where it was computed*: a solution vector and
the time that goes with it. `field` holds the fields all callbacks share, `op` what the
operators of the preconditioner copied, `rhs` and `jv` the last right-hand sides of
Newton and of the linear solve with what went into them, `noise` and `frame` the state of
the noise and the static variables of `computeFrameVelocity`, `cp` the counters and flags
of CPODES, `time` its history's time, the attempt's, and `d_actual_t_f`. Every attempt has
a time of its own (its step size differs), and every vector in it a number.

*Steps.* The evaluations before the first step, `Predict`, `EvaluateAtIterate`,
`PrecondSet`, the linear solve (`SolveLinear`, `Product`, `PrecondSolve`),
`NewtonConverges`, `NewtonContinues`, `NewtonStops`, the second pass with a new
preconditioner (`Retry`), `NewtonFails`, `ErrorTestFails`, `Accept`, and `NewSolver`
between steps. Norms, convergence and the rate that asks for a new preconditioner are free
choices, so every sequence of failures the counters allow is in the model.
`Evaluate` is the whole of `evaluateRHSFunction`: what `fd_flag` and
`lag_quat_sidegrad` leave as it was, when noise is drawn, when the frame's reference moves.

*Properties.* `RightHandSideIsCurrent`, `DifferenceHasOneBase`, `OneLinearization`: a
right-hand side, a difference quotient and a preconditioner are each computed from one vector, time and
noise, although all callbacks write the same fields. `FrameFromAccepted`: the reference
of the frame's velocity follows accepted steps only. `FailsWithNewPreconditioner`: an
attempt fails because of Newton only after it has tried a preconditioner of its own.
`StepShrinks`: each call lowers what is left of the error tests, the failures, the passes,
Newton's iterations and the Krylov space, in this order; the counters that are set back
are set back only when one before them has moved. `StepEnds`: so a step ends.

*Left out.* The loop on the velocity of Aziz's model (no limit, and it recomputes the
phase concentrations but not the mobilities), the cycles of the FAC solver, orders and
step sizes, the block of the preconditioner for d phi / d T (it reads the present z,
`QuatIntegrator.C:4272`), and mobilities that depend on the heat capacity (they use
that of the previous evaluation).

*What the model shows beside its properties.* After a reset the actual final time is 0
until the first step (`CPODESSolver.C:213`), so "the time of the last accepted step" of
`QuatIntegrator.C:2863` and `:5090` is not that then. The velocity that becomes the
reference is that of the last evaluation of the step, often a perturbed one. The static
variables of the frame are not in the restart file. The deck's default
`max_precond_steps` is 1; the second pass exists only with a larger one.

## The runs

| Run | Instance | Checks |
|---|---|---|
| `numbering_flat` | one level of 3 x 2 cells, non-periodic, three patches on two ranks, **all** 64 phases | `TypeOK`, `GrainsSeparated`, `GrainsCounted` |
| `numbering_two_level` | periodic 3 x 2 domain, middle column refined, one fine patch on each rank, eight phases | `LabelOrigin`, `LabelsOnlyFall`, `SameGrainSameNumber`, `NumbersDense`, `NoRankWaits`, `Termination`, `StepsAdvance`, with covered cells and coarse ghosts |
| `numbering_unique` | the same hierarchy, one coarse and one fine cell | violation of `CellsNumberedUniquely` |
| `extension_flat` | one periodic level of 4 x 3 cells, three patches on two ranks, every phase of at most two cells | `TypeOK`, `NearestGrain` |
| `extension_levels` | two columns of a periodic 3 x 2 domain refined, one fine patch on each rank, one fine cell refined again on one rank; eight phases on one level or across levels | `OrientationFromGrain`, `CoveredIsAverage`, `NoRankWaits`, `Termination` |
| `extension_converged` | as `extension_flat` | violation of `ConvergedIsExtended` |
| `runloop_steps` | intervals in steps (1, 2 and 3), three submissions, a fresh deck and a restart deck, one level or two | `TypeOK`, `LossBounded`, `MergeIsHandled`, `FrameIsKept`, `DeckIsObeyed`, `DeckIsExhausted` |
| `runloop_times` | intervals in time (2 and 3), steps of 1 to 3, two submissions | `FinalStateSaved`, `PlotsOnceAndLast`, `NoPlotMissed`, `ImplementsPromise` |
| `runloop_first_file` | a regrid interval that includes the first step | violation of `FirstFileOnRequest` |
| `lifecycle_decks` | cold and warm starts, one to three levels, data on level 0 or 1; steps of 1 and 2 to time 4, two edits, two regrids, two submissions | `TypeOK`, `SchedulesCurrent`, `UsesCurrentWeights`, `ResumesAtCurrent`, `HistoryIsMapped`, `ContinuesTheSolution` |
| `lifecycle_restart` | two levels from a cold start | violation of `RestartedRunStarts` |
| `implicit_step` | all four decks, two steps with every outcome of each part, a solver made anew | `TypeOK`, `RightHandSideIsCurrent`, `DifferenceHasOneBase`, `OneLinearization`, `FrameFromAccepted`, `FailsWithNewPreconditioner`, `StepEnds`, `StepShrinks` |

*Bounds, and why they are enough.* Two ranks with one of them owning two patches that
do not touch give all the kinds of neighbour value: in the patch, in another patch of
the rank, of another rank, of a coarser level, across the periodic boundary, outside.
Two levels exercise every transfer and both directions of the level loops. Three are
needed where an order of *two* transfers matters: in the extension, for what the coarsest level
misses in an iteration (`extension_levels`; its phases let the finest cells be the first or the
last to be reached, and the cell of level 1 over them is above the threshold only with all of them,
see `OrientationFromGrain`). One of its ranks has no patch on the finest level. The phases of `numbering_flat` are
exhaustive. The instances of the run loop let every interval pass several times, and
steps longer than an interval. `MaxSessions` bounds the submissions: with three, a run is resumed from a
file of a resumed run. `Levels` {1, 2} has runs that can be resumed and runs that cannot. `MaxGrains` bounds the number of grains.
`MaxIter` is computed as in the code.

In `SolverLifecycle` three levels (`MaxLevels`) are the least for which a regrid can
rebuild more than one level, and can add or drop one while another stays. `MaxRegrids` and
`MaxEdits` are 2: `id_map` matters at the second regrid, and an edit can come before and
after one. `EndTime` 4 leaves room for up to four steps. In `ImplicitStep`
`MaxCor`, `MaxNcf`, `MaxNef` and `MaxPrecondSteps` are 2: each loop is entered again, each
limit is reached, and the preconditioner can be old; one Krylov vector and one trial
(`MaxKrylov`, `MaxTrials`) are as good as more, since a second product repeats the first.
`MaxSteps` 2 and `MaxSolvers` 1 let a reset come between two steps.
The theorems have no such bounds.

*Fairness.* The grain modules assume weak fairness of each rank's step and of the
collectives: an MPI process that can go on does, and a collective every rank has
entered completes. No strong fairness is needed because an exchange that has become
possible stays possible. `ImplicitStep` assumes weak fairness of `Solve`: CPODES is a
sequential loop that goes on as long as it has something to do; that a new solver is made
is not assumed. No liveness is claimed of the run loop or the solver's life, and their
specifications have no fairness: the job may be killed.

`CHECK_DEADLOCK FALSE` is set where the modelled program really ends.

## The proofs

All theorems are stated for every value of the constants under the named assumptions of
the modules, which TLC evaluates on every instance: `HierarchyAssumption`,
`LeavesAssumption`, `NumberAssumption`, `PhasesAssumption`, `ExtensionAssumption`
(any finite set of cells, any owners, any neighbour map in which a value that is not a
ghost is of the same rank, any children one level up), `SourceAssumption` (a ghost has a
source, and a cell reads cells of its level and the coarser one), `RankAssumption` (there is a rank),
`NeighbourAssumption`, `DistanceAssumption`, `IntervalAssumption`, `RunAssumption` (any intervals, any decks, positive steps, at least one level, fewer
grains than `INT_MAX`), `LifecycleAssumption` and `StepAssumption` (any decks, any bounds).
`NeighbourAssumption` is about the geometry: where an uncovered cell reads another one, that
one reads the first, or reads the covered cell above it. On one level it is the symmetry of
the stencil; across levels it holds because a fine ghost is filled from the coarse cell,
whose own neighbour on that side is the coarse cell under the fine patch.
`DistanceAssumption` says, of one level, that `Distance` counts steps from neighbour to neighbour.

| Theorem | Property | Invariant |
|---|---|---|
| `GrainNumberingProofs!TypeCorrect` | `TypeOK` | inductive by itself; that the numbers gathered are finitely many comes from the finiteness of `Cell` |
| `GrainNumberingProofs!LabelsStayInTheirRegion` | `LabelOrigin` | `OriginInv` |
| `GrainNumberingProofs!LabelsNeverRise` | `LabelsOnlyFall` | `LoopInv` |
| `GrainNumberingProofs!NeighboursAgree` | `SameGrainSameNumber` | `SameInv` |
| `GrainNumberingProofs!NumbersInUse` | `NumbersDense` | `DenseInv` |
| `GrainNumberingProofs!GrainsAreApart` | `GrainsSeparated`, if `OneLevelUnique` | `SeparateInv` |
| `GrainNumberingProofs!GrainsAreCounted` | `GrainsCounted`, if `OneLevelUnique` | `LoopInv`, `SameInv`, `DenseInv`, `SeparateInv` |
| `GrainNumberingProofs!CellsAreNumberedUniquely` | `CellsNumberedUniquely`, if `NumbersDiffer` | `NumberInv` |
| `GrainNumberingProofs!RanksNeverWaitForEver` | `NoRankWaits` | `SentInv` |
| `GrainNumberingProofs!EveryStepAdvances` | `StepsAdvance` | `CountInv` |
| `GrainExtensionProofs!TypeCorrect` | `TypeOK` | inductive by itself |
| `GrainExtensionProofs!OrientationsAreFromGrains` | `OrientationFromGrain`, if `PeriodicTwoLevels` | `OrientationInv` |
| `GrainExtensionProofs!OrientationsAreOfNearestGrains` | `NearestGrain`, if `PeriodicDomain` | `NearInv` |
| `GrainExtensionProofs!RanksNeverWaitForEver` | `NoRankWaits` | `SentInv`, `TogetherInv` |
| `GrainExtensionProofs!EveryStepAdvances` | its own `StepsAdvance` | `TogetherInv` |
| `GrainExtensionProofs!CoveredCellsAreAverages` | `CoveredIsAverage` | `LastInv`, `AverageInv` |
| `GrainExtensionProofs!OnePatchConverges` | `ConvergedIsExtended`, if `OnePatchEach` | `TestedInv` |
| `RunLoopProofs!TypeCorrect` | `TypeOK` | inductive by itself; includes that a file is named after the cycle in it |
| `RunLoopProofs!MergesAreHandled` | `MergeIsHandled` | `MergeInv` |
| `RunLoopPromiseProofs!RunIsCheckpointed` | `ImplementsPromise` | `TypeOK` |
| `RunLoopPromiseProofs!DecksAreObeyed` | `DeckIsObeyed` | `DeckInv` |
| `RunLoopPromiseProofs!DecksAreExhausted` | `DeckIsExhausted` | `DeckInv` |
| `RunLoopTimerProofs!FinalStateIsSaved` | `FinalStateSaved` | `FinalInv` |
| `RunLoopTimerProofs!FramesAreKept` | `FrameIsKept` | `FrameInv` |
| `RunLoopTimerProofs!NoPlotIsMissed` | `NoPlotMissed` | `PlotInv` |
| `RunLoopTimerProofs!PlotsAreInOrder` | `PlotsOnceAndLast` | `DumpInv` |
| `RunLoopTimerProofs!LossIsBounded` | `LossBounded` | `StepsInv`, `TimesInv` |
| `RunLoopTimerProofs!FirstFileIsOfTheRegridBlock` | `FirstFiled`, in the first submission | `FirstInv` |
| `RunLoopTimerProofs!FirstFileIsRequested` | `FirstFileOnRequest`, if the Regrid block asks for no more than the Restart block | `FirstInv` |
| `SolverLifecycleProofs!TypeCorrect` | `TypeOK` | inductive by itself |
| `SolverLifecycleProofs!SchedulesAreCurrent` | `SchedulesCurrent` | `MeshInv` |
| `SolverLifecycleProofs!SolverResumesAtCurrent` | `ResumesAtCurrent` | `ClockInv` |
| `SolverLifecycleProofs!WeightsAreCurrent` | `UsesCurrentWeights` | `ColdInv` |
| `SolverLifecycleProofs!HistoriesAreMapped` | `HistoryIsMapped` | `MappedInv` |
| `SolverLifecycleProofs!TheSolutionIsContinued` | `ContinuesTheSolution` | `ColdInv` |
| `SolverLifecycleProofs!OneLevelRunsRestart` | `RestartedRunStarts` and no abort, if `OneLevelDecks` | `OneLevelInv` |
| `SolverLifecycleProofs!OtherRunsDoNot` | one session only, if `OtherDecks` | `TypeOK` |
| `ImplicitStepProofs!TypeCorrect` | `TypeOK` | `TypeInv`: the counters are below their limits where they may still grow |
| `ImplicitStepProofs!RightHandSidesAreCurrent` | `RightHandSideIsCurrent` | `SourceInv` |
| `ImplicitStepProofs!DifferencesHaveOneBase` | `DifferenceHasOneBase` | `SourceInv` |
| `ImplicitStepProofs!PreconditionerIsOne` | `OneLinearization` | `OperatorInv` |
| `ImplicitStepProofs!FailuresAreWithNewPreconditioner` | `FailsWithNewPreconditioner` | `CurrentInv` |
| `ImplicitStepProofs!FramesFollowAcceptedSteps` | `FrameFromAccepted` | `FrameInv` |
| `ImplicitStepProofs!StepsUseUpLimits` | `StepShrinks` | `TypeInv`, `PassInv` |

### Grain numbering and extension

*`OriginInv`* is `TypeOK` and `LabelOrigin` for **all** sets of cells, not only for
those in `Regions`. The strengthening is needed because a cell takes its label from
neighbours that lie in smaller closed sets; in particular the set of one cell that is
not live is closed and has no origins, which shows that a cell carrying a label is
live. The step that matters is the sweep: a swept cell takes a value seen in a
neighbour (in place or packed), the neighbour is live and in the inflow, so it lies in
every closed set the cell lies in. A transfer is the same with children.

*`LoopInv`*: what was packed in this iteration, what was packed before the first one, and what
a covered cell holds is never below the latest labels under it, so neither an arriving
message nor the coarsening can raise a label. *`FallInv`* adds that the ranks leave the loop together.

*`SameInv`* calls a cell quiet while nothing has changed in the current iteration. In
an iteration that ends without a change each swept cell has seen labels its neighbours
still have (`IterInv`), and a covered cell is not above quiet cells under it; so
two cells of a grain of which one reads the other are equal, each being not above the other.
This is where `NeighbourAssumption` is needed. Afterwards `AgreeInv` keeps neighbours equal
while ranks renumber one by one: equal labels get the same position in the list.

*`DenseInv`*: every label is in the gathered list, and every cell of the list's numbers is
either a label or its position. That the positions are exactly 0 to n - 1 is a bijection
(`CountBelow`: counting the smaller members of a finite set); `DeliverInv` covers the last
transfer, in which covered cells receive numbers of the cells under them.

*`SeparateInv`*: a set of solid cells that no neighbour leaves is closed on one level, so by
`OriginInv` its labels are numbers of its own cells, and those of the other solid cells are
not. A rank that has renumbered has replaced a label of the list by its position, and different
labels have different positions. `OneLevelUnique` is a hypothesis because the code does not give it
on several levels (`numbering_unique`). `SameGrain` says that no isolated set parts two cells,
which is the same as a path and needs no recursion.

*`GrainsCounted`* joins the two: with convergence, the cells of a grain have one number
(`SameInv`, `OneNumberInGrain`) and different grains different ones (`SeparateInv`), so the numbers
and the grains are in bijection; `DenseInv` says that the numbers are
0 .. `numberOfGrains` - 1. `numberOfGrains` is what `resetGrains` acts on.

*No rank waits for ever.* `Stage` maps the place of a rank to its position in the one order of
fills, sweeps, transfers and reductions of an iteration. *`SentInv`* says that a rank past the stage
at which a message is packed has packed it (and that the reduction, which empties the
messages, finds nobody short of it). Take a rank of the least stage (`LeastRankGoesOn`): all that it waits for is packed at
an earlier stage, which all other ranks are past, so it can go on, unless it is at a
collective; then no rank can be past that, so all are there. This needs `SourceAssumption`: a fill of
level ln reads level ln and ln - 1, which are packed earlier in the iteration. It is true of ranks without
cells on a level as well, which is why the code's loops are over all levels. `StepsAdvance`
is the other half: each step raises the stage of a rank, or its place in a
sweep, and at most `MaxIter` times all go back together (`CountInv`, `TogetherInv`: no rank leaves the loop alone).

*`TestedInv`*: with one patch for each rank the flag the last patch leaves is that of all cells of the
rank, and the reduction sees every unset cell. The theorem marks out the finding `extension_converged`:
on one level its cause is the reset between two patches of a rank, and nothing in the transfers.

*`OrientationInv`* follows a flag and its orientation from a fine cell through the
messages to the covered cell above it, since ranks do not wait for each other between
packing, coarsening and packing again. The delicate time is before the first
orientations are coarsened: a covered cell may already have a flag from the cells under it
and still the union of all its leaves as orientation. `TaggingInv` says that flags of leaves are
then those of the phase, `FinishedInv` that after the loop a settled covered cell has only
settled cells under it and that what is packed is what the cells have.
`PeriodicTwoLevels` (no value from outside the domain, at most two levels) is a
hypothesis because neither is true without it: an unfilled ghost brings an
orientation of no grain, and on three levels flags are coarsened too early.

*`LastInv`* and *`AverageInv`*: what is packed for the last transfers is what its cell has, since the
rank has received the finer level before it packs this one, and receives nothing on it again; and a rank
that has received a level has averages on the level below, of cells that have all packed. The union a
covered cell takes is therefore that of what the cells under it will end with, on any number of levels and
without a barrier between the transfers.

*`NearInv`*: as long as a rank has not swept, its settled cells, and what it has packed, are
those within `nn` steps of a grain; after the sweep within `nn` + 1. A cell that is not yet within
`nn` takes the orientation of a neighbour that is, so its source is one step further and no
grain is nearer.

### The run loop

*`MergeInv`* places the two grain counts at each point of the loop: after `Advance` and
up to the diagnostics they are equal and nothing is pending; from the diagnostics to the
next `Advance` something pending means the remembered count is above the new one, which
is exactly the test `resetGrains` makes.

*The timers.* The other invariants share a pattern: where time has moved on, the last
event of a timer is at an earlier time, so the event that is due is not suppressed
(`FinalInv`, `FrameInv`, `DumpInv`, `StepsInv`); for intervals in time, the previous time
the timer knows lies in the same interval as the last event (`PlotInv`) or as a time at
most a step later than the last file (`TimesInv`: the first step of a submission is
compared with nothing). `DeckInv` says that the limit is that of the deck, counted from
where the submission started (`DeckBinds`); from it both that a run never goes past the limit and that it
ends only there. *`RunIsCheckpointed`* maps each stage of `Run` to a step
of `CheckpointedRun` or a stutter; a file written twice in a cycle maps to a stutter.

### The solver

*`MeshInv`* (of `SolverLifecycleProofs`) says that levels are there without a gap and that
every schedule joins levels that are there, after each change of the hierarchy. A regrid leaves level 0 and resets from level 1, and
`FirstSchedule` reaches one below: just enough.

*`ColdInv`*: in a cold start all levels, and the restart file, have one history; the solver
holds it, on the levels there are, with weights of these - *or* the solver has more levels
than the hierarchy, and then no step is possible any more (`CanReset`). The second case is
the regrid to one level, which makes nothing anew. `ClockInv` follows the three times,
`MappedInv` the static map: it is filled in the first regrid of a session, when the solver that
lasts to its end has begun.

*`SourceInv`*: from the evaluation at an iterate to the end of the linear solve, the
noise, the reference and the lagged fields stay those of the iterate, whatever the
products and the preconditioner compute. *`OperatorInv`*: from the first set-up of a solver on
all operators are of one predicted vector; no set-up is needed after a new solver because
the first step has one before every solve. *`CurrentInv`*: `jcur` says that the preconditioner is of this
attempt, although a failure leaves it set: an attempt that follows a failure begins with a
set-up. *`FrameInv`*: as long as the reference has to follow the last accepted step, no
attempt has computed a velocity; the first callback of an attempt notices the new time, and
every later one finds it known. *`PassInv`*: from the linear solve
to the failure of Newton, no set-up is outstanding. So a second pass, which sets Newton's iterations back,
is tried where `jcur` and `setup` are both off (one pass left) and leaves `setup` on (none left). A failed error test sets the failures back, and lowers `ErrorTests`.

*`OneLevelInv`*: on one level from a cold start the solver's vectors lie on the level there is, and
every file has it. No step of such a run fails, so it can always be resumed; with a second level, or a warm
start, it never is (`OtherRunsDoNot`), whatever the file holds. Together they are what `RunLoop` takes over in
`Restartable`.

### Only model-checked

`Termination` and `StepEnds`: TLAPS has no rule for liveness under fairness, and no `ENABLED`. What
they rest on is proved: for the grain modules that some rank can go on (`NoRankWaits`) and that
every step advances (`StepsAdvance`), for the implicit step the measure of `StepShrinks`; what is left to TLC is the
well-founded induction over these measures. `GrainsSeparated`, `GrainsCounted`
and `NearestGrain` are proved under the hypotheses in the table, which the instances that check
them satisfy. All three are about one level by nature: on several, a covered cell joins the grains under it,
and the spreading meets cells of different sizes.

## Where the code and its documentation disagree

1. `numbering_unique`: `Grains.C:335` says "Give each cell a unique number across entire
   hierarchy"; `level_offset` grows by the number of *boxes* of the domain (line 353), so
   cells of different levels share numbers, and two grains that do not touch can end as
   one.
2. `extension_converged`: `Grains.C:1000` says the loop iterates over all cells, filling
   with a tagged neighbour if there is one. `one_still_unset` is cleared once for each
   *patch* (line 1033), so the loop can end and report convergence with cells of other
   patches unfilled.
3. `runloop_first_file`: `input/example_full.in:62` lists `include_first_step` under
   `Restart`. `PFModel::Run` asks the regrid interval instead (line 488).
4. `lifecycle_restart`: `main.C:58` gives a command line for a restarted run, and
   `input/example_amr.in` has a `Restart` block with two levels. `QuatModel::Initialize`
   (line 972) then calls `initializeLevelData` for every level up to the maximum as for a
   level that replaces another, which needs a level and a refine algorithm that a restarted
   program does not have.

Each finding has a theorem that says how far it goes, by naming instances that cannot have it.

1. `CellsAreNumberedUniquely`: whenever the numbers of uncovered cells differ, the labels do when the
   first iteration starts, on any number of levels. The offsets are the only cause.
2. `OnePatchConverges`: on one level, no instance in which each rank has one patch.
3. `FirstFileIsOfTheRegridBlock`, `FirstFileIsRequested`: a first file is written exactly where the
   Regrid block asks for one, so decks whose Restart block asks for it too are not affected.
4. `OneLevelRunsRestart`, `OtherRunsDoNot`: no restart of a run of one level with a cold start and the
   default `amr_level_of_data` fails; a run of several levels or with a warm start is never resumed.

## What is not modelled

The numerics: free energies, CALPHAD and KKS, diffusion, mobilities, temperatures,
smoothers, hypre, the quaternion solver and the fortran kernels compute real-valued
fields, with no control state a model checker could reach. The FAC cycles compare norms of
such fields and their outcome is a free choice of `ImplicitStep`; the Newton solvers
iterate on real numbers, and their shared static size is set before each use. Input and
output (NetCDF, VisIt, the restart database's format), noise, scripts, and the vendored
SAMRAI and SUNDIALS, of which only what the code uses appears, as external
definitions; of CPODES, the paths AMPE's settings take. Rounding in `EventInterval` (times are
exact) and `int` overflow of cell numbers. The volume sums of `computeGrainVolumes` are
real arithmetic over numbers `NumbersDense` speaks of. The ghosts the extension never fills
are modelled, but no property is stated about a non-periodic domain there: an uninitialized
flag of 1 spreads an uninitialized orientation. SAMRAI, hypre and the libraries under
`base` are by far most of the repository's lines; the model is of AMPE's own control.

## Plan

Modelled, checked and, but for liveness, proved: grain numbering and
extension, the run loop, the life of the solver and the implicit step. What is left, in
this order:

1. Grain volumes over composite grids, and what a warm start would have to do for its runs
   to be resumed.
2. The loop on the velocity of Aziz's model with an abstract contraction, and the
   FAC cycles over symbolic residuals.
