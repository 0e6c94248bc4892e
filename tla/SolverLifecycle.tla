--------------------------- MODULE SolverLifecycle ---------------------------
(***************************************************************************)
(* The life of the integrator: which levels its vectors lie on, which      *)
(* data and which time the CPODES solver goes on from, and the schedules   *)
(* and weights it uses, while the hierarchy is built, edited by            *)
(* resetGrains and makeQuatFundamental, regridded, saved and restarted.    *)
(*                                                                         *)
(* A value of a field is its history: the operations it has been through.  *)
(* A level is the stamp of the PatchLevel object in the hierarchy, so that *)
(* a schedule or a weight made for another object shows.  Of SAMRAI's      *)
(* gridding the module keeps which levels are rebuilt, and which calls     *)
(* that makes; orientation is evolved, with a quat-only integrator.        *)
(***************************************************************************)
EXTENDS Integers, Sequences, FiniteSets

CONSTANTS
  MaxLevels,    \* bound: levels a deck can ask for
  Decks,        \* the input decks: [levels, data, warm], that is
                \* max_levels, amr_level_of_data and use_warm_start
  EndTime,      \* d_end_time
  MaxStep,      \* steps are at most that long
  MaxEdits,     \* bound: edits of the orientation in a session
  MaxRegrids,   \* bound: regrids in a session
  MaxSessions   \* bound: times the run is submitted

ASSUME LifecycleAssumption ==
  /\ MaxLevels \in Nat \ {0}
  /\ Decks \subseteq [levels : 1 .. MaxLevels, data : 0 .. MaxLevels - 1, warm : BOOLEAN]
  /\ EndTime \in Nat \ {0}
  /\ MaxStep \in Nat \ {0}
  /\ MaxEdits \in Nat /\ MaxRegrids \in Nat /\ MaxSessions \in Nat

Lvl == 0 .. MaxLevels - 1

Operation == {"step", "grains", "fundamental"}

NotSet == -1    \* the signaling NaN d_current_time starts as; no vector

Lost == <<"lost">>   \* history of a value refined through a wrong scratch id

VARIABLES
  pc,        \* where the program is
  cause,     \* why it was aborted
  deck,      \* the deck of the run
  level,     \* ln -> stamp of the level's object, 0 if there is none
  field,     \* ln -> histories of the current data, none without a level
  sched,     \* ln -> the pair of levels the integrator's coarsen schedules are of
  scratch,   \* ln -> the pair the refine schedule from current to scratch is of
  weight,    \* ln -> the level object the vector weights were computed on
  clock,     \* d_time and d_previous_timestep of PFModel, and the integrator's
  solver,    \* d_sundials_solver with its vectors
  relax,     \* finest level of the vectors of the quat-only integrator
  mapped,    \* first_time of QuatModel::Regrid is FALSE: id_map is filled
  file,      \* the restart file
  count      \* the bounded counters

vars == <<pc, cause, deck, level, field, sched, scratch, weight, clock, solver, relax,
          mapped, file, count>>

state == <<deck, level, field, sched, scratch, weight, clock, solver, relax, mapped>>

FinestOf(lv) == Cardinality({ln \in Lvl : lv[ln] # 0}) - 1

Finest == FinestOf(level)

DeckLevels == 0 .. deck.levels - 1

-----------------------------------------------------------------------------
(* The solver.  made: there is one; span: finest level of d_solution_vec,  *)
(* and so of every vector cloned from it; t0, h0: the initial time and     *)
(* step size it was given; tn: the time CPODES has reached; needs:         *)
(* d_CPODE_needs_initialization; ids: its history vectors are in id_map;   *)
(* zn: what these vectors hold, level by level.                            *)

Nothing == [ln \in Lvl |-> {}]

NoSolver == [made |-> FALSE, span |-> NotSet, t0 |-> NotSet, h0 |-> 0, tn |-> NotSet,
             needs |-> FALSE, ids |-> FALSE, zn |-> Nothing]

\* The vectors go to the number of levels instead of to the finest level.
MutantNewSolver(lv, fl, time, dt) ==
  [made |-> TRUE, span |-> FinestOf(lv) + 1, t0 |-> time, h0 |-> dt, tn |-> time,
   needs |-> FALSE, ids |-> FALSE, zn |-> fl]

(* createSolutionvector and setSundialsOptions; initializeCPODES copies    *)
(* the initial condition into the history.                                 *)
NewSolver(lv, fl, time, dt) ==
  [made |-> TRUE, span |-> FinestOf(lv), t0 |-> time, h0 |-> dt, tn |-> time,
   needs |-> FALSE, ids |-> FALSE, zn |-> fl]

(* The vectors of the solver that is deleted are freed on the levels they  *)
(* were made on: that fails where these levels are no more.                *)
CanReset(lv) == solver.made => solver.span <= FinestOf(lv)
CanRelax(lv) == relax <= FinestOf(lv)

Abort(why) == pc' = "aborted" /\ cause' = why /\ UNCHANGED <<state, file, count>>

-----------------------------------------------------------------------------
(* resetHierarchyConfiguration of QuatModel and its integrators, for the   *)
(* levels from c to the finest of lv.                                      *)

\* Leaves out the schedule between the first level that is new and the old
\* one under it.
MutantFirstSchedule(c) == c

FirstSchedule(c) == IF c > 0 THEN c - 1 ELSE c

Below(ln, lv) == <<lv[ln], IF ln > 0 THEN lv[ln - 1] ELSE 0>>

Schedules(c, lv) ==
  /\ sched' = [ln \in Lvl |-> IF ln \in FirstSchedule(c) .. FinestOf(lv) - 1
                              THEN <<lv[ln], lv[ln + 1]>> ELSE sched[ln]]
  /\ scratch' = [ln \in Lvl |-> IF ln \in c .. FinestOf(lv)
                                THEN Below(ln, lv) ELSE scratch[ln]]

Above(ln, lv) == <<lv[ln], IF ln < MaxLevels - 1 THEN lv[ln + 1] ELSE 0>>

\* Only the weights of the levels the call is about.
MutantWeights(c, lv) == [ln \in Lvl |-> IF ln >= c THEN Above(ln, lv) ELSE weight[ln]]

(* computeVectorWeights( hierarchy, -1, -1 ) takes all levels; a cell of a *)
(* level weighs nothing under the next finer one.                          *)
Weights(c, lv) == [ln \in Lvl |-> Above(ln, lv)]

(* The main integrator is reset in a cold start.  In a warm start, once    *)
(* there is a time, two work vectors are made anew on the levels of the    *)
(* solution vector.                                                        *)
Configure(c, lv, fl, kept) ==
  /\ Schedules(c, lv)
  /\ weight' = Weights(c, lv)
  /\ solver' = IF deck.warm THEN kept ELSE NewSolver(lv, fl, clock.current, clock.last)
  /\ relax' = FinestOf(lv)

CanConfigure(lv) == (~ deck.warm \/ clock.current > 0 => CanReset(lv)) /\ CanRelax(lv)

-----------------------------------------------------------------------------
(* A fresh run: PFModel::setupHierarchy, and the initial data.             *)

FreshClock == [model |-> 0, stepsize |-> 0, current |-> NotSet, last |-> 0]

Init ==
  /\ pc = "build" /\ cause = "none"
  /\ deck \in Decks
  /\ level = [ln \in Lvl |-> 0]
  /\ field = [ln \in Lvl |-> IF ln = 0 THEN {<<>>} ELSE {}]
  /\ sched = [ln \in Lvl |-> <<0, 0>>]
  /\ scratch = [ln \in Lvl |-> <<0, 0>>]
  /\ weight = [ln \in Lvl |-> <<0, 0>>]
  /\ clock = FreshClock
  /\ solver = NoSolver
  /\ relax = NotSet
  /\ mapped = FALSE
  /\ file = {}
  /\ count = [stamp |-> 0, edits |-> 0, regrids |-> 0, session |-> 1]

(* The data of a level coarser than those of the initial conditions are    *)
(* coarsened from d_initial_level, which is set when that level is made.   *)
BuildFails ==
  /\ pc = "build" /\ Finest + 1 < deck.data
  /\ Abort("no initial level")

(* makeCoarsestLevel and makeFinerLevel: the tags are computed before the  *)
(* data are read, so that there can be any number of levels.               *)
Build ==
  /\ pc = "build" /\ Finest + 1 >= deck.data /\ Finest + 1 < deck.levels
  /\ LET ln == Finest + 1
         lv == [level EXCEPT ![ln] = count.stamp + 1]
         fl == [field EXCEPT ![ln] = field[0]]
     IN  level' = lv /\ field' = fl /\ Configure(ln, lv, fl, solver)
  /\ count' = [count EXCEPT !.stamp = @ + 1]
  /\ UNCHANGED <<pc, cause, deck, clock, mapped, file>>

FillInitial ==
  /\ pc = "build" /\ Finest >= 0 /\ pc' = "init"
  /\ UNCHANGED <<cause, state, file, count>>

(* InitializeIntegrator: setModelParameters gives the integrators the      *)
(* model's time, initialize resets them, and the initial condition set     *)
(* last makes the first solve start from the fields of that moment.        *)
InitializeIntegrator ==
  /\ pc = "init" /\ CanReset(level) /\ CanRelax(level) /\ pc' = "loop"
  /\ clock' = [clock EXCEPT !.current = clock.model]
  /\ solver' = [NewSolver(level, field, clock.model, clock.last) EXCEPT !.needs = TRUE]
  /\ relax' = Finest
  /\ UNCHANGED <<cause, deck, level, field, sched, scratch, weight, mapped, file, count>>

-----------------------------------------------------------------------------
(* QuatModel::Advance: an edit of the orientations, if one is due, and the *)
(* step.                                                                   *)

Continues == clock.model < EndTime

\* The solver is left as it is.
MutantUpdateNothing(fl) == solver

\* A warm start is taken for a cold one.
MutantUpdateAlways(fl) == NewSolver(level, fl, clock.current, clock.last)

(* QuatIntegrator::updateSolution: nothing in a warm start.                *)
UpdateSolution(fl) ==
  IF deck.warm THEN solver ELSE NewSolver(level, fl, clock.current, clock.last)

Edited(op) == [ln \in Lvl |-> {Append(h, op) : h \in field[ln]}]

(* resetGrains initializes and runs the quat-only integrator and copies    *)
(* its result to the orientation field.                                    *)
ResetGrains ==
  /\ pc = "loop" /\ Continues /\ count.edits < MaxEdits
  /\ CanRelax(level) /\ (deck.warm \/ CanReset(level))
  /\ pc' = "step"
  /\ field' = Edited("grains")
  /\ relax' = Finest
  /\ solver' = UpdateSolution(Edited("grains"))
  /\ count' = [count EXCEPT !.edits = @ + 1]
  /\ UNCHANGED <<cause, deck, level, sched, scratch, weight, clock, mapped, file>>

MakeQuatFundamental ==
  /\ pc = "loop" /\ Continues /\ count.edits < MaxEdits
  /\ deck.warm \/ CanReset(level)
  /\ pc' = "step"
  /\ field' = Edited("fundamental")
  /\ solver' = UpdateSolution(Edited("fundamental"))
  /\ count' = [count EXCEPT !.edits = @ + 1]
  /\ UNCHANGED <<cause, deck, level, sched, scratch, weight, clock, relax, mapped, file>>

EditFails ==
  /\ pc = "loop" /\ Continues /\ count.edits < MaxEdits
  /\ ~ (CanRelax(level) /\ (deck.warm \/ CanReset(level)))
  /\ Abort("levels gone")

NoEdit ==
  /\ pc = "loop" /\ Continues /\ pc' = "step"
  /\ UNCHANGED <<cause, state, file, count>>

(* CPODESSolver::solve on vectors of which a level is gone.  Its assertion *)
(* that t0 is before the end is a part of ResumesAtCurrent.                *)
SolveFails == pc = "step" /\ ~ CanReset(level) /\ Abort("levels gone")

\* updateSolutionTime is not called.
MutantUpdateSolutionTime(time) == clock.current

UpdateSolutionTime(time) == time

(* QuatIntegrator::Advance: the solver steps from its own history, on its  *)
(* own levels, and writes the fields there; the data are then coarsened    *)
(* from each level to the next.                                            *)
Step ==
  /\ pc = "step" /\ CanReset(level) /\ pc' = "stepped"
  /\ \E dt \in 1 .. MaxStep :
       LET begun == IF solver.needs
                    THEN [solver EXCEPT !.zn = field, !.tn = solver.t0, !.needs = FALSE,
                                        !.ids = FALSE]
                    ELSE solver
           zn == [ln \in Lvl |-> IF ln \in 0 .. solver.span
                                 THEN {Append(h, "step") : h \in begun.zn[ln]}
                                 ELSE begun.zn[ln]]
           fl == [ln \in Lvl |-> IF ln \in 0 .. solver.span THEN zn[ln] ELSE field[ln]]
       IN  /\ solver' = [begun EXCEPT !.zn = zn, !.tn = @ + dt]
           /\ field' = [ln \in Lvl |-> UNION {fl[k] : k \in ln .. Finest}]
           /\ clock' = [model |-> clock.model + dt, stepsize |-> dt,
                        current |-> UpdateSolutionTime(begun.tn + dt), last |-> dt]
  /\ UNCHANGED <<cause, deck, level, sched, scratch, weight, relax, mapped, file, count>>

-----------------------------------------------------------------------------
(* After the step: a restart file, and a regrid.                           *)

WriteRestartFile ==
  /\ pc = "stepped" /\ pc' = "saved"
  /\ file' = {[level |-> level, field |-> field, time |-> clock.model, dt |-> clock.stepsize]}
  /\ UNCHANGED <<cause, state, count>>

(* regridAllFinerLevels(0): level 0 stays, the levels above are rebuilt,   *)
(* at most one more than there were.                                       *)
Rebuilt(f) == [ln \in Lvl |-> IF ln = 0 THEN level[0]
                              ELSE IF ln <= f THEN count.stamp + 1 ELSE 0]

(* A new level takes its data from the old one where there was one and     *)
(* from the next coarser level elsewhere.                                  *)
Refined(data, f) == [ln \in Lvl |-> IF ln <= f THEN UNION {data[k] : k \in (ln - 1 .. ln) \cap Lvl}
                                    ELSE {}]

(* Under warm start the history vectors are refined too, each through the  *)
(* scratch data id_map has for it; id_map is filled in the first regrid.   *)
RegriddedSolver(f) ==
  IF ~ deck.warm THEN solver
  ELSE LET ids == solver.ids \/ ~ mapped
       IN  [solver EXCEPT !.ids = ids,
                          !.zn = IF ids THEN Refined(solver.zn, f)
                                 ELSE [ln \in Lvl |-> IF ln = 0 THEN solver.zn[0]
                                                      ELSE IF ln <= f THEN {Lost} ELSE {}]]

(* resetHierarchyConfiguration is called only if there is a finer level.   *)
Regrid ==
  /\ pc \in {"stepped", "saved"} /\ deck.levels > 1 /\ count.regrids < MaxRegrids
  /\ \E f \in 0 .. Finest + 1 :
       LET lv == Rebuilt(f)
           fl == Refined(field, f)
       IN  /\ f \in DeckLevels
           /\ f > 0 => CanConfigure(lv)
           /\ level' = lv /\ field' = fl
           /\ IF f = 0
              THEN /\ solver' = RegriddedSolver(0)
                   /\ UNCHANGED <<sched, scratch, weight, relax>>
              ELSE Configure(1, lv, fl, RegriddedSolver(f))
  /\ pc' = "loop"
  /\ mapped' = (mapped \/ deck.warm)
  /\ count' = [count EXCEPT !.stamp = @ + 1, !.regrids = @ + 1]
  /\ UNCHANGED <<cause, deck, clock, file>>

RegridFails ==
  /\ pc \in {"stepped", "saved"} /\ deck.levels > 1 /\ count.regrids < MaxRegrids
  /\ \E f \in 1 .. Finest + 1 : f \in DeckLevels /\ ~ CanConfigure(Rebuilt(f))
  /\ Abort("levels gone")

NoRegrid ==
  /\ pc \in {"stepped", "saved"} /\ pc' = "loop"
  /\ UNCHANGED <<cause, state, file, count>>

Finish ==
  /\ pc = "loop" /\ ~ Continues /\ pc' = "down"
  /\ UNCHANGED <<cause, state, file, count>>

Crash ==
  /\ pc \notin {"down", "aborted"} /\ count.session < MaxSessions
  /\ pc' = "down"
  /\ UNCHANGED <<cause, state, file, count>>

-----------------------------------------------------------------------------
(* A restarted run.  initializeLevelData is called for every level there   *)
(* can be, as for a level that replaces another: it needs that level, the  *)
(* solver in a warm start, and above level 0 the algorithm Regrid makes.   *)

RestartFault(ln, r) ==
  IF r.level[ln] = 0 THEN "no such level"
  ELSE IF deck.warm THEN "no solver"
  ELSE IF ln > 0 THEN "no refine algorithm" ELSE "none"

RestartFails ==
  /\ pc \in {"down", "aborted"} /\ count.session < MaxSessions
  /\ \E r \in file, ln \in DeckLevels :
       /\ RestartFault(ln, r) # "none"
       /\ \A k \in 0 .. ln - 1 : RestartFault(k, r) = "none"
       /\ Abort(RestartFault(ln, r))

Restart ==
  /\ pc \in {"down", "aborted"} /\ count.session < MaxSessions
  /\ pc' = "init" /\ cause' = "none"
  /\ \E r \in file :
       /\ \A ln \in DeckLevels : RestartFault(ln, r) = "none"
       /\ level' = r.level /\ field' = r.field
       /\ clock' = [model |-> r.time, stepsize |-> r.dt, current |-> NotSet, last |-> r.dt]
       /\ sched' = [ln \in Lvl |-> IF ln < FinestOf(r.level)
                                   THEN <<r.level[ln], r.level[ln + 1]>> ELSE <<0, 0>>]
       /\ scratch' = [ln \in Lvl |-> IF ln <= FinestOf(r.level)
                                     THEN Below(ln, r.level) ELSE <<0, 0>>]
       /\ weight' = [ln \in Lvl |-> Above(ln, r.level)]
       /\ solver' = [NewSolver(r.level, r.field, NotSet, 0) EXCEPT !.h0 = r.dt, !.needs = TRUE]
       /\ relax' = FinestOf(r.level)
  /\ mapped' = FALSE
  /\ count' = [count EXCEPT !.edits = 0, !.regrids = 0, !.session = @ + 1]
  /\ UNCHANGED <<deck, file>>

-----------------------------------------------------------------------------

Advance == ResetGrains \/ MakeQuatFundamental \/ EditFails \/ NoEdit \/ Step \/ SolveFails

Next ==
  \/ Build \/ BuildFails \/ FillInitial \/ InitializeIntegrator
  \/ Advance \/ WriteRestartFile
  \/ Regrid \/ RegridFails \/ NoRegrid
  \/ Finish \/ Crash \/ Restart \/ RestartFails

Spec == Init /\ [][Next]_vars

-----------------------------------------------------------------------------
(* Properties. *)

Cause == {"none", "no initial level", "levels gone", "no such level",
          "no solver", "no refine algorithm"}

History == Seq(Operation \cup {"lost"})

Data == [Lvl -> SUBSET History]

Time == Nat \cup {NotSet}

Solver == [made : BOOLEAN, span : Lvl \cup {NotSet}, t0 : Time, h0 : Nat, tn : Time,
           needs : BOOLEAN, ids : BOOLEAN, zn : Data]

(* Every variable has its type.  (the members of QuatModel, PFModel,       *)
(* QuatIntegrator and CPODESSolver the module keeps)                       *)
TypeOK ==
  /\ pc \in {"build", "init", "loop", "step", "stepped", "saved", "down", "aborted"}
  /\ cause \in Cause
  /\ deck \in Decks
  /\ level \in [Lvl -> Nat]
  /\ field \in Data
  /\ sched \in [Lvl -> Nat \X Nat]
  /\ scratch \in [Lvl -> Nat \X Nat]
  /\ weight \in [Lvl -> Nat \X Nat]
  /\ clock \in [model : Nat, stepsize : Nat, current : Time, last : Nat]
  /\ solver \in Solver
  /\ relax \in Lvl \cup {NotSet}
  /\ mapped \in BOOLEAN
  /\ file \subseteq [level : [Lvl -> Nat], field : Data, time : Nat, dt : Nat]
  /\ count \in [stamp : Nat, edits : Nat, regrids : Nat, session : Nat]

(* Whenever the code is about to step, each schedule in use joins the      *)
(* levels that are in the hierarchy now, although a regrid only resets     *)
(* those from level 1, or none when one level is left.                     *)
(* (QuatIntegrator and QuatModel::resetHierarchyConfiguration)             *)
SchedulesCurrent ==
  pc = "step" =>
    /\ \A ln \in 0 .. Finest - 1 : sched[ln] = <<level[ln], level[ln + 1]>>
    /\ \A ln \in 0 .. Finest : scratch[ln] = Below(ln, level)

(* In a cold start a step that has been made used weights of the present   *)
(* levels: a cell under a finer level counted for nothing, any other for   *)
(* its volume.  The weights are not computed in a regrid that leaves one   *)
(* level; a warm start can go on from there, a cold one cannot.            *)
(* (computeVectorWeights, which the norms of CPODES use)                   *)
UsesCurrentWeights ==
  pc = "stepped" /\ ~ deck.warm => \A ln \in 0 .. Finest : weight[ln] = Above(ln, level)

(* The solver goes on at the model's time, also after it was made anew,    *)
(* with the last step size then, and always has something to integrate.    *)
(* (setSundialsOptions, updateSolutionTime, setTimestep)                   *)
ResumesAtCurrent ==
  pc \in {"loop", "step"} =>
    /\ clock.current = clock.model
    /\ ~ solver.needs => solver.tn = clock.model
    /\ solver.needs \/ solver.tn = solver.t0 =>
         solver.t0 = clock.model /\ solver.h0 = clock.last
    /\ pc = "step" => solver.t0 < EndTime

(* The vectors of the solver are refined in a regrid through the data that *)
(* were registered for them.  (id_map and first_time in QuatModel::Regrid, *)
(* with updateSolution, which must not make the solver anew)               *)
HistoryIsMapped == \A ln \in Lvl : Lost \notin solver.zn[ln] \cup field[ln]

Composite(fl) == IF deck.warm THEN {<<>>} ELSE UNION {fl[ln] : ln \in Lvl}

Promise ==
  INSTANCE SharedHistory WITH
    solution <- Composite(field),
    saved <- UNION {Composite(r.field) : r \in file}

(* In a cold start the whole solution shares one history: it is stepped    *)
(* from what the last edit, regrid or restart left.  Nothing is said of a  *)
(* warm start.  (updateSolution, resetIntegrator, initialize)              *)

ContinuesTheSolution == Promise!HSpec

(* A run can be restarted from the file it has written.  (the second       *)
(* command line of main)                                                   *)
RestartedRunStarts == cause \notin {"no such level", "no refine algorithm"}
==============================================================================
