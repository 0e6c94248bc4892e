------------------------------- MODULE RunLoop -------------------------------
(***************************************************************************)
(* The time loop of AMPE: PFModel::Run with the parts of QuatModel it      *)
(* calls (Advance and resetGrains, computeGrainDiagnostics, Regrid), the   *)
(* limits and the state it takes from the input deck or from a restart     *)
(* file, and the events EventInterval schedules.  A process can be killed  *)
(* between any two steps and the run resubmitted from any file on disk.    *)
(*                                                                         *)
(* The fields are not modelled: of the simulation the module keeps the     *)
(* cycle, the time, how many levels it may have, how many grains there     *)
(* are, and the cycle the orientations were last made fundamental.  What a *)
(* regrid and a restart do to the levels and the integrator, which starts  *)
(* cold here, is the subject of SolverLifecycle.                           *)
(* TimestepOutput, ScalarDiagnostics and Test only print and are left out. *)
(***************************************************************************)
EXTENDS EventInterval, Sequences

CONSTANTS
  Interval,       \* event -> configuration of its EventInterval
  Deck,           \* the input decks: records [max, delta, end] of keys or Unset
  StartTime,      \* start_time
  MaxStep,        \* the integrator's steps are at most that long
  Levels,         \* the max_levels a simulation can be started with
  SymmetryAware,  \* d_symmetry_aware
  IntMax,         \* INT_MAX
  MaxGrains,      \* bound: grains there can be
  MaxSessions     \* bound: times the run is submitted

Event == {"restart", "regrid", "grains", "visit", "extend", "fundamental"}

Unset == -1     \* a key the deck does not have

ASSUME IntervalAssumption == Interval \in [Event -> Configuration]

ASSUME RunAssumption ==
  /\ Deck \subseteq [max : Nat \cup {Unset}, delta : Nat \cup {Unset}, end : Nat \cup {Unset}]
  /\ StartTime \in Nat
  /\ MaxStep \in Nat \ {0}
  /\ Levels \subseteq Nat \ {0}
  /\ SymmetryAware \in BOOLEAN
  /\ IntMax \in Nat
  /\ MaxGrains \in Nat /\ MaxGrains < IntMax
  /\ MaxSessions \in Nat

VARIABLES
  sim,       \* the simulation: [cycle, time, levels, grains, frame]
  limit,     \* d_max_cycles and d_end_time
  timer,     \* event -> state of its EventInterval
  files,     \* restart number -> the simulation and the limits in that file
  counted,   \* Grains::d_number_of_grains
  known,     \* QuatModel::d_number_of_grains
  flag,      \* flag_visit_dump
  pc,        \* where Run is
  session,   \* history: [count, deck, from, kept], this submission, the
             \* state it started from and the last one a file keeps
  dumps,     \* history: the cycles this session has dumped for VisIt
  pending    \* history: it has counted fewer grains and not acted on that

vars == <<sim, limit, timer, files, counted, known, flag, pc, session, dumps, pending>>

Due(e, step) == HasIntervalPassed(Interval[e], timer[e], step, sim.time)
AtFirst(e)   == IncludeInitial(Interval[e], timer[e], sim.time)
AtLast(e)    == IncludeFinal(Interval[e], timer[e], sim.time)

Evaluate(e, event) == timer' = [timer EXCEPT ![e] = Evaluated(@, sim.time, event)]

-----------------------------------------------------------------------------
(* Submission: Initialize, from an input deck or from a restart file.  Both *)
(* take max_delta_cycles and max_cycles, but rank them differently.         *)

FreshLimit(d) ==
  [cycle |-> IF d.delta # Unset THEN d.delta
             ELSE IF d.max # Unset THEN d.max ELSE IntMax,
   time  |-> d.end]

\* max_delta_cycles is counted from the limit of the run the file is from.
MutantRestartLimit(d, file) ==
  [cycle |-> IF d.max # Unset THEN d.max
             ELSE IF d.delta # Unset THEN file.limit.cycle + d.delta
             ELSE file.limit.cycle,
   time  |-> IF d.end # Unset THEN d.end ELSE file.limit.time]

\* The limit of the file stands although max_delta_cycles is given.
MutantFileLimit(d, file) ==
  [cycle |-> IF d.max # Unset THEN d.max ELSE file.limit.cycle,
   time  |-> IF d.end # Unset THEN d.end ELSE file.limit.time]

RestartLimit(d, file) ==
  [cycle |-> IF d.max # Unset THEN d.max
             ELSE IF d.delta # Unset THEN file.sim.cycle + d.delta
             ELSE file.limit.cycle,
   time  |-> IF d.end # Unset THEN d.end ELSE file.limit.time]

NewSim(n, l) == [cycle |-> 0, time |-> StartTime, levels |-> l, grains |-> n, frame |-> 0]

(* A run that is not a restart needs an end_time; d_number_of_grains is    *)
(* INT_MAX then, and stays at the -1 of the constructor on a restart.      *)
Init ==
  /\ \E n \in 0 .. MaxGrains, l \in Levels : sim = NewSim(n, l)
  /\ \E d \in Deck :
       /\ d.end # Unset
       /\ limit = FreshLimit(d)
       /\ session = [count |-> 1, deck |-> d, from |-> sim, kept |-> sim]
  /\ timer = [e \in Event |-> Fresh]
  /\ files = [n \in {} |-> 0]
  /\ counted = -1 /\ known = IntMax
  /\ flag = TRUE
  /\ pc = "initial"
  /\ dumps = <<>>
  /\ pending = FALSE

Submit(d, s, l, n) ==
  /\ pc \in {"down", "done"} /\ session.count < MaxSessions
  /\ sim' = s
  /\ limit' = l
  /\ timer' = [e \in Event |-> Fresh]
  /\ counted' = -1 /\ known' = n
  /\ flag' = TRUE
  /\ pc' = "initial"
  /\ session' = [count |-> session.count + 1, deck |-> d, from |-> s, kept |-> s]
  /\ dumps' = <<>>
  /\ pending' = FALSE
  /\ UNCHANGED files

(* Initialize sets up every level the simulation may have, and can do that  *)
(* of a restart for the coarsest only.                                      *)
Restartable == {n \in DOMAIN files : files[n].sim.levels = 1}

Resubmit ==
  \E d \in Deck :
    \/ /\ d.end # Unset
       /\ \E n \in 0 .. MaxGrains, l \in Levels :
            Submit(d, NewSim(n, l), FreshLimit(d), IntMax)
    \/ \E n \in Restartable :
         Submit(d, files[n].sim, RestartLimit(d, files[n]), -1)

(* A submission from any other file ends before it has done anything.       *)
RestartFails ==
  /\ pc \in {"down", "done"} /\ session.count < MaxSessions
  /\ DOMAIN files # Restartable
  /\ session' = [session EXCEPT !.count = @ + 1]
  /\ UNCHANGED <<sim, limit, timer, files, counted, known, flag, pc, dumps, pending>>

-----------------------------------------------------------------------------
(* Before the loop. *)

Filed(n) ==
  [m \in DOMAIN files \cup {n} |-> IF m = n THEN [sim |-> sim, limit |-> limit] ELSE files[m]]

\* The file is named after the next cycle.
MutantWrite ==
  /\ files' = Filed(sim.cycle + 1)
  /\ session' = [session EXCEPT !.kept = sim]

(* writeRestartFile: the file is named after the cycle. *)
Write ==
  /\ files' = Filed(sim.cycle)
  /\ session' = [session EXCEPT !.kept = sim]

WriteIf(event) == IF event THEN Write ELSE UNCHANGED <<files, session>>

(* computeGrainDiagnostics: findAndNumberGrains counts the grains. *)
CountGrains ==
  /\ counted' = sim.grains
  /\ pending' = (pending \/ sim.grains < counted)

CountGrainsIf(event) == IF event THEN CountGrains ELSE UNCHANGED <<counted, pending>>

DumpIf(event) == dumps' = IF event THEN Append(dumps, sim.cycle) ELSE dumps

(* The includeInitial calls.  The one of d_regrid_interval writes a restart *)
(* file; d_restart_interval and d_grain_extend_interval have none.          *)
Preliminaries ==
  /\ pc = "initial" /\ pc' = "loop"
  /\ timer' = [e \in Event |->
                 IF e \in {"visit", "regrid", "grains"}
                 THEN Evaluated(timer[e], sim.time, AtFirst(e)) ELSE timer[e]]
  /\ DumpIf(AtFirst("visit"))
  /\ WriteIf(AtFirst("regrid"))
  /\ CountGrainsIf(AtFirst("grains"))
  /\ UNCHANGED <<sim, limit, known, flag>>

-----------------------------------------------------------------------------
(* The loop. *)

MutantContinues == sim.time < limit.time /\ sim.cycle <= limit.cycle

Continues == sim.time < limit.time /\ sim.cycle < limit.cycle

\* Both conditions are asked for.
MutantResets(step) ==
  IsActive(Interval["extend"]) /\ known > counted /\ Due("extend", step)

(* resetGrains is called at all, and does something. *)
Resets(step) ==
  IsActive(Interval["extend"]) /\ (known > counted \/ Due("extend", step))

\* resetGrains does it only when it is due.
MutantFundamental(step) ==
  SymmetryAware /\ ~ Resets(step) /\ Due("fundamental", step)

MakesFundamental(step) ==
  /\ SymmetryAware
  /\ IF Resets(step) THEN IsActive(Interval["fundamental"]) ELSE Due("fundamental", step)

(* d_cycle++ and QuatModel::Advance.  The extension interval is looked at   *)
(* only when the grain count has not fallen, the fundamental one only when  *)
(* the grains were not reset.  Grains can appear, merge or vanish.          *)
Advance ==
  LET step == sim.cycle + 1
  IN  /\ pc = "loop" /\ Continues /\ pc' = "save"
      /\ \E dt \in 1 .. MaxStep, n \in {sim.grains - 1, sim.grains, sim.grains + 1} :
           /\ n \in 0 .. MaxGrains
           /\ sim' = [sim EXCEPT !.cycle = step, !.time = @ + dt, !.grains = n,
                                 !.frame = IF MakesFundamental(step) THEN step ELSE @]
      /\ IF IsActive(Interval["extend"]) THEN known' = counted ELSE known' = known
      /\ pending' = (pending /\ ~ Resets(step))
      /\ timer' = [timer EXCEPT
           !["extend"] = IF IsActive(Interval["extend"]) /\ known <= counted
                         THEN Evaluated(@, sim.time, Due("extend", step)) ELSE @,
           !["fundamental"] = IF SymmetryAware /\ ~ Resets(step)
                              THEN Evaluated(@, sim.time, Due("fundamental", step)) ELSE @]
      /\ UNCHANGED <<limit, files, counted, flag, session, dumps>>

SaveState ==
  /\ pc = "save" /\ pc' = "grains"
  /\ WriteIf(Due("restart", sim.cycle))
  /\ Evaluate("restart", Due("restart", sim.cycle))
  /\ UNCHANGED <<sim, limit, counted, known, flag, dumps, pending>>

Diagnose ==
  /\ pc = "grains" /\ pc' = "visit"
  /\ CountGrainsIf(Due("grains", sim.cycle))
  /\ Evaluate("grains", Due("grains", sim.cycle))
  /\ UNCHANGED <<sim, limit, files, known, flag, session, dumps>>

\* The flag stays up.
MutantPlot ==
  /\ pc = "visit" /\ pc' = "regrid"
  /\ DumpIf(Due("visit", sim.cycle))
  /\ Evaluate("visit", Due("visit", sim.cycle))
  /\ UNCHANGED <<sim, limit, files, counted, known, flag, session, pending>>

Plot ==
  /\ pc = "visit" /\ pc' = "regrid"
  /\ DumpIf(Due("visit", sim.cycle))
  /\ flag' = Due("visit", sim.cycle)
  /\ Evaluate("visit", Due("visit", sim.cycle))
  /\ UNCHANGED <<sim, limit, files, counted, known, session, pending>>

(* What a regrid changes is not modelled, only when it takes place.         *)
Regrid ==
  /\ pc = "regrid" /\ pc' = "loop"
  /\ IF sim.levels > 1 THEN Evaluate("regrid", Due("regrid", sim.cycle))
                       ELSE UNCHANGED timer
  /\ UNCHANGED <<sim, limit, files, counted, known, flag, session, dumps, pending>>

(* After the loop: the last dump and the last restart file. *)
Conclude ==
  /\ pc = "loop" /\ ~ Continues /\ pc' = "done"
  /\ timer' = [e \in Event |->
                 IF e \in {"visit", "restart"}
                 THEN Evaluated(timer[e], sim.time, AtLast(e)) ELSE timer[e]]
  /\ DumpIf(AtLast("visit") /\ ~ flag)
  /\ WriteIf(AtLast("restart"))
  /\ UNCHANGED <<sim, limit, counted, known, flag, pending>>

Crash ==
  /\ pc \notin {"down", "done"} /\ session.count < MaxSessions
  /\ pc' = "down"
  /\ UNCHANGED <<sim, limit, timer, files, counted, known, flag, session, dumps, pending>>

-----------------------------------------------------------------------------

Run == Preliminaries \/ Advance \/ SaveState \/ Diagnose \/ Plot \/ Regrid \/ Conclude

Next == Run \/ Crash \/ Resubmit \/ RestartFails

Spec == Init /\ [][Next]_vars

-----------------------------------------------------------------------------
(* Properties. *)

Simulation ==
  [cycle : Nat, time : Nat, levels : Levels, grains : 0 .. MaxGrains, frame : Nat]
Limit      == [cycle : Nat \cup {Unset}, time : Nat \cup {Unset}]

(* Every variable has its type, and a file's name is its cycle.  (the state *)
(* of PFModel and QuatModel, and writeRestartFile)                          *)
TypeOK ==
  /\ sim \in Simulation
  /\ limit \in Limit
  /\ timer \in [Event -> [prev : Nat \cup {-1}, at : Nat \cup {-1}]]
  /\ files \in [DOMAIN files -> [sim : Simulation, limit : Limit]]
  /\ \A n \in DOMAIN files : files[n].sim.cycle = n
  /\ counted \in -1 .. MaxGrains
  /\ known \in (-1 .. MaxGrains) \cup {IntMax}
  /\ flag \in BOOLEAN
  /\ pc \in {"initial", "loop", "save", "grains", "visit", "regrid", "done", "down"}
  /\ session \in [count : Nat, deck : Deck, from : Simulation, kept : Simulation]
  /\ dumps \in Seq(Nat)
  /\ pending \in BOOLEAN

StepDue(e) == Interval[e].kind = "step" /\ IsActive(Interval[e])

(* A kill at the top of the loop costs less than one restart interval of    *)
(* steps; of time, no more than an interval and one step, since the first   *)
(* step of a submission is not compared with its start.  (the restart       *)
(* interval of PFModel::Run)                                                *)
LossBounded ==
  pc = "loop" /\ IsActive(Interval["restart"]) =>
    IF Interval["restart"].kind = "step"
    THEN sim.cycle - session.kept.cycle < Interval["restart"].every
    ELSE sim.time - session.kept.time < Interval["restart"].every + MaxStep

(* A submission that ends by itself leaves its last state on disk, with     *)
(* the limits that ended it.  (includeFinal of the restart interval)        *)
FinalStateSaved ==
  pc = "done" /\ IsActive(Interval["restart"]) /\ Interval["restart"].last =>
    /\ sim.cycle \in DOMAIN files
    /\ files[sim.cycle].sim.time = sim.time
    /\ files[sim.cycle].limit = limit

(* The plots of a submission are of different cycles, in order, and the     *)
(* last cycle is among them if it made a step.  (the Visit interval and     *)
(* flag_visit_dump)                                                         *)
PlotsOnceAndLast ==
  /\ \A i, j \in DOMAIN dumps : i < j => dumps[i] < dumps[j]
  /\ pc = "done" /\ IsActive(Interval["visit"]) /\ Interval["visit"].last
       /\ sim.cycle > session.from.cycle =>
       Len(dumps) > 0 /\ dumps[Len(dumps)] = sim.cycle

(* With a Visit interval in time, no multiple of the interval lies between  *)
(* the latest plot and the state at the top of the loop: the timer misses   *)
(* none, the first step of a restart included.  (hasIntervalPassed, given   *)
(* the includeInitial of PFModel::Run)                                      *)
NoPlotMissed ==
  pc = "loop" /\ IsActive(Interval["visit"]) /\ Interval["visit"].kind = "time" =>
    LET mark == IF timer["visit"].at = -1 THEN session.from.time ELSE timer["visit"].at
    IN  sim.time \div Interval["visit"].every = mark \div Interval["visit"].every

(* When the diagnostics count fewer grains than before, the next step       *)
(* extends the orientations again before it integrates.  (the two grain     *)
(* counts of resetGrains and Grains)                                        *)
MergeIsHandled ==
  IsActive(Interval["extend"]) /\ pc = "save" => ~ pending

(* In a submission the orientations are made fundamental at every multiple  *)
(* of the interval, although resetGrains keeps the timer from being asked.  *)
(* (QuatModel::Advance and resetGrains)                                     *)
FrameIsKept ==
  StepDue("fundamental") /\ SymmetryAware =>
    LET n   == Interval["fundamental"].every
        due == n * (sim.cycle \div n)
    IN  due > session.from.cycle => sim.frame >= due

(* A submission whose deck gives only max_delta_cycles does no more steps   *)
(* than that, one that gives max_cycles none past it, whatever the limits   *)
(* its restart file has.  (getFromInput and getFromRestart)                 *)
DeckIsObeyed ==
  LET d == session.deck
      done == sim.cycle - session.from.cycle
  IN  /\ d.delta # Unset /\ d.max = Unset => done <= d.delta
      /\ d.max # Unset /\ done > 0 /\ session.from.cycle > 0 => sim.cycle <= d.max

(* A submission does not stop short either: one that ends by itself before *)
(* the end time has done the max_delta_cycles of its deck, or has reached   *)
(* its max_cycles, although the run its file is from had ended at a limit   *)
(* of its own.  (getFromInput and getFromRestart)                           *)
DeckIsExhausted ==
  LET d    == session.deck
      from == session.from.cycle
      end  == IF d.end # Unset THEN d.end ELSE limit.time
  IN  pc = "done" /\ sim.time < end =>
        /\ d.delta # Unset /\ d.max = Unset => sim.cycle - from >= d.delta
        /\ d.max # Unset /\ (from > 0 \/ d.delta = Unset) => sim.cycle >= d.max

(* No file is written for the state a submission starts from unless the     *)
(* Restart block asks for the first step.  (input/example_full.in, Restart: *)
(* "include_first_step = FALSE  // optional, default=FALSE")                *)
FirstFileOnRequest ==
  pc = "loop" /\ sim = session.from /\ session.count = 1 /\ ~ Interval["restart"].first
    => DOMAIN files = {}

(* The run is a checkpointed run: it resumes only states it has saved and   *)
(* ends only at its limits.  (Run, writeRestartFile and Initialize)         *)
Promise == INSTANCE CheckpointedRun WITH
  at <- <<sim.cycle, sim.time>>,
  saved <- {<<n, files[n].sim.time>> : n \in DOMAIN files},
  limit <- <<limit.cycle, limit.time>>,
  phase <- CASE pc = "down" -> "down" [] pc = "done" -> "finished" [] OTHER -> "running"

ImplementsPromise == Promise!ASpec

=============================================================================
