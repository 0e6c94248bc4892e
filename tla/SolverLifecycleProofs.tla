------------------------ MODULE SolverLifecycleProofs ------------------------
(***************************************************************************)
(* What the integrator goes on from, and the schedules it uses, for every  *)
(* deck and every number of levels, steps, edits, regrids and sessions.    *)
(***************************************************************************)
EXTENDS SolverLifecycle, FiniteSetTheorems, TLAPS

-----------------------------------------------------------------------------
(* The finest level. *)

LEMMA LvlFacts ==
  /\ MaxLevels \in Nat \ {0} /\ Lvl \subseteq Nat /\ 0 \in Lvl
  /\ Lvl \cup {NotSet} = -1 .. MaxLevels - 1
BY LifecycleAssumption DEF Lvl, NotSet

(* The finest level is a level, or there is none.                          *)
LEMMA FinestType ==
  ASSUME NEW lv
  PROVE  FinestOf(lv) \in -1 .. MaxLevels - 1
<1> DEFINE S == {ln \in Lvl : lv[ln] # 0}
<1>1. IsFiniteSet(Lvl) /\ Cardinality(Lvl) = MaxLevels
  <2>1. /\ IsFiniteSet(0 .. MaxLevels - 1)
        /\ Cardinality(0 .. MaxLevels - 1)
             = IF 0 > MaxLevels - 1 THEN 0 ELSE (MaxLevels - 1) - 0 + 1
    BY LvlFacts, FS_Interval
  <2> QED
    BY <2>1, LvlFacts DEF Lvl
<1>2. IsFiniteSet(S) /\ Cardinality(S) <= MaxLevels
  BY <1>1, FS_Subset
<1>3. Cardinality(S) \in Nat
  BY <1>2, FS_CardinalityType
<1>4. FinestOf(lv) = Cardinality(S) - 1
  BY DEF FinestOf
<1> HIDE DEF S
<1> QED
  BY <1>2, <1>3, <1>4, LvlFacts

(* Levels are made from the coarsest on: the finest is the last.           *)
LEMMA FinestIs ==
  ASSUME NEW lv, NEW F \in -1 .. MaxLevels - 1,
         \A ln \in Lvl : lv[ln] # 0 <=> ln <= F
  PROVE  FinestOf(lv) = F
<1>1. {ln \in Lvl : lv[ln] # 0} = 0 .. F
  BY LvlFacts DEF Lvl
<1>2. F \in Int /\ -1 <= F
  BY LvlFacts
<1>3. Cardinality(0 .. F) = IF 0 > F THEN 0 ELSE F - 0 + 1
  BY <1>2, FS_Interval
<1>4. Cardinality(0 .. F) - 1 = F
  BY <1>2, <1>3
<1> QED
  BY <1>1, <1>4 DEF FinestOf

-----------------------------------------------------------------------------
(* Types. *)

Pairs == [Lvl -> Nat \X Nat]

Level == [Lvl -> Nat]

LEMMA DeckType ==
  ASSUME deck \in Decks
  PROVE  /\ deck.levels \in 1 .. MaxLevels /\ deck.data \in 0 .. MaxLevels - 1
         /\ deck.warm \in BOOLEAN /\ DeckLevels \subseteq Lvl
BY LifecycleAssumption DEF DeckLevels, Lvl

LEMMA NewSolverType ==
  ASSUME NEW lv, NEW fl \in Data, NEW t \in Time, NEW dt \in Nat
  PROVE  NewSolver(lv, fl, t, dt) \in Solver
BY FinestType, LvlFacts DEF NewSolver, Solver

LEMMA PairsType ==
  ASSUME NEW lv \in Level, NEW ln \in Lvl
  PROVE  /\ Below(ln, lv) \in Nat \X Nat /\ Above(ln, lv) \in Nat \X Nat
         /\ ln < FinestOf(lv) => <<lv[ln], lv[ln + 1]>> \in Nat \X Nat
<1>1. ln > 0 => ln - 1 \in Lvl
  BY LvlFacts DEF Lvl
<1>2. ln < MaxLevels - 1 => ln + 1 \in Lvl
  BY LvlFacts DEF Lvl
<1>3. FinestOf(lv) \in Int /\ FinestOf(lv) <= MaxLevels - 1 /\ ln \in Nat
  BY FinestType, LvlFacts DEF Lvl
<1>4. ln < FinestOf(lv) => ln < MaxLevels - 1
  BY <1>3, LvlFacts
<1> QED
  BY <1>1, <1>2, <1>4 DEF Level, Below, Above

LEMMA ConfigureType ==
  ASSUME TypeOK, NEW c, NEW lv \in Level, NEW fl \in Data, NEW kept \in Solver,
         Configure(c, lv, fl, kept)
  PROVE  /\ sched' \in Pairs /\ scratch' \in Pairs /\ weight' \in Pairs
         /\ solver' \in Solver /\ relax' \in Lvl \cup {NotSet}
<1>1. \A ln \in Lvl : ln \in FirstSchedule(c) .. FinestOf(lv) - 1 =>
        <<lv[ln], lv[ln + 1]>> \in Nat \X Nat
  <2> SUFFICES ASSUME NEW ln \in Lvl, ln \in FirstSchedule(c) .. FinestOf(lv) - 1
               PROVE  <<lv[ln], lv[ln + 1]>> \in Nat \X Nat
    OBVIOUS
  <2>1. ln <= FinestOf(lv) - 1
    OBVIOUS
  <2>2. ln \in Nat /\ FinestOf(lv) \in Int
    BY LvlFacts, FinestType
  <2>3. ln < FinestOf(lv)
    BY <2>1, <2>2
  <2> QED
    BY <2>3, PairsType
<1>2. sched' \in Pairs
  BY <1>1 DEF Configure, Schedules, TypeOK, Pairs
<1>3. scratch' \in Pairs
  BY PairsType DEF Configure, Schedules, TypeOK, Pairs
<1>4. weight' \in Pairs
  BY PairsType DEF Configure, Weights, Pairs
<1>5. solver' \in Solver
  <2>1. clock.current \in Time /\ clock.last \in Nat
    BY DEF TypeOK
  <2> QED
    BY <2>1, NewSolverType DEF Configure
<1> QED
  BY <1>2, <1>3, <1>4, <1>5, FinestType, LvlFacts DEF Configure

(* An edit, a step and a regrid make data of data.                         *)
LEMMA EditedType ==
  ASSUME field \in Data, NEW op \in Operation
  PROVE  Edited(op) \in Data
<1>1. \A h \in History : Append(h, op) \in History
  BY DEF History
<1> QED
  BY <1>1 DEF Edited, Data

LEMMA RefinedType ==
  ASSUME NEW data \in Data, NEW f
  PROVE  Refined(data, f) \in Data
BY DEF Refined, Data

LEMMA RegriddedType ==
  ASSUME TypeOK, NEW f
  PROVE  RegriddedSolver(f) \in Solver
<1>1. Refined(solver.zn, f) \in Data
  BY RefinedType DEF TypeOK, Solver
<1>2. Lost \in History
  BY DEF Lost, History
<1>3. [ln \in Lvl |-> IF ln = 0 THEN solver.zn[0] ELSE IF ln <= f THEN {Lost} ELSE {}] \in Data
  BY <1>2, LvlFacts DEF TypeOK, Solver, Data
<1>4. solver \in Solver /\ mapped \in BOOLEAN
  BY DEF TypeOK
<1> QED
  BY <1>1, <1>3, <1>4 DEF RegriddedSolver, Solver

LEMMA UpdateType ==
  ASSUME TypeOK, NEW fl \in Data
  PROVE  UpdateSolution(fl) \in Solver
BY NewSolverType DEF UpdateSolution, TypeOK

LEMMA TypeInit == Init => TypeOK
<1> SUFFICES ASSUME Init PROVE TypeOK
  OBVIOUS
<1>1. <<>> \in History
  BY DEF History
<1>2. field \in Data /\ Nothing \in Data
  BY <1>1 DEF Init, Data, Nothing
<1>3. NoSolver \in Solver
  BY <1>2 DEF NoSolver, Solver, Time
<1>4. FreshClock \in [model : Nat, stepsize : Nat, current : Time, last : Nat]
  BY DEF FreshClock, Time
<1> QED
  BY <1>2, <1>3, <1>4 DEF Init, TypeOK, Cause

LEMMA TypeStep == TypeOK /\ [Next]_vars => TypeOK'
<1> SUFFICES ASSUME TypeOK, [Next]_vars PROVE TypeOK'
  OBVIOUS
<1> USE DEF Pairs, Level
<1>t. /\ level \in Level /\ field \in Data /\ solver \in Solver
      /\ clock \in [model : Nat, stepsize : Nat, current : Time, last : Nat]
      /\ count \in [stamp : Nat, edits : Nat, regrids : Nat, session : Nat]
      /\ count.stamp + 1 \in Nat /\ count.edits + 1 \in Nat
      /\ count.regrids + 1 \in Nat /\ count.session + 1 \in Nat
      /\ clock.model \in Time /\ clock.last \in Nat /\ clock.current \in Time
  BY DEF TypeOK, Time
<1>d. /\ deck.levels \in 1 .. MaxLevels /\ deck.warm \in BOOLEAN /\ DeckLevels \subseteq Lvl
      /\ Finest \in -1 .. MaxLevels - 1 /\ Finest \in Lvl \cup {NotSet}
  BY DeckType, FinestType, LvlFacts DEF TypeOK, Finest
<1>a. ASSUME NEW why \in Cause, Abort(why) PROVE TypeOK'
  BY <1>a DEF Abort, state, TypeOK
<1>0. CASE UNCHANGED vars
  BY <1>0 DEF vars, TypeOK
<1>1. CASE Build
  <2>1. PICK ln \in Lvl, lv \in Level, fl \in Data :
          Configure(ln, lv, fl, solver) /\ level' = lv /\ field' = fl
    <3>1. Finest + 1 \in Lvl
      BY <1>1, <1>d, LvlFacts DEF Build, Lvl
    <3>2. /\ [level EXCEPT ![Finest + 1] = count.stamp + 1] \in Level
          /\ [field EXCEPT ![Finest + 1] = field[0]] \in Data
      BY <1>t, LvlFacts DEF Data
    <3> QED
      BY <1>1, <3>1, <3>2 DEF Build
  <2>2. /\ sched' \in Pairs /\ scratch' \in Pairs /\ weight' \in Pairs
        /\ solver' \in Solver /\ relax' \in Lvl \cup {NotSet}
    BY <1>t, <2>1, ConfigureType
  <2> QED
    BY <1>1, <1>t, <2>1, <2>2 DEF Build, TypeOK
<1>2. CASE BuildFails
  BY <1>2, <1>a DEF BuildFails, Cause
<1>3. CASE FillInitial
  BY <1>3 DEF FillInitial, state, TypeOK
<1>4. CASE InitializeIntegrator
  <2>1. NewSolver(level, field, clock.model, clock.last) \in Solver
    BY <1>t, NewSolverType
  <2>2. solver' \in Solver
    BY <1>4, <2>1 DEF InitializeIntegrator, Solver
  <2>3. clock' \in [model : Nat, stepsize : Nat, current : Time, last : Nat]
    BY <1>4, <1>t DEF InitializeIntegrator
  <2> QED
    BY <1>4, <1>d, <2>2, <2>3 DEF InitializeIntegrator, TypeOK
<1>5. CASE ResetGrains
  <2>1. Edited("grains") \in Data
    BY <1>t, EditedType DEF Operation
  <2>2. UpdateSolution(Edited("grains")) \in Solver
    BY <2>1, UpdateType
  <2> QED
    BY <1>5, <1>t, <1>d, <2>1, <2>2 DEF ResetGrains, TypeOK
<1>6. CASE MakeQuatFundamental
  <2>1. Edited("fundamental") \in Data
    BY <1>t, EditedType DEF Operation
  <2>2. UpdateSolution(Edited("fundamental")) \in Solver
    BY <2>1, UpdateType
  <2> QED
    BY <1>6, <1>t, <2>1, <2>2 DEF MakeQuatFundamental, TypeOK
<1>7. CASE EditFails
  BY <1>7, <1>a DEF EditFails, Cause
<1>8. CASE NoEdit
  BY <1>8 DEF NoEdit, state, TypeOK
<1>9. CASE SolveFails
  BY <1>9, <1>a DEF SolveFails, Cause
<1>10. CASE Step
  <2> DEFINE begun == IF solver.needs
                      THEN [solver EXCEPT !.zn = field, !.tn = solver.t0, !.needs = FALSE,
                                          !.ids = FALSE]
                      ELSE solver
             zn == [ln \in Lvl |-> IF ln \in 0 .. solver.span
                                   THEN {Append(h, "step") : h \in begun.zn[ln]}
                                   ELSE begun.zn[ln]]
             fl == [ln \in Lvl |-> IF ln \in 0 .. solver.span THEN zn[ln] ELSE field[ln]]
  <2>1. PICK dt \in 1 .. MaxStep :
          /\ solver' = [begun EXCEPT !.zn = zn, !.tn = @ + dt]
          /\ field' = [ln \in Lvl |-> UNION {fl[k] : k \in ln .. Finest}]
          /\ clock' = [model |-> clock.model + dt, stepsize |-> dt,
                       current |-> UpdateSolutionTime(begun.tn + dt), last |-> dt]
    BY <1>10 DEF Step
  <2>2. begun \in Solver
    BY <1>t DEF Solver
  <2>3. \A h \in History : Append(h, "step") \in History
    BY DEF History, Operation
  <2>4. begun.zn \in Data
    BY <2>2 DEF Solver
  <2>5. zn \in Data
    <3> HIDE DEF begun
    <3> QED
      BY <2>3, <2>4 DEF Data
  <2>6. fl \in Data
    <3> HIDE DEF zn
    <3> QED
      BY <1>t, <2>5 DEF Data
  <2>7. \A ln \in Lvl : \A k \in ln .. Finest : k \in Lvl
    BY <1>d, LvlFacts DEF Lvl
  <2>8. field' \in Data
    <3> HIDE DEF fl
    <3> QED
      BY <2>1, <2>6, <2>7 DEF Data
  <2>9. dt \in Nat /\ clock.model + dt \in Nat /\ begun.tn + dt \in Time
    <3>1. dt \in Nat /\ dt >= 1
      BY LifecycleAssumption
    <3>2. begun.tn \in Time
      BY <2>2 DEF Solver
    <3> HIDE DEF begun
    <3> QED
      BY <1>t, <3>1, <3>2 DEF Time, NotSet
  <2>10. solver' \in Solver
    <3> HIDE DEF begun, zn
    <3> QED
      BY <2>1, <2>2, <2>5, <2>9 DEF Solver
  <2>11. clock' \in [model : Nat, stepsize : Nat, current : Time, last : Nat]
    <3> HIDE DEF begun
    <3> QED
      BY <2>1, <2>9 DEF UpdateSolutionTime
  <2> QED
    BY <1>10, <2>8, <2>10, <2>11 DEF Step, TypeOK
<1>11. CASE WriteRestartFile
  BY <1>11, <1>t DEF WriteRestartFile, state, TypeOK
<1>12. CASE Regrid
  <2>1. PICK f \in 0 .. Finest + 1 :
          /\ level' = Rebuilt(f) /\ field' = Refined(field, f)
          /\ IF f = 0
             THEN /\ solver' = RegriddedSolver(0)
                  /\ UNCHANGED <<sched, scratch, weight, relax>>
             ELSE Configure(1, Rebuilt(f), Refined(field, f), RegriddedSolver(f))
    BY <1>12 DEF Regrid
  <2>2. Rebuilt(f) \in Level /\ Refined(field, f) \in Data
    BY <1>t, LvlFacts, RefinedType DEF Rebuilt
  <2>3. RegriddedSolver(f) \in Solver /\ RegriddedSolver(0) \in Solver
    BY RegriddedType
  <2>4. /\ sched' \in Pairs /\ scratch' \in Pairs /\ weight' \in Pairs
        /\ solver' \in Solver /\ relax' \in Lvl \cup {NotSet}
    <3>1. CASE f = 0
      BY <2>1, <2>3, <3>1 DEF TypeOK
    <3>2. CASE f # 0
      BY <2>1, <2>2, <2>3, <3>2, ConfigureType
    <3> QED
      BY <3>1, <3>2
  <2>5. mapped' \in BOOLEAN
    BY <1>12, <1>d DEF Regrid, TypeOK
  <2> QED
    BY <1>12, <1>t, <2>1, <2>2, <2>4, <2>5 DEF Regrid, TypeOK
<1>13. CASE RegridFails
  BY <1>13, <1>a DEF RegridFails, Cause
<1>14. CASE NoRegrid
  BY <1>14 DEF NoRegrid, state, TypeOK
<1>15. CASE Finish
  BY <1>15 DEF Finish, state, TypeOK
<1>16. CASE Crash
  BY <1>16 DEF Crash, state, TypeOK
<1>17. CASE RestartFails
  <2>1. PICK r \in file, ln \in DeckLevels :
          RestartFault(ln, r) # "none" /\ Abort(RestartFault(ln, r))
    BY <1>17 DEF RestartFails
  <2>2. RestartFault(ln, r) \in Cause
    BY DEF RestartFault, Cause
  <2> QED
    BY <1>a, <2>1, <2>2
<1>18. CASE Restart
  <2>1. PICK r \in file :
          /\ level' = r.level /\ field' = r.field
          /\ clock' = [model |-> r.time, stepsize |-> r.dt, current |-> NotSet, last |-> r.dt]
          /\ sched' = [ln \in Lvl |-> IF ln < FinestOf(r.level)
                                      THEN <<r.level[ln], r.level[ln + 1]>> ELSE <<0, 0>>]
          /\ scratch' = [ln \in Lvl |-> IF ln <= FinestOf(r.level)
                                        THEN Below(ln, r.level) ELSE <<0, 0>>]
          /\ weight' = [ln \in Lvl |-> Above(ln, r.level)]
          /\ solver' = [NewSolver(r.level, r.field, NotSet, 0) EXCEPT !.h0 = r.dt, !.needs = TRUE]
          /\ relax' = FinestOf(r.level)
    BY <1>18 DEF Restart
  <2>2. r.level \in Level /\ r.field \in Data /\ r.time \in Nat /\ r.dt \in Nat
    BY DEF TypeOK
  <2>3. clock' \in [model : Nat, stepsize : Nat, current : Time, last : Nat]
    BY <2>1, <2>2 DEF Time
  <2>4. sched' \in Pairs /\ scratch' \in Pairs /\ weight' \in Pairs
    BY <2>1, <2>2, PairsType
  <2>5. NewSolver(r.level, r.field, NotSet, 0) \in Solver
    BY <2>2, NewSolverType DEF Time
  <2>6. solver' \in Solver
    BY <2>1, <2>2, <2>5 DEF Solver
  <2>7. relax' \in Lvl \cup {NotSet}
    BY <2>1, FinestType, LvlFacts
  <2>8. /\ pc' = "init" /\ cause' = "none" /\ mapped' = FALSE /\ UNCHANGED <<deck, file>>
        /\ count' = [count EXCEPT !.edits = 0, !.regrids = 0, !.session = @ + 1]
    BY <1>18 DEF Restart
  <2>9. count' \in [stamp : Nat, edits : Nat, regrids : Nat, session : Nat]
    BY <1>t, <2>8
  <2> QED
    BY <2>1, <2>2, <2>3, <2>4, <2>6, <2>7, <2>8, <2>9 DEF TypeOK, Cause
<1> QED
  BY <1>0, <1>1, <1>2, <1>3, <1>4, <1>5, <1>6, <1>7, <1>8, <1>9, <1>10, <1>11, <1>12,
     <1>13, <1>14, <1>15, <1>16, <1>17, <1>18 DEF Next, Advance

(* Every variable keeps its type.                                          *)
THEOREM TypeCorrect == Spec => []TypeOK
BY TypeInit, TypeStep, PTL DEF Spec

-----------------------------------------------------------------------------
(* Levels and schedules. *)

(* Levels are there from the coarsest to the finest.                       *)
NoGap(lv) == \A ln \in Lvl : lv[ln] # 0 <=> ln <= FinestOf(lv)

(* Every schedule in use joins levels that are there: after each change of *)
(* the hierarchy, not only when a step begins.                             *)
MeshInv ==
  /\ NoGap(level) /\ \A r \in file : NoGap(r.level)
  /\ pc \notin {"build", "down", "aborted"} => Finest >= 0
  /\ \A ln \in 0 .. Finest - 1 : sched[ln] = <<level[ln], level[ln + 1]>>
  /\ \A ln \in 0 .. Finest : scratch[ln] = Below(ln, level)

LEMMA MeshInit == Init => MeshInv
<1> SUFFICES ASSUME Init PROVE MeshInv
  OBVIOUS
<1>1. \A ln \in Lvl : level[ln] # 0 <=> ln <= -1
  BY LvlFacts DEF Init, Lvl
<1>2. -1 \in -1 .. MaxLevels - 1
  BY LvlFacts
<1>3. FinestOf(level) = -1
  BY <1>1, <1>2, FinestIs
<1> QED
  BY <1>1, <1>3 DEF Init, MeshInv, NoGap, Finest

(* The levels after one was made, and after a regrid.                      *)
LEMMA BuiltLevels ==
  ASSUME level \in Level, NoGap(level), NEW s \in Nat \ {0}, Finest + 1 \in Lvl
  PROVE  FinestOf([level EXCEPT ![Finest + 1] = s]) = Finest + 1
<1> DEFINE lv == [level EXCEPT ![Finest + 1] = s]
<1>1. Finest \in Int
  BY FinestType, LvlFacts DEF Finest
<1>2. \A ln \in Lvl : lv[ln] # 0 <=> ln <= Finest + 1
  BY <1>1, LvlFacts DEF Level, NoGap, Finest
<1>3. Finest + 1 \in -1 .. MaxLevels - 1
  BY LvlFacts DEF Lvl
<1> HIDE DEF lv
<1>4. FinestOf(lv) = Finest + 1
  BY <1>2, <1>3, FinestIs
<1> QED
  BY <1>4 DEF lv

LEMMA RebuiltLevels ==
  ASSUME TypeOK, NoGap(level), Finest >= 0, NEW f \in Lvl
  PROVE  /\ FinestOf(Rebuilt(f)) = f /\ NoGap(Rebuilt(f)) /\ Rebuilt(f)[0] = level[0]
         /\ \A ln \in Lvl : ln > f => Rebuilt(f)[ln] = 0
<1>1. level[0] # 0 /\ count.stamp + 1 # 0
  BY LvlFacts DEF NoGap, Finest, TypeOK
<1>2. f \in Nat /\ f \in -1 .. MaxLevels - 1
  BY LvlFacts DEF Lvl
<1>3. \A ln \in Lvl : Rebuilt(f)[ln] # 0 <=> ln <= f
  BY <1>1, <1>2, LvlFacts DEF Rebuilt
<1>4. FinestOf(Rebuilt(f)) = f
  BY <1>2, <1>3, FinestIs
<1>5. \A ln \in Lvl : ln \in Nat
  BY LvlFacts
<1> QED
  BY <1>2, <1>3, <1>4, <1>5, LvlFacts DEF NoGap, Rebuilt

LEMMA MeshStep == TypeOK /\ MeshInv /\ [Next]_vars => MeshInv'
<1> SUFFICES ASSUME TypeOK, MeshInv, [Next]_vars PROVE MeshInv'
  OBVIOUS
<1>d. /\ DeckLevels \subseteq Lvl /\ 0 \in DeckLevels /\ level \in Level
      /\ sched \in Pairs /\ scratch \in Pairs
      /\ Finest \in -1 .. MaxLevels - 1 /\ Finest \in Int /\ deck.levels <= MaxLevels
      /\ deck.levels \in Nat /\ count.stamp + 1 \in Nat \ {0}
  BY DeckType, FinestType, LvlFacts DEF TypeOK, Finest, Level, Pairs, DeckLevels
(* Most steps leave the mesh as it is.                                     *)
<1>u. ASSUME UNCHANGED <<level, sched, scratch, file>>,
             pc' \notin {"down", "aborted"} => pc' \notin {"build"} /\ Finest >= 0
      PROVE  MeshInv'
  BY <1>u DEF MeshInv, NoGap, Finest, Below
<1>a. ASSUME NEW why, Abort(why) PROVE MeshInv'
  BY <1>a, <1>u DEF Abort, state
<1>0. CASE UNCHANGED vars
  BY <1>0 DEF vars, MeshInv, NoGap, Finest, Below
<1>1. CASE Build
  <2>1. Finest + 1 \in Lvl
    BY <1>1, <1>d, LvlFacts DEF Build, Lvl
  <2> DEFINE ln == Finest + 1
             lv == [level EXCEPT ![ln] = count.stamp + 1]
  <2>2. /\ level' = lv /\ pc' = pc /\ pc = "build" /\ file' = file
        /\ \E fl : Configure(ln, lv, fl, solver)
    BY <1>1 DEF Build
  <2>3. FinestOf(lv) = ln
    BY <1>d, <2>1, BuiltLevels DEF MeshInv
  <2>4. /\ lv[ln] = count.stamp + 1
        /\ \A k \in Lvl : k # ln => lv[k] = level[k]
    BY <1>d, <2>1 DEF Level
  <2>5. Finest' = ln
    BY <2>2, <2>3 DEF Finest
  <2>6. /\ sched' = [k \in Lvl |-> IF k \in FirstSchedule(ln) .. ln - 1
                                   THEN <<lv[k], lv[k + 1]>> ELSE sched[k]]
        /\ scratch' = [k \in Lvl |-> IF k \in ln .. ln THEN Below(k, lv) ELSE scratch[k]]
    BY <2>2, <2>3 DEF Configure, Schedules
  <2> HIDE DEF lv
  <2>7. NoGap(lv)
    BY <1>d, <2>1, <2>3, <2>4, LvlFacts DEF MeshInv, NoGap, Finest
  <2>8. \A k \in 0 .. ln - 1 : sched'[k] = <<lv[k], lv[k + 1]>>
    <3> SUFFICES ASSUME NEW k \in 0 .. ln - 1
                 PROVE  sched'[k] = <<lv[k], lv[k + 1]>>
      OBVIOUS
    <3>1. k \in Lvl /\ k \in Nat /\ k <= Finest
      BY <1>d, <2>1, LvlFacts DEF Lvl
    <3>2. CASE k = Finest
      BY <1>d, <2>6, <3>1, <3>2 DEF FirstSchedule
    <3>3. CASE k # Finest
      <4>1. k \in 0 .. Finest - 1 /\ k \notin FirstSchedule(ln) .. ln - 1
        BY <1>d, <3>1, <3>3 DEF FirstSchedule
      <4>2. k + 1 \in Lvl /\ k + 1 # ln /\ k # ln
        BY <1>d, <3>1, <3>3, <2>1, LvlFacts DEF Lvl
      <4>3. sched[k] = <<level[k], level[k + 1]>>
        BY <4>1 DEF MeshInv
      <4>4. lv[k] = level[k] /\ lv[k + 1] = level[k + 1]
        BY <2>4, <3>1, <4>2
      <4> QED
        BY <2>6, <3>1, <4>1, <4>3, <4>4
    <3> QED
      BY <3>2, <3>3
  <2>9. \A k \in 0 .. ln : scratch'[k] = Below(k, lv)
    <3> SUFFICES ASSUME NEW k \in 0 .. ln PROVE scratch'[k] = Below(k, lv)
      OBVIOUS
    <3>1. k \in Lvl /\ k \in Nat
      BY <1>d, <2>1, LvlFacts DEF Lvl
    <3>2. CASE k = ln
      BY <1>d, <2>6, <3>1, <3>2
    <3>3. CASE k # ln
      <4>1. k \in 0 .. Finest /\ k \notin ln .. ln
        BY <1>d, <3>1, <3>3
      <4>2. scratch[k] = Below(k, level)
        BY <4>1 DEF MeshInv
      <4>3. k > 0 => k - 1 \in Lvl /\ k - 1 # ln
        BY <1>d, <3>1, <4>1, LvlFacts DEF Lvl
      <4>4. Below(k, lv) = Below(k, level)
        BY <2>4, <3>1, <3>3, <4>3 DEF Below
      <4> QED
        BY <2>6, <3>1, <4>1, <4>2, <4>4
    <3> QED
      BY <3>2, <3>3
  <2> QED
    BY <2>2, <2>5, <2>7, <2>8, <2>9 DEF MeshInv, NoGap
<1>2. CASE BuildFails
  BY <1>2, <1>a DEF BuildFails
<1>3. CASE FillInitial
  BY <1>3, <1>u DEF FillInitial, state
<1>4. CASE InitializeIntegrator
  BY <1>4, <1>u DEF InitializeIntegrator, MeshInv
<1>5. CASE ResetGrains
  BY <1>5, <1>u DEF ResetGrains, MeshInv
<1>6. CASE MakeQuatFundamental
  BY <1>6, <1>u DEF MakeQuatFundamental, MeshInv
<1>7. CASE EditFails
  BY <1>7, <1>a DEF EditFails
<1>8. CASE NoEdit
  BY <1>8, <1>u DEF NoEdit, state, MeshInv
<1>9. CASE SolveFails
  BY <1>9, <1>a DEF SolveFails
<1>10. CASE Step
  BY <1>10, <1>u DEF Step, MeshInv
<1>11. CASE WriteRestartFile
  BY <1>11 DEF WriteRestartFile, state, MeshInv, NoGap, Finest, Below
<1>12. CASE Regrid
  <2>1. PICK f \in 0 .. Finest + 1 :
          /\ f \in DeckLevels /\ level' = Rebuilt(f)
          /\ IF f = 0
             THEN UNCHANGED <<sched, scratch>>
             ELSE Configure(1, Rebuilt(f), Refined(field, f), RegriddedSolver(f))
    BY <1>12 DEF Regrid
  <2>2. pc \in {"stepped", "saved"} /\ Finest >= 0 /\ pc' = "loop" /\ file' = file
    BY <1>12 DEF Regrid, MeshInv
  <2>3. f \in Lvl /\ f \in Nat
    BY <1>d, <2>1, LvlFacts
  <2>4. /\ FinestOf(Rebuilt(f)) = f /\ NoGap(Rebuilt(f)) /\ Rebuilt(f)[0] = level[0]
    BY <2>2, <2>3, RebuiltLevels DEF MeshInv
  <2>5. Finest' = f
    BY <2>1, <2>4 DEF Finest
  <2>6. scratch[0] = Below(0, level) /\ Below(0, level) = Below(0, Rebuilt(f))
    BY <1>d, <2>2, <2>4 DEF MeshInv, Below
  <2>7. CASE f = 0
    BY <2>1, <2>2, <2>4, <2>5, <2>6, <2>7 DEF MeshInv
  <2>8. CASE f # 0
    <3>1. /\ sched' = [k \in Lvl |-> IF k \in 0 .. f - 1
                                     THEN <<Rebuilt(f)[k], Rebuilt(f)[k + 1]>> ELSE sched[k]]
          /\ scratch' = [k \in Lvl |-> IF k \in 1 .. f THEN Below(k, Rebuilt(f)) ELSE scratch[k]]
      BY <2>1, <2>4, <2>8 DEF Configure, Schedules, FirstSchedule
    <3>2. \A k \in 0 .. f : k \in Lvl /\ (k = 0 \/ k \in 1 .. f)
      BY <2>3, LvlFacts DEF Lvl
    <3>3. \A k \in 0 .. f - 1 : k \in Lvl
      BY <2>3, LvlFacts DEF Lvl
    <3>4. \A k \in 0 .. f - 1 : sched'[k] = <<Rebuilt(f)[k], Rebuilt(f)[k + 1]>>
      BY <3>1, <3>3
    <3>5. \A k \in 0 .. f : scratch'[k] = Below(k, Rebuilt(f))
      BY <3>1, <3>2, <2>6
    <3> QED
      BY <2>1, <2>2, <2>3, <2>4, <2>5, <3>4, <3>5 DEF MeshInv
  <2> QED
    BY <2>7, <2>8
<1>13. CASE RegridFails
  BY <1>13, <1>a DEF RegridFails
<1>14. CASE NoRegrid
  BY <1>14, <1>u DEF NoRegrid, state, MeshInv
<1>15. CASE Finish
  BY <1>15, <1>u DEF Finish, state
<1>16. CASE Crash
  BY <1>16, <1>u DEF Crash, state
<1>17. CASE RestartFails
  BY <1>17, <1>a DEF RestartFails
<1>18. CASE Restart
  <2>1. PICK r \in file :
          /\ RestartFault(0, r) = "none" /\ level' = r.level
          /\ sched' = [ln \in Lvl |-> IF ln < FinestOf(r.level)
                                      THEN <<r.level[ln], r.level[ln + 1]>> ELSE <<0, 0>>]
          /\ scratch' = [ln \in Lvl |-> IF ln <= FinestOf(r.level)
                                        THEN Below(ln, r.level) ELSE <<0, 0>>]
    BY <1>18, <1>d DEF Restart
  <2>2. r.level[0] # 0
    BY <2>1 DEF RestartFault
  <2>3. NoGap(r.level)
    BY DEF MeshInv
  <2>4. FinestOf(r.level) \in -1 .. MaxLevels - 1 /\ 0 <= FinestOf(r.level)
    BY <2>2, <2>3, FinestType, LvlFacts DEF NoGap
  <2>5. \A k \in 0 .. FinestOf(r.level) : k \in Lvl /\ k <= FinestOf(r.level)
    BY <2>4, LvlFacts DEF Lvl
  <2>6. \A k \in 0 .. FinestOf(r.level) - 1 : k \in Lvl /\ k < FinestOf(r.level)
    BY <2>4, LvlFacts DEF Lvl
  <2>7. Finest' = FinestOf(r.level) /\ pc' = "init" /\ file' = file
    BY <1>18, <2>1 DEF Finest, Restart
  <2> QED
    BY <2>1, <2>3, <2>4, <2>5, <2>6, <2>7 DEF MeshInv
<1> QED
  BY <1>0, <1>1, <1>2, <1>3, <1>4, <1>5, <1>6, <1>7, <1>8, <1>9, <1>10, <1>11, <1>12,
     <1>13, <1>14, <1>15, <1>16, <1>17, <1>18 DEF Next, Advance

(* A step uses schedules of the levels that are there.                     *)
THEOREM SchedulesAreCurrent == Spec => []SchedulesCurrent
<1>1. MeshInv => SchedulesCurrent
  BY DEF MeshInv, SchedulesCurrent
<1> QED
  BY TypeInit, TypeStep, MeshInit, MeshStep, <1>1, PTL DEF Spec

-----------------------------------------------------------------------------
(* Times. *)

(* A solver goes on at the time of the model: one that has stepped is      *)
(* there, one that has not was given that time and the last step size.     *)
Timely(s) ==
  /\ ~ s.needs => s.tn = clock.model /\ s.t0 <= s.tn
  /\ s.needs \/ s.tn = s.t0 => s.t0 = clock.model /\ s.h0 = clock.last

ClockInv ==
  pc \in {"loop", "step", "stepped", "saved"} =>
    /\ clock.current = clock.model
    /\ Timely(solver)
    /\ pc = "step" => clock.model < EndTime

LEMMA NewIsTimely ==
  ASSUME NEW lv, NEW fl, clock.model \in Nat
  PROVE  /\ Timely(NewSolver(lv, fl, clock.model, clock.last))
         /\ Timely([NewSolver(lv, fl, clock.model, clock.last) EXCEPT !.needs = TRUE])
BY DEF Timely, NewSolver

LEMMA RegriddedIsTimely ==
  ASSUME solver \in Solver, Timely(solver), NEW f
  PROVE  Timely(RegriddedSolver(f))
<1>1. /\ RegriddedSolver(f).needs = solver.needs /\ RegriddedSolver(f).tn = solver.tn
      /\ RegriddedSolver(f).t0 = solver.t0 /\ RegriddedSolver(f).h0 = solver.h0
  BY DEF RegriddedSolver, Solver
<1> QED
  BY <1>1 DEF Timely

LEMMA ClockStep == TypeOK /\ ClockInv /\ [Next]_vars => ClockInv'
<1> SUFFICES ASSUME TypeOK, ClockInv, [Next]_vars PROVE ClockInv'
  OBVIOUS
<1>t. solver \in Solver /\ clock.model \in Nat /\ EndTime \in Nat
  BY LifecycleAssumption DEF TypeOK
<1>a. ASSUME NEW why, Abort(why) PROVE ClockInv'
  BY <1>a DEF Abort, ClockInv
(* Where the solver is the same, or one that is timely, the clock stays.   *)
<1>u. ASSUME pc \in {"loop", "step", "stepped", "saved"}, UNCHANGED clock, Timely(solver'),
             pc' = "step" => clock.model < EndTime
      PROVE  ClockInv'
  BY <1>u DEF ClockInv, Timely
<1>n. pc \in {"loop", "step", "stepped", "saved"} =>
        Timely(solver) /\ clock.current = clock.model
  BY DEF ClockInv
<1>0. CASE UNCHANGED vars
  BY <1>0 DEF vars, ClockInv, Timely
<1>1. CASE Build \/ FillInitial \/ Finish \/ Crash \/ Restart
  <2>1. pc' \in {"build", "init", "down"}
    BY <1>1 DEF Build, FillInitial, Finish, Crash, Restart
  <2> QED
    BY <2>1 DEF ClockInv
<1>2. CASE BuildFails \/ EditFails \/ SolveFails \/ RegridFails \/ RestartFails
  BY <1>2, <1>a DEF BuildFails, EditFails, SolveFails, RegridFails, RestartFails
<1>4. CASE InitializeIntegrator
  <2>1. /\ pc' = "loop"
        /\ solver' = [NewSolver(level, field, clock.model, clock.last) EXCEPT !.needs = TRUE]
        /\ clock'.current = clock.model /\ clock'.model = clock.model /\ clock'.last = clock.last
    BY <1>4 DEF InitializeIntegrator, TypeOK
  <2>2. Timely(solver')
    BY <1>t, <2>1, NewIsTimely
  <2> QED
    BY <2>1, <2>2 DEF ClockInv, Timely
<1>5. CASE ResetGrains
  BY <1>5, <1>n, <1>t, <1>u, NewIsTimely DEF ResetGrains, Continues, UpdateSolution
<1>6. CASE MakeQuatFundamental
  BY <1>6, <1>n, <1>t, <1>u, NewIsTimely DEF MakeQuatFundamental, Continues, UpdateSolution
<1>8. CASE NoEdit
  BY <1>8, <1>n, <1>u DEF NoEdit, state, Continues
<1>10. CASE Step
  <2> DEFINE begun == IF solver.needs
                      THEN [solver EXCEPT !.zn = field, !.tn = solver.t0, !.needs = FALSE,
                                          !.ids = FALSE]
                      ELSE solver
  <2>1. PICK dt, zn :
          /\ dt \in 1 .. MaxStep
          /\ solver' = [begun EXCEPT !.zn = zn, !.tn = @ + dt]
          /\ clock' = [model |-> clock.model + dt, stepsize |-> dt,
                       current |-> UpdateSolutionTime(begun.tn + dt), last |-> dt]
    BY <1>10 DEF Step
  <2>2. Timely(solver) /\ pc' = "stepped"
    BY <1>10, <1>n DEF Step
  <2>3. begun \in Solver /\ ~ begun.needs
    BY <1>t DEF Solver, TypeOK
  <2>4. begun.tn = clock.model /\ begun.t0 <= clock.model /\ begun.t0 \in Int
    <3>1. solver.t0 \in Int
      BY <1>t DEF Solver, Time, NotSet
    <3>2. CASE solver.needs
      BY <1>t, <2>2, <3>1, <3>2 DEF Timely, Solver
    <3>3. CASE ~ solver.needs
      BY <2>2, <3>1, <3>3 DEF Timely
    <3> QED
      BY <3>2, <3>3
  <2> HIDE DEF begun
  <2>5. /\ ~ solver'.needs /\ solver'.t0 = begun.t0 /\ solver'.tn = clock.model + dt
    BY <2>1, <2>3, <2>4 DEF Solver
  <2>6. dt \in Nat /\ dt >= 1
    BY <2>1, LifecycleAssumption
  <2>7. /\ clock'.model = clock.model + dt /\ clock'.current = clock.model + dt
    BY <2>1, <2>4 DEF UpdateSolutionTime
  <2> QED
    BY <1>t, <2>2, <2>4, <2>5, <2>6, <2>7 DEF ClockInv, Timely
<1>11. CASE WriteRestartFile
  BY <1>11, <1>n, <1>u DEF WriteRestartFile, state
<1>12. CASE Regrid
  <2>1. PICK f \in 0 .. Finest + 1 :
          IF f = 0 THEN solver' = RegriddedSolver(0)
          ELSE Configure(1, Rebuilt(f), Refined(field, f), RegriddedSolver(f))
    BY <1>12 DEF Regrid
  <2>2. /\ pc \in {"stepped", "saved"} /\ pc' = "loop" /\ UNCHANGED clock
    BY <1>12 DEF Regrid
  <2>3. Timely(RegriddedSolver(f)) /\ Timely(RegriddedSolver(0))
    BY <1>t, <1>n, <2>2, RegriddedIsTimely
  <2>4. Timely(NewSolver(Rebuilt(f), Refined(field, f), clock.current, clock.last))
    BY <1>t, <1>n, <2>2, NewIsTimely
  <2>5. Timely(solver')
    BY <2>1, <2>3, <2>4 DEF Configure
  <2> QED
    BY <1>u, <2>2, <2>5
<1>14. CASE NoRegrid
  BY <1>14, <1>n, <1>u DEF NoRegrid, state
<1> QED
  BY <1>0, <1>1, <1>2, <1>4, <1>5, <1>6, <1>8, <1>10, <1>11, <1>12, <1>14 DEF Next, Advance

(* The solver goes on at the time of the model and has something to do,    *)
(* after any sequence of steps, edits, regrids and restarts.               *)
THEOREM SolverResumesAtCurrent == Spec => []ResumesAtCurrent
<1>1. Init => ClockInv
  BY DEF Init, ClockInv
<1>2. TypeOK /\ ClockInv => ResumesAtCurrent
  <2> SUFFICES ASSUME TypeOK, ClockInv, pc \in {"loop", "step"}
               PROVE  /\ clock.current = clock.model
                      /\ ~ solver.needs => solver.tn = clock.model
                      /\ solver.needs \/ solver.tn = solver.t0 =>
                           solver.t0 = clock.model /\ solver.h0 = clock.last
                      /\ pc = "step" => solver.t0 < EndTime
    BY DEF ResumesAtCurrent
  <2>1. clock.current = clock.model /\ Timely(solver) /\ (pc = "step" => clock.model < EndTime)
    BY DEF ClockInv
  <2>2. clock.model \in Nat /\ solver.t0 \in Int /\ EndTime \in Nat
    BY LifecycleAssumption DEF TypeOK, Solver, Time, NotSet
  <2> QED
    BY <2>1, <2>2 DEF Timely
<1> QED
  BY TypeInit, TypeStep, ClockStep, <1>1, <1>2, PTL DEF Spec

-----------------------------------------------------------------------------
(* The histories of a cold start. *)

(* The data of the levels of lv, and of level 0 before there is one, have  *)
(* one history.                                                            *)
OneIs(lv, fl, h) ==
  \A ln \in Lvl : fl[ln] = IF ln <= FinestOf(lv) \/ ln = 0 THEN {h} ELSE {}

One(lv, fl) == \E h : OneIs(lv, fl, h)

LEMMA CompositeOfOne ==
  ASSUME NEW lv, NEW fl, NEW h, OneIs(lv, fl, h)
  PROVE  (UNION {fl[ln] : ln \in Lvl}) = {h}
BY LvlFacts DEF OneIs

LEMMA EditOne ==
  ASSUME NEW lv, NEW h, OneIs(lv, field, h), NEW op
  PROVE  OneIs(lv, Edited(op), Append(h, op))
BY DEF OneIs, Edited

LEMMA RefineOne ==
  ASSUME NEW h, OneIs(level, field, h), NEW f \in Lvl, f <= Finest + 1,
         NEW lv, FinestOf(lv) = f
  PROVE  OneIs(lv, Refined(field, f), h)
<1> SUFFICES ASSUME NEW ln \in Lvl
             PROVE  Refined(field, f)[ln] = IF ln <= f \/ ln = 0 THEN {h} ELSE {}
  BY DEF OneIs
<1>1. ln \in Nat /\ f \in Nat /\ Finest \in Int
  BY FinestType, LvlFacts DEF Finest
<1>2. CASE ~ (ln <= f)
  BY <1>1, <1>2 DEF Refined
<1>3. CASE ln <= f
  <2>1. \A k \in (ln - 1 .. ln) \cap Lvl : field[k] \in {{h}, {}}
    BY DEF OneIs
  <2>2. \E k \in (ln - 1 .. ln) \cap Lvl : field[k] = {h}
    <3>1. CASE ln = 0
      BY <1>1, <3>1 DEF OneIs
    <3>2. CASE ln # 0
      <4>1. ln - 1 \in Lvl /\ ln - 1 <= Finest /\ ln - 1 \in ln - 1 .. ln
        BY <1>1, <1>3, <3>2, LvlFacts DEF Lvl
      <4> QED
        BY <4>1 DEF OneIs, Finest
    <3> QED
      BY <3>1, <3>2
  <2>3. (UNION {field[k] : k \in (ln - 1 .. ln) \cap Lvl}) = {h}
    BY <2>1, <2>2
  <2> QED
    BY <1>3, <2>3 DEF Refined
<1> QED
  BY <1>2, <1>3

LEMMA BuildOne ==
  ASSUME TypeOK, MeshInv, Build, NEW h, OneIs(level, field, h)
  PROVE  OneIs(level', field', h)
<1>1. deck.levels <= MaxLevels /\ deck.levels \in Nat
  BY DeckType, LvlFacts DEF TypeOK
<1>2. Finest \in Int /\ -1 <= Finest /\ Finest + 1 \in Lvl
  BY <1>1, FinestType, LvlFacts DEF Build, Lvl, Finest
<1>3. count.stamp + 1 \in Nat \ {0} /\ level \in Level /\ field \in Data
  BY DEF TypeOK, Level
<1>4. FinestOf(level') = Finest + 1
  BY <1>2, <1>3, BuiltLevels DEF Build, MeshInv
<1>5. field[0] = {h}
  BY LvlFacts DEF OneIs
<1>6. field' = [field EXCEPT ![Finest + 1] = {h}]
  BY <1>5 DEF Build
<1>7. \A ln \in Lvl : field'[ln] = IF ln = Finest + 1 THEN {h} ELSE field[ln]
  BY <1>3, <1>6 DEF Data
<1> QED
  BY <1>2, <1>4, <1>7, LvlFacts DEF OneIs, Finest

LEMMA StepOne ==
  ASSUME TypeOK, MeshInv, Step, NEW h, OneIs(level, field, h),
         solver.span = Finest, solver.needs \/ \A ln \in Lvl : solver.zn[ln] = field[ln]
  PROVE  /\ OneIs(level', field', Append(h, "step"))
         /\ \A ln \in Lvl : solver'.zn[ln] = field'[ln]
         /\ solver'.span = solver.span /\ solver'.made = solver.made
<1> DEFINE begun == IF solver.needs
                    THEN [solver EXCEPT !.zn = field, !.tn = solver.t0, !.needs = FALSE,
                                        !.ids = FALSE]
                    ELSE solver
           zn == [ln \in Lvl |-> IF ln \in 0 .. solver.span
                                 THEN {Append(g, "step") : g \in begun.zn[ln]}
                                 ELSE begun.zn[ln]]
           fl == [ln \in Lvl |-> IF ln \in 0 .. solver.span THEN zn[ln] ELSE field[ln]]
<1>1. PICK dt \in 1 .. MaxStep : solver' = [begun EXCEPT !.zn = zn, !.tn = @ + dt]
  BY DEF Step
<1>2. field' = [ln \in Lvl |-> UNION {fl[k] : k \in ln .. Finest}] /\ level' = level
  BY DEF Step
<1>3. begun \in Solver /\ begun.span = solver.span /\ begun.made = solver.made
  BY DEF TypeOK, Solver
<1>4. \A ln \in Lvl : begun.zn[ln] = field[ln]
  BY DEF TypeOK, Solver
<1>5. Finest \in Nat /\ Finest <= MaxLevels - 1
  BY FinestType, LvlFacts DEF Step, MeshInv, Finest
<1>6. \A ln \in Lvl : field[ln] = IF ln <= Finest THEN {h} ELSE {}
  BY <1>5, LvlFacts DEF OneIs, Finest
<1>7. solver'.zn = zn /\ solver'.span = solver.span /\ solver'.made = solver.made
  <2> HIDE DEF begun, zn
  <2> QED
    BY <1>1, <1>3 DEF Solver
<1> HIDE DEF begun
<1>9. \A ln \in Lvl : zn[ln] = IF ln <= Finest THEN {Append(h, "step")} ELSE {}
  <2> SUFFICES ASSUME NEW ln \in Lvl
               PROVE  zn[ln] = IF ln <= Finest THEN {Append(h, "step")} ELSE {}
    OBVIOUS
  <2>1. ln \in 0 .. solver.span <=> ln <= Finest
    BY <1>5, LvlFacts
  <2>2. begun.zn[ln] = IF ln <= Finest THEN {h} ELSE {}
    BY <1>4, <1>6
  <2> QED
    BY <2>1, <2>2
<1> HIDE DEF zn
<1>10. \A ln \in Lvl : fl[ln] = IF ln <= Finest THEN {Append(h, "step")} ELSE {}
  <2> SUFFICES ASSUME NEW ln \in Lvl
               PROVE  fl[ln] = IF ln <= Finest THEN {Append(h, "step")} ELSE {}
    OBVIOUS
  <2>1. ln \in 0 .. solver.span <=> ln <= Finest
    BY <1>5, LvlFacts
  <2> QED
    BY <1>6, <1>9, <2>1
<1> HIDE DEF fl
<1>11. \A ln \in Lvl : field'[ln] = IF ln <= Finest THEN {Append(h, "step")} ELSE {}
  <2> SUFFICES ASSUME NEW ln \in Lvl
               PROVE  field'[ln] = IF ln <= Finest THEN {Append(h, "step")} ELSE {}
    OBVIOUS
  <2>1. ln \in Nat /\ \A k \in ln .. Finest : k \in Lvl /\ k <= Finest
    BY <1>5, LvlFacts DEF Lvl
  <2>2. CASE ln <= Finest
    <3>1. ln \in ln .. Finest
      BY <1>5, <2>1, <2>2
    <3>2. \A k \in ln .. Finest : fl[k] = {Append(h, "step")}
      BY <1>10, <2>1
    <3> QED
      BY <1>2, <2>2, <3>1, <3>2
  <2>3. CASE ~ (ln <= Finest)
    <3>1. ln .. Finest = {}
      BY <1>5, <2>1, <2>3
    <3> QED
      BY <1>2, <2>3, <3>1
  <2> QED
    BY <2>2, <2>3
<1>12. OneIs(level', field', Append(h, "step"))
  BY <1>2, <1>5, <1>11 DEF OneIs, Finest
<1> QED
  BY <1>7, <1>9, <1>11, <1>12

(* The solver of a cold start holds the solution, on the levels that are   *)
(* there, and its weights are of these levels - but after a regrid that    *)
(* has left fewer levels than the solver has; it cannot step then.         *)
ColdSolver ==
  /\ solver.span = Finest
  /\ \A ln \in 0 .. Finest : weight[ln] = Above(ln, level)
  /\ pc \in {"loop", "step", "stepped", "saved"} =>
       solver.made /\ (solver.needs \/ \A ln \in Lvl : solver.zn[ln] = field[ln])

LevelsGone == solver.made /\ solver.span > Finest

ColdInv ==
  /\ \A r, q \in file : r = q
  /\ ~ deck.warm =>
       /\ One(level, field) /\ \A r \in file : One(r.level, r.field)
       /\ ColdSolver \/ (LevelsGone /\ pc \in {"loop", "step", "down", "aborted"})

LEMMA ColdInit == Init => ColdInv
<1> SUFFICES ASSUME Init PROVE ColdInv
  OBVIOUS
<1>1. \A ln \in Lvl : level[ln] # 0 <=> ln <= -1
  BY LvlFacts DEF Init, Lvl
<1>2. Finest = -1
  BY <1>1, LvlFacts, FinestIs DEF Finest
<1>3. OneIs(level, field, <<>>)
  BY <1>2, LvlFacts DEF Init, OneIs, Finest
<1>4. ColdSolver
  BY <1>2 DEF Init, ColdSolver, NoSolver, NotSet
<1> QED
  BY <1>3, <1>4 DEF Init, ColdInv, One

LEMMA ColdStep == TypeOK /\ MeshInv /\ ColdInv /\ [Next]_vars => ColdInv'
<1> SUFFICES ASSUME TypeOK, MeshInv, ColdInv, [Next]_vars PROVE ColdInv'
  OBVIOUS
<1>d. /\ DeckLevels \subseteq Lvl /\ Finest \in Int /\ -1 <= Finest /\ Finest \in Lvl \cup {NotSet}
      /\ \A lv : FinestOf(lv) \in Int
  BY DeckType, FinestType, LvlFacts DEF TypeOK, Finest
<1>g. CanReset(level) => ~ LevelsGone
  <2>1. solver.span \in Int
    BY LvlFacts DEF TypeOK, Solver
  <2> QED
    BY <1>d, <2>1 DEF CanReset, LevelsGone, Finest
(* Steps that leave all of it as it is.                                    *)
<1>u. ASSUME UNCHANGED <<deck, level, field, weight, solver, file>>,
             pc' \in {"down", "aborted"} \/ pc' = pc \/ (pc = "loop" /\ pc' = "step")
             \/ pc \in {"stepped", "saved"} \/ (pc = "build" /\ pc' = "init")
      PROVE  ColdInv'
  BY <1>u DEF ColdInv, ColdSolver, LevelsGone, One, OneIs, Above, Finest
<1>a. ASSUME NEW why, Abort(why) PROVE ColdInv'
  BY <1>a, <1>u DEF Abort, state
<1>0. CASE UNCHANGED vars
  BY <1>0, <1>u DEF vars
<1>1. CASE Build
  <2>1. SUFFICES ASSUME ~ deck.warm PROVE ColdInv'
    BY <1>1 DEF Build, ColdInv
  <2>2. One(level', field')
    BY <1>1, <2>1, BuildOne DEF ColdInv, One
  <2>3. /\ file' = file /\ deck' = deck /\ pc' = "build"
        /\ \E c, t, dt, fl : /\ solver' = NewSolver(level', fl, t, dt)
                             /\ weight' = Weights(c, level')
    BY <1>1, <2>1 DEF Build, Configure
  <2>4. solver'.span = Finest'
    BY <2>3 DEF NewSolver, Finest
  <2>5. \A ln \in 0 .. Finest' : weight'[ln] = Above(ln, level')
    <3>1. \A ln \in 0 .. Finest' : ln \in Lvl
      BY FinestType, LvlFacts DEF Finest, Lvl
    <3> QED
      BY <2>3, <3>1 DEF Weights
  <2> QED
    BY <2>2, <2>3, <2>4, <2>5 DEF ColdInv, ColdSolver, Above
<1>2. CASE BuildFails \/ EditFails \/ SolveFails \/ RegridFails \/ RestartFails
  BY <1>2, <1>a DEF BuildFails, EditFails, SolveFails, RegridFails, RestartFails
<1>3. CASE FillInitial \/ NoEdit \/ WriteRestartFile \/ NoRegrid \/ Finish \/ Crash
  <2>1. CASE WriteRestartFile
    <3>1. pc = "stepped" /\ pc' = "saved" /\ UNCHANGED <<deck, level, field, weight, solver>>
      BY <2>1 DEF WriteRestartFile, state
    <3>2. \A r \in file' : r.level = level /\ r.field = field
      BY <2>1 DEF WriteRestartFile
    <3>3. \A r, q \in file' : r = q
      BY <2>1 DEF WriteRestartFile
    <3>4. SUFFICES ASSUME ~ deck.warm PROVE ColdInv'
      BY <3>1, <3>3 DEF ColdInv
    <3>5. ColdSolver'
      BY <3>1, <3>4 DEF ColdInv, ColdSolver, Above, Finest
    <3>6. One(level, field)
      BY <3>4 DEF ColdInv
    <3>7. One(level', field') /\ \A r \in file' : One(r.level, r.field)
      BY <3>1, <3>2, <3>6
    <3> QED
      BY <3>1, <3>3, <3>5, <3>7 DEF ColdInv
  <2>2. CASE ~ WriteRestartFile
    BY <1>3, <2>2, <1>u DEF FillInitial, NoEdit, NoRegrid, Finish, Crash, state
  <2> QED
    BY <2>1, <2>2
<1>4. CASE InitializeIntegrator
  <2>1. /\ pc = "init" /\ pc' = "loop" /\ UNCHANGED <<deck, level, field, weight, file>>
        /\ solver' = [NewSolver(level, field, clock.model, clock.last) EXCEPT !.needs = TRUE]
    BY <1>4 DEF InitializeIntegrator
  <2>2. solver'.made /\ solver'.needs /\ solver'.span = Finest
    BY <2>1 DEF NewSolver, Finest
  <2> QED
    BY <2>1, <2>2 DEF ColdInv, ColdSolver, One, OneIs, Above, Finest
<1>5. CASE ResetGrains \/ MakeQuatFundamental
  <2>1. SUFFICES ASSUME ~ deck.warm PROVE ColdInv'
    BY <1>5 DEF ResetGrains, MakeQuatFundamental, ColdInv
  <2>2. PICK op : /\ field' = Edited(op) /\ solver' = UpdateSolution(Edited(op))
                  /\ CanReset(level) /\ pc' = "step"
                  /\ UNCHANGED <<deck, level, weight, file>>
    BY <1>5, <2>1 DEF ResetGrains, MakeQuatFundamental
  <2>3. One(level', field')
    BY <2>1, <2>2, EditOne DEF ColdInv, One
  <2>4. ColdSolver
    BY <1>g, <2>1, <2>2 DEF ColdInv
  <2>5. solver'.made /\ solver'.span = Finest /\ solver'.zn = field'
    BY <2>1, <2>2 DEF UpdateSolution, NewSolver, Finest
  <2>6. ColdSolver'
    BY <2>2, <2>4, <2>5 DEF ColdSolver, Above, Finest
  <2> QED
    BY <2>2, <2>3, <2>6 DEF ColdInv, One, OneIs
<1>10. CASE Step
  <2>1. SUFFICES ASSUME ~ deck.warm PROVE ColdInv'
    BY <1>10 DEF Step, ColdInv
  <2>2. pc = "step" /\ CanReset(level) /\ pc' = "stepped" /\ UNCHANGED <<deck, level, weight, file>>
    BY <1>10 DEF Step
  <2>3. ColdSolver
    BY <1>g, <2>1, <2>2 DEF ColdInv
  <2>4. PICK h : OneIs(level, field, h)
    BY <2>1 DEF ColdInv, One
  <2>5. /\ OneIs(level', field', Append(h, "step"))
        /\ \A ln \in Lvl : solver'.zn[ln] = field'[ln]
        /\ solver'.span = solver.span /\ solver'.made = solver.made
    BY <1>10, <2>2, <2>3, <2>4, StepOne DEF ColdSolver
  <2>6. ColdSolver'
    BY <2>2, <2>3, <2>5 DEF ColdSolver, Above, Finest
  <2> QED
    BY <2>2, <2>5, <2>6 DEF ColdInv, One
<1>12. CASE Regrid
  <2>1. SUFFICES ASSUME ~ deck.warm PROVE ColdInv'
    BY <1>12 DEF Regrid, ColdInv
  <2>2. PICK f \in 0 .. Finest + 1 :
          /\ f \in DeckLevels /\ level' = Rebuilt(f) /\ field' = Refined(field, f)
          /\ IF f = 0
             THEN solver' = RegriddedSolver(0) /\ UNCHANGED weight
             ELSE Configure(1, Rebuilt(f), Refined(field, f), RegriddedSolver(f))
    BY <1>12 DEF Regrid
  <2>3. /\ pc \in {"stepped", "saved"} /\ pc' = "loop" /\ UNCHANGED <<deck, file>> /\ Finest >= 0
    BY <1>12 DEF Regrid, MeshInv
  <2>4. f \in Lvl /\ f \in Nat /\ f <= Finest + 1
    BY <1>d, <2>2, LvlFacts
  <2>5. FinestOf(level') = f /\ level'[0] = level[0] /\ \A ln \in Lvl : ln > f => level'[ln] = 0
    BY <2>2, <2>3, <2>4, RebuiltLevels DEF MeshInv
  <2>6. PICK h : OneIs(level, field, h)
    BY <2>1 DEF ColdInv, One
  <2>7. OneIs(level', field', h)
    BY <2>2, <2>4, <2>5, <2>6, RefineOne
  <2>8. ColdSolver
    BY <2>1, <2>3 DEF ColdInv
  <2>9. CASE f # 0
    <3>1. /\ solver' = NewSolver(level', field', clock.current, clock.last)
          /\ weight' = Weights(1, level')
      BY <2>1, <2>2, <2>9 DEF Configure
    <3>2. solver'.made /\ solver'.span = Finest' /\ solver'.zn = field'
      BY <3>1 DEF NewSolver, Finest
    <3>3. \A ln \in 0 .. Finest' : ln \in Lvl
      BY FinestType, LvlFacts DEF Finest, Lvl
    <3>4. \A ln \in 0 .. Finest' : weight'[ln] = Above(ln, level')
      BY <3>1, <3>3 DEF Weights
    <3>5. ColdSolver'
      BY <3>2, <3>4 DEF ColdSolver, Above
    <3> QED
      BY <2>3, <2>7, <3>5 DEF ColdInv, One
  <2>10. CASE f = 0 /\ Finest = 0
    <3>1. solver' = solver /\ weight' = weight
      BY <2>1, <2>2, <2>10 DEF RegriddedSolver
    <3>2. \A ln \in Lvl : ln > 0 => level[ln] = 0
      BY <2>10, LvlFacts DEF MeshInv, NoGap, Finest
    <3>3. Above(0, level') = Above(0, level)
      BY <2>5, <2>10, <3>2, LvlFacts DEF Above, Lvl
    <3>4. Finest' = 0
      BY <2>5, <2>10 DEF Finest
    <3>5. \A ln \in Lvl : field'[ln] = field[ln]
      BY <2>5, <2>6, <2>7, <2>10 DEF OneIs, Finest
    <3>6. solver.zn = solver'.zn /\ solver'.span = Finest' /\ weight'[0] = Above(0, level')
      BY <2>8, <2>10, <3>1, <3>3, <3>4 DEF ColdSolver
    <3>7. ColdSolver'
      BY <2>3, <2>8, <3>1, <3>4, <3>5, <3>6 DEF ColdSolver, Above
    <3> QED
      BY <2>3, <2>7, <3>7 DEF ColdInv, One
  <2>11. CASE f = 0 /\ Finest # 0
    <3>1. solver' = solver /\ Finest' = 0
      BY <2>1, <2>2, <2>5, <2>11 DEF RegriddedSolver, Finest
    <3>2. solver.made /\ solver.span = Finest /\ Finest > 0
      BY <1>d, <2>3, <2>8, <2>11 DEF ColdSolver
    <3>3. LevelsGone'
      BY <3>1, <3>2 DEF LevelsGone
    <3> QED
      BY <2>3, <2>7, <3>3 DEF ColdInv, One
  <2> QED
    BY <2>9, <2>10, <2>11
<1>18. CASE Restart
  <2>1. PICK r \in file :
          /\ level' = r.level /\ field' = r.field
          /\ weight' = [ln \in Lvl |-> Above(ln, r.level)]
          /\ solver' = [NewSolver(r.level, r.field, NotSet, 0) EXCEPT !.h0 = r.dt, !.needs = TRUE]
    BY <1>18 DEF Restart
  <2>2. pc' = "init" /\ UNCHANGED <<deck, file>>
    BY <1>18 DEF Restart
  <2>3. solver'.span = Finest'
    BY <2>1 DEF NewSolver, Finest
  <2>4. \A ln \in 0 .. Finest' : ln \in Lvl
    BY FinestType, LvlFacts DEF Finest, Lvl
  <2>5. ColdSolver'
    BY <2>1, <2>2, <2>3, <2>4 DEF ColdSolver, Above
  <2> QED
    BY <2>1, <2>2, <2>5 DEF ColdInv, One, OneIs
<1> QED
  BY <1>0, <1>1, <1>2, <1>3, <1>4, <1>5, <1>10, <1>12, <1>18 DEF Next, Advance

(* A cold start never steps with weights of levels that are gone.          *)
THEOREM WeightsAreCurrent == Spec => []UsesCurrentWeights
<1>1. ColdInv => UsesCurrentWeights
  BY DEF ColdInv, ColdSolver, UsesCurrentWeights
<1> QED
  BY TypeInit, TypeStep, MeshInit, MeshStep, ColdInit, ColdStep, <1>1, PTL DEF Spec

-----------------------------------------------------------------------------
(* The promise. *)

LEMMA PromiseInit == Init => Promise!HInit
<1> SUFFICES ASSUME Init PROVE Promise!HInit
  OBVIOUS
<1>1. (UNION {Composite(r.field) : r \in file}) = {}
  BY DEF Init
<1>2. (UNION {field[ln] : ln \in Lvl}) = {<<>>}
  BY LvlFacts DEF Init
<1> QED
  BY <1>1, <1>2 DEF Promise!HInit, Composite

LEMMA PromiseStep ==
  TypeOK /\ MeshInv /\ ColdInv /\ [Next]_vars => [Promise!HNext]_(Promise!hvars)
<1> SUFFICES ASSUME TypeOK, MeshInv, ColdInv, [Next]_vars
             PROVE  [Promise!HNext]_(Promise!hvars)
  OBVIOUS
<1>k. deck' = deck
  BY DEF Next, Advance, vars, Build, BuildFails, FillInitial, InitializeIntegrator, ResetGrains,
         MakeQuatFundamental, EditFails, NoEdit, Step, SolveFails, WriteRestartFile, Regrid,
         RegridFails, NoRegrid, Finish, Crash, Restart, RestartFails, Abort, state
<1> USE DEF Promise!HNext, Promise!hvars, Promise!Do, Promise!Save, Promise!Restore, Composite
(* A step that leaves the fields and the file is a stutter.                *)
<1>u. ASSUME UNCHANGED <<field, file>> PROVE [Promise!HNext]_(Promise!hvars)
  BY <1>k, <1>u
<1>w. CASE WriteRestartFile
  <2>1. /\ field' = field
        /\ file' = {[level |-> level, field |-> field, time |-> clock.model,
                     dt |-> clock.stepsize]}
    BY <1>w DEF WriteRestartFile, state
  <2>2. (UNION {Composite(r.field) : r \in file})' = Composite(field)
    BY <1>k, <2>1
  <2> QED
    BY <1>k, <2>1, <2>2
<1>1. CASE ~ WriteRestartFile /\ deck.warm
  <2>1. file' = file
    BY <1>1 DEF Next, Advance, vars, Build, BuildFails, FillInitial, InitializeIntegrator,
         ResetGrains, MakeQuatFundamental, EditFails, NoEdit, Step, SolveFails, Regrid,
         RegridFails, NoRegrid, Finish, Crash, Restart, RestartFails, Abort, state
  <2> QED
    BY <1>1, <1>k, <2>1
<1>2. CASE ~ WriteRestartFile /\ ~ deck.warm
  <2>h. PICK h : OneIs(level, field, h)
    BY <1>2 DEF ColdInv, One
  <2>0. (UNION {field[ln] : ln \in Lvl}) = {h}
    BY <2>h, CompositeOfOne
(* The solution keeps its history, or an operation is added to it.         *)
  <2>s. ASSUME file' = file, NEW lv, OneIs(lv, field', h)
        PROVE  [Promise!HNext]_(Promise!hvars)
    <3>1. (UNION {field'[ln] : ln \in Lvl}) = {h}
      BY <2>s, CompositeOfOne
    <3> QED
      BY <1>k, <1>2, <2>0, <2>s, <3>1
  <2>o. ASSUME file' = file, NEW lv, NEW op \in Operation, OneIs(lv, field', Append(h, op))
        PROVE  [Promise!HNext]_(Promise!hvars)
    <3>1. (UNION {field'[ln] : ln \in Lvl}) = {Append(h, op)}
      BY <2>o, CompositeOfOne
    <3>2. Promise!Do(op)
      BY <1>k, <1>2, <2>0, <2>o, <3>1
    <3> QED
      BY <3>2
  <2>1. CASE Build
    BY <2>1, <2>h, <2>s, BuildOne DEF Build
  <2>2. CASE ResetGrains
    <3>1. OneIs(level, field', Append(h, "grains")) /\ file' = file
      BY <2>2, <2>h, EditOne DEF ResetGrains
    <3> QED
      BY <2>o, <3>1 DEF Operation
  <2>3. CASE MakeQuatFundamental
    <3>1. OneIs(level, field', Append(h, "fundamental")) /\ file' = file
      BY <2>3, <2>h, EditOne DEF MakeQuatFundamental
    <3> QED
      BY <2>o, <3>1 DEF Operation
  <2>4. CASE Step
    <3>1. CanReset(level) /\ pc = "step" /\ file' = file
      BY <2>4 DEF Step
    <3>2. ~ LevelsGone
      <4>1. solver.span \in Int /\ FinestOf(level) \in Int
        BY FinestType, LvlFacts DEF TypeOK, Solver
      <4> QED
        BY <3>1, <4>1 DEF CanReset, LevelsGone, Finest
    <3>3. ColdSolver
      BY <1>2, <3>2 DEF ColdInv
    <3>4. OneIs(level', field', Append(h, "step"))
      BY <2>4, <2>h, <3>1, <3>3, StepOne DEF ColdSolver
    <3> QED
      BY <2>o, <3>1, <3>4 DEF Operation
  <2>5. CASE Regrid
    <3>1. PICK f \in 0 .. Finest + 1 : f \in DeckLevels /\ field' = Refined(field, f)
      BY <2>5 DEF Regrid
    <3>2. f \in Lvl /\ f <= Finest + 1 /\ Finest >= 0 /\ file' = file
      BY <2>5, <3>1, DeckType, FinestType, LvlFacts DEF Regrid, MeshInv, TypeOK, Finest
    <3>3. FinestOf(Rebuilt(f)) = f
      BY <3>2, RebuiltLevels DEF MeshInv
    <3>4. OneIs(Rebuilt(f), Refined(field, f), h)
      BY <2>h, <3>2, <3>3, RefineOne
    <3> QED
      BY <2>s, <3>1, <3>2, <3>4
  <2>6. CASE Restart
    <3>1. PICK r \in file : field' = r.field
      BY <2>6 DEF Restart
    <3>2. file' = file /\ file = {r}
      BY <2>6 DEF Restart, ColdInv
    <3>3. PICK g : OneIs(r.level, r.field, g)
      BY <1>2 DEF ColdInv, One
    <3>4. (UNION {r.field[ln] : ln \in Lvl}) = {g}
      BY <3>3, CompositeOfOne
    <3>5. (UNION {Composite(q.field) : q \in file}) = Composite(r.field)
      BY <3>2
    <3>6. Composite(r.field) = {g} /\ Composite(field)' = Composite(r.field)
      BY <1>2, <1>k, <3>1, <3>4
    <3>7. (UNION {Composite(q.field) : q \in file})' = UNION {Composite(q.field) : q \in file}
      BY <1>k, <3>2
    <3>8. Promise!Restore
      BY <3>5, <3>6, <3>7
    <3> QED
      BY <3>8
  <2>7. CASE ~ (Build \/ ResetGrains \/ MakeQuatFundamental \/ Step \/ Regrid \/ Restart)
    <3>1. UNCHANGED <<field, file>>
      BY <1>2, <2>7 DEF Next, Advance, vars, BuildFails, FillInitial, InitializeIntegrator,
           EditFails, NoEdit, SolveFails, RegridFails, NoRegrid, Finish, Crash, RestartFails,
           Abort, state
    <3> QED
      BY <1>u, <3>1
  <2> QED
    BY <2>1, <2>2, <2>3, <2>4, <2>5, <2>6, <2>7
<1> QED
  BY <1>w, <1>1, <1>2

(* The solution of a cold start is one, and is continued from what the     *)
(* last edit, regrid or restart left: SolverLifecycle implements           *)
(* SharedHistory.                                                          *)
THEOREM TheSolutionIsContinued == Spec => ContinuesTheSolution
BY TypeInit, TypeStep, MeshInit, MeshStep, ColdInit, ColdStep, PromiseInit, PromiseStep, PTL
DEF Spec, ContinuesTheSolution, Promise!HSpec

-----------------------------------------------------------------------------
(* The history vectors of a warm start. *)

Clean(fl) == \A ln \in Lvl : Lost \notin fl[ln]

(* Once the map of scratch data is filled, it has the vectors of the       *)
(* solver: in a warm start that is the solver the first step has begun     *)
(* with, up to the end of the session.                                     *)
MappedInv ==
  /\ Clean(field) /\ Clean(solver.zn) /\ \A r \in file : Clean(r.field)
  /\ pc \in {"build", "init"} => ~ mapped
  /\ pc \in {"stepped", "saved"} => ~ solver.needs
  /\ deck.warm /\ mapped => solver.ids /\ ~ solver.needs

(* No operation of the code makes the history of a lost value.             *)
LEMMA AppendClean ==
  ASSUME NEW h \in History, NEW op \in Operation
  PROVE  Append(h, op) # Lost
<1>1. Append(h, op)[Len(h) + 1] = op /\ Len(Append(h, op)) = Len(h) + 1
  BY DEF History, Operation
<1>2. Lost[1] # op /\ Len(Lost) = 1
  BY DEF Lost, Operation
<1>3. Len(h) \in Nat
  BY DEF History
<1> QED
  BY <1>1, <1>2, <1>3

LEMMA EditClean ==
  ASSUME field \in Data, NEW op \in Operation
  PROVE  Clean(Edited(op))
BY AppendClean DEF Clean, Edited, Data

LEMMA RefineClean ==
  ASSUME NEW data, Clean(data), NEW f
  PROVE  Clean(Refined(data, f))
BY DEF Clean, Refined

LEMMA StepClean ==
  ASSUME TypeOK, MappedInv, Step
  PROVE  Clean(field') /\ Clean(solver'.zn) /\ ~ solver'.needs
         /\ (~ solver.needs => solver'.ids = solver.ids)
<1> DEFINE begun == IF solver.needs
                    THEN [solver EXCEPT !.zn = field, !.tn = solver.t0, !.needs = FALSE,
                                        !.ids = FALSE]
                    ELSE solver
           zn == [ln \in Lvl |-> IF ln \in 0 .. solver.span
                                 THEN {Append(g, "step") : g \in begun.zn[ln]}
                                 ELSE begun.zn[ln]]
           fl == [ln \in Lvl |-> IF ln \in 0 .. solver.span THEN zn[ln] ELSE field[ln]]
<1>1. PICK dt \in 1 .. MaxStep : solver' = [begun EXCEPT !.zn = zn, !.tn = @ + dt]
  BY DEF Step
<1>2. field' = [ln \in Lvl |-> UNION {fl[k] : k \in ln .. Finest}]
  BY DEF Step
<1>3. begun \in Solver /\ ~ begun.needs /\ (~ solver.needs => begun.ids = solver.ids)
  BY DEF TypeOK, Solver
<1>4. Clean(begun.zn) /\ begun.zn \in Data
  BY DEF MappedInv, TypeOK, Solver
<1>5. solver'.zn = zn /\ solver'.needs = begun.needs /\ solver'.ids = begun.ids
  <2> HIDE DEF begun, zn
  <2> QED
    BY <1>1, <1>3 DEF Solver
<1> HIDE DEF begun
<1>6. \A ln \in Lvl : Lost \notin zn[ln]
  <2>1. \A ln \in Lvl : \A g \in begun.zn[ln] : Append(g, "step") # Lost
    BY <1>4, AppendClean DEF Data, Operation
  <2> QED
    BY <1>4, <2>1 DEF Clean
<1> HIDE DEF zn
<1>7. \A ln \in Lvl : Lost \notin fl[ln]
  BY <1>6 DEF MappedInv, Clean
<1> HIDE DEF fl
<1>8. \A ln \in Lvl : \A k \in ln .. Finest : k \in Lvl
  <2>1. Finest \in -1 .. MaxLevels - 1
    BY FinestType DEF Finest
  <2> QED
    BY <2>1, LvlFacts DEF Lvl
<1>9. Clean(field')
  BY <1>2, <1>7, <1>8 DEF Clean
<1> QED
  BY <1>3, <1>5, <1>6, <1>9 DEF Clean

LEMMA MappedStep == TypeOK /\ MappedInv /\ [Next]_vars => MappedInv'
<1> SUFFICES ASSUME TypeOK, MappedInv, [Next]_vars PROVE MappedInv'
  OBVIOUS
<1>t. field \in Data /\ deck.warm \in BOOLEAN /\ mapped \in BOOLEAN /\ solver \in Solver
  BY DeckType DEF TypeOK
<1>u. ASSUME UNCHANGED <<deck, field, solver, mapped, file>>,
             pc' \in {"loop", "step", "down", "aborted"} \/ pc' = pc
             \/ (pc = "build" /\ pc' = "init")
      PROVE  MappedInv'
  BY <1>u DEF MappedInv, Clean
<1>a. ASSUME NEW why, Abort(why) PROVE MappedInv'
  BY <1>a, <1>u DEF Abort, state
<1>0. CASE UNCHANGED vars
  BY <1>0, <1>u DEF vars
<1>1. CASE Build
  <2>1. /\ UNCHANGED <<pc, deck, mapped, file>> /\ pc = "build"
        /\ field' = [field EXCEPT ![Finest + 1] = field[0]]
        /\ \/ solver' = solver
           \/ \E lv, t, dt : solver' = NewSolver(lv, field', t, dt)
    BY <1>1 DEF Build, Configure
  <2>2. Clean(field')
    BY <1>t, <2>1, LvlFacts DEF MappedInv, Clean, Data
  <2>3. Clean(solver'.zn)
    <3>1. \A lv, t, dt : NewSolver(lv, field', t, dt).zn = field'
      BY DEF NewSolver
    <3>2. CASE solver' = solver
      BY <3>2 DEF MappedInv
    <3>3. CASE \E lv, t, dt : solver' = NewSolver(lv, field', t, dt)
      <4>1. PICK lv, t, dt : solver' = NewSolver(lv, field', t, dt)
        BY <3>3
      <4> QED
        BY <2>2, <3>1, <4>1
    <3> QED
      BY <2>1, <3>2, <3>3
  <2> QED
    BY <2>1, <2>2, <2>3 DEF MappedInv
<1>2. CASE BuildFails \/ EditFails \/ SolveFails \/ RegridFails \/ RestartFails
  BY <1>2, <1>a DEF BuildFails, EditFails, SolveFails, RegridFails, RestartFails
<1>3. CASE FillInitial \/ NoEdit \/ NoRegrid \/ Finish \/ Crash
  BY <1>3, <1>u DEF FillInitial, NoEdit, NoRegrid, Finish, Crash, state
<1>4. CASE InitializeIntegrator
  <2>1. /\ pc = "init" /\ pc' = "loop" /\ UNCHANGED <<deck, field, mapped, file>>
        /\ solver' = [NewSolver(level, field, clock.model, clock.last) EXCEPT !.needs = TRUE]
    BY <1>4 DEF InitializeIntegrator
  <2>2. solver'.zn = field
    BY <2>1 DEF NewSolver
  <2> QED
    BY <2>1, <2>2 DEF MappedInv
<1>5. CASE ResetGrains \/ MakeQuatFundamental
  <2>1. PICK op \in Operation :
          /\ field' = Edited(op) /\ solver' = UpdateSolution(Edited(op))
          /\ pc' = "step" /\ UNCHANGED <<deck, mapped, file>>
    BY <1>5 DEF ResetGrains, MakeQuatFundamental, Operation
  <2>2. Clean(field')
    BY <1>t, <2>1, EditClean
  <2>3. CASE deck.warm
    BY <2>1, <2>2, <2>3 DEF MappedInv, UpdateSolution
  <2>4. CASE ~ deck.warm
    <3>1. solver'.zn = field'
      BY <2>1, <2>4 DEF UpdateSolution, NewSolver
    <3> QED
      BY <2>1, <2>2, <2>4, <3>1 DEF MappedInv
  <2> QED
    BY <2>3, <2>4
<1>10. CASE Step
  <2>1. pc' = "stepped" /\ UNCHANGED <<deck, mapped, file>>
    BY <1>10 DEF Step
  <2> QED
    BY <1>10, <2>1, StepClean DEF MappedInv
<1>11. CASE WriteRestartFile
  <2>1. /\ pc = "stepped" /\ pc' = "saved" /\ UNCHANGED <<deck, field, solver, mapped>>
        /\ \A r \in file' : r.field = field
    BY <1>11 DEF WriteRestartFile, state
  <2> QED
    BY <2>1 DEF MappedInv
<1>12. CASE Regrid
  <2>1. PICK f \in 0 .. Finest + 1 :
          /\ field' = Refined(field, f)
          /\ IF f = 0 THEN solver' = RegriddedSolver(0)
             ELSE Configure(1, Rebuilt(f), Refined(field, f), RegriddedSolver(f))
    BY <1>12 DEF Regrid
  <2>2. /\ pc \in {"stepped", "saved"} /\ pc' = "loop" /\ UNCHANGED <<deck, file>>
        /\ mapped' = (mapped \/ deck.warm)
    BY <1>12 DEF Regrid
  <2>3. Clean(field')
    BY <2>1, RefineClean DEF MappedInv
  <2>4. CASE deck.warm
    <3>1. solver' = RegriddedSolver(f)
      BY <2>1, <2>4 DEF Configure
    <3>2. solver' = [solver EXCEPT !.ids = TRUE, !.zn = Refined(solver.zn, f)]
      BY <1>t, <2>4, <3>1 DEF RegriddedSolver, MappedInv
    <3>3. solver'.ids /\ solver'.needs = solver.needs /\ solver'.zn = Refined(solver.zn, f)
      BY <1>t, <3>2 DEF Solver
    <3>4. Clean(solver'.zn)
      BY <3>3, RefineClean DEF MappedInv
    <3> QED
      BY <2>2, <2>3, <3>3, <3>4 DEF MappedInv
  <2>5. CASE ~ deck.warm
    <3>1. \/ solver' = solver
          \/ solver' = NewSolver(Rebuilt(f), field', clock.current, clock.last)
      BY <2>1, <2>5 DEF Configure, RegriddedSolver
    <3>2. Clean(solver'.zn)
      BY <2>3, <3>1 DEF MappedInv, NewSolver
    <3> QED
      BY <2>2, <2>3, <2>5, <3>2 DEF MappedInv
  <2> QED
    BY <2>4, <2>5
<1>18. CASE Restart
  <2>1. PICK r \in file :
          /\ field' = r.field
          /\ solver' = [NewSolver(r.level, r.field, NotSet, 0) EXCEPT !.h0 = r.dt, !.needs = TRUE]
    BY <1>18 DEF Restart
  <2>2. pc' = "init" /\ mapped' = FALSE /\ UNCHANGED <<deck, file>>
    BY <1>18 DEF Restart
  <2>3. solver'.zn = r.field
    BY <2>1 DEF NewSolver
  <2> QED
    BY <2>1, <2>2, <2>3 DEF MappedInv
<1> QED
  BY <1>0, <1>1, <1>2, <1>3, <1>4, <1>5, <1>10, <1>11, <1>12, <1>18 DEF Next, Advance

(* No history vector is refined through data registered for another.       *)
THEOREM HistoriesAreMapped == Spec => []HistoryIsMapped
<1>1. Init => MappedInv
  <2> SUFFICES ASSUME Init PROVE MappedInv
    OBVIOUS
  <2>1. <<>> # Lost
    BY DEF Lost
  <2> QED
    BY <2>1 DEF Init, MappedInv, Clean, NoSolver, Nothing
<1>2. MappedInv => HistoryIsMapped
  BY DEF MappedInv, Clean, HistoryIsMapped
<1> QED
  BY TypeInit, TypeStep, MappedStep, <1>1, <1>2, PTL DEF Spec

-----------------------------------------------------------------------------
(***************************************************************************)
(* Which runs can be restarted: those of one level with a cold start, and  *)
(* no others.                                                              *)
(***************************************************************************)
OneLevelDecks == \A d \in Decks : d.levels = 1 /\ d.data = 0 /\ ~ d.warm

OtherDecks == \A d \in Decks : d.levels > 1 \/ d.warm

(* With one level the vectors always lie on the levels there are.          *)
OneLevelInv ==
  /\ pc # "aborted" /\ cause = "none"
  /\ Finest <= 0 /\ (pc \notin {"build", "down"} => Finest = 0)
  /\ solver.made => solver.span <= 0
  /\ relax <= 0
  /\ \A r \in file : r.level[0] # 0 /\ FinestOf(r.level) <= 0

LEMMA OneLevelInit == Init => OneLevelInv
<1> SUFFICES ASSUME Init PROVE OneLevelInv
  OBVIOUS
<1>1. \A ln \in Lvl : level[ln] # 0 <=> ln <= -1
  BY LvlFacts DEF Init, Lvl
<1>2. -1 \in -1 .. MaxLevels - 1
  BY LvlFacts
<1>3. FinestOf(level) = -1
  BY <1>1, <1>2, FinestIs
<1> QED
  BY <1>3 DEF Init, OneLevelInv, Finest, NoSolver, NotSet

LEMMA OneLevelStep ==
  ASSUME OneLevelDecks, TypeOK, MeshInv, OneLevelInv, [Next]_vars
  PROVE  OneLevelInv'
<1>1. /\ deck.levels = 1 /\ deck.data = 0 /\ ~ deck.warm /\ DeckLevels = {0}
      /\ Finest \in Int /\ -1 <= Finest /\ 0 \in Lvl
  BY FinestType, LvlFacts DEF TypeOK, OneLevelDecks, DeckLevels, Finest
<1>2. pc \notin {"build", "down"} => CanReset(level) /\ CanRelax(level)
  BY <1>1 DEF OneLevelInv, CanReset, CanRelax, TypeOK, Finest, Solver, Lvl, NotSet
<1>3. \A lv, fl, t, dt : FinestOf(lv) <= 0 =>
        NewSolver(lv, fl, t, dt).made /\ NewSolver(lv, fl, t, dt).span <= 0
  BY DEF NewSolver
<1>n. /\ ~ BuildFails /\ ~ EditFails /\ ~ SolveFails /\ ~ Regrid /\ ~ RegridFails
      /\ ~ RestartFails
  <2>1. ~ BuildFails
    <3>1. ~ Finest + 1 < deck.data
      BY <1>1
    <3> QED
      BY <3>1 DEF BuildFails
  <2>2. ~ EditFails /\ ~ SolveFails
    BY <1>2 DEF EditFails, SolveFails
  <2>3. ~ Regrid /\ ~ RegridFails
    BY <1>1 DEF Regrid, RegridFails
  <2>4. ~ RestartFails
    <3> SUFFICES ASSUME NEW r \in file, NEW ln \in DeckLevels, RestartFault(ln, r) # "none"
                 PROVE  FALSE
      BY DEF RestartFails
    <3>1. ln = 0 /\ r.level[0] # 0
      BY <1>1 DEF OneLevelInv
    <3> QED
      BY <1>1, <3>1 DEF RestartFault
  <2> QED
    BY <2>1, <2>2, <2>3, <2>4
<1>4. CASE Build
  <2> DEFINE lv == [level EXCEPT ![0] = count.stamp + 1]
  <2>1. Finest = -1 /\ pc' = pc /\ pc = "build" /\ cause' = cause /\ file' = file
    <3>1. Finest \in -1 .. MaxLevels - 1
      BY FinestType DEF Finest
    <3> QED
      BY <1>1, <1>4, <3>1, LvlFacts DEF Build
  <2>2. level' = lv /\ \E fl : Configure(0, lv, fl, solver)
    BY <1>4, <2>1 DEF Build
  <2>3. FinestOf(lv) = 0
    <3>1. level \in Level /\ NoGap(level) /\ count.stamp + 1 \in Nat \ {0}
      BY DEF TypeOK, Level, MeshInv
    <3> QED
      BY <1>1, <2>1, <3>1, BuiltLevels
  <2> HIDE DEF lv
  <2>4. solver'.made /\ solver'.span <= 0 /\ relax' <= 0
    BY <1>1, <1>3, <2>2, <2>3 DEF Configure
  <2> QED
    BY <2>1, <2>2, <2>3, <2>4 DEF OneLevelInv, Finest
<1>5. CASE FillInitial \/ NoEdit \/ NoRegrid \/ Finish \/ Crash
  <2>1. UNCHANGED <<cause, level, solver, relax, file>>
    BY <1>5 DEF FillInitial, NoEdit, NoRegrid, Finish, Crash, state
  <2>2. pc' # "aborted" /\ (pc' \notin {"build", "down"} => Finest = 0)
    BY <1>1, <1>5 DEF FillInitial, NoEdit, NoRegrid, Finish, Crash, OneLevelInv
  <2> QED
    BY <2>1, <2>2 DEF OneLevelInv, Finest
<1>6. CASE InitializeIntegrator
  <2>1. solver'.made /\ solver'.span = FinestOf(level)
    BY <1>6 DEF InitializeIntegrator, NewSolver
  <2> QED
    BY <1>6, <2>1 DEF InitializeIntegrator, OneLevelInv, Finest
<1>7. CASE ResetGrains \/ MakeQuatFundamental
  <2>1. solver'.made /\ solver'.span <= 0
    BY <1>1, <1>3, <1>7 DEF ResetGrains, MakeQuatFundamental, UpdateSolution, OneLevelInv, Finest
  <2> QED
    BY <1>7, <2>1 DEF ResetGrains, MakeQuatFundamental, OneLevelInv, Finest
<1>8. CASE Step
  <2>1. solver'.span = solver.span /\ solver'.made = solver.made
    BY <1>8 DEF Step, TypeOK, Solver
  <2> QED
    BY <1>8, <2>1 DEF Step, OneLevelInv, Finest
<1>9. CASE WriteRestartFile
  <2>1. level[0] # 0
    BY <1>1, <1>9 DEF WriteRestartFile, OneLevelInv, MeshInv, NoGap, Finest
  <2> QED
    BY <1>9, <2>1 DEF WriteRestartFile, state, OneLevelInv, Finest
<1>10. CASE Restart
  <2>1. PICK r \in file :
          /\ level' = r.level /\ relax' = FinestOf(r.level)
          /\ solver' = [NewSolver(r.level, r.field, NotSet, 0) EXCEPT !.h0 = r.dt, !.needs = TRUE]
    BY <1>10 DEF Restart
  <2>2. NoGap(r.level) /\ r.level[0] # 0 /\ FinestOf(r.level) <= 0
    BY DEF MeshInv, OneLevelInv
  <2>3. FinestOf(r.level) = 0
    <3>1. FinestOf(r.level) \in -1 .. MaxLevels - 1
      BY FinestType
    <3> QED
      BY <1>1, <2>2, <3>1, LvlFacts DEF NoGap
  <2>4. solver'.made /\ solver'.span = FinestOf(r.level)
    BY <2>1 DEF NewSolver
  <2> QED
    BY <1>10, <2>1, <2>2, <2>3, <2>4 DEF Restart, OneLevelInv, Finest
<1>11. CASE UNCHANGED vars
  BY <1>11 DEF vars, OneLevelInv, Finest
<1> QED
  BY <1>n, <1>4, <1>5, <1>6, <1>7, <1>8, <1>9, <1>10, <1>11 DEF Next, Advance

(***************************************************************************)
(* A run of one level with a cold start is never aborted, and starts again *)
(* from every file it has written: RestartedRunStarts, which fails with    *)
(* two levels, holds there.                                                *)
(***************************************************************************)
THEOREM OneLevelRunsRestart ==
  ASSUME OneLevelDecks
  PROVE  Spec => [](RestartedRunStarts /\ pc # "aborted")
<1>1. OneLevelInv => RestartedRunStarts /\ pc # "aborted"
  BY DEF OneLevelInv, RestartedRunStarts
<1>2. TypeOK /\ MeshInv /\ OneLevelInv /\ [Next]_vars => OneLevelInv'
  BY OneLevelStep
<1> QED
  BY TypeCorrect, MeshInit, MeshStep, OneLevelInit, <1>1, <1>2, PTL DEF Spec

(***************************************************************************)
(* Any other run, of more levels or with a warm start, can never be        *)
(* continued in a second submission, whatever its files hold.              *)
(* (initializeLevelData when the hierarchy comes from a restart file)      *)
(***************************************************************************)
THEOREM OtherRunsDoNot ==
  ASSUME OtherDecks
  PROVE  Spec => [](count.session = 1)
<1>1. Init => count.session = 1
  BY DEF Init
<1>2. TypeOK => ~ Restart
  <2> SUFFICES ASSUME TypeOK, Restart PROVE FALSE
    OBVIOUS
  <2>1. PICK r \in file : \A ln \in DeckLevels : RestartFault(ln, r) = "none"
    BY DEF Restart
  <2>2. deck.levels \in Nat /\ deck.levels >= 1 /\ (deck.levels > 1 \/ deck.warm)
    BY DeckType DEF TypeOK, OtherDecks
  <2>3. CASE deck.warm
    <3>1. 0 \in DeckLevels
      BY <2>2 DEF DeckLevels
    <3> QED
      BY <2>1, <2>3, <3>1 DEF RestartFault
  <2>4. CASE deck.levels > 1
    <3>1. 1 \in DeckLevels
      BY <2>2, <2>4 DEF DeckLevels
    <3> QED
      BY <2>1, <3>1 DEF RestartFault
  <2> QED
    BY <2>2, <2>3, <2>4
<1>3. TypeOK /\ count.session = 1 /\ [Next]_vars => (count.session = 1)'
  <2> SUFFICES ASSUME TypeOK, count.session = 1, Next PROVE (count.session = 1)'
    BY DEF vars
  <2>1. count \in [stamp : Nat, edits : Nat, regrids : Nat, session : Nat]
    BY DEF TypeOK
  <2> QED
    BY <1>2, <2>1 DEF Next, Advance, Build, BuildFails, FillInitial, InitializeIntegrator,
       ResetGrains, MakeQuatFundamental, EditFails, NoEdit, Step, SolveFails, Abort,
       WriteRestartFile, Regrid, RegridFails, NoRegrid, Finish, Crash, RestartFails
<1> QED
  BY TypeCorrect, <1>1, <1>3, PTL DEF Spec

=============================================================================
