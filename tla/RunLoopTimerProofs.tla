------------------------- MODULE RunLoopTimerProofs -------------------------
(***************************************************************************)
(* What the events of the run loop achieve: the last state is saved, the   *)
(* orientations are made fundamental, a kill costs a bounded amount and no *)
(* plot is missed or doubled, for all intervals, decks and time steps.     *)
(***************************************************************************)
EXTENDS RunLoopPromiseProofs

-----------------------------------------------------------------------------
(* What the steps do to the timers, the files and the plots. *)

LEMMA Started ==
  ASSUME TypeOK, Preliminaries
  PROVE  /\ pc = "initial" /\ pc' = "loop" /\ UNCHANGED <<sim, limit, flag>>
         /\ \A e \in {"restart", "extend", "fundamental"} : timer'[e] = timer[e]
         /\ timer'["visit"] = Evaluated(timer["visit"], sim.time, AtFirst("visit"))
         /\ DumpIf(AtFirst("visit")) /\ WriteIf(AtFirst("regrid"))
BY Typed DEF Preliminaries, Event

LEMMA StateSaved ==
  ASSUME TypeOK, SaveState
  PROVE  /\ pc = "save" /\ pc' = "grains" /\ UNCHANGED <<sim, limit, flag, dumps>>
         /\ \A e \in Event \ {"restart"} : timer'[e] = timer[e]
         /\ timer'["restart"] = Evaluated(timer["restart"], sim.time, Due("restart", sim.cycle))
         /\ WriteIf(Due("restart", sim.cycle))
BY Typed DEF SaveState, Evaluate, Event

LEMMA Diagnosed ==
  ASSUME TypeOK, Diagnose
  PROVE  /\ pc = "grains" /\ pc' = "visit"
         /\ UNCHANGED <<sim, limit, files, session, flag, dumps>>
         /\ \A e \in Event \ {"grains"} : timer'[e] = timer[e]
BY Typed DEF Diagnose, Evaluate, Event

LEMMA Plotted ==
  ASSUME TypeOK, Plot
  PROVE  /\ pc = "visit" /\ pc' = "regrid" /\ UNCHANGED <<sim, limit, files, session>>
         /\ \A e \in Event \ {"visit"} : timer'[e] = timer[e]
         /\ timer'["visit"] = Evaluated(timer["visit"], sim.time, Due("visit", sim.cycle))
         /\ flag' = Due("visit", sim.cycle) /\ DumpIf(Due("visit", sim.cycle))
BY Typed DEF Plot, Evaluate, Event

LEMMA Concluded ==
  ASSUME TypeOK, Conclude
  PROVE  /\ pc = "loop" /\ pc' = "done" /\ UNCHANGED <<sim, limit, flag>>
         /\ \A e \in Event \ {"visit", "restart"} : timer'[e] = timer[e]
         /\ \A e \in {"visit", "restart"} :
              timer'[e] = Evaluated(timer[e], sim.time, AtLast(e))
         /\ DumpIf(AtLast("visit") /\ ~ flag) /\ WriteIf(AtLast("restart"))
BY Typed DEF Conclude, Event

LEMMA Crashed ==
  ASSUME Crash
  PROVE  pc' = "down" /\ UNCHANGED <<sim, limit, timer, files, flag, session, dumps>>
BY DEF Crash

(* Times are numbers after a step, too.                                    *)
LEMMA TypedLater ==
  ASSUME TypeOK'
  PROVE  /\ sim'.cycle \in Nat /\ sim'.time \in Nat
         /\ \A e \in Event : timer'[e].at \in Nat \cup {-1} /\ timer'[e].prev \in Nat \cup {-1}
<1>1. sim' \in Simulation /\ timer' \in [Event -> [prev : Nat \cup {-1}, at : Nat \cup {-1}]]
  BY DEF TypeOK, Simulation, Event
<1> QED BY <1>1 DEF Simulation

LEMMA TimerRange ==
  ASSUME TypeOK, TypeOK', NEW e \in Event
  PROVE  /\ sim.time \in Nat /\ sim'.time \in Nat
         /\ timer[e].at \in Int /\ timer[e].at >= -1 /\ timer'[e].at \in Int
         /\ timer[e].prev \in Int /\ timer[e].prev >= -1 /\ timer'[e].prev \in Int
<1>1. timer[e].at \in Nat \cup {-1} /\ timer[e].prev \in Nat \cup {-1}
  BY Typed
<1>2. timer'[e].at \in Nat \cup {-1} /\ timer'[e].prev \in Nat \cup {-1}
  BY TypedLater
<1>3. sim.time \in Nat /\ sim'.time \in Nat
  BY Typed, TypedLater
<1> QED BY <1>1, <1>2, <1>3

LEMMA Restarted ==
  ASSUME TypeOK, Resubmit
  PROVE  /\ pc' = "initial" /\ flag' = TRUE /\ dumps' = <<>>
         /\ session'.from = sim' /\ session'.kept = sim'
         /\ \A e \in Event : timer'[e].at = -1 /\ timer'[e].prev = -1
<1>1. PICK d \in Deck :
        /\ pc' = "initial" /\ flag' = TRUE /\ dumps' = <<>>
        /\ timer' = [e \in Event |-> Fresh]
        /\ session' = [count |-> session.count + 1, deck |-> d, from |-> sim', kept |-> sim']
  BY Resubmitted
<1> QED BY <1>1 DEF Fresh

(* What is left of the history when a file is written, or not.             *)
LEMMA KeptByWrite ==
  ASSUME TypeOK, NEW event \in BOOLEAN, WriteIf(event)
  PROVE  /\ session'.from = session.from
         /\ session'.kept = IF event THEN sim ELSE session.kept
<1>1. CASE event
  BY <1>1, Typed DEF WriteIf, Write, History
<1>2. CASE ~ event
  BY <1>2 DEF WriteIf
<1> QED BY <1>1, <1>2

-----------------------------------------------------------------------------
(* The last state. *)

IsFiled ==
  /\ sim.cycle \in DOMAIN files
  /\ files[sim.cycle].sim.time = sim.time /\ files[sim.cycle].limit = limit

LEMMA FiledByWrite ==
  ASSUME NEW event \in BOOLEAN, WriteIf(event), event \/ IsFiled, UNCHANGED <<sim, limit>>
  PROVE  IsFiled'
<1>1. CASE event
  <2>1. /\ DOMAIN files' = DOMAIN files \cup {sim.cycle}
        /\ files'[sim.cycle] = [sim |-> sim, limit |-> limit]
    BY <1>1 DEF WriteIf, Write, Filed
  <2> QED BY <2>1 DEF IsFiled
<1>2. CASE ~ event
  BY <1>2 DEF WriteIf, IsFiled
<1> QED BY <1>1, <1>2

(* An event recorded at this time has left a file of this state; when the   *)
(* submission has ended by itself there has been one.                       *)
FinalInv ==
  LET last == timer["restart"].at
  IN  /\ last <= sim.time
      /\ last = sim.time => IsFiled
      /\ pc = "done" /\ IsActive(Interval["restart"]) /\ Interval["restart"].last
           => last = sim.time

(* A submission that ends by itself has its last state on disk, whatever    *)
(* event was recorded when.  (FinalStateSaved of RunLoop) *)
THEOREM FinalStateIsSaved == Spec => []FinalStateSaved
<1>1. TypeOK /\ Init => FinalInv
  <2> SUFFICES ASSUME TypeOK, Init PROVE FinalInv
    OBVIOUS
  <2>1. timer["restart"].at = -1 /\ pc = "initial"
    BY DEF Init, Event, Fresh
  <2> QED BY <2>1, Typed DEF FinalInv
<1>2. TypeOK /\ TypeOK' /\ FinalInv /\ [Next]_vars => FinalInv'
  <2> SUFFICES ASSUME TypeOK, TypeOK', FinalInv, [Next]_vars PROVE FinalInv'
    OBVIOUS
  <2>t. /\ sim.time \in Nat /\ sim'.time \in Nat
        /\ timer["restart"].at \in Int /\ timer'["restart"].at \in Int
    BY TimerRange DEF Event
  <2>w. ASSUME NEW event \in BOOLEAN, WriteIf(event), UNCHANGED <<sim, limit>>, IsFiled
        PROVE  IsFiled'
    BY <2>w, FiledByWrite
  <2>1. CASE Preliminaries
    BY <2>1, <2>w, Started, EventType DEF FinalInv, Event
  <2>2. CASE Advance
    <3>1. sim'.time > sim.time
      BY <2>2, <2>t, Advanced, RunAssumption
    <3> QED BY <2>2, <2>t, <3>1, Advanced DEF FinalInv
  <2>3. CASE SaveState
    <3>1. timer'["restart"].at = IF Due("restart", sim.cycle) THEN sim.time ELSE timer["restart"].at
      BY <2>3, StateSaved DEF Evaluated
    <3>2. timer'["restart"].at = sim.time => IsFiled'
      BY <2>3, <3>1, StateSaved, FiledByWrite, EventType DEF FinalInv, Event
    <3> QED BY <2>3, <2>t, <3>1, <3>2, StateSaved DEF FinalInv
  <2>4. CASE Diagnose
    BY <2>4, Diagnosed DEF FinalInv, Event, IsFiled
  <2>5. CASE Plot
    BY <2>5, Plotted DEF FinalInv, Event, IsFiled
  <2>6. CASE Regrid
    BY <2>6, Regridded DEF FinalInv, Event, IsFiled
  <2>7. CASE Conclude
    <3>1. timer'["restart"].at = IF AtLast("restart") THEN sim.time ELSE timer["restart"].at
      BY <2>7, Concluded DEF Evaluated
    <3>2. timer'["restart"].at = sim.time => IsFiled'
      BY <2>7, <3>1, Concluded, FiledByWrite, EventType DEF FinalInv, Event
    <3>3. IsActive(Interval["restart"]) /\ Interval["restart"].last
            => timer'["restart"].at = sim.time
      BY <3>1 DEF AtLast, IncludeFinal, OccurredAt
    <3> QED BY <2>7, <2>t, <3>1, <3>2, <3>3, Concluded DEF FinalInv
  <2>8. CASE Crash
    BY <2>8, Crashed DEF FinalInv, IsFiled
  <2>9. CASE Resubmit
    <3>1. timer'["restart"].at = -1 /\ pc' = "initial"
      BY <2>9, Restarted DEF Event
    <3> QED BY <2>t, <3>1 DEF FinalInv
  <2>10. CASE RestartFails \/ UNCHANGED vars
    BY <2>10, Failed DEF vars, FinalInv, IsFiled
  <2> QED BY <2>1, <2>2, <2>3, <2>4, <2>5, <2>6, <2>7, <2>8, <2>9, <2>10 DEF Next, Run
<1>3. FinalInv => FinalStateSaved
  BY DEF FinalInv, FinalStateSaved, IsFiled
<1> QED BY TypeCorrect, <1>1, <1>2, <1>3, PTL DEF Spec

-----------------------------------------------------------------------------
(* The orientations. *)

Period == Interval["fundamental"].every

(* Every multiple of the interval since the submission began has been made  *)
(* fundamental; no event of this timer can suppress the next, since the     *)
(* timer is asked before the time moves on.                                 *)
FrameInv ==
  /\ timer["fundamental"].at < sim.time
  /\ \A m \in session.from.cycle + 1 .. sim.cycle : m % Period = 0 => sim.frame >= m

LEMMA FrameAdvance ==
  ASSUME TypeOK, TypeOK', StepDue("fundamental"), SymmetryAware, FrameInv, Advance
  PROVE  FrameInv'
<1>t. /\ sim.time \in Nat /\ sim'.time \in Nat
      /\ timer["fundamental"].at \in Int /\ timer'["fundamental"].at \in Int
  BY TimerRange DEF Event
<1>c. sim.cycle \in Nat /\ sim.frame \in Nat /\ session.from.cycle \in Nat /\ session' = session
  BY Typed, Advanced
<1>1. sim'.cycle = sim.cycle + 1 /\ sim'.time > sim.time
      /\ sim'.frame = IF MakesFundamental(sim.cycle + 1) THEN sim.cycle + 1 ELSE sim.frame
  BY <1>t, Advanced, RunAssumption
<1>2. timer'["fundamental"].at < sim'.time
  <2>1. timer'["fundamental"] \in
          {timer["fundamental"],
           Evaluated(timer["fundamental"], sim.time, Due("fundamental", sim.cycle + 1))}
    BY Typed DEF Advance, Event
  <2>2. timer'["fundamental"].at \in {timer["fundamental"].at, sim.time}
    BY <2>1 DEF Evaluated
  <2> QED BY <1>t, <1>1, <2>2 DEF FrameInv
<1>3. ASSUME (sim.cycle + 1) % Period = 0 PROVE MakesFundamental(sim.cycle + 1)
  <2>1. CASE Resets(sim.cycle + 1)
    BY <2>1 DEF MakesFundamental, StepDue
  <2>2. CASE ~ Resets(sim.cycle + 1)
    <3>1. timer["fundamental"].at # sim.time
      BY <1>t DEF FrameInv
    <3>2. Due("fundamental", sim.cycle + 1)
      BY <1>3, <3>1 DEF Due, HasIntervalPassed, OccurredAt, StepDue, Period
    <3> QED BY <2>2, <3>2 DEF MakesFundamental
  <2> QED BY <2>1, <2>2
<1>4. ASSUME NEW m \in session'.from.cycle + 1 .. sim'.cycle, m % Period = 0
      PROVE  sim'.frame >= m
  <2>1. CASE m = sim.cycle + 1
    BY <1>c, <1>1, <1>3, <1>4, <2>1
  <2>2. CASE m # sim.cycle + 1
    <3>1. m \in session.from.cycle + 1 .. sim.cycle /\ m \in Int
      BY <1>c, <1>1, <2>2
    <3>2. sim.frame >= m
      BY <1>4, <3>1 DEF FrameInv
    <3> QED BY <1>c, <1>1, <3>1, <3>2
  <2> QED BY <2>1, <2>2
<1> QED BY <1>2, <1>4 DEF FrameInv, Period

(* Skipping the timer when the grains are reset loses no multiple of the    *)
(* interval.  (FrameIsKept of RunLoop) *)
THEOREM FramesAreKept == Spec => []FrameIsKept
<1> DEFINE Asked == StepDue("fundamental") /\ SymmetryAware
<1>1. TypeOK /\ Init => FrameInv
  <2> SUFFICES ASSUME TypeOK, Init PROVE FrameInv
    OBVIOUS
  <2>1. timer["fundamental"].at = -1 /\ session.from.cycle = sim.cycle
    BY DEF Init, Event, Fresh
  <2> QED BY <2>1, Typed DEF FrameInv
<1>2. TypeOK /\ TypeOK' /\ Asked /\ FrameInv /\ [Next]_vars => FrameInv'
  <2> SUFFICES ASSUME TypeOK, TypeOK', Asked, FrameInv, [Next]_vars PROVE FrameInv'
    OBVIOUS
  <2>1. CASE Advance
    BY <2>1, FrameAdvance
  <2>2. CASE Resubmit
    <3>1. /\ timer'["fundamental"].at = -1 /\ session'.from = sim'
          /\ sim'.time \in Nat /\ sim'.cycle \in Nat
      BY <2>2, Restarted, TypedLater DEF Event
    <3> QED BY <3>1 DEF FrameInv
  <2>3. CASE Run \/ Crash \/ RestartFails \/ UNCHANGED vars
    <3>1. CASE Advance
      BY <2>1, <3>1
    <3>2. CASE Preliminaries \/ SaveState \/ Conclude
      <4>1. sim' = sim /\ timer'["fundamental"] = timer["fundamental"]
        BY <3>2, Started, StateSaved, Concluded DEF Event
      <4>2. \E event \in BOOLEAN : WriteIf(event)
        BY <3>2, Started, StateSaved, Concluded, EventType DEF Event
      <4>3. session'.from = session.from
        BY <4>2, KeptByWrite
      <4> QED BY <4>1, <4>3 DEF FrameInv, Period
    <3>3. CASE Diagnose \/ Plot
      BY <3>3, Diagnosed, Plotted DEF FrameInv, Event, Period
    <3>4. CASE Regrid
      BY <3>4, Regridded DEF FrameInv, Event, Period
    <3>5. CASE Crash
      BY <3>5, Crashed DEF FrameInv, Period
    <3>6. CASE RestartFails \/ UNCHANGED vars
      BY <3>6, Failed DEF vars, FrameInv, Period
    <3> QED BY <2>3, <3>1, <3>2, <3>3, <3>4, <3>5, <3>6 DEF Run
  <2> QED BY <2>1, <2>2, <2>3 DEF Next
<1>3. TypeOK /\ (Asked => FrameInv) => FrameIsKept
  <2> SUFFICES ASSUME TypeOK, Asked, FrameInv,
                      Period * (sim.cycle \div Period) > session.from.cycle
               PROVE  sim.frame >= Period * (sim.cycle \div Period)
    BY DEF FrameIsKept, Period
  <2>1. Period \in Nat \ {0} /\ sim.cycle \in Nat /\ session.from.cycle \in Nat
    BY Typed, IntervalAssumption DEF StepDue, IsActive, Configuration, Event, Period
  <2>2. (sim.cycle \div Period) \in Nat /\ Period * (sim.cycle \div Period) <= sim.cycle
    BY <2>1
  <2>3. (Period * (sim.cycle \div Period)) % Period = 0
    BY <2>1, <2>2, Product
  <2>4. Period * (sim.cycle \div Period) \in session.from.cycle + 1 .. sim.cycle
    BY <2>1, <2>2
  <2> QED BY <2>3, <2>4 DEF FrameInv
<1> DEFINE Inv == Asked => FrameInv
<1>4. TypeOK /\ Init => Inv
  BY <1>1
<1>5. TypeOK /\ TypeOK' /\ Inv /\ [Next]_vars => Inv'
  BY <1>2 DEF StepDue, IsActive
<1>6. TypeOK /\ Inv => FrameIsKept
  BY <1>3
<1> HIDE DEF Inv
<1> QED BY <1>4, <1>5, <1>6, TypeCorrect, PTL DEF Spec

-----------------------------------------------------------------------------
(* The plots by time. *)

Spacing == Interval["visit"].every

Mark == IF timer["visit"].at = -1 THEN session.from.time ELSE timer["visit"].at

(* Where the time has moved on and the timer not been asked, the previous   *)
(* time it knows lies in the interval of the latest plot; elsewhere the     *)
(* time does.                                                               *)
PlotInv ==
  /\ pc = "initial" => timer["visit"].at = -1 /\ sim.time = session.from.time
  /\ pc \in {"loop", "regrid"} =>
       timer["visit"].prev = sim.time /\ sim.time \div Spacing = Mark \div Spacing
  /\ pc \in {"save", "grains", "visit"} =>
       /\ timer["visit"].prev \in 0 .. sim.time /\ timer["visit"].at < sim.time
       /\ timer["visit"].prev \div Spacing = Mark \div Spacing
  /\ timer["visit"].at <= sim.time

LEMMA DivMono ==
  ASSUME NEW r \in Nat \ {0}, NEW a \in Nat, NEW b \in Nat, a <= b
  PROVE  a \div r <= b \div r
<1>1. /\ (a \div r) \in Int /\ a % r \in 0 .. r - 1 /\ a = r * (a \div r) + (a % r)
      /\ (b \div r) \in Int /\ b % r \in 0 .. r - 1 /\ b = r * (b \div r) + (b % r)
  OBVIOUS
<1>2. SUFFICES ASSUME (a \div r) >= (b \div r) + 1 PROVE FALSE
  BY <1>1
<1>3. r * (a \div r) >= r * ((b \div r) + 1)
  BY <1>1, <1>2
<1>4. r * ((b \div r) + 1) = r * (b \div r) + r
  BY <1>1
<1> QED BY <1>1, <1>3, <1>4

LEMMA SameQuotient ==
  ASSUME NEW r \in Nat \ {0}, NEW a \in Nat, NEW b \in Nat, a \div r = b \div r
  PROVE  b - a < r
<1>1. /\ (a \div r) \in Int /\ a % r \in 0 .. r - 1 /\ a = r * (a \div r) + (a % r)
      /\ b % r \in 0 .. r - 1 /\ b = r * (b \div r) + (b % r)
  OBVIOUS
<1>2. PICK q \in Int : q = r * (a \div r)
  BY <1>1
<1>3. a = q + (a % r) /\ b = q + (b % r)
  BY <1>1, <1>2
<1> QED BY <1>1, <1>3

(* The timer misses no multiple of its interval, however long the steps     *)
(* are.  (NoPlotMissed of RunLoop) *)
THEOREM NoPlotIsMissed == Spec => []NoPlotMissed
<1> DEFINE Timed == IsActive(Interval["visit"]) /\ Interval["visit"].kind = "time"
<1>1. TypeOK /\ Init => PlotInv
  <2> SUFFICES ASSUME TypeOK, Init PROVE PlotInv
    OBVIOUS
  <2>1. timer["visit"].at = -1 /\ session.from = sim /\ pc = "initial"
    BY DEF Init, Event, Fresh
  <2> QED BY <2>1, Typed DEF PlotInv
<1>2. TypeOK /\ TypeOK' /\ Timed /\ PlotInv /\ [Next]_vars => PlotInv'
  <2> SUFFICES ASSUME TypeOK, TypeOK', Timed, PlotInv, [Next]_vars PROVE PlotInv'
    OBVIOUS
  <2>t. /\ sim.time \in Nat /\ sim'.time \in Nat
        /\ timer["visit"].at \in Int /\ timer["visit"].at >= -1 /\ timer'["visit"].at \in Int
        /\ timer["visit"].prev \in Int /\ timer'["visit"].prev \in Int
    BY TimerRange DEF Event
  <2>r. Spacing \in Nat \ {0}
    BY IntervalAssumption DEF IsActive, Configuration, Event, Spacing
  <2> USE DEF Mark, Spacing
  <2>1. CASE Preliminaries
    <3>1. /\ pc = "initial" /\ pc' = "loop" /\ sim' = sim
          /\ timer'["visit"] = Evaluated(timer["visit"], sim.time, AtFirst("visit"))
          /\ session'.from = session.from
      BY <2>1, Started, KeptByWrite, EventType DEF Event
    <3> QED BY <2>t, <3>1 DEF PlotInv, Evaluated
  <2>2. CASE Advance
    <3>1. /\ pc = "loop" /\ pc' = "save" /\ session' = session
          /\ timer'["visit"] = timer["visit"]
      BY <2>2, Advanced
    <3>2. sim'.time > sim.time
      BY <2>2, <2>t, Advanced, RunAssumption
    <3> QED BY <2>t, <3>1, <3>2 DEF PlotInv
  <2>3. CASE SaveState
    <3>1. /\ pc = "save" /\ pc' = "grains" /\ sim' = sim
          /\ timer'["visit"] = timer["visit"] /\ session'.from = session.from
      BY <2>3, StateSaved, KeptByWrite, EventType DEF Event
    <3> QED BY <3>1 DEF PlotInv
  <2>4. CASE Diagnose
    BY <2>4, Diagnosed DEF PlotInv, Event
  <2>5. CASE Plot
    <3>1. /\ pc = "visit" /\ pc' = "regrid" /\ sim' = sim /\ session' = session
          /\ timer'["visit"] = Evaluated(timer["visit"], sim.time, Due("visit", sim.cycle))
      BY <2>5, Plotted
    <3>2. /\ timer["visit"].prev \in 0 .. sim.time /\ timer["visit"].at < sim.time
          /\ timer["visit"].prev \div Spacing = Mark \div Spacing
      BY <3>1 DEF PlotInv
    <3>3. CASE Due("visit", sim.cycle)
      <4>1. timer'["visit"].prev = sim.time /\ timer'["visit"].at = sim.time
        BY <3>1, <3>3 DEF Evaluated
      <4> QED BY <2>t, <3>1, <4>1 DEF PlotInv
    <3>4. CASE ~ Due("visit", sim.cycle)
      <4>1. timer'["visit"].prev = sim.time /\ timer'["visit"].at = timer["visit"].at
        BY <3>1, <3>4 DEF Evaluated
      <4>2. ~ (sim.time \div Spacing > timer["visit"].prev \div Spacing)
        BY <2>t, <3>2, <3>4 DEF Due, HasIntervalPassed, OccurredAt
      <4>3. timer["visit"].prev \div Spacing <= sim.time \div Spacing
        BY <2>t, <2>r, <3>2, DivMono
      <4>4. (sim.time \div Spacing) \in Int /\ (timer["visit"].prev \div Spacing) \in Int
        BY <2>t, <2>r
      <4>5. sim.time \div Spacing = Mark \div Spacing
        BY <3>2, <4>2, <4>3, <4>4
      <4> QED BY <2>t, <3>1, <3>2, <4>1, <4>5 DEF PlotInv
    <3> QED BY <3>3, <3>4
  <2>6. CASE Regrid
    BY <2>6, Regridded DEF PlotInv, Event
  <2>7. CASE Conclude
    <3>1. /\ pc' = "done" /\ sim' = sim
          /\ timer'["visit"] = Evaluated(timer["visit"], sim.time, AtLast("visit"))
      BY <2>7, Concluded
    <3> QED BY <2>t, <3>1 DEF PlotInv, Evaluated
  <2>8. CASE Crash
    BY <2>8, Crashed DEF PlotInv
  <2>9. CASE Resubmit
    <3>1. timer'["visit"].at = -1 /\ pc' = "initial" /\ session'.from = sim'
      BY <2>9, Restarted DEF Event
    <3> QED BY <2>t, <3>1 DEF PlotInv
  <2>10. CASE RestartFails \/ UNCHANGED vars
    BY <2>10, Failed DEF vars, PlotInv
  <2> QED BY <2>1, <2>2, <2>3, <2>4, <2>5, <2>6, <2>7, <2>8, <2>9, <2>10 DEF Next, Run
<1> DEFINE Inv == Timed => PlotInv
<1>3. TypeOK /\ Init => Inv
  BY <1>1
<1>4. TypeOK /\ TypeOK' /\ Inv /\ [Next]_vars => Inv'
  BY <1>2 DEF IsActive
<1>5. Inv => NoPlotMissed
  BY DEF PlotInv, NoPlotMissed, Mark, Spacing
<1> HIDE DEF Inv
<1> QED BY <1>3, <1>4, <1>5, TypeCorrect, PTL DEF Spec

-----------------------------------------------------------------------------
(* The plots of a submission. *)

LEMMA DumpedPlots ==
  ASSUME TypeOK, NEW event \in BOOLEAN, DumpIf(event)
  PROVE  /\ ~ event => dumps' = dumps
         /\ event => /\ Len(dumps') = Len(dumps) + 1 /\ dumps'[Len(dumps')] = sim.cycle
                     /\ \A i \in DOMAIN dumps : dumps'[i] = dumps[i]
                     /\ DOMAIN dumps' = DOMAIN dumps \cup {Len(dumps')}
                     /\ \A i \in DOMAIN dumps : i < Len(dumps')
         /\ DOMAIN dumps \subseteq Nat /\ Len(dumps) \in Nat
<1>1. dumps \in Seq(Nat) /\ sim.cycle \in Nat
  BY Typed
<1> QED BY <1>1 DEF DumpIf

Increasing == \A i, j \in DOMAIN dumps : i < j => dumps[i] < dumps[j]

Before == \A i \in DOMAIN dumps : dumps[i] < sim.cycle

DumpedNow == Len(dumps) > 0 /\ dumps[Len(dumps)] = sim.cycle

(* The flag is up if the state at the top of the loop has been plotted, or  *)
(* is the one the submission started from.                                  *)
DumpInv ==
  /\ Increasing
  /\ pc = "initial" => dumps = <<>> /\ flag /\ sim.cycle = session.from.cycle
  /\ pc \in {"save", "grains", "visit"} => Before /\ timer["visit"].at < sim.time
  /\ pc \in {"loop", "regrid"} =>
       /\ IF flag THEN DumpedNow \/ sim.cycle = session.from.cycle
                  ELSE Before /\ timer["visit"].at < sim.time
       /\ \A i \in DOMAIN dumps : dumps[i] <= sim.cycle
  /\ pc = "done" /\ IsActive(Interval["visit"]) /\ Interval["visit"].last =>
       DumpedNow \/ sim.cycle = session.from.cycle
  /\ timer["visit"].at <= sim.time

(* A plot of a cycle after those plotted keeps the plots in order.          *)
LEMMA DumpOrder ==
  ASSUME TypeOK, NEW event \in BOOLEAN, DumpIf(event), Increasing, event => Before, sim' = sim
  PROVE  /\ Increasing'
         /\ event => DumpedNow'
         /\ (\A i \in DOMAIN dumps : dumps[i] <= sim.cycle)
              => \A i \in DOMAIN dumps' : dumps'[i] <= sim.cycle
<1>1. CASE event
  <2> DEFINE n == Len(dumps')
  <2>1. /\ n = Len(dumps) + 1 /\ dumps'[n] = sim.cycle
        /\ \A i \in DOMAIN dumps : dumps'[i] = dumps[i] /\ i < n
        /\ DOMAIN dumps' = DOMAIN dumps \cup {n}
        /\ DOMAIN dumps \subseteq Nat /\ Len(dumps) \in Nat
    BY <1>1, DumpedPlots
  <2>2. n \in Nat /\ sim.cycle \in Nat
    BY <2>1, Typed
  <2> HIDE DEF n
  <2>3. ASSUME NEW i \in DOMAIN dumps', NEW j \in DOMAIN dumps', i < j
        PROVE  dumps'[i] < dumps'[j]
    <3>1. i \in DOMAIN dumps
      BY <2>1, <2>2, <2>3
    <3>2. CASE j = n
      BY <1>1, <2>1, <3>1, <3>2 DEF Before
    <3>3. CASE j \in DOMAIN dumps
      BY <2>1, <2>3, <3>1, <3>3 DEF Increasing
    <3> QED BY <2>1, <3>2, <3>3
  <2>4. DumpedNow'
    BY <2>1 DEF DumpedNow, n
  <2>5. (\A i \in DOMAIN dumps : dumps[i] <= sim.cycle)
          => \A i \in DOMAIN dumps' : dumps'[i] <= sim.cycle
    BY <2>1, <2>2
  <2> QED BY <2>3, <2>4, <2>5 DEF Increasing
<1>2. CASE ~ event
  BY <1>2, DumpedPlots DEF Increasing
<1> QED BY <1>1, <1>2

(* The plots are of different cycles, in order, and the last cycle is among *)
(* them.  (PlotsOnceAndLast of RunLoop) *)
THEOREM PlotsAreInOrder == Spec => []PlotsOnceAndLast
<1>1. TypeOK /\ Init => DumpInv
  <2> SUFFICES ASSUME TypeOK, Init PROVE DumpInv
    OBVIOUS
  <2>1. /\ timer["visit"].at = -1 /\ session.from = sim /\ pc = "initial"
        /\ dumps = <<>> /\ flag = TRUE
    BY DEF Init, Event, Fresh
  <2> QED BY <2>1, Typed DEF DumpInv, Increasing
<1>2. TypeOK /\ TypeOK' /\ DumpInv /\ [Next]_vars => DumpInv'
  <2> SUFFICES ASSUME TypeOK, TypeOK', DumpInv, [Next]_vars PROVE DumpInv'
    OBVIOUS
  <2>t. /\ sim.time \in Nat /\ sim'.time \in Nat
        /\ timer["visit"].at \in Int /\ timer["visit"].at >= -1 /\ timer'["visit"].at \in Int
    BY TimerRange DEF Event
  <2>c. /\ sim.cycle \in Nat /\ \A i \in DOMAIN dumps : dumps[i] \in Nat
        /\ Increasing /\ timer["visit"].at <= sim.time
    BY Typed DEF DumpInv
  <2> USE DEF Before, DumpedNow
  <2>1. CASE Preliminaries
    <3>1. /\ pc = "initial" /\ pc' = "loop" /\ sim' = sim /\ flag' = flag
          /\ timer'["visit"] = Evaluated(timer["visit"], sim.time, AtFirst("visit"))
          /\ session'.from = session.from /\ DumpIf(AtFirst("visit"))
      BY <2>1, Started, KeptByWrite, EventType DEF Event
    <3>2. dumps = <<>> /\ flag /\ sim.cycle = session.from.cycle
      BY <3>1 DEF DumpInv
    <3>3. Increasing' /\ \A i \in DOMAIN dumps' : dumps'[i] <= sim.cycle
      BY <3>1, <3>2, DumpOrder, EventType DEF Event, Increasing
    <3>4. timer'["visit"].at <= sim.time
      BY <2>t, <2>c, <3>1 DEF Evaluated
    <3> QED BY <3>1, <3>2, <3>3, <3>4 DEF DumpInv
  <2>2. CASE Advance
    <3>1. /\ pc = "loop" /\ pc' = "save" /\ session' = session /\ dumps' = dumps
          /\ timer'["visit"] = timer["visit"] /\ sim'.cycle = sim.cycle + 1
      BY <2>2, Advanced
    <3>2. sim'.time > sim.time
      BY <2>2, <2>t, Advanced, RunAssumption
    <3>3. \A i \in DOMAIN dumps : dumps[i] <= sim.cycle
      BY <3>1 DEF DumpInv
    <3> QED BY <2>t, <2>c, <3>1, <3>2, <3>3 DEF DumpInv, Increasing
  <2>3. CASE SaveState
    <3>1. /\ pc = "save" /\ pc' = "grains" /\ sim' = sim /\ dumps' = dumps
          /\ timer'["visit"] = timer["visit"] /\ session'.from = session.from
      BY <2>3, StateSaved, KeptByWrite, EventType DEF Event
    <3> QED BY <3>1 DEF DumpInv, Increasing
  <2>4. CASE Diagnose
    BY <2>4, Diagnosed DEF DumpInv, Increasing, Event
  <2>5. CASE Plot
    <3>1. /\ pc = "visit" /\ pc' = "regrid" /\ sim' = sim /\ session' = session
          /\ timer'["visit"] = Evaluated(timer["visit"], sim.time, Due("visit", sim.cycle))
          /\ flag' = Due("visit", sim.cycle) /\ DumpIf(Due("visit", sim.cycle))
      BY <2>5, Plotted
    <3>2. Before /\ timer["visit"].at < sim.time
      BY <3>1 DEF DumpInv
    <3>3. \A i \in DOMAIN dumps : dumps[i] <= sim.cycle
      BY <2>c, <3>2
    <3>4. /\ Increasing' /\ \A i \in DOMAIN dumps' : dumps'[i] <= sim.cycle
          /\ Due("visit", sim.cycle) => DumpedNow'
      BY <2>c, <3>1, <3>2, <3>3, DumpOrder, EventType DEF Event
    <3>5. CASE Due("visit", sim.cycle)
      <4>1. timer'["visit"].at = sim.time
        BY <3>1, <3>5 DEF Evaluated
      <4> QED BY <2>t, <3>1, <3>4, <3>5, <4>1 DEF DumpInv
    <3>6. CASE ~ Due("visit", sim.cycle)
      <4>1. timer'["visit"].at = timer["visit"].at /\ dumps' = dumps
        BY <3>1, <3>6 DEF Evaluated, DumpIf
      <4> QED BY <2>t, <3>1, <3>2, <3>4, <3>6, <4>1 DEF DumpInv
    <3> QED BY <3>5, <3>6
  <2>6. CASE Regrid
    BY <2>6, Regridded DEF DumpInv, Increasing, Event
  <2>7. CASE Conclude
    <3> DEFINE event == AtLast("visit") /\ ~ flag
    <3>1. /\ pc = "loop" /\ pc' = "done" /\ sim' = sim /\ flag' = flag
          /\ timer'["visit"] = Evaluated(timer["visit"], sim.time, AtLast("visit"))
          /\ session'.from = session.from /\ DumpIf(event)
      BY <2>7, Concluded, KeptByWrite, EventType DEF Event
    <3>2. IF flag THEN DumpedNow \/ sim.cycle = session.from.cycle
                  ELSE Before /\ timer["visit"].at < sim.time
      BY <3>1 DEF DumpInv
    <3>3. event \in BOOLEAN /\ (event => Before) /\ (~ event => dumps' = dumps)
      BY <3>1, <3>2 DEF DumpIf
    <3>4. IsActive(Interval["visit"]) /\ Interval["visit"].last /\ ~ flag => event
      BY <2>t, <3>2 DEF AtLast, IncludeFinal, OccurredAt
    <3>5. timer'["visit"].at <= sim.time
      BY <2>t, <2>c, <3>1 DEF Evaluated
    <3> HIDE DEF event
    <3>6. Increasing' /\ (event => DumpedNow')
      BY <2>c, <3>1, <3>3, DumpOrder
    <3>7. IsActive(Interval["visit"]) /\ Interval["visit"].last
            => DumpedNow' \/ sim.cycle = session.from.cycle
      BY <3>1, <3>2, <3>3, <3>4, <3>6 DEF event
    <3> QED BY <3>1, <3>5, <3>6, <3>7 DEF DumpInv
  <2>8. CASE Crash
    BY <2>8, Crashed DEF DumpInv, Increasing
  <2>9. CASE Resubmit
    <3>1. /\ timer'["visit"].at = -1 /\ pc' = "initial" /\ session'.from = sim'
          /\ flag' = TRUE /\ dumps' = <<>>
      BY <2>9, Restarted DEF Event
    <3> QED BY <2>t, <3>1 DEF DumpInv, Increasing
  <2>10. CASE RestartFails \/ UNCHANGED vars
    BY <2>10, Failed DEF vars, DumpInv, Increasing
  <2> QED BY <2>1, <2>2, <2>3, <2>4, <2>5, <2>6, <2>7, <2>8, <2>9, <2>10 DEF Next, Run
<1>3. TypeOK /\ DumpInv => PlotsOnceAndLast
  BY Typed DEF DumpInv, PlotsOnceAndLast, Increasing, DumpedNow
<1> QED BY TypeCorrect, <1>1, <1>2, <1>3, PTL DEF Spec

-----------------------------------------------------------------------------
(* What a kill costs. *)

Cost == Interval["restart"].every

(* By steps: the last state on disk, or the one the submission started      *)
(* from, is not older than any multiple of the interval.                    *)
SavedUpTo(c) == \A m \in 0 .. c : m % Cost = 0 => m <= session.kept.cycle

StepsInv ==
  /\ pc \in {"initial", "loop", "grains", "visit", "regrid"} => SavedUpTo(sim.cycle)
  /\ pc = "save" => SavedUpTo(sim.cycle - 1) /\ timer["restart"].at < sim.time
  /\ timer["restart"].at <= sim.time

LEMMA StepsStep ==
  ASSUME TypeOK, TypeOK', StepDue("restart"), StepsInv, [Next]_vars
  PROVE  StepsInv'
<1>t. /\ sim.time \in Nat /\ sim'.time \in Nat /\ sim.cycle \in Nat /\ sim'.cycle \in Nat
      /\ timer["restart"].at \in Int /\ timer["restart"].at >= -1 /\ timer'["restart"].at \in Int
      /\ timer["restart"].at <= sim.time
  BY TimerRange, Typed, TypedLater DEF Event, StepsInv
<1>w. ASSUME NEW event \in BOOLEAN, WriteIf(event), sim' = sim, SavedUpTo(sim.cycle)
      PROVE  SavedUpTo(sim.cycle)'
  BY <1>w, <1>t, KeptByWrite DEF SavedUpTo, Cost
<1>1. CASE Preliminaries
  <2>1. /\ pc = "initial" /\ pc' = "loop" /\ sim' = sim /\ timer'["restart"] = timer["restart"]
        /\ WriteIf(AtFirst("regrid"))
    BY <1>1, Started DEF Event
  <2>2. SavedUpTo(sim.cycle)'
    BY <1>w, <2>1, EventType DEF StepsInv, Event
  <2> QED BY <1>t, <2>1, <2>2 DEF StepsInv
<1>2. CASE Advance
  <2>1. /\ pc = "loop" /\ pc' = "save" /\ session' = session
        /\ timer'["restart"] = timer["restart"] /\ sim'.cycle = sim.cycle + 1
    BY <1>2, Advanced
  <2>2. sim'.time > sim.time
    BY <1>2, <1>t, Advanced, RunAssumption
  <2>3. SavedUpTo(sim.cycle - 1)'
    <3>1. SavedUpTo(sim.cycle) /\ sim'.cycle - 1 = sim.cycle
      BY <1>t, <2>1 DEF StepsInv
    <3> QED BY <2>1, <3>1 DEF SavedUpTo, Cost
  <2> QED BY <1>t, <2>1, <2>2, <2>3 DEF StepsInv
<1>3. CASE SaveState
  <2>1. /\ pc = "save" /\ pc' = "grains" /\ sim' = sim
        /\ timer'["restart"] = Evaluated(timer["restart"], sim.time, Due("restart", sim.cycle))
        /\ session'.kept = IF Due("restart", sim.cycle) THEN sim ELSE session.kept
    BY <1>3, StateSaved, KeptByWrite, EventType DEF Event
  <2>2. SavedUpTo(sim.cycle - 1) /\ timer["restart"].at < sim.time
    BY <2>1 DEF StepsInv
  <2>3. SavedUpTo(sim.cycle)'
    <3>1. CASE Due("restart", sim.cycle)
      BY <1>t, <2>1, <3>1 DEF SavedUpTo
    <3>2. CASE ~ Due("restart", sim.cycle)
      <4>1. sim.cycle % Cost # 0
        BY <1>t, <2>2, <3>2 DEF Due, HasIntervalPassed, OccurredAt, StepDue, Cost
      <4> QED BY <1>t, <2>1, <2>2, <3>2, <4>1 DEF SavedUpTo, Cost
    <3> QED BY <3>1, <3>2
  <2>4. timer'["restart"].at <= sim.time
    BY <1>t, <2>1 DEF Evaluated
  <2> QED BY <2>1, <2>3, <2>4 DEF StepsInv
<1>4. CASE Diagnose \/ Plot
  BY <1>4, Diagnosed, Plotted DEF StepsInv, SavedUpTo, Cost, Event
<1>5. CASE Regrid
  BY <1>5, Regridded DEF StepsInv, SavedUpTo, Cost, Event
<1>6. CASE Conclude
  <2>1. /\ pc' = "done" /\ sim' = sim
        /\ timer'["restart"] = Evaluated(timer["restart"], sim.time, AtLast("restart"))
    BY <1>6, Concluded
  <2> QED BY <1>t, <2>1 DEF StepsInv, Evaluated
<1>7. CASE Crash
  BY <1>7, Crashed DEF StepsInv
<1>8. CASE Resubmit
  <2>1. timer'["restart"].at = -1 /\ pc' = "initial" /\ session'.kept = sim'
    BY <1>8, Restarted DEF Event
  <2> QED BY <1>t, <2>1 DEF StepsInv, SavedUpTo
<1>9. CASE RestartFails \/ UNCHANGED vars
  BY <1>9, Failed DEF vars, StepsInv, SavedUpTo, Cost
<1> QED BY <1>1, <1>2, <1>3, <1>4, <1>5, <1>6, <1>7, <1>8, <1>9 DEF Next, Run

(* By time: the time the timer knows lies in the interval of one that is at *)
(* most a step later than the last state on disk.                           *)
SavedNear(t) ==
  \E a \in 0 .. session.kept.time + MaxStep : a \div Cost = t \div Cost

TimesInv ==
  /\ pc \in {"initial", "loop", "grains", "visit", "regrid"} =>
       /\ timer["restart"].prev \in {-1, sim.time}
       /\ timer["restart"].prev = -1 => sim.time = session.kept.time
       /\ SavedNear(sim.time)
  /\ pc = "save" =>
       /\ timer["restart"].at < sim.time
       /\ IF timer["restart"].prev = -1 THEN sim.time <= session.kept.time + MaxStep
          ELSE timer["restart"].prev \in 0 .. sim.time /\ SavedNear(timer["restart"].prev)
  /\ timer["restart"].at <= sim.time

LEMMA TimesStep ==
  ASSUME TypeOK, TypeOK', IsActive(Interval["restart"]), Interval["restart"].kind = "time",
         TimesInv, [Next]_vars
  PROVE  TimesInv'
<1>t. /\ sim.time \in Nat /\ sim'.time \in Nat
      /\ timer["restart"].at \in Int /\ timer["restart"].at >= -1 /\ timer'["restart"].at \in Int
      /\ timer["restart"].at <= sim.time
      /\ timer["restart"].prev \in Int /\ timer["restart"].prev >= -1
      /\ session.kept.time \in Nat /\ MaxStep \in Nat \ {0}
  BY TimerRange, Typed, RunAssumption DEF Event, TimesInv
<1>r. Cost \in Nat \ {0}
  BY IntervalAssumption DEF IsActive, Configuration, Event, Cost
<1>1. CASE Preliminaries
  <2>1. /\ pc = "initial" /\ pc' = "loop" /\ sim' = sim /\ timer'["restart"] = timer["restart"]
        /\ session'.kept = IF AtFirst("regrid") THEN sim ELSE session.kept
    BY <1>1, Started, KeptByWrite, EventType DEF Event
  <2>2. /\ timer["restart"].prev \in {-1, sim.time}
        /\ timer["restart"].prev = -1 => sim.time = session.kept.time
        /\ SavedNear(sim.time)
    BY <2>1 DEF TimesInv
  <2>3. SavedNear(sim.time)'
    <3>1. CASE AtFirst("regrid")
      BY <1>t, <2>1, <3>1 DEF SavedNear
    <3>2. CASE ~ AtFirst("regrid")
      BY <2>1, <2>2, <3>2 DEF SavedNear, Cost
    <3> QED BY <3>1, <3>2
  <2> QED BY <1>t, <2>1, <2>2, <2>3 DEF TimesInv
<1>2. CASE Advance
  <2>1. /\ pc = "loop" /\ pc' = "save" /\ session' = session
        /\ timer'["restart"] = timer["restart"]
    BY <1>2, Advanced
  <2>2. sim'.time > sim.time /\ sim'.time <= sim.time + MaxStep
    BY <1>2, <1>t, Advanced
  <2>3. /\ timer["restart"].prev \in {-1, sim.time}
        /\ timer["restart"].prev = -1 => sim.time = session.kept.time
        /\ SavedNear(sim.time)
    BY <2>1 DEF TimesInv
  <2>4. timer["restart"].prev # -1 => SavedNear(timer["restart"].prev)'
    BY <2>1, <2>3 DEF SavedNear, Cost
  <2> QED BY <1>t, <2>1, <2>2, <2>3, <2>4 DEF TimesInv
<1>3. CASE SaveState
  <2>1. /\ pc = "save" /\ pc' = "grains" /\ sim' = sim
        /\ timer'["restart"] = Evaluated(timer["restart"], sim.time, Due("restart", sim.cycle))
        /\ session'.kept = IF Due("restart", sim.cycle) THEN sim ELSE session.kept
    BY <1>3, StateSaved, KeptByWrite, EventType DEF Event
  <2>2. /\ timer["restart"].at < sim.time
        /\ IF timer["restart"].prev = -1 THEN sim.time <= session.kept.time + MaxStep
           ELSE timer["restart"].prev \in 0 .. sim.time /\ SavedNear(timer["restart"].prev)
    BY <2>1 DEF TimesInv
  <2>3. timer'["restart"].at <= sim.time /\ timer'["restart"].prev = sim.time
    BY <1>t, <2>1 DEF Evaluated
  <2>4. SavedNear(sim.time)'
    <3>1. CASE Due("restart", sim.cycle)
      BY <1>t, <2>1, <3>1 DEF SavedNear
    <3>2. CASE ~ Due("restart", sim.cycle) /\ timer["restart"].prev = -1
      BY <1>t, <2>1, <2>2, <3>2 DEF SavedNear
    <3>3. CASE ~ Due("restart", sim.cycle) /\ timer["restart"].prev # -1
      <4>1. timer["restart"].prev \in Nat /\ timer["restart"].prev <= sim.time
        BY <1>t, <3>3, <2>2
      <4>2. ~ (sim.time \div Cost > timer["restart"].prev \div Cost)
        BY <1>t, <2>2, <3>3, <4>1 DEF Due, HasIntervalPassed, OccurredAt, Cost
      <4>3. timer["restart"].prev \div Cost <= sim.time \div Cost
        BY <1>t, <1>r, <4>1, DivMono
      <4>4. (sim.time \div Cost) \in Int /\ (timer["restart"].prev \div Cost) \in Int
        BY <1>t, <1>r, <4>1
      <4>5. sim.time \div Cost = timer["restart"].prev \div Cost
        BY <4>2, <4>3, <4>4
      <4> QED BY <2>1, <2>2, <3>3, <4>5 DEF SavedNear, Cost
    <3> QED BY <3>1, <3>2, <3>3
  <2> QED BY <1>t, <2>1, <2>3, <2>4 DEF TimesInv
<1>4. CASE Diagnose \/ Plot
  BY <1>4, Diagnosed, Plotted DEF TimesInv, SavedNear, Cost, Event
<1>5. CASE Regrid
  BY <1>5, Regridded DEF TimesInv, SavedNear, Cost, Event
<1>6. CASE Conclude
  <2>1. /\ pc' = "done" /\ sim' = sim
        /\ timer'["restart"] = Evaluated(timer["restart"], sim.time, AtLast("restart"))
    BY <1>6, Concluded
  <2> QED BY <1>t, <2>1 DEF TimesInv, Evaluated
<1>7. CASE Crash
  BY <1>7, Crashed DEF TimesInv
<1>8. CASE Resubmit
  <2>1. /\ timer'["restart"].at = -1 /\ timer'["restart"].prev = -1
        /\ pc' = "initial" /\ session'.kept = sim'
    BY <1>8, Restarted DEF Event
  <2>2. SavedNear(sim.time)'
    BY <1>t, <2>1 DEF SavedNear
  <2> QED BY <1>t, <2>1, <2>2 DEF TimesInv
<1>9. CASE RestartFails \/ UNCHANGED vars
  BY <1>9, Failed DEF vars, TimesInv, SavedNear, Cost
<1> QED BY <1>1, <1>2, <1>3, <1>4, <1>5, <1>6, <1>7, <1>8, <1>9 DEF Next, Run

(* A kill at the top of the loop costs less than an interval of steps, or   *)
(* than an interval of time and a step.  (LossBounded of RunLoop) *)
THEOREM LossIsBounded == Spec => []LossBounded
<1> DEFINE Active == IsActive(Interval["restart"])
           InvS == StepDue("restart") => StepsInv
           InvT == Active /\ Interval["restart"].kind = "time" => TimesInv
<1>1. TypeOK /\ Init => InvS /\ InvT
  <2> SUFFICES ASSUME TypeOK, Init PROVE StepsInv /\ TimesInv
    OBVIOUS
  <2>1. /\ timer["restart"].at = -1 /\ timer["restart"].prev = -1
        /\ session.kept = sim /\ pc = "initial"
    BY DEF Init, Event, Fresh
  <2>2. sim.cycle \in Nat /\ sim.time \in Nat /\ MaxStep \in Nat
    BY Typed, RunAssumption
  <2>3. SavedUpTo(sim.cycle)
    BY <2>1, <2>2 DEF SavedUpTo
  <2>4. SavedNear(sim.time)
    BY <2>1, <2>2 DEF SavedNear
  <2> QED BY <2>1, <2>2, <2>3, <2>4 DEF StepsInv, TimesInv
<1>2. TypeOK /\ TypeOK' /\ InvS /\ [Next]_vars => InvS'
  BY StepsStep DEF StepDue, IsActive
<1>3. TypeOK /\ TypeOK' /\ InvT /\ [Next]_vars => InvT'
  BY TimesStep DEF IsActive
<1>4. TypeOK /\ InvS /\ InvT => LossBounded
  <2> SUFFICES ASSUME TypeOK, InvS, InvT, pc = "loop", Active
               PROVE  IF Interval["restart"].kind = "step"
                      THEN sim.cycle - session.kept.cycle < Cost
                      ELSE sim.time - session.kept.time < Cost + MaxStep
    BY DEF LossBounded, Cost
  <2>1. /\ Cost \in Nat \ {0} /\ Interval["restart"].kind \in {"step", "time"}
    BY IntervalAssumption DEF IsActive, Configuration, Event, Cost
  <2>2. /\ sim.cycle \in Nat /\ sim.time \in Nat /\ MaxStep \in Nat
        /\ session.kept.cycle \in Nat /\ session.kept.time \in Nat
    BY Typed, RunAssumption
  <2>3. CASE Interval["restart"].kind = "step"
    <3>1. SavedUpTo(sim.cycle)
      BY <2>3 DEF StepsInv, StepDue
    <3>2. PICK m \in 0 .. sim.cycle : m % Cost = 0 /\ sim.cycle - m < Cost
      BY <2>1, <2>2, MultipleBelow
    <3>3. m <= session.kept.cycle
      BY <3>1, <3>2 DEF SavedUpTo
    <3> QED BY <2>1, <2>2, <2>3, <3>2, <3>3
  <2>4. CASE Interval["restart"].kind = "time"
    <3>1. SavedNear(sim.time)
      BY <2>4 DEF TimesInv
    <3>2. PICK a \in 0 .. session.kept.time + MaxStep : a \div Cost = sim.time \div Cost
      BY <3>1 DEF SavedNear
    <3>3. a \in Nat /\ a <= session.kept.time + MaxStep
      BY <2>2
    <3>4. sim.time - a < Cost
      BY <2>1, <2>2, <3>2, <3>3, SameQuotient
    <3>5. sim.time - session.kept.time < Cost + MaxStep
      BY <2>1, <2>2, <3>3, <3>4
    <3> QED BY <2>4, <3>5
  <2> QED BY <2>1, <2>3, <2>4
<1> HIDE DEF InvS, InvT
<1> QED BY <1>1, <1>2, <1>3, <1>4, TypeCorrect, PTL DEF Spec

-----------------------------------------------------------------------------
(***************************************************************************)
(* The first restart file.  In the first submission it is written exactly  *)
(* where the Regrid block asks for the first step.                         *)
(***************************************************************************)
FirstFiled == DOMAIN files # {} <=> IsActive(Interval["regrid"]) /\ Interval["regrid"].first

FirstInv ==
  /\ session.count >= 1
  /\ session.count = 1 =>
    CASE pc = "initial" -> /\ sim = session.from /\ DOMAIN files = {}
                           /\ timer["regrid"] = Fresh
      [] pc = "loop"    -> sim.cycle > session.from.cycle \/ (sim = session.from /\ FirstFiled)
      [] pc \in {"save", "grains", "visit", "regrid"} -> sim.cycle > session.from.cycle
      [] OTHER          -> TRUE

LEMMA FirstStep ==
  ASSUME TypeOK, TypeOK', FirstInv, [Next]_vars
  PROVE  FirstInv'
<1>t. /\ sim.cycle \in Nat /\ session.from.cycle \in Nat /\ session.count \in Nat
      /\ sim.time \in Nat /\ session \in History
  BY Typed DEF History
<1>w. ASSUME NEW b, WriteIf(b)
      PROVE  session'.from = session.from /\ session'.count = session.count
  BY <1>t, <1>w DEF WriteIf, Write, History
<1>1. CASE Preliminaries
  <2>1. pc = "initial" /\ pc' = "loop" /\ sim' = sim /\ WriteIf(AtFirst("regrid"))
    BY <1>1 DEF Preliminaries
  <2>2. CASE session.count = 1
    <3>1. AtFirst("regrid") <=> IsActive(Interval["regrid"]) /\ Interval["regrid"].first
      BY <1>t, <2>1, <2>2 DEF FirstInv, AtFirst, IncludeInitial, OccurredAt, Fresh
    <3>2. DOMAIN files' # {} <=> AtFirst("regrid")
      BY <2>1, <2>2 DEF FirstInv, WriteIf, Write, Filed
    <3>3. session'.from = session.from /\ session'.count = session.count
      BY <1>w, <2>1
    <3> QED
      BY <2>1, <2>2, <3>1, <3>2, <3>3 DEF FirstInv, FirstFiled
  <2>3. session'.from = session.from /\ session'.count = session.count
    BY <1>w, <2>1
  <2> QED
    BY <2>1, <2>2, <2>3 DEF FirstInv
<1>2. CASE Advance
  <2>1. pc' = "save" /\ session' = session /\ sim'.cycle = sim.cycle + 1 /\ pc = "loop"
    BY <1>2, Advanced
  <2>2. session.count = 1 => sim.cycle >= session.from.cycle
    BY <1>t, <2>1 DEF FirstInv
  <2> QED
    BY <1>t, <2>1, <2>2 DEF FirstInv
<1>3. CASE SaveState \/ Diagnose \/ Plot
  <2>1. /\ pc \in {"save", "grains", "visit"} /\ pc' \in {"grains", "visit", "regrid"}
        /\ sim' = sim /\ session'.from = session.from /\ session'.count = session.count
    BY <1>3, <1>w DEF SaveState, Diagnose, Plot
  <2> QED
    BY <2>1 DEF FirstInv
<1>4. CASE Regrid
  <2>1. pc = "regrid" /\ pc' = "loop" /\ session' = session /\ sim'.cycle = sim.cycle
    BY <1>4, Regridded
  <2> QED
    BY <2>1 DEF FirstInv
<1>5. CASE Conclude \/ Crash
  <2>1. pc' \in {"done", "down"} /\ session'.count = session.count
    BY <1>5, <1>w DEF Conclude, Crash
  <2> QED
    BY <2>1 DEF FirstInv
<1>6. CASE Resubmit \/ RestartFails
  <2>1. session'.count = session.count + 1
    BY <1>6, Failed DEF Resubmit, Submit
  <2> QED
    BY <1>t, <2>1 DEF FirstInv
<1>7. CASE UNCHANGED vars
  BY <1>7 DEF vars, FirstInv, FirstFiled
<1> QED
  BY <1>1, <1>2, <1>3, <1>4, <1>5, <1>6, <1>7 DEF Next, Run

(***************************************************************************)
(* In the first submission the state it starts from has a restart file at  *)
(* the top of the loop exactly if the Regrid block is active and includes  *)
(* the first step; the Restart block has no say.  (Run: the includeInitial *)
(* call before the loop)                                                   *)
(***************************************************************************)
THEOREM FirstFileIsOfTheRegridBlock ==
  Spec => [](pc = "loop" /\ sim = session.from /\ session.count = 1 => FirstFiled)
<1>1. Init => FirstInv
  BY DEF Init, FirstInv, Event
<1>2. TypeOK /\ TypeOK' /\ FirstInv /\ [Next]_vars => FirstInv'
  BY FirstStep
<1>3. TypeOK /\ FirstInv => (pc = "loop" /\ sim = session.from /\ session.count = 1 => FirstFiled)
  BY Typed DEF FirstInv
<1> QED
  BY TypeCorrect, <1>1, <1>2, <1>3, PTL DEF Spec

(***************************************************************************)
(* FirstFileOnRequest, which a run refutes, holds of the decks whose       *)
(* Regrid block does not include a first step their Restart block leaves   *)
(* out.                                                                    *)
(***************************************************************************)
THEOREM FirstFileIsRequested ==
  ASSUME IsActive(Interval["regrid"]) /\ Interval["regrid"].first => Interval["restart"].first
  PROVE  Spec => []FirstFileOnRequest
<1>1. (pc = "loop" /\ sim = session.from /\ session.count = 1 => FirstFiled)
        => FirstFileOnRequest
  BY DEF FirstFiled, FirstFileOnRequest
<1> QED
  BY FirstFileIsOfTheRegridBlock, <1>1, PTL

=============================================================================
