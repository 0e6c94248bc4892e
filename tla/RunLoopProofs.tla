---------------------------- MODULE RunLoopProofs ----------------------------
(***************************************************************************)
(* What holds of the run loop for all intervals, decks and time steps.     *)
(***************************************************************************)
EXTENDS RunLoop, TLAPS

Times    == [prev : Nat \cup {-1}, at : Nat \cup {-1}]
Contents == [sim : Simulation, limit : Limit]
History  == [count : Nat, deck : Deck, from : Simulation, kept : Simulation]

FilesOK == /\ files \in [DOMAIN files -> Contents]
           /\ \A n \in DOMAIN files : files[n].sim.cycle = n

(* A file written now is of the right kind and has the right name.         *)
LEMMA FilesType ==
  ASSUME sim \in Simulation, limit \in Limit, session \in History, FilesOK,
         NEW event \in BOOLEAN, WriteIf(event)
  PROVE  FilesOK' /\ session' \in History
<1>1. CASE event
  <2>1. files' = Filed(sim.cycle) /\ session' = [session EXCEPT !.kept = sim]
    BY <1>1 DEF WriteIf, Write
  <2>2. [sim |-> sim, limit |-> limit] \in Contents
    BY DEF Contents
  <2>3. FilesOK'
    BY <2>1, <2>2 DEF FilesOK, Filed
  <2>4. session' \in History
    BY <2>1 DEF History
  <2> QED BY <2>3, <2>4
<1>2. CASE ~ event
  BY <1>2 DEF WriteIf, FilesOK
<1> QED BY <1>1, <1>2

(* What the event tests return is a Boolean.                               *)
LEMMA EventType ==
  ASSUME NEW e \in Event, NEW n
  PROVE  Due(e, n) \in BOOLEAN /\ AtFirst(e) \in BOOLEAN /\ AtLast(e) \in BOOLEAN
  BY DEF Due, AtFirst, AtLast, HasIntervalPassed, IncludeInitial, IncludeFinal

LEMMA TimerType ==
  ASSUME NEW t \in Times, NEW time \in Nat, NEW event
  PROVE  Evaluated(t, time, event) \in Times
  BY DEF Times, Evaluated

LEMMA EvaluateType ==
  ASSUME timer \in [Event -> Times], sim \in Simulation, NEW e \in Event, NEW event,
         Evaluate(e, event)
  PROVE  timer' \in [Event -> Times]
<1>1. sim.time \in Nat
  BY DEF Simulation
<1>2. Evaluated(timer[e], sim.time, event) \in Times
  BY <1>1, TimerType
<1> QED BY <1>2 DEF Evaluate

LEMMA CountType ==
  ASSUME sim \in Simulation, counted \in -1 .. MaxGrains, pending \in BOOLEAN,
         NEW event \in BOOLEAN, CountGrainsIf(event)
  PROVE  counted' \in -1 .. MaxGrains /\ pending' \in BOOLEAN
  BY RunAssumption DEF CountGrainsIf, CountGrains, Simulation

(* Every variable keeps its type.  (TypeOK of RunLoop) *)
THEOREM TypeCorrect == Spec => []TypeOK
<1>1. Init => TypeOK
  <2>1. SUFFICES ASSUME Init PROVE TypeOK
    OBVIOUS
  <2>2. sim \in Simulation
    BY <2>1, RunAssumption DEF Init, NewSim, Simulation
  <2>3. PICK d \in Deck :
          /\ d.end # Unset
          /\ limit = FreshLimit(d)
          /\ session = [count |-> 1, deck |-> d, from |-> sim, kept |-> sim]
    BY <2>1 DEF Init
  <2>4. limit \in Limit
    BY <2>3, RunAssumption DEF FreshLimit, Limit, Unset
  <2>5. session \in History
    BY <2>2, <2>3 DEF History
  <2>6. timer \in [Event -> Times]
    BY <2>1 DEF Init, Fresh, Times
  <2>7. FilesOK
    BY <2>1 DEF Init, FilesOK
  <2>8. counted \in -1 .. MaxGrains /\ known \in (-1 .. MaxGrains) \cup {IntMax}
    BY <2>1, RunAssumption DEF Init
  <2>9. dumps \in Seq(Nat)
    BY <2>1 DEF Init
  <2>10. flag \in BOOLEAN /\ pending \in BOOLEAN /\ pc = "initial"
    BY <2>1 DEF Init
  <2> QED BY <2>2, <2>4, <2>5, <2>6, <2>7, <2>8, <2>9, <2>10 DEF TypeOK, FilesOK, Contents, History, Times
<1>2. ASSUME TypeOK, [Next]_vars PROVE TypeOK'
  <2> DEFINE Place == {"initial", "loop", "save", "grains", "visit", "regrid", "done", "down"}
  <2>1. /\ sim \in Simulation /\ limit \in Limit /\ session \in History
        /\ timer \in [Event -> Times]
        /\ FilesOK
        /\ counted \in -1 .. MaxGrains /\ known \in (-1 .. MaxGrains) \cup {IntMax}
        /\ flag \in BOOLEAN /\ pending \in BOOLEAN
        /\ dumps \in Seq(Nat)
        /\ pc \in Place
    BY <1>2 DEF TypeOK, FilesOK, Contents, History, Times
  <2>2. sim.cycle \in Nat /\ sim.time \in Nat /\ sim.grains \in 0 .. MaxGrains
    BY <2>1 DEF Simulation
  <2>3. SUFFICES /\ sim' \in Simulation /\ limit' \in Limit /\ session' \in History
                 /\ timer' \in [Event -> Times]
                 /\ FilesOK'
                 /\ counted' \in -1 .. MaxGrains /\ known' \in (-1 .. MaxGrains) \cup {IntMax}
                 /\ flag' \in BOOLEAN /\ pending' \in BOOLEAN
                 /\ dumps' \in Seq(Nat)
                 /\ pc' \in Place
    BY DEF TypeOK, FilesOK, Contents, History, Times
  <2>4. CASE Preliminaries
    <3>1. \A e \in Event : Evaluated(timer[e], sim.time, AtFirst(e)) \in Times
      BY <2>1, <2>2, TimerType
    <3>2. timer' \in [Event -> Times]
      BY <2>1, <2>4, <3>1 DEF Preliminaries
    <3>3. FilesOK' /\ session' \in History
      BY <2>1, <2>4, FilesType, EventType DEF Preliminaries, Event
    <3>4. counted' \in -1 .. MaxGrains /\ pending' \in BOOLEAN
      BY <2>1, <2>4, CountType, EventType DEF Preliminaries, Event
    <3>5. dumps' \in Seq(Nat)
      BY <2>1, <2>2, <2>4 DEF Preliminaries, DumpIf
    <3> QED BY <2>1, <2>4, <3>2, <3>3, <3>4, <3>5 DEF Preliminaries
  <2>5. CASE Advance
    <3>1. sim' \in Simulation
      <4>1. PICK dt \in 1 .. MaxStep, n \in 0 .. MaxGrains :
              sim' = [sim EXCEPT !.cycle = sim.cycle + 1, !.time = @ + dt, !.grains = n,
                        !.frame = IF MakesFundamental(sim.cycle + 1) THEN sim.cycle + 1 ELSE @]
        BY <2>5 DEF Advance
      <4>2. sim.cycle + 1 \in Nat /\ sim.time + dt \in Nat /\ n \in 0 .. MaxGrains
        BY <2>2, RunAssumption
      <4>3. \A c, t, f \in Nat :
              [sim EXCEPT !.cycle = c, !.time = t, !.grains = n, !.frame = f] \in Simulation
        BY <2>1 DEF Simulation
      <4>4. sim.frame \in Nat
        BY <2>1 DEF Simulation
      <4> QED BY <4>1, <4>2, <4>3, <4>4
    <3>2. \A e \in Event : Evaluated(timer[e], sim.time, Due(e, sim.cycle + 1)) \in Times
      BY <2>1, <2>2, TimerType
    <3>3. timer' \in [Event -> Times]
      BY <2>1, <2>5, <3>2 DEF Advance, Event
    <3>4. known' \in (-1 .. MaxGrains) \cup {IntMax} /\ pending' \in BOOLEAN
      BY <2>1, <2>5 DEF Advance
    <3> QED BY <2>1, <2>5, <3>1, <3>3, <3>4 DEF Advance, FilesOK
  <2>6. CASE SaveState
    <3>1. timer' \in [Event -> Times]
      BY <2>1, <2>6, EvaluateType DEF SaveState, Event
    <3>2. FilesOK' /\ session' \in History
      BY <2>1, <2>6, FilesType, EventType DEF SaveState, Event
    <3> QED BY <2>1, <2>6, <3>1, <3>2 DEF SaveState
  <2>7. CASE Diagnose
    <3>1. timer' \in [Event -> Times]
      BY <2>1, <2>7, EvaluateType DEF Diagnose, Event
    <3>2. counted' \in -1 .. MaxGrains /\ pending' \in BOOLEAN
      BY <2>1, <2>7, CountType, EventType DEF Diagnose, Event
    <3> QED BY <2>1, <2>7, <3>1, <3>2 DEF Diagnose, FilesOK
  <2>8. CASE Plot
    <3>1. timer' \in [Event -> Times]
      BY <2>1, <2>8, EvaluateType DEF Plot, Event
    <3>2. dumps' \in Seq(Nat) /\ flag' \in BOOLEAN
      BY <2>1, <2>2, <2>8, EventType DEF Plot, DumpIf, Event
    <3> QED BY <2>1, <2>8, <3>1, <3>2 DEF Plot, FilesOK
  <2>9. CASE Regrid
    <3>1. timer' \in [Event -> Times]
      BY <2>1, <2>9, EvaluateType DEF Regrid, Event
    <3> QED BY <2>1, <2>9, <3>1 DEF Regrid, FilesOK
  <2>10. CASE Conclude
    <3>1. \A e \in Event : Evaluated(timer[e], sim.time, AtLast(e)) \in Times
      BY <2>1, <2>2, TimerType
    <3>2. timer' \in [Event -> Times]
      BY <2>1, <2>10, <3>1 DEF Conclude
    <3>3. FilesOK' /\ session' \in History
      BY <2>1, <2>10, FilesType, EventType DEF Conclude, Event
    <3>4. dumps' \in Seq(Nat)
      BY <2>1, <2>2, <2>10 DEF Conclude, DumpIf
    <3> QED BY <2>1, <2>10, <3>2, <3>3, <3>4 DEF Conclude
  <2>11. CASE Crash
    BY <2>1, <2>11 DEF Crash, FilesOK
  <2>12. CASE Resubmit
    <3>1. ASSUME NEW d \in Deck, NEW s \in Simulation, NEW l \in Limit,
                 NEW n \in {IntMax, -1}, Submit(d, s, l, n)
          PROVE  /\ sim' \in Simulation /\ limit' \in Limit /\ session' \in History
                 /\ timer' \in [Event -> Times]
                 /\ FilesOK'
                 /\ counted' \in -1 .. MaxGrains /\ known' \in (-1 .. MaxGrains) \cup {IntMax}
                 /\ flag' \in BOOLEAN /\ pending' \in BOOLEAN
                 /\ dumps' \in Seq(Nat)
                 /\ pc' \in Place
      <4>1. session' \in History
        BY <2>1, <3>1 DEF Submit, History
      <4>2. timer' \in [Event -> Times]
        BY <3>1 DEF Submit, Fresh, Times
      <4>3. counted' \in -1 .. MaxGrains /\ known' \in (-1 .. MaxGrains) \cup {IntMax}
        BY <3>1, RunAssumption DEF Submit
      <4>4. dumps' = <<>> /\ flag' \in BOOLEAN /\ pending' \in BOOLEAN
        BY <3>1 DEF Submit
      <4>5. sim' \in Simulation /\ limit' \in Limit /\ pc' \in Place
        BY <3>1 DEF Submit
      <4>6. files' = files
        BY <3>1 DEF Submit
      <4>7. FilesOK'
        BY <2>1, <4>6 DEF FilesOK
      <4>8. dumps' \in Seq(Nat)
        BY <4>4
      <4> QED BY <4>1, <4>2, <4>3, <4>4, <4>5, <4>7, <4>8
    <3>2. \A d \in Deck : d \in [max : Nat \cup {Unset}, delta : Nat \cup {Unset}, end : Nat \cup {Unset}]
      BY RunAssumption
    <3>3. ASSUME NEW d \in Deck, NEW n \in 0 .. MaxGrains
          PROVE  /\ \A l \in Levels : NewSim(n, l) \in Simulation
                 /\ FreshLimit(d) \in Limit
      BY <3>2, RunAssumption DEF NewSim, FreshLimit, Simulation, Limit, Unset
    <3>4. ASSUME NEW d \in Deck, NEW n \in DOMAIN files
          PROVE  files[n].sim \in Simulation /\ RestartLimit(d, files[n]) \in Limit
      <4>1. files[n].sim \in Simulation /\ files[n].limit \in Limit
        BY <2>1 DEF FilesOK, Contents
      <4>2. files[n].sim.cycle \in Nat
        BY <4>1 DEF Simulation
      <4>3. files[n].limit.cycle \in Nat \cup {Unset} /\ files[n].limit.time \in Nat \cup {Unset}
        BY <4>1 DEF Limit
      <4>4. RestartLimit(d, files[n]) \in Limit
        BY <3>2, <4>2, <4>3 DEF RestartLimit, Limit, Unset
      <4> QED BY <4>1, <4>4
    <3>5. PICK d \in Deck :
            \/ \E n \in 0 .. MaxGrains, l \in Levels :
                 Submit(d, NewSim(n, l), FreshLimit(d), IntMax)
            \/ \E n \in DOMAIN files : Submit(d, files[n].sim, RestartLimit(d, files[n]), -1)
      BY <2>12 DEF Resubmit, Restartable
    <3> QED BY <3>1, <3>3, <3>4, <3>5
  <2>13. CASE RestartFails
    BY <2>1, <2>13 DEF RestartFails, FilesOK, History
  <2>14. CASE UNCHANGED vars
    BY <2>1, <2>14 DEF vars, FilesOK
  <2> QED
    BY <1>2, <2>4, <2>5, <2>6, <2>7, <2>8, <2>9, <2>10, <2>11, <2>12, <2>13, <2>14 DEF Next, Run
<1> QED BY <1>1, <1>2, PTL DEF Spec

-----------------------------------------------------------------------------
(* A merge the diagnostics count is pending until the next Advance, and all *)
(* that time the count Advance compares with, known, is above the new one.  *)
MergeInv ==
  IsActive(Interval["extend"]) =>
    /\ pc = "initial" => pending = FALSE /\ counted = -1
    /\ pc \in {"save", "grains"} => pending = FALSE /\ known = counted
    /\ pc \in {"loop", "visit", "regrid"} => (pending = TRUE => known > counted)

LEMMA MergeStep ==
  ASSUME TypeOK, MergeInv, IsActive(Interval["extend"]), [Next]_vars
  PROVE  MergeInv'
<1> USE DEF MergeInv
<1>1. /\ sim.grains \in 0 .. MaxGrains /\ counted \in -1 .. MaxGrains
      /\ known \in (-1 .. MaxGrains) \cup {IntMax}
      /\ pending \in BOOLEAN
  BY DEF TypeOK, Simulation
<1>2. CASE Preliminaries
  <2>1. pending = FALSE /\ counted = -1 /\ pc' = "loop"
    BY <1>2 DEF Preliminaries
  <2>2. pending' = FALSE
    BY <1>1, <1>2, <2>1, RunAssumption DEF Preliminaries, CountGrainsIf, CountGrains
  <2> QED BY <2>1, <2>2
<1>3. CASE Advance
  <2>1. pc = "loop" /\ pc' = "save" /\ known' = counted /\ counted' = counted
    BY <1>3 DEF Advance
  <2>2. pending' = (pending /\ ~ Resets(sim.cycle + 1))
    BY <1>3 DEF Advance
  <2>3. CASE pending = TRUE
    <3>1. Resets(sim.cycle + 1)
      BY <2>1, <2>3 DEF Resets
    <3>2. pending' = FALSE
      BY <2>2, <3>1
    <3> QED BY <2>1, <3>2
  <2>4. CASE pending = FALSE
    <3>1. pending' = FALSE
      BY <2>2, <2>4
    <3> QED BY <2>1, <3>1
  <2> QED BY <1>1, <2>3, <2>4
<1>4. CASE SaveState
  BY <1>4 DEF SaveState
<1>5. CASE Diagnose
  <2>1. pc = "grains" /\ pc' = "visit" /\ pending = FALSE /\ known = counted /\ known' = known
    BY <1>5 DEF Diagnose
  <2>2. CASE Due("grains", sim.cycle)
    <3>1. counted' = sim.grains /\ pending' = (pending \/ sim.grains < counted)
      BY <1>5, <2>2 DEF Diagnose, CountGrainsIf, CountGrains
    <3>2. pending' = TRUE => sim.grains < counted
      BY <2>1, <3>1
    <3>3. pending' = TRUE => known' > counted'
      BY <1>1, <2>1, <3>1, <3>2
    <3> QED BY <2>1, <3>3
  <2>3. CASE ~ Due("grains", sim.cycle)
    BY <1>5, <2>1, <2>3 DEF Diagnose, CountGrainsIf
  <2> QED BY <2>2, <2>3
<1>6. CASE Plot
  BY <1>6 DEF Plot
<1>7. CASE Regrid
  BY <1>7 DEF Regrid
<1>8. CASE Conclude
  BY <1>8 DEF Conclude
<1>9. CASE Crash
  BY <1>9 DEF Crash
<1>10. CASE Resubmit
  BY <1>10 DEF Resubmit, Submit
<1>11. CASE RestartFails \/ UNCHANGED vars
  BY <1>11 DEF RestartFails, vars
<1> QED BY <1>2, <1>3, <1>4, <1>5, <1>6, <1>7, <1>8, <1>9, <1>10, <1>11 DEF Next, Run

(* Whatever the intervals are, a fall in the number of grains is acted on   *)
(* by the next step.  (MergeIsHandled of RunLoop) *)
THEOREM MergesAreHandled == Spec => []MergeIsHandled
<1>1. Init => MergeInv
  BY DEF Init, MergeInv
<1>2. TypeOK /\ MergeInv /\ [Next]_vars => MergeInv'
  <2>1. CASE IsActive(Interval["extend"])
    BY <2>1, MergeStep
  <2>2. CASE ~ IsActive(Interval["extend"])
    BY <2>2 DEF MergeInv, IsActive
  <2> QED BY <2>1, <2>2
<1>3. TypeOK /\ MergeInv => MergeIsHandled
  BY DEF TypeOK, MergeInv, MergeIsHandled
<1> QED BY <1>1, <1>2, <1>3, TypeCorrect, PTL DEF Spec

-----------------------------------------------------------------------------
(* Multiples of a positive number: a product is one, and there is one less  *)
(* than that number below any c.                                            *)
LEMMA Product ==
  ASSUME NEW r \in Nat \ {0}, NEW c \in Nat
  PROVE  (r * c) % r = 0
<1>1. PICK q \in Int : q = (r * c) \div r
  OBVIOUS
<1>2. (r * c) % r \in 0 .. r - 1
  OBVIOUS
<1>3. r * c = r * q + ((r * c) % r)
  BY <1>1
<1>4. r * (c - q) = (r * c) % r
  BY <1>2, <1>3
<1>5. \A a \in Int : a >= 1 => r * a >= r
  OBVIOUS
<1>6. \A a \in Int : a <= -1 => r * a <= -r
  OBVIOUS
<1>7. c - q = 0
  BY <1>1, <1>2, <1>4, <1>5, <1>6
<1> QED BY <1>4, <1>7

LEMMA MultipleBelow ==
  ASSUME NEW r \in Nat \ {0}, NEW c \in Nat
  PROVE  \E m \in 0 .. c : m % r = 0 /\ c - m < r
<1>1. (c \div r) \in Nat /\ c % r \in 0 .. r - 1 /\ c = r * (c \div r) + (c % r)
  OBVIOUS
<1>2. (r * (c \div r)) % r = 0
  BY <1>1, Product
<1>3. r * (c \div r) \in 0 .. c /\ c - r * (c \div r) < r
  BY <1>1
<1> QED BY <1>2, <1>3

=============================================================================
