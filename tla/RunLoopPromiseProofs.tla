------------------------ MODULE RunLoopPromiseProofs ------------------------
(***************************************************************************)
(* The run loop is a checkpointed run; what its deck, its files and its    *)
(* plots are, for all intervals, decks and time steps.                     *)
(***************************************************************************)
EXTENDS RunLoopProofs

(* What the type invariant says of the variables, one by one.              *)
LEMMA Typed ==
  ASSUME TypeOK
  PROVE  /\ sim \in Simulation /\ limit \in Limit /\ session \in History
         /\ timer \in [Event -> Times] /\ FilesOK /\ flag \in BOOLEAN /\ dumps \in Seq(Nat)
         /\ sim.cycle \in Nat /\ sim.time \in Nat /\ sim.frame \in Nat
         /\ limit.cycle \in Int /\ limit.time \in Int
         /\ session.deck \in Deck
         /\ session.from.cycle \in Nat /\ session.from.time \in Nat
         /\ session.kept.cycle \in Nat /\ session.kept.time \in Nat
         /\ \A e \in Event : timer[e].at \in Nat \cup {-1} /\ timer[e].prev \in Nat \cup {-1}
<1>1. /\ sim \in Simulation /\ limit \in Limit /\ session \in History
      /\ timer \in [Event -> Times] /\ FilesOK /\ flag \in BOOLEAN /\ dumps \in Seq(Nat)
  BY DEF TypeOK, FilesOK, Contents, History, Times
<1>2. /\ sim.cycle \in Nat /\ sim.time \in Nat /\ sim.frame \in Nat
      /\ limit.cycle \in Int /\ limit.time \in Int
  BY <1>1 DEF Simulation, Limit, Unset
<1>3. session.deck \in Deck /\ session.from \in Simulation /\ session.kept \in Simulation
  BY <1>1 DEF History
<1>4. \A e \in Event : timer[e].at \in Nat \cup {-1} /\ timer[e].prev \in Nat \cup {-1}
  BY <1>1 DEF Times
<1> QED BY <1>1, <1>2, <1>3, <1>4 DEF Simulation

(* A step of the simulation.                                               *)
LEMMA Advanced ==
  ASSUME TypeOK, Advance
  PROVE  /\ pc = "loop" /\ pc' = "save" /\ Continues
         /\ sim'.cycle = sim.cycle + 1
         /\ \E dt \in 1 .. MaxStep : sim'.time = sim.time + dt
         /\ sim'.frame = IF MakesFundamental(sim.cycle + 1) THEN sim.cycle + 1 ELSE sim.frame
         /\ UNCHANGED <<limit, files, session, dumps, flag>>
         /\ timer'["restart"] = timer["restart"] /\ timer'["visit"] = timer["visit"]
<1>1. PICK dt \in 1 .. MaxStep, n \in 0 .. MaxGrains :
        sim' = [sim EXCEPT !.cycle = sim.cycle + 1, !.time = @ + dt, !.grains = n,
                  !.frame = IF MakesFundamental(sim.cycle + 1) THEN sim.cycle + 1 ELSE @]
  BY DEF Advance
<1>2. /\ sim'.cycle = sim.cycle + 1 /\ sim'.time = sim.time + dt
      /\ sim'.frame = IF MakesFundamental(sim.cycle + 1) THEN sim.cycle + 1 ELSE sim.frame
  BY <1>1, Typed DEF Simulation
<1>3. timer'["restart"] = timer["restart"] /\ timer'["visit"] = timer["visit"]
  BY Typed DEF Advance, Event
<1> QED BY <1>2, <1>3 DEF Advance

(* A regrid changes its timer only.                                        *)
LEMMA Regridded ==
  ASSUME TypeOK, Regrid
  PROVE  /\ pc = "regrid" /\ pc' = "loop"
         /\ UNCHANGED <<sim, limit, files, session, dumps, flag>>
         /\ \A e \in Event \ {"regrid"} : timer'[e] = timer[e]
BY Typed DEF Regrid, Evaluate

(* A restart that fails leaves everything but the number of submissions.   *)
LEMMA Failed ==
  ASSUME TypeOK, RestartFails
  PROVE  /\ pc \in {"down", "done"} /\ pc' = pc
         /\ UNCHANGED <<sim, limit, timer, files, dumps, flag>>
         /\ session'.count = session.count + 1 /\ session'.deck = session.deck
         /\ session'.from = session.from /\ session'.kept = session.kept
BY Typed DEF RestartFails, History

(* A submission starts from the beginning or from a file.                  *)
LEMMA Resubmitted ==
  ASSUME TypeOK, Resubmit
  PROVE  \E d \in Deck :
           /\ pc \in {"down", "done"} /\ pc' = "initial" /\ flag' = TRUE /\ dumps' = <<>>
           /\ files' = files /\ timer' = [e \in Event |-> Fresh]
           /\ session' = [count |-> session.count + 1, deck |-> d, from |-> sim', kept |-> sim']
           /\ \/ /\ sim'.cycle = 0 /\ sim'.time = StartTime /\ limit' = FreshLimit(d)
              \/ \E n \in DOMAIN files :
                   /\ sim' = files[n].sim /\ sim'.cycle = n
                   /\ limit' = RestartLimit(d, files[n])
<1>1. PICK d \in Deck :
        \/ \E n \in 0 .. MaxGrains, l \in Levels : Submit(d, NewSim(n, l), FreshLimit(d), IntMax)
        \/ \E n \in DOMAIN files : Submit(d, files[n].sim, RestartLimit(d, files[n]), -1)
  BY DEF Resubmit, Restartable
<1>2. CASE \E n \in 0 .. MaxGrains, l \in Levels :
             Submit(d, NewSim(n, l), FreshLimit(d), IntMax)
  BY <1>2 DEF Submit, NewSim
<1>3. CASE \E n \in DOMAIN files : Submit(d, files[n].sim, RestartLimit(d, files[n]), -1)
  <2>1. PICK n \in DOMAIN files : Submit(d, files[n].sim, RestartLimit(d, files[n]), -1)
    BY <1>3
  <2>2. files[n].sim.cycle = n
    BY DEF TypeOK
  <2> QED BY <2>1, <2>2 DEF Submit
<1> QED BY <1>1, <1>2, <1>3

-----------------------------------------------------------------------------
(* The checkpointed run. *)

LEMMA SavedFile ==
  ASSUME TypeOK, Write
  PROVE  {<<n, files'[n].sim.time>> : n \in DOMAIN files'}
           = {s \in {<<n, files[n].sim.time>> : n \in DOMAIN files} : s[1] # sim.cycle}
               \cup {<<sim.cycle, sim.time>>}
<1>1. /\ DOMAIN files' = DOMAIN files \cup {sim.cycle}
      /\ \A n \in DOMAIN files \cup {sim.cycle} :
           files'[n] = IF n = sim.cycle THEN [sim |-> sim, limit |-> limit] ELSE files[n]
  BY DEF Write, Filed
<1>2. files'[sim.cycle].sim.time = sim.time
  BY <1>1
<1>3. \A n \in DOMAIN files : n # sim.cycle => files'[n].sim.time = files[n].sim.time
  BY <1>1
<1> QED BY <1>1, <1>2, <1>3

LEMMA PromiseInit == TypeOK /\ Init => Promise!AInit
<1> SUFFICES ASSUME TypeOK, Init PROVE Promise!AInit
  OBVIOUS
<1>1. sim.cycle = 0 /\ sim.time = StartTime /\ DOMAIN files = {} /\ pc = "initial"
  BY DEF Init, NewSim
<1>2. <<limit.cycle, limit.time>> \in Int \X Int
  BY Typed
<1>3. {<<n, files[n].sim.time>> : n \in DOMAIN files} = {}
  BY <1>1
<1> QED BY <1>1, <1>2, <1>3 DEF Promise!AInit, Promise!Origin

(* The variables of CheckpointedRun, as RunLoop keeps them.                *)
At    == <<sim.cycle, sim.time>>
Saved == {<<n, files[n].sim.time>> : n \in DOMAIN files}
Ends  == <<limit.cycle, limit.time>>
Phase == CASE pc = "down" -> "down" [] pc = "done" -> "finished" [] OTHER -> "running"

LEMMA PromiseStep ==
  TypeOK /\ TypeOK' /\ [Next]_vars => [Promise!ANext]_<<At, Saved, Ends, Phase>>
<1> SUFFICES ASSUME TypeOK, TypeOK', [Next]_vars
             PROVE  Promise!ANext \/ UNCHANGED <<At, Saved, Ends, Phase>>
  OBVIOUS
<1> USE DEF At, Saved, Ends, Phase
<1>t. /\ sim.cycle \in Int /\ sim.time \in Int /\ limit.cycle \in Int /\ limit.time \in Int
      /\ limit'.cycle \in Int /\ limit'.time \in Int
  BY Typed DEF TypeOK, Limit, Unset
<1>w. ASSUME NEW event \in BOOLEAN, WriteIf(event), UNCHANGED <<sim, limit>>,
             Phase = "running", Phase' = "running"
      PROVE  Promise!Save \/ UNCHANGED <<At, Saved, Ends, Phase>>
  <2>1. CASE event
    <3>1. Saved' = {s \in Saved : s[1] # sim.cycle} \cup {At}
      BY <1>w, <2>1, SavedFile DEF WriteIf
    <3> QED BY <1>w, <3>1 DEF Promise!Save
  <2>2. CASE ~ event
    BY <1>w, <2>2 DEF WriteIf
  <2> QED BY <2>1, <2>2
<1>1. CASE Preliminaries
  BY <1>1, <1>w, EventType DEF Preliminaries, Event, Promise!ANext
<1>2. CASE Advance
  <2>1. Phase = "running" /\ Phase' = "running" /\ Saved' = Saved /\ Ends' = Ends
    BY <1>2, Advanced
  <2>2. At[1] < Ends[1] /\ At[2] < Ends[2]
    BY <1>2, Advanced DEF Continues
  <2>3. \E dt \in 1 .. MaxStep : At' = <<At[1] + 1, At[2] + dt>>
    BY <1>2, Advanced
  <2> QED BY <2>1, <2>2, <2>3 DEF Promise!ANext, Promise!Step
<1>3. CASE SaveState
  BY <1>3, <1>w, EventType DEF SaveState, Event, Promise!ANext
<1>4. CASE Diagnose \/ Plot
  BY <1>4 DEF Diagnose, Plot
<1>5. CASE Regrid
  BY <1>5, Regridded
<1>6. CASE Conclude
  <2>1. /\ pc = "loop" /\ pc' = "done" /\ UNCHANGED <<sim, limit>>
        /\ sim.cycle >= limit.cycle \/ sim.time >= limit.time
    BY <1>6, <1>t DEF Conclude, Continues
  <2>2. CASE AtLast("restart")
    <3>1. Saved' = {s \in Saved : s[1] # sim.cycle} \cup {At}
      BY <1>6, <2>2, SavedFile DEF Conclude, WriteIf
    <3> QED BY <2>1, <3>1 DEF Promise!ANext, Promise!Save
  <2>3. CASE ~ AtLast("restart")
    <3>1. Saved' = Saved
      BY <1>6, <2>3 DEF Conclude, WriteIf
    <3> QED BY <2>1, <3>1 DEF Promise!ANext, Promise!Finish
  <2> QED BY <2>2, <2>3
<1>7. CASE Crash
  BY <1>7 DEF Crash, Promise!ANext, Promise!Cut
<1>8. CASE Resubmit
  <2>1. /\ pc \in {"down", "done"} /\ pc' = "initial" /\ files' = files
        /\ \/ sim'.cycle = 0 /\ sim'.time = StartTime
           \/ \E n \in DOMAIN files : sim' = files[n].sim /\ sim'.cycle = n
    BY <1>8, Resubmitted
  <2>2. At' \in Saved \cup {Promise!Origin}
    BY <2>1 DEF Promise!Origin
  <2>3. Phase # "running" /\ Phase' = "running" /\ Saved' = Saved /\ Ends' \in Int \X Int
    BY <1>t, <2>1
  <2> QED BY <2>2, <2>3 DEF Promise!ANext, Promise!Begin
<1>9. CASE RestartFails \/ UNCHANGED vars
  BY <1>9, Failed DEF vars
<1> QED BY <1>1, <1>2, <1>3, <1>4, <1>5, <1>6, <1>7, <1>8, <1>9 DEF Next, Run

(* The run loop implements CheckpointedRun: it resumes only states it has  *)
(* saved, and ends only at its limits.  (ImplementsPromise of RunLoop)     *)
THEOREM RunIsCheckpointed == Spec => ImplementsPromise
BY TypeCorrect, PromiseInit, PromiseStep, PTL
DEF Spec, ImplementsPromise, Promise!ASpec, At, Saved, Ends, Phase

-----------------------------------------------------------------------------
(* The limits of the deck. *)

(* The limits are those of the deck, cycles counted from where the         *)
(* submission started; the cycle limit is passed by nothing but a start    *)
(* beyond it, and a submission ends by itself only at one of the two.      *)
DeckInv ==
  LET d == session.deck
  IN  /\ d.delta # Unset /\ d.max = Unset => limit.cycle = session.from.cycle + d.delta
      /\ d.max # Unset /\ (session.from.cycle > 0 \/ d.delta = Unset) => limit.cycle = d.max
      /\ d.end # Unset => limit.time = d.end
      /\ sim.cycle = session.from.cycle \/ sim.cycle <= limit.cycle
      /\ pc = "done" => sim.cycle >= limit.cycle \/ sim.time >= limit.time

LEMMA DeckBinds == Spec => [](TypeOK /\ DeckInv)
<1>1. Init => DeckInv
  <2> SUFFICES ASSUME Init PROVE DeckInv
    OBVIOUS
  <2>1. PICK d \in Deck : limit = FreshLimit(d) /\ session.deck = d /\ session.from = sim
    BY DEF Init
  <2>2. sim.cycle = 0 /\ pc = "initial"
    BY DEF Init, NewSim
  <2>3. d.delta \in Int
    BY RunAssumption DEF Unset
  <2> QED BY <2>1, <2>2, <2>3 DEF DeckInv, FreshLimit
<1>2. TypeOK /\ DeckInv /\ [Next]_vars => DeckInv'
  <2> SUFFICES ASSUME TypeOK, DeckInv, [Next]_vars PROVE DeckInv'
    OBVIOUS
  <2>1. CASE Advance
    <3>1. sim.cycle + 1 <= limit.cycle
      BY <2>1, Advanced, Typed DEF Continues
    <3> QED BY <2>1, <3>1, Advanced DEF DeckInv
  <2>2. CASE Resubmit
    <3>1. PICK d \in Deck :
            /\ session' = [count |-> session.count + 1, deck |-> d, from |-> sim', kept |-> sim']
            /\ \/ sim'.cycle = 0 /\ sim'.time = StartTime /\ limit' = FreshLimit(d)
               \/ \E n \in DOMAIN files :
                    sim' = files[n].sim /\ limit' = RestartLimit(d, files[n])
      BY <2>2, Resubmitted
    <3>2. session'.deck = d /\ session'.from = sim' /\ pc' = "initial"
      BY <2>2, <3>1, Resubmitted
    <3>3. CASE sim'.cycle = 0 /\ limit' = FreshLimit(d)
      <4>1. d.delta \in Int
        BY RunAssumption DEF Unset
      <4> QED BY <3>2, <3>3, <4>1 DEF DeckInv, FreshLimit
    <3>4. CASE \E n \in DOMAIN files :
                 sim' = files[n].sim /\ limit' = RestartLimit(d, files[n])
      BY <3>2, <3>4 DEF DeckInv, RestartLimit
    <3> QED BY <3>1, <3>3, <3>4
  <2>3. CASE Regrid
    BY <2>3, Regridded DEF DeckInv
  <2>4. CASE Preliminaries \/ SaveState \/ Conclude
    <3>1. UNCHANGED <<sim, limit>> /\ \E event : WriteIf(event)
      BY <2>4 DEF Preliminaries, SaveState, Conclude
    <3>2. session'.deck = session.deck /\ session'.from = session.from
      BY <3>1, Typed DEF WriteIf, Write, History
    <3>3. pc' = "done" => sim.cycle >= limit.cycle \/ sim.time >= limit.time
      BY <2>4, Typed DEF Preliminaries, SaveState, Conclude, Continues
    <3> QED BY <3>1, <3>2, <3>3 DEF DeckInv
  <2>5. CASE RestartFails
    BY <2>5, Failed DEF DeckInv
  <2>6. CASE Diagnose \/ Plot \/ Crash \/ UNCHANGED vars
    BY <2>6 DEF Diagnose, Plot, Crash, vars, DeckInv
  <2> QED BY <2>1, <2>2, <2>3, <2>4, <2>5, <2>6 DEF Next, Run
<1> QED BY TypeCorrect, <1>1, <1>2, PTL DEF Spec

(* The limits of a deck are numbers where it gives them.                   *)
LEMMA DeckOfSubmission ==
  ASSUME TypeOK
  PROVE  /\ session.deck.delta \in Int /\ session.deck.max \in Int
         /\ session.deck.delta # Unset => session.deck.delta >= 0
BY Typed, RunAssumption DEF Unset

(* The deck of a submission is obeyed.  (DeckIsObeyed of RunLoop) *)
THEOREM DecksAreObeyed == Spec => []DeckIsObeyed
<1>1. TypeOK /\ DeckInv => DeckIsObeyed
  BY DeckOfSubmission, Typed DEF DeckInv, DeckIsObeyed
<1> QED BY DeckBinds, <1>1, PTL

(* A submission that ends by itself before the end time has done all its   *)
(* deck asks for, whatever limit ended the run its file is from.           *)
(* (DeckIsExhausted of RunLoop)                                            *)
THEOREM DecksAreExhausted == Spec => []DeckIsExhausted
<1>1. TypeOK /\ DeckInv => DeckIsExhausted
  BY DeckOfSubmission, Typed DEF DeckInv, DeckIsExhausted
<1> QED BY DeckBinds, <1>1, PTL
=============================================================================
