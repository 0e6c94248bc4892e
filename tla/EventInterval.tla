---------------------------- MODULE EventInterval ----------------------------
(***************************************************************************)
(* EventInterval (src/source/EventInterval.C): when does an event that is  *)
(* due every so many steps, or every so much time, take place?             *)
(*                                                                         *)
(* A configuration is [kind, every, first, last], a state is [prev, at]:   *)
(* d_previous_time and d_time_at_last_event, -1 before the first.  Times   *)
(* are natural numbers in a unit that divides the intervals.  The queries  *)
(* are predicates; Evaluated gives the state each of them leaves behind.   *)
(***************************************************************************)
EXTENDS Integers

Configuration == [kind : {"step", "time"}, every : Nat, first : BOOLEAN, last : BOOLEAN]

Fresh == [prev |-> -1, at |-> -1]

IsActive(i) == i.every > 0

OccurredAt(i, s, t) == IsActive(i) /\ s.at = t

IncludeInitial(i, s, t) == IsActive(i) /\ i.first /\ ~ OccurredAt(i, s, t)

\* Looks at the last evaluation instead of the last event.
MutantIncludeFinal(i, s, t) == IsActive(i) /\ i.last /\ s.prev # t

IncludeFinal(i, s, t) == IsActive(i) /\ i.last /\ ~ OccurredAt(i, s, t)

\* Lets one interval go by.
MutantPassed(i, s, step, t) ==
  /\ IsActive(i) /\ ~ OccurredAt(i, s, t)
  /\ \/ i.first /\ s.prev < 0
     \/ i.kind = "step" /\ step % (i.every + 1) = 0
     \/ i.kind = "time" /\ s.prev >= 0 /\ t \div i.every > s.prev \div i.every + 1

HasIntervalPassed(i, s, step, t) ==
  /\ IsActive(i) /\ ~ OccurredAt(i, s, t)
  /\ \/ i.first /\ s.prev < 0
     \/ i.kind = "step" /\ step % i.every = 0
     \/ i.kind = "time" /\ s.prev >= 0 /\ t \div i.every > s.prev \div i.every

\* The time of the evaluation is kept only when there was an event.
MutantEvaluated(s, t, event) == IF event THEN [prev |-> t, at |-> t] ELSE s

Evaluated(s, t, event) == [prev |-> t, at |-> IF event THEN t ELSE s.at]

=============================================================================
