-------------------------- MODULE MCSolverLifecycle --------------------------
(* Instances of SolverLifecycle. *)
EXTENDS SolverLifecycle

Deck(levels, data, warm) == [levels |-> levels, data |-> data, warm |-> warm]

\* Adaptive and not, cold and warm; the last has its data on level 1.
AllDecks == {Deck(3, 0, FALSE), Deck(1, 0, FALSE), Deck(2, 0, TRUE), Deck(2, 1, FALSE)}

AdaptiveDeck == {Deck(2, 0, FALSE)}
==============================================================================
