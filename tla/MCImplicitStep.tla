---------------------------- MODULE MCImplicitStep ----------------------------
(***************************************************************************)
(* The instance for TLC: all decks.                                        *)
(***************************************************************************)
EXTENDS ImplicitStep

MCDecks == [lag : BOOLEAN, precond : BOOLEAN]
==============================================================================
