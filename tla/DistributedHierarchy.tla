------------------------ MODULE DistributedHierarchy ------------------------
(***************************************************************************)
(* The patch hierarchy as an algorithm of Grains.C meets it: cells of      *)
(* levels, each in a patch of one MPI rank, with the cells its neighbour   *)
(* values come from and the finer cells that lie under it.  The module is  *)
(* a parameter of GrainNumbering and GrainExtension; PatchHierarchy gives  *)
(* instances of it.                                                        *)
(***************************************************************************)
EXTENDS Integers, Sequences, FiniteSets

CONSTANTS
  Rank,       \* MPI ranks
  MaxLn,      \* finest level number
  Cell,       \* cells of all levels
  LevelOf,    \* Cell -> 0..MaxLn
  OwnerOf,    \* Cell -> Rank
  Order,      \* Rank -> level -> the sequence of cells the rank sweeps
  Sources,    \* Cell -> sequence of the cells its four neighbour values come from
  Ghosts,     \* Cell -> which of the four are ghost cells of its patch
  Children,   \* Cell -> cells of the next level under it ({}: not covered)
  NoCell      \* a ghost cell outside the domain

Level == 0 .. MaxLn

Reads == [c \in Cell |-> {Sources[c][i] : i \in DOMAIN Sources[c]} \ {NoCell}]

Covered(c) == Children[c] # {}

Own == [r \in Rank |-> [ln \in Level |-> {c \in Cell : OwnerOf[c] = r /\ LevelOf[c] = ln}]]

Adjacent(c, d) ==
  ~ Covered(c) /\ ~ Covered(d) /\ (d \in Reads[c] \/ c \in Reads[d])

ASSUME HierarchyAssumption ==
  /\ MaxLn \in Nat
  /\ IsFiniteSet(Cell)
  /\ LevelOf \in [Cell -> Level]
  /\ OwnerOf \in [Cell -> Rank]
  /\ Order \in [Rank -> [Level -> Seq(Cell)]]
  /\ \A r \in Rank, ln \in Level :
       {Order[r][ln][i] : i \in DOMAIN Order[r][ln]} = Own[r][ln]
  /\ Sources \in [Cell -> Seq(Cell \cup {NoCell})]
  /\ \A c \in Cell : \A i \in DOMAIN Sources[c] \ Ghosts[c] :
       Sources[c][i] # NoCell => OwnerOf[Sources[c][i]] = OwnerOf[c]
  /\ Children \in [Cell -> SUBSET Cell]
  /\ \A c \in Cell : \A d \in Children[c] : LevelOf[d] = LevelOf[c] + 1
  /\ NoCell \notin Cell

ASSUME RankAssumption == Rank # {}

(* fillData takes what a patch reads from its level or the coarser one.     *)
ASSUME SourceAssumption ==
  \A c \in Cell : /\ Ghosts[c] \subseteq DOMAIN Sources[c]
                  /\ \A d \in Reads[c] : LevelOf[d] \in {LevelOf[c], LevelOf[c] - 1}

(* Where a cell no finer level covers reads another one, that one reads    *)
(* the cell too, or the covered cell above it.                             *)
ASSUME NeighbourAssumption ==
  \A c, d \in Cell : ~ Covered(c) /\ ~ Covered(d) /\ d \in Reads[c] =>
    c \in Reads[d] \/ \E b \in Reads[d] : c \in Children[b]

=============================================================================
