-------------------------- MODULE MCGrainNumbering --------------------------
(***************************************************************************)
(* Instances of GrainNumbering on hierarchies built by PatchHierarchy.     *)
(***************************************************************************)
EXTENDS GrainNumbering, PatchHierarchy

MCLevelOf  == Table([c \in Cells |-> LevelIn(c)])
MCOrder    == Table([r \in Rank |-> Table([ln \in 0 .. MaxLevel |-> VisitOrder(r, ln)])])

MCLeaves ==
  LET leaves[c \in Cells] ==
        IF FineCells[c] = {} THEN {c} ELSE UNION {leaves[d] : d \in FineCells[c]}
  IN  Table(leaves)

(***************************************************************************)
(* level_offset, level_stride and max_iteration_count as findAndNumberGrains *)
(* computes them.  bl.size() is the number of boxes of the physical domain: *)
(* one here.                                                                *)
(***************************************************************************)
LevelOffset(ln) == ln * 1
MutantStride(ln) == <<1, NumberCells(ln, 2)>>     \* the width of the other direction
LevelStride(ln) == <<1, NumberCells(ln, 1)>>

CellNumber == Table([c \in Cells |->
  LET ln == LevelIn(c)
  IN  LevelOffset(ln) + LevelStride(ln)[1] * X(c) + LevelStride(ln)[2] * Y(c)])

(* The widths in the order the loop meets them; a larger one sets the count *)
(* to twice itself, and the result is doubled.                              *)
MaxIterationCount ==
  LET width[i \in 1 .. 2 * (MaxLevel + 1)] ==
        NumberCells((i - 1) \div 2, ((i - 1) % 2) + 1)
      count[i \in 0 .. 2 * (MaxLevel + 1)] ==
        IF i = 0 THEN 0
        ELSE IF width[i] > count[i - 1] THEN 2 * width[i] ELSE count[i - 1]
  IN  2 * count[2 * (MaxLevel + 1)]

(***************************************************************************)
(* Sets of cells that some of the phases close: what lies over a column or *)
(* a row of the coarsest level, and over all of that level but one cell.   *)
(***************************************************************************)
Ground(c) == At(0, X(c) \div 2^LevelIn(c), Y(c) \div 2^LevelIn(c))

MCRegions ==
  {{c \in Cells : X(Ground(c)) = x} : x \in 0 .. Extent[1] - 1}
    \cup {{c \in Cells : Y(Ground(c)) = y} : y \in 0 .. Extent[2] - 1}
    \cup {{c \in Cells : Ground(c) # d} : d \in {At(0, 0, 0), At(0, 1, 0)}}

-----------------------------------------------------------------------------
(* One level, 3 x 2 cells, three patches on two ranks. *)
FlatPatches == <<[ln |-> 0, owner |-> "r1", lo |-> <<0, 0>>, hi |-> <<0, 1>>],
                 [ln |-> 0, owner |-> "r2", lo |-> <<1, 0>>, hi |-> <<1, 1>>],
                 [ln |-> 0, owner |-> "r1", lo |-> <<2, 0>>, hi |-> <<2, 1>>]>>
FlatExtent  == <<3, 2>>
FlatRanks   == {"r1", "r2"}
AnyPhase    == SUBSET Cells

(* Two levels on a periodic 3 x 2 domain: the middle column is refined, one *)
(* fine patch on each rank, so that the halves of the coarse patch of r1    *)
(* are covered by patches of both ranks.                                    *)
TwoLevelPatches == <<[ln |-> 0, owner |-> "r1", lo |-> <<0, 0>>, hi |-> <<1, 1>>],
                     [ln |-> 0, owner |-> "r2", lo |-> <<2, 0>>, hi |-> <<2, 1>>],
                     [ln |-> 1, owner |-> "r1", lo |-> <<2, 0>>, hi |-> <<3, 1>>],
                     [ln |-> 1, owner |-> "r2", lo |-> <<2, 2>>, hi |-> <<3, 3>>]>>

(* Coarse cells joined around the periodic domain, or one beside the fine    *)
(* level; fine ones in one piece, in pieces that only coarse cells join, or  *)
(* out of reach of the coarse ones.                                          *)
FewPhases ==
  LET Fine == {c \in Cells : LevelIn(c) = 1}
  IN  {P \cup Q : P \in {{At(0, 0, 0), At(0, 2, 0)}, {At(0, 2, 1)}},
                 Q \in {{c \in Fine : X(c) = 3}, {c \in Fine : Y(c) \in {1, 2}},
                       {c \in Fine : X(c) + Y(c) \in {4, 5}},
                       {c \in Fine : X(c) = 3 /\ Y(c) >= 2}}}

(* One coarse and one fine cell. *)
PairPhases ==
  {{c, d} : c \in {e \in Cells : LevelIn(e) = 0 /\ FineCells[e] = {}},
            d \in {e \in Cells : LevelIn(e) = 1}}

=============================================================================
