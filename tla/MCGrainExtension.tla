-------------------------- MODULE MCGrainExtension --------------------------
(***************************************************************************)
(* Instances of GrainExtension on hierarchies built by PatchHierarchy.     *)
(***************************************************************************)
EXTENDS GrainExtension, PatchHierarchy

(* TLC computes a constant of the main module once, and those of            *)
(* PatchHierarchy wherever they occur.                                      *)
MCCell     == Cells
MCMaxLn    == MaxLevel
MCOwnerOf  == Owner
MCSources  == Stencil
MCGhosts   == OutsideBox
MCChildren == FineCells
MCPatchOf  == PatchIndex

MCLevelOf == Table([c \in Cells |-> LevelIn(c)])
MCOrder   == Table([r \in Rank |-> Table([ln \in 0 .. MaxLevel |-> VisitOrder(r, ln)])])

MCLeaves ==
  LET leaves[c \in Cells] ==
        IF FineCells[c] = {} THEN {c} ELSE UNION {leaves[d] : d \in FineCells[c]}
  IN  Table(leaves)

(* max_iteration_count: the largest number of cells of a level along a      *)
(* direction.                                                               *)
MaxIterationCount ==
  LET widths == {NumberCells(ln, d) : ln \in 0 .. MaxLevel, d \in {1, 2}}
  IN  CHOOSE w \in widths : \A v \in widths : v <= w

(* The shorter way around the periodic domain, in both directions. *)
Around(n, i, j) ==
  LET k == IF i < j THEN j - i ELSE i - j IN IF k <= n - k THEN k ELSE n - k

Steps == Table([p \in Cells \X Cells |->
  Around(Extent[1], X(p[1]), X(p[2])) + Around(Extent[2], Y(p[1]), Y(p[2]))])

NoSteps == Table([p \in Cells \X Cells |-> 0])

Ranks == {"r1", "r2"}

-----------------------------------------------------------------------------
(* One level, 4 x 3 cells, periodic, three patches on two ranks. *)
FlatPatches == <<[ln |-> 0, owner |-> "r1", lo |-> <<0, 0>>, hi |-> <<1, 1>>],
                 [ln |-> 0, owner |-> "r2", lo |-> <<2, 0>>, hi |-> <<3, 2>>],
                 [ln |-> 0, owner |-> "r1", lo |-> <<0, 2>>, hi |-> <<1, 2>>]>>
FlatExtent  == <<4, 3>>

(* No grain, or one or two cells in grains. *)
PairPhases == {{}} \cup {{c, d} : c, d \in Cells}

(* Three levels: the two left columns of a periodic 3 x 2 domain refined,   *)
(* one fine patch on each rank, and one cell of r2's patch refined again,   *)
(* on r2: r1 has no patch of the finest level.                              *)
LevelPatches == <<[ln |-> 0, owner |-> "r1", lo |-> <<0, 0>>, hi |-> <<1, 1>>],
                  [ln |-> 0, owner |-> "r2", lo |-> <<2, 0>>, hi |-> <<2, 1>>],
                  [ln |-> 1, owner |-> "r2", lo |-> <<0, 0>>, hi |-> <<1, 3>>],
                  [ln |-> 1, owner |-> "r1", lo |-> <<2, 0>>, hi |-> <<3, 3>>],
                  [ln |-> 2, owner |-> "r2", lo |-> <<2, 2>>, hi |-> <<3, 3>>]>>
LevelExtent  == <<3, 2>>

Finest  == {c \in Cells : LevelIn(c) = 2}
Refined == At(1, 1, 1)      \* the cell of level 1 under them

(* Grains on one level or across them, so that the finest cells are the     *)
(* first to be reached, or the last.  A cell of level 0 is above the        *)
(* threshold with all, some or none of the cells in it; the refined cell of *)
(* level 1 only with all of them, as OrientationFromGrain asks.             *)
LevelPhases ==
  {{At(0, 2, 0)}, {At(0, 0, 0), At(0, 2, 1)}, {At(2, 2, 2)}, {At(2, 3, 3), At(0, 2, 0)}} \cup
  {Finest \cup {Refined, At(1, 0, 1), At(0, 0, 0)},
   {At(1, 2, 0), At(1, 3, 0), At(1, 2, 1), At(0, 1, 0)},
   {At(1, 3, 1), At(1, 3, 2), At(1, 1, 0)},
   {c \in Cells : LevelIn(c) < 2} \ {Refined, At(1, 2, 1)}}

=============================================================================
