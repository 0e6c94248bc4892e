--------------------------- MODULE PatchHierarchy ---------------------------
(***************************************************************************)
(* The part of the SAMRAI patch hierarchy the grain algorithms rely on, in *)
(* two dimensions with refinement ratio 2.  SAMRAI is the library AMPE is  *)
(* built on; what is written here is what src/source/Grains.C uses of it:  *)
(* which cells a level has, which patch and rank a cell belongs to, where  *)
(* a ghost value comes from, which fine cells lie under a coarse cell, and *)
(* the order in which a cell iterator visits a patch.                      *)
(*                                                                         *)
(* A cell is written as the number At(level, x, y), indices being below    *)
(* 9.   The module has no state: it turns a list of patches into the       *)
(* constants of GrainNumbering and GrainExtension.                         *)
(***************************************************************************)
EXTENDS Integers, Sequences, FiniteSets, TLC

CONSTANTS
  Patches,    \* sequence of [ln, owner, lo, hi], boxes of one level disjoint
  Extent,     \* <<width, height>> of the physical domain on level 0
  Periodic,   \* are both directions periodic?
  Outside     \* stands for a ghost cell outside a non-periodic domain

ASSUME PatchesAssumption ==
  \A p \in DOMAIN Patches : Patches[p].lo[1] <= Patches[p].hi[1] /\
                            Patches[p].lo[2] <= Patches[p].hi[2]

At(ln, x, y) == 100 * ln + 10 * y + x
LevelIn(c)   == c \div 100
X(c)         == c % 10
Y(c)         == (c % 100) \div 10

(* The same function, which TLC keeps as a table instead of a rule. *)
Table(f) == f @@ <<>>

BoxCells(p) ==
  {At(Patches[p].ln, x, y) : x \in Patches[p].lo[1] .. Patches[p].hi[1],
                             y \in Patches[p].lo[2] .. Patches[p].hi[2]}

MaxLevel ==
  CHOOSE m \in {Patches[p].ln : p \in DOMAIN Patches} :
    \A p \in DOMAIN Patches : Patches[p].ln <= m

(* bbox.numberCells(d) on a level: the physical domain in its index space. *)
NumberCells(ln, d) == Extent[d] * 2^ln

Cells == UNION {BoxCells(p) : p \in DOMAIN Patches}

PatchIndex == Table([c \in Cells |-> CHOOSE p \in DOMAIN Patches : c \in BoxCells(p)])

Owner == Table([c \in Cells |-> Patches[PatchIndex[c]].owner])

Wrapped(ln, d, i) == IF Periodic THEN i % NumberCells(ln, d) ELSE i

InDomain(ln, d, i) == i \in 0 .. NumberCells(ln, d) - 1

(***************************************************************************)
(* fillData on level ln: a ghost cell takes the value of the cell of the   *)
(* same level if a patch holds it, otherwise (CONSTANT_REFINE) that of the *)
(* cell of level ln-1 below it, otherwise it is a physical boundary cell.  *)
(***************************************************************************)
GhostSource(ln, i, j) ==
  LET x == Wrapped(ln, 1, i)
      y == Wrapped(ln, 2, j)
  IN  CASE ~ (InDomain(ln, 1, x) /\ InDomain(ln, 2, y)) -> Outside
        [] At(ln, x, y) \in Cells -> At(ln, x, y)
        [] OTHER -> At(ln - 1, x \div 2, y \div 2)

(* The neighbours of a cell in the order of the loop over dd: cm then cp. *)
Offset == << <<-1, 0>>, <<1, 0>>, <<0, -1>>, <<0, 1>> >>

Stencil == Table([c \in Cells |->
  [i \in 1 .. 4 |-> GhostSource(LevelIn(c), X(c) + Offset[i][1], Y(c) + Offset[i][2])]])

(* The neighbours that lie outside the box of the cell's patch. *)
OutsideBox == Table([c \in Cells |->
  {i \in 1 .. 4 :
     At(LevelIn(c), X(c) + Offset[i][1], Y(c) + Offset[i][2]) \notin BoxCells(PatchIndex[c])}])

FineCells == Table([c \in Cells |->
  {d \in Cells : LevelIn(d) = LevelIn(c) + 1 /\ X(d) \div 2 = X(c) /\ Y(d) \div 2 = Y(c)}])

(* A patch level iterator over a rank's patches, a cell iterator over each. *)
Before(c, d) ==
  PatchIndex[c] < PatchIndex[d] \/ (PatchIndex[c] = PatchIndex[d] /\ c < d)

VisitOrder(r, ln) ==
  LET own == {c \in Cells : LevelIn(c) = ln /\ Owner[c] = r}
  IN  [i \in 1 .. Cardinality(own) |->
         CHOOSE c \in own : Cardinality({d \in own : Before(d, c)}) = i - 1]

=============================================================================
