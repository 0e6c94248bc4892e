--------------------------- MODULE GrainNumbering ---------------------------
(***************************************************************************)
(* Grains::findAndNumberGrains (src/source/Grains.C): the connected sets   *)
(* of cells whose phase reaches the threshold are found by flooding each   *)
(* of them with its lowest cell number, over all patches, levels and MPI   *)
(* ranks, and are then numbered 0, 1, 2, ...                               *)
(*                                                                         *)
(* A rank owns the cells of its patches and runs the method on its own;    *)
(* it meets the others in the ghost exchanges (fillData), in the fine to   *)
(* coarse transfers (coarsenData) and in two collective operations.  An    *)
(* exchange is a message: msg[tag][c] is the value of cell c its owner has *)
(* packed for that exchange, NotSent before.  A cell is swept in one step. *)
(***************************************************************************)
EXTENDS DistributedHierarchy

CONSTANTS
  Leaves,     \* Cell -> the cells under it that no finer level covers
  Number,     \* Cell -> the number the cell starts with
  MaxIter,    \* max_iteration_count
  Phases,     \* the sets of cells the phase may put above the threshold
  Regions     \* sets of cells LabelOrigin is stated about

Tag == {"fill", "init", "iterate", "final"} \X Level

None    == -1     \* label of a cell outside every grain
NotSent == -2     \* the owner has not packed this cell

ASSUME LeavesAssumption ==
  /\ Leaves \in [Cell -> SUBSET Cell]
  /\ \A c \in Cell : Leaves[c] = IF Children[c] = {} THEN {c}
                                 ELSE UNION {Leaves[d] : d \in Children[c]}

ASSUME NumberAssumption == Number \in [Cell -> Nat] /\ MaxIter \in Nat \ {0}

ASSUME PhasesAssumption == Phases \subseteq SUBSET Cell /\ Regions \subseteq SUBSET Cell

VARIABLES
  solid,           \* cells whose phase is at least the threshold
  g,               \* grain_number
  ctl,             \* each rank's place in the method: mode, stop, level, sweep index
  msg,             \* packed values of the exchanges
  changed,         \* each rank's flag of the current iteration
  counter,         \* iterations done
  grain_list,      \* the global set of labels
  numberOfGrains   \* d_number_of_grains

vars == <<solid, g, ctl, msg, changed, counter, grain_list, numberOfGrains>>

Goto(r, m, a, l) ==
  ctl' = [ctl EXCEPT ![r] = [mode |-> m, at |-> a, ln |-> l, k |-> 1]]

Pack(tag, r, ln) ==
  msg' = [msg EXCEPT ![tag] =
            [c \in Cell |-> IF OwnerOf[c] = r /\ LevelOf[c] \in ln THEN g[c] ELSE @[c]]]

-----------------------------------------------------------------------------
(* Every cell above the threshold gets its number, every other one -1; the *)
(* coarse levels then take the values of the finer ones.                   *)

\* The coarse levels keep their own numbers.
MutantInit ==
  /\ solid \in Phases
  /\ g = [c \in Cell |-> IF c \in solid THEN Number[c] ELSE None]
  /\ ctl = [r \in Rank |-> [mode |-> "iterate", at |-> "fill", ln |-> 0, k |-> 1]]
  /\ msg = [t \in Tag |-> [c \in Cell |-> NotSent]]
  /\ changed = [r \in Rank |-> FALSE]
  /\ counter = 0 /\ grain_list = {} /\ numberOfGrains = -1

Init ==
  /\ solid \in Phases
  /\ g = [c \in Cell |-> IF c \in solid THEN Number[c] ELSE None]
  /\ ctl = [r \in Rank |-> IF MaxLn > 0
                           THEN [mode |-> "init", at |-> "send", ln |-> MaxLn, k |-> 1]
                           ELSE [mode |-> "iterate", at |-> "fill", ln |-> 0, k |-> 1]]
  /\ msg = [t \in Tag |-> [c \in Cell |-> NotSent]]
  /\ changed = [r \in Rank |-> FALSE]
  /\ counter = 0
  /\ grain_list = {}
  /\ numberOfGrains = -1

(* coarsenData from level ln to ln-1, the sending half. *)
Send(r) ==
  /\ ctl[r].at = "send"
  /\ Pack(<<ctl[r].mode, ctl[r].ln>>, r, {ctl[r].ln})
  /\ Goto(r, ctl[r].mode, "recv", ctl[r].ln)
  /\ UNCHANGED <<solid, g, changed, counter, grain_list, numberOfGrains>>

MutantMinInt(S) == CHOOSE v \in S : \A w \in S : v <= w     \* counts -1 as a label

(* MinIntCoarsen: the least non-negative fine value, -1 if there is none. *)
MinInt(S) ==
  LET V == {v \in S : v >= 0}
  IN  IF V = {} THEN None ELSE CHOOSE v \in V : \A w \in V : v <= w

(* Where a rank goes after coarsenData from level ln. *)
AfterCoarsen(r, m, ln) ==
  \/ m = "iterate" /\ ln < MaxLn /\ Goto(r, "iterate", "fill", ln + 1)
  \/ m = "iterate" /\ ln = MaxLn /\ Goto(r, "iterate", "reduce", ln)
  \/ m # "iterate" /\ ln > 1 /\ Goto(r, m, "send", ln - 1)
  \/ m = "init" /\ ln = 1 /\ Goto(r, "iterate", "fill", 0)
  \/ m = "final" /\ ln = 1 /\ Goto(r, "final", "done", 0)

(* The receiving half: a rank needs the fine cells under its coarse ones. *)
Coarsen(r) ==
  LET m       == ctl[r].mode
      ln      == ctl[r].ln
      targets == {c \in Own[r][ln - 1] : Covered(c)}
      fine    == msg[<<m, ln>>]
  IN  /\ ctl[r].at = "recv"
      /\ \A c \in targets : \A d \in Children[c] : fine[d] # NotSent
      /\ g' = [c \in Cell |-> IF c \in targets
                              THEN MinInt({fine[d] : d \in Children[c]})
                              ELSE g[c]]
      /\ AfterCoarsen(r, m, ln)
      /\ UNCHANGED <<solid, msg, changed, counter, grain_list, numberOfGrains>>

-----------------------------------------------------------------------------
(* One iteration of the bucket fill. *)

\* The coarse cells under the level's ghost cells are not sent.
MutantFill(r) ==
  LET ln == ctl[r].ln
  IN  /\ ctl[r].at = "fill"
      /\ Pack(<<"fill", ln>>, r, {ln})
      /\ Goto(r, "iterate", "sweep", ln)
      /\ UNCHANGED <<solid, g, changed, counter, grain_list, numberOfGrains>>

(* fillData on level ln sends from that level and from the coarser one. *)
Fill(r) ==
  LET ln == ctl[r].ln
  IN  /\ ctl[r].at = "fill"
      /\ Pack(<<"fill", ln>>, r, {ln, ln - 1})
      /\ Goto(r, "iterate", "sweep", ln)
      /\ UNCHANGED <<solid, g, changed, counter, grain_list, numberOfGrains>>

HaloReady(r, ln) ==
  \A c \in Own[r][ln] : \A i \in Ghosts[c] :
     Sources[c][i] # NoCell => msg[<<"fill", ln>>][Sources[c][i]] # NotSent

(* The i-th neighbour value: read in place inside the patch, else a ghost. *)
Seen(c, i) ==
  IF i \in Ghosts[c] THEN msg[<<"fill", LevelOf[c]>>][Sources[c][i]] ELSE g[Sources[c][i]]

Smaller(c) ==
  {i \in DOMAIN Sources[c] :
     Sources[c][i] # NoCell /\ Seen(c, i) >= 0 /\ Seen(c, i) < g[c]}

Updates(c) == g[c] >= 0 /\ ~ Covered(c) /\ Smaller(c) # {}

\* Cells outside every grain are filled too.
MutantSweptLabel(c) ==
  LET labels == {Seen(c, i) : i \in {j \in DOMAIN Sources[c] : Sources[c][j] # NoCell}}
      known  == {v \in labels : v >= 0 /\ (g[c] < 0 \/ v < g[c])}
  IN  IF ~ Covered(c) /\ known # {} THEN CHOOSE v \in known : TRUE ELSE g[c]

(* Each smaller neighbour value overwrites the one before it. *)
SweptLabel(c) ==
  IF Updates(c) THEN Seen(c, CHOOSE i \in Smaller(c) : \A j \in Smaller(c) : j <= i)
                ELSE g[c]

SweepCell(r) ==
  LET c == Order[r][ctl[r].ln][ctl[r].k]
  IN  /\ ctl[r].at = "sweep"
      /\ ctl[r].k \in DOMAIN Order[r][ctl[r].ln]
      /\ HaloReady(r, ctl[r].ln)
      /\ g' = [g EXCEPT ![c] = SweptLabel(c)]
      /\ changed' = [changed EXCEPT ![r] = @ \/ Updates(c)]
      /\ ctl' = [ctl EXCEPT ![r].k = @ + 1]
      /\ UNCHANGED <<solid, msg, counter, grain_list, numberOfGrains>>

\* The loop over the levels runs once too often.
MutantEndSweep(r) ==
  LET ln == ctl[r].ln
  IN  /\ ctl[r].at = "sweep"
      /\ ctl[r].k \notin DOMAIN Order[r][ln]
      /\ HaloReady(r, ln)
      /\ IF ln > 0 THEN Goto(r, "iterate", "send", ln) ELSE Goto(r, "iterate", "fill", 1)
      /\ UNCHANGED <<solid, g, msg, changed, counter, grain_list, numberOfGrains>>

\* The loop over the levels starts again after the coarsest one.
MutantLevelLoop(r) ==
  LET ln == ctl[r].ln
  IN  /\ ctl[r].at = "sweep"
      /\ ctl[r].k \notin DOMAIN Order[r][ln]
      /\ HaloReady(r, ln)
      /\ IF ln > 0 THEN Goto(r, "iterate", "send", ln) ELSE Goto(r, "iterate", "fill", 0)
      /\ UNCHANGED <<solid, g, msg, changed, counter, grain_list, numberOfGrains>>

EndSweep(r) ==
  LET ln == ctl[r].ln
  IN  /\ ctl[r].at = "sweep"
      /\ ctl[r].k \notin DOMAIN Order[r][ln]
      /\ HaloReady(r, ln)
      /\ IF ln > 0 THEN Goto(r, "iterate", "send", ln)
         ELSE IF MaxLn > 0 THEN Goto(r, "iterate", "fill", 1)
         ELSE Goto(r, "iterate", "reduce", 0)
      /\ UNCHANGED <<solid, g, msg, changed, counter, grain_list, numberOfGrains>>

\* What the loop does after the reduction, given which ranks go on.
NextIteration(more) ==
  /\ \A r \in Rank : ctl[r].at = "reduce"
  /\ counter' = counter + 1
  /\ ctl' = [r \in Rank |->
               IF r \in more THEN [mode |-> "iterate", at |-> "fill", ln |-> 0, k |-> 1]
                             ELSE [mode |-> "final", at |-> "gather", ln |-> 0, k |-> 1]]
  /\ changed' = [r \in Rank |-> IF r \in more THEN FALSE ELSE changed[r]]
  /\ msg' = [t \in Tag |-> IF t[1] \in {"fill", "iterate"}
                           THEN [c \in Cell |-> NotSent] ELSE msg[t]]
  /\ UNCHANGED <<solid, g, grain_list, numberOfGrains>>

\* Each rank looks at its own flag only.
MutantReduceLocal ==
  NextIteration({r \in Rank : changed[r] /\ counter + 1 < MaxIter})

\* MPI_MIN instead of MPI_MAX.
MutantReduceMin ==
  NextIteration(IF (\A r \in Rank : changed[r]) /\ counter + 1 < MaxIter THEN Rank ELSE {})

(* Allreduce(MAX) of changed; the messages of the iteration are used up.   *)
(* The loop ends when nothing changed or max_iteration_count is reached.   *)
AllReduce ==
  NextIteration(IF (\E r \in Rank : changed[r]) /\ counter + 1 < MaxIter THEN Rank ELSE {})

-----------------------------------------------------------------------------
(* Renumbering. *)

LocalList(r) == {g[c] : c \in {d \in Cell : OwnerOf[d] = r /\ ~ Covered(d) /\ g[d] >= 0}}

\* The gathered lists are counted with their repetitions.
MutantGather ==
  /\ \A r \in Rank : ctl[r].at = "gather"
  /\ grain_list' = UNION {LocalList(r) : r \in Rank}
  /\ numberOfGrains' = Cardinality(UNION {{<<r, n>> : n \in LocalList(r)} : r \in Rank})
  /\ ctl' = [r \in Rank |-> [mode |-> "final", at |-> "renumber", ln |-> MaxLn, k |-> 1]]
  /\ UNCHANGED <<solid, g, msg, changed, counter>>

(* sumReduction and allGatherv of the local lists. *)
Gather ==
  /\ \A r \in Rank : ctl[r].at = "gather"
  /\ grain_list' = UNION {LocalList(r) : r \in Rank}
  /\ numberOfGrains' = Cardinality(grain_list')
  /\ ctl' = [r \in Rank |-> [mode |-> "final", at |-> "renumber", ln |-> MaxLn, k |-> 1]]
  /\ UNCHANGED <<solid, g, msg, changed, counter>>

(* grain_number_map[n]; a missing key is inserted with the value 0. *)
GrainNumberMap(n) ==
  IF n \in grain_list THEN Cardinality({m \in grain_list : m < n}) ELSE 0

Renumber(r) ==
  /\ ctl[r].at = "renumber"
  /\ g' = [c \in Cell |-> IF OwnerOf[c] = r /\ g[c] >= 0 THEN GrainNumberMap(g[c]) ELSE g[c]]
  /\ IF MaxLn > 0 THEN Goto(r, "final", "send", MaxLn) ELSE Goto(r, "final", "done", 0)
  /\ UNCHANGED <<solid, msg, changed, counter, grain_list, numberOfGrains>>

-----------------------------------------------------------------------------

RankStep(r) ==
  Send(r) \/ Coarsen(r) \/ Fill(r) \/ SweepCell(r) \/ EndSweep(r) \/ Renumber(r)

Terminated == \A r \in Rank : ctl[r].at = "done"

Next ==
  \/ \E r \in Rank : RankStep(r)
  \/ AllReduce
  \/ Gather

Spec == Init /\ [][Next]_vars

FairSpec ==
  /\ Spec
  /\ \A r \in Rank : WF_vars(RankStep(r))
  /\ WF_vars(AllReduce)
  /\ WF_vars(Gather)

-----------------------------------------------------------------------------
(* Properties. *)

(* Where a rank can be: in a transfer, in an iteration, or past the loop. *)
Mode == {"init", "iterate", "final"}

Control ==
  [mode : Mode, at : {"send", "recv"}, ln : 1 .. MaxLn, k : Nat]
    \cup [mode : {"iterate"}, at : {"fill", "sweep", "reduce"}, ln : Level, k : Nat]
    \cup [mode : {"final"}, at : {"gather", "renumber", "done"}, ln : Level, k : Nat]

(* Every variable has its type; labels are numbers or -1.  (all of the state) *)
TypeOK ==
  /\ solid \in SUBSET Cell
  /\ g \in [Cell -> Nat \cup {None}]
  /\ ctl \in [Rank -> Control]
  /\ msg \in [Tag -> [Cell -> Nat \cup {None, NotSent}]]
  /\ changed \in [Rank -> BOOLEAN]
  /\ counter \in Nat
  /\ grain_list \in SUBSET Nat
  /\ numberOfGrains \in Nat \cup {-1}

(* A cell can carry a label when a solid cell lies in it or under it. *)
Live(c) == Leaves[c] \cap solid # {}

(* The cells whose labels a cell can take. *)
Inflow(c) == IF Covered(c) THEN Children[c] ELSE Reads[c]

(* No label flows into the live cells of the set from outside it. *)
Closed(S) == \A c \in S : Live(c) => \A d \in Inflow(c) : Live(d) => d \in S

Origins(S) == {Number[d] : d \in {e \in S : e \in solid /\ ~ Covered(e)}}

(* The rank has not yet replaced the coarse value by that of the finer level. *)
Unsettled(c) ==
  Covered(c) /\ ctl[OwnerOf[c]].mode = "init" /\ ctl[OwnerOf[c]].ln > LevelOf[c]

Numbering(r) == ctl[r].mode # "final" \/ ctl[r].at \in {"gather", "renumber"}

OriginsIn(S) ==
  /\ \A c \in S : Numbering(OwnerOf[c]) /\ ~ Unsettled(c) /\ g[c] >= 0
                    => g[c] \in Origins(S)
  /\ \A t \in Tag : t[1] # "final" =>
       \A c \in S : msg[t][c] >= 0 => msg[t][c] \in Origins(S)

(* Before renumbering, the label of a cell, and every value in transit, is  *)
(* the number of a solid cell from which labels can flow to it: grain       *)
(* numbers never leak between regions that no chain of neighbours joins,    *)
(* whatever the order of the ranks.  (the bucket fill of Grains.C)          *)
LabelOrigin == \A S \in Regions : Closed(S) => OriginsIn(S)

(* While the grains are filled no label rises and no cell leaves its grain, *)
(* covered coarse cells included.  (the loop of findAndNumberGrains)        *)
LabelsOnlyFall ==
  [][\A c \in Cell :
       ctl[OwnerOf[c]].mode = "iterate" /\ ctl'[OwnerOf[c]].mode = "iterate"
         => g'[c] <= g[c] /\ (g[c] >= 0 => g'[c] >= 0)]_vars

(* The test of the message "Grain numbering converged". *)
Converged == counter < MaxIter

(* When the method reports convergence, neighbouring solid cells have the   *)
(* same number, across patches, ranks and levels.  (the stopping test on    *)
(* any_changed in the loop of findAndNumberGrains)                          *)
SameGrainSameNumber ==
  Terminated /\ Converged =>
    \A c, d \in solid : Adjacent(c, d) => g[c] = g[d]

(* At the end the numbers in use are exactly 0 .. numberOfGrains-1, and a   *)
(* covered cell has the least number under it.  (the renumbering)           *)
NumbersDense ==
  Terminated =>
    /\ {g[c] : c \in {d \in Cell : ~ Covered(d) /\ d \in solid}} = 0 .. numberOfGrains - 1
    /\ \A c \in Cell : Covered(c) => g[c] = MinInt({g[d] : d \in Children[c]})
    /\ \A c \in Cell : ~ Covered(c) => (g[c] >= 0 <=> c \in solid)

(* No neighbour of the cells, among the solid ones, is left out. *)
Isolated(S) == \A c \in S, d \in solid : Adjacent(c, d) => d \in S

(* A path of neighbouring solid cells leads from c to d. *)
SameGrain(c, d) == \A S \in SUBSET solid : c \in S /\ Isolated(S) => d \in S

(* Two grains that do not touch get different numbers.  (the numbers of the *)
(* cells, the bucket fill and the renumbering together)                     *)
GrainsSeparated ==
  Terminated =>
    \A c, d \in {e \in solid : ~ Covered(e)} : g[c] = g[d] => SameGrain(c, d)

(* When the method reports convergence, numberOfGrains is the number of     *)
(* grains: no grain has two numbers and no number is that of two grains.    *)
(* (the bucket fill, its stopping test and the gathering together)          *)
GrainsCounted ==
  Terminated /\ Converged =>
    LET cells == {c \in solid : ~ Covered(c)}
    IN  numberOfGrains = Cardinality({{d \in cells : SameGrain(c, d)} : c \in cells})

(* When the first iteration starts, no two cells have the same number.      *)
(* (Grains.C: "Give each cell a unique number across entire hierarchy.")    *)
CellsNumberedUniquely ==
  (\A r \in Rank : ctl[r].mode = "iterate" /\ ctl[r].at = "fill" /\ ctl[r].ln = 0)
    /\ counter = 0
    => \A c, d \in solid : ~ Covered(c) /\ ~ Covered(d) /\ g[c] = g[d] => c = d

(* What a rank needs of the others for its next step.                       *)
CanStep(r) ==
  LET m  == ctl[r].mode
      ln == ctl[r].ln
  IN  \/ ctl[r].at \in {"send", "fill", "renumber"}
      \/ ctl[r].at = "recv" /\ \A c \in Own[r][ln - 1] : \A d \in Children[c] :
                                  msg[<<m, ln>>][d] # NotSent
      \/ ctl[r].at = "sweep" /\ HaloReady(r, ln)

(* Some rank can go on, or all are in the same collective operation: no     *)
(* rank waits for data that is never sent, or for one that is past it.      *)
(* (fillData, coarsenData and the collectives of findAndNumberGrains)       *)
NoRankWaits ==
  \/ Terminated
  \/ \E r \in Rank : CanStep(r)
  \/ \A r \in Rank : ctl[r].at = "reduce"
  \/ \A r \in Rank : ctl[r].at = "gather"

(* How far a place is in the method, the iterations before this one apart.  *)
Transfer(p) == 2 * (MaxLn - p.ln) + (IF p.at = "recv" THEN 1 ELSE 0)

Loop(p) ==
  CASE p.at = "fill"   -> 4 * p.ln
    [] p.at = "sweep"  -> 4 * p.ln + 1
    [] p.at = "send"   -> 4 * p.ln + 2
    [] p.at = "recv"   -> 4 * p.ln + 3
    [] p.at = "reduce" -> 4 * MaxLn + 4

AfterLoop(p) ==
  CASE p.at = "gather"   -> 0
    [] p.at = "renumber" -> 1
    [] p.at = "done"     -> 2 * MaxLn + 2
    [] p.at \in {"send", "recv"} -> 2 + Transfer(p)

Stage(p) ==
  CASE p.mode = "init"    -> Transfer(p)
    [] p.mode = "iterate" -> 2 * MaxLn + Loop(p)
    [] p.mode = "final"   -> 6 * MaxLn + 5 + AfterLoop(p)

GoesOn(r) ==
  \/ Stage(ctl[r]) < Stage(ctl'[r])
  \/ /\ Stage(ctl[r]) = Stage(ctl'[r]) /\ ctl[r].at = "sweep" /\ ctl[r].ln = ctl'[r].ln
     /\ ctl[r].k \in DOMAIN Order[r][ctl[r].ln] /\ ctl'[r].k = ctl[r].k + 1

(* A step brings the ranks it moves nearer to the end of the method, or all *)
(* of them to the next of at most MaxIter iterations.  (the loops of        *)
(* findAndNumberGrains over iterations, levels and cells)                   *)
StepsAdvance ==
  [][IF counter' = counter
     THEN ctl' # ctl /\ \A r \in Rank : ctl'[r] = ctl[r] \/ GoesOn(r)
     ELSE counter' = counter + 1 /\ counter < MaxIter]_vars

(* The ranks never wait on each other for ever.  (fillData, coarsenData and *)
(* the collectives of findAndNumberGrains)                                  *)
Termination == <>Terminated

=============================================================================
