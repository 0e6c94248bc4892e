--------------------------- MODULE GrainExtension ---------------------------
(***************************************************************************)
(* Grains::extendGrainOrientation (src/source/Grains.C): the orientations  *)
(* of the cells whose phase reaches the threshold are spread, one layer of *)
(* cells in each iteration, over the cells where it does not.              *)
(*                                                                         *)
(* The ranks meet as in GrainNumbering.  A sweep reads only the scratch    *)
(* copies fillData made and is one step for all of a rank's patches of a   *)
(* level.  An orientation is the set of cells it was averaged from, so a   *)
(* copy is a copy and the average of fine cells is a union.                *)
(***************************************************************************)
EXTENDS DistributedHierarchy

CONSTANTS
  Leaves,     \* Cell -> the cells under it that no finer level covers
  PatchOf,    \* Cell -> its patch
  MaxIter,    \* max_iteration_count
  Phases,     \* the sets of cells the phase may put above the threshold
  Distance    \* steps between two cells of a level, for NearestGrain

Tag == {"fill", "tag", "iterate", "final"} \X Level

NotSent == [flag |-> -2, quat |-> {}]     \* the owner has not packed this cell

ASSUME ExtensionAssumption ==
  /\ Leaves \in [Cell -> SUBSET Cell]
  /\ \A c \in Cell : Leaves[c] = IF Children[c] = {} THEN {c}
                                 ELSE UNION {Leaves[d] : d \in Children[c]}
  /\ \A c \in Cell : DOMAIN Sources[c] = 1 .. 4
  /\ PatchOf \in [Cell -> Int]
  /\ MaxIter \in Nat \ {0}
  /\ Phases \subseteq SUBSET Cell
  /\ Distance \in [Cell \X Cell -> Nat]

(* On one level, the distance counts the steps from neighbour to neighbour. *)
ASSUME DistanceAssumption ==
  MaxLn = 0 => \A s, c \in Cell :
    /\ Distance[s, c] = 0 <=> s = c
    /\ \A d \in Reads[c] : Distance[s, c] <= Distance[s, d] + 1
    /\ s # c => \E d \in Reads[c] : Distance[s, c] = Distance[s, d] + 1

VARIABLES
  solid,    \* cells whose phase is at least the threshold
  flag,     \* grain_extend: 1 for a cell whose orientation is settled
  quat,     \* grain_quat
  ctl,      \* each rank's place in the method: mode, stop, level
  msg,      \* packed flags and orientations of the exchanges
  unset,    \* each rank's one_still_unset
  nn        \* iterations

vars == <<solid, flag, quat, ctl, msg, unset, nn>>

Goto(r, m, a, l) == ctl' = [ctl EXCEPT ![r] = [mode |-> m, at |-> a, ln |-> l]]

Pack(tag, r, ln) ==
  msg' = [msg EXCEPT ![tag] =
            [c \in Cell |-> IF OwnerOf[c] = r /\ LevelOf[c] \in ln
                            THEN [flag |-> flag[c], quat |-> quat[c]] ELSE @[c]]]

-----------------------------------------------------------------------------
(* Every cell of a grain is tagged.  The flags of a level are transferred  *)
(* to the coarser one as soon as they are set, from coarse to fine.        *)

Init ==
  /\ solid \in Phases
  /\ flag = [c \in Cell |-> IF c \in solid THEN 1 ELSE 0]
  /\ quat = Leaves
  /\ ctl = [r \in Rank |-> IF MaxLn > 0
                           THEN [mode |-> "tag", at |-> "send", ln |-> 1]
                           ELSE [mode |-> "iterate", at |-> "fill", ln |-> 0]]
  /\ msg = [t \in Tag |-> [c \in Cell |-> NotSent]]
  /\ unset = [r \in Rank |-> TRUE]
  /\ nn = 0

Send(r) ==
  /\ ctl[r].at = "send"
  /\ Pack(<<ctl[r].mode, ctl[r].ln>>, r, {ctl[r].ln})
  /\ Goto(r, ctl[r].mode, "recv", ctl[r].ln)
  /\ UNCHANGED <<solid, flag, quat, unset, nn>>

\* The greatest value.
MutantMinInt(S) == CHOOSE v \in S : \A w \in S : v >= w

(* MinIntCoarsen on the flags 0 and 1. *)
MinInt(S) == CHOOSE v \in S : \A w \in S : v <= w

AfterCoarsen(r, m, ln) ==
  \/ m = "tag" /\ ln < MaxLn /\ Goto(r, "tag", "send", ln + 1)
  \/ m = "tag" /\ ln = MaxLn /\ Goto(r, "iterate", "fill", 0)
  \/ m = "iterate" /\ ln < MaxLn /\ Goto(r, "iterate", "fill", ln + 1)
  \/ m = "iterate" /\ ln = MaxLn /\ Goto(r, "iterate", "reduce", ln)
  \/ m = "final" /\ ln > 1 /\ Goto(r, "final", "send", ln - 1)
  \/ m = "final" /\ ln = 1 /\ Goto(r, "final", "done", 0)

(* Flags are transferred up to the end of the loop, orientations from its  *)
(* start.                                                                  *)
Coarsen(r) ==
  LET m       == ctl[r].mode
      ln      == ctl[r].ln
      targets == {c \in Own[r][ln - 1] : Covered(c)}
      fine    == msg[<<m, ln>>]
  IN  /\ ctl[r].at = "recv"
      /\ \A c \in targets : \A d \in Children[c] : fine[d] # NotSent
      /\ flag' = [c \in Cell |-> IF c \in targets /\ m # "final"
                                 THEN MinInt({fine[d].flag : d \in Children[c]})
                                 ELSE flag[c]]
      /\ quat' = [c \in Cell |-> IF c \in targets /\ m # "tag"
                                 THEN UNION {fine[d].quat : d \in Children[c]}
                                 ELSE quat[c]]
      /\ AfterCoarsen(r, m, ln)
      /\ UNCHANGED <<solid, msg, unset, nn>>

-----------------------------------------------------------------------------
(* One iteration. *)

\* The coarse cells under the level's ghost cells are not sent.
MutantFill(r) ==
  LET ln == ctl[r].ln
  IN  /\ ctl[r].at = "fill"
      /\ Pack(<<"fill", ln>>, r, {ln})
      /\ unset' = IF ln = 0 THEN [unset EXCEPT ![r] = TRUE] ELSE unset
      /\ Goto(r, "iterate", "sweep", ln)
      /\ UNCHANGED <<solid, flag, quat, nn>>

(* The fills of grain_extend and grain_quat on a level.  The first one of   *)
(* an iteration follows one_still_unset = 1.                                *)
Fill(r) ==
  LET ln == ctl[r].ln
  IN  /\ ctl[r].at = "fill"
      /\ Pack(<<"fill", ln>>, r, {ln, ln - 1})
      /\ unset' = IF ln = 0 THEN [unset EXCEPT ![r] = TRUE] ELSE unset
      /\ Goto(r, "iterate", "sweep", ln)
      /\ UNCHANGED <<solid, flag, quat, nn>>

\* The sweep does not wait for the ghosts.
MutantHaloReady(r, ln) == TRUE

HaloReady(r, ln) ==
  \A c \in Own[r][ln] : \A i \in Ghosts[c] :
     Sources[c][i] # NoCell => msg[<<"fill", ln>>][Sources[c][i]] # NotSent

(* The scratch values at the i-th neighbour.  fillData leaves the ghosts    *)
(* outside a non-periodic domain uninitialized: v is the flag in them.      *)
FlagSeen(c, i, v) ==
  LET d == Sources[c][i]
  IN  IF d = NoCell THEN v
      ELSE IF i \in Ghosts[c] THEN msg[<<"fill", LevelOf[c]>>][d].flag ELSE flag[d]

QuatSeen(c, i) ==
  LET d == Sources[c][i]
  IN  IF d = NoCell THEN {NoCell}
      ELSE IF i \in Ghosts[c] THEN msg[<<"fill", LevelOf[c]>>][d].quat ELSE quat[d]

(* In each direction cp is looked at before cm. *)
Preference == <<2, 1, 4, 3>>

Tagged(c, k, v) == FlagSeen(c, Preference[k], v) = 1

Takes(c, v) == flag[c] = 0 /\ \E k \in 1 .. 4 : Tagged(c, k, v)

Taken(c, v) ==
  QuatSeen(c, Preference[CHOOSE k \in 1 .. 4 :
                           Tagged(c, k, v) /\ \A j \in 1 .. k - 1 : ~ Tagged(c, j, v)])

(* The last patch a rank visits on a level; one_still_unset = 0 is inside  *)
(* the loop over the patches, so that the patch decides alone.             *)
LastPatch(r, ln) ==
  {c \in Own[r][ln] : PatchOf[c] = PatchOf[Order[r][ln][Len(Order[r][ln])]]}

StillUnset(r, ln, v) ==
  IF Own[r][ln] = {} THEN unset[r]
  ELSE \E c \in LastPatch(r, ln) : flag[c] = 0 /\ ~ Takes(c, v)

Sweep(r) ==
  LET ln == ctl[r].ln
  IN  /\ ctl[r].at = "sweep"
      /\ HaloReady(r, ln)
      /\ \E v \in {0, 1} :
           /\ flag' = [c \in Cell |-> IF c \in Own[r][ln] /\ Takes(c, v) THEN 1 ELSE flag[c]]
           /\ quat' = [c \in Cell |-> IF c \in Own[r][ln] /\ Takes(c, v)
                                      THEN Taken(c, v) ELSE quat[c]]
           /\ unset' = [unset EXCEPT ![r] = StillUnset(r, ln, v)]
      /\ IF ln > 0 THEN Goto(r, "iterate", "send", ln)
         ELSE IF MaxLn > 0 THEN Goto(r, "iterate", "fill", 1)
         ELSE Goto(r, "iterate", "reduce", 0)
      /\ UNCHANGED <<solid, msg, nn>>

\* The last transfers start one level too high.
MutantAfterLoop ==
  [mode |-> "final", at |-> IF MaxLn > 0 THEN "send" ELSE "done", ln |-> MaxLn + 1]

\* There are no last transfers.
MutantLoopOnly == [mode |-> "final", at |-> "done", ln |-> MaxLn]

AfterLoop == [mode |-> "final", at |-> IF MaxLn > 0 THEN "send" ELSE "done", ln |-> MaxLn]

NextIteration(more) ==
  /\ \A r \in Rank : ctl[r].at = "reduce"
  /\ ctl' = [r \in Rank |-> IF r \in more THEN [mode |-> "iterate", at |-> "fill", ln |-> 0]
                            ELSE AfterLoop]
  /\ nn' = IF \E r \in Rank : unset[r] THEN nn + 1 ELSE nn
  /\ msg' = [t \in Tag |-> IF t[1] \in {"fill", "iterate"}
                           THEN [c \in Cell |-> NotSent] ELSE msg[t]]
  /\ UNCHANGED <<solid, flag, quat, unset>>

\* Each rank looks at its own flag only.
MutantReduce == NextIteration({r \in Rank : unset[r] /\ nn + 1 < MaxIter})

(* AllReduce(MAX) of any_still_unset. *)
AllReduce ==
  NextIteration(IF (\E r \in Rank : unset[r]) /\ nn + 1 < MaxIter THEN Rank ELSE {})

-----------------------------------------------------------------------------

RankStep(r) == Send(r) \/ Coarsen(r) \/ Fill(r) \/ Sweep(r)

Terminated == \A r \in Rank : ctl[r].at = "done"

Next == (\E r \in Rank : RankStep(r)) \/ AllReduce

Spec == Init /\ [][Next]_vars

FairSpec == Spec /\ WF_vars(AllReduce) /\ \A r \in Rank : WF_vars(RankStep(r))

-----------------------------------------------------------------------------
(* Properties. *)

Source == SUBSET (Cell \cup {NoCell})

(* Every variable has its type; flags are 0 or 1.  (all of the state) *)
TypeOK ==
  /\ solid \in SUBSET Cell
  /\ flag \in [Cell -> {0, 1}]
  /\ quat \in [Cell -> Source]
  /\ ctl \in [Rank -> [mode : {"tag", "iterate", "final"}, ln : Level,
                       at : {"send", "recv", "fill", "sweep", "reduce", "done"}]]
  /\ msg \in [Tag -> [Cell -> [flag : {0, 1}, quat : Source] \cup {NotSent}]]
  /\ unset \in [Rank -> BOOLEAN]
  /\ nn \in Nat

Tagging(c) == Covered(c) /\ ctl[OwnerOf[c]].mode = "tag"

(* On a periodic domain of at most two levels, a settled cell has the       *)
(* orientation of cells inside grains only, also while it is in transit and *)
(* in the covered cells; with a third level, where a cell of level 1 under  *)
(* it is above the threshold only if all cells in it are.  (the sweep and   *)
(* the transfers of flag and quat)                                          *)
OrientationFromGrain ==
  /\ \A c \in Cell : flag[c] = 1 /\ ~ Tagging(c) => quat[c] \subseteq solid
  /\ \A t \in Tag : t[1] \in {"fill", "iterate"} =>
       \A c \in Cell : msg[t][c].flag = 1 => msg[t][c].quat \subseteq solid

(* At the end every covered cell has the average of the orientations under  *)
(* it, although in an iteration a level is transferred to the coarser one   *)
(* before the finer ones are swept.  (the coarsening of d_grain_quat_id in  *)
(* and after the loop)                                                      *)
CoveredIsAverage ==
  Terminated => \A c \in Cell : Covered(c) => quat[c] = UNION {quat[d] : d \in Children[c]}

(* On one level each cell takes the orientation of a nearest cell of a      *)
(* grain, in the iteration that is its distance from it, wherever patches   *)
(* and ranks end.  (scratch copies keep a sweep to one layer)               *)
NearestGrain ==
  MaxLn = 0 =>
    /\ \A c \in Cell : flag[c] = 1 =>
         \A s \in quat[c], d \in solid : s \in solid /\ Distance[s, c] <= Distance[d, c]
    /\ (\A r \in Rank : ctl[r].at = "fill") =>
         \A c \in Cell : flag[c] = 1 <=> \E s \in solid : Distance[s, c] <= nn

(* When "Grain extension converged" is printed, no cell without an          *)
(* orientation has a neighbour with one.  (Grains.C: "Iterate over all      *)
(* cells, filling with a tagged neighbor if there is one.")                 *)
ConvergedIsExtended ==
  Terminated /\ nn < MaxIter =>
    \A c, d \in Cell : Adjacent(c, d) /\ flag[c] = 1 => flag[d] = 1

(* What a rank needs of the others for its next step.                       *)
CanStep(r) ==
  LET m  == ctl[r].mode
      ln == ctl[r].ln
  IN  \/ ctl[r].at \in {"send", "fill"}
      \/ ctl[r].at = "recv" /\ \A c \in Own[r][ln - 1] : \A d \in Children[c] :
                                  msg[<<m, ln>>][d] # NotSent
      \/ ctl[r].at = "sweep" /\ HaloReady(r, ln)

(* Some rank can go on, or all are in the reduction: no rank waits for data *)
(* that is never sent, or for one that is past the loop.  (fillData,        *)
(* coarsenData and AllReduce of extendGrainOrientation)                     *)
NoRankWaits ==
  \/ Terminated
  \/ \E r \in Rank : CanStep(r)
  \/ \A r \in Rank : ctl[r].at = "reduce"

(* The method returns on every rank.  (the exchanges and the reduction)     *)
Termination == <>Terminated

=============================================================================
