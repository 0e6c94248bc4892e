------------------------ MODULE GrainExtensionProofs ------------------------
(***************************************************************************)
(* Theorems about GrainExtension, for every hierarchy, every phase and any *)
(* number of ranks.                                                        *)
(***************************************************************************)
EXTENDS GrainExtension, SetLemmas, TLAPS

Packed == [flag : {0, 1}, quat : Source]

(* The least of some flags is one of them, and at most each.               *)
LEMMA MinIntFlag ==
  ASSUME NEW S, S \subseteq {0, 1}, S # {}
  PROVE  MinInt(S) \in {0, 1} /\ (MinInt(S) = 1 => S = {1})
<1>0. \A v \in S : v = 0 \/ v = 1
  OBVIOUS
<1>1. \E v \in S : \A w \in S : v <= w
  <2>1. CASE 0 \in S
    <3>1. \A w \in S : 0 <= w
      BY <1>0
    <3> QED BY <2>1, <3>1
  <2>2. CASE 0 \notin S
    <3>1. 1 \in S /\ \A w \in S : w = 1
      BY <1>0, <2>2
    <3> QED BY <3>1
  <2> QED BY <2>1, <2>2
<1>2. MinInt(S) \in S /\ \A w \in S : MinInt(S) <= w
  BY <1>1 DEF MinInt
<1>3. MinInt(S) = 1 => 0 \notin S
  BY <1>2
<1> QED BY <1>0, <1>2, <1>3

(* A cell that takes part takes the orientation of a settled neighbour.    *)
LEMMA TakenFrom ==
  ASSUME NEW c \in Cell, NEW v, Takes(c, v)
  PROVE  flag[c] = 0 /\ \E i \in 1 .. 4 : FlagSeen(c, i, v) = 1 /\ Taken(c, v) = QuatSeen(c, i)
<1> DEFINE First(k) == Tagged(c, k, v) /\ \A j \in 1 .. k - 1 : ~ Tagged(c, j, v)
<1>1. \E k \in 1 .. 4 : First(k)
  <2>1. \E k \in 1 .. 4 : Tagged(c, k, v)
    BY DEF Takes
  <2>2. \/ Tagged(c, 1, v)
        \/ ~ Tagged(c, 1, v) /\ Tagged(c, 2, v)
        \/ ~ Tagged(c, 1, v) /\ ~ Tagged(c, 2, v) /\ Tagged(c, 3, v)
        \/ ~ Tagged(c, 1, v) /\ ~ Tagged(c, 2, v) /\ ~ Tagged(c, 3, v) /\ Tagged(c, 4, v)
    BY <2>1
  <2>3. 1 .. 0 = {} /\ 1 .. 1 = {1} /\ 1 .. 2 = {1, 2} /\ 1 .. 3 = {1, 2, 3}
    OBVIOUS
  <2> QED BY <2>2, <2>3
<1> DEFINE k == CHOOSE n \in 1 .. 4 : First(n)
<1>2. k \in 1 .. 4 /\ First(k)
  BY <1>1
<1>3. Taken(c, v) = QuatSeen(c, Preference[k])
  BY DEF Taken
<1> HIDE DEF k
<1>4. Preference[k] \in 1 .. 4
  BY <1>2 DEF Preference
<1>5. FlagSeen(c, Preference[k], v) = 1
  BY <1>2 DEF Tagged
<1> QED BY <1>3, <1>4, <1>5 DEF Takes

LEMMA SourceCell ==
  ASSUME NEW c \in Cell, NEW i \in 1 .. 4
  PROVE  /\ Sources[c][i] \in Cell \cup {NoCell}
         /\ <<"fill", LevelOf[c]>> \in Tag
         /\ i \notin Ghosts[c] /\ Sources[c][i] # NoCell => OwnerOf[Sources[c][i]] = OwnerOf[c]
<1>1. Sources[c] \in Seq(Cell \cup {NoCell}) /\ LevelOf[c] \in Level /\ i \in DOMAIN Sources[c]
  BY HierarchyAssumption, ExtensionAssumption
<1>2. Sources[c][i] \in Cell \cup {NoCell}
  BY <1>1
<1>3. i \notin Ghosts[c] /\ Sources[c][i] # NoCell => OwnerOf[Sources[c][i]] = OwnerOf[c]
  BY <1>1, HierarchyAssumption
<1> QED BY <1>1, <1>2, <1>3 DEF Tag

-----------------------------------------------------------------------------
(* Types. *)

LEMMA PackType ==
  ASSUME TypeOK, NEW tag \in Tag, NEW r \in Rank, NEW L, Pack(tag, r, L)
  PROVE  msg' \in [Tag -> [Cell -> Packed \cup {NotSent}]]
<1>1. [c \in Cell |-> IF OwnerOf[c] = r /\ LevelOf[c] \in L
                     THEN [flag |-> flag[c], quat |-> quat[c]] ELSE msg[tag][c]]
        \in [Cell -> Packed \cup {NotSent}]
  BY DEF TypeOK, Packed
<1> QED BY <1>1 DEF TypeOK, Pack, Packed

Place == [mode : {"tag", "iterate", "final"}, ln : Level,
          at : {"send", "recv", "fill", "sweep", "reduce", "done"}]

LEMMA GotoType ==
  ASSUME TypeOK, NEW r \in Rank, NEW m \in {"tag", "iterate", "final"}, NEW l \in Level,
         NEW a \in {"send", "recv", "fill", "sweep", "reduce", "done"}, Goto(r, m, a, l)
  PROVE  ctl' \in [Rank -> Place]
<1>1. [mode |-> m, at |-> a, ln |-> l] \in Place
  BY DEF Place
<1> QED BY <1>1 DEF TypeOK, Goto, Place

LEMMA TypeInit == Init => TypeOK
<1> SUFFICES ASSUME Init PROVE TypeOK
  OBVIOUS
<1> USE DEF Init
<1>1. solid \in SUBSET Cell /\ flag \in [Cell -> {0, 1}]
  BY ExtensionAssumption
<1>2. quat \in [Cell -> Source]
  BY ExtensionAssumption DEF Source
<1>3. ctl \in [Rank -> Place]
  BY HierarchyAssumption DEF Place, Level
<1>4. msg \in [Tag -> [Cell -> Packed \cup {NotSent}]]
  OBVIOUS
<1> QED BY <1>1, <1>2, <1>3, <1>4 DEF TypeOK, Place, Packed

LEMMA TypeSend == ASSUME TypeOK, NEW r \in Rank, Send(r) PROVE TypeOK'
<1>1. ctl[r].mode \in {"tag", "iterate", "final"} /\ ctl[r].ln \in Level
  BY DEF TypeOK
<1>2. <<ctl[r].mode, ctl[r].ln>> \in Tag
  BY <1>1 DEF Tag
<1>3. msg' \in [Tag -> [Cell -> Packed \cup {NotSent}]]
  BY <1>2, PackType DEF Send
<1>4. ctl' \in [Rank -> Place]
  BY <1>1, GotoType DEF Send
<1> QED BY <1>3, <1>4 DEF TypeOK, Send, Place, Packed

(* What a coarse cell receives. *)
LEMMA CoarsenFacts ==
  ASSUME TypeOK, NEW r \in Rank, Coarsen(r), NEW c \in Own[r][ctl[r].ln - 1], c \in Cell,
         Covered(c)
  PROVE  LET fine == msg[<<ctl[r].mode, ctl[r].ln>>]
             low  == MinInt({fine[d].flag : d \in Children[c]})
         IN  /\ \A d \in Children[c] : d \in Cell /\ fine[d] # NotSent /\ fine[d] \in Packed
             /\ low \in {0, 1}
             /\ low = 1 => \A d \in Children[c] : fine[d].flag = 1
<1> DEFINE fine == msg[<<ctl[r].mode, ctl[r].ln>>]
           S    == {fine[d].flag : d \in Children[c]}
<1>1. <<ctl[r].mode, ctl[r].ln>> \in Tag
  BY DEF TypeOK, Tag
<1>2. fine \in [Cell -> Packed \cup {NotSent}]
  BY <1>1 DEF TypeOK, Packed
<1>3. \A d \in Children[c] : d \in Cell /\ fine[d] # NotSent
  BY HierarchyAssumption DEF Coarsen
<1> HIDE DEF fine
<1>4. \A d \in Children[c] : fine[d] \in Packed /\ fine[d].flag \in {0, 1}
  BY <1>2, <1>3 DEF Packed
<1>5. S \subseteq {0, 1} /\ S # {}
  BY <1>4 DEF Covered
<1>6. MinInt(S) \in {0, 1} /\ (MinInt(S) = 1 => S = {1})
  <2> HIDE DEF S
  <2> QED BY <1>5, MinIntFlag
<1>7. S = {1} => \A d \in Children[c] : fine[d].flag = 1
  OBVIOUS
<1> QED BY <1>3, <1>4, <1>6, <1>7 DEF fine

LEMMA TypeCoarsen == ASSUME TypeOK, NEW r \in Rank, Coarsen(r) PROVE TypeOK'
<1> DEFINE m       == ctl[r].mode
           ln      == ctl[r].ln
           targets == {c \in Own[r][ln - 1] : Covered(c)}
           fine    == msg[<<m, ln>>]
<1>1. /\ flag' = [c \in Cell |-> IF c \in targets /\ m # "final"
                                 THEN MinInt({fine[d].flag : d \in Children[c]}) ELSE flag[c]]
      /\ quat' = [c \in Cell |-> IF c \in targets /\ m # "tag"
                                 THEN UNION {fine[d].quat : d \in Children[c]} ELSE quat[c]]
      /\ AfterCoarsen(r, m, ln)
  BY DEF Coarsen
<1>2. ASSUME NEW c \in targets, c \in Cell
      PROVE  /\ MinInt({fine[d].flag : d \in Children[c]}) \in {0, 1}
             /\ UNION {fine[d].quat : d \in Children[c]} \in Source
  <2>1. /\ MinInt({fine[d].flag : d \in Children[c]}) \in {0, 1}
        /\ \A d \in Children[c] : fine[d] \in Packed
    BY <1>2, CoarsenFacts
  <2> HIDE DEF fine
  <2>2. \A d \in Children[c] : fine[d].quat \subseteq Cell \cup {NoCell}
    BY <2>1 DEF Packed, Source
  <2> QED BY <2>1, <2>2 DEF Source
<1>3. m \in {"tag", "iterate", "final"} /\ ln \in Level /\ MaxLn \in Nat
  BY HierarchyAssumption DEF TypeOK
<1> HIDE DEF m, ln, targets, fine
<1>4. flag' \in [Cell -> {0, 1}]
  BY <1>1, <1>2 DEF TypeOK
<1>5. quat' \in [Cell -> Source]
  BY <1>1, <1>2 DEF TypeOK
<1>6. ctl' \in [Rank -> Place]
  <2>1. \E m2 \in {"tag", "iterate", "final"}, l \in Level,
           a \in {"send", "recv", "fill", "sweep", "reduce", "done"} : Goto(r, m2, a, l)
    BY <1>1, <1>3 DEF AfterCoarsen, Level
  <2> QED BY <2>1, GotoType
<1> QED BY <1>4, <1>5, <1>6 DEF TypeOK, Coarsen, Place

LEMMA TypeFill == ASSUME TypeOK, NEW r \in Rank, Fill(r) PROVE TypeOK'
<1>1. ctl[r].ln \in Level
  BY DEF TypeOK
<1>2. <<"fill", ctl[r].ln>> \in Tag
  BY <1>1 DEF Tag
<1>3. msg' \in [Tag -> [Cell -> Packed \cup {NotSent}]]
  BY <1>2, PackType DEF Fill
<1>4. ctl' \in [Rank -> Place]
  BY <1>1, GotoType DEF Fill
<1>5. unset' \in [Rank -> BOOLEAN]
  BY DEF Fill, TypeOK
<1> QED BY <1>3, <1>4, <1>5 DEF TypeOK, Fill, Place, Packed

LEMMA TypeSweep == ASSUME TypeOK, NEW r \in Rank, Sweep(r) PROVE TypeOK'
<1> DEFINE ln == ctl[r].ln
<1>1. PICK v \in {0, 1} :
        /\ flag' = [c \in Cell |-> IF c \in Own[r][ln] /\ Takes(c, v) THEN 1 ELSE flag[c]]
        /\ quat' = [c \in Cell |-> IF c \in Own[r][ln] /\ Takes(c, v) THEN Taken(c, v)
                                   ELSE quat[c]]
        /\ unset' = [unset EXCEPT ![r] = StillUnset(r, ln, v)]
  BY DEF Sweep
<1>2. ASSUME NEW c \in Cell, NEW i \in 1 .. 4 PROVE QuatSeen(c, i) \in Source
  <2>1. Sources[c][i] \in Cell \cup {NoCell} /\ <<"fill", LevelOf[c]>> \in Tag
    BY SourceCell
  <2>2. CASE Sources[c][i] = NoCell
    BY <2>2 DEF QuatSeen, Source
  <2>3. CASE Sources[c][i] # NoCell
    <3>1. Sources[c][i] \in Cell
      BY <2>1, <2>3
    <3>2. msg[<<"fill", LevelOf[c]>>][Sources[c][i]] \in Packed \cup {NotSent}
      BY <2>1, <3>1 DEF TypeOK, Packed
    <3>3. msg[<<"fill", LevelOf[c]>>][Sources[c][i]].quat \in Source
      BY <3>2 DEF Packed, NotSent, Source
    <3>4. quat[Sources[c][i]] \in Source
      BY <3>1 DEF TypeOK
    <3> QED BY <2>3, <3>3, <3>4 DEF QuatSeen
  <2> QED BY <2>2, <2>3
<1>3. \A c \in Cell : Takes(c, v) => Taken(c, v) \in Source
  BY <1>2, TakenFrom
<1>4. flag' \in [Cell -> {0, 1}]
  BY <1>1 DEF TypeOK
<1>5. quat' \in [Cell -> Source]
  BY <1>1, <1>3 DEF TypeOK
<1>6. StillUnset(r, ln, v) \in BOOLEAN
  BY DEF StillUnset, TypeOK
<1>7. unset' \in [Rank -> BOOLEAN]
  BY <1>1, <1>6 DEF TypeOK
<1>8. ctl' \in [Rank -> Place]
  <2>1. ln \in Level /\ MaxLn \in Nat
    BY HierarchyAssumption DEF TypeOK
  <2>2. \E a \in {"send", "fill", "reduce"}, l \in Level : Goto(r, "iterate", a, l)
    BY <2>1 DEF Sweep, Level
  <2> QED BY <2>2, GotoType
<1> QED BY <1>4, <1>5, <1>7, <1>8 DEF TypeOK, Sweep, Place

LEMMA TypeAllReduce == ASSUME TypeOK, AllReduce PROVE TypeOK'
<1>1. PICK more : NextIteration(more)
  BY DEF AllReduce
<1>2. 0 \in Level /\ MaxLn \in Level
  BY HierarchyAssumption DEF Level
<1>3. ctl' \in [Rank -> Place]
  BY <1>1, <1>2 DEF NextIteration, AfterLoop, Place
<1>4. msg' \in [Tag -> [Cell -> Packed \cup {NotSent}]]
  BY <1>1 DEF NextIteration, TypeOK, Packed
<1>5. nn' \in Nat
  BY <1>1 DEF NextIteration, TypeOK
<1> QED BY <1>1, <1>3, <1>4, <1>5 DEF NextIteration, TypeOK, Place, Packed

(* Every variable keeps its type; flags and values in transit are 0 or 1.  *)
(* (TypeOK of GrainExtension) *)
THEOREM TypeCorrect == Spec => []TypeOK
<1>1. TypeOK /\ [Next]_vars => TypeOK'
  <2> SUFFICES ASSUME TypeOK, [Next]_vars PROVE TypeOK'
    OBVIOUS
  <2>1. ASSUME NEW r \in Rank, RankStep(r) PROVE TypeOK'
    BY <2>1, TypeSend, TypeCoarsen, TypeFill, TypeSweep DEF RankStep
  <2>2. CASE UNCHANGED vars
    BY <2>2 DEF vars, TypeOK
  <2> QED BY <2>1, <2>2, TypeAllReduce DEF Next
<1> QED BY TypeInit, <1>1, PTL DEF Spec

-----------------------------------------------------------------------------
(***************************************************************************)
(* Orientations come from grains, on a periodic domain of at most two      *)
(* levels.  The flags of a covered cell and of the cells under it are      *)
(* packed, coarsened and packed again by ranks that do not wait for each   *)
(* other, so the invariant follows the flags and the orientations from the *)
(* cell through the messages to the covered cell.                          *)
(***************************************************************************)
PeriodicTwoLevels ==
  /\ MaxLn <= 1
  /\ \A c \in Cell : \A i \in 1 .. 4 : Sources[c][i] # NoCell

(* Where a rank can be.                                                    *)
PlacesInv ==
  \A r \in Rank :
    /\ ctl[r].at \in {"fill", "sweep", "reduce"} => ctl[r].mode = "iterate"
    /\ ctl[r].at \in {"send", "recv"} => ctl[r].ln = 1 /\ MaxLn = 1
    /\ ctl[r].mode = "tag" => ctl[r].at \in {"send", "recv"}
    /\ ctl[r].mode = "final" => ctl[r].at \in {"send", "recv", "done"}

Fine(d) == d \in Cell /\ ~ Covered(d)

(* Before the first coarsening: flags of the phase, orientations of leaves. *)
TaggingInv ==
  /\ \A c \in Cell : Tagging(c) => quat[c] = Leaves[c]
  /\ \A d \in Cell : Fine(d) /\ ctl[OwnerOf[d]].mode = "tag" /\ flag[d] = 1 => d \in solid
  /\ \A t \in Tag, d \in Cell : Fine(d) /\ t[1] = "tag" /\ msg[t][d].flag = 1 => d \in solid

(* A settled cell, and a packed one, has an orientation of grains; a cell   *)
(* that was settled when it was packed still is.                            *)
SettledInv ==
  /\ \A c \in Cell : flag[c] = 1 /\ ~ Tagging(c) => quat[c] \subseteq solid
  /\ \A t \in Tag, c \in Cell : msg[t][c].flag = 1 => msg[t][c].quat \subseteq solid
  /\ \A t \in Tag, d \in Cell : Fine(d) /\ msg[t][d].flag = 1 => flag[d] = 1

(* After the loop a settled covered cell has only settled cells under it,   *)
(* and what is packed then is what the cells have.                          *)
FinishedInv ==
  /\ \A c \in Cell : ctl[OwnerOf[c]].at = "reduce" \/ ctl[OwnerOf[c]].mode = "final" =>
       (flag[c] = 1 => \A d \in Children[c] : flag[d] = 1)
  /\ \A t \in Tag, d \in Cell : Fine(d) /\ t[1] = "final" /\ msg[t][d] # NotSent =>
       ctl[OwnerOf[d]].mode = "final" /\ msg[t][d] = [flag |-> flag[d], quat |-> quat[d]]

OrientationInv == PlacesInv /\ TaggingInv /\ SettledInv /\ FinishedInv

(* With two levels, what lies under a covered cell is not covered.          *)
LEMMA TwoLevels ==
  ASSUME PeriodicTwoLevels
  PROVE  /\ \A c \in Cell : LevelOf[c] = 1 => Fine(c)
         /\ \A c \in Cell : Covered(c) => LevelOf[c] = 0
         /\ \A c \in Cell : \A d \in Children[c] : Fine(d) /\ Leaves[d] = {d}
         /\ \A c \in Cell : Covered(c) => Leaves[c] = Children[c]
<1>1. /\ MaxLn \in Nat /\ LevelOf \in [Cell -> Level] /\ Children \in [Cell -> SUBSET Cell]
      /\ \A c \in Cell : \A d \in Children[c] : LevelOf[d] = LevelOf[c] + 1
      /\ \A c \in Cell : Leaves[c] = IF Children[c] = {} THEN {c}
                                    ELSE UNION {Leaves[d] : d \in Children[c]}
  BY HierarchyAssumption, ExtensionAssumption
<1>2. \A c \in Cell : LevelOf[c] \in {0, 1}
  BY <1>1 DEF Level, PeriodicTwoLevels
<1>3. ASSUME NEW c \in Cell, Covered(c) PROVE LevelOf[c] = 0
  <2>1. PICK d \in Children[c] : LevelOf[d] = LevelOf[c] + 1
    BY <1>1, <1>3 DEF Covered
  <2> QED BY <1>1, <1>2, <2>1
<1>4. \A c \in Cell : LevelOf[c] = 1 => Fine(c)
  BY <1>3 DEF Fine
<1>5. ASSUME NEW c \in Cell, NEW d \in Children[c] PROVE Fine(d) /\ Leaves[d] = {d}
  <2>1. d \in Cell /\ LevelOf[d] = 1
    BY <1>1, <1>2, <1>3 DEF Covered
  <2> QED BY <1>1, <1>4, <2>1 DEF Fine, Covered
<1>6. ASSUME NEW c \in Cell, Covered(c) PROVE Leaves[c] = Children[c]
  <2>1. Leaves[c] = UNION {Leaves[d] : d \in Children[c]}
    BY <1>1, <1>6 DEF Covered
  <2> QED BY <1>5, <2>1
<1> QED BY <1>3, <1>4, <1>5, <1>6

LEMMA OwnerIsRank == \A c \in Cell : OwnerOf[c] \in Rank
BY HierarchyAssumption

LEMMA OrientationInit == TypeOK /\ Init /\ PeriodicTwoLevels => OrientationInv
<1> SUFFICES ASSUME TypeOK, Init, PeriodicTwoLevels PROVE OrientationInv
  OBVIOUS
<1>1. MaxLn \in {0, 1}
  BY HierarchyAssumption DEF PeriodicTwoLevels
<1>2. \A r \in Rank : ctl[r] = IF MaxLn = 1 THEN [mode |-> "tag", at |-> "send", ln |-> 1]
                                ELSE [mode |-> "iterate", at |-> "fill", ln |-> 0]
  BY <1>1 DEF Init
<1>3. /\ \A c \in Cell : flag[c] = 1 => c \in solid
      /\ quat = Leaves /\ \A t \in Tag, c \in Cell : msg[t][c] = NotSent
  BY DEF Init
<1>4. NotSent.flag # 1
  BY DEF NotSent
<1>5. PlacesInv
  BY <1>1, <1>2 DEF PlacesInv
<1>6. TaggingInv
  BY <1>3, <1>4 DEF TaggingInv
<1>7. SettledInv
  <2>1. ASSUME NEW c \in Cell, flag[c] = 1, ~ Tagging(c) PROVE quat[c] \subseteq solid
    <3>1. ~ Covered(c)
      <4>1. MaxLn = 0 => LevelOf[c] = 0 /\ \A d \in Cell : LevelOf[d] = 0
        BY HierarchyAssumption DEF Level
      <4>2. Covered(c) => MaxLn = 1
        BY <1>1, <4>1, HierarchyAssumption DEF Covered
      <4> QED BY <1>2, <2>1, <4>2, OwnerIsRank DEF Tagging
    <3>2. Leaves[c] = {c}
      BY <3>1, ExtensionAssumption DEF Covered
    <3> QED BY <1>3, <2>1, <3>2
  <2> QED BY <1>3, <1>4, <2>1 DEF SettledInv
<1>8. FinishedInv
  BY <1>2, <1>3, OwnerIsRank DEF FinishedInv
<1> QED BY <1>5, <1>6, <1>7, <1>8 DEF OrientationInv

LEMMA GotoPlace ==
  ASSUME TypeOK, NEW r \in Rank, NEW m, NEW a, NEW l, Goto(r, m, a, l)
  PROVE  /\ ctl'[r] = [mode |-> m, at |-> a, ln |-> l]
         /\ \A q \in Rank : q # r => ctl'[q] = ctl[q]
BY DEF TypeOK, Goto

(* A settled cell that is packed when the rank is past the first coarsening, *)
(* or is not covered.                                                        *)
LEMMA PackSettled ==
  ASSUME TypeOK, SettledInv, NEW r \in Rank, NEW tag \in Tag, NEW L, Pack(tag, r, L),
         \A c \in Cell : OwnerOf[c] = r /\ LevelOf[c] \in L => ~ Tagging(c),
         UNCHANGED <<solid, flag>>
  PROVE  /\ \A t \in Tag, c \in Cell : msg'[t][c].flag = 1 => msg'[t][c].quat \subseteq solid
         /\ \A t \in Tag, d \in Cell : Fine(d) /\ msg'[t][d].flag = 1 => flag'[d] = 1
<1>1. ASSUME NEW t \in Tag, NEW c \in Cell
      PROVE  \/ msg'[t][c] = msg[t][c]
             \/ msg'[t][c] = [flag |-> flag[c], quat |-> quat[c]] /\ ~ Tagging(c)
  BY DEF Pack, TypeOK
<1>2. ASSUME NEW t \in Tag, NEW c \in Cell, msg'[t][c].flag = 1
      PROVE  msg'[t][c].quat \subseteq solid
  <2>1. CASE msg'[t][c] = msg[t][c]
    BY <1>2, <2>1 DEF SettledInv
  <2>2. CASE msg'[t][c] = [flag |-> flag[c], quat |-> quat[c]] /\ ~ Tagging(c)
    BY <1>2, <2>2 DEF SettledInv
  <2> QED BY <1>1, <2>1, <2>2
<1>3. ASSUME NEW t \in Tag, NEW d \in Cell, Fine(d), msg'[t][d].flag = 1
      PROVE  flag'[d] = 1
  <2>1. CASE msg'[t][d] = msg[t][d]
    BY <1>3, <2>1 DEF SettledInv
  <2>2. CASE msg'[t][d] = [flag |-> flag[d], quat |-> quat[d]]
    BY <1>3, <2>2
  <2> QED BY <1>1, <2>1, <2>2
<1> QED BY <1>2, <1>3

LEMMA OrientationSend ==
  ASSUME TypeOK, PeriodicTwoLevels, OrientationInv, NEW r \in Rank, Send(r)
  PROVE  OrientationInv'
<1> DEFINE m == ctl[r].mode
<1> USE DEF OrientationInv
<1>1. /\ ctl[r].at = "send" /\ ctl[r].ln = 1 /\ MaxLn = 1 /\ m \in {"tag", "iterate", "final"}
      /\ Pack(<<m, 1>>, r, {1}) /\ <<m, 1>> \in Tag
      /\ ctl'[r] = [mode |-> m, at |-> "recv", ln |-> 1]
      /\ \A q \in Rank : q # r => ctl'[q] = ctl[q]
      /\ UNCHANGED <<solid, flag, quat>>
  <2>1. ctl[r].at = "send" /\ ctl[r].ln = 1 /\ MaxLn = 1 /\ m \in {"tag", "iterate", "final"}
    BY DEF Send, PlacesInv, TypeOK
  <2>2. <<m, 1>> \in Tag
    BY <2>1 DEF Tag, Level
  <2>3. Pack(<<m, 1>>, r, {1}) /\ Goto(r, m, "recv", 1)
    BY <2>1 DEF Send
  <2> QED BY <2>1, <2>2, <2>3, GotoPlace DEF Send
<1>2. \A q \in Rank : ctl'[q].mode = ctl[q].mode
  BY <1>1
<1>3. \A c \in Cell : Tagging(c)' <=> Tagging(c)
  BY <1>2, OwnerIsRank DEF Tagging
<1>4. \A d \in Cell : OwnerOf[d] = r /\ LevelOf[d] = 1 => Fine(d) /\ ~ Tagging(d)
  BY TwoLevels DEF Fine, Tagging
<1>5. ASSUME NEW t \in Tag, NEW d \in Cell
      PROVE  \/ msg'[t][d] = msg[t][d]
             \/ /\ t = <<m, 1>> /\ OwnerOf[d] = r /\ LevelOf[d] = 1
                /\ msg'[t][d] = [flag |-> flag[d], quat |-> quat[d]]
  BY <1>1 DEF Pack, TypeOK
<1>6. PlacesInv'
  BY <1>1 DEF PlacesInv
<1>7. TaggingInv'
  <2>1. \A c \in Cell : Tagging(c)' => quat'[c] = Leaves[c]
    BY <1>1, <1>3 DEF TaggingInv
  <2>2. \A d \in Cell : Fine(d) /\ ctl'[OwnerOf[d]].mode = "tag" /\ flag'[d] = 1 => d \in solid'
    BY <1>1, <1>2, OwnerIsRank DEF TaggingInv
  <2>3. ASSUME NEW t \in Tag, NEW d \in Cell, Fine(d), t[1] = "tag", msg'[t][d].flag = 1
        PROVE  d \in solid
    <3>1. CASE msg'[t][d] = msg[t][d]
      BY <2>3, <3>1 DEF TaggingInv
    <3>2. CASE /\ t = <<m, 1>> /\ OwnerOf[d] = r
               /\ msg'[t][d] = [flag |-> flag[d], quat |-> quat[d]]
      BY <2>3, <3>2 DEF TaggingInv
    <3> QED BY <1>5, <3>1, <3>2
  <2> QED BY <1>1, <2>1, <2>2, <2>3 DEF TaggingInv, Fine
<1>8. SettledInv'
  <2>1. /\ \A t \in Tag, c \in Cell : msg'[t][c].flag = 1 => msg'[t][c].quat \subseteq solid
        /\ \A t \in Tag, d \in Cell : Fine(d) /\ msg'[t][d].flag = 1 => flag'[d] = 1
    BY <1>1, <1>4, PackSettled
  <2>2. \A c \in Cell : flag'[c] = 1 /\ ~ Tagging(c)' => quat'[c] \subseteq solid
    BY <1>1, <1>3 DEF SettledInv
  <2> QED BY <1>1, <2>1, <2>2 DEF SettledInv, Fine
<1>9. FinishedInv'
  <2>1. ASSUME NEW c \in Cell, ctl'[OwnerOf[c]].at = "reduce" \/ ctl'[OwnerOf[c]].mode = "final",
               flag'[c] = 1
        PROVE  \A d \in Children[c] : flag'[d] = 1
    <3>1. ctl[OwnerOf[c]].at = "reduce" \/ ctl[OwnerOf[c]].mode = "final"
      BY <1>1, <1>2, <2>1, OwnerIsRank
    <3> QED BY <1>1, <2>1, <3>1 DEF FinishedInv
  <2>2. ASSUME NEW t \in Tag, NEW d \in Cell, Fine(d), t[1] = "final", msg'[t][d] # NotSent
        PROVE  ctl'[OwnerOf[d]].mode = "final"
               /\ msg'[t][d] = [flag |-> flag'[d], quat |-> quat'[d]]
    <3>1. CASE msg'[t][d] = msg[t][d]
      BY <1>1, <1>2, <2>2, <3>1, OwnerIsRank DEF FinishedInv
    <3>2. CASE /\ t = <<m, 1>> /\ OwnerOf[d] = r
               /\ msg'[t][d] = [flag |-> flag[d], quat |-> quat[d]]
      BY <1>1, <1>2, <2>2, <3>2
    <3> QED BY <1>5, <3>1, <3>2
  <2> QED BY <2>1, <2>2 DEF FinishedInv, Fine
<1> QED BY <1>6, <1>7, <1>8, <1>9

LEMMA OrientationFill ==
  ASSUME TypeOK, PeriodicTwoLevels, OrientationInv, NEW r \in Rank, Fill(r)
  PROVE  OrientationInv'
<1> DEFINE ln == ctl[r].ln
<1> USE DEF OrientationInv
<1>1. /\ ctl[r].at = "fill" /\ ctl[r].mode = "iterate" /\ ln \in Level
      /\ Pack(<<"fill", ln>>, r, {ln, ln - 1}) /\ <<"fill", ln>> \in Tag
      /\ ctl'[r] = [mode |-> "iterate", at |-> "sweep", ln |-> ln]
      /\ \A q \in Rank : q # r => ctl'[q] = ctl[q]
      /\ UNCHANGED <<solid, flag, quat>>
  <2>1. ctl[r].at = "fill" /\ ctl[r].mode = "iterate" /\ ln \in Level
    BY DEF Fill, PlacesInv, TypeOK
  <2>2. <<"fill", ln>> \in Tag
    BY <2>1 DEF Tag
  <2>3. Pack(<<"fill", ln>>, r, {ln, ln - 1}) /\ Goto(r, "iterate", "sweep", ln)
    BY DEF Fill
  <2> QED BY <2>1, <2>2, <2>3, GotoPlace DEF Fill
<1>2. \A q \in Rank : ctl'[q].mode = ctl[q].mode
  BY <1>1
<1>3. \A c \in Cell : Tagging(c)' <=> Tagging(c)
  BY <1>2, OwnerIsRank DEF Tagging
<1>4. \A d \in Cell : OwnerOf[d] = r => ~ Tagging(d)
  BY <1>1 DEF Tagging
<1>5. \A t \in Tag : t[1] # "fill" => msg'[t] = msg[t]
  BY <1>1 DEF Pack, TypeOK
<1>6. PlacesInv'
  BY <1>1 DEF PlacesInv
<1>7. TaggingInv'
  BY <1>1, <1>2, <1>3, <1>5, OwnerIsRank DEF TaggingInv, Fine
<1>8. SettledInv'
  <2>1. /\ \A t \in Tag, c \in Cell : msg'[t][c].flag = 1 => msg'[t][c].quat \subseteq solid
        /\ \A t \in Tag, d \in Cell : Fine(d) /\ msg'[t][d].flag = 1 => flag'[d] = 1
    BY <1>1, <1>4, PackSettled
  <2>2. \A c \in Cell : flag'[c] = 1 /\ ~ Tagging(c)' => quat'[c] \subseteq solid
    BY <1>1, <1>3 DEF SettledInv
  <2> QED BY <1>1, <2>1, <2>2 DEF SettledInv, Fine
<1>9. FinishedInv'
  <2>1. \A c \in Cell : ctl'[OwnerOf[c]].at = "reduce" \/ ctl'[OwnerOf[c]].mode = "final" =>
          ctl[OwnerOf[c]].at = "reduce" \/ ctl[OwnerOf[c]].mode = "final"
    BY <1>1, OwnerIsRank
  <2> QED BY <1>1, <1>2, <1>5, <2>1, OwnerIsRank DEF FinishedInv, Fine
<1> QED BY <1>6, <1>7, <1>8, <1>9

LEMMA OrientationSweep ==
  ASSUME TypeOK, PeriodicTwoLevels, OrientationInv, NEW r \in Rank, Sweep(r)
  PROVE  OrientationInv'
<1> DEFINE ln == ctl[r].ln
<1> USE DEF OrientationInv
<1>1. PICK v \in {0, 1} :
        /\ flag' = [c \in Cell |-> IF c \in Own[r][ln] /\ Takes(c, v) THEN 1 ELSE flag[c]]
        /\ quat' = [c \in Cell |-> IF c \in Own[r][ln] /\ Takes(c, v) THEN Taken(c, v)
                                   ELSE quat[c]]
  BY DEF Sweep
<1>2. /\ ctl[r].mode = "iterate" /\ ctl'[r].mode = "iterate"
      /\ ctl'[r].at \in {"send", "fill", "reduce"}
      /\ ctl'[r].at = "send" => ctl'[r].ln = 1 /\ MaxLn = 1
      /\ ctl'[r].at = "reduce" => MaxLn = 0
      /\ ln \in Level
      /\ \A q \in Rank : q # r => ctl'[q] = ctl[q]
      /\ UNCHANGED <<solid, msg>>
  <2>1. ctl[r].mode = "iterate" /\ ln \in {0, 1} /\ ln \in Level /\ MaxLn \in {0, 1}
        /\ (ln = 1 => MaxLn = 1)
    BY HierarchyAssumption DEF Sweep, PlacesInv, TypeOK, Level, PeriodicTwoLevels
  <2>2. \/ ln = 1 /\ MaxLn = 1 /\ Goto(r, "iterate", "send", 1)
        \/ Goto(r, "iterate", "fill", 1)
        \/ MaxLn = 0 /\ Goto(r, "iterate", "reduce", 0)
    BY <2>1 DEF Sweep
  <2>3. /\ \/ ctl'[r] = [mode |-> "iterate", at |-> "send", ln |-> 1] /\ MaxLn = 1
           \/ ctl'[r] = [mode |-> "iterate", at |-> "fill", ln |-> 1]
           \/ ctl'[r] = [mode |-> "iterate", at |-> "reduce", ln |-> 0] /\ MaxLn = 0
        /\ \A q \in Rank : q # r => ctl'[q] = ctl[q]
    BY <2>2, GotoPlace
  <2> QED BY <2>1, <2>3 DEF Sweep
<1>3. \A q \in Rank : ctl'[q].mode = ctl[q].mode
  BY <1>2
<1>4. \A c \in Cell : Tagging(c)' <=> Tagging(c)
  BY <1>3, OwnerIsRank DEF Tagging
<1>5. \A c \in Cell : c \in Own[r][ln] => OwnerOf[c] = r
  BY <1>2 DEF Own
<1>6. \A c \in Cell : OwnerOf[c] # r => flag'[c] = flag[c] /\ quat'[c] = quat[c]
  BY <1>1, <1>5
<1>7. \A c \in Cell : flag[c] = 1 => flag'[c] = 1
  BY <1>1
<1>8. ASSUME NEW c \in Cell, flag'[c] = 1, ~ Tagging(c) PROVE quat'[c] \subseteq solid
  <2>1. CASE c \in Own[r][ln] /\ Takes(c, v)
    <3>1. PICK i \in 1 .. 4 : FlagSeen(c, i, v) = 1 /\ Taken(c, v) = QuatSeen(c, i)
      BY <2>1, TakenFrom
    <3>2. /\ Sources[c][i] # NoCell /\ Sources[c][i] \in Cell
          /\ <<"fill", LevelOf[c]>> \in Tag
          /\ i \notin Ghosts[c] => OwnerOf[Sources[c][i]] = r
      BY <1>5, <2>1, SourceCell DEF PeriodicTwoLevels
    <3>3. CASE i \in Ghosts[c]
      BY <1>1, <2>1, <3>1, <3>2, <3>3 DEF SettledInv, FlagSeen, QuatSeen
    <3>4. CASE i \notin Ghosts[c]
      <4>1. ~ Tagging(Sources[c][i])
        BY <1>2, <3>2, <3>4 DEF Tagging
      <4>2. flag[Sources[c][i]] = 1 /\ quat'[c] = quat[Sources[c][i]]
        BY <1>1, <2>1, <3>1, <3>2, <3>4 DEF FlagSeen, QuatSeen
      <4> QED BY <3>2, <4>1, <4>2 DEF SettledInv
    <3> QED BY <3>3, <3>4
  <2>2. CASE ~ (c \in Own[r][ln] /\ Takes(c, v))
    <3>1. flag'[c] = flag[c] /\ quat'[c] = quat[c]
      BY <1>1, <2>2
    <3> QED BY <1>8, <3>1 DEF SettledInv
  <2> QED BY <2>1, <2>2
<1>9. PlacesInv'
  BY <1>2 DEF PlacesInv
<1>10. TaggingInv'
  <2>1. \A c \in Cell : ctl[OwnerOf[c]].mode = "tag" => OwnerOf[c] # r
    BY <1>2
  <2>2. \A c \in Cell : Tagging(c)' => quat'[c] = Leaves[c]
    BY <1>4, <1>6, <2>1 DEF TaggingInv, Tagging
  <2>3. \A d \in Cell : Fine(d) /\ ctl'[OwnerOf[d]].mode = "tag" /\ flag'[d] = 1 => d \in solid
    BY <1>3, <1>6, <2>1, OwnerIsRank DEF TaggingInv
  <2> QED BY <1>2, <2>2, <2>3 DEF TaggingInv, Fine
<1>11. SettledInv'
  BY <1>2, <1>4, <1>7, <1>8 DEF SettledInv, Fine
<1>12. FinishedInv'
  <2>1. ASSUME NEW c \in Cell, ctl'[OwnerOf[c]].at = "reduce" \/ ctl'[OwnerOf[c]].mode = "final",
               flag'[c] = 1
        PROVE  \A d \in Children[c] : flag'[d] = 1
    <3>1. CASE OwnerOf[c] = r
      <4>1. MaxLn = 0
        BY <1>2, <2>1, <3>1
      <4>2. Children[c] = {}
        <5>1. \A d \in Cell : LevelOf[d] = 0
          BY <4>1, HierarchyAssumption DEF Level
        <5> QED BY <5>1, HierarchyAssumption
      <4> QED BY <4>2
    <3>2. CASE OwnerOf[c] # r
      <4>1. flag[c] = 1 /\ (ctl[OwnerOf[c]].at = "reduce" \/ ctl[OwnerOf[c]].mode = "final")
        BY <1>2, <1>6, <2>1, <3>2, OwnerIsRank
      <4>2. \A d \in Children[c] : d \in Cell /\ flag[d] = 1
        BY <4>1, HierarchyAssumption DEF FinishedInv
      <4> QED BY <1>7, <4>2
    <3> QED BY <3>1, <3>2
  <2>2. ASSUME NEW t \in Tag, NEW d \in Cell, Fine(d), t[1] = "final", msg[t][d] # NotSent
        PROVE  ctl'[OwnerOf[d]].mode = "final"
               /\ msg[t][d] = [flag |-> flag'[d], quat |-> quat'[d]]
    <3>1. ctl[OwnerOf[d]].mode = "final" /\ msg[t][d] = [flag |-> flag[d], quat |-> quat[d]]
      BY <2>2 DEF FinishedInv
    <3>2. OwnerOf[d] # r
      BY <1>2, <3>1
    <3> QED BY <1>3, <1>6, <3>1, <3>2, OwnerIsRank
  <2> QED BY <1>2, <2>1, <2>2 DEF FinishedInv, Fine
<1> QED BY <1>9, <1>10, <1>11, <1>12

LEMMA OrientationCoarsen ==
  ASSUME TypeOK, PeriodicTwoLevels, OrientationInv, NEW r \in Rank, Coarsen(r)
  PROVE  OrientationInv'
<1> DEFINE m       == ctl[r].mode
           fine    == msg[<<m, 1>>]
           target(c) == c \in Own[r][0] /\ Covered(c)
<1> USE DEF OrientationInv
<1>1. /\ ctl[r].at = "recv" /\ ctl[r].ln = 1 /\ MaxLn = 1 /\ m \in {"tag", "iterate", "final"}
      /\ <<m, 1>> \in Tag /\ UNCHANGED <<solid, msg>>
      /\ flag' = [c \in Cell |-> IF target(c) /\ m # "final"
                                 THEN MinInt({fine[d].flag : d \in Children[c]}) ELSE flag[c]]
      /\ quat' = [c \in Cell |-> IF target(c) /\ m # "tag"
                                 THEN UNION {fine[d].quat : d \in Children[c]} ELSE quat[c]]
      /\ AfterCoarsen(r, m, 1)
  <2>1. ctl[r].at = "recv" /\ ctl[r].ln = 1 /\ MaxLn = 1 /\ m \in {"tag", "iterate", "final"}
    BY DEF Coarsen, PlacesInv, TypeOK
  <2>2. <<m, 1>> \in Tag
    BY <2>1 DEF Tag, Level
  <2>3. ctl[r].ln - 1 = 0
    BY <2>1
  <2> QED BY <2>1, <2>2, <2>3 DEF Coarsen
<1>2. /\ \/ m = "tag" /\ ctl'[r] = [mode |-> "iterate", at |-> "fill", ln |-> 0]
         \/ m = "iterate" /\ ctl'[r] = [mode |-> "iterate", at |-> "reduce", ln |-> 1]
         \/ m = "final" /\ ctl'[r] = [mode |-> "final", at |-> "done", ln |-> 0]
      /\ \A q \in Rank : q # r => ctl'[q] = ctl[q]
  <2>1. \/ m = "tag" /\ Goto(r, "iterate", "fill", 0)
        \/ m = "iterate" /\ Goto(r, "iterate", "reduce", 1)
        \/ m = "final" /\ Goto(r, "final", "done", 0)
    BY <1>1 DEF AfterCoarsen
  <2> QED BY <2>1, GotoPlace
<1>3. \A c \in Cell : Covered(c) /\ OwnerOf[c] = r <=> target(c)
  BY <1>1, TwoLevels, HierarchyAssumption DEF Own, Level
<1>4. \A c \in Cell : ~ target(c) => flag'[c] = flag[c] /\ quat'[c] = quat[c]
  BY <1>1
<1>5. \A d \in Cell : Fine(d) => flag'[d] = flag[d] /\ quat'[d] = quat[d]
  BY <1>4 DEF Fine
<1>6. \A c \in Cell : OwnerOf[c] # r => flag'[c] = flag[c] /\ quat'[c] = quat[c]
  BY <1>3, <1>4
<1>7. ASSUME NEW c \in Cell, target(c)
      PROVE  /\ \A d \in Children[c] : Fine(d) /\ fine[d] # NotSent
             /\ MinInt({fine[d].flag : d \in Children[c]}) = 1
                  => \A d \in Children[c] : fine[d].flag = 1
  <2>1. ctl[r].ln - 1 = 0 /\ c \in Own[r][ctl[r].ln - 1] /\ Covered(c)
    BY <1>1, <1>7
  <2>2. msg[<<ctl[r].mode, ctl[r].ln>>] = fine
    BY <1>1
  <2> HIDE DEF fine
  <2>3. /\ \A d \in Children[c] : d \in Cell /\ fine[d] # NotSent
        /\ MinInt({fine[d].flag : d \in Children[c]}) = 1
             => \A d \in Children[c] : fine[d].flag = 1
    BY <2>1, <2>2, CoarsenFacts
  <2> QED BY <2>3, TwoLevels
<1>8. ASSUME NEW c \in Cell, flag'[c] = 1, ~ Tagging(c)' PROVE quat'[c] \subseteq solid
  <2>1. CASE target(c)
    <3>1. CASE m = "tag"
      <4>1. flag'[c] = MinInt({fine[d].flag : d \in Children[c]}) /\ quat'[c] = quat[c]
        BY <1>1, <2>1, <3>1
      <4>2. \A d \in Children[c] : Fine(d) /\ fine[d].flag = 1
        BY <1>7, <1>8, <2>1, <4>1
      <4>3. \A d \in Children[c] : d \in solid
        BY <1>1, <3>1, <4>2 DEF TaggingInv, Fine
      <4>4. quat[c] = Leaves[c]
        BY <1>3, <2>1, <3>1 DEF TaggingInv, Tagging
      <4>5. Leaves[c] = Children[c]
        BY <2>1, TwoLevels
      <4> QED BY <4>1, <4>3, <4>4, <4>5
    <3>2. CASE m = "iterate"
      <4>1. flag'[c] = MinInt({fine[d].flag : d \in Children[c]})
            /\ quat'[c] = UNION {fine[d].quat : d \in Children[c]}
        BY <1>1, <2>1, <3>2
      <4>2. \A d \in Children[c] : d \in Cell /\ fine[d].flag = 1
        BY <1>7, <1>8, <2>1, <4>1 DEF Fine
      <4>3. \A d \in Children[c] : fine[d].quat \subseteq solid
        BY <1>1, <4>2 DEF SettledInv
      <4> QED BY <4>1, <4>3
    <3>3. CASE m = "final"
      <4>1. flag[c] = 1 /\ quat'[c] = UNION {fine[d].quat : d \in Children[c]}
        BY <1>1, <1>8, <2>1, <3>3
      <4>2. ctl[OwnerOf[c]].mode = "final"
        BY <1>3, <2>1, <3>3
      <4>3. \A d \in Children[c] : Fine(d) /\ fine[d] # NotSent /\ flag[d] = 1
        BY <1>7, <2>1, <4>1, <4>2 DEF FinishedInv
      <4>4. \A d \in Children[c] : fine[d].quat = quat[d]
        <5>1. <<"final", 1>> \in Tag /\ <<"final", 1>>[1] = "final"
          BY <1>1, <3>3
        <5>2. ASSUME NEW d \in Cell, Fine(d), msg[<<"final", 1>>][d] # NotSent
              PROVE  msg[<<"final", 1>>][d].quat = quat[d]
          <6>1. msg[<<"final", 1>>][d] = [flag |-> flag[d], quat |-> quat[d]]
            BY <5>1, <5>2 DEF FinishedInv
          <6> QED BY <6>1
        <5>3. fine = msg[<<"final", 1>>]
          BY <3>3
        <5> QED BY <4>3, <5>2, <5>3 DEF Fine
      <4>5. \A d \in Children[c] : quat[d] \subseteq solid
        BY <4>3 DEF SettledInv, Tagging, Fine
      <4> QED BY <4>1, <4>4, <4>5
    <3> QED BY <1>1, <3>1, <3>2, <3>3
  <2>2. CASE ~ target(c)
    <3>1. flag[c] = 1 /\ quat'[c] = quat[c]
      BY <1>4, <1>8, <2>2
    <3>2. ~ Tagging(c)
      <4>1. CASE OwnerOf[c] = r
        BY <1>3, <2>2, <4>1 DEF Tagging
      <4>2. CASE OwnerOf[c] # r
        BY <1>2, <1>8, <4>2, OwnerIsRank DEF Tagging
      <4> QED BY <4>1, <4>2
    <3> QED BY <3>1, <3>2 DEF SettledInv
  <2> QED BY <2>1, <2>2
<1>9. PlacesInv'
  BY <1>1, <1>2 DEF PlacesInv
<1>10. TaggingInv'
  <2>1. \A c \in Cell : ctl'[OwnerOf[c]].mode = "tag" =>
          OwnerOf[c] # r /\ ctl[OwnerOf[c]].mode = "tag"
    BY <1>2, OwnerIsRank
  <2>2. \A c \in Cell : Tagging(c)' => quat'[c] = Leaves[c]
    BY <1>6, <2>1 DEF TaggingInv, Tagging
  <2>3. \A d \in Cell : Fine(d) /\ ctl'[OwnerOf[d]].mode = "tag" /\ flag'[d] = 1 => d \in solid
    BY <1>6, <2>1 DEF TaggingInv
  <2> QED BY <1>1, <2>2, <2>3 DEF TaggingInv, Fine
<1>11. SettledInv'
  BY <1>1, <1>5, <1>8 DEF SettledInv, Fine
<1>12. FinishedInv'
  <2>1. ASSUME NEW c \in Cell, ctl'[OwnerOf[c]].at = "reduce" \/ ctl'[OwnerOf[c]].mode = "final",
               flag'[c] = 1, NEW d \in Children[c]
        PROVE  flag'[d] = 1
    <3>0. Covered(c) /\ Fine(d)
      BY TwoLevels DEF Covered
    <3>1. CASE target(c) /\ m = "iterate"
      <4>1. flag'[c] = MinInt({fine[e].flag : e \in Children[c]})
        BY <1>1, <3>1
      <4>2. d \in Cell /\ fine[d].flag = 1
        BY <1>7, <2>1, <3>0, <3>1, <4>1 DEF Fine
      <4>3. flag[d] = 1
        BY <1>1, <3>0, <4>2 DEF SettledInv
      <4> QED BY <1>5, <3>0, <4>3 DEF Fine
    <3>2. CASE ~ (target(c) /\ m = "iterate")
      <4>1. flag[c] = 1 /\ (ctl[OwnerOf[c]].at = "reduce" \/ ctl[OwnerOf[c]].mode = "final")
        <5>1. CASE OwnerOf[c] = r
          <6>1. m = "final"
            BY <1>2, <1>3, <2>1, <3>0, <3>2, <5>1
          <6> QED BY <1>1, <2>1, <5>1, <6>1
        <5>2. CASE OwnerOf[c] # r
          BY <1>2, <1>6, <2>1, <5>2, OwnerIsRank
        <5> QED BY <5>1, <5>2
      <4>2. flag[d] = 1
        BY <2>1, <4>1 DEF FinishedInv
      <4> QED BY <1>5, <3>0, <4>2 DEF Fine
    <3> QED BY <3>1, <3>2
  <2>2. ASSUME NEW t \in Tag, NEW d \in Cell, Fine(d), t[1] = "final", msg[t][d] # NotSent
        PROVE  ctl'[OwnerOf[d]].mode = "final"
               /\ msg[t][d] = [flag |-> flag'[d], quat |-> quat'[d]]
    <3>1. ctl[OwnerOf[d]].mode = "final" /\ msg[t][d] = [flag |-> flag[d], quat |-> quat[d]]
      BY <2>2 DEF FinishedInv
    <3>2. ctl'[OwnerOf[d]].mode = "final"
      BY <1>2, <3>1, OwnerIsRank
    <3> QED BY <1>5, <2>2, <3>1, <3>2
  <2> QED BY <1>1, <2>1, <2>2 DEF FinishedInv, Fine
<1> QED BY <1>9, <1>10, <1>11, <1>12

LEMMA OrientationReduce ==
  ASSUME TypeOK, PeriodicTwoLevels, OrientationInv, AllReduce
  PROVE  OrientationInv'
<1> USE DEF OrientationInv
<1>1. PICK more : NextIteration(more)
  BY DEF AllReduce
<1>2. \A r \in Rank : ctl[r].at = "reduce" /\ ctl[r].mode = "iterate"
  BY <1>1 DEF NextIteration, PlacesInv
<1>3. \A r \in Rank :
        \/ ctl'[r] = [mode |-> "iterate", at |-> "fill", ln |-> 0]
        \/ ctl'[r] = [mode |-> "final", at |-> "send", ln |-> 1] /\ MaxLn = 1
        \/ ctl'[r] = [mode |-> "final", at |-> "done", ln |-> 0]
  <2>1. MaxLn \in {0, 1}
    <3>1. MaxLn \in Nat
      BY HierarchyAssumption
    <3>2. MaxLn <= 1
      BY DEF PeriodicTwoLevels
    <3> QED BY <3>1, <3>2
  <2>2. \A r \in Rank :
          ctl'[r] = [mode |-> "iterate", at |-> "fill", ln |-> 0] \/ ctl'[r] = AfterLoop
    BY <1>1 DEF NextIteration
  <2>3. AfterLoop = IF MaxLn = 1 THEN [mode |-> "final", at |-> "send", ln |-> 1]
                    ELSE [mode |-> "final", at |-> "done", ln |-> 0]
    BY <2>1 DEF AfterLoop
  <2> QED BY <2>1, <2>2, <2>3
<1>4. UNCHANGED <<solid, flag, quat>>
  BY <1>1 DEF NextIteration
<1>5. \A t \in Tag, c \in Cell :
        msg'[t][c] = msg[t][c] \/ msg'[t][c] = NotSent
  BY <1>1 DEF NextIteration
<1>6. NotSent.flag # 1
  BY DEF NotSent
<1>7. \A c \in Cell : ~ Tagging(c) /\ ~ Tagging(c)'
  BY <1>2, <1>3, OwnerIsRank DEF Tagging
<1>8. PlacesInv'
  BY <1>3 DEF PlacesInv
<1>9. TaggingInv'
  <2>1. \A c \in Cell : ctl'[OwnerOf[c]].mode # "tag"
    BY <1>3, OwnerIsRank
  <2>2. \A t \in Tag, d \in Cell : Fine(d) /\ t[1] = "tag" /\ msg'[t][d].flag = 1 => d \in solid
    BY <1>5, <1>6 DEF TaggingInv
  <2> QED BY <1>4, <1>7, <2>1, <2>2 DEF TaggingInv, Fine
<1>10. SettledInv'
  <2>1. \A t \in Tag, c \in Cell : msg'[t][c].flag = 1 => msg'[t][c] = msg[t][c]
    BY <1>5, <1>6
  <2> QED BY <1>4, <1>7, <2>1 DEF SettledInv, Fine
<1>11. FinishedInv'
  <2>1. \A c \in Cell : flag[c] = 1 => \A d \in Children[c] : flag[d] = 1
    BY <1>2, OwnerIsRank DEF FinishedInv
  <2>2. \A t \in Tag, d \in Cell : Fine(d) /\ t[1] = "final" => msg[t][d] = NotSent
    <3>1. \A d \in Cell : ctl[OwnerOf[d]].mode # "final"
      BY <1>2, OwnerIsRank
    <3> QED BY <3>1 DEF FinishedInv
  <2>3. \A t \in Tag, d \in Cell : Fine(d) /\ t[1] = "final" => msg'[t][d] = NotSent
    BY <1>5, <2>2
  <2> QED BY <1>4, <2>1, <2>3 DEF FinishedInv, Fine
<1> QED BY <1>8, <1>9, <1>10, <1>11

(* On a periodic domain of at most two levels the orientation of a settled  *)
(* cell is made of cells inside grains, covered cells and messages          *)
(* included, whatever the order of the ranks.  (OrientationFromGrain)       *)
THEOREM OrientationsAreFromGrains ==
  ASSUME PeriodicTwoLevels PROVE Spec => []OrientationFromGrain
<1>1. TypeOK /\ Init => OrientationInv
  BY OrientationInit
<1>2. TypeOK /\ OrientationInv /\ [Next]_vars => OrientationInv'
  <2> SUFFICES ASSUME TypeOK, OrientationInv, [Next]_vars PROVE OrientationInv'
    OBVIOUS
  <2>1. ASSUME NEW r \in Rank, RankStep(r) PROVE OrientationInv'
    BY <2>1, OrientationSend, OrientationCoarsen, OrientationFill, OrientationSweep DEF RankStep
  <2>2. CASE UNCHANGED vars
    BY <2>2 DEF vars, OrientationInv, PlacesInv, TaggingInv, SettledInv, FinishedInv, Tagging, Fine
  <2> QED BY <2>1, <2>2, OrientationReduce DEF Next
<1>3. OrientationInv => OrientationFromGrain
  BY DEF OrientationInv, SettledInv, OrientationFromGrain
<1> QED BY <1>1, <1>2, <1>3, TypeCorrect, PTL DEF Spec

-----------------------------------------------------------------------------
(***************************************************************************)
(* NearestGrain.  On one level the cells settle in the order of their      *)
(* distance from the grains: what a sweep reads, in place or packed, is    *)
(* settled if it is within as many steps as there were iterations.         *)
(***************************************************************************)
PeriodicDomain == \A c \in Cell : \A i \in 1 .. 4 : Sources[c][i] # NoCell

Flat == MaxLn = 0 /\ PeriodicDomain

Far(s, c) == Distance[s, c]

Side(c, i) == Sources[c][i]

Within(c, n) == \E s \in solid : Far(s, c) <= n

(* The orientation is that of nearest cells of grains.                     *)
Nearest(c, q) == \A s \in q, d \in solid : s \in solid /\ Far(s, c) <= Far(d, c)

LEMMA FlatLevel ==
  ASSUME Flat
  PROVE  Level = {0} /\ <<"fill", 0>> \in Tag
<1>1. Level = {0}
  BY DEF Flat, Level
<1> QED BY <1>1 DEF Tag

LEMMA FlatCell ==
  ASSUME Flat, NEW c \in Cell
  PROVE  LevelOf[c] = 0 /\ OwnerOf[c] \in Rank /\ Children[c] = {} /\ Leaves[c] = {c}
<1>1. \A d \in Cell : LevelOf[d] \in {0}
  BY FlatLevel, HierarchyAssumption
<1>2. Children[c] \subseteq Cell /\ \A d \in Children[c] : LevelOf[d] = LevelOf[c] + 1
  BY HierarchyAssumption
<1>3. LevelOf[c] = 0 /\ \A d \in Cell : LevelOf[d] = 0
  BY <1>1
<1>4. Children[c] = {}
  <2>1. SUFFICES ASSUME NEW d \in Children[c] PROVE FALSE
    OBVIOUS
  <2>2. LevelOf[d] = 0 + 1 /\ LevelOf[d] = 0
    BY <1>2, <1>3
  <2> QED BY <2>2
<1>5. OwnerOf[c] \in Rank
  BY OwnerIsRank
<1>6. Leaves[c] = {c}
  BY <1>4, ExtensionAssumption
<1> QED BY <1>3, <1>4, <1>5, <1>6

LEMMA FlatSide ==
  ASSUME Flat, NEW c \in Cell
  PROVE  /\ \A i \in 1 .. 4 : Side(c, i) \in Cell /\ Side(c, i) \in Reads[c]
         /\ \A d \in Reads[c] : \E i \in 1 .. 4 : Side(c, i) = d
<1>1. DOMAIN Sources[c] = 1 .. 4
  BY ExtensionAssumption
<1>2. Reads[c] = {Side(c, i) : i \in 1 .. 4} \ {NoCell}
  BY <1>1 DEF Reads, Side
<1>3. \A i \in 1 .. 4 : Side(c, i) \in Cell /\ Side(c, i) # NoCell
  BY SourceCell DEF Flat, PeriodicDomain, Side
<1> QED BY <1>2, <1>3

LEMMA FarType == \A s, c \in Cell : Far(s, c) \in Nat
<1>1. Distance \in [Cell \X Cell -> Nat]
  BY ExtensionAssumption
<1> SUFFICES ASSUME NEW s \in Cell, NEW c \in Cell PROVE Far(s, c) \in Nat
  OBVIOUS
<1>2. <<s, c>> \in Cell \X Cell
  OBVIOUS
<1>3. Distance[<<s, c>>] \in Nat
  BY <1>1, <1>2
<1> QED BY <1>3 DEF Far

LEMMA FarFacts ==
  ASSUME Flat, NEW s \in Cell, NEW c \in Cell
  PROVE  /\ Far(s, c) = 0 <=> s = c
         /\ \A d \in Reads[c] : Far(s, c) <= Far(s, d) + 1
         /\ s # c => \E d \in Reads[c] : Far(s, c) = Far(s, d) + 1
<1>1. MaxLn = 0
  BY DEF Flat
<1> QED BY <1>1, DistanceAssumption DEF Far

(* One step on.                                                            *)
LEMMA OneLayer ==
  ASSUME Flat, TypeOK, NEW c \in Cell, NEW n \in Nat
  PROVE  Within(c, n + 1) <=> Within(c, n) \/ \E i \in 1 .. 4 : Within(Side(c, i), n)
<1>1. \A s \in solid : s \in Cell
  BY DEF TypeOK
<1>2. \A s \in solid : /\ Far(s, c) \in Nat
                       /\ \A i \in 1 .. 4 : Far(s, Side(c, i)) \in Nat
  BY <1>1, FlatSide, FarType
<1>3. ASSUME Within(c, n) PROVE Within(c, n + 1)
  <2>1. PICK s \in solid : Far(s, c) <= n
    BY <1>3 DEF Within
  <2>2. Far(s, c) <= n + 1
    BY <1>2, <2>1
  <2> QED BY <2>2 DEF Within
<1>4. ASSUME NEW i \in 1 .. 4, Within(Side(c, i), n) PROVE Within(c, n + 1)
  <2>1. PICK s \in solid : Far(s, Side(c, i)) <= n
    BY <1>4 DEF Within
  <2>2. Side(c, i) \in Reads[c]
    BY FlatSide
  <2>3. Far(s, c) <= Far(s, Side(c, i)) + 1
    BY <1>1, <2>2, FarFacts
  <2>4. Far(s, c) <= n + 1
    BY <1>2, <2>1, <2>3
  <2> QED BY <2>4 DEF Within
<1>5. ASSUME Within(c, n + 1), ~ Within(c, n) PROVE \E i \in 1 .. 4 : Within(Side(c, i), n)
  <2>1. PICK s \in solid : Far(s, c) <= n + 1
    BY <1>5 DEF Within
  <2>2. ~ (Far(s, c) <= n)
    BY <1>5 DEF Within
  <2>3. Far(s, c) # 0
    BY <1>2, <2>2
  <2>4. s # c
    BY <1>1, <2>3, FarFacts
  <2>5. PICK d \in Reads[c] : Far(s, c) = Far(s, d) + 1
    BY <1>1, <2>4, FarFacts
  <2>6. PICK i \in 1 .. 4 : Side(c, i) = d
    BY FlatSide
  <2>7. Far(s, Side(c, i)) <= n
    BY <1>2, <2>1, <2>5, <2>6
  <2> QED BY <2>7 DEF Within
<1> QED BY <1>3, <1>4, <1>5

(* The orientation of a neighbour that was settled before the cell is that *)
(* of nearest cells for the cell, too.                                     *)
LEMMA TakesNearest ==
  ASSUME Flat, TypeOK, NEW c \in Cell, NEW i \in 1 .. 4, NEW n \in Nat, NEW q,
         ~ Within(c, n), Within(Side(c, i), n), Nearest(Side(c, i), q)
  PROVE  Nearest(c, q)
<1> DEFINE b == Side(c, i)
<1>1. b \in Cell /\ b \in Reads[c] /\ \A s \in solid : s \in Cell
  BY FlatSide DEF TypeOK
<1>2. PICK w \in solid : Far(w, b) <= n
  BY DEF Within
<1>3. \A s \in q, d \in solid : s \in solid /\ Far(s, b) <= Far(d, b)
  BY DEF Nearest
<1> HIDE DEF b
<1> SUFFICES ASSUME NEW s \in q, NEW d \in solid
             PROVE  s \in solid /\ Far(s, c) <= Far(d, c)
  BY DEF Nearest
<1>4. s \in solid /\ Far(s, b) <= Far(w, b)
  BY <1>2, <1>3
<1>5. Far(s, b) \in Nat /\ Far(w, b) \in Nat /\ Far(s, c) \in Nat /\ Far(d, c) \in Nat
  BY <1>1, <1>4, FarType
<1>6. Far(s, c) <= Far(s, b) + 1
  BY <1>1, <1>4, FarFacts
<1>7. ~ (Far(d, c) <= n)
  BY DEF Within
<1> QED BY <1>2, <1>4, <1>5, <1>6, <1>7

FlatPlaces == \A r \in Rank : ctl[r].ln = 0 /\ ctl[r].at \in {"fill", "sweep", "reduce", "done"}

(* A rank that has swept is one step ahead.                                *)
LayerInv ==
  \A c \in Cell :
    /\ ctl[OwnerOf[c]].at \in {"fill", "sweep"} => (flag[c] = 1 <=> Within(c, nn))
    /\ ctl[OwnerOf[c]].at = "reduce" => (flag[c] = 1 <=> Within(c, nn + 1))
    /\ flag[c] = 1 => Nearest(c, quat[c])

PackedLayer ==
  \A c \in Cell : msg[<<"fill", 0>>][c] # NotSent =>
    /\ msg[<<"fill", 0>>][c].flag = 1 <=> Within(c, nn)
    /\ msg[<<"fill", 0>>][c].flag = 1 => Nearest(c, msg[<<"fill", 0>>][c].quat)

NearInv == FlatPlaces /\ LayerInv /\ PackedLayer

LEMMA NearInit == ASSUME Flat, TypeOK, Init PROVE NearInv
<1>1. /\ \A s \in solid : s \in Cell
      /\ flag = [c \in Cell |-> IF c \in solid THEN 1 ELSE 0] /\ quat = Leaves /\ nn = 0
  BY DEF Init, TypeOK
<1>2. \A r \in Rank : ctl[r] = [mode |-> "iterate", at |-> "fill", ln |-> 0]
  BY DEF Init, Flat
<1>3. ASSUME NEW c \in Cell PROVE Within(c, 0) <=> c \in solid
  <2>1. \A s \in solid : Far(s, c) \in Nat /\ (Far(s, c) = 0 <=> s = c)
    BY <1>1, FarType, FarFacts
  <2>2. \A s \in solid : Far(s, c) <= 0 <=> s = c
    BY <2>1
  <2> QED BY <2>2 DEF Within
<1>4. ASSUME NEW c \in Cell, c \in solid PROVE Nearest(c, {c})
  <2>1. Far(c, c) = 0 /\ \A d \in solid : Far(d, c) \in Nat
    BY <1>1, FarType, FarFacts
  <2>2. \A d \in solid : Far(c, c) <= Far(d, c)
    BY <2>1
  <2> QED BY <1>4, <2>2 DEF Nearest
<1>5. LayerInv
  <2>1. SUFFICES ASSUME NEW c \in Cell
                 PROVE  /\ ctl[OwnerOf[c]].at = "fill" /\ (flag[c] = 1 <=> Within(c, nn))
                        /\ flag[c] = 1 => Nearest(c, quat[c])
    BY DEF LayerInv
  <2>2. ctl[OwnerOf[c]].at = "fill"
    BY <1>2, FlatCell
  <2>3. flag[c] = 1 <=> c \in solid
    BY <1>1
  <2>4. quat[c] = {c}
    BY <1>1, FlatCell
  <2> QED BY <1>1, <1>3, <1>4, <2>2, <2>3, <2>4
<1>6. PackedLayer
  BY FlatLevel DEF Init, PackedLayer
<1>7. FlatPlaces
  BY <1>2 DEF FlatPlaces
<1> QED BY <1>5, <1>6, <1>7 DEF NearInv

LEMMA NearFill ==
  ASSUME Flat, TypeOK, NearInv, NEW r \in Rank, Fill(r)
  PROVE  NearInv'
<1>1. ctl[r].at = "fill" /\ ctl[r].ln = 0 /\ UNCHANGED <<solid, flag, quat, nn>>
  BY DEF Fill, NearInv, FlatPlaces
<1>2. ctl' = [ctl EXCEPT ![r] = [mode |-> "iterate", at |-> "sweep", ln |-> 0]]
  BY <1>1 DEF Fill, Goto
<1>3. \A q \in Rank : ctl'[q] = IF q = r THEN [mode |-> "iterate", at |-> "sweep", ln |-> 0]
                                ELSE ctl[q]
  BY <1>2 DEF TypeOK
<1>4. \A c \in Cell : msg'[<<"fill", 0>>][c] =
        IF OwnerOf[c] = r THEN [flag |-> flag[c], quat |-> quat[c]] ELSE msg[<<"fill", 0>>][c]
  <2>1. msg' = [msg EXCEPT ![<<"fill", 0>>] =
                  [c \in Cell |-> IF OwnerOf[c] = r /\ LevelOf[c] \in {0, 0 - 1}
                                  THEN [flag |-> flag[c], quat |-> quat[c]] ELSE @[c]]]
    BY <1>1 DEF Fill, Pack
  <2>2. <<"fill", 0>> \in Tag /\ \A c \in Cell : LevelOf[c] = 0
    BY FlatLevel, FlatCell
  <2>3. msg \in [Tag -> [Cell -> Packed \cup {NotSent}]]
    BY DEF TypeOK, Packed
  <2>4. msg'[<<"fill", 0>>] =
          [c \in Cell |-> IF OwnerOf[c] = r /\ LevelOf[c] \in {0, 0 - 1}
                          THEN [flag |-> flag[c], quat |-> quat[c]] ELSE msg[<<"fill", 0>>][c]]
    BY <2>1, <2>2, <2>3
  <2> QED BY <2>2, <2>4
<1>5. LayerInv'
  <2>1. SUFFICES ASSUME NEW c \in Cell
                 PROVE  /\ ctl'[OwnerOf[c]].at \in {"fill", "sweep"} =>
                             (flag[c] = 1 <=> Within(c, nn))
                        /\ ctl'[OwnerOf[c]].at = "reduce" => (flag[c] = 1 <=> Within(c, nn + 1))
                        /\ flag[c] = 1 => Nearest(c, quat[c])
    BY <1>1 DEF LayerInv, Within, Nearest
  <2>2. OwnerOf[c] \in Rank
    BY FlatCell
  <2> QED BY <1>1, <1>3, <2>2 DEF NearInv, LayerInv
<1>6. PackedLayer'
  <2>1. SUFFICES ASSUME NEW c \in Cell, msg'[<<"fill", 0>>][c] # NotSent
                 PROVE  /\ msg'[<<"fill", 0>>][c].flag = 1 <=> Within(c, nn)
                        /\ msg'[<<"fill", 0>>][c].flag = 1 =>
                             Nearest(c, msg'[<<"fill", 0>>][c].quat)
    BY <1>1 DEF PackedLayer, Within, Nearest
  <2>2. CASE OwnerOf[c] = r
    <3> DEFINE m == msg'[<<"fill", 0>>][c]
    <3>0. m = [flag |-> flag[c], quat |-> quat[c]]
      BY <1>4, <2>2
    <3> HIDE DEF m
    <3>1. m.flag = flag[c] /\ m.quat = quat[c]
      BY <3>0
    <3>2. ctl[OwnerOf[c]].at \in {"fill", "sweep"}
      BY <1>1, <2>2
    <3>3. (flag[c] = 1 <=> Within(c, nn)) /\ (flag[c] = 1 => Nearest(c, quat[c]))
      BY <3>2 DEF NearInv, LayerInv
    <3> QED BY <3>1, <3>3 DEF m
  <2>3. CASE OwnerOf[c] # r
    BY <1>4, <2>1, <2>3 DEF NearInv, PackedLayer
  <2> QED BY <2>2, <2>3
<1>7. FlatPlaces'
  BY <1>3 DEF NearInv, FlatPlaces
<1> QED BY <1>5, <1>6, <1>7 DEF NearInv

(* What a sweep sees of a neighbour.                                       *)
LEMMA SeenLayer ==
  ASSUME Flat, TypeOK, NearInv, NEW r \in Rank, Sweep(r), NEW c \in Own[r][0],
         NEW i \in 1 .. 4, NEW v
  PROVE  /\ FlagSeen(c, i, v) = 1 <=> Within(Side(c, i), nn)
         /\ FlagSeen(c, i, v) = 1 => Nearest(Side(c, i), QuatSeen(c, i))
<1>1. c \in Cell /\ OwnerOf[c] = r /\ LevelOf[c] = 0
  BY FlatLevel DEF Own
<1>2. ctl[r].at = "sweep" /\ ctl[r].ln = 0
  BY DEF Sweep, NearInv, FlatPlaces
<1>3. Side(c, i) \in Cell /\ Side(c, i) # NoCell
  BY <1>1, FlatSide, HierarchyAssumption
<1>4. CASE i \in Ghosts[c]
  <2>1. msg[<<"fill", 0>>][Side(c, i)] # NotSent
    BY <1>2, <1>3, <1>4 DEF Sweep, HaloReady, Side
  <2>2. /\ FlagSeen(c, i, v) = msg[<<"fill", 0>>][Side(c, i)].flag
        /\ QuatSeen(c, i) = msg[<<"fill", 0>>][Side(c, i)].quat
    BY <1>1, <1>3, <1>4 DEF FlagSeen, QuatSeen, Side
  <2>3. /\ msg[<<"fill", 0>>][Side(c, i)].flag = 1 <=> Within(Side(c, i), nn)
        /\ msg[<<"fill", 0>>][Side(c, i)].flag = 1 =>
             Nearest(Side(c, i), msg[<<"fill", 0>>][Side(c, i)].quat)
    BY <1>3, <2>1 DEF NearInv, PackedLayer
  <2> QED BY <2>2, <2>3
<1>5. CASE i \notin Ghosts[c]
  <2>1. OwnerOf[Side(c, i)] = r
    BY <1>1, <1>3, <1>5, SourceCell DEF Side
  <2>2. FlagSeen(c, i, v) = flag[Side(c, i)] /\ QuatSeen(c, i) = quat[Side(c, i)]
    BY <1>3, <1>5 DEF FlagSeen, QuatSeen, Side
  <2>3. /\ flag[Side(c, i)] = 1 <=> Within(Side(c, i), nn)
        /\ flag[Side(c, i)] = 1 => Nearest(Side(c, i), quat[Side(c, i)])
    <3>1. ctl[OwnerOf[Side(c, i)]].at \in {"fill", "sweep"}
      BY <1>2, <2>1
    <3> QED BY <1>3, <3>1 DEF NearInv, LayerInv
  <2> QED BY <2>2, <2>3
<1> QED BY <1>4, <1>5

(* A cell takes part if it is next to settled cells.                       *)
LEMMA SweepLayer ==
  ASSUME Flat, TypeOK, NearInv, NEW r \in Rank, Sweep(r), NEW c \in Own[r][0], NEW v
  PROVE  /\ Takes(c, v) <=> ~ Within(c, nn) /\ \E i \in 1 .. 4 : Within(Side(c, i), nn)
         /\ Takes(c, v) => Nearest(c, Taken(c, v))
<1>1. c \in Cell /\ OwnerOf[c] = r
  BY FlatLevel DEF Own
<1>2. flag[c] \in {0, 1} /\ (flag[c] = 1 <=> Within(c, nn))
  <2>1. ctl[OwnerOf[c]].at \in {"fill", "sweep"}
    BY <1>1 DEF Sweep
  <2> QED BY <1>1, <2>1 DEF NearInv, LayerInv, TypeOK
<1>3. \A i \in 1 .. 4 : /\ FlagSeen(c, i, v) = 1 <=> Within(Side(c, i), nn)
                        /\ FlagSeen(c, i, v) = 1 => Nearest(Side(c, i), QuatSeen(c, i))
  BY SeenLayer
<1>4. ASSUME Takes(c, v)
      PROVE  /\ ~ Within(c, nn) /\ \E i \in 1 .. 4 : Within(Side(c, i), nn)
             /\ Nearest(c, Taken(c, v))
  <2>1. flag[c] = 0
    BY <1>4 DEF Takes
  <2>2. PICK i \in 1 .. 4 : FlagSeen(c, i, v) = 1 /\ Taken(c, v) = QuatSeen(c, i)
    BY <1>1, <1>4, TakenFrom
  <2>3. ~ Within(c, nn)
    BY <1>2, <2>1
  <2>4. Within(Side(c, i), nn) /\ Nearest(Side(c, i), Taken(c, v))
    BY <1>3, <2>2
  <2>5. nn \in Nat
    BY DEF TypeOK
  <2>6. Nearest(c, Taken(c, v))
    BY <1>1, <2>3, <2>4, <2>5, TakesNearest
  <2> QED BY <2>3, <2>4, <2>6
<1>5. ASSUME ~ Within(c, nn), NEW i \in 1 .. 4, Within(Side(c, i), nn)
      PROVE  Takes(c, v)
  <2>1. flag[c] = 0
    BY <1>2, <1>5
  <2>2. FlagSeen(c, i, v) = 1
    BY <1>3, <1>5
  <2>3. PICK k \in 1 .. 4 : Preference[k] = i
    <3>1. i = 1 \/ i = 2 \/ i = 3 \/ i = 4
      OBVIOUS
    <3>2. Preference[1] = 2 /\ Preference[2] = 1 /\ Preference[3] = 4 /\ Preference[4] = 3
      BY DEF Preference
    <3> QED BY <3>1, <3>2
  <2>4. Tagged(c, k, v)
    BY <2>2, <2>3 DEF Tagged
  <2> QED BY <2>1, <2>4 DEF Takes
<1> QED BY <1>4, <1>5

LEMMA NearSweep ==
  ASSUME Flat, TypeOK, NearInv, NEW r \in Rank, Sweep(r)
  PROVE  NearInv'
<1>1. ctl[r].at = "sweep" /\ ctl[r].ln = 0 /\ UNCHANGED <<solid, msg, nn>> /\ nn \in Nat
  BY DEF Sweep, NearInv, FlatPlaces, TypeOK
<1>2. ctl' = [ctl EXCEPT ![r] = [mode |-> "iterate", at |-> "reduce", ln |-> 0]]
  BY <1>1 DEF Sweep, Goto, Flat
<1>3. \A q \in Rank : ctl'[q] = IF q = r THEN [mode |-> "iterate", at |-> "reduce", ln |-> 0]
                                ELSE ctl[q]
  BY <1>2 DEF TypeOK
<1>4. PICK v \in {0, 1} :
        /\ flag' = [c \in Cell |-> IF c \in Own[r][0] /\ Takes(c, v) THEN 1 ELSE flag[c]]
        /\ quat' = [c \in Cell |-> IF c \in Own[r][0] /\ Takes(c, v)
                                   THEN Taken(c, v) ELSE quat[c]]
  BY <1>1 DEF Sweep
<1>5. \A c \in Cell : c \in Own[r][0] <=> OwnerOf[c] = r
  <2>1. 0 \in Level /\ \A c \in Cell : LevelOf[c] = 0
    BY FlatLevel, FlatCell
  <2> QED BY <2>1 DEF Own
<1>6. LayerInv'
  <2>1. SUFFICES ASSUME NEW c \in Cell
                 PROVE  /\ ctl'[OwnerOf[c]].at \in {"fill", "sweep"} =>
                             (flag'[c] = 1 <=> Within(c, nn))
                        /\ ctl'[OwnerOf[c]].at = "reduce" =>
                             (flag'[c] = 1 <=> Within(c, nn + 1))
                        /\ flag'[c] = 1 => Nearest(c, quat'[c])
    BY <1>1 DEF LayerInv, Within, Nearest
  <2>2. OwnerOf[c] \in Rank
    BY FlatCell
  <2>3. CASE OwnerOf[c] # r
    <3>1. flag'[c] = flag[c] /\ quat'[c] = quat[c] /\ ctl'[OwnerOf[c]] = ctl[OwnerOf[c]]
      BY <1>3, <1>4, <1>5, <2>2, <2>3
    <3> QED BY <3>1 DEF NearInv, LayerInv
  <2>4. CASE OwnerOf[c] = r
    <3>1. c \in Own[r][0] /\ ctl'[OwnerOf[c]].at = "reduce"
      BY <1>3, <1>5, <2>4
    <3>2. /\ Takes(c, v) <=> ~ Within(c, nn) /\ \E i \in 1 .. 4 : Within(Side(c, i), nn)
          /\ Takes(c, v) => Nearest(c, Taken(c, v))
      BY <3>1, SweepLayer
    <3>3. /\ flag[c] = 1 <=> Within(c, nn)
          /\ flag[c] = 1 => Nearest(c, quat[c])
      <4>1. ctl[OwnerOf[c]].at \in {"fill", "sweep"}
        BY <1>1, <2>4
      <4> QED BY <4>1 DEF NearInv, LayerInv
    <3>4. Within(c, nn + 1) <=> Within(c, nn) \/ \E i \in 1 .. 4 : Within(Side(c, i), nn)
      BY <1>1, OneLayer
    <3>5. /\ flag'[c] = IF Takes(c, v) THEN 1 ELSE flag[c]
          /\ quat'[c] = IF Takes(c, v) THEN Taken(c, v) ELSE quat[c]
      BY <1>4, <3>1
    <3>6. flag'[c] = 1 <=> Within(c, nn + 1)
      BY <3>2, <3>3, <3>4, <3>5
    <3>7. flag'[c] = 1 => Nearest(c, quat'[c])
      BY <3>2, <3>3, <3>5
    <3> QED BY <3>1, <3>6, <3>7
  <2> QED BY <2>3, <2>4
<1>7. PackedLayer'
  BY <1>1 DEF NearInv, PackedLayer, Within, Nearest
<1>8. FlatPlaces'
  BY <1>3 DEF NearInv, FlatPlaces
<1> QED BY <1>6, <1>7, <1>8 DEF NearInv

LEMMA NearReduce ==
  ASSUME Flat, TypeOK, NearInv, AllReduce
  PROVE  NearInv'
<1>1. PICK more \in {Rank, {}} :
        /\ NextIteration(more)
        /\ more = IF (\E r \in Rank : unset[r]) /\ nn + 1 < MaxIter THEN Rank ELSE {}
  BY DEF AllReduce
<1>2. UNCHANGED <<solid, flag, quat>> /\ \A r \in Rank : ctl[r].at = "reduce"
  BY <1>1 DEF NextIteration
<1>3. \A r \in Rank : ctl'[r] = IF r \in more THEN [mode |-> "iterate", at |-> "fill", ln |-> 0]
                                ELSE [mode |-> "final", at |-> "done", ln |-> 0]
  BY <1>1 DEF NextIteration, AfterLoop, Flat
<1>4. (\E r \in Rank : r \in more) => nn' = nn + 1
  BY <1>1 DEF NextIteration
<1>5. LayerInv'
  <2>1. SUFFICES ASSUME NEW c \in Cell
                 PROVE  /\ ctl'[OwnerOf[c]].at \in {"fill", "sweep"} =>
                             (flag[c] = 1 <=> Within(c, nn'))
                        /\ ctl'[OwnerOf[c]].at # "reduce"
                        /\ flag[c] = 1 => Nearest(c, quat[c])
    BY <1>2 DEF LayerInv, Within, Nearest
  <2>2. OwnerOf[c] \in Rank
    BY FlatCell
  <2>3. (flag[c] = 1 <=> Within(c, nn + 1)) /\ (flag[c] = 1 => Nearest(c, quat[c]))
    BY <1>2, <2>2 DEF NearInv, LayerInv
  <2>4. ctl'[OwnerOf[c]].at \in {"fill", "sweep"} => OwnerOf[c] \in more
    BY <1>3, <2>2
  <2>5. ctl'[OwnerOf[c]].at # "reduce"
    BY <1>3, <2>2
  <2> QED BY <1>4, <2>2, <2>3, <2>4, <2>5
<1>6. PackedLayer'
  <2>1. msg'[<<"fill", 0>>] = [c \in Cell |-> NotSent]
    BY <1>1, FlatLevel DEF NextIteration
  <2> QED BY <2>1 DEF PackedLayer
<1>7. FlatPlaces'
  BY <1>3 DEF FlatPlaces
<1> QED BY <1>5, <1>6, <1>7 DEF NearInv

(* With one level of a periodic domain, orientations come from nearest     *)
(* cells of grains, and an iteration reaches one layer further.            *)
THEOREM OrientationsAreOfNearestGrains ==
  ASSUME PeriodicDomain
  PROVE  Spec => []NearestGrain
<1>1. CASE MaxLn = 0
  <2>1. Flat
    BY <1>1 DEF Flat
  <2>2. TypeOK /\ Init => NearInv
    BY <2>1, NearInit
  <2>3. TypeOK /\ NearInv /\ [Next]_vars => NearInv'
    <3> SUFFICES ASSUME TypeOK, NearInv, [Next]_vars PROVE NearInv'
      OBVIOUS
    <3>1. ASSUME NEW r \in Rank, RankStep(r) PROVE NearInv'
      <4>1. ctl[r].at # "send" /\ ctl[r].at # "recv"
        BY DEF NearInv, FlatPlaces
      <4>2. ~ Send(r) /\ ~ Coarsen(r)
        BY <4>1 DEF Send, Coarsen
      <4> QED BY <2>1, <3>1, <4>2, NearFill, NearSweep DEF RankStep
    <3>2. CASE AllReduce
      BY <2>1, <3>2, NearReduce
    <3>3. CASE UNCHANGED vars
      BY <3>3 DEF vars, NearInv, FlatPlaces, LayerInv, PackedLayer, Within, Nearest
    <3> QED BY <3>1, <3>2, <3>3 DEF Next
  <2>4. NearInv => NearestGrain
    <3> SUFFICES ASSUME NearInv PROVE NearestGrain
      OBVIOUS
    <3>1. ASSUME NEW c \in Cell, flag[c] = 1, NEW s \in quat[c], NEW d \in solid
          PROVE  s \in solid /\ Distance[s, c] <= Distance[d, c]
      BY <3>1 DEF NearInv, LayerInv, Nearest, Far
    <3>2. ASSUME \A r \in Rank : ctl[r].at = "fill", NEW c \in Cell
          PROVE  flag[c] = 1 <=> \E s \in solid : Distance[s, c] <= nn
      <4>1. ctl[OwnerOf[c]].at = "fill"
        BY <3>2, OwnerIsRank
      <4> QED BY <4>1 DEF NearInv, LayerInv, Within, Far
    <3> QED BY <3>1, <3>2 DEF NearestGrain
  <2> QED BY <2>2, <2>3, <2>4, TypeCorrect, PTL DEF Spec
<1>2. CASE MaxLn # 0
  <2>1. NearestGrain
    BY <1>2 DEF NearestGrain
  <2> QED BY <2>1, PTL
<1> QED BY <1>1, <1>2

-----------------------------------------------------------------------------
(***************************************************************************)
(* NoRankWaits.  As in GrainNumberingProofs: what a rank has sent follows  *)
(* from its stage, and the rank of the lowest stage waits for none behind. *)
(***************************************************************************)
Stops ==
  [mode : {"tag", "iterate", "final"}, at : {"send", "recv"}, ln : 1 .. MaxLn]
    \cup [mode : {"iterate"}, at : {"fill", "sweep", "reduce"}, ln : Level]
    \cup [mode : {"final"}, at : {"done"}, ln : Level]

Message == {"tag", "fill", "iterate", "final"}

(* How far a rank is in the method, the iterations before this one apart.  *)
Part(p) == IF p.at = "recv" THEN 1 ELSE 0

Loop(p) ==
  CASE p.at = "fill"   -> 4 * p.ln
    [] p.at = "sweep"  -> 4 * p.ln + 1
    [] p.at = "send"   -> 4 * p.ln + 2
    [] p.at = "recv"   -> 4 * p.ln + 3
    [] p.at = "reduce" -> 4 * MaxLn + 4

Stage(p) ==
  CASE p.mode = "tag"     -> 2 * (p.ln - 1) + Part(p)
    [] p.mode = "iterate" -> 2 * MaxLn + Loop(p)
    [] p.mode = "final"   -> 6 * MaxLn + 5 + (IF p.at = "done" THEN 2 * MaxLn
                                              ELSE 2 * (MaxLn - p.ln) + Part(p))

(* The stage in which a rank packs for an exchange, and the cells it packs. *)
PackedIn(m, ln) ==
  CASE m = "tag"     -> 2 * (ln - 1)
    [] m = "fill"    -> 2 * MaxLn + 4 * ln
    [] m = "iterate" -> 2 * MaxLn + 4 * ln + 2
    [] m = "final"   -> 6 * MaxLn + 5 + 2 * (MaxLn - ln)

Joins(m, ln, c) ==
  IF m = "fill" THEN LevelOf[c] \in {ln, ln - 1} ELSE LevelOf[c] = ln /\ 1 <= ln

(* Exchanges of the iteration are used up when it ends. *)
Current(m, s) == m \in {"fill", "iterate"} => s < 6 * MaxLn + 5

SentInv ==
  \A m \in Message, ln \in Level : \A c \in Cell :
    /\ Joins(m, ln, c)
    /\ PackedIn(m, ln) < Stage(ctl[OwnerOf[c]]) /\ Current(m, Stage(ctl[OwnerOf[c]]))
    => msg[<<m, ln>>][c] # NotSent

(* The ranks leave the loop together, below the iteration limit.           *)
Looping == \A r \in Rank : ctl[r].mode # "final"

TogetherInv ==
  /\ ctl \in [Rank -> Stops]
  /\ \/ Looping /\ nn < MaxIter
     \/ \A r \in Rank : ctl[r].mode = "final"

LEMMA StopFacts ==
  ASSUME NEW p \in Stops
  PROVE  /\ p.mode = "tag" => p.at \in {"send", "recv"}
         /\ p.mode = "iterate" => p.at \in {"send", "recv", "fill", "sweep", "reduce"}
         /\ p.mode = "final" => p.at \in {"send", "recv", "done"}
         /\ p.mode \in {"tag", "iterate", "final"}
         /\ p.at \in {"send", "recv"} => 1 <= p.ln
         /\ p.ln \in Nat /\ p.ln <= MaxLn /\ MaxLn \in Nat /\ p.ln \in Level
<1>1. p \in Stops /\ MaxLn \in Nat
  BY HierarchyAssumption
<1> QED BY <1>1 DEF Stops, Level

(* The stages, case by case.                                               *)
LEMMA StageFacts ==
  ASSUME NEW p \in Stops
  PROVE  LET L  == MaxLn
             ln == p.ln
         IN  /\ Stage(p) \in Nat
             /\ p.mode = "tag" /\ p.at = "send" => Stage(p) = 2 * (ln - 1)
             /\ p.mode = "tag" /\ p.at = "recv" => Stage(p) = 2 * (ln - 1) + 1
             /\ p.at = "fill" => Stage(p) = 2 * L + 4 * ln
             /\ p.at = "sweep" => Stage(p) = 2 * L + 4 * ln + 1
             /\ p.mode = "iterate" /\ p.at = "send" => Stage(p) = 2 * L + 4 * ln + 2
             /\ p.mode = "iterate" /\ p.at = "recv" => Stage(p) = 2 * L + 4 * ln + 3
             /\ p.at = "reduce" => Stage(p) = 6 * L + 4
             /\ p.mode = "final" /\ p.at = "send" => Stage(p) = 6 * L + 5 + 2 * (L - ln)
             /\ p.mode = "final" /\ p.at = "recv" => Stage(p) = 6 * L + 6 + 2 * (L - ln)
             /\ p.at = "done" => Stage(p) = 8 * L + 5
<1> DEFINE L  == MaxLn
           ln == p.ln
<1>1. ln \in Nat /\ ln <= L /\ L \in Nat
  BY StopFacts
<1>2. Part(p) = IF p.at = "recv" THEN 1 ELSE 0
  BY DEF Part
<1>3. CASE p.mode = "tag"
  <2>1. p.at \in {"send", "recv"} /\ 1 <= ln
    BY <1>3, StopFacts
  <2>2. Stage(p) = 2 * (ln - 1) + Part(p)
    BY <1>3 DEF Stage
  <2> QED BY <1>1, <1>2, <1>3, <2>1, <2>2
<1>4. CASE p.mode = "iterate"
  <2>1. Stage(p) = 2 * L + Loop(p)
    BY <1>4 DEF Stage
  <2>2. CASE p.at = "fill"
    <3>1. Loop(p) = 4 * ln
      BY <2>2 DEF Loop
    <3> QED BY <1>1, <1>4, <2>1, <2>2, <3>1
  <2>3. CASE p.at = "sweep"
    <3>1. Loop(p) = 4 * ln + 1
      BY <2>3 DEF Loop
    <3> QED BY <1>1, <1>4, <2>1, <2>3, <3>1
  <2>4. CASE p.at = "send"
    <3>1. Loop(p) = 4 * ln + 2
      BY <2>4 DEF Loop
    <3> QED BY <1>1, <1>4, <2>1, <2>4, <3>1
  <2>5. CASE p.at = "recv"
    <3>1. Loop(p) = 4 * ln + 3
      BY <2>5 DEF Loop
    <3> QED BY <1>1, <1>4, <2>1, <2>5, <3>1
  <2>6. CASE p.at = "reduce"
    <3>1. Loop(p) = 4 * L + 4
      BY <2>6 DEF Loop
    <3> QED BY <1>1, <1>4, <2>1, <2>6, <3>1
  <2> QED BY <1>4, <2>2, <2>3, <2>4, <2>5, <2>6, StopFacts
<1>5. CASE p.mode = "final"
  <2>1. Stage(p) = 6 * L + 5 + (IF p.at = "done" THEN 2 * L ELSE 2 * (L - ln) + Part(p))
    BY <1>5 DEF Stage
  <2>2. p.at \in {"send", "recv", "done"}
    BY <1>5, StopFacts
  <2> QED BY <1>1, <1>2, <1>5, <2>1, <2>2
<1> QED BY <1>3, <1>4, <1>5, StopFacts

LEMMA StageBounds ==
  ASSUME NEW p \in Stops
  PROVE  /\ p.mode = "tag" => Stage(p) < 2 * MaxLn
         /\ p.mode = "iterate" => 2 * MaxLn <= Stage(p) /\ Stage(p) <= 6 * MaxLn + 4
         /\ p.mode = "final" => 6 * MaxLn + 5 <= Stage(p) /\ Stage(p) <= 8 * MaxLn + 5
         /\ p.at # "reduce" /\ p.mode = "iterate" => Stage(p) <= 6 * MaxLn + 3
         /\ p.at # "done" => Stage(p) <= 8 * MaxLn + 4
<1>1. p.ln \in Nat /\ p.ln <= MaxLn /\ MaxLn \in Nat
  BY StopFacts
<1>2. CASE p.mode = "tag"
  BY <1>1, <1>2, StopFacts, StageFacts
<1>3. CASE p.mode = "iterate"
  BY <1>1, <1>3, StopFacts, StageFacts
<1>4. CASE p.mode = "final"
  BY <1>1, <1>4, StopFacts, StageFacts
<1> QED BY <1>2, <1>3, <1>4, StopFacts

(* The steps of a rank that pack nothing, by what they do to its place.    *)
Passes(p, q) ==
  \/ p.mode = "tag" /\ p.at = "recv" /\ p.ln < MaxLn /\ q.mode = "tag" /\ q.at = "send" /\ q.ln = p.ln + 1
  \/ p.mode = "tag" /\ p.at = "recv" /\ p.ln = MaxLn /\ q.mode = "iterate" /\ q.at = "fill" /\ q.ln = 0
  \/ p.mode = "iterate" /\ p.at = "recv" /\ p.ln < MaxLn /\ q.mode = "iterate" /\ q.at = "fill" /\ q.ln = p.ln + 1
  \/ p.mode = "iterate" /\ p.at = "recv" /\ p.ln = MaxLn /\ q.mode = "iterate" /\ q.at = "reduce"
  \/ p.mode = "final" /\ p.at = "recv" /\ p.ln > 1 /\ q.mode = "final" /\ q.at = "send" /\ q.ln = p.ln - 1
  \/ p.mode = "final" /\ p.at = "recv" /\ p.ln = 1 /\ q.mode = "final" /\ q.at = "done"
  \/ p.mode = "iterate" /\ p.at = "sweep" /\ p.ln > 0 /\ q.mode = "iterate" /\ q.at = "send" /\ q.ln = p.ln
  \/ p.mode = "iterate" /\ p.at = "sweep" /\ p.ln = 0 /\ MaxLn > 0 /\ q.mode = "iterate" /\ q.at = "fill" /\ q.ln = 1
  \/ p.mode = "iterate" /\ p.at = "sweep" /\ p.ln = 0 /\ MaxLn = 0 /\ q.mode = "iterate" /\ q.at = "reduce"

LEMMA PassesNothing ==
  ASSUME NEW p \in Stops, NEW q \in Stops, Passes(p, q),
         NEW m \in Message, NEW n \in Level, m # "fill" => 1 <= n
  PROVE  ~ (Stage(p) <= PackedIn(m, n) /\ PackedIn(m, n) < Stage(q))
<1> DEFINE L == MaxLn
<1>1. /\ p.ln \in Nat /\ p.ln <= L /\ L \in Nat /\ n \in Nat /\ n <= L
      /\ p.at = "recv" => 1 <= p.ln
  BY StopFacts DEF Level
<1>2. /\ m = "tag" => PackedIn(m, n) = 2 * (n - 1)
      /\ m = "fill" => PackedIn(m, n) = 2 * L + 4 * n
      /\ m = "iterate" => PackedIn(m, n) = 2 * L + 4 * n + 2
      /\ m = "final" => PackedIn(m, n) = 6 * L + 5 + 2 * (L - n)
  BY DEF PackedIn
<1>3. m = "fill" \/ (m \in {"tag", "iterate", "final"} /\ 1 <= n)
  BY <1>1 DEF Message
<1>4. CASE p.mode = "tag" /\ p.at = "recv" /\ p.ln < MaxLn /\ q.mode = "tag" /\ q.at = "send" /\ q.ln = p.ln + 1
  <2>1. Stage(p) = 2 * (p.ln - 1) + 1 /\ Stage(q) = 2 * p.ln
    BY <1>1, <1>4, StageFacts
  <2> QED BY <1>1, <1>2, <1>3, <1>4, <2>1
<1>5. CASE p.mode = "tag" /\ p.at = "recv" /\ p.ln = MaxLn /\ q.mode = "iterate" /\ q.at = "fill" /\ q.ln = 0
  <2>1. Stage(p) = 2 * (L - 1) + 1 /\ Stage(q) = 2 * L
    BY <1>1, <1>5, StageFacts
  <2> QED BY <1>1, <1>2, <1>3, <1>5, <2>1
<1>6. CASE p.mode = "iterate" /\ p.at = "recv" /\ p.ln < MaxLn /\ q.mode = "iterate" /\ q.at = "fill" /\ q.ln = p.ln + 1
  <2>1. Stage(p) = 2 * L + 4 * p.ln + 3 /\ Stage(q) = 2 * L + 4 * (p.ln + 1)
    BY <1>1, <1>6, StageFacts
  <2> QED BY <1>1, <1>2, <1>3, <1>6, <2>1
<1>7. CASE p.mode = "iterate" /\ p.at = "recv" /\ p.ln = MaxLn /\ q.mode = "iterate" /\ q.at = "reduce"
  <2>1. Stage(p) = 2 * L + 4 * L + 3 /\ Stage(q) = 6 * L + 4
    BY <1>1, <1>7, StageFacts
  <2> QED BY <1>1, <1>2, <1>3, <1>7, <2>1
<1>8. CASE p.mode = "final" /\ p.at = "recv" /\ p.ln > 1 /\ q.mode = "final" /\ q.at = "send" /\ q.ln = p.ln - 1
  <2>1. Stage(p) = 6 * L + 6 + 2 * (L - p.ln) /\ Stage(q) = 6 * L + 5 + 2 * (L - (p.ln - 1))
    BY <1>1, <1>8, StageFacts
  <2> QED BY <1>1, <1>2, <1>3, <1>8, <2>1
<1>9. CASE p.mode = "final" /\ p.at = "recv" /\ p.ln = 1 /\ q.mode = "final" /\ q.at = "done"
  <2>1. Stage(p) = 6 * L + 6 + 2 * (L - 1) /\ Stage(q) = 8 * L + 5
    BY <1>1, <1>9, StageFacts
  <2> QED BY <1>1, <1>2, <1>3, <1>9, <2>1
<1>10. CASE p.mode = "iterate" /\ p.at = "sweep" /\ p.ln > 0 /\ q.mode = "iterate" /\ q.at = "send" /\ q.ln = p.ln
  <2>1. Stage(p) = 2 * L + 4 * p.ln + 1 /\ Stage(q) = 2 * L + 4 * p.ln + 2
    BY <1>1, <1>10, StageFacts
  <2> QED BY <1>1, <1>2, <1>3, <1>10, <2>1
<1>11. CASE p.mode = "iterate" /\ p.at = "sweep" /\ p.ln = 0 /\ MaxLn > 0 /\ q.mode = "iterate" /\ q.at = "fill" /\ q.ln = 1
  <2>1. Stage(p) = 2 * L + 1 /\ Stage(q) = 2 * L + 4
    BY <1>1, <1>11, StageFacts
  <2> QED BY <1>1, <1>2, <1>3, <1>11, <2>1
<1>12. CASE p.mode = "iterate" /\ p.at = "sweep" /\ p.ln = 0 /\ MaxLn = 0 /\ q.mode = "iterate" /\ q.at = "reduce"
  <2>1. Stage(p) = 1 /\ Stage(q) = 4
    BY <1>1, <1>12, StageFacts
  <2> QED BY <1>1, <1>2, <1>3, <1>12, <2>1
<1> QED BY <1>4, <1>5, <1>6, <1>7, <1>8, <1>9, <1>10, <1>11, <1>12 DEF Passes

LEMMA PassesOn ==
  ASSUME NEW p \in Stops, NEW q \in Stops, Passes(p, q)
  PROVE  Stage(p) < Stage(q)
<1> DEFINE L == MaxLn
<1>1. p.ln \in Nat /\ p.ln <= L /\ L \in Nat /\ (p.at = "recv" => 1 <= p.ln)
  BY StopFacts
<1>2. CASE p.mode = "tag" /\ p.at = "recv" /\ p.ln < MaxLn /\ q.mode = "tag" /\ q.at = "send" /\ q.ln = p.ln + 1
  <2>1. Stage(p) = 2 * (p.ln - 1) + 1 /\ Stage(q) = 2 * p.ln
    BY <1>1, <1>2, StageFacts
  <2> QED BY <1>1, <1>2, <2>1
<1>3. CASE p.mode = "tag" /\ p.at = "recv" /\ p.ln = MaxLn /\ q.mode = "iterate" /\ q.at = "fill" /\ q.ln = 0
  <2>1. Stage(p) = 2 * (L - 1) + 1 /\ Stage(q) = 2 * L
    BY <1>1, <1>3, StageFacts
  <2> QED BY <1>1, <1>3, <2>1
<1>4. CASE p.mode = "iterate" /\ p.at = "recv" /\ p.ln < MaxLn /\ q.mode = "iterate" /\ q.at = "fill" /\ q.ln = p.ln + 1
  <2>1. Stage(p) = 2 * L + 4 * p.ln + 3 /\ Stage(q) = 2 * L + 4 * (p.ln + 1)
    BY <1>1, <1>4, StageFacts
  <2> QED BY <1>1, <1>4, <2>1
<1>5. CASE p.mode = "iterate" /\ p.at = "recv" /\ p.ln = MaxLn /\ q.mode = "iterate" /\ q.at = "reduce"
  <2>1. Stage(p) = 2 * L + 4 * L + 3 /\ Stage(q) = 6 * L + 4
    BY <1>1, <1>5, StageFacts
  <2> QED BY <1>1, <1>5, <2>1
<1>6. CASE p.mode = "final" /\ p.at = "recv" /\ p.ln > 1 /\ q.mode = "final" /\ q.at = "send" /\ q.ln = p.ln - 1
  <2>1. Stage(p) = 6 * L + 6 + 2 * (L - p.ln) /\ Stage(q) = 6 * L + 5 + 2 * (L - (p.ln - 1))
    BY <1>1, <1>6, StageFacts
  <2> QED BY <1>1, <1>6, <2>1
<1>7. CASE p.mode = "final" /\ p.at = "recv" /\ p.ln = 1 /\ q.mode = "final" /\ q.at = "done"
  <2>1. Stage(p) = 6 * L + 6 + 2 * (L - 1) /\ Stage(q) = 8 * L + 5
    BY <1>1, <1>7, StageFacts
  <2> QED BY <1>1, <1>7, <2>1
<1>8. CASE p.mode = "iterate" /\ p.at = "sweep" /\ p.ln > 0 /\ q.mode = "iterate" /\ q.at = "send" /\ q.ln = p.ln
  <2>1. Stage(p) = 2 * L + 4 * p.ln + 1 /\ Stage(q) = 2 * L + 4 * p.ln + 2
    BY <1>1, <1>8, StageFacts
  <2> QED BY <1>1, <1>8, <2>1
<1>9. CASE p.mode = "iterate" /\ p.at = "sweep" /\ p.ln = 0 /\ MaxLn > 0 /\ q.mode = "iterate" /\ q.at = "fill" /\ q.ln = 1
  <2>1. Stage(p) = 2 * L + 1 /\ Stage(q) = 2 * L + 4
    BY <1>1, <1>9, StageFacts
  <2> QED BY <1>1, <1>9, <2>1
<1>10. CASE p.mode = "iterate" /\ p.at = "sweep" /\ p.ln = 0 /\ MaxLn = 0 /\ q.mode = "iterate" /\ q.at = "reduce"
  <2>1. Stage(p) = 1 /\ Stage(q) = 4
    BY <1>1, <1>10, StageFacts
  <2> QED BY <1>1, <1>10, <2>1
<1> QED BY <1>2, <1>3, <1>4, <1>5, <1>6, <1>7, <1>8, <1>9, <1>10 DEF Passes

LEMMA PackedOnce ==
  ASSUME NEW m \in Message, NEW l \in Level, m # "fill" => 1 <= l,
         NEW n \in Message, NEW k \in Level, n # "fill" => 1 <= k,
         PackedIn(m, l) = PackedIn(n, k)
  PROVE  m = n /\ l = k
<1> DEFINE L == MaxLn
<1>1. l \in Nat /\ l <= L /\ k \in Nat /\ k <= L /\ L \in Nat
  BY HierarchyAssumption DEF Level
<1>2. /\ m = "tag" => PackedIn(m, l) = 2 * (l - 1)
      /\ m = "fill" => PackedIn(m, l) = 2 * L + 4 * l
      /\ m = "iterate" => PackedIn(m, l) = 2 * L + 4 * l + 2
      /\ m = "final" => PackedIn(m, l) = 6 * L + 5 + 2 * (L - l)
  BY DEF PackedIn
<1>3. /\ n = "tag" => PackedIn(n, k) = 2 * (k - 1)
      /\ n = "fill" => PackedIn(n, k) = 2 * L + 4 * k
      /\ n = "iterate" => PackedIn(n, k) = 2 * L + 4 * k + 2
      /\ n = "final" => PackedIn(n, k) = 6 * L + 5 + 2 * (L - k)
  BY DEF PackedIn
<1>4. m \in {"tag", "fill", "iterate", "final"} /\ n \in {"tag", "fill", "iterate", "final"}
  BY DEF Message
<1>5. CASE m = "tag"
  BY <1>1, <1>2, <1>3, <1>4, <1>5
<1>6. CASE m = "fill"
  BY <1>1, <1>2, <1>3, <1>4, <1>6
<1>7. CASE m = "iterate"
  BY <1>1, <1>2, <1>3, <1>4, <1>7
<1>8. CASE m = "final"
  BY <1>1, <1>2, <1>3, <1>4, <1>8
<1> QED BY <1>4, <1>5, <1>6, <1>7, <1>8

(* Every step of a rank passes on or packs for one exchange.               *)
Packs(r) ==
  \E m \in Message, ln \in Level, L \in SUBSET Int :
    /\ Pack(<<m, ln>>, r, L) /\ \A c \in Cell : Joins(m, ln, c) => LevelOf[c] \in L
    /\ Stage(ctl[r]) = PackedIn(m, ln) /\ Stage(ctl'[r]) = PackedIn(m, ln) + 1
    /\ m # "fill" => 1 <= ln

LEMMA GotoStop ==
  ASSUME ctl \in [Rank -> Stops], NEW r \in Rank, NEW m, NEW a, NEW l, Goto(r, m, a, l)
  PROVE  /\ ctl'[r].mode = m /\ ctl'[r].at = a /\ ctl'[r].ln = l
         /\ ctl'[r] = [mode |-> m, at |-> a, ln |-> l]
         /\ \A q \in Rank : q # r => ctl'[q] = ctl[q]
         /\ [mode |-> m, at |-> a, ln |-> l] \in Stops => ctl' \in [Rank -> Stops]
BY DEF Goto

LEMMA RankStepKinds ==
  ASSUME ctl \in [Rank -> Stops], NEW r \in Rank, RankStep(r)
  PROVE  /\ nn' = nn
         /\ ctl' \in [Rank -> Stops]
         /\ \A q \in Rank : q # r => ctl'[q] = ctl[q]
         /\ (ctl'[r].mode = "final" <=> ctl[r].mode = "final")
         /\ (Passes(ctl[r], ctl'[r]) /\ msg' = msg) \/ Packs(r)
<1> DEFINE p  == ctl[r]
           q  == ctl'[r]
           ln == p.ln
<1>1. p \in Stops
  OBVIOUS
<1>2. /\ ln \in Nat /\ ln <= MaxLn /\ MaxLn \in Nat /\ ln \in Level
      /\ p.at \in {"send", "recv"} => 1 <= ln
      /\ p.at \in {"fill", "sweep"} => p.mode = "iterate"
      /\ p.mode \in {"tag", "iterate", "final"}
  BY <1>1, StopFacts
<1>3. CASE Send(r)
  <2>1. p.at = "send" /\ Goto(r, p.mode, "recv", ln) /\ Pack(<<p.mode, ln>>, r, {ln})
        /\ nn' = nn
    BY <1>3 DEF Send
  <2>2. /\ q.mode = p.mode /\ q.at = "recv" /\ q.ln = ln
        /\ \A s \in Rank : s # r => ctl'[s] = ctl[s]
    <3>1. q = [mode |-> p.mode, at |-> "recv", ln |-> ln]
      BY <2>1 DEF Goto
    <3>2. \A s \in Rank : s # r => ctl'[s] = ctl[s]
      BY <2>1 DEF Goto
    <3> HIDE DEF p, q, ln
    <3> QED BY <3>1, <3>2
  <2>3. ctl' \in [Rank -> Stops]
    <3>1. [mode |-> p.mode, at |-> "recv", ln |-> ln] \in Stops
      BY <1>2, <2>1 DEF Stops
    <3> QED BY <2>1, <3>1, GotoStop
  <2>4. Stage(p) = PackedIn(p.mode, ln) /\ Stage(q) = PackedIn(p.mode, ln) + 1
    <3>0. q \in Stops
      BY <2>3
    <3> HIDE DEF p, q, ln
    <3>1. p.mode = "tag" \/ p.mode = "iterate" \/ p.mode = "final"
      BY <1>2
    <3>2. CASE p.mode = "tag"
      BY <1>1, <1>2, <2>1, <2>2, <3>0, <3>2, StageFacts DEF PackedIn, ln
    <3>3. CASE p.mode = "iterate"
      BY <1>1, <1>2, <2>1, <2>2, <3>0, <3>3, StageFacts DEF PackedIn, ln
    <3>4. CASE p.mode = "final"
      BY <1>1, <1>2, <2>1, <2>2, <3>0, <3>4, StageFacts DEF PackedIn, ln
    <3> QED BY <3>1, <3>2, <3>3, <3>4
  <2>5. \A c \in Cell : Joins(p.mode, ln, c) => LevelOf[c] \in {ln}
    BY <1>2 DEF Joins
  <2>6. p.mode \in Message /\ {ln} \in SUBSET Int /\ 1 <= ln
    BY <1>2, <2>1 DEF Message
  <2> HIDE DEF p, q, ln
  <2>7. Packs(r)
    <3> DEFINE L == {ln}
    <3>1. /\ L \in SUBSET Int /\ Pack(<<p.mode, ln>>, r, L)
          /\ \A c \in Cell : Joins(p.mode, ln, c) => LevelOf[c] \in L
      BY <2>1, <2>5, <2>6
    <3> HIDE DEF L
    <3> QED BY <1>2, <2>4, <2>6, <3>1 DEF Packs, p, q
  <2> QED BY <2>1, <2>2, <2>3, <2>7 DEF p, q
<1>4. CASE Fill(r)
  <2>1. p.at = "fill" /\ Goto(r, "iterate", "sweep", ln) /\ Pack(<<"fill", ln>>, r, {ln, ln - 1})
        /\ nn' = nn
    BY <1>4 DEF Fill
  <2>2. /\ q.mode = "iterate" /\ q.at = "sweep" /\ q.ln = ln
        /\ \A s \in Rank : s # r => ctl'[s] = ctl[s]
    <3>1. q = [mode |-> "iterate", at |-> "sweep", ln |-> ln]
      BY <2>1 DEF Goto
    <3>2. \A s \in Rank : s # r => ctl'[s] = ctl[s]
      BY <2>1 DEF Goto
    <3> HIDE DEF p, q, ln
    <3> QED BY <3>1, <3>2
  <2>3. ctl' \in [Rank -> Stops]
    <3>1. [mode |-> "iterate", at |-> "sweep", ln |-> ln] \in Stops
      BY <1>2 DEF Stops
    <3> QED BY <2>1, <3>1, GotoStop
  <2>4. Stage(p) = PackedIn("fill", ln) /\ Stage(q) = PackedIn("fill", ln) + 1
    <3>0. q \in Stops
      BY <2>3
    <3> HIDE DEF p, q, ln
    <3> QED BY <1>1, <1>2, <2>1, <2>2, <3>0, StageFacts DEF PackedIn, ln
  <2>5. \A c \in Cell : Joins("fill", ln, c) => LevelOf[c] \in {ln, ln - 1}
    BY DEF Joins
  <2>6. "fill" \in Message /\ {ln, ln - 1} \in SUBSET Int
    BY <1>2 DEF Message
  <2> HIDE DEF p, q, ln
  <2>7. Packs(r)
    <3> DEFINE L == {ln, ln - 1}
    <3>1. /\ L \in SUBSET Int /\ Pack(<<"fill", ln>>, r, L)
          /\ \A c \in Cell : Joins("fill", ln, c) => LevelOf[c] \in L
      BY <2>1, <2>5, <2>6
    <3> HIDE DEF L
    <3> QED BY <1>2, <2>4, <2>6, <3>1 DEF Packs, p, q
  <2> QED BY <1>2, <2>1, <2>2, <2>3, <2>7 DEF p, q
<1>5. CASE Coarsen(r)
  <2>1. p.at = "recv" /\ AfterCoarsen(r, p.mode, ln) /\ msg' = msg /\ nn' = nn
    BY <1>5 DEF Coarsen
  <2> DEFINE Good == /\ Passes(p, q) /\ ctl' \in [Rank -> Stops]
                     /\ (q.mode = "final" <=> p.mode = "final")
                     /\ \A s \in Rank : s # r => ctl'[s] = ctl[s]
  <2>2. ASSUME NEW m \in {"tag", "iterate", "final"}, NEW a, NEW l, Goto(r, m, a, l),
               [mode |-> m, at |-> a, ln |-> l] \in Stops,
               m = "final" <=> p.mode = "final",
               (q.mode = m /\ q.at = a /\ q.ln = l) => Passes(p, q)
        PROVE  Good
    BY <2>2, GotoStop
  <2>3. CASE p.mode = "tag" /\ ln < MaxLn /\ Goto(r, "tag", "send", ln + 1)
    <3>1. [mode |-> "tag", at |-> "send", ln |-> ln + 1] \in Stops
      BY <1>2, <2>3 DEF Stops
    <3> QED BY <2>1, <2>2, <2>3, <3>1 DEF Passes
  <2>4. CASE p.mode = "tag" /\ ln = MaxLn /\ Goto(r, "iterate", "fill", 0)
    <3>1. [mode |-> "iterate", at |-> "fill", ln |-> 0] \in Stops
      BY <1>2 DEF Stops, Level
    <3> QED BY <2>1, <2>2, <2>4, <3>1 DEF Passes
  <2>5. CASE p.mode = "iterate" /\ ln < MaxLn /\ Goto(r, "iterate", "fill", ln + 1)
    <3>1. [mode |-> "iterate", at |-> "fill", ln |-> ln + 1] \in Stops
      BY <1>2, <2>5 DEF Stops, Level
    <3> QED BY <2>1, <2>2, <2>5, <3>1 DEF Passes
  <2>6. CASE p.mode = "iterate" /\ ln = MaxLn /\ Goto(r, "iterate", "reduce", ln)
    <3>1. [mode |-> "iterate", at |-> "reduce", ln |-> ln] \in Stops
      BY <1>2 DEF Stops
    <3> QED BY <2>1, <2>2, <2>6, <3>1 DEF Passes
  <2>7. CASE p.mode = "final" /\ ln > 1 /\ Goto(r, "final", "send", ln - 1)
    <3>1. [mode |-> "final", at |-> "send", ln |-> ln - 1] \in Stops
      BY <1>2, <2>7 DEF Stops
    <3> QED BY <2>1, <2>2, <2>7, <3>1 DEF Passes
  <2>8. CASE p.mode = "final" /\ ln = 1 /\ Goto(r, "final", "done", 0)
    <3>1. [mode |-> "final", at |-> "done", ln |-> 0] \in Stops
      BY <1>2 DEF Stops, Level
    <3> QED BY <2>1, <2>2, <2>8, <3>1 DEF Passes
  <2>9. \/ p.mode = "tag" /\ ln < MaxLn /\ Goto(r, "tag", "send", ln + 1)
        \/ p.mode = "tag" /\ ln = MaxLn /\ Goto(r, "iterate", "fill", 0)
        \/ p.mode = "iterate" /\ ln < MaxLn /\ Goto(r, "iterate", "fill", ln + 1)
        \/ p.mode = "iterate" /\ ln = MaxLn /\ Goto(r, "iterate", "reduce", ln)
        \/ p.mode = "final" /\ ln > 1 /\ Goto(r, "final", "send", ln - 1)
        \/ p.mode = "final" /\ ln = 1 /\ Goto(r, "final", "done", 0)
    BY <2>1, Zenon DEF AfterCoarsen
  <2> QED BY <2>3, <2>4, <2>5, <2>6, <2>7, <2>8, <2>9, Zenon
<1>6. CASE Sweep(r)
  <2>1. p.at = "sweep" /\ p.mode = "iterate" /\ msg' = msg /\ nn' = nn
    BY <1>2, <1>6 DEF Sweep
  <2>2. /\ Passes(p, q) /\ ctl' \in [Rank -> Stops] /\ q.mode = "iterate"
        /\ \A s \in Rank : s # r => ctl'[s] = ctl[s]
    <3>1. CASE ln > 0 /\ Goto(r, "iterate", "send", ln)
      <4>1. [mode |-> "iterate", at |-> "send", ln |-> ln] \in Stops
        BY <1>2, <3>1 DEF Stops
      <4> QED BY <2>1, <3>1, <4>1, GotoStop DEF Passes
    <3>2. CASE ln = 0 /\ MaxLn > 0 /\ Goto(r, "iterate", "fill", 1)
      <4>1. [mode |-> "iterate", at |-> "fill", ln |-> 1] \in Stops
        BY <1>2, <3>2 DEF Stops, Level
      <4> QED BY <2>1, <3>2, <4>1, GotoStop DEF Passes
    <3>3. CASE ln = 0 /\ MaxLn = 0 /\ Goto(r, "iterate", "reduce", 0)
      <4>1. [mode |-> "iterate", at |-> "reduce", ln |-> 0] \in Stops
        BY <1>2 DEF Stops, Level
      <4> QED BY <2>1, <3>3, <4>1, GotoStop DEF Passes
    <3> QED BY <1>2, <1>6, <3>1, <3>2, <3>3 DEF Sweep
  <2> QED BY <2>1, <2>2
<1> QED BY <1>3, <1>4, <1>5, <1>6 DEF RankStep

LEMMA PackValues ==
  ASSUME TypeOK, NEW tag \in Tag, NEW r \in Rank, NEW L, Pack(tag, r, L)
  PROVE  \A t \in Tag, c \in Cell :
           /\ OwnerOf[c] = r /\ LevelOf[c] \in L /\ t = tag => msg'[t][c] # NotSent
           /\ msg[t][c] # NotSent => msg'[t][c] # NotSent
<1> SUFFICES ASSUME NEW t \in Tag, NEW c \in Cell
             PROVE  /\ OwnerOf[c] = r /\ LevelOf[c] \in L /\ t = tag => msg'[t][c] # NotSent
                    /\ msg[t][c] # NotSent => msg'[t][c] # NotSent
  OBVIOUS
<1> DEFINE new == [flag |-> flag[c], quat |-> quat[c]]
<1>1. msg'[t][c] = IF t = tag /\ OwnerOf[c] = r /\ LevelOf[c] \in L THEN new ELSE msg[t][c]
  <2>1. msg'[t] = IF t = tag
                  THEN [d \in Cell |-> IF OwnerOf[d] = r /\ LevelOf[d] \in L
                                       THEN [flag |-> flag[d], quat |-> quat[d]] ELSE msg[tag][d]]
                  ELSE msg[t]
    BY DEF TypeOK, Pack
  <2> QED BY <2>1
<1>2. new.flag # NotSent.flag
  BY DEF TypeOK, NotSent
<1>3. new # NotSent
  <2> HIDE DEF new
  <2> QED BY <1>2
<1> QED BY <1>1, <1>3

LEMMA SentStep ==
  ASSUME TypeOK, ctl \in [Rank -> Stops], SentInv, NEW r \in Rank, RankStep(r)
  PROVE  SentInv'
<1> DEFINE p == ctl[r]
           q == ctl'[r]
<1> SUFFICES ASSUME NEW m \in Message, NEW ln \in Level, NEW c \in Cell, Joins(m, ln, c),
                    PackedIn(m, ln) < Stage(ctl'[OwnerOf[c]]), Current(m, Stage(ctl'[OwnerOf[c]]))
             PROVE  msg'[<<m, ln>>][c] # NotSent
  BY DEF SentInv
<1>0. /\ ctl' \in [Rank -> Stops] /\ \A s \in Rank : s # r => ctl'[s] = ctl[s]
      /\ (Passes(p, q) /\ msg' = msg) \/ Packs(r)
  BY RankStepKinds
<1>1. p \in Stops /\ q \in Stops /\ OwnerOf[c] \in Rank /\ MaxLn \in Nat /\ <<m, ln>> \in Tag
  BY <1>0, HierarchyAssumption DEF Message, Tag
<1>2. Stage(p) \in Nat /\ Stage(q) \in Nat /\ PackedIn(m, ln) \in Int
  <2>1. ln \in Nat /\ MaxLn \in Nat
    BY <1>1 DEF Level
  <2> QED BY <1>1, <2>1, StageFacts DEF PackedIn, Message
<1>4. m # "fill" => 1 <= ln
  BY DEF Joins
<1>5. ASSUME PackedIn(m, ln) < Stage(ctl[OwnerOf[c]]), Current(m, Stage(ctl[OwnerOf[c]]))
      PROVE  msg'[<<m, ln>>][c] # NotSent
  <2>1. msg[<<m, ln>>][c] # NotSent
    BY <1>5 DEF SentInv
  <2>2. CASE msg' = msg
    BY <2>1, <2>2
  <2>3. CASE Packs(r)
    <3>1. PICK n \in Message, k \in Level, L \in SUBSET Int : Pack(<<n, k>>, r, L)
      BY <2>3 DEF Packs
    <3>2. <<n, k>> \in Tag
      BY DEF Message, Tag
    <3> QED BY <1>1, <2>1, <3>1, <3>2, PackValues
  <2> QED BY <1>0, <2>2, <2>3
<1>6. CASE OwnerOf[c] # r
  BY <1>0, <1>1, <1>5, <1>6
<1>7. CASE OwnerOf[c] = r
  <2>0. PackedIn(m, ln) < Stage(q) /\ Current(m, Stage(q))
    BY <1>7
  <2>1. CASE Passes(p, q) /\ msg' = msg
    <3>1. PackedIn(m, ln) < Stage(p) /\ Stage(p) < Stage(q)
      BY <1>1, <1>2, <1>4, <2>0, <2>1, PassesNothing, PassesOn
    <3>2. Current(m, Stage(p))
      BY <1>1, <1>2, <2>0, <3>1 DEF Current
    <3> QED BY <1>5, <1>7, <3>1, <3>2
  <2>3. CASE Packs(r)
    <3>1. PICK n \in Message, k \in Level, L \in SUBSET Int :
             /\ Pack(<<n, k>>, r, L) /\ \A d \in Cell : Joins(n, k, d) => LevelOf[d] \in L
             /\ Stage(p) = PackedIn(n, k) /\ Stage(q) = PackedIn(n, k) + 1
             /\ n # "fill" => 1 <= k
      BY <2>3 DEF Packs
    <3>2. <<n, k>> \in Tag
      BY DEF Message, Tag
    <3>3. CASE PackedIn(m, ln) = PackedIn(n, k)
      <4>1. m = n /\ ln = k
        BY <1>4, <3>1, <3>3, PackedOnce
      <4>2. LevelOf[c] \in L
        BY <3>1, <4>1
      <4> QED BY <1>1, <1>7, <3>1, <3>2, <4>1, <4>2, PackValues
    <3>4. CASE PackedIn(m, ln) # PackedIn(n, k)
      <4>1. PackedIn(m, ln) < Stage(p) /\ Stage(p) < Stage(q)
        BY <1>2, <2>0, <3>1, <3>4
      <4>2. Current(m, Stage(p))
        BY <1>1, <1>2, <2>0, <4>1 DEF Current
      <4> QED BY <1>5, <1>7, <4>1, <4>2
    <3> QED BY <3>3, <3>4
  <2> QED BY <1>0, <2>1, <2>3
<1> QED BY <1>6, <1>7

(* The end of an iteration, by what it does to the places of the ranks.    *)
LEMMA ReduceFacts ==
  ASSUME AllReduce
  PROVE  \/ /\ nn' = nn + 1 /\ nn + 1 < MaxIter
            /\ ctl' = [r \in Rank |-> [mode |-> "iterate", at |-> "fill", ln |-> 0]]
         \/ /\ nn' \in {nn, nn + 1}
            /\ ctl' = [r \in Rank |-> AfterLoop]
<1>1. CASE (\E r \in Rank : unset[r]) /\ nn + 1 < MaxIter
  <2>1. NextIteration(Rank)
    BY <1>1 DEF AllReduce
  <2> QED BY <1>1, <2>1 DEF NextIteration
<1>2. CASE ~ ((\E r \in Rank : unset[r]) /\ nn + 1 < MaxIter)
  <2>1. NextIteration({})
    BY <1>2 DEF AllReduce
  <2> QED BY <2>1 DEF NextIteration
<1> QED BY <1>1, <1>2

LEMMA AfterLoopStop ==
  AfterLoop \in Stops /\ AfterLoop.mode = "final" /\ Stage(AfterLoop) = 6 * MaxLn + 5
<1>1. MaxLn \in Nat
  BY HierarchyAssumption
<1>2. /\ AfterLoop.mode = "final" /\ AfterLoop.ln = MaxLn
      /\ AfterLoop.at = IF MaxLn > 0 THEN "send" ELSE "done"
  BY DEF AfterLoop
<1>3. CASE MaxLn > 0
  <2>1. AfterLoop = [mode |-> "final", at |-> "send", ln |-> MaxLn]
    BY <1>3 DEF AfterLoop
  <2>2. AfterLoop \in Stops
    BY <1>1, <1>3, <2>1 DEF Stops
  <2> QED BY <1>1, <1>2, <1>3, <2>2, StageFacts
<1>4. CASE ~ MaxLn > 0
  <2>1. AfterLoop = [mode |-> "final", at |-> "done", ln |-> 0] /\ MaxLn = 0
    BY <1>1, <1>4 DEF AfterLoop
  <2>2. AfterLoop \in Stops
    BY <1>1, <2>1 DEF Stops, Level
  <2> QED BY <1>1, <1>2, <1>4, <2>1, <2>2, StageFacts
<1> QED BY <1>3, <1>4

LEMMA FillStop ==
  LET p == [mode |-> "iterate", at |-> "fill", ln |-> 0]
  IN  p \in Stops /\ Stage(p) = 2 * MaxLn /\ p.mode # "final"
<1> DEFINE p == [mode |-> "iterate", at |-> "fill", ln |-> 0]
<1>1. p \in Stops /\ MaxLn \in Nat
  BY HierarchyAssumption DEF Stops, Level
<1>2. p.mode = "iterate" /\ p.at = "fill" /\ p.ln = 0
  OBVIOUS
<1> HIDE DEF p
<1>3. Stage(p) = 2 * MaxLn
  BY <1>1, <1>2, StageFacts
<1> QED BY <1>1, <1>2, <1>3 DEF p

LEMMA TogetherNext ==
  ASSUME TogetherInv, [Next]_vars
  PROVE  TogetherInv'
<1>1. ASSUME NEW r \in Rank, RankStep(r) PROVE TogetherInv'
  <2>1. /\ ctl' \in [Rank -> Stops] /\ nn' = nn
        /\ \A q \in Rank : ctl'[q].mode = "final" <=> ctl[q].mode = "final"
    BY <1>1, RankStepKinds DEF TogetherInv
  <2> QED BY <2>1 DEF TogetherInv, Looping
<1>2. CASE AllReduce
  <2>1. CASE /\ nn' = nn + 1 /\ nn + 1 < MaxIter
             /\ ctl' = [r \in Rank |-> [mode |-> "iterate", at |-> "fill", ln |-> 0]]
    BY <2>1, FillStop DEF TogetherInv, Looping
  <2>2. CASE ctl' = [r \in Rank |-> AfterLoop]
    BY <2>2, AfterLoopStop DEF TogetherInv
  <2> QED BY <1>2, <2>1, <2>2, ReduceFacts
<1>3. CASE UNCHANGED vars
  BY <1>3 DEF TogetherInv, Looping, vars
<1> QED BY <1>1, <1>2, <1>3 DEF Next

LEMMA SentNext ==
  ASSUME TypeOK, TogetherInv, SentInv, [Next]_vars
  PROVE  SentInv'
<1>1. ASSUME NEW r \in Rank, RankStep(r) PROVE SentInv'
  BY <1>1, SentStep DEF TogetherInv
<1>2. CASE AllReduce
  <2> SUFFICES ASSUME NEW m \in Message, NEW ln \in Level, NEW c \in Cell, Joins(m, ln, c),
                      PackedIn(m, ln) < Stage(ctl'[OwnerOf[c]]), Current(m, Stage(ctl'[OwnerOf[c]]))
               PROVE  msg'[<<m, ln>>][c] # NotSent
    BY DEF SentInv
  <2>1. PICK more : NextIteration(more)
    BY <1>2 DEF AllReduce
  <2>2. OwnerOf[c] \in Rank /\ MaxLn \in Nat /\ ln \in Nat /\ ln <= MaxLn /\ <<m, ln>> \in Tag
    BY HierarchyAssumption DEF Level, Message, Tag
  <2>3. ctl[OwnerOf[c]] \in Stops
    BY <2>2 DEF TogetherInv
  <2>4. Stage(ctl[OwnerOf[c]]) = 6 * MaxLn + 4
    BY <2>1, <2>2, <2>3, StageFacts DEF NextIteration
  <2>5. Stage(ctl'[OwnerOf[c]]) = 2 * MaxLn \/ Stage(ctl'[OwnerOf[c]]) = 6 * MaxLn + 5
    BY <1>2, <2>2, ReduceFacts, FillStop, AfterLoopStop
  <2>6. m = "tag" /\ 1 <= ln
    <3>1. m \in {"fill", "tag", "iterate", "final"} /\ (m # "fill" => 1 <= ln)
      BY DEF Message, Joins
    <3>2. m # "fill"
      BY <2>2, <2>5 DEF PackedIn, Current
    <3>3. m # "iterate"
      BY <2>2, <2>5 DEF PackedIn, Current
    <3>4. m # "final"
      BY <2>2, <2>5 DEF PackedIn
    <3> QED BY <3>1, <3>2, <3>3, <3>4
  <2>7. msg'[<<m, ln>>] = msg[<<m, ln>>]
    BY <2>1, <2>2, <2>6 DEF NextIteration
  <2>8. PackedIn(m, ln) < Stage(ctl[OwnerOf[c]]) /\ Current(m, Stage(ctl[OwnerOf[c]]))
    BY <2>2, <2>4, <2>6 DEF PackedIn, Current
  <2> QED BY <2>7, <2>8 DEF SentInv
<1>3. CASE UNCHANGED vars
  BY <1>3 DEF SentInv, vars
<1> QED BY <1>1, <1>2, <1>3 DEF Next

(* A ghost cell of a patch is a cell of its level or of the coarser one.   *)
LEMMA GhostCell ==
  ASSUME NEW c \in Cell, NEW i \in Ghosts[c], Sources[c][i] # NoCell
  PROVE  Sources[c][i] \in Cell /\ LevelOf[Sources[c][i]] \in {LevelOf[c], LevelOf[c] - 1}
<1>1. i \in DOMAIN Sources[c] /\ \A d \in Reads[c] : LevelOf[d] \in {LevelOf[c], LevelOf[c] - 1}
  BY SourceAssumption
<1>2. Sources[c] \in Seq(Cell \cup {NoCell})
  BY HierarchyAssumption
<1>3. Sources[c][i] \in Reads[c]
  <2>1. Reads[c] = {Sources[c][j] : j \in DOMAIN Sources[c]} \ {NoCell}
    BY DEF Reads
  <2> QED BY <1>1, <2>1
<1>4. Sources[c][i] \in Cell \cup {NoCell}
  BY <1>1, <1>2
<1> QED BY <1>1, <1>3, <1>4

(* What a rank has sent when it is in the loop and not behind.             *)
LEMMA HasSent ==
  ASSUME ctl \in [Rank -> Stops], SentInv, NEW m \in Message, NEW ln \in Level, NEW d \in Cell,
         Joins(m, ln, d), PackedIn(m, ln) < Stage(ctl[OwnerOf[d]]),
         m \in {"fill", "iterate"} => ctl[OwnerOf[d]].mode # "final"
  PROVE  msg[<<m, ln>>][d] # NotSent
<1>1. ctl[OwnerOf[d]] \in Stops /\ MaxLn \in Nat
  BY HierarchyAssumption
<1>2. Stage(ctl[OwnerOf[d]]) \in Nat
  BY <1>1, StageFacts
<1>3. ctl[OwnerOf[d]].mode # "final" => Stage(ctl[OwnerOf[d]]) < 6 * MaxLn + 5
  BY <1>1, <1>2, StopFacts, StageBounds
<1> QED BY <1>3 DEF SentInv, Current

LEMMA LeastRankGoesOn ==
  ASSUME TogetherInv, SentInv,
         NEW r \in Rank, \A q \in Rank : Stage(ctl[r]) <= Stage(ctl[q])
  PROVE  CanStep(r) \/ ctl[r].at \in {"reduce", "done"}
<1> DEFINE p  == ctl[r]
           m  == p.mode
           ln == p.ln
<1>1. p \in Stops /\ m \in {"tag", "iterate", "final"} /\ ln \in Level
      /\ ln \in Nat /\ ln <= MaxLn /\ MaxLn \in Nat
  BY StopFacts DEF TogetherInv
<1>2. \A q \in Rank : Stage(ctl[q]) \in Nat /\ (m # "final" => ctl[q].mode # "final")
  BY StageFacts DEF TogetherInv, Looping
<1>3. CASE p.at = "recv"
  <2>1. Stage(p) = PackedIn(m, ln) + 1 /\ 1 <= ln /\ m \in Message
    <3>1. 1 <= ln /\ m \in Message
      BY <1>1, <1>3, StopFacts DEF Message
    <3>2. CASE m = "tag"
      BY <1>1, <1>3, <3>1, <3>2, StageFacts DEF PackedIn
    <3>3. CASE m = "iterate"
      BY <1>1, <1>3, <3>1, <3>3, StageFacts DEF PackedIn
    <3>4. CASE m = "final"
      BY <1>1, <1>3, <3>1, <3>4, StageFacts DEF PackedIn
    <3> QED BY <1>1, <3>1, <3>2, <3>3, <3>4
  <2>2. ASSUME NEW c \in Own[r][ln - 1], NEW d \in Children[c]
        PROVE  msg[<<m, ln>>][d] # NotSent
    <3>1. c \in Cell /\ LevelOf[c] = ln - 1
      <4>1. ln - 1 \in Level
        BY <1>1, <2>1 DEF Level
      <4> QED BY <4>1 DEF Own
    <3>2. d \in Cell /\ LevelOf[d] = ln /\ OwnerOf[d] \in Rank
      <4>1. d \in Cell /\ LevelOf[d] = LevelOf[c] + 1 /\ OwnerOf[d] \in Rank
        BY <3>1, HierarchyAssumption
      <4> QED BY <1>1, <3>1, <4>1
    <3>3. Joins(m, ln, d)
      BY <1>1, <2>1, <3>2 DEF Joins
    <3>4. PackedIn(m, ln) < Stage(ctl[OwnerOf[d]])
      <4>1. PackedIn(m, ln) \in Int
        BY <1>1, <2>1 DEF PackedIn
      <4> HIDE DEF p, m, ln
      <4>2. Stage(p) <= Stage(ctl[OwnerOf[d]])
        BY <3>2 DEF p
      <4> QED BY <1>2, <2>1, <3>2, <4>1, <4>2
    <3>5. m \in {"fill", "iterate"} => ctl[OwnerOf[d]].mode # "final"
      BY <1>1, <1>2, <3>2
    <3> HIDE DEF p, m, ln
    <3> QED BY <1>1, <2>1, <3>2, <3>3, <3>4, <3>5, HasSent DEF TogetherInv
  <2> QED BY <1>3, <2>2 DEF CanStep
<1>4. CASE p.at = "sweep"
  <2>1. Stage(p) = PackedIn("fill", ln) + 1 /\ m = "iterate" /\ "fill" \in Message
        /\ PackedIn("fill", ln) \in Int
    <3>1. m = "iterate"
      BY <1>1, <1>4, StopFacts
    <3> QED BY <1>1, <1>4, <3>1, StageFacts DEF PackedIn, Message
  <2>2. ASSUME NEW c \in Own[r][ln], NEW i \in Ghosts[c], Sources[c][i] # NoCell
        PROVE  msg[<<"fill", ln>>][Sources[c][i]] # NotSent
    <3> DEFINE d == Sources[c][i]
    <3>1. c \in Cell /\ LevelOf[c] = ln
      BY <1>1 DEF Own
    <3>2. d \in Cell /\ LevelOf[d] \in {ln, ln - 1} /\ OwnerOf[d] \in Rank
      BY <2>2, <3>1, GhostCell, HierarchyAssumption
    <3>3. Joins("fill", ln, d)
      BY <3>2 DEF Joins
    <3> HIDE DEF d, p, m, ln
    <3>4. Stage(p) <= Stage(ctl[OwnerOf[d]])
      BY <3>2 DEF p
    <3>5. PackedIn("fill", ln) < Stage(ctl[OwnerOf[d]])
      BY <1>2, <2>1, <3>2, <3>4
    <3>6. ctl[OwnerOf[d]].mode # "final"
      BY <1>2, <2>1, <3>2
    <3> QED BY <1>1, <2>1, <3>2, <3>3, <3>5, <3>6, HasSent DEF d, TogetherInv
  <2>3. HaloReady(r, ln)
    BY <2>2 DEF HaloReady
  <2> QED BY <1>4, <2>3 DEF CanStep
<1>5. CASE p.at \in {"send", "fill"}
  BY <1>5 DEF CanStep
<1> QED BY <1>1, <1>3, <1>4, <1>5, StopFacts

LEMMA PlacesInit == Init => TogetherInv /\ SentInv
<1> SUFFICES ASSUME Init PROVE TogetherInv /\ SentInv
  OBVIOUS
<1>0. MaxLn \in Nat /\ MaxIter \in Nat /\ 0 < MaxIter
  BY HierarchyAssumption, ExtensionAssumption
<1>1. ASSUME NEW r \in Rank PROVE ctl[r] \in Stops /\ Stage(ctl[r]) = 0 /\ ctl[r].mode # "final"
  <2>1. CASE MaxLn > 0
    <3>1. ctl[r] = [mode |-> "tag", at |-> "send", ln |-> 1]
      BY <2>1 DEF Init
    <3>2. ctl[r] \in Stops
      BY <1>0, <2>1, <3>1 DEF Stops
    <3> QED BY <1>0, <3>1, <3>2, StageFacts
  <2>2. CASE ~ MaxLn > 0
    <3>1. ctl[r] = [mode |-> "iterate", at |-> "fill", ln |-> 0] /\ MaxLn = 0
      BY <1>0, <2>2 DEF Init
    <3> QED BY <3>1, FillStop
  <2> QED BY <2>1, <2>2
<1>2. ctl \in [Rank -> Stops]
  BY <1>1 DEF Init
<1>3. ASSUME NEW m \in Message, NEW ln \in Level, NEW c \in Cell, Joins(m, ln, c)
      PROVE  ~ PackedIn(m, ln) < 0
  <2>1. ln \in Nat /\ ln <= MaxLn /\ m \in {"tag", "fill", "iterate", "final"}
        /\ (m # "fill" => 1 <= ln)
    BY <1>0, <1>3 DEF Level, Message, Joins
  <2> QED BY <1>0, <2>1 DEF PackedIn
<1>4. SentInv
  BY <1>1, <1>3, HierarchyAssumption DEF SentInv
<1> QED BY <1>0, <1>1, <1>2, <1>4 DEF TogetherInv, Looping, Init

(***************************************************************************)
(* On every hierarchy, whatever the phase and the number of ranks, the     *)
(* method never comes to a state in which every rank that has not returned *)
(* waits for data or for the reduction.  (fillData, coarsenData and        *)
(* AllReduce of extendGrainOrientation)                                    *)
(***************************************************************************)
THEOREM RanksNeverWaitForEver == Spec => []NoRankWaits
<1>1. TypeOK /\ TogetherInv /\ SentInv /\ [Next]_vars => TogetherInv' /\ SentInv'
  BY TogetherNext, SentNext
<1>2. TogetherInv /\ SentInv => NoRankWaits
  <2> SUFFICES ASSUME TogetherInv, SentInv PROVE NoRankWaits
    OBVIOUS
  <2>1. \A q \in Rank : ctl[q] \in Stops /\ Stage(ctl[q]) \in Nat
    BY StageFacts DEF TogetherInv
  <2>2. PICK r \in Rank : \A q \in Rank : Stage(ctl[r]) <= Stage(ctl[q])
    <3> DEFINE V == {Stage(ctl[q]) : q \in Rank}
    <3>1. V \in SUBSET Nat /\ V # {}
      BY <2>1, RankAssumption
    <3>2. PICK v \in V : \A w \in V : v <= w
      <4> HIDE DEF V
      <4> QED BY <3>1, LeastNat
    <3> QED BY <3>2
  <2>3. CanStep(r) \/ ctl[r].at \in {"reduce", "done"}
    BY <2>2, LeastRankGoesOn
  <2>4. CASE ctl[r].at = "reduce"
    <3>1. Stage(ctl[r]) = 6 * MaxLn + 4 /\ MaxLn \in Nat /\ Looping
      BY <2>1, <2>4, StageFacts, StopFacts DEF TogetherInv
    <3>2. ASSUME NEW q \in Rank PROVE ctl[q].at = "reduce"
      <4>1. ctl[q].mode = "tag" \/ ctl[q].mode = "iterate"
        BY <2>1, <3>1, StopFacts DEF Looping
      <4>2. Stage(ctl[q]) \in Nat /\ 6 * MaxLn + 4 <= Stage(ctl[q])
        BY <2>1, <2>2, <3>1
      <4> QED BY <2>1, <3>1, <4>1, <4>2, StageBounds
    <3> QED BY <3>2 DEF NoRankWaits
  <2>5. CASE ctl[r].at = "done"
    <3>1. Stage(ctl[r]) = 8 * MaxLn + 5 /\ MaxLn \in Nat
      BY <2>1, <2>5, StageFacts, StopFacts
    <3>2. ASSUME NEW q \in Rank PROVE ctl[q].at = "done"
      <4>1. Stage(ctl[q]) \in Nat /\ 8 * MaxLn + 5 <= Stage(ctl[q])
        BY <2>1, <2>2, <3>1
      <4>2. ctl[q].at # "done" => Stage(ctl[q]) <= 8 * MaxLn + 4
        BY <2>1, StageBounds
      <4> QED BY <3>1, <4>1, <4>2
    <3> QED BY <3>2 DEF NoRankWaits, Terminated
  <2> QED BY <2>3, <2>4, <2>5 DEF NoRankWaits
<1> QED BY <1>1, <1>2, PlacesInit, TypeCorrect, PTL DEF Spec

(***************************************************************************)
(* A step brings the ranks it moves nearer to the end of the method, or is *)
(* one of at most MaxIter reductions.  Only the reduction that follows an  *)
(* iteration moves a rank back, to the start of the loop.                  *)
(***************************************************************************)
StepsAdvance ==
  [][IF nn' = nn
     THEN ctl' # ctl /\ \A r \in Rank : ctl'[r] = ctl[r] \/ Stage(ctl[r]) < Stage(ctl'[r])
     ELSE nn' = nn + 1 /\ nn < MaxIter]_vars

LEMMA StepAdvances ==
  ASSUME TogetherInv, nn \in Nat, Next
  PROVE  IF nn' = nn
         THEN ctl' # ctl /\ \A r \in Rank : ctl'[r] = ctl[r] \/ Stage(ctl[r]) < Stage(ctl'[r])
         ELSE nn' = nn + 1 /\ nn < MaxIter
<1>1. ASSUME NEW r \in Rank, RankStep(r)
      PROVE  /\ nn' = nn /\ ctl' # ctl
             /\ \A q \in Rank : ctl'[q] = ctl[q] \/ Stage(ctl[q]) < Stage(ctl'[q])
  <2>1. /\ nn' = nn /\ \A q \in Rank : q # r => ctl'[q] = ctl[q]
        /\ ctl' \in [Rank -> Stops]
        /\ (Passes(ctl[r], ctl'[r]) /\ msg' = msg) \/ Packs(r)
    BY <1>1, RankStepKinds DEF TogetherInv
  <2>2. ctl[r] \in Stops /\ ctl'[r] \in Stops
    BY <2>1 DEF TogetherInv
  <2>3. Stage(ctl[r]) \in Nat /\ Stage(ctl'[r]) \in Nat
    BY <2>2, StageFacts
  <2>4. Stage(ctl[r]) < Stage(ctl'[r])
    <3>1. CASE Passes(ctl[r], ctl'[r])
      BY <2>2, <3>1, PassesOn
    <3>2. CASE Packs(r)
      BY <2>3, <3>2 DEF Packs
    <3> QED BY <2>1, <3>1, <3>2
  <2> QED BY <2>1, <2>3, <2>4
<1>2. CASE AllReduce
  <2>1. \A r \in Rank : ctl[r].at = "reduce"
    BY <1>2 DEF AllReduce, NextIteration
  <2>2. \A r \in Rank : Stage(ctl[r]) = 6 * MaxLn + 4 /\ MaxLn \in Nat /\ ctl[r].mode = "iterate"
    BY <2>1, StageFacts, StopFacts, HierarchyAssumption DEF TogetherInv
  <2>3. PICK q \in Rank : TRUE
    BY RankAssumption
  <2>4. nn < MaxIter
    BY <2>2, <2>3 DEF TogetherInv
  <2>5. CASE nn' = nn + 1
    BY <2>4, <2>5
  <2>6. CASE nn' = nn /\ ctl' = [r \in Rank |-> AfterLoop]
    <3>1. \A r \in Rank : Stage(ctl[r]) < Stage(ctl'[r])
      BY <2>2, <2>6, AfterLoopStop
    <3>2. ctl'[q] # ctl[q]
      BY <2>2, <3>1
    <3> QED BY <2>6, <3>1, <3>2
  <2> QED BY <1>2, <2>5, <2>6, ReduceFacts
<1> QED BY <1>1, <1>2 DEF Next

THEOREM EveryStepAdvances == Spec => StepsAdvance
<1>1. TypeOK /\ TogetherInv /\ [Next]_vars
        => [IF nn' = nn
            THEN ctl' # ctl /\ \A r \in Rank : ctl'[r] = ctl[r] \/ Stage(ctl[r]) < Stage(ctl'[r])
            ELSE nn' = nn + 1 /\ nn < MaxIter]_vars
  BY StepAdvances DEF TypeOK
<1>2. TogetherInv /\ [Next]_vars => TogetherInv'
  BY TogetherNext
<1> QED BY <1>1, <1>2, PlacesInit, TypeCorrect, PTL DEF Spec, StepsAdvance

-----------------------------------------------------------------------------
(***************************************************************************)
(* Averages.  In an iteration a level reaches the coarser one before the   *)
(* finer levels are swept, so that covered cells may lag; the transfers    *)
(* after the loop, from the finest level down, make up for it.  What a     *)
(* cell has packed for them it keeps, since its rank has received the      *)
(* level above it before.                                                  *)
(***************************************************************************)
Average(c) == quat[c] = UNION {quat[d] : d \in Children[c]}

PastSend(p, l) == p.mode = "final" /\ (p.at = "done" \/ p.ln < l \/ (p.ln = l /\ p.at = "recv"))

PastRecv(p, l) == p.mode = "final" /\ (p.at = "done" \/ p.ln < l)

LastInv ==
  \A l \in Level, d \in Cell : msg[<<"final", l>>][d] # NotSent =>
    /\ LevelOf[d] = l /\ PastSend(ctl[OwnerOf[d]], l)
    /\ msg[<<"final", l>>][d].quat = quat[d]

AverageInv ==
  \A c \in Cell : Covered(c) /\ PastRecv(ctl[OwnerOf[c]], LevelOf[c] + 1) =>
    Average(c) /\ \A d \in Children[c] : msg[<<"final", LevelOf[c] + 1>>][d] # NotSent

LEMMA SameUnion ==
  ASSUME NEW S, NEW f, NEW g, \A d \in S : f[d] = g[d]
  PROVE  UNION {f[d] : d \in S} = UNION {g[d] : d \in S}
<1>1. {f[d] : d \in S} = {g[d] : d \in S}
  OBVIOUS
<1> QED BY <1>1

LEMMA ChildFacts ==
  ASSUME NEW c \in Cell, NEW d \in Children[c]
  PROVE  /\ d \in Cell /\ LevelOf[d] = LevelOf[c] + 1
         /\ LevelOf[c] \in Nat /\ LevelOf[c] + 1 \in Level /\ LevelOf[c] + 1 <= MaxLn
         /\ OwnerOf[c] \in Rank /\ OwnerOf[d] \in Rank /\ Covered(c)
<1>1. d \in Cell /\ LevelOf[d] = LevelOf[c] + 1 /\ MaxLn \in Nat
  BY HierarchyAssumption
<1>2. LevelOf[c] \in Level /\ LevelOf[d] \in Level
  BY <1>1, HierarchyAssumption
<1>3. OwnerOf[c] \in Rank /\ OwnerOf[d] \in Rank
  BY <1>1, HierarchyAssumption
<1> QED BY <1>1, <1>2, <1>3 DEF Level, Covered

(* A step of a rank before or in the loop.                                 *)
LEMMA AverageInLoop ==
  ASSUME LastInv, AverageInv, NEW r \in Rank,
         ctl[r].mode # "final", ctl'[r].mode # "final",
         \A q \in Rank : q # r => ctl'[q] = ctl[q],
         \A l \in Level : msg'[<<"final", l>>] = msg[<<"final", l>>],
         \A c \in Cell : OwnerOf[c] # r => quat'[c] = quat[c]
  PROVE  LastInv' /\ AverageInv'
<1>1. LastInv'
  <2> SUFFICES ASSUME NEW l \in Level, NEW d \in Cell, msg'[<<"final", l>>][d] # NotSent
               PROVE  /\ LevelOf[d] = l /\ PastSend(ctl'[OwnerOf[d]], l)
                      /\ msg'[<<"final", l>>][d].quat = quat'[d]
    BY DEF LastInv, PastSend
  <2>1. msg[<<"final", l>>][d] # NotSent
    OBVIOUS
  <2>2. /\ LevelOf[d] = l /\ PastSend(ctl[OwnerOf[d]], l)
        /\ msg[<<"final", l>>][d].quat = quat[d]
    BY <2>1 DEF LastInv
  <2>3. OwnerOf[d] # r /\ OwnerOf[d] \in Rank
    BY <2>2, HierarchyAssumption DEF PastSend
  <2> QED BY <2>2, <2>3
<1>2. AverageInv'
  <2> SUFFICES ASSUME NEW c \in Cell, Covered(c), PastRecv(ctl'[OwnerOf[c]], LevelOf[c] + 1)
               PROVE  /\ quat'[c] = UNION {quat'[d] : d \in Children[c]}
                      /\ \A d \in Children[c] : msg'[<<"final", LevelOf[c] + 1>>][d] # NotSent
    BY DEF AverageInv, PastRecv, Average
  <2>1. OwnerOf[c] # r /\ OwnerOf[c] \in Rank
    BY HierarchyAssumption DEF PastRecv
  <2>2. PastRecv(ctl[OwnerOf[c]], LevelOf[c] + 1)
    BY <2>1
  <2>3. Average(c) /\ \A d \in Children[c] : msg[<<"final", LevelOf[c] + 1>>][d] # NotSent
    BY <2>2 DEF AverageInv
  <2>4. ASSUME NEW d \in Children[c]
        PROVE  quat'[d] = quat[d] /\ msg'[<<"final", LevelOf[c] + 1>>][d] # NotSent
    <3>1. d \in Cell /\ LevelOf[c] + 1 \in Level
      BY ChildFacts
    <3>2. PastSend(ctl[OwnerOf[d]], LevelOf[c] + 1)
      BY <2>3, <3>1 DEF LastInv
    <3>3. OwnerOf[d] # r
      BY <3>2 DEF PastSend
    <3> QED BY <2>3, <3>1, <3>3
  <2>5. UNION {quat'[d] : d \in Children[c]} = UNION {quat[d] : d \in Children[c]}
    BY <2>4, SameUnion
  <2> QED BY <2>1, <2>3, <2>4, <2>5 DEF Average
<1> QED BY <1>1, <1>2

(* A rank packs a level after the loop.                                    *)
LEMMA AverageSend ==
  ASSUME TypeOK, TogetherInv, LastInv, AverageInv, NEW r \in Rank, Send(r),
         ctl[r].mode = "final"
  PROVE  LastInv' /\ AverageInv'
<1> DEFINE ln == ctl[r].ln
<1>1. /\ ctl[r].at = "send" /\ ln \in Level /\ <<"final", ln>> \in Tag
      /\ quat' = quat /\ ctl' = [ctl EXCEPT ![r] = [mode |-> "final", at |-> "recv", ln |-> ln]]
  BY DEF Send, Goto, TypeOK, Tag
<1>2. ctl'[r] = [mode |-> "final", at |-> "recv", ln |-> ln] /\ \A q \in Rank : q # r => ctl'[q] = ctl[q]
  <2>1. ctl \in [Rank -> Stops]
    BY DEF TogetherInv
  <2> HIDE DEF ln
  <2> QED BY <1>1, <2>1
<1>3. ASSUME NEW l \in Level, NEW d \in Cell
      PROVE  msg'[<<"final", l>>][d] =
               IF l = ln /\ OwnerOf[d] = r /\ LevelOf[d] = l
               THEN [flag |-> flag[d], quat |-> quat[d]] ELSE msg[<<"final", l>>][d]
  <2>1. <<"final", l>> \in Tag
    BY DEF Tag
  <2>2. msg' = [msg EXCEPT ![<<"final", ln>>] =
                  [c \in Cell |-> IF OwnerOf[c] = r /\ LevelOf[c] \in {ln}
                                  THEN [flag |-> flag[c], quat |-> quat[c]] ELSE @[c]]]
    BY DEF Send, Pack
  <2>3. CASE l = ln
    BY <1>1, <2>1, <2>2, <2>3 DEF TypeOK
  <2>4. CASE l # ln
    <3>1. <<"final", l>> # <<"final", ln>>
      BY <2>4
    <3>2. msg'[<<"final", l>>] = msg[<<"final", l>>]
      BY <1>1, <2>1, <2>2, <3>1 DEF TypeOK
    <3> QED BY <2>4, <3>2
  <2> QED BY <2>3, <2>4
<1>4. ASSUME NEW l \in Level, NEW d \in Cell, msg[<<"final", l>>][d] # NotSent
      PROVE  msg'[<<"final", l>>][d] # NotSent
  <2>1. [flag |-> flag[d], quat |-> quat[d]] # NotSent
    BY DEF NotSent, TypeOK
  <2> QED BY <1>3, <1>4, <2>1
<1> HIDE DEF ln
<1>5. LastInv'
  <2> SUFFICES ASSUME NEW l \in Level, NEW d \in Cell, msg'[<<"final", l>>][d] # NotSent
               PROVE  /\ LevelOf[d] = l /\ PastSend(ctl'[OwnerOf[d]], l)
                      /\ msg'[<<"final", l>>][d].quat = quat[d]
    BY <1>1 DEF LastInv, PastSend
  <2>1. CASE l = ln /\ OwnerOf[d] = r /\ LevelOf[d] = l
    <3>1. msg'[<<"final", l>>][d].quat = quat[d]
      <4>1. msg'[<<"final", l>>][d] = [flag |-> flag[d], quat |-> quat[d]]
        BY <1>3, <2>1, Zenon
      <4> QED BY <4>1
    <3>2. ctl'[r].mode = "final" /\ ctl'[r].at = "recv" /\ ctl'[r].ln = ln
      BY <1>2
    <3> QED BY <2>1, <3>1, <3>2 DEF PastSend
  <2>2. CASE ~ (l = ln /\ OwnerOf[d] = r /\ LevelOf[d] = l)
    <3>1. msg'[<<"final", l>>][d] = msg[<<"final", l>>][d]
      BY <1>3, <2>2
    <3>2. /\ LevelOf[d] = l /\ PastSend(ctl[OwnerOf[d]], l)
          /\ msg[<<"final", l>>][d].quat = quat[d]
      BY <3>1 DEF LastInv
    <3>3. PastSend(ctl'[OwnerOf[d]], l)
      BY <1>1, <1>2, <3>2, OwnerIsRank DEF PastSend, ln
    <3> QED BY <3>1, <3>2, <3>3
  <2> QED BY <2>1, <2>2
<1>6. AverageInv'
  <2> SUFFICES ASSUME NEW c \in Cell, Covered(c), PastRecv(ctl'[OwnerOf[c]], LevelOf[c] + 1)
               PROVE  /\ quat[c] = UNION {quat[d] : d \in Children[c]}
                      /\ \A d \in Children[c] : msg'[<<"final", LevelOf[c] + 1>>][d] # NotSent
    BY <1>1 DEF AverageInv, PastRecv, Average
  <2>1. PastRecv(ctl[OwnerOf[c]], LevelOf[c] + 1)
    BY <1>1, <1>2, OwnerIsRank DEF PastRecv, ln
  <2>2. Average(c) /\ \A d \in Children[c] : msg[<<"final", LevelOf[c] + 1>>][d] # NotSent
    BY <2>1 DEF AverageInv
  <2>3. \A d \in Children[c] : msg'[<<"final", LevelOf[c] + 1>>][d] # NotSent
    BY <1>4, <2>2, ChildFacts
  <2> QED BY <2>2, <2>3 DEF Average
<1> QED BY <1>5, <1>6

(* A rank receives a level after the loop: the cells above it become        *)
(* averages, and no cell of this or a finer level changes.                  *)
LEMMA AverageCoarsen ==
  ASSUME TypeOK, TogetherInv, LastInv, AverageInv, NEW r \in Rank, Coarsen(r),
         ctl[r].mode = "final"
  PROVE  LastInv' /\ AverageInv'
<1> DEFINE ln == ctl[r].ln
           targets == {c \in Own[r][ln - 1] : Covered(c)}
<1>1. /\ ctl[r] \in Stops /\ ctl[r].at = "recv" /\ ctl[r].mode = "final"
      /\ ln \in Nat /\ 1 <= ln /\ ln \in Level /\ ln - 1 \in Level /\ MaxLn \in Nat
  <2>1. ctl[r] \in Stops /\ ctl[r].at = "recv"
    BY DEF TogetherInv, Coarsen
  <2> QED BY <2>1, StopFacts DEF Level
<1>2. /\ msg' = msg
      /\ quat' = [c \in Cell |-> IF c \in targets
                                 THEN UNION {msg[<<"final", ln>>][d].quat : d \in Children[c]}
                                 ELSE quat[c]]
      /\ \A c \in targets : \A d \in Children[c] : msg[<<"final", ln>>][d] # NotSent
      /\ AfterCoarsen(r, "final", ln)
  BY DEF Coarsen
<1> HIDE DEF ln
<1>3. /\ ctl'[r].mode = "final"
      /\ \/ ln > 1 /\ ctl'[r].at = "send" /\ ctl'[r].ln = ln - 1
         \/ ln = 1 /\ ctl'[r].at = "done"
      /\ \A q \in Rank : q # r => ctl'[q] = ctl[q]
  <2>1. (ln > 1 /\ Goto(r, "final", "send", ln - 1)) \/ (ln = 1 /\ Goto(r, "final", "done", 0))
    BY <1>2 DEF AfterCoarsen
  <2>2. ctl \in [Rank -> Stops]
    BY DEF TogetherInv
  <2>3. ASSUME NEW a, NEW l, Goto(r, "final", a, l)
        PROVE  /\ ctl'[r].mode = "final" /\ ctl'[r].at = a /\ ctl'[r].ln = l
               /\ \A q \in Rank : q # r => ctl'[q] = ctl[q]
    BY <2>2, <2>3 DEF Goto
  <2> QED BY <2>1, <2>3
<1>4. \A c \in targets : c \in Cell /\ OwnerOf[c] = r /\ LevelOf[c] = ln - 1
  BY <1>1 DEF Own
<1>5. \A c \in Cell : Covered(c) /\ OwnerOf[c] = r /\ LevelOf[c] = ln - 1 => c \in targets
  BY <1>1 DEF Own
<1> HIDE DEF targets
<1>6. ASSUME NEW l \in Level, NEW d \in Cell, msg[<<"final", l>>][d] # NotSent
      PROVE  /\ LevelOf[d] = l /\ PastSend(ctl'[OwnerOf[d]], l)
             /\ msg[<<"final", l>>][d].quat = quat[d] /\ quat'[d] = quat[d]
  <2>1. /\ LevelOf[d] = l /\ PastSend(ctl[OwnerOf[d]], l) /\ OwnerOf[d] \in Rank
        /\ msg[<<"final", l>>][d].quat = quat[d] /\ l \in Nat
    BY <1>6, OwnerIsRank DEF LastInv, Level
  <2>2. CASE OwnerOf[d] = r
    <3>1. ln <= l
      BY <1>1, <2>1, <2>2 DEF PastSend, ln
    <3>2. d \notin targets
      BY <1>1, <1>4, <2>1, <3>1
    <3>3. PastSend(ctl'[r], l)
      BY <1>1, <1>3, <2>1, <3>1 DEF PastSend
    <3> QED BY <1>2, <2>1, <2>2, <3>2, <3>3
  <2>3. CASE OwnerOf[d] # r
    <3>1. d \notin targets /\ ctl'[OwnerOf[d]] = ctl[OwnerOf[d]]
      BY <1>3, <1>4, <2>1, <2>3
    <3> QED BY <1>2, <2>1, <3>1
  <2> QED BY <2>2, <2>3
<1>7. LastInv'
  <2> SUFFICES ASSUME NEW l \in Level, NEW d \in Cell, msg'[<<"final", l>>][d] # NotSent
               PROVE  /\ LevelOf[d] = l /\ PastSend(ctl'[OwnerOf[d]], l)
                      /\ msg'[<<"final", l>>][d].quat = quat'[d]
    BY DEF LastInv, PastSend
  <2> QED BY <1>2, <1>6
<1>8. AverageInv'
  <2> SUFFICES ASSUME NEW c \in Cell, Covered(c), PastRecv(ctl'[OwnerOf[c]], LevelOf[c] + 1)
               PROVE  /\ quat'[c] = UNION {quat'[d] : d \in Children[c]}
                      /\ \A d \in Children[c] : msg'[<<"final", LevelOf[c] + 1>>][d] # NotSent
    BY DEF AverageInv, PastRecv, Average
  <2>1. OwnerOf[c] \in Rank /\ LevelOf[c] \in Nat
    BY OwnerIsRank, HierarchyAssumption DEF Level
  <2>2. CASE OwnerOf[c] = r /\ LevelOf[c] = ln - 1
    <3>1. c \in targets /\ LevelOf[c] + 1 = ln
      BY <1>1, <1>5, <2>2
    <3>2. \A d \in Children[c] : d \in Cell /\ msg[<<"final", ln>>][d] # NotSent
      BY <1>2, <3>1, ChildFacts
    <3>3. \A d \in Children[c] : msg[<<"final", ln>>][d].quat = quat'[d]
      BY <1>1, <1>6, <3>2
    <3>4. UNION {msg[<<"final", ln>>][d].quat : d \in Children[c]} = UNION {quat'[d] : d \in Children[c]}
      <4>1. {msg[<<"final", ln>>][d].quat : d \in Children[c]} = {quat'[d] : d \in Children[c]}
        BY <3>3
      <4> QED BY <4>1
    <3>5. quat'[c] = UNION {msg[<<"final", ln>>][d].quat : d \in Children[c]}
      BY <1>2, <3>1
    <3> QED BY <1>2, <3>1, <3>2, <3>4, <3>5
  <2>3. CASE ~ (OwnerOf[c] = r /\ LevelOf[c] = ln - 1)
    <3>1. PastRecv(ctl[OwnerOf[c]], LevelOf[c] + 1)
      BY <1>1, <1>3, <2>1, <2>3 DEF PastRecv, ln
    <3>2. Average(c) /\ \A d \in Children[c] : msg[<<"final", LevelOf[c] + 1>>][d] # NotSent
      BY <3>1 DEF AverageInv
    <3>3. \A d \in Children[c] : quat'[d] = quat[d]
      BY <1>6, <3>2, ChildFacts
    <3>4. UNION {quat'[d] : d \in Children[c]} = UNION {quat[d] : d \in Children[c]}
      BY <3>3, SameUnion
    <3>5. quat'[c] = quat[c]
      BY <1>2, <1>4, <2>3
    <3> QED BY <1>2, <3>2, <3>4, <3>5 DEF Average
  <2> QED BY <2>2, <2>3
<1> QED BY <1>7, <1>8

LEMMA AverageNext ==
  ASSUME TypeOK, TogetherInv, LastInv, AverageInv, [Next]_vars
  PROVE  LastInv' /\ AverageInv'
<1>1. ASSUME NEW r \in Rank, RankStep(r) PROVE LastInv' /\ AverageInv'
  <2>1. /\ \A q \in Rank : q # r => ctl'[q] = ctl[q]
        /\ ctl'[r].mode = "final" <=> ctl[r].mode = "final"
    BY <1>1, RankStepKinds DEF TogetherInv
  <2>2. CASE ctl[r].mode = "final"
    <3>1. ctl[r].at \in {"send", "recv", "done"}
      BY <2>2, StopFacts DEF TogetherInv
    <3>2. Send(r) \/ Coarsen(r)
      BY <1>1, <3>1 DEF RankStep, Fill, Sweep
    <3> QED BY <2>2, <3>2, AverageSend, AverageCoarsen
  <2>3. CASE ctl[r].mode # "final"
    <3>1. ASSUME NEW l \in Level PROVE msg'[<<"final", l>>] = msg[<<"final", l>>]
      <4>1. ASSUME NEW t \in Tag, t # <<"final", l>>, NEW L, Pack(t, r, L)
            PROVE  msg'[<<"final", l>>] = msg[<<"final", l>>]
        <5>1. <<"final", l>> \in Tag
          BY DEF Tag
        <5> QED BY <4>1, <5>1 DEF Pack, TypeOK
      <4>2. CASE Send(r)
        <5>1. ctl[r].mode # "final" /\ <<ctl[r].mode, ctl[r].ln>> \in Tag
          BY <2>3 DEF TypeOK, Tag
        <5>2. <<ctl[r].mode, ctl[r].ln>> # <<"final", l>>
          BY <5>1
        <5> QED BY <4>1, <4>2, <5>1, <5>2 DEF Send
      <4>3. CASE Fill(r)
        <5>1. <<"fill", ctl[r].ln>> \in Tag /\ <<"fill", ctl[r].ln>> # <<"final", l>>
          BY DEF TypeOK, Tag
        <5> QED BY <4>1, <4>3, <5>1 DEF Fill
      <4>4. CASE Coarsen(r) \/ Sweep(r)
        BY <4>4 DEF Coarsen, Sweep
      <4> QED BY <1>1, <4>2, <4>3, <4>4 DEF RankStep
    <3>2. ASSUME NEW c \in Cell, OwnerOf[c] # r PROVE quat'[c] = quat[c]
      <4>1. CASE Send(r) \/ Fill(r)
        BY <4>1 DEF Send, Fill
      <4>2. ASSUME NEW l \in Level PROVE c \notin Own[r][l]
        BY <3>2 DEF Own
      <4>3. CASE Coarsen(r)
        <5>1. ctl[r].ln - 1 \in Level
          <6>1. ctl[r] \in Stops /\ ctl[r].at = "recv"
            BY <4>3 DEF TogetherInv, Coarsen
          <6> QED BY <6>1, StopFacts DEF Level
        <5> QED BY <4>2, <4>3, <5>1 DEF Coarsen
      <4>4. CASE Sweep(r)
        <5>1. ctl[r].ln \in Level
          BY DEF TypeOK
        <5> QED BY <4>2, <4>4, <5>1 DEF Sweep
      <4> QED BY <1>1, <4>1, <4>3, <4>4 DEF RankStep
    <3> QED BY <2>1, <2>3, <3>1, <3>2, AverageInLoop
  <2> QED BY <2>2, <2>3
<1>2. CASE AllReduce
  <2>1. /\ \A r \in Rank : ctl[r].at = "reduce" /\ ctl[r].mode # "final"
        /\ quat' = quat /\ \A l \in Level : msg'[<<"final", l>>] = msg[<<"final", l>>]
    <3>1. ASSUME NEW r \in Rank PROVE ctl[r].at = "reduce" /\ ctl[r].mode # "final"
      <4>1. ctl[r] \in Stops /\ ctl[r].at = "reduce"
        BY <1>2 DEF TogetherInv, AllReduce, NextIteration
      <4> QED BY <4>1, StopFacts
    <3>2. ASSUME NEW l \in Level PROVE msg'[<<"final", l>>] = msg[<<"final", l>>]
      <4>1. <<"final", l>> \in Tag
        BY DEF Tag
      <4> QED BY <1>2, <4>1 DEF AllReduce, NextIteration
    <3> QED BY <1>2, <3>1, <3>2 DEF AllReduce, NextIteration
  <2>2. LastInv'
    <3>1. ASSUME NEW l \in Level, NEW d \in Cell PROVE msg'[<<"final", l>>][d] = NotSent
      <4>1. ctl[OwnerOf[d]].mode # "final"
        BY <2>1, OwnerIsRank
      <4>2. msg[<<"final", l>>][d] = NotSent
        BY <4>1 DEF LastInv, PastSend
      <4> QED BY <2>1, <4>2
    <3> QED BY <3>1 DEF LastInv
  <2>3. AverageInv'
    <3> SUFFICES ASSUME NEW c \in Cell, Covered(c), PastRecv(ctl'[OwnerOf[c]], LevelOf[c] + 1)
                 PROVE  FALSE
      BY DEF AverageInv, PastRecv
    <3>1. PICK d \in Children[c] : TRUE
      BY DEF Covered
    <3>2. LevelOf[c] \in Nat /\ LevelOf[c] + 1 <= MaxLn /\ MaxLn \in Nat /\ OwnerOf[c] \in Rank
      BY <3>1, ChildFacts, HierarchyAssumption
    <3>3. CASE ctl' = [r \in Rank |-> [mode |-> "iterate", at |-> "fill", ln |-> 0]]
      BY <3>2, <3>3 DEF PastRecv
    <3>4. CASE ctl' = [r \in Rank |-> AfterLoop]
      BY <3>2, <3>4 DEF PastRecv, AfterLoop
    <3> QED BY <1>2, <3>3, <3>4, ReduceFacts
  <2> QED BY <2>2, <2>3
<1>3. CASE UNCHANGED vars
  BY <1>3 DEF vars, LastInv, AverageInv, PastRecv, PastSend, Average
<1> QED BY <1>1, <1>2, <1>3 DEF Next

(***************************************************************************)
(* When the method returns, every covered cell has the average of the      *)
(* orientations under it, on every hierarchy of any number of levels and   *)
(* in every order of the ranks: the transfers after the loop bring to the  *)
(* coarser levels what the last sweeps found on the finer ones.            *)
(* (CoveredIsAverage of GrainExtension)                                    *)
(***************************************************************************)
THEOREM CoveredCellsAreAverages == Spec => []CoveredIsAverage
<1>1. Init => LastInv /\ AverageInv
  <2> SUFFICES ASSUME Init PROVE LastInv /\ AverageInv
    OBVIOUS
  <2>1. \A l \in Level, d \in Cell : msg[<<"final", l>>][d] = NotSent
    BY DEF Init, Tag
  <2>2. \A c \in Cell : ctl[OwnerOf[c]].mode # "final"
    BY OwnerIsRank DEF Init
  <2> QED BY <2>1, <2>2 DEF LastInv, AverageInv, PastRecv
<1>2. TypeOK /\ TogetherInv /\ LastInv /\ AverageInv /\ [Next]_vars
        => TogetherInv' /\ LastInv' /\ AverageInv'
  BY TogetherNext, AverageNext
<1>3. TogetherInv /\ AverageInv => CoveredIsAverage
  <2> SUFFICES ASSUME TogetherInv, AverageInv, Terminated, NEW c \in Cell, Covered(c)
               PROVE  Average(c)
    BY DEF CoveredIsAverage, Average
  <2>1. ctl[OwnerOf[c]].at = "done" /\ ctl[OwnerOf[c]] \in Stops
    BY OwnerIsRank DEF Terminated, TogetherInv
  <2>2. ctl[OwnerOf[c]].mode = "final"
    BY <2>1, StopFacts
  <2> QED BY <2>1, <2>2 DEF AverageInv, PastRecv
<1> QED BY <1>1, <1>2, <1>3, PlacesInit, TypeCorrect, PTL DEF Spec

-----------------------------------------------------------------------------
(***************************************************************************)
(* Convergence.  The test for cells without an orientation is decided by   *)
(* the last patch of the last level that has one: with one level and one   *)
(* patch for each rank it decides for all of the rank's cells.             *)
(***************************************************************************)
OnePatchEach ==
  /\ MaxLn = 0
  /\ \A c, d \in Cell : OwnerOf[c] = OwnerOf[d] => PatchOf[c] = PatchOf[d]

AllSettled == \A c \in Cell : flag[c] = 1

TestedInv ==
  /\ \A r \in Rank : ctl[r].at = "reduce" /\ ~ unset[r] =>
       \A c \in Cell : OwnerOf[c] = r => flag[c] = 1
  /\ (\E r \in Rank : ctl[r].at = "done") => nn >= MaxIter \/ AllSettled

LEMMA OnePatchStops ==
  ASSUME OnePatchEach, NEW p \in Stops
  PROVE  /\ p.ln = 0 /\ p.at \in {"fill", "sweep", "reduce", "done"}
         /\ p.at = "done" <=> p.mode = "final"
<1>1. MaxLn = 0
  BY DEF OnePatchEach
<1>2. 1 .. MaxLn = {} /\ Level = {0}
  BY <1>1 DEF Level
<1> QED BY <1>2 DEF Stops

LEMMA SweepSettles ==
  ASSUME OnePatchEach, TypeOK, TogetherInv, NEW r \in Rank, Sweep(r), ~ unset'[r]
  PROVE  \A c \in Cell : OwnerOf[c] = r => flag'[c] = 1
<1> SUFFICES ASSUME NEW c \in Cell, OwnerOf[c] = r PROVE flag'[c] = 1
  OBVIOUS
<1>0. Level = {0} /\ ctl[r].ln = 0
  <2>1. ctl[r] \in Stops
    BY DEF TogetherInv
  <2> QED BY <2>1, OnePatchStops DEF OnePatchEach, Level
<1>1. LevelOf[c] = 0 /\ Own[r][0] = {d \in Cell : OwnerOf[d] = r /\ LevelOf[d] = 0}
  BY <1>0, HierarchyAssumption DEF Own
<1>2. PICK v \in {0, 1} :
        /\ flag' = [d \in Cell |-> IF d \in Own[r][0] /\ Takes(d, v) THEN 1 ELSE flag[d]]
        /\ unset' = [unset EXCEPT ![r] = StillUnset(r, 0, v)]
  <2> DEFINE ln == ctl[r].ln
  <2>1. PICK v \in {0, 1} :
          /\ flag' = [d \in Cell |-> IF d \in Own[r][ln] /\ Takes(d, v) THEN 1 ELSE flag[d]]
          /\ unset' = [unset EXCEPT ![r] = StillUnset(r, ln, v)]
    BY Zenon DEF Sweep
  <2>2. ln = 0
    BY <1>0
  <2> HIDE DEF ln
  <2> QED BY <2>1, <2>2, Zenon
<1>3. ~ StillUnset(r, 0, v)
  BY <1>2 DEF TypeOK
<1>4. c \in LastPatch(r, 0)
  <2> DEFINE s == Order[r][0]
  <2>1. s \in Seq(Cell) /\ {s[i] : i \in DOMAIN s} = Own[r][0]
    <3>1. r \in Rank /\ 0 \in Level
      BY <1>0
    <3>2. Order \in [Rank -> [Level -> Seq(Cell)]]
      BY HierarchyAssumption
    <3>3. {Order[r][0][i] : i \in DOMAIN Order[r][0]} = Own[r][0]
      BY <3>1, HierarchyAssumption
    <3> QED BY <3>1, <3>2, <3>3
  <2>2. s[Len(s)] \in Own[r][0]
    <3>1. DOMAIN s = 1 .. Len(s) /\ Len(s) \in Nat
      BY <2>1
    <3>2. DOMAIN s # {}
      BY <1>1, <2>1
    <3>3. Len(s) \in DOMAIN s
      BY <3>1, <3>2
    <3> QED BY <2>1, <3>3
  <2> HIDE DEF s
  <2>3. s[Len(s)] \in Cell /\ OwnerOf[s[Len(s)]] = r
    BY <1>1, <2>2
  <2>4. PatchOf[c] = PatchOf[s[Len(s)]]
    BY <2>3 DEF OnePatchEach
  <2> QED BY <1>1, <2>4 DEF LastPatch, s
<1>5. flag[c] # 0 \/ Takes(c, v)
  BY <1>1, <1>3, <1>4 DEF StillUnset
<1> QED BY <1>1, <1>2, <1>5 DEF TypeOK

LEMMA TestedStep ==
  ASSUME OnePatchEach, TypeOK, TogetherInv, TestedInv, [Next]_vars
  PROVE  TestedInv'
<1>0. \A q \in Rank : ctl[q] \in Stops
  BY DEF TogetherInv
<1>1. ASSUME NEW r \in Rank, RankStep(r) PROVE TestedInv'
  <2>1. /\ ctl' \in [Rank -> Stops] /\ nn' = nn
        /\ \A q \in Rank : q # r => ctl'[q] = ctl[q]
        /\ ctl'[r].mode = "final" <=> ctl[r].mode = "final"
    BY <1>1, RankStepKinds DEF TogetherInv
  <2>2. ctl[r].at \in {"fill", "sweep"} /\ ctl[r].mode = "iterate" /\ ctl[r].ln = 0 /\ Level = {0}
        /\ (Fill(r) \/ Sweep(r))
    <3>1. ctl[r].at \in {"fill", "sweep", "reduce", "done"} /\ ctl[r].ln = 0
      BY <1>0, OnePatchStops
    <3>2. ctl[r].at \in {"fill", "sweep"} /\ (Fill(r) \/ Sweep(r))
      BY <1>1, <3>1 DEF RankStep, Send, Coarsen, Fill, Sweep
    <3> QED BY <1>0, <3>1, <3>2, StopFacts DEF OnePatchEach, Level
  <2>3. ~ \E q \in Rank : ctl'[q].at = "done"
    <3> SUFFICES ASSUME NEW q \in Rank, ctl'[q].at = "done" PROVE FALSE
      OBVIOUS
    <3>1. ctl'[q].mode = "final"
      BY <2>1, OnePatchStops
    <3>2. ctl[q].mode = "final"
      BY <2>1, <3>1
    <3> QED BY <2>2, <3>2 DEF TogetherInv, Looping
  <2>4. ASSUME NEW q \in Rank, ctl'[q].at = "reduce", ~ unset'[q],
               NEW c \in Cell, OwnerOf[c] = q
        PROVE  flag'[c] = 1
    <3>1. CASE Fill(r)
      <4>1. q # r /\ unset'[q] = unset[q] /\ flag' = flag
        <5>1. ctl'[r].at = "sweep" /\ flag' = flag
          <6>1. flag' = flag /\ ctl' = [ctl EXCEPT ![r] = [mode |-> "iterate", at |-> "sweep", ln |-> ctl[r].ln]]
            BY <3>1 DEF Fill, Goto
          <6> QED BY <6>1 DEF TogetherInv
        <5> QED BY <2>4, <3>1, <5>1 DEF Fill, TypeOK
      <4> QED BY <2>1, <2>4, <4>1 DEF TestedInv
    <3>2. CASE Sweep(r) /\ q = r
      BY <2>4, <3>2, SweepSettles
    <3>3. CASE Sweep(r) /\ q # r
      <4>1. unset'[q] = unset[q]
        BY <3>3 DEF Sweep, TypeOK
      <4>2. flag'[c] = flag[c]
        BY <2>2, <2>4, <3>3 DEF Sweep, Own
      <4> QED BY <2>1, <2>4, <3>3, <4>1, <4>2 DEF TestedInv
    <3> QED BY <2>2, <3>1, <3>2, <3>3
  <2> QED BY <2>3, <2>4 DEF TestedInv
<1>2. CASE AllReduce
  <2>1. /\ \A r \in Rank : ctl[r].at = "reduce"
        /\ flag' = flag /\ unset' = unset
        /\ nn' = IF \E r \in Rank : unset[r] THEN nn + 1 ELSE nn
    BY <1>2 DEF AllReduce, NextIteration
  <2>2. CASE (\E r \in Rank : unset[r]) /\ nn + 1 < MaxIter
    <3>1. ctl' = [r \in Rank |-> [mode |-> "iterate", at |-> "fill", ln |-> 0]]
      BY <1>2, <2>2 DEF AllReduce, NextIteration
    <3>2. \A r \in Rank : ctl'[r].at = "fill"
      BY <3>1
    <3> QED BY <3>2 DEF TestedInv
  <2>3. CASE (\E r \in Rank : unset[r]) /\ ~ (nn + 1 < MaxIter)
    <3>1. ctl' = [r \in Rank |-> AfterLoop] /\ AfterLoop.at # "reduce"
      BY <1>2, <2>3 DEF AllReduce, NextIteration, AfterLoop
    <3>2. nn' >= MaxIter
      BY <2>1, <2>3, ExtensionAssumption DEF TypeOK
    <3> QED BY <3>1, <3>2 DEF TestedInv
  <2>4. CASE \A r \in Rank : ~ unset[r]
    <3>1. \A c \in Cell : flag'[c] = 1
      BY <2>1, <2>4, OwnerIsRank DEF TestedInv
    <3> QED BY <3>1 DEF TestedInv, AllSettled
  <2> QED BY <2>2, <2>3, <2>4
<1>3. CASE UNCHANGED vars
  BY <1>3 DEF TestedInv, AllSettled, vars
<1> QED BY <1>1, <1>2, <1>3 DEF Next

(***************************************************************************)
(* On one level whose cells of a rank lie in one patch, "converged" means  *)
(* that every cell has an orientation.  On one level a counterexample to   *)
(* ConvergedIsExtended therefore needs a rank with several patches: it is  *)
(* one_still_unset = 0 inside the loop over the patches that loses what    *)
(* the other patches found.                                                *)
(***************************************************************************)
THEOREM OnePatchConverges ==
  ASSUME OnePatchEach
  PROVE  Spec => []ConvergedIsExtended
<1>1. Init => TestedInv
  <2> SUFFICES ASSUME Init PROVE TestedInv
    OBVIOUS
  <2>1. \A r \in Rank : unset[r] /\ ctl[r].at # "done"
    BY DEF Init
  <2> QED BY <2>1 DEF TestedInv
<1>2. TypeOK /\ TogetherInv /\ TestedInv /\ [Next]_vars => TogetherInv' /\ TestedInv'
  BY TogetherNext, TestedStep
<1>3. TypeOK /\ TestedInv => ConvergedIsExtended
  <2> SUFFICES ASSUME TypeOK, TestedInv, Terminated, nn < MaxIter,
                      NEW c \in Cell, NEW d \in Cell
               PROVE  flag[d] = 1
    BY DEF ConvergedIsExtended
  <2>1. PICK r \in Rank : ctl[r].at = "done"
    BY RankAssumption DEF Terminated
  <2>2. ~ nn >= MaxIter
    BY ExtensionAssumption DEF TypeOK
  <2> QED BY <2>1, <2>2 DEF TestedInv, AllSettled
<1> QED BY <1>1, <1>2, <1>3, PlacesInit, TypeCorrect, PTL DEF Spec

=============================================================================
