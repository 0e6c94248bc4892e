------------------------ MODULE GrainNumberingProofs ------------------------
(***************************************************************************)
(* Theorems about GrainNumbering, for every hierarchy, every phase and any *)
(* number of ranks.                                                        *)
(***************************************************************************)
EXTENDS GrainNumbering, SetLemmas

Label == Nat \cup {None}

(* MinIntCoarsen returns one of the labels it is given, or -1. *)
LEMMA MinIntType ==
  ASSUME NEW S, S \subseteq Label
  PROVE  /\ MinInt(S) \in Label
         /\ MinInt(S) >= 0 => MinInt(S) \in S /\ \A w \in S : w >= 0 => MinInt(S) <= w
<1> DEFINE V == {v \in S : v >= 0}
<1>1. V \in SUBSET Nat
  <2>1. \A v \in V : v \in Nat
    BY DEF Label, None
  <2> QED BY <2>1
<1>2. CASE V = {}
  BY <1>2 DEF MinInt, Label, None
<1>3. CASE V # {}
  <2>1. \E v \in V : \A w \in V : v <= w
    <3> HIDE DEF V
    <3> QED BY <1>1, <1>3, LeastNat
  <2>2. MinInt(S) \in V /\ \A w \in V : MinInt(S) <= w
    BY <1>3, <2>1 DEF MinInt
  <2> QED BY <1>1, <2>2 DEF Label
<1> QED BY <1>2, <1>3

(* The value a rank reads from a neighbour has a type. *)
LEMMA SeenType ==
  ASSUME TypeOK, NEW c \in Cell, NEW i \in DOMAIN Sources[c], Sources[c][i] # NoCell
  PROVE  Sources[c][i] \in Cell /\ Seen(c, i) \in Nat \cup {None, NotSent}
<1>1. Sources[c] \in Seq(Cell \cup {NoCell}) /\ LevelOf[c] \in Level
  BY HierarchyAssumption
<1>2. Sources[c][i] \in Cell
  BY <1>1
<1>3. <<"fill", LevelOf[c]>> \in Tag
  BY <1>1 DEF Tag
<1> QED BY <1>2, <1>3 DEF TypeOK, Seen

(* A swept cell keeps its label or takes a smaller one that a neighbour has. *)
LEMMA SweptLabelFacts ==
  ASSUME TypeOK, NEW c \in Cell
  PROVE  \/ SweptLabel(c) = g[c]
         \/ /\ g[c] >= 0 /\ ~ Covered(c)
            /\ \E i \in DOMAIN Sources[c] :
                 /\ Sources[c][i] # NoCell
                 /\ SweptLabel(c) = Seen(c, i)
                 /\ SweptLabel(c) \in Nat
                 /\ SweptLabel(c) < g[c]
<1>1. CASE ~ Updates(c)
  BY <1>1 DEF SweptLabel
<1>2. CASE Updates(c)
  <2>1. Smaller(c) \subseteq DOMAIN Sources[c] /\ Smaller(c) # {}
    BY <1>2 DEF Updates, Smaller
  <2>2. Sources[c] \in Seq(Cell \cup {NoCell})
    BY HierarchyAssumption
  <2>3. Smaller(c) \in SUBSET (1 .. Len(Sources[c])) /\ Len(Sources[c]) \in Nat
    BY <2>1, <2>2
  <2>4. PICK i \in Smaller(c) : \A j \in Smaller(c) : j <= i
    BY <2>1, <2>3, GreatestIndex
  <2> DEFINE last == CHOOSE k \in Smaller(c) : \A j \in Smaller(c) : j <= k
  <2>5. last \in Smaller(c)
    BY <2>4
  <2>6. SweptLabel(c) = Seen(c, last)
    BY <1>2 DEF SweptLabel
  <2> HIDE DEF last
  <2>7. last \in DOMAIN Sources[c] /\ Sources[c][last] # NoCell
        /\ Seen(c, last) >= 0 /\ Seen(c, last) < g[c]
    BY <2>5 DEF Smaller
  <2>8. Seen(c, last) \in Nat
    BY <2>7, SeenType DEF None, NotSent
  <2> QED BY <1>2, <2>6, <2>7, <2>8 DEF Updates
<1> QED BY <1>1, <1>2

(* The local lists together are a finite set of numbers. *)
LEMMA ListFinite ==
  ASSUME TypeOK
  PROVE  /\ UNION {LocalList(r) : r \in Rank} \in SUBSET Nat
         /\ IsFiniteSet(UNION {LocalList(r) : r \in Rank})
<1> DEFINE T == {g[c] : c \in Cell}
           U == UNION {LocalList(r) : r \in Rank}
<1>1. IsFiniteSet(T)
  <2>1. g \in Surjection(Cell, T)
    BY DEF Surjection, TypeOK
  <2>2. IsFiniteSet(Cell)
    BY HierarchyAssumption
  <2> QED BY <2>1, <2>2, FS_Surjection
<1>2. \A n \in U : n \in T /\ n \in Nat
  BY DEF LocalList, TypeOK, None
<1>3. U \in SUBSET T /\ U \in SUBSET Nat
  BY <1>2
<1> QED BY <1>1, <1>3, FS_Subset

(* A grain number is a natural number. *)
LEMMA GrainNumberMapType ==
  ASSUME NEW n \in Nat, TypeOK
  PROVE  GrainNumberMap(n) \in Nat
<1> DEFINE B == {m \in grain_list : m < n}
<1>1. \A m \in B : m \in 0 .. n
  BY DEF TypeOK
<1>2. B \in SUBSET (0 .. n)
  BY <1>1
<1>3. IsFiniteSet(0 .. n)
  BY FS_Interval
<1>4. IsFiniteSet(B)
  BY <1>2, <1>3, FS_Subset
<1>5. Cardinality(B) \in Nat
  BY <1>4, FS_CardinalityType
<1> QED BY <1>5 DEF GrainNumberMap

LEMMA GotoType ==
  ASSUME TypeOK, NEW r \in Rank, NEW m, NEW a, NEW l, Goto(r, m, a, l),
         [mode |-> m, at |-> a, ln |-> l, k |-> 1] \in Control
  PROVE  ctl' \in [Rank -> Control]
BY DEF TypeOK, Goto

(* What the control of a rank says about it. *)
LEMMA ControlFacts ==
  ASSUME TypeOK, NEW r \in Rank
  PROVE  /\ ctl[r].mode \in Mode /\ ctl[r].ln \in Level /\ ctl[r].k \in Nat
         /\ ctl[r].at \in {"send", "recv"} => ctl[r].ln \in 1 .. MaxLn
         /\ ctl[r].at \in {"fill", "sweep", "reduce"} => ctl[r].mode = "iterate"
         /\ ctl[r].at \in {"gather", "renumber", "done"} => ctl[r].mode = "final"
         /\ MaxLn \in Nat /\ 0 \in Level
<1>1. ctl[r] \in Control /\ MaxLn \in Nat
  BY HierarchyAssumption DEF TypeOK
<1> QED BY <1>1 DEF Control, Mode, Level

LEMMA PackType ==
  ASSUME TypeOK, NEW r \in Rank, NEW tag \in Tag, NEW L, Pack(tag, r, L)
  PROVE  msg' \in [Tag -> [Cell -> Label \cup {NotSent}]]
<1>1. [c \in Cell |-> IF OwnerOf[c] = r /\ LevelOf[c] \in L THEN g[c] ELSE msg[tag][c]]
        \in [Cell -> Label \cup {NotSent}]
  BY DEF TypeOK, Label
<1> QED BY <1>1 DEF TypeOK, Pack, Label

LEMMA TypeInit == Init => TypeOK
<1> SUFFICES ASSUME Init PROVE TypeOK
  OBVIOUS
<1> USE DEF Init
<1>1. solid \in SUBSET Cell
  BY PhasesAssumption
<1>2. g \in [Cell -> Nat \cup {None}]
  BY NumberAssumption
<1>3. ctl \in [Rank -> Control]
  BY HierarchyAssumption DEF Control, Mode, Level
<1>4. msg \in [Tag -> [Cell -> Nat \cup {None, NotSent}]]
  OBVIOUS
<1> QED BY <1>1, <1>2, <1>3, <1>4 DEF TypeOK

LEMMA TypeSend == ASSUME TypeOK, NEW r \in Rank, Send(r) PROVE TypeOK'
<1>1. ctl[r].mode \in Mode /\ ctl[r].ln \in Level /\ ctl[r].ln \in 1 .. MaxLn
  BY ControlFacts DEF Send
<1>2. <<ctl[r].mode, ctl[r].ln>> \in Tag
  BY <1>1 DEF Tag, Mode
<1>3. ctl' \in [Rank -> Control]
  BY <1>1, GotoType DEF Send, Control
<1>4. msg' \in [Tag -> [Cell -> Label \cup {NotSent}]]
  BY <1>2, PackType DEF Send
<1> QED BY <1>3, <1>4 DEF Send, TypeOK, Label

LEMMA TypeCoarsen == ASSUME TypeOK, NEW r \in Rank, Coarsen(r) PROVE TypeOK'
<1> DEFINE m == ctl[r].mode
           ln == ctl[r].ln
           targets == {c \in Own[r][ln - 1] : Covered(c)}
           fine == msg[<<m, ln>>]
<1>1. m \in Mode /\ ln \in Level /\ ln \in 1 .. MaxLn
  BY ControlFacts DEF Coarsen
<1>2. fine \in [Cell -> Label \cup {NotSent}]
  BY <1>1 DEF TypeOK, Tag, Label, Mode
<1>3. ASSUME NEW c \in targets, c \in Cell PROVE MinInt({fine[d] : d \in Children[c]}) \in Label
  <2>1. \A d \in Children[c] : d \in Cell /\ fine[d] # NotSent
    BY <1>3, HierarchyAssumption DEF Coarsen
  <2>2. {fine[d] : d \in Children[c]} \subseteq Label
    <3> HIDE DEF fine
    <3> QED BY <1>2, <2>1
  <2> QED BY <2>2, MinIntType
<1>4. g' \in [Cell -> Nat \cup {None}]
  <2>1. g' = [c \in Cell |-> IF c \in targets THEN MinInt({fine[d] : d \in Children[c]}) ELSE g[c]]
    BY DEF Coarsen
  <2>2. g \in [Cell -> Label]
    BY DEF TypeOK, Label
  <2>3. ASSUME NEW c \in Cell
        PROVE  (IF c \in targets THEN MinInt({fine[d] : d \in Children[c]}) ELSE g[c]) \in Label
    <3> HIDE DEF targets, fine
    <3> QED BY <1>3, <2>2
  <2> HIDE DEF targets, fine
  <2> QED BY <2>1, <2>3 DEF Label
<1>5. ctl' \in [Rank -> Control]
  <2>1. AfterCoarsen(r, m, ln)
    BY DEF Coarsen
  <2>2. MaxLn \in Nat
    BY HierarchyAssumption
  <2>3. \E m2, a, l : /\ Goto(r, m2, a, l)
                      /\ [mode |-> m2, at |-> a, ln |-> l, k |-> 1] \in Control
    <3> HIDE DEF m, ln
    <3> QED BY <1>1, <2>1, <2>2 DEF AfterCoarsen, Level, Control, Mode
  <2> QED BY <2>3, GotoType
<1> QED BY <1>4, <1>5 DEF Coarsen, TypeOK

LEMMA TypeFill == ASSUME TypeOK, NEW r \in Rank, Fill(r) PROVE TypeOK'
<1>1. ctl[r].ln \in Level
  BY ControlFacts
<1>2. <<"fill", ctl[r].ln>> \in Tag
  BY <1>1 DEF Tag
<1>3. ctl' \in [Rank -> Control]
  BY <1>1, GotoType DEF Fill, Control
<1>4. msg' \in [Tag -> [Cell -> Label \cup {NotSent}]]
  BY <1>2, PackType DEF Fill
<1> QED BY <1>3, <1>4 DEF Fill, TypeOK, Label

(* The cell a rank sweeps next is one of its own. *)
LEMMA SweptCell ==
  ASSUME TypeOK, NEW r \in Rank, ctl[r].k \in DOMAIN Order[r][ctl[r].ln]
  PROVE  Order[r][ctl[r].ln][ctl[r].k] \in {c \in Cell : OwnerOf[c] = r /\ LevelOf[c] = ctl[r].ln}
<1> DEFINE ln == ctl[r].ln
<1>1. ln \in Level
  BY ControlFacts
<1>2. {Order[r][ln][i] : i \in DOMAIN Order[r][ln]} = Own[r][ln]
  BY <1>1, HierarchyAssumption
<1>3. Order[r][ln][ctl[r].k] \in Own[r][ln]
  BY <1>2
<1> QED BY <1>1, <1>3 DEF Own

LEMMA TypeSweepCell == ASSUME TypeOK, NEW r \in Rank, SweepCell(r) PROVE TypeOK'
<1> DEFINE c == Order[r][ctl[r].ln][ctl[r].k]
<1>1. c \in Cell
  BY SweptCell DEF SweepCell
<1>2. SweptLabel(c) \in Nat \cup {None}
  <2> HIDE DEF c
  <2>1. g[c] \in Nat \cup {None}
    BY <1>1 DEF TypeOK
  <2> QED BY <1>1, <2>1, SweptLabelFacts
<1>3. Updates(c) \in BOOLEAN
  BY DEF Updates
<1>4. ctl' \in [Rank -> Control]
  <2>1. ctl' = [ctl EXCEPT ![r].k = ctl[r].k + 1] /\ ctl \in [Rank -> Control]
    BY DEF SweepCell, TypeOK
  <2>2. ctl[r] \in Control
    BY <2>1
  <2>3. [ctl[r] EXCEPT !.k = ctl[r].k + 1] \in Control
    BY <2>2 DEF Control
  <2> QED BY <2>1, <2>3
<1>5. g' \in [Cell -> Nat \cup {None}]
  BY <1>2 DEF SweepCell, TypeOK
<1>6. changed' \in [Rank -> BOOLEAN]
  BY <1>3 DEF SweepCell, TypeOK
<1> QED BY <1>4, <1>5, <1>6 DEF SweepCell, TypeOK

LEMMA TypeEndSweep == ASSUME TypeOK, NEW r \in Rank, EndSweep(r) PROVE TypeOK'
<1>1. ctl[r].ln \in Level /\ MaxLn \in Nat
  BY ControlFacts
<1>2. \E a, l : /\ Goto(r, "iterate", a, l)
              /\ [mode |-> "iterate", at |-> a, ln |-> l, k |-> 1] \in Control
  BY <1>1 DEF EndSweep, Level, Control, Mode
<1>3. ctl' \in [Rank -> Control]
  BY <1>2, GotoType
<1> QED BY <1>3 DEF EndSweep, TypeOK

LEMMA TypeAllReduce == ASSUME TypeOK, AllReduce PROVE TypeOK'
<1>1. 0 \in Level
  BY HierarchyAssumption DEF Level
<1>2. PICK more : NextIteration(more)
  BY DEF AllReduce
<1>3. ctl' \in [Rank -> Control]
  BY <1>1, <1>2 DEF NextIteration, Control
<1>4. msg' \in [Tag -> [Cell -> Nat \cup {None, NotSent}]]
  BY <1>2 DEF NextIteration, TypeOK
<1>5. changed' \in [Rank -> BOOLEAN]
  BY <1>2 DEF NextIteration, TypeOK
<1>6. counter' \in Nat
  BY <1>2 DEF NextIteration, TypeOK
<1> QED BY <1>2, <1>3, <1>4, <1>5, <1>6 DEF NextIteration, TypeOK

LEMMA TypeGather == ASSUME TypeOK, Gather PROVE TypeOK'
<1>1. grain_list' \in SUBSET Nat /\ IsFiniteSet(grain_list')
  BY ListFinite DEF Gather
<1>2. numberOfGrains' \in Nat
  BY <1>1, FS_CardinalityType DEF Gather
<1>3. ctl' \in [Rank -> Control]
  BY HierarchyAssumption DEF Gather, Control, Level
<1> QED BY <1>1, <1>2, <1>3 DEF Gather, TypeOK

LEMMA TypeRenumber == ASSUME TypeOK, NEW r \in Rank, Renumber(r) PROVE TypeOK'
<1>1. MaxLn \in Level /\ 0 \in Level
  BY HierarchyAssumption DEF Level
<1>2. ctl' \in [Rank -> Control]
  <2>1. MaxLn > 0 => MaxLn \in 1 .. MaxLn
    BY HierarchyAssumption
  <2> QED BY <1>1, <2>1, GotoType DEF Renumber, Control, Mode
<1>3. ASSUME NEW c \in Cell, g[c] >= 0 PROVE GrainNumberMap(g[c]) \in Nat
  <2>1. g[c] \in Nat
    BY <1>3 DEF TypeOK, None
  <2> QED BY <2>1, GrainNumberMapType
<1>4. g' \in [Cell -> Nat \cup {None}]
  BY <1>3 DEF Renumber, TypeOK
<1> QED BY <1>2, <1>4 DEF Renumber, TypeOK

LEMMA TypeNext == TypeOK /\ [Next]_vars => TypeOK'
<1> SUFFICES ASSUME TypeOK, [Next]_vars PROVE TypeOK'
  OBVIOUS
<1>1. ASSUME NEW r \in Rank, RankStep(r) PROVE TypeOK'
  BY <1>1, TypeSend, TypeCoarsen, TypeFill, TypeSweepCell, TypeEndSweep, TypeRenumber
  DEF RankStep
<1>2. CASE UNCHANGED vars
  BY <1>2 DEF vars, TypeOK
<1> QED BY <1>1, <1>2, TypeAllReduce, TypeGather DEF Next

(***************************************************************************)
(* The variables keep their types: labels are cell numbers or -1, and the  *)
(* ranks stay within the levels of the hierarchy.  (all of                 *)
(* findAndNumberGrains)                                                    *)
(***************************************************************************)
THEOREM TypeCorrect == Spec => []TypeOK
BY TypeInit, TypeNext, PTL DEF Spec

-----------------------------------------------------------------------------
(***************************************************************************)
(* LabelOrigin.  The invariant below is LabelOrigin for every set of cells *)
(* and not only for those of Regions: a set of one cell that is not live   *)
(* is closed and has no origins, so the invariant for it says that such a  *)
(* cell carries no label.                                                  *)
(***************************************************************************)
OriginInv == TypeOK /\ \A S \in SUBSET Cell : Closed(S) => OriginsIn(S)

LEMMA DeadCellClosed ==
  ASSUME NEW c \in Cell, ~ Live(c)
  PROVE  Closed({c}) /\ Origins({c}) = {}
<1>1. ~ (c \in solid /\ ~ Covered(c))
  <2>1. ~ Covered(c) => Leaves[c] = {c}
    BY LeavesAssumption DEF Covered
  <2> QED BY <2>1 DEF Live
<1> QED BY <1>1 DEF Closed, Origins

(* A label is where a solid cell lies under it. *)
LEMMA LabelledIsLive ==
  ASSUME OriginInv, NEW c \in Cell
  PROVE  /\ Numbering(OwnerOf[c]) /\ ~ Unsettled(c) /\ g[c] >= 0 => Live(c)
         /\ \A t \in Tag : t[1] # "final" /\ msg[t][c] >= 0 => Live(c)
<1> SUFFICES ASSUME ~ Live(c)
             PROVE  /\ ~ (Numbering(OwnerOf[c]) /\ ~ Unsettled(c) /\ g[c] >= 0)
                    /\ \A t \in Tag : ~ (t[1] # "final" /\ msg[t][c] >= 0)
  OBVIOUS
<1>1. Closed({c}) /\ Origins({c}) = {}
  BY DeadCellClosed
<1>2. OriginsIn({c})
  BY <1>1 DEF OriginInv
<1> QED BY <1>1, <1>2 DEF OriginsIn

(* A step that changes neither the phase nor a label keeps what a set has. *)
LEMMA SolidUnchanged ==
  ASSUME solid' = solid, NEW S
  PROVE  Closed(S)' = Closed(S) /\ Origins(S)' = Origins(S)
BY DEF Closed, Origins, Live, Inflow, Covered, Reads

LEMMA OriginInit ==
  ASSUME Init, NEW S \in SUBSET Cell
  PROVE  OriginsIn(S)
<1>1. ASSUME NEW c \in S, ~ Unsettled(c), g[c] >= 0
      PROVE  g[c] \in Origins(S)
  <2>1. c \in Cell /\ OwnerOf[c] \in Rank /\ LevelOf[c] \in Level /\ MaxLn \in Nat
    BY HierarchyAssumption
  <2>2. ~ Covered(c)
    <3> SUFFICES ASSUME Covered(c) PROVE FALSE
      OBVIOUS
    <3>1. PICK d \in Children[c] : d \in Cell
      BY <2>1, HierarchyAssumption DEF Covered
    <3>2. LevelOf[d] = LevelOf[c] + 1 /\ LevelOf[d] \in Level
      BY <2>1, <3>1, HierarchyAssumption
    <3>3. MaxLn > LevelOf[c]
      BY <2>1, <3>2 DEF Level
    <3>4. ctl[OwnerOf[c]].mode = "init" /\ ctl[OwnerOf[c]].ln = MaxLn
      BY <2>1, <3>3 DEF Init, Level
    <3> QED BY <1>1, <3>3, <3>4 DEF Unsettled
  <2>3. c \in solid /\ g[c] = Number[c]
    BY <1>1, <2>1 DEF Init, None
  <2> QED BY <2>2, <2>3 DEF Origins
<1>2. ASSUME NEW t \in Tag, NEW c \in S PROVE ~ (msg[t][c] >= 0)
  BY <1>2 DEF Init, NotSent
<1> QED BY <1>1, <1>2 DEF OriginsIn

(* Packing settled labels keeps the values in transit in order. *)
LEMMA OriginPack ==
  ASSUME OriginInv, NEW r \in Rank, NEW tag \in Tag, NEW L, Pack(tag, r, L),
         NEW S \in SUBSET Cell, Closed(S),
         tag[1] # "final" => /\ Numbering(r)
                             /\ \A c \in Cell : OwnerOf[c] = r /\ LevelOf[c] \in L => ~ Unsettled(c)
  PROVE  \A t \in Tag : t[1] # "final" =>
           \A c \in S : msg'[t][c] >= 0 => msg'[t][c] \in Origins(S)
<1> SUFFICES ASSUME NEW t \in Tag, t[1] # "final", NEW c \in S, msg'[t][c] >= 0
             PROVE  msg'[t][c] \in Origins(S)
  OBVIOUS
<1>1. OriginsIn(S) /\ msg \in [Tag -> [Cell -> Nat \cup {None, NotSent}]]
  BY DEF OriginInv, TypeOK
<1>2. CASE t = tag /\ OwnerOf[c] = r /\ LevelOf[c] \in L
  <2>1. msg'[t][c] = g[c]
    BY <1>1, <1>2 DEF Pack
  <2>2. Numbering(OwnerOf[c]) /\ ~ Unsettled(c)
    BY <1>2
  <2> QED BY <1>1, <2>1, <2>2 DEF OriginsIn
<1>3. CASE ~ (t = tag /\ OwnerOf[c] = r /\ LevelOf[c] \in L)
  <2>1. msg'[t][c] = msg[t][c]
    BY <1>1, <1>3 DEF Pack
  <2> QED BY <1>1, <2>1 DEF OriginsIn
<1> QED BY <1>2, <1>3

LEMMA OriginSend ==
  ASSUME OriginInv, NEW r \in Rank, Send(r), NEW S \in SUBSET Cell, Closed(S)
  PROVE  OriginsIn(S)'
<1> DEFINE m == ctl[r].mode
           ln == ctl[r].ln
<1>1. TypeOK /\ OriginsIn(S) /\ m \in Mode /\ ln \in 1 .. MaxLn /\ ln \in Level
  BY ControlFacts DEF OriginInv, Send
<1>2. ctl' = [ctl EXCEPT ![r] = [mode |-> m, at |-> "recv", ln |-> ln, k |-> 1]]
      /\ g' = g /\ solid' = solid /\ ctl \in [Rank -> Control]
  BY <1>1 DEF Send, Goto, TypeOK
<1>3. ASSUME NEW c \in S, (Numbering(OwnerOf[c]) /\ ~ Unsettled(c) /\ g[c] >= 0)'
      PROVE  g'[c] \in Origins(S)
  <2>1. OwnerOf[c] \in Rank
    BY HierarchyAssumption
  <2>2. Numbering(OwnerOf[c]) /\ ~ Unsettled(c)
    BY <1>2, <1>3, <2>1 DEF Numbering, Unsettled, Covered, Send
  <2> QED BY <1>1, <1>2, <1>3, <2>2 DEF OriginsIn
<1>4. \A t \in Tag : t[1] # "final" =>
        \A c \in S : msg'[t][c] >= 0 => msg'[t][c] \in Origins(S)
  <2>1. <<m, ln>> \in Tag /\ Pack(<<m, ln>>, r, {ln})
    BY <1>1 DEF Send, Tag, Mode
  <2>2. m # "final" => Numbering(r)
    BY DEF Numbering
  <2>3. \A c \in Cell : OwnerOf[c] = r /\ LevelOf[c] \in {ln} => ~ Unsettled(c)
    BY <1>1 DEF Unsettled, Level
  <2> QED BY <2>1, <2>2, <2>3, OriginPack
<1>5. Origins(S)' = Origins(S)
  BY <1>2, SolidUnchanged
<1> QED BY <1>3, <1>4, <1>5 DEF OriginsIn

LEMMA OriginFill ==
  ASSUME OriginInv, NEW r \in Rank, Fill(r), NEW S \in SUBSET Cell, Closed(S)
  PROVE  OriginsIn(S)'
<1> DEFINE ln == ctl[r].ln
<1>1. TypeOK /\ OriginsIn(S) /\ ctl[r].mode = "iterate" /\ ln \in Level
  BY ControlFacts DEF OriginInv, Fill
<1>2. ctl' = [ctl EXCEPT ![r] = [mode |-> "iterate", at |-> "sweep", ln |-> ln, k |-> 1]]
      /\ g' = g /\ solid' = solid /\ ctl \in [Rank -> Control]
  BY <1>1 DEF Fill, Goto, TypeOK
<1>3. ASSUME NEW c \in S, (Numbering(OwnerOf[c]) /\ ~ Unsettled(c) /\ g[c] >= 0)'
      PROVE  g'[c] \in Origins(S)
  <2>1. OwnerOf[c] \in Rank
    BY HierarchyAssumption
  <2>2. Numbering(OwnerOf[c]) /\ ~ Unsettled(c)
    BY <1>1, <1>2, <1>3, <2>1 DEF Numbering, Unsettled, Covered
  <2> QED BY <1>1, <1>2, <1>3, <2>2 DEF OriginsIn
<1>4. \A t \in Tag : t[1] # "final" =>
        \A c \in S : msg'[t][c] >= 0 => msg'[t][c] \in Origins(S)
  <2>1. <<"fill", ln>> \in Tag /\ Pack(<<"fill", ln>>, r, {ln, ln - 1})
    BY <1>1 DEF Fill, Tag
  <2>2. Numbering(r) /\ \A c \in Cell : OwnerOf[c] = r => ~ Unsettled(c)
    BY <1>1 DEF Numbering, Unsettled
  <2> QED BY <2>1, <2>2, OriginPack
<1>5. Origins(S)' = Origins(S)
  BY <1>2, SolidUnchanged
<1> QED BY <1>3, <1>4, <1>5 DEF OriginsIn

(* A live child makes the cell above it live. *)
LEMMA LiveChild ==
  ASSUME NEW c \in Cell, NEW d \in Children[c], Live(d)
  PROVE  Live(c)
<1>1. Leaves[c] = UNION {Leaves[e] : e \in Children[c]}
  BY LeavesAssumption
<1> QED BY <1>1 DEF Live

LEMMA OriginCoarsen ==
  ASSUME OriginInv, NEW r \in Rank, Coarsen(r), NEW S \in SUBSET Cell, Closed(S)
  PROVE  OriginsIn(S)'
<1> DEFINE m == ctl[r].mode
           ln == ctl[r].ln
           fine == msg[<<m, ln>>]
           targets == {c \in Own[r][ln - 1] : Covered(c)}
<1>1. TypeOK /\ OriginsIn(S) /\ m \in Mode /\ ln \in 1 .. MaxLn /\ ln \in Level /\ MaxLn \in Nat
  BY ControlFacts DEF OriginInv, Coarsen
<1>2. Own[r][ln - 1] = {c \in Cell : OwnerOf[c] = r /\ LevelOf[c] = ln - 1}
  <2>1. ln - 1 \in Level
    BY <1>1 DEF Level
  <2> QED BY <2>1 DEF Own
<1>3. /\ solid' = solid /\ msg' = msg /\ AfterCoarsen(r, m, ln)
      /\ g' = [c \in Cell |-> IF c \in targets THEN MinInt({fine[d] : d \in Children[c]})
                              ELSE g[c]]
      /\ \A c \in targets : \A d \in Children[c] : fine[d] # NotSent
  BY DEF Coarsen
<1>4. ASSUME NEW c \in S, (Numbering(OwnerOf[c]) /\ ~ Unsettled(c) /\ g[c] >= 0)'
      PROVE  g'[c] \in Origins(S)
  <2>1. c \in Cell /\ OwnerOf[c] \in Rank /\ LevelOf[c] \in Level
    BY HierarchyAssumption
  <2>2. OwnerOf[c] = r => m # "final"
    <3> SUFFICES ASSUME OwnerOf[c] = r, m = "final" PROVE FALSE
      OBVIOUS
    <3>1. ctl'[r].mode = "final" /\ ctl'[r].at \in {"send", "done"}
      <4> HIDE DEF m, ln
      <4> QED BY <1>1, <1>3 DEF AfterCoarsen, Goto, TypeOK
    <3> QED BY <1>4, <3>1 DEF Numbering
  <2>3. CASE c \in targets
    <3>1. OwnerOf[c] = r /\ Covered(c)
      BY <1>2, <2>3
    <3>2. g'[c] = MinInt({fine[d] : d \in Children[c]}) /\ g'[c] >= 0
      <4> HIDE DEF targets, fine
      <4> QED BY <1>3, <1>4, <2>1, <2>3
    <3>3. <<m, ln>> \in Tag /\ m # "final"
      BY <1>1, <2>2, <3>1 DEF Tag, Mode
    <3>4. \A d \in Children[c] : d \in Cell /\ fine[d] \in Label
      <4>1. \A d \in Children[c] : d \in Cell
        BY <2>1, HierarchyAssumption
      <4>2. fine \in [Cell -> Nat \cup {None, NotSent}]
        BY <1>1, <3>3 DEF TypeOK
      <4>3. \A d \in Children[c] : fine[d] # NotSent
        BY <1>3, <2>3
      <4> HIDE DEF fine
      <4> QED BY <4>1, <4>2, <4>3 DEF Label
    <3>5. g'[c] \in {fine[d] : d \in Children[c]}
      <4>1. {fine[d] : d \in Children[c]} \subseteq Label
        <5> HIDE DEF fine
        <5> QED BY <3>4
      <4> HIDE DEF fine
      <4> QED BY <3>2, <4>1, MinIntType
    <3>6. PICK d \in Children[c] : g'[c] = fine[d]
      BY <3>5
    <3>7. d \in Cell /\ Live(d)
      BY <3>2, <3>3, <3>4, <3>6, LabelledIsLive
    <3>8. d \in S
      BY <2>1, <3>1, <3>7, LiveChild DEF Closed, Inflow
    <3> QED BY <1>1, <3>2, <3>3, <3>6, <3>8 DEF OriginsIn
  <2>4. CASE c \notin targets
    <3>1. g'[c] = g[c]
      <4> HIDE DEF targets, fine
      <4> QED BY <1>3, <2>1, <2>4
    <3>2. CASE OwnerOf[c] # r
      <4>1. ctl'[OwnerOf[c]] = ctl[OwnerOf[c]]
        BY <1>1, <1>3, <2>1, <3>2 DEF AfterCoarsen, Goto, TypeOK
      <4>2. Numbering(OwnerOf[c]) /\ ~ Unsettled(c)
        BY <1>4, <4>1 DEF Numbering, Unsettled, Covered
      <4> QED BY <1>1, <1>4, <3>1, <4>2 DEF OriginsIn
    <3>3. CASE OwnerOf[c] = r
      <4>1. Numbering(r)
        BY <2>2, <3>3 DEF Numbering
      <4>2. ~ Unsettled(c)
        <5> SUFFICES ASSUME Covered(c), m = "init", ln > LevelOf[c] PROVE FALSE
          BY <3>3 DEF Unsettled
        <5>1. LevelOf[c] # ln - 1
          BY <1>2, <2>1, <2>4, <3>3
        <5>2. ln > 1 /\ LevelOf[c] < ln - 1
          BY <1>1, <2>1, <5>1 DEF Level
        <5>3. ctl'[r].mode = "init" /\ ctl'[r].ln = ln - 1
          <6> HIDE DEF m, ln
          <6> QED BY <1>1, <1>3, <5>2 DEF AfterCoarsen, Goto, TypeOK
        <5>4. Unsettled(c)'
          BY <3>3, <5>2, <5>3 DEF Unsettled, Covered
        <5> QED BY <1>4, <5>4
      <4> QED BY <1>1, <1>4, <3>1, <3>3, <4>1, <4>2 DEF OriginsIn
    <3> QED BY <3>2, <3>3
  <2> QED BY <2>3, <2>4
<1>5. Origins(S)' = Origins(S)
  BY <1>3, SolidUnchanged
<1> QED BY <1>1, <1>3, <1>4, <1>5 DEF OriginsIn

LEMMA OriginSweepCell ==
  ASSUME OriginInv, NEW r \in Rank, SweepCell(r), NEW S \in SUBSET Cell, Closed(S)
  PROVE  OriginsIn(S)'
<1> DEFINE b == Order[r][ctl[r].ln][ctl[r].k]
<1>1. TypeOK /\ OriginsIn(S) /\ ctl[r].mode = "iterate"
  BY ControlFacts DEF OriginInv, SweepCell
<1>2. b \in Cell /\ OwnerOf[b] = r /\ LevelOf[b] = ctl[r].ln /\ LevelOf[b] \in Level
  BY <1>1, SweptCell, ControlFacts DEF SweepCell
<1>3. /\ g' = [g EXCEPT ![b] = SweptLabel(b)] /\ g \in [Cell -> Label]
      /\ solid' = solid /\ msg' = msg
      /\ ctl' = [ctl EXCEPT ![r].k = ctl[r].k + 1] /\ ctl \in [Rank -> Control]
  BY <1>1 DEF SweepCell, TypeOK, Label
<1>4. ASSUME NEW c \in Cell
      PROVE  Numbering(OwnerOf[c])' = Numbering(OwnerOf[c]) /\ Unsettled(c)' = Unsettled(c)
  <2>1. OwnerOf[c] \in Rank
    BY HierarchyAssumption
  <2>2. /\ ctl'[OwnerOf[c]].mode = ctl[OwnerOf[c]].mode
        /\ ctl'[OwnerOf[c]].at = ctl[OwnerOf[c]].at
        /\ ctl'[OwnerOf[c]].ln = ctl[OwnerOf[c]].ln
    <3> HIDE DEF b
    <3>1. ctl[r] \in Control
      BY <1>3
    <3> QED BY <1>3, <2>1, <3>1 DEF Control
  <2> QED BY <2>2 DEF Numbering, Unsettled, Covered
<1>5. Numbering(r) /\ \A c \in Cell : OwnerOf[c] = r => ~ Unsettled(c)
  BY <1>1 DEF Numbering, Unsettled
<1>6. ASSUME b \in S, g[b] >= 0, ~ Covered(b), NEW i \in DOMAIN Sources[b],
             Sources[b][i] # NoCell, Seen(b, i) \in Nat
      PROVE  Seen(b, i) \in Origins(S)
  <2> DEFINE d == Sources[b][i]
  <2> HIDE DEF b
  <2>1. d \in Cell
    BY <1>1, <1>2, <1>6, SeenType
  <2>2. Live(b)
    BY <1>2, <1>5, <1>6, LabelledIsLive
  <2>3. d \in Inflow(b)
    BY <1>2, <1>6 DEF Inflow, Reads
  <2>4. CASE i \in Ghosts[b]
    <3>1. Seen(b, i) = msg[<<"fill", LevelOf[b]>>][d] /\ <<"fill", LevelOf[b]>> \in Tag
      BY <1>2, <2>4 DEF Seen, Tag
    <3>2. Live(d)
      BY <1>6, <2>1, <3>1, LabelledIsLive
    <3>3. d \in S
      BY <1>6, <2>2, <2>3, <3>2 DEF Closed
    <3> QED BY <1>1, <1>6, <3>1, <3>3 DEF OriginsIn
  <2>5. CASE i \notin Ghosts[b]
    <3>1. Seen(b, i) = g[d] /\ OwnerOf[d] = r
      BY <1>2, <1>6, <2>5, HierarchyAssumption DEF Seen
    <3>2. Live(d)
      BY <1>5, <1>6, <2>1, <3>1, LabelledIsLive
    <3>3. d \in S
      BY <1>6, <2>2, <2>3, <3>2 DEF Closed
    <3> QED BY <1>1, <1>5, <1>6, <2>1, <3>1, <3>3 DEF OriginsIn
  <2> QED BY <2>4, <2>5
<1>7. ASSUME NEW c \in S, (Numbering(OwnerOf[c]) /\ ~ Unsettled(c) /\ g[c] >= 0)'
      PROVE  g'[c] \in Origins(S)
  <2> HIDE DEF b
  <2>1. CASE g'[c] = g[c]
    BY <1>1, <1>4, <1>7, <2>1 DEF OriginsIn
  <2>2. CASE g'[c] # g[c]
    <3>1. c = b /\ g'[b] = SweptLabel(b) /\ SweptLabel(b) # g[b]
      BY <1>2, <1>3, <2>2
    <3> QED BY <1>1, <1>2, <1>6, <3>1, SweptLabelFacts
  <2> QED BY <2>1, <2>2
<1>8. Origins(S)' = Origins(S)
  BY <1>3, SolidUnchanged
<1> HIDE DEF b
<1> QED BY <1>1, <1>3, <1>7, <1>8 DEF OriginsIn

LEMMA OriginEndSweep ==
  ASSUME OriginInv, NEW r \in Rank, EndSweep(r), NEW S \in SUBSET Cell, Closed(S)
  PROVE  OriginsIn(S)'
<1>1. TypeOK /\ OriginsIn(S) /\ ctl[r].mode = "iterate"
  BY ControlFacts DEF OriginInv, EndSweep
<1>2. /\ \E a, l : ctl' = [ctl EXCEPT ![r] = [mode |-> "iterate", at |-> a, ln |-> l, k |-> 1]]
      /\ g' = g /\ solid' = solid /\ msg' = msg /\ ctl \in [Rank -> Control]
  BY <1>1 DEF EndSweep, Goto, TypeOK
<1>3. ASSUME NEW c \in S, (Numbering(OwnerOf[c]) /\ ~ Unsettled(c) /\ g[c] >= 0)'
      PROVE  g'[c] \in Origins(S)
  <2>1. OwnerOf[c] \in Rank
    BY HierarchyAssumption
  <2>2. Numbering(OwnerOf[c]) /\ ~ Unsettled(c)
    BY <1>1, <1>2, <1>3, <2>1 DEF Numbering, Unsettled, Covered
  <2> QED BY <1>1, <1>2, <1>3, <2>2 DEF OriginsIn
<1>4. Origins(S)' = Origins(S)
  BY <1>2, SolidUnchanged
<1> QED BY <1>1, <1>2, <1>3, <1>4 DEF OriginsIn

LEMMA OriginAllReduce ==
  ASSUME OriginInv, AllReduce, NEW S \in SUBSET Cell, Closed(S)
  PROVE  OriginsIn(S)'
<1>1. TypeOK /\ OriginsIn(S)
  BY DEF OriginInv
<1>2. PICK more : NextIteration(more)
  BY DEF AllReduce
<1>3. ASSUME NEW c \in S, (g[c] >= 0)' PROVE g'[c] \in Origins(S)
  <2>1. OwnerOf[c] \in Rank
    BY HierarchyAssumption
  <2>2. ctl[OwnerOf[c]].mode = "iterate"
    BY <1>1, <1>2, <2>1, ControlFacts DEF NextIteration
  <2> QED BY <1>1, <1>2, <1>3, <2>2 DEF OriginsIn, Numbering, Unsettled, NextIteration
<1>4. ASSUME NEW t \in Tag, NEW c \in S, msg'[t][c] >= 0 PROVE msg'[t][c] = msg[t][c]
  <2>1. msg'[t] = IF t[1] \in {"fill", "iterate"} THEN [d \in Cell |-> NotSent] ELSE msg[t]
    BY <1>2 DEF NextIteration
  <2>2. CASE t[1] \in {"fill", "iterate"}
    <3>1. msg'[t][c] = NotSent
      BY <2>1, <2>2
    <3> QED BY <1>4, <3>1 DEF NotSent
  <2> QED BY <2>1, <2>2
<1>5. Origins(S)' = Origins(S)
  BY <1>2, SolidUnchanged DEF NextIteration
<1>6. ASSUME NEW t \in Tag, t[1] # "final", NEW c \in S, msg'[t][c] >= 0
      PROVE  msg'[t][c] \in Origins(S)
  BY <1>1, <1>4, <1>6 DEF OriginsIn
<1> QED BY <1>3, <1>5, <1>6 DEF OriginsIn

LEMMA OriginGather ==
  ASSUME OriginInv, Gather, NEW S \in SUBSET Cell, Closed(S)
  PROVE  OriginsIn(S)'
<1>1. TypeOK /\ OriginsIn(S)
  BY DEF OriginInv
<1>2. ASSUME NEW c \in S, (g[c] >= 0)' PROVE g'[c] \in Origins(S)
  <2>1. OwnerOf[c] \in Rank
    BY HierarchyAssumption
  <2>2. ctl[OwnerOf[c]].at = "gather" /\ ctl[OwnerOf[c]].mode = "final"
    BY <1>1, <2>1, ControlFacts DEF Gather
  <2> QED BY <1>1, <1>2, <2>2 DEF OriginsIn, Numbering, Unsettled, Gather
<1>3. Origins(S)' = Origins(S)
  BY SolidUnchanged DEF Gather
<1> QED BY <1>1, <1>2, <1>3 DEF OriginsIn, Gather

LEMMA OriginRenumber ==
  ASSUME OriginInv, NEW r \in Rank, Renumber(r), NEW S \in SUBSET Cell, Closed(S)
  PROVE  OriginsIn(S)'
<1>1. TypeOK /\ OriginsIn(S) /\ ctl \in [Rank -> Control]
  BY DEF OriginInv, TypeOK
<1>2. /\ ctl'[r].mode = "final" /\ ctl'[r].at \in {"send", "done"}
      /\ \A q \in Rank : q # r => ctl'[q] = ctl[q]
  BY <1>1 DEF Renumber, Goto
<1>3. ASSUME NEW c \in S, (Numbering(OwnerOf[c]) /\ ~ Unsettled(c) /\ g[c] >= 0)'
      PROVE  g'[c] \in Origins(S)
  <2>1. c \in Cell /\ OwnerOf[c] \in Rank
    BY HierarchyAssumption
  <2>2. OwnerOf[c] # r
    BY <1>2, <1>3 DEF Numbering
  <2>3. ctl'[OwnerOf[c]] = ctl[OwnerOf[c]] /\ g'[c] = g[c]
    BY <1>2, <2>1, <2>2 DEF Renumber
  <2>4. Numbering(OwnerOf[c]) /\ ~ Unsettled(c)
    BY <1>3, <2>3 DEF Numbering, Unsettled, Covered
  <2> QED BY <1>1, <1>3, <2>3, <2>4 DEF OriginsIn
<1>4. Origins(S)' = Origins(S)
  BY SolidUnchanged DEF Renumber
<1> QED BY <1>1, <1>3, <1>4 DEF OriginsIn, Renumber

LEMMA OriginNext == OriginInv /\ [Next]_vars => OriginInv'
<1> SUFFICES ASSUME OriginInv, [Next]_vars PROVE OriginInv'
  OBVIOUS
<1>1. TypeOK'
  BY TypeNext DEF OriginInv
<1>2. ASSUME NEW S \in SUBSET Cell, Closed(S)' PROVE OriginsIn(S)'
  <2>1. solid' = solid
    BY DEF Next, RankStep, Send, Coarsen, Fill, SweepCell, EndSweep, Renumber, AllReduce,
           NextIteration, Gather, vars
  <2>2. Closed(S)
    BY <1>2, <2>1, SolidUnchanged
  <2>3. ASSUME NEW r \in Rank, RankStep(r) PROVE OriginsIn(S)'
    BY <2>2, <2>3, OriginSend, OriginCoarsen, OriginFill, OriginSweepCell, OriginEndSweep,
       OriginRenumber DEF RankStep
  <2>4. CASE UNCHANGED vars
    <3>1. OriginsIn(S)
      BY <2>2 DEF OriginInv
    <3> QED BY <2>1, <2>4, <3>1, SolidUnchanged DEF vars, OriginsIn, Numbering, Unsettled, Covered
  <2> QED BY <2>2, <2>3, <2>4, OriginAllReduce, OriginGather DEF Next
<1> QED BY <1>1, <1>2 DEF OriginInv

(***************************************************************************)
(* Until the renumbering, every label and every value in transit is the    *)
(* number of a solid cell from which labels can flow to where it is: no    *)
(* order of the ranks, no partition into patches and no refinement lets a  *)
(* grain number into a region that nothing joins to it.  (the bucket fill  *)
(* of findAndNumberGrains and MinIntCoarsen)                               *)
(***************************************************************************)
THEOREM LabelsStayInTheirRegion == Spec => []LabelOrigin
<1>1. Init => OriginInv
  BY TypeInit, OriginInit DEF OriginInv
<1>2. OriginInv => LabelOrigin
  BY PhasesAssumption DEF OriginInv, LabelOrigin
<1> QED BY <1>1, <1>2, OriginNext, PTL DEF Spec

-----------------------------------------------------------------------------
(***************************************************************************)
(* LabelsOnlyFall.  That a covered cell does not rise when it takes the    *)
(* labels of the cells under it needs that it has not been lower: what is  *)
(* packed for it, in this iteration or before the first, is what the cells *)
(* under it had once, and they have only fallen since.                     *)
(***************************************************************************)

(* The label v has fallen to w: no cell enters or leaves a grain.          *)
Falls(v, w) == w <= v /\ (v >= 0 <=> w >= 0)

Packed(m, c) == msg[<<m, LevelOf[c]>>][c]
Sent(m, c) == Packed(m, c) # NotSent

(* What a covered cell takes, or would take, from a cell under it.         *)
Latest(c) == IF Sent("iterate", c) THEN Packed("iterate", c) ELSE g[c]
Under(c) == MinInt({Latest(d) : d \in Children[c]})

Looping == \A r \in Rank : ctl[r].mode # "final"

(* In order: what was packed in this iteration, what was packed before the *)
(* first, and a covered cell that has taken it, are not below the latest   *)
(* labels; when things are packed.                                         *)
FallInv ==
  /\ \A c \in Cell : Sent("iterate", c) => Falls(Packed("iterate", c), g[c])
  /\ \A c \in Cell : Sent("init", c) => Falls(Packed("init", c), Latest(c))
  /\ \A c \in Cell : Covered(c) /\ ~ Unsettled(c) =>
       Falls(g[c], Under(c)) /\ \A d \in Children[c] : Sent("init", d)
  /\ \A c \in Cell : ctl[OwnerOf[c]].mode = "init" =>
       ~ Sent("iterate", c) /\ (Sent("init", c) => ctl[OwnerOf[c]].ln <= LevelOf[c])

(* The ranks leave the loop together.                                      *)
LoopInv ==
  \/ Looping /\ FallInv
  \/ \A r \in Rank : ctl[r].mode = "final"

(* MinInt is below 0 only for labels that all are.                         *)
LEMMA MinIntSign ==
  ASSUME NEW S, S \subseteq Label
  PROVE  MinInt(S) >= 0 <=> \E v \in S : v >= 0
<1> DEFINE V == {v \in S : v >= 0}
<1>1. V \in SUBSET Nat
  <2>1. \A v \in V : v \in Nat
    BY DEF Label, None
  <2> QED BY <2>1
<1>2. CASE V = {}
  <2>1. MinInt(S) = None
    BY <1>2 DEF MinInt
  <2> QED BY <1>2, <2>1 DEF None
<1>3. CASE V # {}
  <2>1. \E v \in V : \A w \in V : v <= w
    <3> HIDE DEF V
    <3> QED BY <1>1, <1>3, LeastNat
  <2> QED BY <1>3, <2>1 DEF MinInt
<1> QED BY <1>2, <1>3

(* The least of labels that have fallen has fallen.                        *)
LEMMA MinIntFalls ==
  ASSUME NEW S, NEW f \in [S -> Label], NEW h \in [S -> Label], \A d \in S : Falls(f[d], h[d])
  PROVE  Falls(MinInt({f[d] : d \in S}), MinInt({h[d] : d \in S}))
<1> DEFINE F == {f[d] : d \in S}
           H == {h[d] : d \in S}
<1>1. F \subseteq Label /\ H \subseteq Label
  OBVIOUS
<1>2. MinInt(F) \in Label /\ MinInt(H) \in Label
  BY <1>1, MinIntType
<1>3. MinInt(F) >= 0 <=> MinInt(H) >= 0
  <2>1. (\E v \in F : v >= 0) <=> (\E v \in H : v >= 0)
    BY DEF Falls
  <2> QED BY <1>1, <2>1, MinIntSign
<1>4. CASE MinInt(F) >= 0
  <2>1. MinInt(F) \in F
    BY <1>1, <1>4, MinIntType
  <2>2. PICK d \in S : MinInt(F) = f[d]
    BY <2>1
  <2>3. h[d] \in H /\ h[d] >= 0 /\ h[d] <= f[d]
    BY <1>4, <2>2 DEF Falls
  <2>4. MinInt(H) <= h[d]
    BY <1>1, <1>3, <1>4, <2>3, MinIntType
  <2> QED BY <1>2, <1>3, <2>2, <2>3, <2>4 DEF Falls, Label, None
<1>5. CASE ~ MinInt(F) >= 0
  BY <1>2, <1>3, <1>5 DEF Falls, Label, None
<1> QED BY <1>4, <1>5

(* Types of what is packed.                                                *)
LEMMA PackedType ==
  ASSUME TypeOK, NEW c \in Cell
  PROVE  /\ g[c] \in Label /\ OwnerOf[c] \in Rank /\ LevelOf[c] \in Level /\ LevelOf[c] \in Nat
         /\ \A m \in Mode \cup {"fill"} :
              <<m, LevelOf[c]>> \in Tag /\ Packed(m, c) \in Label \cup {NotSent}
         /\ Latest(c) \in Label
         /\ \A d \in Children[c] : d \in Cell /\ LevelOf[d] = LevelOf[c] + 1
<1>1. OwnerOf[c] \in Rank /\ LevelOf[c] \in Level /\ MaxLn \in Nat
  BY HierarchyAssumption
<1>2. \A m \in Mode \cup {"fill"} : <<m, LevelOf[c]>> \in Tag
  BY <1>1 DEF Mode, Tag
<1>3. \A m \in Mode \cup {"fill"} : Packed(m, c) \in Label \cup {NotSent}
  BY <1>2 DEF TypeOK, Packed, Label
<1>4. g[c] \in Label
  BY DEF TypeOK, Label
<1>5. Latest(c) \in Label
  BY <1>3, <1>4 DEF Latest, Sent, Mode
<1>6. \A d \in Children[c] : d \in Cell /\ LevelOf[d] = LevelOf[c] + 1
  BY HierarchyAssumption
<1>7. LevelOf[c] \in Nat
  BY <1>1 DEF Level
<1> QED BY <1>1, <1>2, <1>3, <1>4, <1>5, <1>6, <1>7

LEMMA UnderType ==
  ASSUME TypeOK, NEW c \in Cell
  PROVE  Under(c) \in Label
<1>1. {Latest(d) : d \in Children[c]} \subseteq Label
  BY PackedType
<1> QED BY <1>1, MinIntType DEF Under

LEMMA LaterType ==
  ASSUME TypeOK', NEW c \in Cell
  PROVE  Latest(c)' \in Label /\ Under(c)' \in Label
<1>1. ASSUME NEW d \in Cell PROVE Latest(d)' \in Label
  <2>1. LevelOf[d] \in Level
    BY HierarchyAssumption
  <2>2. <<"iterate", LevelOf[d]>> \in Tag /\ g' \in [Cell -> Label]
    BY <2>1 DEF Tag, TypeOK, Label
  <2>3. Packed("iterate", d)' \in Label \cup {NotSent}
    BY <2>2 DEF TypeOK, Packed, Label
  <2> QED BY <2>2, <2>3 DEF Latest, Sent
<1>2. {Latest(d)' : d \in Children[c]} \subseteq Label
  BY <1>1, HierarchyAssumption
<1>3. MinInt({Latest(d)' : d \in Children[c]}) \in Label
  BY <1>2, MinIntType
<1> QED BY <1>1, <1>3 DEF Under, MinInt

(* Where the latest labels of the cells under c have fallen, so has their  *)
(* least.                                                                  *)
LEMMA UnderFalls ==
  ASSUME TypeOK, TypeOK', NEW c \in Cell, \A d \in Children[c] : Falls(Latest(d), Latest(d)')
  PROVE  Falls(Under(c), Under(c)')
<1> DEFINE S == Children[c]
           f == [d \in S |-> Latest(d)]
           h == [d \in S |-> Latest(d)']
<1>1. \A d \in S : Latest(d) \in Label
  BY PackedType
<1>2. \A d \in S : Latest(d)' \in Label
  BY LaterType, PackedType
<1>3. f \in [S -> Label] /\ h \in [S -> Label] /\ \A d \in S : Falls(f[d], h[d])
  BY <1>1, <1>2
<1>4. Falls(MinInt({f[d] : d \in S}), MinInt({h[d] : d \in S}))
  <2> HIDE DEF f, h, S
  <2> QED BY <1>3, MinIntFalls
<1>5. {f[d] : d \in S} = {Latest(d) : d \in S} /\ {h[d] : d \in S} = {Latest(d)' : d \in S}
  OBVIOUS
<1>6. Under(c) = MinInt({Latest(d) : d \in S}) /\ Under(c)' = MinInt({Latest(d)' : d \in S})
  BY DEF Under, MinInt
<1> QED BY <1>4, <1>5, <1>6

(* What the next state has to satisfy when no cell rises and nothing that  *)
(* was packed before the loop is lost.                                     *)
LEMMA FallTransitive ==
  ASSUME NEW u \in Label, NEW v \in Label, NEW w \in Label, Falls(u, v), Falls(v, w)
  PROVE  Falls(u, w)
BY DEF Falls, Label, None

LEMMA FallReflexive == \A v \in Label : Falls(v, v)
BY DEF Falls, Label, None

(* Where an action leaves the places of the ranks before the loop and what *)
(* was packed then, it is enough that the latest labels only fall, that a  *)
(* covered cell stays or takes the least under it, and that what is packed *)
(* in the iteration is not below the label.                                *)
LEMMA LoopStep ==
  ASSUME TypeOK, TypeOK', FallInv,
         \A r \in Rank : ctl'[r].mode = "init" <=> ctl[r].mode = "init",
         \A r \in Rank : ctl[r].mode = "init" => ctl'[r].ln = ctl[r].ln,
         \A c \in Cell : Packed("init", c)' = Packed("init", c),
         \A c \in Cell : ctl[OwnerOf[c]].mode = "init" => ~ Sent("iterate", c)',
         \A c \in Cell : Sent("iterate", c)' => Falls(Packed("iterate", c)', g'[c]),
         \A c \in Cell : Falls(Latest(c), Latest(c)'),
         \A c \in Cell : Covered(c) => g'[c] = g[c] \/ g'[c] = Under(c)'
  PROVE  FallInv'
<1>1. \A c \in Cell : /\ OwnerOf[c] \in Rank
                      /\ Latest(c) \in Label /\ Packed("init", c) \in Label \cup {NotSent}
                      /\ g[c] \in Label /\ Under(c) \in Label
  BY PackedType, UnderType DEF Mode
<1>2. \A c \in Cell : Latest(c)' \in Label /\ Under(c)' \in Label
  BY LaterType
<1>3. \A c \in Cell : /\ Covered(c)' <=> Covered(c)
                      /\ Unsettled(c)' <=> Unsettled(c)
                      /\ Sent("init", c)' <=> Sent("init", c)
  BY <1>1 DEF Covered, Unsettled, Sent
<1>4. ASSUME NEW c \in Cell, Sent("init", c)' PROVE Falls(Packed("init", c)', Latest(c)')
  <2>1. Sent("init", c) /\ Falls(Packed("init", c), Latest(c)) /\ Falls(Latest(c), Latest(c)')
    BY <1>3, <1>4 DEF FallInv
  <2>2. Packed("init", c) \in Label
    BY <1>1, <2>1 DEF Sent
  <2> QED BY <1>1, <1>2, <2>1, <2>2, FallTransitive
<1>5. ASSUME NEW c \in Cell, Covered(c)', ~ Unsettled(c)'
      PROVE  Falls(g'[c], Under(c)') /\ \A d \in Children[c] : Sent("init", d)'
  <2>1. Covered(c) /\ Falls(g[c], Under(c)) /\ \A d \in Children[c] : d \in Cell /\ Sent("init", d)
    BY <1>3, <1>5, PackedType DEF FallInv
  <2>2. Falls(Under(c), Under(c)')
    BY <2>1, UnderFalls
  <2>3. Falls(g[c], Under(c)')
    BY <1>1, <1>2, <2>1, <2>2, FallTransitive
  <2>4. Falls(g'[c], Under(c)')
    BY <1>2, <2>1, <2>3, FallReflexive
  <2> QED BY <1>3, <2>1, <2>4
<1>6. \A c \in Cell : ctl'[OwnerOf[c]].mode = "init" =>
        ~ Sent("iterate", c)' /\ (Sent("init", c)' => ctl'[OwnerOf[c]].ln <= LevelOf[c])
  BY <1>1, <1>3 DEF FallInv
<1> QED BY <1>4, <1>5, <1>6 DEF FallInv

(* What Goto leaves.                                                       *)
LEMMA Went ==
  ASSUME TypeOK, NEW r \in Rank, NEW m, NEW a, NEW l, Goto(r, m, a, l)
  PROVE  /\ ctl'[r].mode = m /\ ctl'[r].ln = l
         /\ \A q \in Rank : q # r => ctl'[q] = ctl[q]
BY DEF TypeOK, Goto

LEMMA UnderSame ==
  ASSUME NEW c \in Cell, \A d \in Children[c] : Latest(d)' = Latest(d)
  PROVE  Under(c)' = Under(c)
<1>1. Under(c)' = MinInt({Latest(d)' : d \in Children[c]})
  BY DEF Under, MinInt
<1>2. {Latest(d)' : d \in Children[c]} = {Latest(d) : d \in Children[c]}
  OBVIOUS
<1> QED BY <1>1, <1>2 DEF Under

(* The messages after Pack.                                                *)
LEMMA PackFacts ==
  ASSUME TypeOK, NEW m \in Mode \cup {"fill"}, NEW ln \in Level, NEW r \in Rank, NEW L,
         Pack(<<m, ln>>, r, L)
  PROVE  \A c \in Cell, n \in Mode \cup {"fill"} :
           Packed(n, c)' = IF n = m /\ LevelOf[c] = ln /\ OwnerOf[c] = r /\ LevelOf[c] \in L
                           THEN g[c] ELSE Packed(n, c)
<1> SUFFICES ASSUME NEW c \in Cell, NEW n \in Mode \cup {"fill"}
             PROVE  Packed(n, c)' = IF n = m /\ LevelOf[c] = ln /\ OwnerOf[c] = r /\ LevelOf[c] \in L
                                    THEN g[c] ELSE Packed(n, c)
  OBVIOUS
<1>1. <<m, ln>> \in Tag /\ <<n, LevelOf[c]>> \in Tag /\ LevelOf[c] \in Level
  BY PackedType DEF Tag, Mode
<1>2. msg \in [Tag -> [Cell -> Label \cup {NotSent}]]
  BY DEF TypeOK, Label
<1>3. <<n, LevelOf[c]>> = <<m, ln>> <=> n = m /\ LevelOf[c] = ln
  OBVIOUS
<1>4. CASE n = m /\ LevelOf[c] = ln
  BY <1>1, <1>2, <1>4 DEF Pack, Packed
<1>5. CASE ~ (n = m /\ LevelOf[c] = ln)
  BY <1>1, <1>2, <1>3, <1>5 DEF Pack, Packed
<1> QED BY <1>4, <1>5

(* Nothing that matters has changed.                                       *)
LEMMA LoopSame ==
  ASSUME TypeOK, TypeOK', FallInv, UNCHANGED g,
         \A r \in Rank : ctl'[r].mode = ctl[r].mode,
         \A r \in Rank : ctl[r].mode = "init" => ctl'[r].ln = ctl[r].ln,
         \A c \in Cell : Packed("init", c)' = Packed("init", c),
         \A c \in Cell : Packed("iterate", c)' = Packed("iterate", c)
  PROVE  FallInv'
<1>1. \A c \in Cell : /\ OwnerOf[c] \in Rank /\ Latest(c) \in Label
                      /\ Sent("iterate", c)' <=> Sent("iterate", c)
                      /\ Latest(c)' = Latest(c)
  BY PackedType DEF Sent, Latest
<1>2. /\ \A c \in Cell : ctl[OwnerOf[c]].mode = "init" => ~ Sent("iterate", c)'
      /\ \A c \in Cell : Sent("iterate", c)' => Falls(Packed("iterate", c)', g'[c])
  BY <1>1 DEF FallInv
<1>3. \A c \in Cell : Falls(Latest(c), Latest(c)')
  BY <1>1, FallReflexive
<1> QED BY <1>2, <1>3, LoopStep

LEMMA FallFill ==
  ASSUME TypeOK, TypeOK', FallInv, Looping, NEW r \in Rank, Fill(r)
  PROVE  Looping' /\ FallInv'
<1>1. ctl[r].mode = "iterate" /\ ctl[r].ln \in Level
  BY ControlFacts DEF Fill
<1>2. /\ ctl'[r].mode = "iterate" /\ \A q \in Rank : q # r => ctl'[q] = ctl[q]
      /\ UNCHANGED g
  BY Went DEF Fill
<1>3. Pack(<<"fill", ctl[r].ln>>, r, {ctl[r].ln, ctl[r].ln - 1})
  BY DEF Fill
<1>4. \A c \in Cell : /\ Packed("init", c)' = Packed("init", c)
                      /\ Packed("iterate", c)' = Packed("iterate", c)
  BY <1>1, <1>3, PackFacts DEF Mode
<1> QED BY <1>1, <1>2, <1>4, LoopSame DEF Looping

LEMMA FallEndSweep ==
  ASSUME TypeOK, TypeOK', FallInv, Looping, NEW r \in Rank, EndSweep(r)
  PROVE  Looping' /\ FallInv'
<1>1. ctl[r].mode = "iterate"
  BY ControlFacts DEF EndSweep
<1>2. /\ ctl'[r].mode = "iterate" /\ \A q \in Rank : q # r => ctl'[q] = ctl[q]
      /\ UNCHANGED <<g, msg>>
  BY Went DEF EndSweep
<1>3. \A c \in Cell : /\ Packed("init", c)' = Packed("init", c)
                      /\ Packed("iterate", c)' = Packed("iterate", c)
  BY <1>2 DEF Packed
<1> QED BY <1>1, <1>2, <1>3, LoopSame DEF Looping

LEMMA FallSweepCell ==
  ASSUME TypeOK, TypeOK', FallInv, Looping, NEW r \in Rank, SweepCell(r)
  PROVE  /\ Looping' /\ FallInv'
         /\ \A c \in Cell : Falls(g[c], g'[c])
<1> DEFINE s == Order[r][ctl[r].ln][ctl[r].k]
<1>1. ctl[r].mode = "iterate" /\ s \in Cell
  BY ControlFacts, SweptCell DEF SweepCell
<1>2. /\ ctl'[r].mode = "iterate" /\ \A q \in Rank : q # r => ctl'[q] = ctl[q]
      /\ UNCHANGED msg /\ g' = [g EXCEPT ![s] = SweptLabel(s)]
  BY <1>1 DEF SweepCell, TypeOK
<1>3. g[s] \in Label /\ (SweptLabel(s) = g[s] \/ (~ Covered(s) /\ Falls(g[s], SweptLabel(s))))
  <2> HIDE DEF s
  <2>1. g[s] \in Label
    BY <1>1, PackedType
  <2> QED BY <1>1, <2>1, SweptLabelFacts DEF Falls, Label, None
<1>4. \A c \in Cell : /\ g[c] \in Label /\ g'[c] \in Label
                      /\ Falls(g[c], g'[c]) /\ (Covered(c) => g'[c] = g[c])
  <2>1. g \in [Cell -> Label] /\ g' \in [Cell -> Label]
    BY DEF TypeOK, Label
  <2> HIDE DEF s
  <2> QED BY <1>1, <1>2, <1>3, <2>1, FallReflexive
<1> HIDE DEF s
<1>5. \A c \in Cell : /\ Packed("init", c)' = Packed("init", c)
                      /\ Packed("iterate", c)' = Packed("iterate", c)
                      /\ Sent("iterate", c)' <=> Sent("iterate", c)
                      /\ Packed("iterate", c) \in Label \cup {NotSent}
  BY <1>2, PackedType DEF Packed, Sent, Mode
<1>6. \A c \in Cell : Sent("iterate", c)' => Falls(Packed("iterate", c)', g'[c])
  <2> SUFFICES ASSUME NEW c \in Cell, Sent("iterate", c)'
               PROVE  Falls(Packed("iterate", c)', g'[c])
    OBVIOUS
  <2>1. Falls(Packed("iterate", c), g[c]) /\ Packed("iterate", c) \in Label
    BY <1>5 DEF FallInv, Sent
  <2> QED BY <1>4, <1>5, <2>1, FallTransitive
<1>7. \A c \in Cell : Falls(Latest(c), Latest(c)')
  BY <1>4, <1>5, FallReflexive DEF Latest, Sent
<1>8. \A c \in Cell : ctl[OwnerOf[c]].mode = "init" => ~ Sent("iterate", c)'
  BY <1>5 DEF FallInv
<1>9. \A q \in Rank : /\ ctl'[q].mode = ctl[q].mode
                      /\ ctl[q].mode = "init" => ctl'[q].ln = ctl[q].ln
  BY <1>1, <1>2
<1>10. FallInv'
  BY <1>4, <1>5, <1>6, <1>7, <1>8, <1>9, LoopStep
<1> QED BY <1>4, <1>9, <1>10 DEF Looping

LEMMA FallSend ==
  ASSUME TypeOK, TypeOK', FallInv, Looping, NEW r \in Rank, Send(r)
  PROVE  Looping' /\ FallInv'
<1> DEFINE m == ctl[r].mode
           ln == ctl[r].ln
<1>1. m \in {"init", "iterate"} /\ ln \in Level
  BY ControlFacts DEF Send, Looping, Mode
<1>2. /\ UNCHANGED g
      /\ \A q \in Rank : ctl'[q].mode = ctl[q].mode /\ ctl'[q].ln = ctl[q].ln
  BY Went DEF Send
<1>3. Pack(<<m, ln>>, r, {ln})
  BY DEF Send
<1> HIDE DEF m, ln
<1>4. \A c \in Cell, n \in {"init", "iterate"} :
        Packed(n, c)' = IF n = m /\ LevelOf[c] = ln /\ OwnerOf[c] = r THEN g[c] ELSE Packed(n, c)
  BY <1>1, <1>3, PackFacts DEF Mode
<1>5. \A c \in Cell : /\ OwnerOf[c] \in Rank /\ g[c] \in Label /\ Latest(c) \in Label
                      /\ Falls(g[c], g[c]) /\ Falls(Latest(c), Latest(c))
                      /\ \A d \in Children[c] : d \in Cell
  BY PackedType, FallReflexive
<1>6. CASE m = "iterate"
  <2>1. \A c \in Cell : /\ Packed("init", c)' = Packed("init", c)
                        /\ Packed("iterate", c)' = IF LevelOf[c] = ln /\ OwnerOf[c] = r
                                                   THEN g[c] ELSE Packed("iterate", c)
    BY <1>4, <1>6
  <2>2. \A c \in Cell : ctl[OwnerOf[c]].mode = "init" => ~ Sent("iterate", c)'
    BY <1>6, <2>1 DEF FallInv, Sent, m
  <2>3. \A c \in Cell : Sent("iterate", c)' => Falls(Packed("iterate", c)', g'[c])
    BY <1>2, <1>5, <2>1 DEF FallInv, Sent
  <2>4. \A c \in Cell : Falls(Latest(c), Latest(c)')
    <3> SUFFICES ASSUME NEW c \in Cell PROVE Falls(Latest(c), Latest(c)')
      OBVIOUS
    <3>1. CASE LevelOf[c] = ln /\ OwnerOf[c] = r
      <4>1. Latest(c)' = g[c]
        BY <1>2, <2>1, <3>1 DEF Latest
      <4>2. Falls(Latest(c), g[c])
        BY <1>5 DEF FallInv, Latest
      <4> QED BY <4>1, <4>2
    <3>2. CASE ~ (LevelOf[c] = ln /\ OwnerOf[c] = r)
      BY <1>2, <1>5, <2>1, <3>2 DEF Latest, Sent
    <3> QED BY <3>1, <3>2
  <2>5. FallInv'
    BY <1>2, <2>1, <2>2, <2>3, <2>4, LoopStep
  <2> QED BY <1>2, <2>5 DEF Looping
<1>7. CASE m = "init"
  <2>1. \A c \in Cell : /\ Packed("iterate", c)' = Packed("iterate", c)
                        /\ Packed("init", c)' = IF LevelOf[c] = ln /\ OwnerOf[c] = r
                                                THEN g[c] ELSE Packed("init", c)
    BY <1>4, <1>7
  <2>2. \A c \in Cell : /\ Sent("iterate", c)' <=> Sent("iterate", c)
                        /\ Sent("init", c) => Sent("init", c)'
                        /\ Latest(c)' = Latest(c)
    BY <1>2, <1>5, <2>1 DEF Sent, Latest, NotSent, Label, None
  <2>3. \A c \in Cell : Under(c)' = Under(c) /\ (Unsettled(c)' <=> Unsettled(c))
                          /\ (Covered(c)' <=> Covered(c))
    <3>1. \A c \in Cell : Under(c)' = Under(c)
      BY <1>5, <2>2, UnderSame
    <3>2. \A c \in Cell : (Unsettled(c)' <=> Unsettled(c)) /\ (Covered(c)' <=> Covered(c))
      BY <1>2, <1>5 DEF Unsettled, Covered
    <3> QED BY <3>1, <3>2
  <2>4. \A c \in Cell : Sent("init", c)' => Falls(Packed("init", c)', Latest(c)')
    <3> SUFFICES ASSUME NEW c \in Cell, Sent("init", c)'
                 PROVE  Falls(Packed("init", c)', Latest(c))
      BY <2>2
    <3>1. CASE LevelOf[c] = ln /\ OwnerOf[c] = r
      <4>1. Latest(c) = g[c]
        BY <1>7, <3>1 DEF FallInv, Latest, m
      <4> QED BY <1>5, <2>1, <3>1, <4>1
    <3>2. CASE ~ (LevelOf[c] = ln /\ OwnerOf[c] = r)
      BY <2>1, <3>2 DEF FallInv, Sent
    <3> QED BY <3>1, <3>2
  <2>5. \A c \in Cell : ctl'[OwnerOf[c]].mode = "init" =>
          ~ Sent("iterate", c)' /\ (Sent("init", c)' => ctl'[OwnerOf[c]].ln <= LevelOf[c])
    <3> SUFFICES ASSUME NEW c \in Cell, ctl'[OwnerOf[c]].mode = "init"
                 PROVE  /\ ~ Sent("iterate", c)'
                        /\ Sent("init", c)' => ctl'[OwnerOf[c]].ln <= LevelOf[c]
      OBVIOUS
    <3>1. ctl[OwnerOf[c]].mode = "init" /\ ctl'[OwnerOf[c]].ln = ctl[OwnerOf[c]].ln
      BY <1>2, <1>5
    <3>2. CASE LevelOf[c] = ln /\ OwnerOf[c] = r
      <4>1. ln <= LevelOf[c]
        BY <3>2, PackedType
      <4> QED BY <2>2, <3>1, <3>2, <4>1 DEF FallInv, ln
    <3>3. CASE ~ (LevelOf[c] = ln /\ OwnerOf[c] = r)
      BY <2>1, <2>2, <3>1, <3>3 DEF FallInv, Sent
    <3> QED BY <3>2, <3>3
  <2>6. \A c \in Cell : Covered(c)' /\ ~ Unsettled(c)' =>
          Falls(g'[c], Under(c)') /\ \A d \in Children[c] : Sent("init", d)'
    BY <1>2, <1>5, <2>2, <2>3 DEF FallInv
  <2>7. \A c \in Cell : Sent("iterate", c)' => Falls(Packed("iterate", c)', g'[c])
    BY <1>2, <2>1, <2>2 DEF FallInv
  <2>8. FallInv'
    BY <2>4, <2>5, <2>6, <2>7 DEF FallInv
  <2> QED BY <1>2, <2>8 DEF Looping
<1> QED BY <1>1, <1>6, <1>7

LEMMA FallCoarsen ==
  ASSUME TypeOK, TypeOK', FallInv, Looping, NEW r \in Rank, Coarsen(r)
  PROVE  /\ Looping' /\ FallInv'
         /\ \A c \in Cell : ctl[OwnerOf[c]].mode = "iterate" => Falls(g[c], g'[c])
<1> DEFINE m == ctl[r].mode
           ln == ctl[r].ln
           Target(c) == c \in Cell /\ OwnerOf[c] = r /\ LevelOf[c] = ln - 1 /\ Covered(c)
<1>1. m \in {"init", "iterate"} /\ ln \in 1 .. MaxLn /\ ln \in Nat /\ ln - 1 \in Level
  BY ControlFacts DEF Coarsen, Looping, Mode, Level
<1>2. \A c \in Cell : /\ OwnerOf[c] \in Rank /\ LevelOf[c] \in Nat
                      /\ g[c] \in Label /\ Latest(c) \in Label /\ Falls(g[c], g[c])
                      /\ Packed("init", c) \in Label \cup {NotSent}
                      /\ Packed("iterate", c) \in Label \cup {NotSent}
                      /\ \A d \in Children[c] : d \in Cell /\ LevelOf[d] = LevelOf[c] + 1
  BY PackedType, FallReflexive DEF Mode
<1>3. /\ UNCHANGED msg
      /\ \A c \in Cell : g'[c] = IF Target(c) THEN MinInt({Packed(m, d) : d \in Children[c]}) ELSE g[c]
      /\ \A c \in Cell : Target(c) => \A d \in Children[c] : Sent(m, d)
  <2>1. Own[r][ln - 1] = {c \in Cell : OwnerOf[c] = r /\ LevelOf[c] = ln - 1}
    BY <1>1 DEF Own
  <2>2. \A c \in Cell : c \in {e \in Own[r][ln - 1] : Covered(e)} <=> Target(c)
    BY <2>1
  <2>3. ASSUME NEW c \in Cell, Target(c), NEW d \in Children[c]
        PROVE  Packed(m, d) = msg[<<m, ln>>][d]
    <3>1. LevelOf[d] = ln
      <4> HIDE DEF ln
      <4> QED BY <1>1, <1>2, <2>3
    <3> QED BY <3>1 DEF Packed
  <2>4. UNCHANGED msg /\ \A c \in {e \in Own[r][ln - 1] : Covered(e)} :
          \A d \in Children[c] : msg[<<m, ln>>][d] # NotSent
    BY DEF Coarsen
  <2>5. g' = [c \in Cell |-> IF c \in {e \in Own[r][ln - 1] : Covered(e)}
                            THEN MinInt({msg[<<m, ln>>][d] : d \in Children[c]}) ELSE g[c]]
    BY DEF Coarsen
  <2> HIDE DEF Target, m, ln
  <2>6. ASSUME NEW c \in Cell, Target(c)
        PROVE  {Packed(m, d) : d \in Children[c]} = {msg[<<m, ln>>][d] : d \in Children[c]}
    BY <2>3, <2>6
  <2>7. \A c \in Cell : g'[c] = IF Target(c) THEN MinInt({Packed(m, d) : d \in Children[c]}) ELSE g[c]
    BY <2>2, <2>5, <2>6
  <2> QED BY <2>2, <2>3, <2>4, <2>7 DEF Sent
<1>4. /\ \A q \in Rank : q # r => ctl'[q] = ctl[q]
      /\ m = "iterate" => ctl'[r].mode = "iterate"
      /\ m = "init" => \/ ctl'[r].mode = "init" /\ ctl'[r].ln = ln - 1
                       \/ ctl'[r].mode = "iterate" /\ ln = 1
  BY <1>1, Went DEF Coarsen, AfterCoarsen
<1>5. Looping'
  BY <1>1, <1>4 DEF Looping
<1>6. \A c \in Cell, n \in {"init", "iterate"} :
        Packed(n, c)' = Packed(n, c) /\ (Sent(n, c)' <=> Sent(n, c))
  BY <1>3 DEF Packed, Sent
<1>7. CASE m = "iterate"
  <2>1. ASSUME NEW c \in Cell, Target(c)
        PROVE  g'[c] = Under(c) /\ Falls(g[c], g'[c])
    <3>1. {Packed(m, d) : d \in Children[c]} = {Latest(d) : d \in Children[c]}
      BY <1>3, <1>7, <2>1 DEF Latest
    <3>2. g'[c] = Under(c)
      BY <1>3, <2>1, <3>1 DEF Under
    <3>3. Covered(c) /\ ~ Unsettled(c)
      BY <1>7, <2>1 DEF Unsettled
    <3> QED BY <3>2, <3>3 DEF FallInv
  <2> HIDE DEF Target, m, ln
  <2>2. \A c \in Cell : Falls(g[c], g'[c]) /\ g'[c] \in Label
    <3>1. \A c \in Cell : g'[c] \in Label
      BY DEF TypeOK, Label
    <3> QED BY <1>2, <1>3, <2>1, <3>1
  <2>3. \A c \in Cell : Falls(Latest(c), Latest(c)')
    BY <1>2, <1>6, <2>2, FallReflexive DEF Latest, Sent
  <2>4. \A c \in Cell : Sent("iterate", c)' => Falls(Packed("iterate", c)', g'[c])
    <3> SUFFICES ASSUME NEW c \in Cell, Sent("iterate", c)'
                 PROVE  Falls(Packed("iterate", c)', g'[c])
      OBVIOUS
    <3>1. Falls(Packed("iterate", c), g[c]) /\ Packed("iterate", c) \in Label
      BY <1>2, <1>6 DEF FallInv, Sent
    <3> QED BY <1>2, <1>6, <2>2, <3>1, FallTransitive
  <2>5. ASSUME NEW c \in Cell, Target(c) PROVE Under(c)' = Under(c)
    <3>1. \A d \in Children[c] : d \in Cell /\ Sent("iterate", d)
      BY <1>2, <1>3, <1>7, <2>5
    <3>2. \A d \in Children[c] : Latest(d)' = Latest(d)
      BY <1>6, <3>1 DEF Latest
    <3> QED BY <3>2, UnderSame
  <2>6. \A c \in Cell : Covered(c) => g'[c] = g[c] \/ g'[c] = Under(c)'
    BY <1>3, <2>1, <2>5
  <2>7. \A c \in Cell : ctl[OwnerOf[c]].mode = "init" => ~ Sent("iterate", c)'
    BY <1>6 DEF FallInv
  <2>8. \A q \in Rank : /\ ctl'[q].mode = "init" <=> ctl[q].mode = "init"
                        /\ ctl[q].mode = "init" => ctl'[q].ln = ctl[q].ln
    BY <1>4, <1>7 DEF m
  <2>9. FallInv'
    BY <1>6, <2>3, <2>4, <2>6, <2>7, <2>8, LoopStep
  <2> QED BY <1>5, <2>2, <2>9
<1>8. CASE m = "init"
  <2>1. \A c \in Cell : Target(c) => ~ Sent("init", c) /\ ~ Sent("iterate", c)
    BY <1>1, <1>8 DEF FallInv
  <2>2. \A c \in Cell : ~ Target(c) => g'[c] = g[c] /\ Latest(c)' = Latest(c)
    BY <1>3, <1>6 DEF Latest
  <2>3. \A c \in Cell : Sent("iterate", c)' => Falls(Packed("iterate", c)', g'[c])
    BY <1>6, <2>1, <2>2 DEF FallInv
  <2>4. \A c \in Cell : Sent("init", c)' => Falls(Packed("init", c)', Latest(c)')
    BY <1>6, <2>1, <2>2 DEF FallInv
  <2>5. \A c \in Cell : ctl'[OwnerOf[c]].mode = "init" =>
          ~ Sent("iterate", c)' /\ (Sent("init", c)' => ctl'[OwnerOf[c]].ln <= LevelOf[c])
    BY <1>1, <1>2, <1>4, <1>6, <1>8 DEF FallInv
  <2>6. ASSUME NEW c \in Cell, Covered(c)', ~ Unsettled(c)'
        PROVE  Falls(g'[c], Under(c)') /\ \A d \in Children[c] : Sent("init", d)'
    <3>1. Covered(c)
      BY <2>6 DEF Covered
    <3>2. CASE Target(c)
      <4>1. \A d \in Children[c] : d \in Cell /\ Sent("init", d) /\ ~ Target(d)
        BY <1>1, <1>2, <1>3, <1>8, <3>2
      <4> DEFINE S == Children[c]
                 f == [d \in S |-> Packed("init", d)]
                 h == [d \in S |-> Latest(d)]
      <4>2. \A d \in S : /\ Packed("init", d) \in Label /\ Latest(d) \in Label
                         /\ Falls(Packed("init", d), Latest(d))
        BY <1>2, <4>1 DEF FallInv, Sent
      <4>3. f \in [S -> Label] /\ h \in [S -> Label] /\ \A d \in S : Falls(f[d], h[d])
        BY <4>2
      <4>4. Falls(MinInt({f[d] : d \in S}), MinInt({h[d] : d \in S}))
        <5> HIDE DEF f, h, S
        <5> QED BY <4>3, MinIntFalls
      <4>5. {f[d] : d \in S} = {Packed("init", d) : d \in S} /\ {h[d] : d \in S} = {Latest(d)' : d \in S}
        BY <2>2, <4>1
      <4>6. g'[c] = MinInt({Packed("init", d) : d \in S})
        BY <1>3, <1>8, <3>2
      <4>7. Under(c)' = MinInt({Latest(d)' : d \in S})
        BY DEF Under, MinInt
      <4> QED BY <1>6, <4>1, <4>4, <4>5, <4>6, <4>7
    <3>3. CASE ~ Target(c)
      <4>1. ~ Unsettled(c)
        BY <1>1, <1>2, <1>4, <1>8, <2>6, <3>1, <3>3 DEF Unsettled, Covered
      <4>2. Falls(g[c], Under(c)) /\ \A d \in Children[c] : d \in Cell /\ Sent("init", d)
        BY <1>2, <3>1, <4>1 DEF FallInv
      <4>3. \A d \in Children[c] : Latest(d)' = Latest(d)
        BY <2>1, <2>2, <4>2
      <4>4. Under(c)' = Under(c)
        BY <4>3, UnderSame
      <4> QED BY <1>6, <2>2, <3>3, <4>2, <4>4
    <3> QED BY <3>2, <3>3
  <2>7. FallInv'
    BY <2>3, <2>4, <2>5, <2>6 DEF FallInv
  <2>8. \A c \in Cell : ctl[OwnerOf[c]].mode = "iterate" => Falls(g[c], g'[c])
    BY <1>2, <1>8, <2>2
  <2> QED BY <1>5, <2>7, <2>8
<1> QED BY <1>1, <1>7, <1>8

LEMMA FallAllReduce ==
  ASSUME TypeOK, TypeOK', FallInv, Looping, AllReduce
  PROVE  UNCHANGED g /\ LoopInv'
<1>1. PICK more \in {Rank, {}} : NextIteration(more)
  BY DEF AllReduce
<1>2. UNCHANGED g /\ \A r \in Rank : ctl[r].mode = "iterate"
  BY <1>1, ControlFacts DEF NextIteration
<1>3. CASE more = {}
  BY <1>1, <1>2, <1>3 DEF NextIteration, LoopInv
<1>4. CASE more = Rank
  <2>1. \A r \in Rank : ctl'[r].mode = "iterate"
    BY <1>1, <1>4 DEF NextIteration
  <2>2. \A c \in Cell : /\ Packed("init", c)' = Packed("init", c) /\ ~ Sent("iterate", c)'
                        /\ OwnerOf[c] \in Rank /\ g[c] \in Label
    <3> SUFFICES ASSUME NEW c \in Cell
                 PROVE  /\ Packed("init", c)' = Packed("init", c) /\ ~ Sent("iterate", c)'
                        /\ OwnerOf[c] \in Rank /\ g[c] \in Label
      OBVIOUS
    <3>1. <<"init", LevelOf[c]>> \in Tag /\ <<"iterate", LevelOf[c]>> \in Tag
      BY PackedType DEF Mode
    <3>2. msg' = [t \in Tag |-> IF t[1] \in {"fill", "iterate"}
                               THEN [e \in Cell |-> NotSent] ELSE msg[t]]
      BY <1>1 DEF NextIteration
    <3> QED BY <3>1, <3>2, PackedType DEF Packed, Sent
  <2>3. \A c \in Cell : Falls(Latest(c), Latest(c)')
    <3> SUFFICES ASSUME NEW c \in Cell PROVE Falls(Latest(c), Latest(c)')
      OBVIOUS
    <3>1. Latest(c)' = g[c]
      BY <1>2, <2>2 DEF Latest
    <3> QED BY <2>2, <3>1, FallReflexive DEF FallInv, Latest
  <2>4. FallInv'
    BY <1>2, <2>1, <2>2, <2>3, LoopStep
  <2> QED BY <1>2, <2>1, <2>4 DEF LoopInv, Looping
<1> QED BY <1>1, <1>3, <1>4

LEMMA FallInit == TypeOK /\ Init => FallInv /\ Looping
<1> SUFFICES ASSUME TypeOK, Init PROVE FallInv /\ Looping
  OBVIOUS
<1>1. \A c \in Cell : ~ Sent("init", c) /\ ~ Sent("iterate", c) /\ OwnerOf[c] \in Rank
  BY PackedType DEF Init, Packed, Sent, Mode
<1>2. Looping
  BY DEF Init, Looping
<1>3. ASSUME NEW c \in Cell, Covered(c) PROVE Unsettled(c)
  <2>1. PICK d \in Children[c] : d \in Cell /\ LevelOf[d] = LevelOf[c] + 1
    BY <1>3, PackedType DEF Covered
  <2>2. LevelOf[d] \in 0 .. MaxLn /\ LevelOf[c] \in Nat /\ MaxLn \in Nat
    BY <2>1, PackedType, HierarchyAssumption DEF Level
  <2>3. MaxLn > 0 /\ MaxLn > LevelOf[c]
    BY <2>1, <2>2
  <2>4. ctl[OwnerOf[c]] = [mode |-> "init", at |-> "send", ln |-> MaxLn, k |-> 1]
    BY <1>1, <2>3 DEF Init
  <2> QED BY <1>3, <2>3, <2>4 DEF Unsettled
<1> QED BY <1>1, <1>2, <1>3 DEF FallInv

(* Ranks past the loop stay there.                                         *)
LEMMA FinalStays ==
  ASSUME TypeOK, [Next]_vars, \A r \in Rank : ctl[r].mode = "final"
  PROVE  \A r \in Rank : ctl'[r].mode = "final"
<1>1. ASSUME NEW r \in Rank, RankStep(r) PROVE \A q \in Rank : ctl'[q].mode = "final"
  <2>1. CASE Send(r)
    BY <2>1, Went DEF Send
  <2>2. CASE Coarsen(r)
    BY <2>2, Went DEF Coarsen, AfterCoarsen
  <2>3. CASE Fill(r) \/ SweepCell(r) \/ EndSweep(r)
    BY <2>3, ControlFacts DEF Fill, SweepCell, EndSweep
  <2>4. CASE Renumber(r)
    BY <2>4, Went DEF Renumber
  <2> QED BY <1>1, <2>1, <2>2, <2>3, <2>4 DEF RankStep
<1>2. CASE AllReduce
  <2>1. Rank = {}
    BY <1>2, ControlFacts DEF AllReduce, NextIteration
  <2> QED BY <2>1
<1>3. CASE Gather
  BY <1>3 DEF Gather
<1>4. CASE UNCHANGED vars
  BY <1>4 DEF vars
<1> QED BY <1>1, <1>2, <1>3, <1>4 DEF Next

(* What a step does, with the invariant and the property together.         *)
LEMMA FallNext ==
  ASSUME TypeOK, TypeOK', LoopInv, [Next]_vars
  PROVE  /\ LoopInv'
         /\ \A c \in Cell :
              ctl[OwnerOf[c]].mode = "iterate" /\ ctl'[OwnerOf[c]].mode = "iterate"
                => g'[c] <= g[c] /\ (g[c] >= 0 => g'[c] >= 0)
<1> DEFINE Only == \A c \in Cell : ctl[OwnerOf[c]].mode = "iterate" => Falls(g[c], g'[c])
<1>1. ASSUME Only
      PROVE  \A c \in Cell :
               ctl[OwnerOf[c]].mode = "iterate" /\ ctl'[OwnerOf[c]].mode = "iterate"
                 => g'[c] <= g[c] /\ (g[c] >= 0 => g'[c] >= 0)
  BY <1>1 DEF Falls
<1>2. (\A c \in Cell : g'[c] = g[c]) => Only
  BY PackedType, FallReflexive
<1>3. CASE Looping /\ FallInv
  <2>1. ASSUME NEW r \in Rank, RankStep(r) PROVE LoopInv' /\ Only
    <3>1. CASE Send(r)
      BY <1>2, <1>3, <3>1, FallSend DEF Send, LoopInv
    <3>2. CASE Coarsen(r)
      BY <1>3, <3>2, FallCoarsen DEF LoopInv
    <3>3. CASE Fill(r)
      BY <1>2, <1>3, <3>3, FallFill DEF Fill, LoopInv
    <3>4. CASE SweepCell(r)
      BY <1>3, <3>4, FallSweepCell DEF LoopInv
    <3>5. CASE EndSweep(r)
      BY <1>2, <1>3, <3>5, FallEndSweep DEF EndSweep, LoopInv
    <3>6. CASE Renumber(r)
      BY <1>3, <3>6, ControlFacts DEF Renumber, Looping
    <3> QED BY <2>1, <3>1, <3>2, <3>3, <3>4, <3>5, <3>6 DEF RankStep
  <2>2. CASE AllReduce
    BY <1>1, <1>2, <1>3, <2>2, FallAllReduce
  <2>3. CASE Gather
    <3>1. UNCHANGED g /\ \A r \in Rank : ctl'[r].mode = "final"
      BY <2>3 DEF Gather
    <3> QED BY <1>1, <1>2, <3>1 DEF LoopInv
  <2>4. CASE UNCHANGED vars
    <3>2. \A c \in Cell : /\ Packed("init", c)' = Packed("init", c)
                          /\ Packed("iterate", c)' = Packed("iterate", c)
      BY <2>4 DEF vars, Packed
    <3>3. UNCHANGED <<g, ctl>>
      BY <2>4 DEF vars
    <3>4. FallInv' /\ Looping'
      BY <1>3, <3>2, <3>3, LoopSame DEF Looping
    <3> QED BY <1>1, <1>2, <3>3, <3>4 DEF LoopInv
  <2> QED BY <1>1, <2>1, <2>2, <2>3, <2>4 DEF Next
<1>4. CASE \A r \in Rank : ctl[r].mode = "final"
  <2>1. \A r \in Rank : ctl'[r].mode = "final"
    BY <1>4, FinalStays
  <2>2. \A c \in Cell : ctl[OwnerOf[c]].mode = "final"
    BY <1>4, PackedType
  <2> QED BY <2>1, <2>2 DEF LoopInv
<1> QED BY <1>3, <1>4 DEF LoopInv

(***************************************************************************)
(* While the grains are filled no label rises and no cell leaves its       *)
(* grain, on any hierarchy and in any order of the ranks, covered coarse   *)
(* cells included.  (the loop of findAndNumberGrains with MinIntCoarsen)   *)
(***************************************************************************)
THEOREM LabelsNeverRise == Spec => LabelsOnlyFall
<1> DEFINE Fallen == \A c \in Cell :
                       ctl[OwnerOf[c]].mode = "iterate" /\ ctl'[OwnerOf[c]].mode = "iterate"
                         => g'[c] <= g[c] /\ (g[c] >= 0 => g'[c] >= 0)
<1>1. TypeOK /\ TypeOK' /\ LoopInv /\ [Next]_vars => LoopInv' /\ [Fallen]_vars
  BY FallNext
<1>2. TypeOK /\ Init => LoopInv
  BY FallInit DEF LoopInv
<1> QED BY <1>1, <1>2, TypeCorrect, PTL DEF Spec, LabelsOnlyFall

-----------------------------------------------------------------------------
(***************************************************************************)
(* SameGrainSameNumber.  When a whole iteration has changed nothing, every *)
(* cell has seen labels that its neighbours still have, and none below its *)
(* own.  A fine cell sees a coarse neighbour itself, the coarse cell sees  *)
(* the covered cell above the fine one: what that holds, and what was      *)
(* packed of it, must not be above the labels under it.                    *)
(***************************************************************************)

Leaf(c) == c \in Cell /\ ~ Covered(c)

(* A cell of a grain on a rank that has changed nothing in this iteration. *)
Quiet(c) == Leaf(c) /\ g[c] >= 0 /\ ~ changed[OwnerOf[c]]

FillOf(t, c) == msg[<<"fill", t>>][c]

Place(c) == ctl[OwnerOf[c]]

(* The owner has packed the cell in this iteration.                        *)
Past(c) ==
  /\ Place(c).mode = "iterate"
  /\ \/ Place(c).at = "reduce" \/ Place(c).ln > LevelOf[c]
     \/ Place(c).ln = LevelOf[c] /\ Place(c).at = "recv"

(* The owner has given the covered cell its label in this iteration.       *)
Taken(c) ==
  Place(c).mode = "iterate" /\ (Place(c).at = "reduce" \/ Place(c).ln > LevelOf[c] + 1)

(* The owner has swept the cell in this iteration.                         *)
Swept(c) ==
  /\ Place(c).mode = "iterate"
  /\ \/ Place(c).at = "reduce" \/ Place(c).ln > LevelOf[c]
     \/ Place(c).ln = LevelOf[c] /\ Place(c).at \in {"send", "recv"}
     \/ /\ Place(c).ln = LevelOf[c] /\ Place(c).at = "sweep"
        /\ \E i \in DOMAIN Order[OwnerOf[c]][LevelOf[c]] :
             i < Place(c).k /\ Order[OwnerOf[c]][LevelOf[c]][i] = c

(* The cells whose labels it sees, in them or above them.                  *)
Peers(c) == {e \in Cell : e \in Reads[c] \/ \E b \in Reads[c] : e \in Children[b]}

(* What was packed before the loop is old only after the first iteration.  *)
InitPart ==
  /\ \A r \in Rank : ctl[r].mode = "init" => counter = 0
  /\ \A c \in Cell : Quiet(c) /\ counter = 0 /\ Sent("init", c) => Packed("init", c) = g[c]

(* A quiet cell is as it was packed for the ghosts, and what was packed of *)
(* a covered cell is not above the quiet cells under it.                   *)
FillPart ==
  \A t \in Level, c \in Cell : FillOf(t, c) # NotSent =>
    /\ Quiet(c) => FillOf(t, c) = g[c]
    /\ \A e \in Children[c] : Quiet(e) => 0 <= FillOf(t, c) /\ FillOf(t, c) <= g[e]

(* A cell packed for the coarser level stays as it is to the end of the    *)
(* iteration, and so stays above what the covered cell takes.              *)
SentPart ==
  /\ \A c \in Cell : Sent("iterate", c) => Past(c) /\ (Leaf(c) => Packed("iterate", c) = g[c])
  /\ \A c \in Cell : \A e \in Children[c] : Taken(c) /\ Leaf(e) /\ g[e] >= 0 =>
       Sent("iterate", e) /\ g[c] <= g[e]

CoveredPart ==
  \A c \in Cell : \A e \in Children[c] : Quiet(e) /\ ~ Unsettled(c) => g[c] <= g[e]

SweptPart ==
  /\ \A c \in Cell : \A e \in Peers(c) : Quiet(c) /\ Swept(c) /\ Quiet(e) => g[c] <= g[e]
  /\ \A r \in Rank : ctl[r].at = "sweep" => ctl[r].k \in 1 .. Len(Order[r][ctl[r].ln]) + 1

IterInv == InitPart /\ FillPart /\ SentPart /\ CoveredPart /\ SweptPart

(* The grains keep their cells.                                            *)
SolidInv == \A c \in Cell : ~ Covered(c) => (g[c] >= 0 <=> c \in solid)

(* The owner has not yet given its cells their final numbers.              *)
Old(c) == Place(c).at \in {"gather", "renumber"}

(* Cells that touch agree, or will when both are renumbered.               *)
AgreeInv ==
  /\ (\A r \in Rank : ctl[r].at = "gather") \/ \A r \in Rank : ctl[r].at # "gather"
  /\ Converged => \A c, d \in solid : Adjacent(c, d) =>
       /\ (Old(c) <=> Old(d)) => g[c] = g[d]
       /\ Old(c) /\ ~ Old(d) => g[d] = GrainNumberMap(g[c])

SameInv ==
  /\ SolidInv
  /\ Looping => IterInv
  /\ (\A r \in Rank : ctl[r].mode = "final") => AgreeInv

(* Facts about the hierarchy.                                              *)
LEMMA CellFacts ==
  ASSUME NEW c \in Cell
  PROVE  /\ OwnerOf[c] \in Rank /\ LevelOf[c] \in Level /\ LevelOf[c] \in Nat
         /\ \A d \in Children[c] : d \in Cell /\ LevelOf[d] = LevelOf[c] + 1 /\ Covered(c)
                                   /\ LevelOf[c] + 1 \in Level /\ LevelOf[c] + 1 <= MaxLn
         /\ MaxLn \in Nat
<1>1. OwnerOf[c] \in Rank /\ LevelOf[c] \in Level /\ MaxLn \in Nat
  BY HierarchyAssumption
<1>2. ASSUME NEW d \in Children[c]
      PROVE  d \in Cell /\ LevelOf[d] = LevelOf[c] + 1 /\ LevelOf[d] \in Level /\ Covered(c)
  BY HierarchyAssumption DEF Covered
<1> QED BY <1>1, <1>2 DEF Level

LEMMA OrderType ==
  ASSUME NEW r \in Rank, NEW ln \in Level
  PROVE  Order[r][ln] \in Seq(Cell) /\ Len(Order[r][ln]) \in Nat
<1>1. Order \in [Rank -> [Level -> Seq(Cell)]]
  BY HierarchyAssumption
<1>2. Order[r] \in [Level -> Seq(Cell)]
  BY <1>1
<1>3. Order[r][ln] \in Seq(Cell)
  BY <1>2
<1> QED BY <1>3

(* What each action does to the rank, the labels and the messages.         *)
LEMMA SendFacts ==
  ASSUME TypeOK, Looping, NEW r \in Rank, Send(r)
  PROVE  /\ UNCHANGED <<g, changed, counter, solid>>
         /\ ctl[r].at = "send" /\ ctl[r].mode \in {"init", "iterate"}
         /\ ctl[r].ln \in Level /\ ctl[r].ln \in Nat
         /\ ctl'[r].at = "recv" /\ ctl'[r].mode = ctl[r].mode /\ ctl'[r].ln = ctl[r].ln
         /\ \A q \in Rank : q # r => ctl'[q] = ctl[q]
         /\ \A t \in Level, c \in Cell : FillOf(t, c)' = FillOf(t, c)
         /\ \A n \in {"init", "iterate"}, c \in Cell :
              Packed(n, c)' = IF n = ctl[r].mode /\ LevelOf[c] = ctl[r].ln /\ OwnerOf[c] = r
                              THEN g[c] ELSE Packed(n, c)
<1> DEFINE m == ctl[r].mode
           ln == ctl[r].ln
<1>1. m \in {"init", "iterate"} /\ ln \in Level /\ ln \in Nat
  BY ControlFacts, HierarchyAssumption DEF Send, Looping, Mode, Level
<1>2. Pack(<<m, ln>>, r, {ln}) /\ Goto(r, m, "recv", ln)
  BY DEF Send
<1>3. /\ ctl'[r].at = "recv" /\ ctl'[r].mode = m /\ ctl'[r].ln = ln
      /\ \A q \in Rank : q # r => ctl'[q] = ctl[q]
  BY <1>2 DEF Goto, TypeOK
<1> HIDE DEF m, ln
<1>4. \A n \in {"init", "iterate"}, c \in Cell :
        Packed(n, c)' = IF n = m /\ LevelOf[c] = ln /\ OwnerOf[c] = r THEN g[c] ELSE Packed(n, c)
  BY <1>1, <1>2, PackFacts DEF Mode
<1>5. \A t \in Level : msg'[<<"fill", t>>] = msg[<<"fill", t>>]
  <2>1. \A t \in Level : <<"fill", t>> \in Tag /\ <<"fill", t>> # <<m, ln>>
    BY <1>1 DEF Tag
  <2> QED BY <1>2, <2>1 DEF Pack, TypeOK
<1>6. \A t \in Level, c \in Cell : FillOf(t, c)' = FillOf(t, c)
  BY <1>5 DEF FillOf
<1> QED BY <1>1, <1>3, <1>4, <1>6 DEF Send, m, ln

LEMMA FillFacts ==
  ASSUME TypeOK, NEW r \in Rank, Fill(r)
  PROVE  /\ UNCHANGED <<g, changed, counter, solid>>
         /\ ctl[r].at = "fill" /\ ctl[r].mode = "iterate" /\ ctl[r].ln \in Level
         /\ ctl'[r] = [mode |-> "iterate", at |-> "sweep", ln |-> ctl[r].ln, k |-> 1]
         /\ \A q \in Rank : q # r => ctl'[q] = ctl[q]
         /\ \A n \in {"init", "iterate"}, c \in Cell : Packed(n, c)' = Packed(n, c)
         /\ \A t \in Level, c \in Cell :
              FillOf(t, c)' = IF t = ctl[r].ln /\ OwnerOf[c] = r /\ LevelOf[c] \in {t, t - 1}
                              THEN g[c] ELSE FillOf(t, c)
<1> DEFINE ln == ctl[r].ln
<1>1. ctl[r].mode = "iterate" /\ ln \in Level
  BY ControlFacts DEF Fill
<1>2. Pack(<<"fill", ln>>, r, {ln, ln - 1}) /\ Goto(r, "iterate", "sweep", ln)
  BY DEF Fill
<1>3. /\ ctl'[r] = [mode |-> "iterate", at |-> "sweep", ln |-> ln, k |-> 1]
      /\ \A q \in Rank : q # r => ctl'[q] = ctl[q]
  BY <1>2 DEF Goto, TypeOK
<1> HIDE DEF ln
<1>4. \A n \in {"init", "iterate"}, c \in Cell : Packed(n, c)' = Packed(n, c)
  BY <1>1, <1>2, PackFacts DEF Mode
<1>5. ASSUME NEW t \in Level, NEW c \in Cell
      PROVE  FillOf(t, c)' = IF t = ln /\ OwnerOf[c] = r /\ LevelOf[c] \in {t, t - 1}
                             THEN g[c] ELSE FillOf(t, c)
  <2>1. <<"fill", t>> \in Tag /\ <<"fill", ln>> \in Tag /\ (<<"fill", t>> = <<"fill", ln>> <=> t = ln)
    BY <1>1 DEF Tag
  <2>2. CASE t = ln
    BY <1>2, <2>1, <2>2 DEF Pack, FillOf, TypeOK
  <2>3. CASE t # ln
    BY <1>2, <2>1, <2>3 DEF Pack, FillOf, TypeOK
  <2> QED BY <2>2, <2>3
<1> QED BY <1>1, <1>3, <1>4, <1>5 DEF Fill, ln

LEMMA SweepFacts ==
  ASSUME TypeOK, NEW r \in Rank, SweepCell(r)
  PROVE  /\ UNCHANGED <<msg, counter, solid>>
         /\ ctl[r].at = "sweep" /\ ctl[r].mode = "iterate" /\ ctl[r].ln \in Level
         /\ ctl[r].k \in DOMAIN Order[r][ctl[r].ln] /\ HaloReady(r, ctl[r].ln)
         /\ ctl'[r] = [ctl[r] EXCEPT !.k = @ + 1]
         /\ \A q \in Rank : q # r => ctl'[q] = ctl[q] /\ changed'[q] = changed[q]
         /\ \E s \in Cell :
              /\ s = Order[r][ctl[r].ln][ctl[r].k] /\ OwnerOf[s] = r /\ LevelOf[s] = ctl[r].ln
              /\ \A c \in Cell : c # s => g'[c] = g[c]
              /\ changed'[r] = (changed[r] \/ Updates(s))
              /\ ~ Updates(s) => g'[s] = g[s]
              /\ Updates(s) => ~ Covered(s) /\ g[s] >= 0 /\ g'[s] >= 0
<1> DEFINE s == Order[r][ctl[r].ln][ctl[r].k]
<1>1. ctl[r].mode = "iterate" /\ ctl[r].ln \in Level
  BY ControlFacts DEF SweepCell
<1>2. s \in Cell /\ OwnerOf[s] = r /\ LevelOf[s] = ctl[r].ln
  BY SweptCell DEF SweepCell
<1>3. /\ g' = [g EXCEPT ![s] = SweptLabel(s)]
      /\ changed' = [changed EXCEPT ![r] = @ \/ Updates(s)]
      /\ ctl' = [ctl EXCEPT ![r].k = @ + 1]
  BY DEF SweepCell
<1> HIDE DEF s
<1>4. \A c \in Cell : c # s => g'[c] = g[c]
  BY <1>2, <1>3 DEF TypeOK
<1>5. g'[s] = SweptLabel(s) /\ changed'[r] = (changed[r] \/ Updates(s))
  BY <1>2, <1>3 DEF TypeOK
<1>6. ~ Updates(s) => SweptLabel(s) = g[s]
  BY DEF SweptLabel
<1>7. Updates(s) => ~ Covered(s) /\ g[s] >= 0 /\ SweptLabel(s) >= 0
  BY <1>2, SweptLabelFacts DEF Updates
<1>8. /\ ctl'[r] = [ctl[r] EXCEPT !.k = @ + 1]
      /\ \A q \in Rank : q # r => ctl'[q] = ctl[q] /\ changed'[q] = changed[q]
  BY <1>3 DEF TypeOK
<1> QED BY <1>1, <1>2, <1>4, <1>5, <1>6, <1>7, <1>8 DEF SweepCell, s

LEMMA EndFacts ==
  ASSUME TypeOK, NEW r \in Rank, EndSweep(r)
  PROVE  /\ UNCHANGED <<g, msg, changed, counter, solid>>
         /\ ctl[r].at = "sweep" /\ ctl[r].mode = "iterate" /\ ctl[r].ln \in Level /\ ctl[r].ln \in Nat
         /\ ctl[r].k \notin DOMAIN Order[r][ctl[r].ln]
         /\ ctl'[r].mode = "iterate" /\ ctl'[r].k = 1
         /\ \/ ctl[r].ln > 0 /\ ctl'[r].at = "send" /\ ctl'[r].ln = ctl[r].ln
            \/ ctl[r].ln = 0 /\ MaxLn > 0 /\ ctl'[r].at = "fill" /\ ctl'[r].ln = 1
            \/ ctl[r].ln = 0 /\ MaxLn = 0 /\ ctl'[r].at = "reduce" /\ ctl'[r].ln = 0
         /\ \A q \in Rank : q # r => ctl'[q] = ctl[q]
<1>1. ctl[r].mode = "iterate" /\ ctl[r].ln \in Level /\ ctl[r].ln \in Nat /\ MaxLn \in Nat
  BY ControlFacts, HierarchyAssumption DEF EndSweep, Level
<1>2. ctl[r].at = "sweep" /\ ctl[r].k \notin DOMAIN Order[r][ctl[r].ln]
  BY DEF EndSweep
<1>3. \/ ctl[r].ln > 0 /\ Goto(r, "iterate", "send", ctl[r].ln)
      \/ ctl[r].ln = 0 /\ MaxLn > 0 /\ Goto(r, "iterate", "fill", 1)
      \/ ctl[r].ln = 0 /\ MaxLn = 0 /\ Goto(r, "iterate", "reduce", 0)
  BY <1>1 DEF EndSweep
<1>4. /\ ctl'[r].mode = "iterate" /\ ctl'[r].k = 1
      /\ \/ ctl[r].ln > 0 /\ ctl'[r].at = "send" /\ ctl'[r].ln = ctl[r].ln
         \/ ctl[r].ln = 0 /\ MaxLn > 0 /\ ctl'[r].at = "fill" /\ ctl'[r].ln = 1
         \/ ctl[r].ln = 0 /\ MaxLn = 0 /\ ctl'[r].at = "reduce" /\ ctl'[r].ln = 0
      /\ \A q \in Rank : q # r => ctl'[q] = ctl[q]
  BY <1>3 DEF Goto, TypeOK
<1> QED BY <1>1, <1>2, <1>4 DEF EndSweep

LEMMA CoarsenFacts ==
  ASSUME TypeOK, Looping, NEW r \in Rank, Coarsen(r)
  PROVE  /\ UNCHANGED <<msg, changed, counter, solid>>
         /\ ctl[r].at = "recv" /\ ctl[r].mode \in {"init", "iterate"}
         /\ ctl[r].ln \in 1 .. MaxLn /\ ctl[r].ln \in Nat
         /\ \A q \in Rank : q # r => ctl'[q] = ctl[q]
         /\ ctl[r].mode = "iterate" => ctl'[r].mode = "iterate" /\ ctl'[r].k = 1
              /\ \/ ctl'[r].at = "fill" /\ ctl'[r].ln = ctl[r].ln + 1
                 \/ ctl'[r].at = "reduce" /\ ctl[r].ln = MaxLn
         /\ ctl[r].mode = "init" =>
              \/ ctl'[r].mode = "init" /\ ctl'[r].at = "send" /\ ctl'[r].ln = ctl[r].ln - 1
              \/ ctl'[r].mode = "iterate" /\ ctl'[r].at = "fill" /\ ctl'[r].ln = 0 /\ ctl[r].ln = 1
         /\ \A c \in Cell :
              IF OwnerOf[c] = r /\ LevelOf[c] = ctl[r].ln - 1 /\ Covered(c)
              THEN /\ g'[c] = MinInt({Packed(ctl[r].mode, d) : d \in Children[c]})
                   /\ \A d \in Children[c] : Sent(ctl[r].mode, d)
              ELSE g'[c] = g[c]
<1> DEFINE m == ctl[r].mode
           ln == ctl[r].ln
           Target(c) == OwnerOf[c] = r /\ LevelOf[c] = ln - 1 /\ Covered(c)
<1>1. m \in {"init", "iterate"} /\ ln \in 1 .. MaxLn /\ ln \in Nat /\ ln - 1 \in Level
  BY ControlFacts DEF Coarsen, Looping, Mode, Level
<1>2. Own[r][ln - 1] = {c \in Cell : OwnerOf[c] = r /\ LevelOf[c] = ln - 1}
  BY <1>1 DEF Own
<1>3. \A c \in Cell : c \in {e \in Own[r][ln - 1] : Covered(e)} <=> Target(c)
  BY <1>2
<1>4. ASSUME NEW c \in Cell, Target(c), NEW d \in Children[c]
      PROVE  Packed(m, d) = msg[<<m, ln>>][d]
  <2>1. LevelOf[d] = ln
    <3> HIDE DEF ln
    <3> QED BY <1>1, <1>4, CellFacts
  <2> QED BY <2>1 DEF Packed
<1>5. \A c \in {e \in Own[r][ln - 1] : Covered(e)} : \A d \in Children[c] : msg[<<m, ln>>][d] # NotSent
  BY DEF Coarsen
<1>6. g' = [c \in Cell |-> IF c \in {e \in Own[r][ln - 1] : Covered(e)}
                           THEN MinInt({msg[<<m, ln>>][d] : d \in Children[c]}) ELSE g[c]]
  BY DEF Coarsen
<1>7. AfterCoarsen(r, m, ln) /\ ctl[r].at = "recv" /\ UNCHANGED <<msg, changed, counter, solid>>
  BY DEF Coarsen
<1>8. /\ \A q \in Rank : q # r => ctl'[q] = ctl[q]
      /\ m = "iterate" => ctl'[r].mode = "iterate" /\ ctl'[r].k = 1
           /\ \/ ctl'[r].at = "fill" /\ ctl'[r].ln = ln + 1
              \/ ctl'[r].at = "reduce" /\ ln = MaxLn
      /\ m = "init" =>
           \/ ctl'[r].mode = "init" /\ ctl'[r].at = "send" /\ ctl'[r].ln = ln - 1
           \/ ctl'[r].mode = "iterate" /\ ctl'[r].at = "fill" /\ ctl'[r].ln = 0 /\ ln = 1
  <2> HIDE DEF m, ln
  <2> QED BY <1>1, <1>7 DEF AfterCoarsen, Goto, TypeOK
<1> HIDE DEF Target, m, ln
<1>9. ASSUME NEW c \in Cell, Target(c)
      PROVE  {Packed(m, d) : d \in Children[c]} = {msg[<<m, ln>>][d] : d \in Children[c]}
  BY <1>4, <1>9
<1>10. \A c \in Cell :
         IF Target(c)
         THEN /\ g'[c] = MinInt({Packed(m, d) : d \in Children[c]})
              /\ \A d \in Children[c] : Sent(m, d)
         ELSE g'[c] = g[c]
  BY <1>3, <1>4, <1>5, <1>6, <1>9 DEF Sent
<1> QED BY <1>1, <1>7, <1>8, <1>10 DEF m, ln, Target

(* A step of the loop makes no cell quiet.                                 *)
LEMMA QuietStays ==
  ASSUME TypeOK, Looping, NEW r \in Rank,
         Send(r) \/ Coarsen(r) \/ Fill(r) \/ SweepCell(r) \/ EndSweep(r)
  PROVE  /\ \A c \in Cell : Quiet(c)' => Quiet(c) /\ g'[c] = g[c]
         /\ \A c \in Cell : Covered(c) /\ ~ Coarsen(r) => g'[c] = g[c]
         /\ UNCHANGED <<counter, solid>>
         /\ \A q \in Rank : ctl'[q].mode = "init" => ctl[q].mode = "init"
         /\ \A c \in Cell : Leaf(c)' <=> Leaf(c)
<1>1. \A c \in Cell : OwnerOf[c] \in Rank
  BY CellFacts
<1>2. \A c \in Cell : (Leaf(c)' <=> Leaf(c)) /\ (Leaf(c) <=> ~ Covered(c))
  BY DEF Leaf, Covered
<1>3. CASE SweepCell(r)
  <2>0. PICK s \in Cell : /\ OwnerOf[s] = r /\ \A c \in Cell : c # s => g'[c] = g[c]
                          /\ changed'[r] = (changed[r] \/ Updates(s))
                          /\ ~ Updates(s) => g'[s] = g[s]
                          /\ Updates(s) => ~ Covered(s)
    BY <1>3, SweepFacts
  <2>5. \A q \in Rank : q # r => ctl'[q] = ctl[q] /\ changed'[q] = changed[q]
    BY <1>3, SweepFacts
  <2>1. \A c \in Cell : Covered(c) => g'[c] = g[c]
    BY <2>0
  <2>2. \A c \in Cell : ~ changed'[OwnerOf[c]] => ~ changed[OwnerOf[c]] /\ g'[c] = g[c]
    BY <1>1, <2>0, <2>5
  <2>3. \A q \in Rank : ctl'[q].mode = ctl[q].mode
    <3>1. ctl'[r].mode = ctl[r].mode
      BY <1>3 DEF SweepCell, TypeOK, Control
    <3> QED BY <2>5, <3>1
  <2>4. UNCHANGED <<counter, solid>>
    BY <1>3 DEF SweepCell
  <2> QED BY <1>2, <2>1, <2>2, <2>3, <2>4 DEF Quiet
<1>4. CASE Coarsen(r)
  <2>1. \A c \in Cell : ~ Covered(c) => g'[c] = g[c]
    BY <1>4, CoarsenFacts
  <2>2. UNCHANGED <<changed, counter, solid>>
    BY <1>4, CoarsenFacts
  <2>3. \A q \in Rank : ctl'[q].mode = "init" => ctl[q].mode = "init"
    BY <1>4, CoarsenFacts
  <2> QED BY <1>2, <1>4, <2>1, <2>2, <2>3 DEF Quiet
<1>5. CASE Send(r)
  <2>1. UNCHANGED <<g, changed, counter, solid>>
    BY <1>5, SendFacts
  <2>2. \A q \in Rank : ctl'[q].mode = ctl[q].mode
    BY <1>5, SendFacts
  <2> QED BY <1>2, <2>1, <2>2 DEF Quiet
<1>6. CASE Fill(r)
  <2>1. UNCHANGED <<g, changed, counter, solid>>
    BY <1>6, FillFacts
  <2>2. /\ ctl'[r] = [mode |-> "iterate", at |-> "sweep", ln |-> ctl[r].ln, k |-> 1]
        /\ \A q \in Rank : q # r => ctl'[q] = ctl[q]
    BY <1>6, FillFacts
  <2> QED BY <1>2, <2>1, <2>2 DEF Quiet
<1>7. CASE EndSweep(r)
  BY <1>2, <1>7, EndFacts DEF Quiet
<1> QED BY <1>3, <1>4, <1>5, <1>6, <1>7

(* What is enough to keep what was packed before the loop.                 *)
LEMMA InitPartStep ==
  ASSUME InitPart, UNCHANGED counter,
         \A q \in Rank : ctl'[q].mode = "init" => ctl[q].mode = "init",
         \A c \in Cell : Quiet(c)' => Quiet(c) /\ g'[c] = g[c],
         \A c \in Cell : Packed("init", c)' = Packed("init", c) \/ Packed("init", c)' = g'[c]
  PROVE  InitPart'
<1>1. \A q \in Rank : ctl'[q].mode = "init" => counter' = 0
  BY DEF InitPart
<1>2. ASSUME NEW c \in Cell, Quiet(c)', counter' = 0, Sent("init", c)'
      PROVE  Packed("init", c)' = g'[c]
  <2>1. CASE Packed("init", c)' = Packed("init", c)
    <3>1. Sent("init", c) /\ Quiet(c) /\ counter = 0 /\ g'[c] = g[c]
      BY <1>2, <2>1 DEF Sent
    <3> QED BY <2>1, <3>1 DEF InitPart
  <2> QED BY <1>2, <2>1
<1> QED BY <1>1, <1>2 DEF InitPart

LEMMA FillPartStep ==
  ASSUME FillPart, \A c \in Cell : Quiet(c)' => Quiet(c) /\ g'[c] = g[c],
         \A t \in Level, c \in Cell : FillOf(t, c)' = FillOf(t, c)
  PROVE  FillPart'
<1> SUFFICES ASSUME NEW t \in Level, NEW c \in Cell, FillOf(t, c)' # NotSent
             PROVE  /\ Quiet(c)' => FillOf(t, c)' = g'[c]
                    /\ \A e \in Children[c] : Quiet(e)' => 0 <= FillOf(t, c)' /\ FillOf(t, c)' <= g'[e]
  BY DEF FillPart
<1>1. FillOf(t, c) # NotSent /\ FillOf(t, c)' = FillOf(t, c)
  OBVIOUS
<1>2. Quiet(c)' => FillOf(t, c) = g'[c]
  BY <1>1 DEF FillPart
<1>3. ASSUME NEW e \in Children[c], Quiet(e)'
      PROVE  0 <= FillOf(t, c) /\ FillOf(t, c) <= g'[e]
  <2>1. e \in Cell
    BY CellFacts
  <2> QED BY <1>1, <1>3, <2>1 DEF FillPart
<1> QED BY <1>1, <1>2, <1>3

LEMMA CoveredPartStep ==
  ASSUME CoveredPart, \A c \in Cell : Quiet(c)' => Quiet(c) /\ g'[c] = g[c],
         \A c \in Cell : Covered(c) => g'[c] = g[c],
         \A c \in Cell : Unsettled(c)' <=> Unsettled(c)
  PROVE  CoveredPart'
<1> SUFFICES ASSUME NEW c \in Cell, NEW e \in Children[c], Quiet(e)', ~ Unsettled(c)'
             PROVE  g'[c] <= g'[e]
  BY DEF CoveredPart
<1>1. e \in Cell /\ Covered(c)
  BY CellFacts
<1> QED BY <1>1 DEF CoveredPart

LEMMA SweptPartStep ==
  ASSUME SweptPart, \A c \in Cell : Quiet(c)' => Quiet(c) /\ g'[c] = g[c],
         \A c \in Cell : Swept(c)' => Swept(c),
         \A q \in Rank : ctl'[q].at = "sweep" => ctl'[q] = ctl[q] \/ ctl'[q].k \in 1 .. Len(Order[q][ctl'[q].ln]) + 1
  PROVE  SweptPart'
<1>1. ASSUME NEW c \in Cell, NEW e \in Peers(c), Quiet(c)', Swept(c)', Quiet(e)'
      PROVE  g'[c] <= g'[e]
  <2>1. e \in Cell
    BY DEF Peers
  <2> QED BY <1>1, <2>1 DEF SweptPart
<1>2. \A q \in Rank : ctl'[q].at = "sweep" => ctl'[q].k \in 1 .. Len(Order[q][ctl'[q].ln]) + 1
  BY DEF SweptPart
<1>3. \A c \in Cell : Peers(c)' = Peers(c)
  BY DEF Peers
<1> QED BY <1>1, <1>2, <1>3 DEF SweptPart

(* What was packed for the coarser level, where the sending half of the    *)
(* transfer is not the step.                                               *)
LEMMA SentPartStep ==
  ASSUME SentPart,
         \A c \in Cell : Packed("iterate", c)' = Packed("iterate", c),
         \A c \in Cell : Past(c) => Past(c)',
         \A c \in Cell : Leaf(c) /\ Past(c) => g'[c] = g[c],
         \A c \in Cell : Leaf(c) /\ g'[c] >= 0 => g[c] >= 0,
         \A c \in Cell : \A e \in Children[c] : Leaf(e) /\ g[e] >= 0 /\ Taken(c)' /\ ~ Taken(c) =>
           Sent("iterate", e) /\ g'[c] <= g[e],
         \A c \in Cell : Taken(c) => g'[c] = g[c]
  PROVE  SentPart'
<1>1. \A c \in Cell : (Sent("iterate", c)' <=> Sent("iterate", c)) /\ (Leaf(c)' <=> Leaf(c))
  BY DEF Sent, Leaf, Covered
<1>2. ASSUME NEW c \in Cell, Sent("iterate", c)'
      PROVE  Past(c)' /\ (Leaf(c)' => Packed("iterate", c)' = g'[c])
  BY <1>1, <1>2 DEF SentPart
<1>3. ASSUME NEW c \in Cell, NEW e \in Children[c], Taken(c)', Leaf(e)', g'[e] >= 0
      PROVE  Sent("iterate", e)' /\ g'[c] <= g'[e]
  <2>1. e \in Cell /\ Leaf(e) /\ g[e] >= 0
    BY <1>1, <1>3, CellFacts
  <2>2. Sent("iterate", e) /\ g'[c] <= g[e]
    BY <1>3, <2>1 DEF SentPart
  <2>3. g'[e] = g[e]
    BY <2>1, <2>2 DEF SentPart
  <2> QED BY <1>1, <2>1, <2>2, <2>3
<1> QED BY <1>2, <1>3 DEF SentPart

LEMMA IterSend ==
  ASSUME TypeOK, FallInv, Looping, IterInv, NEW r \in Rank, Send(r)
  PROVE  IterInv'
<1>1. /\ UNCHANGED counter
      /\ \A q \in Rank : ctl'[q].mode = "init" => ctl[q].mode = "init"
      /\ \A c \in Cell : Quiet(c)' => Quiet(c) /\ g'[c] = g[c]
      /\ \A c \in Cell : OwnerOf[c] \in Rank /\ (Leaf(c)' <=> Leaf(c))
  BY QuietStays, CellFacts
<1>2. /\ UNCHANGED g /\ ctl[r].at = "send" /\ ctl[r].mode \in {"init", "iterate"}
      /\ ctl'[r].at = "recv" /\ ctl'[r].mode = ctl[r].mode /\ ctl'[r].ln = ctl[r].ln
      /\ \A q \in Rank : q # r => ctl'[q] = ctl[q]
  BY SendFacts
<1>3. \A n \in {"init", "iterate"}, c \in Cell :
        Packed(n, c)' = IF n = ctl[r].mode /\ LevelOf[c] = ctl[r].ln /\ OwnerOf[c] = r
                        THEN g[c] ELSE Packed(n, c)
  BY SendFacts
<1>4. InitPart'
  <2>1. \A c \in Cell : Packed("init", c)' = Packed("init", c) \/ Packed("init", c)' = g'[c]
    BY <1>2, <1>3
  <2> QED BY <1>1, <2>1, InitPartStep DEF IterInv
<1>5. FillPart'
  <2>1. \A t \in Level, c \in Cell : FillOf(t, c)' = FillOf(t, c)
    BY SendFacts
  <2> QED BY <1>1, <2>1, FillPartStep DEF IterInv
<1>6. CoveredPart'
  <2>1. \A c \in Cell : Unsettled(c)' <=> Unsettled(c)
    BY <1>1, <1>2 DEF Unsettled, Covered
  <2> QED BY <1>1, <1>2, <2>1, CoveredPartStep DEF IterInv
<1>7. SweptPart'
  <2>1. \A c \in Cell : Swept(c)' => Swept(c)
    BY <1>1, <1>2 DEF Swept, Place
  <2>2. \A q \in Rank : ctl'[q].at = "sweep" => ctl'[q] = ctl[q]
    BY <1>2
  <2> QED BY <1>1, <2>1, <2>2, SweptPartStep DEF IterInv
<1>8. SentPart'
  <2>1. \A c \in Cell : (Past(c) => Past(c)') /\ (Taken(c)' => Taken(c))
    BY <1>1, <1>2 DEF Past, Taken, Place
  <2>2. ASSUME NEW c \in Cell, Sent("iterate", c)'
        PROVE  Past(c)' /\ (Leaf(c)' => Packed("iterate", c)' = g'[c])
    <3>1. CASE ctl[r].mode = "iterate" /\ LevelOf[c] = ctl[r].ln /\ OwnerOf[c] = r
      BY <1>2, <1>3, <3>1 DEF Past, Place
    <3>2. CASE ~ (ctl[r].mode = "iterate" /\ LevelOf[c] = ctl[r].ln /\ OwnerOf[c] = r)
      <4>1. Packed("iterate", c)' = Packed("iterate", c)
        BY <1>3, <3>2
      <4> QED BY <1>1, <1>2, <2>1, <2>2, <4>1 DEF IterInv, SentPart, Sent
    <3> QED BY <3>1, <3>2
  <2>3. ASSUME NEW c \in Cell, NEW e \in Children[c], Taken(c)', Leaf(e)', g'[e] >= 0
        PROVE  Sent("iterate", e)' /\ g'[c] <= g'[e]
    <3>1. e \in Cell /\ Sent("iterate", e) /\ g[c] <= g[e]
      BY <1>1, <1>2, <2>1, <2>3, CellFacts DEF IterInv, SentPart
    <3>2. g[e] # NotSent
      BY <3>1 DEF TypeOK, None, NotSent
    <3> QED BY <1>2, <1>3, <3>1, <3>2 DEF Sent
  <2> QED BY <2>2, <2>3 DEF SentPart
<1> QED BY <1>4, <1>5, <1>6, <1>7, <1>8 DEF IterInv

(* A covered cell that has been given its label has one where a cell under *)
(* it is in a grain.                                                       *)
LEMMA CoveredSign ==
  ASSUME TypeOK, FallInv, CoveredPart, NEW c \in Cell, NEW e \in Children[c], Quiet(e),
         ctl[OwnerOf[c]].mode = "iterate"
  PROVE  0 <= g[c] /\ g[c] <= g[e]
<1>1. e \in Cell /\ Covered(c) /\ ~ Unsettled(c)
  BY CellFacts DEF Unsettled
<1>2. g[c] <= g[e] /\ Falls(g[c], Under(c))
  BY <1>1 DEF CoveredPart, FallInv
<1>3. Latest(e) >= 0
  BY <1>1 DEF Latest, FallInv, Falls, Quiet
<1>4. {Latest(d) : d \in Children[c]} \subseteq Label
  BY PackedType
<1>5. Under(c) >= 0
  BY <1>3, <1>4, MinIntSign DEF Under
<1>6. g[c] \in Label
  BY PackedType
<1> QED BY <1>2, <1>5, <1>6 DEF Falls, Label, None

LEMMA IterFill ==
  ASSUME TypeOK, FallInv, Looping, IterInv, NEW r \in Rank, Fill(r)
  PROVE  IterInv'
<1>1. /\ UNCHANGED counter
      /\ \A q \in Rank : ctl'[q].mode = "init" => ctl[q].mode = "init"
      /\ \A c \in Cell : Quiet(c)' => Quiet(c) /\ g'[c] = g[c]
      /\ \A c \in Cell : OwnerOf[c] \in Rank /\ (Leaf(c)' <=> Leaf(c))
  BY QuietStays, CellFacts
<1>2. /\ UNCHANGED g /\ ctl[r].at = "fill" /\ ctl[r].mode = "iterate" /\ ctl[r].ln \in Level
      /\ ctl'[r] = [mode |-> "iterate", at |-> "sweep", ln |-> ctl[r].ln, k |-> 1]
      /\ \A q \in Rank : q # r => ctl'[q] = ctl[q]
  BY FillFacts
<1>3. \A n \in {"init", "iterate"}, c \in Cell : Packed(n, c)' = Packed(n, c)
  BY FillFacts
<1>4. InitPart'
  BY <1>1, <1>3, InitPartStep DEF IterInv
<1>5. FillPart'
  <2> SUFFICES ASSUME NEW t \in Level, NEW c \in Cell, FillOf(t, c)' # NotSent
               PROVE  /\ Quiet(c)' => FillOf(t, c)' = g'[c]
                      /\ \A e \in Children[c] :
                           Quiet(e)' => 0 <= FillOf(t, c)' /\ FillOf(t, c)' <= g'[e]
    BY DEF FillPart
  <2>1. CASE t = ctl[r].ln /\ OwnerOf[c] = r /\ LevelOf[c] \in {t, t - 1}
    <3>1. FillOf(t, c)' = g[c] /\ ctl[OwnerOf[c]].mode = "iterate"
      BY <1>2, <2>1, FillFacts
    <3>2. \A e \in Children[c] : Quiet(e)' => 0 <= g[c] /\ g[c] <= g[e]
      <4>1. \A e \in Children[c] : Quiet(e)' => Quiet(e)
        BY <1>1, CellFacts
      <4> QED BY <3>1, <4>1, CoveredSign DEF IterInv
    <3> QED BY <1>2, <3>1, <3>2
  <2>2. CASE ~ (t = ctl[r].ln /\ OwnerOf[c] = r /\ LevelOf[c] \in {t, t - 1})
    <3>1. FillOf(t, c)' = FillOf(t, c)
      BY <2>2, FillFacts
    <3>2. \A e \in Children[c] : Quiet(e)' => Quiet(e)
      BY <1>1, CellFacts
    <3> QED BY <1>1, <1>2, <3>1, <3>2 DEF IterInv, FillPart
  <2> QED BY <2>1, <2>2
<1>6. CoveredPart'
  <2>1. \A c \in Cell : Unsettled(c)' <=> Unsettled(c)
    BY <1>1, <1>2 DEF Unsettled, Covered
  <2> QED BY <1>1, <1>2, <2>1, CoveredPartStep DEF IterInv
<1>7. SweptPart'
  <2>1. \A c \in Cell : Swept(c)' => Swept(c)
    <3> SUFFICES ASSUME NEW c \in Cell, OwnerOf[c] = r, Swept(c)' PROVE Swept(c)
      BY <1>1, <1>2 DEF Swept, Place
    <3>1. ~ \E i \in DOMAIN Order[r][LevelOf[c]] : i < 1
      BY CellFacts, HierarchyAssumption
    <3> QED BY <1>2, <3>1 DEF Swept, Place
  <2>2. \A q \in Rank : ctl'[q].at = "sweep" =>
          ctl'[q] = ctl[q] \/ ctl'[q].k \in 1 .. Len(Order[q][ctl'[q].ln]) + 1
    <3>1. Len(Order[r][ctl[r].ln]) \in Nat
      BY <1>2, OrderType
    <3> QED BY <1>2, <3>1
  <2> QED BY <1>1, <2>1, <2>2, SweptPartStep DEF IterInv
<1>8. SentPart'
  <2>1. \A c \in Cell : (Past(c) => Past(c)') /\ (Taken(c)' <=> Taken(c))
    BY <1>1, <1>2 DEF Past, Taken, Place
  <2> QED BY <1>2, <1>3, <2>1, SentPartStep DEF IterInv
<1> QED BY <1>4, <1>5, <1>6, <1>7, <1>8 DEF IterInv

(* A quiet cell that has just been swept has seen no label below its own.  *)
LEMMA SweptIsLeast ==
  ASSUME TypeOK, FallInv, FillPart, CoveredPart, NEW s \in Cell,
         ctl[OwnerOf[s]].mode = "iterate", HaloReady(OwnerOf[s], LevelOf[s]),
         Quiet(s), ~ Updates(s), NEW e \in Peers(s), Quiet(e)
  PROVE  g[s] <= g[e]
<1>1. /\ e \in Cell /\ s \in Own[OwnerOf[s]][LevelOf[s]] /\ LevelOf[s] \in Level
      /\ g[s] \in Nat /\ g[e] \in Nat
  BY CellFacts, PackedType DEF Peers, Own, Quiet, Label, None
<1>2. Smaller(s) = {}
  BY DEF Updates, Quiet, Leaf
<1>3. ASSUME NEW i \in DOMAIN Sources[s], Sources[s][i] # NoCell, 0 <= Seen(s, i), Seen(s, i) <= g[e]
      PROVE  g[s] <= g[e]
  <2>1. Seen(s, i) \in Nat
    BY <1>3, SeenType DEF None, NotSent
  <2>2. ~ (Seen(s, i) < g[s])
    BY <1>2, <1>3, <2>1 DEF Smaller
  <2> QED BY <1>1, <1>3, <2>1, <2>2
<1>4. ASSUME NEW i \in Ghosts[s], i \in DOMAIN Sources[s], Sources[s][i] # NoCell
      PROVE  /\ Sources[s][i] \in Cell /\ FillOf(LevelOf[s], Sources[s][i]) # NotSent
             /\ Seen(s, i) = FillOf(LevelOf[s], Sources[s][i])
  BY <1>1, <1>4, SeenType DEF HaloReady, FillOf, Seen
<1>5. CASE e \in Reads[s]
  <2>1. PICK i \in DOMAIN Sources[s] : Sources[s][i] = e /\ e # NoCell
    BY <1>5 DEF Reads
  <2>2. Seen(s, i) = g[e]
    <3>1. CASE i \in Ghosts[s]
      BY <1>1, <1>4, <2>1, <3>1 DEF FillPart
    <3>2. CASE i \notin Ghosts[s]
      BY <2>1, <3>2 DEF Seen
    <3> QED BY <3>1, <3>2
  <2> QED BY <1>1, <1>3, <2>1, <2>2
<1>6. CASE \E b \in Reads[s] : e \in Children[b]
  <2>1. PICK b \in Reads[s] : e \in Children[b]
    BY <1>6
  <2>2. PICK i \in DOMAIN Sources[s] : Sources[s][i] = b /\ b # NoCell
    BY <2>1 DEF Reads
  <2>3. b \in Cell
    BY <2>2, SeenType
  <2>4. 0 <= Seen(s, i) /\ Seen(s, i) <= g[e]
    <3>1. CASE i \in Ghosts[s]
      BY <1>1, <1>4, <2>1, <2>2, <2>3, <3>1 DEF FillPart
    <3>2. CASE i \notin Ghosts[s]
      <4>1. OwnerOf[b] = OwnerOf[s] /\ Seen(s, i) = g[b]
        BY <2>2, <3>2, HierarchyAssumption DEF Seen
      <4> QED BY <2>1, <2>3, <4>1, CoveredSign
    <3> QED BY <3>1, <3>2
  <2> QED BY <1>3, <2>2, <2>4
<1> QED BY <1>5, <1>6 DEF Peers

LEMMA IterSweep ==
  ASSUME TypeOK, FallInv, Looping, IterInv, NEW r \in Rank, SweepCell(r)
  PROVE  IterInv'
<1>1. /\ UNCHANGED counter
      /\ \A q \in Rank : ctl'[q].mode = "init" => ctl[q].mode = "init"
      /\ \A c \in Cell : Quiet(c)' => Quiet(c) /\ g'[c] = g[c]
      /\ \A c \in Cell : OwnerOf[c] \in Rank /\ (Leaf(c)' <=> Leaf(c))
  BY QuietStays, CellFacts
<1>c. \A c \in Cell : Covered(c) => g'[c] = g[c]
  <2>1. ~ Coarsen(r)
    BY DEF SweepCell, Coarsen
  <2> QED BY <2>1, QuietStays
<1>2. /\ ctl[r].at = "sweep" /\ ctl[r].mode = "iterate" /\ ctl[r].ln \in Level
      /\ ctl[r].k \in DOMAIN Order[r][ctl[r].ln] /\ HaloReady(r, ctl[r].ln)
      /\ \A q \in Rank : q # r => ctl'[q] = ctl[q]
      /\ UNCHANGED msg
  <2>1. \A q \in Rank : q # r => ctl'[q] = ctl[q]
    BY DEF SweepCell, TypeOK
  <2>2. /\ ctl[r].at = "sweep" /\ ctl[r].mode = "iterate" /\ ctl[r].ln \in Level
        /\ ctl[r].k \in DOMAIN Order[r][ctl[r].ln] /\ HaloReady(r, ctl[r].ln)
    BY SweepFacts
  <2> QED BY <2>1, <2>2 DEF SweepCell
<1>3. /\ ctl'[r].at = "sweep" /\ ctl'[r].mode = "iterate" /\ ctl'[r].ln = ctl[r].ln
      /\ ctl'[r].k = ctl[r].k + 1 /\ ctl[r].k \in Nat
  BY <1>2 DEF SweepCell, TypeOK, Control
<1>4. PICK s \in Cell :
        /\ s = Order[r][ctl[r].ln][ctl[r].k] /\ OwnerOf[s] = r /\ LevelOf[s] = ctl[r].ln
        /\ \A c \in Cell : c # s => g'[c] = g[c]
        /\ changed'[r] = (changed[r] \/ Updates(s))
        /\ ~ Updates(s) => g'[s] = g[s]
        /\ Updates(s) => ~ Covered(s) /\ g[s] >= 0 /\ g'[s] >= 0
  BY SweepFacts
<1>5. /\ \A n \in {"init", "iterate"}, c \in Cell : Packed(n, c)' = Packed(n, c)
      /\ \A t \in Level, c \in Cell : FillOf(t, c)' = FillOf(t, c)
  BY <1>2 DEF Packed, FillOf
<1>6. InitPart'
  BY <1>1, <1>5, InitPartStep DEF IterInv
<1>7. FillPart'
  BY <1>1, <1>5, FillPartStep DEF IterInv
<1>8. CoveredPart'
  <2>1. \A c \in Cell : Unsettled(c)' <=> Unsettled(c)
    BY <1>1, <1>2, <1>3 DEF Unsettled, Covered
  <2> QED BY <1>1, <1>c, <2>1, CoveredPartStep DEF IterInv
<1>9. SweptPart'
  <2>1. ASSUME NEW c \in Cell, NEW e \in Peers(c), Quiet(c)', Swept(c)', Quiet(e)'
        PROVE  g'[c] <= g'[e]
    <3>1. e \in Cell /\ Quiet(c) /\ Quiet(e) /\ g'[c] = g[c] /\ g'[e] = g[e]
      BY <1>1, <2>1 DEF Peers
    <3>2. CASE Swept(c)
      BY <3>1, <3>2 DEF IterInv, SweptPart
    <3>3. CASE ~ Swept(c)
      <4>1. OwnerOf[c] = r /\ LevelOf[c] = ctl[r].ln
        BY <1>1, <1>2, <1>3, <2>1, <3>3 DEF Swept, Place
      <4>2. PICK i \in DOMAIN Order[r][ctl[r].ln] : i < ctl[r].k + 1 /\ Order[r][ctl[r].ln][i] = c
        BY <1>3, <2>1, <4>1, CellFacts DEF Swept, Place
      <4>3. ~ i < ctl[r].k
        BY <1>2, <3>3, <4>1, <4>2 DEF Swept, Place
      <4>4. i \in Nat
        <5>1. Order[r][ctl[r].ln] \in Seq(Cell)
          BY <1>2, OrderType
        <5> QED BY <5>1
      <4>5. c = s
        BY <1>3, <1>4, <4>2, <4>3, <4>4
      <4>6. ~ Updates(s)
        BY <1>4, <2>1, <4>5 DEF Quiet
      <4> QED BY <1>2, <1>4, <3>1, <4>5, <4>6, SweptIsLeast DEF IterInv
    <3> QED BY <3>2, <3>3
  <2>2. \A q \in Rank : ctl'[q].at = "sweep" => ctl'[q].k \in 1 .. Len(Order[q][ctl'[q].ln]) + 1
    <3>1. Order[r][ctl[r].ln] \in Seq(Cell)
      BY <1>2, OrderType
    <3>2. ctl'[r].k \in 1 .. Len(Order[r][ctl'[r].ln]) + 1
      BY <1>2, <1>3, <3>1
    <3> QED BY <1>2, <3>2 DEF IterInv, SweptPart
  <2>3. \A c \in Cell : Peers(c)' = Peers(c)
    BY DEF Peers
  <2> QED BY <2>1, <2>2, <2>3 DEF SweptPart
<1>10. SentPart'
  <2>1. \A c \in Cell : (Past(c)' <=> Past(c)) /\ (Taken(c)' <=> Taken(c))
    BY <1>1, <1>2, <1>3 DEF Past, Taken, Place
  <2>2. \A c \in Cell : Leaf(c) /\ Past(c) => g'[c] = g[c]
    <3>1. ~ Past(s)
      BY <1>2, <1>4, CellFacts DEF Past, Place
    <3> QED BY <1>4, <3>1
  <2>3. \A c \in Cell : Leaf(c) /\ g'[c] >= 0 => g[c] >= 0
    BY <1>4
  <2>4. \A c \in Cell : \A e \in Children[c] : Taken(c) /\ Leaf(e) /\ g[e] >= 0 => g'[c] = g[c]
    BY <1>c, CellFacts
  <2>5. \A c \in Cell : Sent("iterate", c)' <=> Sent("iterate", c)
    BY <1>5 DEF Sent
  <2>6. ASSUME NEW c \in Cell, Sent("iterate", c)'
        PROVE  Past(c)' /\ (Leaf(c)' => Packed("iterate", c)' = g'[c])
    BY <1>1, <1>5, <2>1, <2>2, <2>5, <2>6 DEF IterInv, SentPart
  <2>7. ASSUME NEW c \in Cell, NEW e \in Children[c], Taken(c)', Leaf(e)', g'[e] >= 0
        PROVE  Sent("iterate", e)' /\ g'[c] <= g'[e]
    <3>1. e \in Cell /\ Leaf(e) /\ g[e] >= 0 /\ Taken(c)
      BY <1>1, <2>1, <2>3, <2>7, CellFacts
    <3>2. Sent("iterate", e) /\ g[c] <= g[e]
      BY <3>1 DEF IterInv, SentPart
    <3>3. g'[e] = g[e] /\ g'[c] = g[c]
      BY <2>2, <2>4, <3>1, <3>2 DEF IterInv, SentPart
    <3> QED BY <2>5, <3>1, <3>2, <3>3
  <2> QED BY <2>6, <2>7 DEF SentPart
<1> QED BY <1>6, <1>7, <1>8, <1>9, <1>10 DEF IterInv

LEMMA IterEnd ==
  ASSUME TypeOK, FallInv, Looping, IterInv, NEW r \in Rank, EndSweep(r)
  PROVE  IterInv'
<1>1. /\ UNCHANGED counter
      /\ \A q \in Rank : ctl'[q].mode = "init" => ctl[q].mode = "init"
      /\ \A c \in Cell : Quiet(c)' => Quiet(c) /\ g'[c] = g[c]
      /\ \A c \in Cell : OwnerOf[c] \in Rank /\ LevelOf[c] \in Nat /\ (Leaf(c)' <=> Leaf(c))
  BY QuietStays, CellFacts
<1>2. /\ UNCHANGED <<g, msg>>
      /\ ctl[r].at = "sweep" /\ ctl[r].mode = "iterate"
      /\ ctl[r].ln \in Level /\ ctl[r].ln \in Nat
      /\ ctl[r].k \notin DOMAIN Order[r][ctl[r].ln]
      /\ ctl'[r].mode = "iterate"
      /\ \A q \in Rank : q # r => ctl'[q] = ctl[q]
  BY EndFacts
<1>3. \/ ctl[r].ln > 0 /\ ctl'[r].at = "send" /\ ctl'[r].ln = ctl[r].ln
      \/ ctl[r].ln = 0 /\ MaxLn > 0 /\ ctl'[r].at = "fill" /\ ctl'[r].ln = 1
      \/ ctl[r].ln = 0 /\ MaxLn = 0 /\ ctl'[r].at = "reduce" /\ ctl'[r].ln = 0
  BY EndFacts
<1>4. /\ \A n \in {"init", "iterate"}, c \in Cell : Packed(n, c)' = Packed(n, c)
      /\ \A t \in Level, c \in Cell : FillOf(t, c)' = FillOf(t, c)
  BY <1>2 DEF Packed, FillOf
<1>5. InitPart'
  BY <1>1, <1>4, InitPartStep DEF IterInv
<1>6. FillPart'
  BY <1>1, <1>4, FillPartStep DEF IterInv
<1>7. CoveredPart'
  <2>1. \A c \in Cell : Unsettled(c)' <=> Unsettled(c)
    BY <1>1, <1>2 DEF Unsettled, Covered
  <2> QED BY <1>1, <1>2, <2>1, CoveredPartStep DEF IterInv
<1>8. SweptPart'
  <2>1. \A c \in Cell : Swept(c)' => Swept(c)
    <3> SUFFICES ASSUME NEW c \in Cell, Swept(c)', ~ Swept(c) PROVE FALSE
      OBVIOUS
    <3>1. OwnerOf[c] = r
      BY <1>1, <1>2 DEF Swept, Place
    <3>2. LevelOf[c] = ctl[r].ln
      <4>1. LevelOf[c] \in 0 .. MaxLn /\ MaxLn \in Nat
        BY CellFacts DEF Level
      <4>2. ~ (ctl[r].ln > LevelOf[c])
        BY <1>2, <3>1 DEF Swept, Place
      <4>3. ctl'[r].at = "reduce" \/ ctl'[r].ln > LevelOf[c] \/ ctl'[r].ln = LevelOf[c]
        BY <3>1 DEF Swept, Place
      <4>4. ctl'[r].ln = LevelOf[c] => ctl'[r].at \in {"send", "recv", "sweep", "reduce"} \/ ctl'[r].ln > LevelOf[c]
        BY <3>1 DEF Swept, Place
      <4> QED BY <1>1, <1>2, <1>3, <4>1, <4>2, <4>3, <4>4
    <3>3. Order[r][ctl[r].ln] \in Seq(Cell)
      BY <1>2, OrderType
    <3>4. c \in {Order[r][ctl[r].ln][i] : i \in DOMAIN Order[r][ctl[r].ln]}
      <4>1. c \in Own[r][ctl[r].ln]
        BY <1>2, <3>1, <3>2 DEF Own
      <4> QED BY <1>2, <4>1, HierarchyAssumption
    <3>5. PICK i \in DOMAIN Order[r][ctl[r].ln] : Order[r][ctl[r].ln][i] = c
      BY <3>4
    <3>6. ctl[r].k \in 1 .. Len(Order[r][ctl[r].ln]) + 1
      BY <1>2 DEF IterInv, SweptPart
    <3>7. i < ctl[r].k
      BY <1>2, <3>3, <3>5, <3>6
    <3> QED BY <1>2, <3>1, <3>2, <3>5, <3>7 DEF Swept, Place
  <2>2. \A q \in Rank : ctl'[q].at = "sweep" => ctl'[q] = ctl[q]
    BY <1>2, <1>3
  <2> QED BY <1>1, <2>1, <2>2, SweptPartStep DEF IterInv
<1>9. SentPart'
  <2>1. ASSUME NEW c \in Cell PROVE Past(c) => Past(c)'
    <3>1. CASE OwnerOf[c] # r
      BY <1>1, <1>2, <3>1 DEF Past, Place
    <3>2. CASE OwnerOf[c] = r
      BY <1>1, <1>2, <1>3, <3>2 DEF Past, Place
    <3> QED BY <3>1, <3>2
  <2>2. ASSUME NEW c \in Cell, NEW e \in Children[c], Taken(c)' PROVE Taken(c)
    <3>1. CASE OwnerOf[c] # r
      BY <1>1, <1>2, <2>2, <3>1 DEF Taken, Place
    <3>2. CASE OwnerOf[c] = r
      <4>1. LevelOf[c] + 1 <= MaxLn /\ MaxLn \in Nat /\ LevelOf[c] \in Nat
        BY CellFacts
      <4> QED BY <1>1, <1>2, <1>3, <2>2, <3>2, <4>1 DEF Taken, Place
    <3> QED BY <3>1, <3>2
  <2> QED BY <1>2, <1>4, <2>1, <2>2, SentPartStep DEF IterInv
<1> QED BY <1>5, <1>6, <1>7, <1>8, <1>9 DEF IterInv

(* The least label a covered cell takes is not above one it is given.      *)
LEMMA TakesLeast ==
  ASSUME TypeOK, NEW m \in Mode, NEW c \in Cell, NEW e \in Children[c],
         \A d \in Children[c] : Sent(m, d), Packed(m, e) >= 0
  PROVE  MinInt({Packed(m, d) : d \in Children[c]}) <= Packed(m, e)
<1>1. {Packed(m, d) : d \in Children[c]} \subseteq Label
  BY PackedType DEF Sent
<1>2. Packed(m, e) \in {Packed(m, d) : d \in Children[c]}
  OBVIOUS
<1> HIDE DEF Packed
<1>3. MinInt({Packed(m, d) : d \in Children[c]}) >= 0
  BY <1>1, <1>2, MinIntSign
<1> QED BY <1>1, <1>2, <1>3, MinIntType

LEMMA IterCoarsen ==
  ASSUME TypeOK, FallInv, Looping, IterInv, NEW r \in Rank, Coarsen(r)
  PROVE  IterInv'
<1> DEFINE m == ctl[r].mode
           ln == ctl[r].ln
           Target(c) == OwnerOf[c] = r /\ LevelOf[c] = ln - 1 /\ Covered(c)
<1>1. /\ UNCHANGED counter
      /\ \A q \in Rank : ctl'[q].mode = "init" => ctl[q].mode = "init"
      /\ \A c \in Cell : Quiet(c)' => Quiet(c) /\ g'[c] = g[c]
      /\ \A c \in Cell : OwnerOf[c] \in Rank /\ LevelOf[c] \in Nat /\ (Leaf(c)' <=> Leaf(c))
  BY QuietStays, CellFacts
<1>2. /\ UNCHANGED msg /\ ctl[r].at = "recv" /\ m \in {"init", "iterate"} /\ m \in Mode
      /\ ln \in 1 .. MaxLn /\ ln \in Nat /\ MaxLn \in Nat
      /\ \A q \in Rank : q # r => ctl'[q] = ctl[q]
  BY CoarsenFacts, HierarchyAssumption DEF Mode
<1>3. m = "iterate" => /\ ctl'[r].mode = "iterate"
                       /\ \/ ctl'[r].at = "fill" /\ ctl'[r].ln = ln + 1
                          \/ ctl'[r].at = "reduce" /\ ln = MaxLn
  BY CoarsenFacts
<1>4. m = "init" => \/ ctl'[r].mode = "init" /\ ctl'[r].at = "send" /\ ctl'[r].ln = ln - 1
                    \/ /\ ctl'[r].mode = "iterate" /\ ctl'[r].at = "fill"
                       /\ ctl'[r].ln = 0 /\ ln = 1
  BY CoarsenFacts
<1>5. \A c \in Cell : IF Target(c)
                      THEN /\ g'[c] = MinInt({Packed(m, d) : d \in Children[c]})
                           /\ \A d \in Children[c] : Sent(m, d)
                      ELSE g'[c] = g[c]
  BY CoarsenFacts
<1>6. /\ \A n \in {"init", "iterate"}, c \in Cell : Packed(n, c)' = Packed(n, c)
      /\ \A t \in Level, c \in Cell : FillOf(t, c)' = FillOf(t, c)
  BY <1>2 DEF Packed, FillOf
<1> HIDE DEF m, ln, Target
<1>t. \A c \in Cell : Target(c) <=> OwnerOf[c] = r /\ LevelOf[c] = ln - 1 /\ Covered(c)
  BY DEF Target
<1>p. \A c \in Cell : Place(c) = ctl[OwnerOf[c]] /\ Place(c)' = ctl'[OwnerOf[c]]
  BY DEF Place
<1>7. InitPart'
  BY <1>1, <1>6, InitPartStep DEF IterInv
<1>8. FillPart'
  BY <1>1, <1>6, FillPartStep DEF IterInv
<1>9. CoveredPart'
  <2> SUFFICES ASSUME NEW c \in Cell, NEW e \in Children[c], Quiet(e)', ~ Unsettled(c)'
               PROVE  g'[c] <= g'[e]
    BY DEF CoveredPart
  <2>1. e \in Cell /\ Covered(c) /\ Quiet(e) /\ g'[e] = g[e] /\ Leaf(e) /\ g[e] >= 0
    <3>1. e \in Cell /\ Covered(c)
      BY CellFacts
    <3> QED BY <1>1, <3>1 DEF Quiet
  <2>2. CASE Target(c)
    <3>1. g'[c] = MinInt({Packed(m, d) : d \in Children[c]}) /\ \A d \in Children[c] : Sent(m, d)
      BY <1>5, <2>2
    <3>2. Packed(m, e) = g[e]
      <4>1. CASE m = "iterate"
        BY <2>1, <3>1, <4>1 DEF IterInv, SentPart
      <4>2. CASE m = "init"
        <5>1. counter = 0
          BY <4>2 DEF m, IterInv, InitPart
        <5> QED BY <2>1, <3>1, <4>2, <5>1 DEF IterInv, InitPart
      <4> QED BY <1>2, <4>1, <4>2
    <3> QED BY <1>2, <2>1, <3>1, <3>2, TakesLeast
  <2>3. CASE ~ Target(c)
    <3>1. ~ Unsettled(c)
      <4>1. CASE OwnerOf[c] # r
        BY <1>1, <1>2, <4>1 DEF Unsettled, Covered
      <4>2. CASE OwnerOf[c] = r /\ m = "iterate"
        BY <4>2 DEF Unsettled, m
      <4>3. CASE OwnerOf[c] = r /\ m = "init"
        <5>1. LevelOf[c] # ln - 1
          BY <1>t, <2>1, <2>3, <4>3
        <5>2. ~ (ctl'[r].mode = "init" /\ ctl'[r].ln > LevelOf[c])
          BY <2>1, <4>3 DEF Unsettled, Covered
        <5>3. ~ (ln > LevelOf[c])
          BY <1>1, <1>2, <1>4, <4>3, <5>1, <5>2
        <5> QED BY <4>3, <5>3 DEF Unsettled, ln
      <4> QED BY <1>2, <4>1, <4>2, <4>3
    <3> QED BY <1>5, <2>1, <2>3, <3>1 DEF IterInv, CoveredPart
  <2> QED BY <2>2, <2>3
<1>10. SweptPart'
  <2>1. \A c \in Cell : Swept(c)' => Swept(c)
    <3> SUFFICES ASSUME NEW c \in Cell, OwnerOf[c] = r, Swept(c)' PROVE Swept(c)
      BY <1>1, <1>2 DEF Swept, Place
    <3>1. ctl'[r].mode = "iterate" /\
          (ctl'[r].at = "reduce" \/ ctl'[r].ln > LevelOf[c] \/ ctl'[r].at \in {"send", "recv", "sweep"})
      BY DEF Swept, Place
    <3>2. LevelOf[c] \in 0 .. MaxLn
      BY CellFacts DEF Level
    <3>3. m = "iterate"
      BY <1>1, <1>2, <1>4, <3>1
    <3>4. ln > LevelOf[c] \/ ln = LevelOf[c]
      BY <1>1, <1>2, <1>3, <3>1, <3>2, <3>3
    <3> QED BY <1>2, <3>3, <3>4 DEF Swept, Place, m, ln
  <2>2. \A q \in Rank : ctl'[q].at = "sweep" => ctl'[q] = ctl[q]
    BY <1>2, <1>3, <1>4
  <2> QED BY <1>1, <2>1, <2>2, SweptPartStep DEF IterInv
<1>11. SentPart'
  <2>1. ASSUME NEW c \in Cell, Past(c) PROVE Past(c)'
    <3>1. CASE OwnerOf[c] # r
      BY <1>1, <1>2, <2>1, <3>1 DEF Past, Place
    <3>2. CASE OwnerOf[c] = r
      <4>1. m = "iterate" /\ (ln > LevelOf[c] \/ ln = LevelOf[c])
        BY <1>2, <2>1, <3>2 DEF Past, Place, m, ln
      <4> QED BY <1>1, <1>2, <1>3, <3>2, <4>1 DEF Past, Place
    <3> QED BY <3>1, <3>2
  <2>2. \A c \in Cell : Leaf(c) => g'[c] = g[c]
    BY <1>5, <1>t DEF Leaf
  <2>3. ASSUME NEW c \in Cell, NEW e \in Children[c], Taken(c)'
        PROVE  \/ Taken(c) /\ g'[c] = g[c]
               \/ Target(c) /\ m = "iterate"
    <3>1. CASE OwnerOf[c] # r
      BY <1>1, <1>2, <1>5, <1>t, <2>3, <3>1 DEF Taken, Place
    <3>2. CASE OwnerOf[c] = r
      <4>1. /\ ctl'[r].mode = "iterate"
            /\ ctl'[r].at = "reduce" \/ ctl'[r].ln > LevelOf[c] + 1
        BY <2>3, <3>2 DEF Taken, Place
      <4>2. LevelOf[c] + 1 <= MaxLn /\ Covered(c)
        BY CellFacts
      <4>3. m = "iterate"
        BY <1>1, <1>2, <1>4, <4>1
      <4>4. ln > LevelOf[c] + 1 \/ LevelOf[c] = ln - 1
        BY <1>1, <1>2, <1>3, <4>1, <4>2, <4>3
      <4>5. CASE LevelOf[c] = ln - 1
        BY <1>t, <3>2, <4>2, <4>3, <4>5
      <4>6. CASE LevelOf[c] # ln - 1
        <5>1. Taken(c)
          BY <1>2, <3>2, <4>3, <4>4, <4>6 DEF Taken, Place, m, ln
        <5> QED BY <1>5, <1>t, <4>6, <5>1
      <4> QED BY <4>5, <4>6
    <3> QED BY <3>1, <3>2
  <2>4. \A c \in Cell : Sent("iterate", c)' <=> Sent("iterate", c)
    BY <1>6 DEF Sent
  <2>5. ASSUME NEW c \in Cell, Sent("iterate", c)'
        PROVE  Past(c)' /\ (Leaf(c)' => Packed("iterate", c)' = g'[c])
    BY <1>1, <1>6, <2>1, <2>2, <2>4, <2>5 DEF IterInv, SentPart
  <2>6. ASSUME NEW c \in Cell, NEW e \in Children[c], Taken(c)', Leaf(e)', g'[e] >= 0
        PROVE  Sent("iterate", e)' /\ g'[c] <= g'[e]
    <3>1. e \in Cell /\ Leaf(e) /\ g'[e] = g[e] /\ g[e] >= 0
      BY <1>1, <2>2, <2>6, CellFacts
    <3>2. CASE Taken(c) /\ g'[c] = g[c]
      BY <2>4, <3>1, <3>2 DEF IterInv, SentPart
    <3>3. CASE Target(c) /\ m = "iterate"
      <4>1. /\ g'[c] = MinInt({Packed("iterate", d) : d \in Children[c]})
            /\ \A d \in Children[c] : Sent("iterate", d)
        BY <1>5, <3>3
      <4>2. Packed("iterate", e) = g[e]
        BY <3>1, <4>1 DEF IterInv, SentPart
      <4> QED BY <1>2, <2>4, <3>1, <3>3, <4>1, <4>2, TakesLeast
    <3> QED BY <2>3, <2>6, <3>2, <3>3
  <2> QED BY <2>5, <2>6 DEF SentPart
<1> QED BY <1>7, <1>8, <1>9, <1>10, <1>11 DEF IterInv

(* When all have reduced, every covered cell has its label, every other    *)
(* one has been swept, and a new iteration starts with nothing packed.     *)
LEMMA IterReduce ==
  ASSUME TypeOK, Looping, IterInv, AllReduce, Looping'
  PROVE  IterInv'
<1>1. PICK more \in {Rank, {}} : NextIteration(more)
  BY DEF AllReduce
<1>2. /\ UNCHANGED g /\ counter \in Nat /\ counter' = counter + 1
      /\ \A r \in Rank : ctl[r].at = "reduce" /\ ctl[r].mode = "iterate"
  BY <1>1, ControlFacts DEF NextIteration, TypeOK
<1>3. \A r \in Rank : ctl'[r].mode = "iterate" /\ ctl'[r].at = "fill" /\ ctl'[r].ln = 0
  BY <1>1 DEF NextIteration, Looping
<1>4. \A c \in Cell : /\ OwnerOf[c] \in Rank /\ LevelOf[c] \in Nat /\ LevelOf[c] \in Level
                      /\ Leaf(c)' <=> Leaf(c)
  BY CellFacts DEF Leaf, Covered
<1>5. /\ \A c \in Cell : ~ Sent("iterate", c)'
      /\ \A t \in Level, c \in Cell : FillOf(t, c)' = NotSent
  <2>1. msg' = [t \in Tag |-> IF t[1] \in {"fill", "iterate"}
                              THEN [c \in Cell |-> NotSent] ELSE msg[t]]
    BY <1>1 DEF NextIteration
  <2>2. \A t \in Level : <<"iterate", t>> \in Tag /\ <<"fill", t>> \in Tag
    BY DEF Tag
  <2> QED BY <1>4, <2>1, <2>2 DEF Sent, Packed, FillOf
<1>6. InitPart'
  BY <1>2, <1>3 DEF InitPart
<1>7. FillPart'
  BY <1>5 DEF FillPart
<1>8. CoveredPart'
  <2> SUFFICES ASSUME NEW c \in Cell, NEW e \in Children[c], Quiet(e)'
               PROVE  g'[c] <= g'[e]
    BY DEF CoveredPart
  <2>1. Leaf(e) /\ g[e] >= 0 /\ Taken(c)
    BY <1>2, <1>4, CellFacts DEF Quiet, Leaf, Covered, Taken, Place
  <2> QED BY <1>2, <2>1 DEF IterInv, SentPart
<1>9. SweptPart'
  <2>1. \A c \in Cell : ~ Swept(c)'
    BY <1>3, <1>4 DEF Swept, Place
  <2> QED BY <1>3, <2>1 DEF SweptPart
<1>10. SentPart'
  <2>1. \A c \in Cell : ~ Taken(c)'
    BY <1>3, <1>4 DEF Taken, Place
  <2> QED BY <1>5, <2>1 DEF SentPart
<1> QED BY <1>6, <1>7, <1>8, <1>9, <1>10 DEF IterInv

LEMMA IterInit == TypeOK /\ Init => SolidInv /\ IterInv
<1> SUFFICES ASSUME TypeOK, Init PROVE SolidInv /\ IterInv
  OBVIOUS
<1>1. \A c \in Cell : /\ OwnerOf[c] \in Rank /\ LevelOf[c] \in Nat /\ LevelOf[c] \in Level
                      /\ Number[c] \in Nat
  BY CellFacts, NumberAssumption
<1>2. /\ \A c \in Cell : ~ Sent("init", c) /\ ~ Sent("iterate", c)
      /\ \A t \in Level, c \in Cell : FillOf(t, c) = NotSent
  <2>1. msg = [t \in Tag |-> [c \in Cell |-> NotSent]]
    BY DEF Init
  <2>2. \A t \in Level : <<"iterate", t>> \in Tag /\ <<"fill", t>> \in Tag /\ <<"init", t>> \in Tag
    BY DEF Tag
  <2> QED BY <1>1, <2>1, <2>2 DEF Sent, Packed, FillOf
<1>3. SolidInv
  BY <1>1 DEF Init, SolidInv, None
<1>4. \A r \in Rank : \/ MaxLn > 0 /\ ctl[r] = [mode |-> "init", at |-> "send", ln |-> MaxLn, k |-> 1]
                      \/ ~ (MaxLn > 0)
                         /\ ctl[r] = [mode |-> "iterate", at |-> "fill", ln |-> 0, k |-> 1]
  BY DEF Init
<1>5. InitPart /\ FillPart
  BY <1>2 DEF Init, InitPart, FillPart
<1>6. SentPart /\ SweptPart
  <2>1. \A c \in Cell : ~ Taken(c) /\ ~ Swept(c)
    BY <1>1, <1>4 DEF Taken, Swept, Place
  <2>2. \A r \in Rank : ctl[r].at # "sweep"
    BY <1>4
  <2> QED BY <1>2, <2>1, <2>2 DEF SentPart, SweptPart
<1>7. CoveredPart
  <2>1. FallInv
    BY FallInit
  <2> QED BY <1>2, <2>1, CellFacts DEF CoveredPart, FallInv
<1> QED BY <1>3, <1>5, <1>6, <1>7 DEF IterInv

(* No step takes a cell out of its grain or lets one in.                   *)
LEMMA SolidStep ==
  ASSUME TypeOK, SolidInv, [Next]_vars
  PROVE  SolidInv'
<1>1. UNCHANGED solid
  BY DEF Next, RankStep, Send, Coarsen, Fill, SweepCell, EndSweep, Renumber, AllReduce,
         NextIteration, Gather, vars
<1>2. UNCHANGED g => SolidInv'
  BY <1>1 DEF SolidInv, Covered
<1>3. ASSUME \A c \in Cell : ~ Covered(c) => (g'[c] >= 0 <=> g[c] >= 0)
      PROVE  SolidInv'
  BY <1>1, <1>3 DEF SolidInv, Covered
<1>4. ASSUME NEW r \in Rank, SweepCell(r) PROVE SolidInv'
  <2>1. PICK s \in Cell :
          /\ \A c \in Cell : c # s => g'[c] = g[c]
          /\ ~ Updates(s) => g'[s] = g[s]
          /\ Updates(s) => ~ Covered(s) /\ g[s] >= 0 /\ g'[s] >= 0
    BY <1>4, SweepFacts
  <2> QED BY <1>3, <2>1
<1>5. ASSUME NEW r \in Rank, Renumber(r) PROVE SolidInv'
  <2>1. g' = [c \in Cell |-> IF OwnerOf[c] = r /\ g[c] >= 0 THEN GrainNumberMap(g[c]) ELSE g[c]]
    BY <1>5 DEF Renumber
  <2>2. \A c \in Cell : g[c] >= 0 => g[c] \in Nat /\ GrainNumberMap(g[c]) >= 0
    <3>1. \A c \in Cell : g[c] >= 0 => g[c] \in Nat
      BY DEF TypeOK, None
    <3>2. \A n \in Nat : GrainNumberMap(n) >= 0
      BY GrainNumberMapType
    <3> QED BY <3>1, <3>2
  <2> QED BY <1>3, <2>1, <2>2
<1>6. ASSUME NEW r \in Rank, Coarsen(r) PROVE SolidInv'
  <2>1. \A c \in Cell : ~ Covered(c) => g'[c] = g[c]
    BY <1>6 DEF Coarsen, TypeOK
  <2> QED BY <1>3, <2>1
<1>7. (\E r \in Rank : Send(r) \/ Fill(r) \/ EndSweep(r)) \/ AllReduce \/ Gather \/ UNCHANGED vars
        => UNCHANGED g
  BY DEF Send, Fill, EndSweep, AllReduce, NextIteration, Gather, vars
<1> QED BY <1>2, <1>4, <1>5, <1>6, <1>7 DEF Next, RankStep

(* No rank leaves the loop alone.                                          *)
LEMMA LeavesTogether ==
  ASSUME TypeOK, TypeOK', LoopInv, [Next]_vars, Looping, NEW q \in Rank, ctl'[q].mode = "final"
  PROVE  AllReduce
<1>1. FallInv /\ ctl[q].mode # "final"
  BY DEF LoopInv, Looping
<1>2. ASSUME NEW r \in Rank, RankStep(r) PROVE Looping'
  <2>1. CASE Send(r)
    BY <1>1, <2>1, FallSend
  <2>2. CASE Coarsen(r)
    BY <1>1, <2>2, FallCoarsen
  <2>3. CASE Fill(r)
    BY <1>1, <2>3, FallFill
  <2>4. CASE SweepCell(r)
    BY <1>1, <2>4, FallSweepCell
  <2>5. CASE EndSweep(r)
    BY <1>1, <2>5, FallEndSweep
  <2>6. CASE Renumber(r)
    BY <2>6, ControlFacts DEF Renumber, Looping
  <2> QED BY <1>2, <2>1, <2>2, <2>3, <2>4, <2>5, <2>6 DEF RankStep
<1>3. ~ Gather
  BY <1>1, ControlFacts DEF Gather
<1>4. ~ UNCHANGED vars
  BY <1>1 DEF vars
<1> QED BY <1>2, <1>3, <1>4 DEF Next, Looping

LEMMA IterStutter == IterInv /\ UNCHANGED vars => IterInv'
<1> SUFFICES ASSUME IterInv, UNCHANGED vars PROVE IterInv'
  OBVIOUS
<1>1. UNCHANGED <<g, ctl, msg, changed, counter>>
  BY DEF vars
<1>2. \A c \in Cell : /\ Quiet(c)' => Quiet(c) /\ g'[c] = g[c]
                      /\ Packed("init", c)' = Packed("init", c)
                      /\ Packed("iterate", c)' = Packed("iterate", c)
                      /\ Past(c) <=> Past(c)'
                      /\ Taken(c) <=> Taken(c)'
                      /\ Swept(c) <=> Swept(c)'
                      /\ Unsettled(c)' <=> Unsettled(c)
  BY <1>1 DEF Quiet, Leaf, Covered, Packed, Past, Taken, Swept, Unsettled, Place
<1>3. \A t \in Level, c \in Cell : FillOf(t, c)' = FillOf(t, c)
  BY <1>1 DEF FillOf
<1>4. InitPart'
  BY <1>1, <1>2, InitPartStep DEF IterInv
<1>5. FillPart'
  BY <1>2, <1>3, FillPartStep DEF IterInv
<1>6. CoveredPart'
  BY <1>1, <1>2, CoveredPartStep DEF IterInv
<1>7. SweptPart'
  BY <1>1, <1>2, SweptPartStep DEF IterInv
<1>8. SentPart'
  BY <1>1, <1>2, SentPartStep DEF IterInv
<1> QED BY <1>4, <1>5, <1>6, <1>7, <1>8 DEF IterInv

(* A rank that is there keeps the loop and what follows it apart.          *)
LEMMA IterNext ==
  ASSUME TypeOK, LoopInv, SameInv, [Next]_vars, Looping'
  PROVE  IterInv'
<1>1. CASE Rank = {}
  <2>1. Cell = {}
    BY <1>1, CellFacts
  <2> QED BY <1>1, <2>1 DEF IterInv, InitPart, FillPart, SentPart, CoveredPart, SweptPart
<1>2. CASE Rank # {} /\ ~ Looping
  <2>1. \A r \in Rank : ctl[r].mode = "final"
    BY <1>2 DEF LoopInv
  <2>2. \A q \in Rank : ctl'[q].mode = "final"
    BY <2>1, FinalStays
  <2> QED BY <1>2, <2>2 DEF Looping
<1>3. CASE Rank # {} /\ Looping
  <2>1. IterInv /\ FallInv
    BY <1>3 DEF SameInv, LoopInv, Looping
  <2>2. ASSUME NEW r \in Rank, RankStep(r) PROVE IterInv'
    <3>1. ~ Renumber(r)
      BY <1>3, ControlFacts DEF Renumber, Looping
    <3> QED BY <1>3, <2>1, <2>2, <3>1, IterSend, IterFill, IterSweep, IterEnd, IterCoarsen DEF RankStep
  <2>3. CASE AllReduce
    BY <1>3, <2>1, <2>3, IterReduce
  <2>4. CASE Gather
    BY <1>3, <2>4, ControlFacts DEF Gather, Looping
  <2>5. CASE UNCHANGED vars
    BY <2>1, <2>5, IterStutter
  <2> QED BY <2>2, <2>3, <2>4, <2>5 DEF Next
<1> QED BY <1>1, <1>2, <1>3

(* When the loop ends because nothing has changed, cells that touch have   *)
(* the same label.                                                         *)
LEMMA AgreeReduce ==
  ASSUME TypeOK, SolidInv, IterInv, AllReduce, \A r \in Rank : ctl'[r].mode = "final"
  PROVE  AgreeInv'
<1>1. PICK more \in {Rank, {}} :
        /\ NextIteration(more)
        /\ more = IF (\E r \in Rank : changed[r]) /\ counter + 1 < MaxIter THEN Rank ELSE {}
  BY DEF AllReduce
<1>2. /\ UNCHANGED <<g, solid>> /\ counter' = counter + 1
      /\ \A r \in Rank : ctl[r].at = "reduce" /\ ctl[r].mode = "iterate"
      /\ \A r \in Rank : r \notin more /\ ctl'[r].at = "gather"
  BY <1>1, ControlFacts DEF NextIteration
<1>3. \A c \in Cell : OwnerOf[c] \in Rank
  BY CellFacts
<1>4. \A c \in Cell : Old(c)'
  BY <1>2, <1>3 DEF Old, Place
<1>5. ASSUME Converged', NEW c \in solid, NEW d \in solid, Adjacent(c, d)
      PROVE  g[c] = g[d]
  <2>1. c \in Cell /\ d \in Cell /\ Leaf(c) /\ Leaf(d) /\ g[c] \in Nat /\ g[d] \in Nat
    <3>1. c \in Cell /\ d \in Cell /\ ~ Covered(c) /\ ~ Covered(d)
      BY <1>5 DEF TypeOK, Adjacent
    <3> QED BY <3>1 DEF SolidInv, Leaf, TypeOK, None
  <2>2. \A r \in Rank : ~ changed[r]
    BY <1>1, <1>2, <1>5 DEF Converged
  <2>3. Quiet(c) /\ Quiet(d) /\ Swept(c) /\ Swept(d)
    BY <1>2, <1>3, <2>1, <2>2 DEF Quiet, Swept, Place
  <2>4. d \in Peers(c) /\ c \in Peers(d)
    BY <1>5, <2>1, NeighbourAssumption DEF Adjacent, Peers, Leaf
  <2>5. g[c] <= g[d] /\ g[d] <= g[c]
    BY <2>1, <2>3, <2>4 DEF IterInv, SweptPart
  <2> QED BY <2>1, <2>5
<1>6. ASSUME Converged', NEW c \in solid', NEW d \in solid', Adjacent(c, d)'
      PROVE  (Old(c)' <=> Old(d)') => g'[c] = g'[d]
  <2>1. c \in solid /\ d \in solid /\ Adjacent(c, d)
    BY <1>2, <1>6 DEF Adjacent, Covered
  <2> QED BY <1>2, <1>5, <1>6, <2>1
<1>7. \A c \in solid' : c \in Cell
  BY <1>2 DEF TypeOK
<1> QED BY <1>2, <1>4, <1>6, <1>7 DEF AgreeInv

(* After the loop: the transfers do not touch the cells, and a rank gives  *)
(* its cells what the list of labels, the same for all, says.              *)
LEMMA AgreeNext ==
  ASSUME TypeOK, SolidInv, AgreeInv, \A r \in Rank : ctl[r].mode = "final", [Next]_vars
  PROVE  AgreeInv'
<1> USE DEF AgreeInv
<1>1. \A c \in Cell : OwnerOf[c] \in Rank
  BY CellFacts
<1>2. \A c, d : Adjacent(c, d)' <=> Adjacent(c, d)
  BY DEF Adjacent, Covered
<1>3. \A c \in solid : c \in Cell
  BY DEF TypeOK
<1>4. \A r \in Rank : ctl[r].at \notin {"fill", "sweep", "reduce"}
  BY ControlFacts
<1>s. ASSUME UNCHANGED <<counter, solid, grain_list>>,
             \A c \in Cell : ~ Covered(c) => g'[c] = g[c],
             \A c \in Cell : Old(c)' <=> Old(c),
             \A r \in Rank : ctl'[r].at = "gather" <=> ctl[r].at = "gather"
      PROVE  AgreeInv'
  <2>1. Converged' <=> Converged
    BY <1>s DEF Converged
  <2>2. \A n : GrainNumberMap(n)' = GrainNumberMap(n)
    BY <1>s DEF GrainNumberMap
  <2>3. ASSUME NEW c \in solid, NEW d \in solid, Adjacent(c, d)
        PROVE  g'[c] = g[c] /\ g'[d] = g[d] /\ (Old(c)' <=> Old(c)) /\ (Old(d)' <=> Old(d))
    BY <1>s, <1>3, <2>3 DEF Adjacent
  <2> QED BY <1>s, <1>2, <2>1, <2>2, <2>3
<1>5. ASSUME NEW r \in Rank, Send(r) PROVE AgreeInv'
  <2>1. UNCHANGED <<g, counter, solid, grain_list>> /\ ctl[r].at = "send" /\ ctl'[r].at = "recv"
        /\ \A q \in Rank : q # r => ctl'[q] = ctl[q]
    BY <1>5 DEF Send, Goto, TypeOK
  <2> QED BY <1>1, <1>s, <2>1 DEF Old, Place
<1>6. ASSUME NEW r \in Rank, Coarsen(r) PROVE AgreeInv'
  <2>1. /\ UNCHANGED <<counter, solid, grain_list>> /\ ctl[r].at = "recv"
        /\ AfterCoarsen(r, "final", ctl[r].ln)
        /\ \A c \in Cell : ~ Covered(c) => g'[c] = g[c]
    BY <1>6 DEF Coarsen, TypeOK
  <2>2. ctl'[r].at \in {"send", "done"} /\ \A q \in Rank : q # r => ctl'[q] = ctl[q]
    BY <2>1 DEF AfterCoarsen, Goto, TypeOK
  <2> QED BY <1>1, <1>s, <2>1, <2>2 DEF Old, Place
<1>7. ASSUME NEW r \in Rank, Renumber(r) PROVE AgreeInv'
  <2>1. /\ UNCHANGED <<counter, solid, grain_list>> /\ ctl[r].at = "renumber"
        /\ g' = [c \in Cell |-> IF OwnerOf[c] = r /\ g[c] >= 0 THEN GrainNumberMap(g[c]) ELSE g[c]]
        /\ ctl'[r].at \in {"send", "done"} /\ \A q \in Rank : q # r => ctl'[q] = ctl[q]
    BY <1>7 DEF Renumber, Goto, TypeOK
  <2>2. Converged' <=> Converged
    BY <2>1 DEF Converged
  <2>3. \A n : GrainNumberMap(n)' = GrainNumberMap(n)
    BY <2>1 DEF GrainNumberMap
  <2>4. \A q \in Rank : ctl[q].at # "gather" /\ ctl'[q].at # "gather"
    BY <2>1
  <2>5. \A c \in Cell : IF OwnerOf[c] = r THEN Old(c) /\ ~ Old(c)' ELSE Old(c)' <=> Old(c)
    BY <1>1, <2>1 DEF Old, Place
  <2>6. ASSUME NEW c \in solid, ~ Covered(c)
        PROVE  g'[c] = IF OwnerOf[c] = r THEN GrainNumberMap(g[c]) ELSE g[c]
    BY <1>3, <2>1, <2>6 DEF SolidInv
  <2>7. ASSUME Converged, NEW c \in solid, NEW d \in solid, Adjacent(c, d)
        PROVE  /\ (Old(c)' <=> Old(d)') => g'[c] = g'[d]
               /\ Old(c)' /\ ~ Old(d)' => g'[d] = GrainNumberMap(g'[c])
    <3>1. /\ g'[c] = IF OwnerOf[c] = r THEN GrainNumberMap(g[c]) ELSE g[c]
          /\ g'[d] = IF OwnerOf[d] = r THEN GrainNumberMap(g[d]) ELSE g[d]
          /\ Adjacent(d, c)
      BY <2>6, <2>7 DEF Adjacent
    <3>2. /\ (Old(c) <=> Old(d)) => g[c] = g[d]
          /\ Old(c) /\ ~ Old(d) => g[d] = GrainNumberMap(g[c])
          /\ Old(d) /\ ~ Old(c) => g[c] = GrainNumberMap(g[d])
      BY <2>7, <3>1
    <3> QED BY <1>3, <2>5, <3>1, <3>2
  <2> QED BY <1>2, <2>1, <2>2, <2>3, <2>4, <2>7
<1>8. CASE Gather
  <2>1. /\ UNCHANGED <<g, counter, solid>>
        /\ \A r \in Rank : ctl[r].at = "gather" /\ ctl'[r].at = "renumber"
    BY <1>8 DEF Gather
  <2>2. \A c \in Cell : Old(c) /\ Old(c)'
    BY <1>1, <2>1 DEF Old, Place
  <2>3. Converged' <=> Converged
    BY <2>1 DEF Converged
  <2> QED BY <1>2, <1>3, <2>1, <2>2, <2>3
<1>9. CASE AllReduce
  <2>1. Rank = {} /\ Cell = {} /\ solid' = {}
    <3>1. Rank = {}
      BY <1>4, <1>9 DEF AllReduce, NextIteration
    <3>2. Cell = {}
      BY <1>1, <3>1
    <3> QED BY <1>9, <3>1, <3>2 DEF AllReduce, NextIteration, TypeOK
  <2> QED BY <2>1
<1>10. CASE UNCHANGED vars
  BY <1>s, <1>10 DEF vars, Old, Place
<1>11. ASSUME NEW r \in Rank, Fill(r) \/ SweepCell(r) \/ EndSweep(r) PROVE AgreeInv'
  BY <1>4, <1>11 DEF Fill, SweepCell, EndSweep
<1> QED BY <1>5, <1>6, <1>7, <1>8, <1>9, <1>10, <1>11 DEF Next, RankStep

LEMMA SameNext ==
  ASSUME TypeOK, TypeOK', LoopInv, SameInv, [Next]_vars
  PROVE  SameInv'
<1>1. SolidInv'
  BY SolidStep DEF SameInv
<1>2. Looping' => IterInv'
  BY IterNext
<1>3. ASSUME \A r \in Rank : ctl'[r].mode = "final" PROVE AgreeInv'
  <2>1. CASE \A r \in Rank : ctl[r].mode = "final"
    BY <2>1, AgreeNext DEF SameInv
  <2>2. CASE Looping /\ ~ \A r \in Rank : ctl[r].mode = "final"
    <3>1. AllReduce
      BY <1>3, <2>2, LeavesTogether
    <3> QED BY <1>3, <2>2, <3>1, AgreeReduce DEF SameInv
  <2> QED BY <2>1, <2>2 DEF LoopInv
<1> QED BY <1>1, <1>2, <1>3 DEF SameInv

(***************************************************************************)
(* When the method reports convergence, neighbouring solid cells have the  *)
(* same number, across patches, ranks and levels, on any hierarchy and in  *)
(* any order of the ranks.                                                 *)
(* (the stopping test on any_changed in the loop of findAndNumberGrains)   *)
(***************************************************************************)
THEOREM NeighboursAgree == Spec => []SameGrainSameNumber
<1>1. TypeOK /\ Init => LoopInv /\ SameInv
  <2>1. TypeOK /\ Init => Looping /\ LoopInv /\ SolidInv /\ IterInv
    BY FallInit, IterInit DEF LoopInv
  <2>2. ASSUME Init, TypeOK, \A r \in Rank : ctl[r].mode = "final" PROVE AgreeInv
    <3>1. Rank = {} /\ Cell = {} /\ solid = {}
      <4>1. Rank = {}
        BY <2>2 DEF Init
      <4> QED BY <4>1, CellFacts, <2>2 DEF TypeOK
    <3> QED BY <3>1 DEF AgreeInv
  <2> QED BY <2>1, <2>2 DEF SameInv
<1>2. TypeOK /\ TypeOK' /\ LoopInv /\ SameInv /\ [Next]_vars => LoopInv' /\ SameInv'
  BY FallNext, SameNext
<1>3. TypeOK /\ SameInv => SameGrainSameNumber
  <2> SUFFICES ASSUME TypeOK, SameInv, Terminated, Converged,
                      NEW c \in solid, NEW d \in solid, Adjacent(c, d)
               PROVE  g[c] = g[d]
    BY DEF SameGrainSameNumber
  <2>1. \A r \in Rank : ctl[r].mode = "final" /\ ctl[r].at = "done"
    BY ControlFacts DEF Terminated
  <2>2. ~ Old(c) /\ ~ Old(d)
    BY <2>1, CellFacts DEF Old, Place, TypeOK
  <2> QED BY <2>1, <2>2 DEF SameInv, AgreeInv
<1> QED BY <1>1, <1>2, <1>3, TypeCorrect, PTL DEF Spec

-----------------------------------------------------------------------------
(***************************************************************************)
(* NumbersDense.  From the gathering on, the labels of the cells are those *)
(* of the list, or their numbers; after that a rank has taken the numbers  *)
(* of the finer level when it has passed it, and these stay as they are.   *)
(***************************************************************************)

(* The owner has packed the cell for the last transfer, and has given the  *)
(* covered cell the least number under it.                                 *)
Delivered(c) ==
  /\ Place(c).mode = "final"
  /\ \/ Place(c).at = "done"
     \/ Place(c).at \in {"send", "recv"} /\ Place(c).ln < LevelOf[c]
     \/ Place(c).at = "recv" /\ Place(c).ln = LevelOf[c]

Completed(c) ==
  /\ Place(c).mode = "final"
  /\ \/ Place(c).at = "done"
     \/ Place(c).at \in {"send", "recv"} /\ Place(c).ln <= LevelOf[c]

DeliverInv ==
  /\ \A c \in Cell : Sent("final", c) => Delivered(c) /\ Packed("final", c) = g[c]
  /\ \A c \in Cell : Covered(c) /\ Completed(c) =>
       /\ \A d \in Children[c] : Sent("final", d)
       /\ g[c] = MinInt({g[d] : d \in Children[c]})

SolidLeaves == {c \in solid : ~ Covered(c)}

(* Each label of the list is that of a cell, or its number is.             *)
ListInv ==
  /\ grain_list \in SUBSET Nat /\ IsFiniteSet(grain_list)
  /\ numberOfGrains = Cardinality(grain_list)
  /\ \A c \in SolidLeaves : IF Old(c) THEN g[c] \in grain_list
                            ELSE \E n \in grain_list : g[c] = GrainNumberMap(n)
  /\ \A n \in grain_list : \E c \in SolidLeaves :
       g[c] = IF Old(c) THEN n ELSE GrainNumberMap(n)

DenseInv ==
  /\ SolidInv
  /\ DeliverInv
  /\ \/ Looping
     \/ \A r \in Rank : ctl[r].at = "gather"
     \/ (\A r \in Rank : ctl[r].mode = "final" /\ ctl[r].at # "gather") /\ ListInv

(* What is enough where the rank's cells are neither packed nor complete.  *)
LEMMA DeliverStep ==
  ASSUME TypeOK, DeliverInv, NEW r \in Rank,
         \A q \in Rank : q # r => ctl'[q] = ctl[q],
         \A c \in Cell : OwnerOf[c] # r => g'[c] = g[c],
         \A c \in Cell : Packed("final", c)' = Packed("final", c),
         \A c \in Cell : OwnerOf[c] = r => ~ Delivered(c),
         \A c \in Cell : OwnerOf[c] = r /\ Covered(c) => ~ Completed(c)'
  PROVE  DeliverInv'
<1>1. \A c \in Cell : OwnerOf[c] \in Rank /\ \A d \in Children[c] : d \in Cell
  BY CellFacts
<1>2. \A c \in Cell : (Sent("final", c)' <=> Sent("final", c)) /\ (Covered(c)' <=> Covered(c))
  BY DEF Sent, Covered
<1>3. \A c \in Cell : OwnerOf[c] # r => (Delivered(c)' <=> Delivered(c)) /\ (Completed(c)' <=> Completed(c))
  BY <1>1 DEF Delivered, Completed, Place
<1>4. ASSUME NEW c \in Cell, Sent("final", c)' PROVE Delivered(c)' /\ Packed("final", c)' = g'[c]
  BY <1>2, <1>3, <1>4 DEF DeliverInv
<1>5. ASSUME NEW c \in Cell, Covered(c)', Completed(c)'
      PROVE  /\ \A d \in Children[c] : Sent("final", d)'
             /\ g'[c] = MinInt({g'[d] : d \in Children[c]})
  <2>1. Covered(c) /\ Completed(c) /\ g'[c] = g[c]
    BY <1>2, <1>3, <1>5
  <2>2. /\ \A d \in Children[c] : Sent("final", d)
        /\ g[c] = MinInt({g[d] : d \in Children[c]})
    BY <2>1 DEF DeliverInv
  <2>3. \A d \in Children[c] : g'[d] = g[d]
    BY <1>1, <2>2 DEF DeliverInv
  <2>4. {g'[d] : d \in Children[c]} = {g[d] : d \in Children[c]}
    BY <2>3
  <2> QED BY <1>1, <1>2, <2>1, <2>2, <2>4
<1> QED BY <1>4, <1>5 DEF DeliverInv, MinInt

LEMMA DeliverSend ==
  ASSUME TypeOK, DeliverInv, NEW r \in Rank, Send(r)
  PROVE  DeliverInv'
<1> DEFINE m == ctl[r].mode
           ln == ctl[r].ln
<1>1. m \in Mode /\ ln \in Level /\ ln \in Nat /\ ctl[r].at = "send" /\ UNCHANGED g
  BY ControlFacts DEF Send, Level
<1>2. Pack(<<m, ln>>, r, {ln}) /\ Goto(r, m, "recv", ln)
  BY DEF Send
<1>3. /\ ctl'[r].at = "recv" /\ ctl'[r].mode = m /\ ctl'[r].ln = ln
      /\ \A q \in Rank : q # r => ctl'[q] = ctl[q]
  BY <1>2 DEF Goto, TypeOK
<1> HIDE DEF m, ln
<1>4. \A c \in Cell : Packed("final", c)' = IF "final" = m /\ LevelOf[c] = ln /\ OwnerOf[c] = r
                                            THEN g[c] ELSE Packed("final", c)
  BY <1>1, <1>2, PackFacts DEF Mode
<1>5. \A c \in Cell : OwnerOf[c] \in Rank /\ LevelOf[c] \in Nat /\ (Covered(c)' <=> Covered(c))
  BY CellFacts DEF Covered
<1>6. \A c \in Cell : (Delivered(c) => Delivered(c)') /\ (Completed(c)' => Completed(c))
  BY <1>1, <1>3, <1>5 DEF Delivered, Completed, Place, m, ln
<1>7. \A c \in Cell : g[c] # NotSent
  BY DEF TypeOK, None, NotSent
<1>8. \A c \in Cell : Sent("final", c) => Sent("final", c)'
  BY <1>4, <1>7 DEF Sent
<1>9. ASSUME NEW c \in Cell, Sent("final", c)' PROVE Delivered(c)' /\ Packed("final", c)' = g'[c]
  <2>1. CASE "final" = m /\ LevelOf[c] = ln /\ OwnerOf[c] = r
    BY <1>1, <1>3, <1>4, <2>1 DEF Delivered, Place
  <2>2. CASE ~ ("final" = m /\ LevelOf[c] = ln /\ OwnerOf[c] = r)
    <3>1. Packed("final", c)' = Packed("final", c) /\ Sent("final", c)
      BY <1>4, <1>9, <2>2 DEF Sent
    <3> QED BY <1>1, <1>6, <3>1 DEF DeliverInv
  <2> QED BY <2>1, <2>2
<1>10. ASSUME NEW c \in Cell, Covered(c)', Completed(c)'
       PROVE  /\ \A d \in Children[c] : Sent("final", d)'
              /\ g'[c] = MinInt({g'[d] : d \in Children[c]})
  BY <1>1, <1>5, <1>6, <1>8, <1>10, CellFacts DEF DeliverInv
<1> QED BY <1>9, <1>10 DEF DeliverInv, MinInt

LEMMA DeliverCoarsen ==
  ASSUME TypeOK, DeliverInv, NEW r \in Rank, Coarsen(r)
  PROVE  DeliverInv'
<1> DEFINE m == ctl[r].mode
           ln == ctl[r].ln
           Target(c) == OwnerOf[c] = r /\ LevelOf[c] = ln - 1 /\ Covered(c)
<1>1. /\ m \in Mode /\ ln \in 1 .. MaxLn /\ ln \in Nat /\ ln - 1 \in Level /\ ctl[r].at = "recv"
      /\ UNCHANGED msg
  BY ControlFacts DEF Coarsen, Level
<1>2. Own[r][ln - 1] = {c \in Cell : OwnerOf[c] = r /\ LevelOf[c] = ln - 1}
  BY <1>1 DEF Own
<1>3. \A c \in Cell : c \in {e \in Own[r][ln - 1] : Covered(e)} <=> Target(c)
  BY <1>2
<1>4. /\ g' = [c \in Cell |-> IF c \in {e \in Own[r][ln - 1] : Covered(e)}
                              THEN MinInt({msg[<<m, ln>>][d] : d \in Children[c]}) ELSE g[c]]
      /\ \A c \in {e \in Own[r][ln - 1] : Covered(e)} :
           \A d \in Children[c] : msg[<<m, ln>>][d] # NotSent
      /\ AfterCoarsen(r, m, ln)
  BY DEF Coarsen
<1> HIDE DEF Target, m, ln
<1>t. \A c \in Cell : Target(c) <=> OwnerOf[c] = r /\ LevelOf[c] = ln - 1 /\ Covered(c)
  BY DEF Target
<1>5. \A c \in Cell : IF Target(c)
                      THEN /\ g'[c] = MinInt({msg[<<m, ln>>][d] : d \in Children[c]})
                           /\ \A d \in Children[c] : msg[<<m, ln>>][d] # NotSent
                      ELSE g'[c] = g[c]
  BY <1>3, <1>4
<1>6. /\ \A q \in Rank : q # r => ctl'[q] = ctl[q]
      /\ m # "final" => ctl'[r].mode # "final"
      /\ m = "final" => /\ ctl'[r].mode = "final"
                        /\ \/ ctl'[r].at = "send" /\ ctl'[r].ln = ln - 1
                           \/ ctl'[r].at = "done" /\ ln = 1
  BY <1>1, <1>4 DEF AfterCoarsen, Goto, TypeOK, Mode
<1>7. \A c \in Cell : Packed("final", c)' = Packed("final", c)
  BY <1>1 DEF Packed
<1>8. \A c \in Cell : /\ OwnerOf[c] \in Rank /\ LevelOf[c] \in Nat
                      /\ \A d \in Children[c] : d \in Cell /\ LevelOf[d] = LevelOf[c] + 1
  BY CellFacts
<1>9. CASE m # "final"
  <2>1. \A c \in Cell : OwnerOf[c] = r => ~ Delivered(c) /\ ~ Completed(c)'
    BY <1>6, <1>9 DEF Delivered, Completed, Place, m
  <2>2. \A c \in Cell : OwnerOf[c] # r => g'[c] = g[c]
    BY <1>5, <1>t
  <2> QED BY <1>6, <1>7, <2>1, <2>2, DeliverStep
<1>10. CASE m = "final"
  <2>1. \A c \in Cell : Sent("final", c)' <=> Sent("final", c)
    BY <1>7 DEF Sent
  <2>2. \A c \in Cell : Target(c) => ~ Delivered(c) /\ ~ Completed(c)
    BY <1>1, <1>t DEF Delivered, Completed, Place, ln
  <2>3. \A c \in Cell : Sent("final", c) => g'[c] = g[c]
    BY <1>5, <2>2 DEF DeliverInv
  <2>4. \A c \in Cell : Delivered(c) => Delivered(c)'
    BY <1>1, <1>6, <1>8, <1>10 DEF Delivered, Place, ln
  <2>5. ASSUME NEW c \in Cell, Sent("final", c)' PROVE Delivered(c)' /\ Packed("final", c)' = g'[c]
    BY <1>7, <2>1, <2>3, <2>4, <2>5 DEF DeliverInv
  <2>6. ASSUME NEW c \in Cell, Covered(c)', Completed(c)'
        PROVE  /\ \A d \in Children[c] : Sent("final", d)'
               /\ g'[c] = MinInt({g'[d] : d \in Children[c]})
    <3>1. Covered(c)
      BY <2>6 DEF Covered
    <3>2. CASE Target(c)
      <4>1. \A d \in Children[c] : Packed("final", d) = msg[<<m, ln>>][d]
        BY <1>1, <1>8, <1>10, <1>t, <3>2 DEF Packed
      <4>2. \A d \in Children[c] : Sent("final", d) /\ msg[<<m, ln>>][d] = g'[d]
        BY <1>5, <1>8, <2>3, <3>2, <4>1 DEF Sent, DeliverInv
      <4>3. {msg[<<m, ln>>][d] : d \in Children[c]} = {g'[d] : d \in Children[c]}
        BY <4>2
      <4> QED BY <1>5, <1>8, <2>1, <3>2, <4>2, <4>3
    <3>3. CASE ~ Target(c)
      <4>1. Completed(c)
        <5>1. CASE OwnerOf[c] # r
          BY <1>6, <1>8, <2>6, <5>1 DEF Completed, Place
        <5>2. CASE OwnerOf[c] = r
          <6>1. LevelOf[c] # ln - 1
            BY <1>t, <3>1, <3>3, <5>2
          <6>2. ctl'[r].at = "done" \/ ctl'[r].ln <= LevelOf[c]
            BY <2>6, <5>2 DEF Completed, Place
          <6>3. ln <= LevelOf[c]
            BY <1>1, <1>6, <1>8, <1>10, <6>1, <6>2
          <6> QED BY <1>1, <1>10, <5>2, <6>3 DEF Completed, Place, m, ln
        <5> QED BY <5>1, <5>2
      <4>2. /\ \A d \in Children[c] : Sent("final", d)
            /\ g[c] = MinInt({g[d] : d \in Children[c]})
        BY <3>1, <4>1 DEF DeliverInv
      <4>3. {g'[d] : d \in Children[c]} = {g[d] : d \in Children[c]}
        BY <1>8, <2>3, <4>2
      <4> QED BY <1>5, <1>8, <2>1, <3>3, <4>2, <4>3
    <3> QED BY <3>2, <3>3
  <2> QED BY <2>5, <2>6 DEF DeliverInv, MinInt
<1> QED BY <1>9, <1>10

LEMMA DeliverNext ==
  ASSUME TypeOK, DeliverInv, [Next]_vars
  PROVE  DeliverInv'
<1>1. ASSUME NEW r \in Rank, Fill(r) \/ EndSweep(r) \/ SweepCell(r) PROVE DeliverInv'
  <2>1. ctl[r].mode = "iterate"
    BY <1>1, ControlFacts DEF Fill, EndSweep, SweepCell
  <2>2. ctl'[r].mode = "iterate" /\ \A q \in Rank : q # r => ctl'[q] = ctl[q]
    <3>1. CASE Fill(r) \/ EndSweep(r)
      BY <3>1, Went DEF Fill, EndSweep
    <3>2. CASE SweepCell(r)
      BY <2>1, <3>2 DEF SweepCell, TypeOK, Control
    <3> QED BY <1>1, <3>1, <3>2
  <2>3. \A c \in Cell : OwnerOf[c] # r => g'[c] = g[c]
    <3>1. CASE Fill(r) \/ EndSweep(r)
      BY <3>1 DEF Fill, EndSweep
    <3>2. CASE SweepCell(r)
      <4>1. /\ OwnerOf[Order[r][ctl[r].ln][ctl[r].k]] = r
            /\ g' = [g EXCEPT ![Order[r][ctl[r].ln][ctl[r].k]] =
                              SweptLabel(Order[r][ctl[r].ln][ctl[r].k])]
        BY <3>2, SweptCell DEF SweepCell
      <4> QED BY <4>1 DEF TypeOK
    <3> QED BY <1>1, <3>1, <3>2
  <2>4. \A c \in Cell : Packed("final", c)' = Packed("final", c)
    <3>1. CASE Fill(r)
      BY <2>1, <3>1, ControlFacts, PackFacts DEF Fill, Mode
    <3>2. CASE EndSweep(r) \/ SweepCell(r)
      BY <3>2 DEF EndSweep, SweepCell, Packed
    <3> QED BY <1>1, <3>1, <3>2
  <2>5. \A c \in Cell : OwnerOf[c] = r => ~ Delivered(c) /\ ~ Completed(c)'
    BY <2>1, <2>2 DEF Delivered, Completed, Place
  <2> QED BY <2>2, <2>3, <2>4, <2>5, DeliverStep
<1>2. ASSUME NEW r \in Rank, Renumber(r) PROVE DeliverInv'
  <2>1. /\ ctl[r].at = "renumber" /\ UNCHANGED msg
        /\ \A c \in Cell : OwnerOf[c] # r => g'[c] = g[c]
    BY <1>2 DEF Renumber, TypeOK
  <2>2. IF MaxLn > 0 THEN Goto(r, "final", "send", MaxLn) ELSE Goto(r, "final", "done", 0)
    BY <1>2 DEF Renumber
  <2>3. /\ \A q \in Rank : q # r => ctl'[q] = ctl[q]
        /\ MaxLn > 0 => ctl'[r].at = "send" /\ ctl'[r].ln = MaxLn
    BY <2>2 DEF Goto, TypeOK
  <2>4. \A c \in Cell : OwnerOf[c] = r => ~ Delivered(c)
    BY <2>1 DEF Delivered, Place
  <2>5. ASSUME NEW c \in Cell, OwnerOf[c] = r, Covered(c) PROVE ~ Completed(c)'
    <3>1. LevelOf[c] + 1 <= MaxLn /\ LevelOf[c] \in Nat /\ MaxLn \in Nat
      <4>1. PICK d \in Children[c] : TRUE
        BY <2>5 DEF Covered
      <4> QED BY <4>1, CellFacts
    <3>2. ctl'[r].at = "send" /\ ctl'[r].ln = MaxLn
      BY <2>3, <3>1
    <3> QED BY <2>5, <3>1, <3>2 DEF Completed, Place
  <2> QED BY <2>1, <2>3, <2>4, <2>5, DeliverStep DEF Packed
<1>3. ASSUME \A q \in Rank : ctl[q].at \notin {"send", "recv", "done"},
             \A q \in Rank : ctl'[q].at \notin {"send", "recv", "done"},
             \A c \in Cell : Packed("final", c)' = Packed("final", c)
      PROVE  DeliverInv'
  <2>1. \A c \in Cell : ~ Delivered(c) /\ ~ Completed(c)'
    BY <1>3, CellFacts DEF Delivered, Completed, Place
  <2>2. \A c \in Cell : ~ Sent("final", c)'
    BY <1>3, <2>1 DEF DeliverInv, Sent
  <2> QED BY <2>1, <2>2 DEF DeliverInv
<1>4. CASE AllReduce
  <2>1. PICK more : NextIteration(more)
    BY <1>4 DEF AllReduce
  <2>2. /\ \A q \in Rank : ctl[q].at \notin {"send", "recv", "done"}
        /\ \A q \in Rank : ctl'[q].at \notin {"send", "recv", "done"}
        /\ msg' = [t \in Tag |-> IF t[1] \in {"fill", "iterate"}
                                 THEN [c \in Cell |-> NotSent] ELSE msg[t]]
    BY <2>1 DEF NextIteration
  <2>3. \A c \in Cell : Packed("final", c)' = Packed("final", c)
    <3>1. \A c \in Cell : <<"final", LevelOf[c]>> \in Tag
      BY CellFacts DEF Tag
    <3> QED BY <2>2, <3>1 DEF Packed
  <2> QED BY <1>3, <2>2, <2>3
<1>5. CASE Gather
  BY <1>3, <1>5 DEF Gather, Packed
<1>6. CASE UNCHANGED vars
  <2>1. UNCHANGED <<g, ctl, msg>>
    BY <1>6 DEF vars
  <2> QED BY <2>1 DEF DeliverInv, Sent, Packed, Delivered, Completed, Place, Covered, MinInt
<1> QED BY <1>1, <1>2, <1>4, <1>5, <1>6, DeliverSend, DeliverCoarsen DEF Next, RankStep

(* The list of the labels, gathered.                                       *)
LEMMA ListGather ==
  ASSUME TypeOK, SolidInv, Gather
  PROVE  ListInv' /\ \A r \in Rank : ctl'[r].mode = "final" /\ ctl'[r].at = "renumber"
<1>1. /\ UNCHANGED <<g, solid>> /\ grain_list' = UNION {LocalList(r) : r \in Rank}
      /\ numberOfGrains' = Cardinality(grain_list')
      /\ \A r \in Rank : ctl'[r].mode = "final" /\ ctl'[r].at = "renumber"
  BY DEF Gather
<1>2. grain_list' \in SUBSET Nat /\ IsFiniteSet(grain_list')
  BY <1>1, ListFinite
<1>3. \A c \in Cell : Old(c)' /\ OwnerOf[c] \in Rank
  BY <1>1, CellFacts DEF Old, Place
<1>4. SolidLeaves' = SolidLeaves /\ \A c \in SolidLeaves : c \in Cell /\ ~ Covered(c) /\ g[c] >= 0
  BY <1>1 DEF SolidLeaves, Covered, SolidInv, TypeOK
<1>5. ASSUME NEW c \in SolidLeaves PROVE g[c] \in grain_list'
  <2>1. g[c] \in LocalList(OwnerOf[c])
    BY <1>4 DEF LocalList
  <2> QED BY <1>1, <1>3, <1>4, <2>1
<1>6. ASSUME NEW n \in grain_list' PROVE \E c \in SolidLeaves : g[c] = n
  <2>1. PICK c \in Cell : ~ Covered(c) /\ g[c] >= 0 /\ g[c] = n
    BY <1>1, <1>6 DEF LocalList
  <2> QED BY <2>1 DEF SolidLeaves, SolidInv
<1>7. \A c \in SolidLeaves' : IF Old(c)' THEN g'[c] \in grain_list'
                              ELSE \E n \in grain_list' : g'[c] = GrainNumberMap(n)'
  BY <1>1, <1>3, <1>4, <1>5
<1>8. \A n \in grain_list' : \E c \in SolidLeaves' :
        g'[c] = IF Old(c)' THEN n ELSE GrainNumberMap(n)'
  BY <1>1, <1>3, <1>4, <1>6
<1> QED BY <1>1, <1>2, <1>7, <1>8 DEF ListInv

LEMMA ListStep ==
  ASSUME TypeOK, SolidInv, ListInv, [Next]_vars,
         \A r \in Rank : ctl[r].mode = "final" /\ ctl[r].at # "gather"
  PROVE  ListInv' /\ \A r \in Rank : ctl'[r].mode = "final" /\ ctl'[r].at # "gather"
<1>0. PICK q \in Rank : TRUE
  BY RankAssumption
<1>1. /\ \A r \in Rank : ctl[r].at \notin {"fill", "sweep", "reduce"}
      /\ \A r \in Rank : ctl'[r].mode = "final"
  BY ControlFacts, FinalStays
<1>2. ~ AllReduce /\ ~ Gather
  BY <1>0, <1>1 DEF AllReduce, NextIteration, Gather
<1>3. \A r \in Rank : ~ Fill(r) /\ ~ SweepCell(r) /\ ~ EndSweep(r)
  BY <1>1 DEF Fill, SweepCell, EndSweep
<1>4. \A c \in SolidLeaves : c \in Cell /\ ~ Covered(c) /\ g[c] >= 0 /\ OwnerOf[c] \in Rank
  BY CellFacts DEF SolidLeaves, SolidInv, TypeOK
<1>s. ASSUME UNCHANGED <<solid, grain_list, numberOfGrains>>,
             \A c \in Cell : ~ Covered(c) => g'[c] = g[c],
             \A c \in Cell : Old(c)' <=> Old(c)
      PROVE  ListInv'
  <2>1. SolidLeaves' = SolidLeaves /\ \A n : GrainNumberMap(n)' = GrainNumberMap(n)
    BY <1>s DEF SolidLeaves, Covered, GrainNumberMap
  <2>2. \A c \in SolidLeaves : g'[c] = g[c] /\ (Old(c)' <=> Old(c))
    BY <1>4, <1>s
  <2>3. \A c \in SolidLeaves' : IF Old(c)' THEN g'[c] \in grain_list'
                                ELSE \E n \in grain_list' : g'[c] = GrainNumberMap(n)'
    BY <1>s, <2>1, <2>2 DEF ListInv
  <2>4. \A n \in grain_list' : \E c \in SolidLeaves' :
          g'[c] = IF Old(c)' THEN n ELSE GrainNumberMap(n)'
    BY <1>s, <2>1, <2>2 DEF ListInv
  <2> QED BY <1>s, <2>3, <2>4 DEF ListInv
<1>5. ASSUME NEW r \in Rank, Send(r)
      PROVE  ListInv' /\ \A p \in Rank : ctl'[p].at # "gather"
  <2>1. /\ UNCHANGED <<g, solid, grain_list, numberOfGrains>>
        /\ ctl[r].at = "send" /\ ctl'[r].at = "recv" /\ \A p \in Rank : p # r => ctl'[p] = ctl[p]
    BY <1>5 DEF Send, Goto, TypeOK
  <2>2. \A c \in Cell : Old(c)' <=> Old(c)
    BY <2>1, CellFacts DEF Old, Place
  <2> QED BY <1>s, <2>1, <2>2
<1>6. ASSUME NEW r \in Rank, Coarsen(r)
      PROVE  ListInv' /\ \A p \in Rank : ctl'[p].at # "gather"
  <2>1. /\ UNCHANGED <<solid, grain_list, numberOfGrains>> /\ ctl[r].at = "recv"
        /\ AfterCoarsen(r, "final", ctl[r].ln)
        /\ \A c \in Cell : ~ Covered(c) => g'[c] = g[c]
    BY <1>6 DEF Coarsen, TypeOK
  <2>2. ctl'[r].at \in {"send", "done"} /\ \A p \in Rank : p # r => ctl'[p] = ctl[p]
    BY <2>1 DEF AfterCoarsen, Goto, TypeOK
  <2>3. \A c \in Cell : Old(c)' <=> Old(c)
    BY <2>1, <2>2, CellFacts DEF Old, Place
  <2> QED BY <1>s, <2>1, <2>2, <2>3
<1>7. ASSUME NEW r \in Rank, Renumber(r)
      PROVE  ListInv' /\ \A p \in Rank : ctl'[p].at # "gather"
  <2>1. /\ UNCHANGED <<solid, grain_list, numberOfGrains>> /\ ctl[r].at = "renumber"
        /\ g' = [c \in Cell |-> IF OwnerOf[c] = r /\ g[c] >= 0 THEN GrainNumberMap(g[c]) ELSE g[c]]
        /\ ctl'[r].at \in {"send", "done"} /\ \A p \in Rank : p # r => ctl'[p] = ctl[p]
    BY <1>7 DEF Renumber, Goto, TypeOK
  <2>2. SolidLeaves' = SolidLeaves /\ \A n : GrainNumberMap(n)' = GrainNumberMap(n)
    BY <2>1 DEF SolidLeaves, Covered, GrainNumberMap
  <2>3. \A c \in Cell : IF OwnerOf[c] = r THEN Old(c) /\ ~ Old(c)' ELSE Old(c)' <=> Old(c)
    BY <2>1, CellFacts DEF Old, Place
  <2>4. \A c \in SolidLeaves : IF OwnerOf[c] = r THEN Old(c) /\ ~ Old(c)' /\ g'[c] = GrainNumberMap(g[c])
                               ELSE (Old(c)' <=> Old(c)) /\ g'[c] = g[c]
    BY <1>4, <2>1, <2>3
  <2>5. \A c \in SolidLeaves' : IF Old(c)' THEN g'[c] \in grain_list'
                                ELSE \E n \in grain_list' : g'[c] = GrainNumberMap(n)'
    <3> SUFFICES ASSUME NEW c \in SolidLeaves
                 PROVE  IF Old(c)' THEN g'[c] \in grain_list
                        ELSE \E n \in grain_list : g'[c] = GrainNumberMap(n)
      BY <2>1, <2>2
    <3>1. CASE OwnerOf[c] = r
      BY <2>4, <3>1 DEF ListInv
    <3>2. CASE OwnerOf[c] # r
      BY <2>4, <3>2 DEF ListInv
    <3> QED BY <3>1, <3>2
  <2>6. ASSUME NEW n \in grain_list'
        PROVE  \E c \in SolidLeaves' : g'[c] = IF Old(c)' THEN n ELSE GrainNumberMap(n)'
    <3>1. PICK c \in SolidLeaves : g[c] = IF Old(c) THEN n ELSE GrainNumberMap(n)
      BY <2>1 DEF ListInv
    <3>2. g'[c] = IF Old(c)' THEN n ELSE GrainNumberMap(n)'
      BY <2>2, <2>4, <3>1
    <3> QED BY <2>2, <3>2
  <2> QED BY <2>1, <2>5, <2>6 DEF ListInv
<1>8. CASE UNCHANGED vars
  <2>1. UNCHANGED <<g, ctl, solid, grain_list, numberOfGrains>>
    BY <1>8 DEF vars
  <2>2. \A c \in Cell : Old(c)' <=> Old(c)
    BY <2>1 DEF Old, Place
  <2> QED BY <1>s, <2>1, <2>2
<1> QED BY <1>1, <1>2, <1>3, <1>5, <1>6, <1>7, <1>8 DEF Next, RankStep

LEMMA DenseNext ==
  ASSUME TypeOK, TypeOK', LoopInv, DenseInv, [Next]_vars
  PROVE  DenseInv'
<1>1. SolidInv' /\ DeliverInv'
  BY SolidStep, DeliverNext DEF DenseInv
<1>2. CASE Looping
  <2>1. CASE AllReduce
    <3>1. PICK more \in {Rank, {}} : NextIteration(more)
      BY <2>1 DEF AllReduce
    <3>2. Looping' \/ \A r \in Rank : ctl'[r].at = "gather"
      BY <3>1 DEF NextIteration, Looping
    <3> QED BY <1>1, <3>2 DEF DenseInv
  <2>2. CASE ~ AllReduce
    <3>1. Looping'
      BY <1>2, <2>2, LeavesTogether DEF Looping
    <3> QED BY <1>1, <3>1 DEF DenseInv
  <2> QED BY <2>1, <2>2
<1>3. CASE \A r \in Rank : ctl[r].at = "gather"
  <2>1. CASE Gather
    BY <1>1, <2>1, ListGather DEF DenseInv
  <2>2. CASE UNCHANGED vars
    BY <1>1, <1>3, <2>2 DEF DenseInv, vars
  <2>3. PICK q \in Rank : TRUE
    BY RankAssumption
  <2>4. ~ AllReduce /\ \A r \in Rank : ~ RankStep(r)
    BY <1>3, <2>3 DEF AllReduce, NextIteration, RankStep, Send, Coarsen, Fill, SweepCell,
                      EndSweep, Renumber
  <2> QED BY <2>1, <2>2, <2>4 DEF Next
<1>4. CASE (\A r \in Rank : ctl[r].mode = "final" /\ ctl[r].at # "gather") /\ ListInv
  BY <1>1, <1>4, ListStep DEF DenseInv
<1> QED BY <1>2, <1>3, <1>4 DEF DenseInv

LEMMA DenseInit == TypeOK /\ Init => LoopInv /\ DenseInv
<1> SUFFICES ASSUME TypeOK, Init PROVE LoopInv /\ DenseInv
  OBVIOUS
<1>1. Looping /\ LoopInv /\ SolidInv
  BY FallInit, IterInit DEF LoopInv
<1>2. DeliverInv
  <2>1. \A r \in Rank : ctl[r].mode # "final"
    BY <1>1 DEF Looping
  <2>2. \A c \in Cell : ~ Completed(c)
    BY <2>1, CellFacts DEF Completed, Place
  <2>3. \A c \in Cell : ~ Sent("final", c)
    <3>1. \A c \in Cell : <<"final", LevelOf[c]>> \in Tag
      BY CellFacts DEF Tag
    <3> QED BY <3>1 DEF Init, Sent, Packed
  <2> QED BY <2>2, <2>3 DEF DeliverInv
<1> QED BY <1>1, <1>2 DEF DenseInv

(***************************************************************************)
(* At the end the numbers in use are exactly 0 .. numberOfGrains-1, a      *)
(* covered cell has the least number under it, and the cells of the grains *)
(* are those that have a number.  (the renumbering and the last transfer)  *)
(***************************************************************************)
THEOREM NumbersInUse == Spec => []NumbersDense
<1>1. TypeOK /\ Init => LoopInv /\ DenseInv
  BY DenseInit
<1>2. TypeOK /\ TypeOK' /\ LoopInv /\ DenseInv /\ [Next]_vars => LoopInv' /\ DenseInv'
  BY FallNext, DenseNext
<1>3. TypeOK /\ DenseInv => NumbersDense
  <2> SUFFICES ASSUME TypeOK, DenseInv, Terminated
               PROVE  /\ {g[c] : c \in {d \in Cell : ~ Covered(d) /\ d \in solid}}
                           = 0 .. numberOfGrains - 1
                      /\ \A c \in Cell : Covered(c) => g[c] = MinInt({g[d] : d \in Children[c]})
                      /\ \A c \in Cell : ~ Covered(c) => (g[c] >= 0 <=> c \in solid)
    BY DEF NumbersDense
  <2>1. PICK q \in Rank : TRUE
    BY RankAssumption
  <2>2. \A r \in Rank : ctl[r].mode = "final" /\ ctl[r].at = "done"
    BY ControlFacts DEF Terminated
  <2>3. ListInv
    BY <2>1, <2>2 DEF DenseInv, Looping
  <2>4. \A c \in Cell : ~ Old(c) /\ Completed(c)
    BY <2>2, CellFacts DEF Old, Completed, Place
  <2>5. SolidLeaves = {d \in Cell : ~ Covered(d) /\ d \in solid}
    BY DEF SolidLeaves, TypeOK
  <2>6. {g[c] : c \in SolidLeaves} = {GrainNumberMap(n) : n \in grain_list}
    <3>1. \A c \in SolidLeaves : \E n \in grain_list : g[c] = GrainNumberMap(n)
      BY <2>3, <2>4, <2>5 DEF ListInv
    <3>2. \A n \in grain_list : \E c \in SolidLeaves : g[c] = GrainNumberMap(n)
      BY <2>3, <2>4, <2>5 DEF ListInv
    <3> QED BY <3>1, <3>2
  <2>7. {GrainNumberMap(n) : n \in grain_list}
          = {Cardinality({m \in grain_list : m < n}) : n \in grain_list}
    BY DEF GrainNumberMap
  <2>8. {g[c] : c \in SolidLeaves} = 0 .. numberOfGrains - 1
    BY <2>3, <2>6, <2>7, CountBelow DEF ListInv
  <2>9. \A c \in Cell : Covered(c) => g[c] = MinInt({g[d] : d \in Children[c]})
    BY <2>4 DEF DenseInv, DeliverInv
  <2> QED BY <2>5, <2>8, <2>9 DEF DenseInv, SolidInv
<1> QED BY <1>1, <1>2, <1>3, TypeCorrect, PTL DEF Spec

-----------------------------------------------------------------------------
(***************************************************************************)
(* GrainsSeparated.  A set of solid cells that no neighbour leaves is      *)
(* closed on one level, so its labels are numbers of its own cells; the    *)
(* renumbering is injective on the labels in use.                          *)
(***************************************************************************)
OneLevelUnique ==
  MaxLn = 0 /\ \A c, d \in Cell : Number[c] = Number[d] => c = d

SeparateInv ==
  \A S \in SUBSET solid : Isolated(S) =>
    \A c \in S : ~ Numbering(OwnerOf[c]) =>
      \E n \in Origins(S) : n \in grain_list /\ g[c] = GrainNumberMap(n)

LEMMA OneLevelCell ==
  ASSUME MaxLn = 0, NEW c \in Cell
  PROVE  ~ Covered(c) /\ Children[c] = {} /\ Leaves[c] = {c}
<1>1. \A d \in Cell : LevelOf[d] \in 0 .. 0
  BY CellFacts DEF Level
<1>2. Children[c] = {}
  <2> SUFFICES ASSUME NEW d \in Children[c] PROVE FALSE
    OBVIOUS
  <2>1. d \in Cell /\ LevelOf[d] = LevelOf[c] + 1
    BY CellFacts
  <2>2. LevelOf[d] = 0 /\ LevelOf[c] = 0
    BY <1>1, <2>1
  <2> QED BY <2>1, <2>2
<1> QED BY <1>2, LeavesAssumption DEF Covered

LEMMA IsolatedClosed ==
  ASSUME MaxLn = 0, TypeOK, NEW S \in SUBSET solid, Isolated(S)
  PROVE  S \in SUBSET Cell /\ Closed(S)
<1>1. S \in SUBSET Cell /\ \A c \in solid : c \in Cell
  BY DEF TypeOK
<1>2. ASSUME NEW c \in S, NEW d \in Inflow(c), Live(d) PROVE d \in S
  <2>1. ~ Covered(c) /\ d \in Reads[c]
    BY <1>1, <1>2, OneLevelCell DEF Inflow
  <2>2. d \in Cell
    <3>1. Sources[c] \in Seq(Cell \cup {NoCell}) /\ c \in Cell
      BY <1>1, HierarchyAssumption
    <3>2. \A i \in DOMAIN Sources[c] : Sources[c][i] \in Cell \cup {NoCell}
      BY <3>1
    <3>3. Reads[c] = {Sources[c][i] : i \in DOMAIN Sources[c]} \ {NoCell}
      BY <3>1 DEF Reads
    <3> QED BY <2>1, <3>2, <3>3
  <2>3. d \in solid /\ ~ Covered(d)
    BY <1>2, <2>2, OneLevelCell DEF Live
  <2> QED BY <2>1, <2>3 DEF Isolated, Adjacent
<1> QED BY <1>1, <1>2 DEF Closed

(* Before a rank renumbers, its labels are of the set and in the list.     *)
LEMMA SeparateLabel ==
  ASSUME MaxLn = 0, OriginInv, SolidInv, NEW S \in SUBSET solid, Isolated(S), NEW c \in S,
         Numbering(OwnerOf[c])
  PROVE  g[c] \in Origins(S)
<1>1. S \in SUBSET Cell /\ Closed(S) /\ TypeOK
  BY IsolatedClosed DEF OriginInv
<1>2. c \in Cell /\ ~ Covered(c)
  BY <1>1, OneLevelCell
<1>3. ~ Unsettled(c) /\ g[c] >= 0
  BY <1>2 DEF Unsettled, SolidInv
<1>4. OriginsIn(S)
  BY <1>1 DEF OriginInv
<1> QED BY <1>3, <1>4 DEF OriginsIn

LEMMA SeparateNext ==
  ASSUME MaxLn = 0, TypeOK, OriginInv, DenseInv, SeparateInv, [Next]_vars
  PROVE  SeparateInv'
<1>1. /\ \A c \in solid : c \in Cell /\ ~ Covered(c) /\ OwnerOf[c] \in Rank
      /\ SolidInv
  BY OneLevelCell, CellFacts DEF TypeOK, DenseInv
<1>2. \A r \in Rank : ctl[r].at \notin {"send", "recv"}
  <2>1. 1 .. 0 = {}
    OBVIOUS
  <2> QED BY <2>1, ControlFacts
<1>3. solid' = solid /\ \A S : Isolated(S)' <=> Isolated(S)
  <2>1. solid' = solid
    BY DEF Next, RankStep, Send, Coarsen, Fill, SweepCell, EndSweep, Renumber, AllReduce,
           NextIteration, Gather, vars
  <2> QED BY <2>1 DEF Isolated, Adjacent, Covered
<1>4. \A S : Origins(S)' = Origins(S)
  BY <1>3 DEF Origins, Covered
<1>5. ASSUME NEW r \in Rank, Fill(r) \/ SweepCell(r) \/ EndSweep(r)
      PROVE  SeparateInv'
  <2>1. ctl[r].mode = "iterate" /\ grain_list' = grain_list
    BY <1>5, ControlFacts DEF Fill, SweepCell, EndSweep
  <2>2. ctl'[r].mode = "iterate" /\ \A q \in Rank : q # r => ctl'[q] = ctl[q]
    <3>1. CASE Fill(r) \/ EndSweep(r)
      BY <3>1, Went DEF Fill, EndSweep
    <3>2. CASE SweepCell(r)
      BY <2>1, <3>2 DEF SweepCell, TypeOK, Control
    <3> QED BY <1>5, <3>1, <3>2
  <2>3. \A c \in Cell : OwnerOf[c] # r => g'[c] = g[c]
    <3>1. CASE Fill(r) \/ EndSweep(r)
      BY <3>1 DEF Fill, EndSweep
    <3>2. CASE SweepCell(r)
      <4>1. /\ OwnerOf[Order[r][ctl[r].ln][ctl[r].k]] = r
            /\ g' = [g EXCEPT ![Order[r][ctl[r].ln][ctl[r].k]] =
                              SweptLabel(Order[r][ctl[r].ln][ctl[r].k])]
        BY <3>2, SweptCell DEF SweepCell
      <4> QED BY <4>1 DEF TypeOK
    <3> QED BY <1>5, <3>1, <3>2
  <2>4. \A c \in solid : ~ Numbering(OwnerOf[c])' => ~ Numbering(OwnerOf[c]) /\ g'[c] = g[c]
    BY <1>1, <2>2, <2>3 DEF Numbering
  <2>5. \A n : GrainNumberMap(n)' = GrainNumberMap(n)
    BY <2>1 DEF GrainNumberMap
  <2> QED BY <1>3, <1>4, <2>1, <2>4, <2>5 DEF SeparateInv
<1>6. ASSUME NEW r \in Rank, Renumber(r)
      PROVE  SeparateInv'
  <2>1. /\ ctl[r].at = "renumber" /\ ctl[r].mode = "final" /\ grain_list' = grain_list
        /\ g' = [c \in Cell |-> IF OwnerOf[c] = r /\ g[c] >= 0 THEN GrainNumberMap(g[c]) ELSE g[c]]
        /\ \A q \in Rank : q # r => ctl'[q] = ctl[q]
    BY <1>6, ControlFacts DEF Renumber, Goto, TypeOK
  <2>2. \A n : GrainNumberMap(n)' = GrainNumberMap(n)
    BY <2>1 DEF GrainNumberMap
  <2>3. ListInv
    BY <2>1 DEF DenseInv, Looping
  <2>4. ASSUME NEW S \in SUBSET solid, Isolated(S), NEW c \in S, ~ Numbering(OwnerOf[c])'
        PROVE  \E n \in Origins(S) : n \in grain_list /\ g'[c] = GrainNumberMap(n)
    <3>1. c \in solid /\ c \in Cell /\ ~ Covered(c) /\ OwnerOf[c] \in Rank
      BY <1>1, <2>4
    <3>2. CASE OwnerOf[c] = r
      <4>1. Numbering(OwnerOf[c]) /\ Old(c)
        BY <2>1, <3>2 DEF Numbering, Old, Place
      <4>2. g[c] \in Origins(S)
        BY <1>1, <2>4, <4>1, SeparateLabel
      <4>3. g[c] \in grain_list
        BY <2>3, <3>1, <4>1 DEF ListInv, SolidLeaves
      <4>4. g'[c] = GrainNumberMap(g[c])
        BY <1>1, <2>1, <3>1, <3>2 DEF SolidInv
      <4> QED BY <4>2, <4>3, <4>4
    <3>3. CASE OwnerOf[c] # r
      <4>1. g'[c] = g[c] /\ ~ Numbering(OwnerOf[c])
        BY <2>1, <2>4, <3>1, <3>3 DEF Numbering
      <4> QED BY <2>4, <4>1 DEF SeparateInv
    <3> QED BY <3>2, <3>3
  <2> QED BY <1>3, <1>4, <2>1, <2>2, <2>4 DEF SeparateInv
<1>7. CASE AllReduce \/ Gather
  <2>1. \A r \in Rank : Numbering(r)'
    <3>1. CASE AllReduce
      <4>1. PICK more : NextIteration(more)
        BY <3>1 DEF AllReduce
      <4>2. \A r \in Rank : ctl'[r].mode = "iterate" \/ ctl'[r].at = "gather"
        BY <4>1 DEF NextIteration
      <4> QED BY <4>2 DEF Numbering
    <3>2. CASE Gather
      BY <3>2 DEF Gather, Numbering
    <3> QED BY <1>7, <3>1, <3>2
  <2> QED BY <1>1, <1>3, <2>1 DEF SeparateInv
<1>8. CASE UNCHANGED vars
  <2>1. UNCHANGED <<g, ctl, grain_list>>
    BY <1>8 DEF vars
  <2>2. \A n : GrainNumberMap(n)' = GrainNumberMap(n)
    BY <2>1 DEF GrainNumberMap
  <2>3. \A r : Numbering(r)' <=> Numbering(r)
    BY <2>1 DEF Numbering
  <2> QED BY <1>3, <1>4, <2>1, <2>2, <2>3 DEF SeparateInv
<1>9. \A r \in Rank : ~ Send(r) /\ ~ Coarsen(r)
  BY <1>2 DEF Send, Coarsen
<1> QED BY <1>5, <1>6, <1>7, <1>8, <1>9 DEF Next, RankStep

(***************************************************************************)
(* On one level, where no two cells have the same number, two grains that  *)
(* do not touch get different numbers.  (the numbers of the cells, the     *)
(* bucket fill and the renumbering together)                               *)
(***************************************************************************)
THEOREM GrainsAreApart ==
  ASSUME OneLevelUnique
  PROVE  Spec => []GrainsSeparated
<1>1. MaxLn = 0
  BY DEF OneLevelUnique
<1>2. TypeOK /\ Init => LoopInv /\ SeparateInv /\ OriginInv /\ DenseInv
  <2> SUFFICES ASSUME TypeOK, Init PROVE LoopInv /\ SeparateInv /\ OriginInv /\ DenseInv
    OBVIOUS
  <2>1. LoopInv /\ DenseInv /\ Looping
    BY DenseInit, FallInit
  <2>2. SeparateInv
    <3>1. \A c \in solid : Numbering(OwnerOf[c])
      BY <2>1, CellFacts DEF Looping, Numbering, TypeOK
    <3> QED BY <3>1 DEF SeparateInv
  <2> QED BY <2>1, <2>2, OriginInit DEF OriginInv
<1>3. TypeOK /\ TypeOK' /\ LoopInv /\ SeparateInv /\ OriginInv /\ DenseInv /\ [Next]_vars
        => LoopInv' /\ SeparateInv' /\ OriginInv' /\ DenseInv'
  BY <1>1, FallNext, DenseNext, OriginNext, SeparateNext
<1>4. TypeOK /\ SeparateInv /\ DenseInv => GrainsSeparated
  <2> SUFFICES ASSUME TypeOK, SeparateInv, DenseInv, Terminated,
                      NEW c \in solid, NEW d \in solid, g[c] = g[d],
                      NEW S \in SUBSET solid, c \in S, Isolated(S), d \notin S
               PROVE  FALSE
    BY DEF GrainsSeparated, SameGrain
  <2> DEFINE T == solid \ S
  <2>1. \A r \in Rank : ctl[r].mode = "final" /\ ctl[r].at = "done"
    BY ControlFacts DEF Terminated
  <2>2. c \in Cell /\ d \in Cell /\ OwnerOf[c] \in Rank /\ OwnerOf[d] \in Rank
    BY CellFacts DEF TypeOK
  <2>3. ~ Numbering(OwnerOf[c]) /\ ~ Numbering(OwnerOf[d])
    BY <2>1, <2>2 DEF Numbering
  <2>4. Isolated(T) /\ d \in T /\ T \in SUBSET solid
    BY DEF Isolated, Adjacent
  <2>5. PICK n \in Origins(S) : n \in grain_list /\ g[c] = GrainNumberMap(n)
    BY <2>3 DEF SeparateInv
  <2>6. PICK m \in Origins(T) : m \in grain_list /\ g[d] = GrainNumberMap(m)
    BY <2>3, <2>4 DEF SeparateInv
  <2>7. grain_list \in SUBSET Nat /\ IsFiniteSet(grain_list)
    <3>1. PICK q \in Rank : TRUE
      BY RankAssumption
    <3> QED BY <2>1, <3>1 DEF DenseInv, ListInv, Looping
  <2>8. n = m
    <3>1. n \in grain_list /\ m \in grain_list /\ GrainNumberMap(n) = GrainNumberMap(m)
      BY <2>5, <2>6
    <3>2. Cardinality({k \in grain_list : k < n}) = Cardinality({k \in grain_list : k < m})
      BY <3>1 DEF GrainNumberMap
    <3> QED BY <2>7, <3>1, <3>2, CountBelowInjective
  <2>9. PICK e \in S : n = Number[e]
    BY <2>5 DEF Origins
  <2>10. PICK f \in T : m = Number[f]
    BY <2>6 DEF Origins
  <2>11. e \in Cell /\ f \in Cell
    BY DEF TypeOK
  <2>12. e = f
    BY <2>8, <2>9, <2>10, <2>11 DEF OneLevelUnique
  <2> QED BY <2>12
<1> QED BY <1>2, <1>3, <1>4, TypeCorrect, PTL DEF Spec

-----------------------------------------------------------------------------
(***************************************************************************)
(* GrainsCounted.  Cells of one grain have one number, by a set that no    *)
(* neighbour leaves, and those of two grains two: the numbers, which are   *)
(* 0 .. numberOfGrains-1, are as many as the grains.                       *)
(***************************************************************************)
LEMMA OneNumberInGrain ==
  ASSUME TypeOK, SameGrainSameNumber, Terminated, Converged,
         NEW c \in solid, NEW d \in solid, SameGrain(c, d)
  PROVE  g[c] = g[d]
<1> DEFINE S == {e \in solid : g[e] = g[c]}
<1>1. S \in SUBSET solid /\ c \in S
  OBVIOUS
<1>2. Isolated(S)
  <2>1. \A a, b \in solid : Adjacent(a, b) => g[a] = g[b]
    BY DEF SameGrainSameNumber
  <2> QED BY <2>1 DEF Isolated
<1>3. d \in S
  <2> HIDE DEF S
  <2> QED BY <1>1, <1>2 DEF SameGrain
<1> QED BY <1>3

(* At the end each number in use is that of one grain. *)
LEMMA GrainsAndNumbers ==
  ASSUME TypeOK, SameGrainSameNumber, GrainsSeparated, NumbersDense,
         Terminated, Converged, numberOfGrains \in Nat
  PROVE  LET cells == {c \in solid : ~ Covered(c)}
         IN  numberOfGrains = Cardinality({{d \in cells : SameGrain(c, d)} : c \in cells})
<1> DEFINE cells    == {c \in solid : ~ Covered(c)}
           grain(c) == {d \in cells : SameGrain(c, d)}
           alike(n) == {d \in cells : g[d] = n}
           N        == 0 .. numberOfGrains - 1
           grains   == {grain(c) : c \in cells}
           f        == [n \in N |-> alike(n)]
<1>1. \A c, d \in cells : SameGrain(c, d) <=> g[c] = g[d]
  <2>1. \A c, d \in cells : SameGrain(c, d) => g[c] = g[d]
    BY OneNumberInGrain
  <2>2. \A c, d \in cells : g[c] = g[d] => SameGrain(c, d)
    BY DEF GrainsSeparated
  <2> QED BY <2>1, <2>2
<1>2. \A c \in cells : grain(c) = alike(g[c])
  BY <1>1
<1>3. N = {g[c] : c \in cells}
  <2>1. cells = {d \in Cell : ~ Covered(d) /\ d \in solid}
    BY DEF TypeOK
  <2> HIDE DEF cells
  <2> QED BY <2>1 DEF NumbersDense
<1>4. \A c \in cells : c \in alike(g[c]) /\ g[c] \in N
  BY <1>3
<1>5. \A n, m : alike(n) = alike(m) /\ alike(n) # {} => n = m
  OBVIOUS
<1>6. f \in Surjection(N, grains)
  <2>1. \A n \in N : \E c \in cells : g[c] = n
    BY <1>3
  <2>2. \A n \in N : f[n] \in grains
    BY <1>2, <2>1
  <2>3. \A t \in grains : \E n \in N : f[n] = t
    <3> SUFFICES ASSUME NEW c \in cells PROVE \E n \in N : f[n] = grain(c)
      OBVIOUS
    <3> HIDE DEF cells, grain, alike, N
    <3> QED BY <1>2, <1>4
  <2> HIDE DEF N, grains, alike
  <2> QED BY <2>2, <2>3 DEF Surjection
<1>7. f \in Injection(N, grains)
  <2>1. \A n \in N : alike(n) # {}
    BY <1>3
  <2>2. \A n, m \in N : f[n] = f[m] => n = m
    <3> HIDE DEF alike, N
    <3> QED BY <1>5, <2>1
  <2>3. DOMAIN f = N
    OBVIOUS
  <2> HIDE DEF N, grains, alike, f
  <2>4. IsInjective(f)
    BY <2>2, <2>3 DEF IsInjective
  <2> QED BY <1>6, <2>4 DEF Surjection, Injection
<1>8. IsFiniteSet(N) /\ Cardinality(N) = numberOfGrains
  BY FS_Interval
<1>9. Cardinality(grains) = Cardinality(N)
  <2> HIDE DEF N, grains, f
  <2> QED BY <1>6, <1>7, <1>8, FS_Surjection
<1> QED BY <1>8, <1>9

(***************************************************************************)
(* On one level, where no two cells have the same number, the method ends  *)
(* with the number of grains in numberOfGrains, unless it has reached the  *)
(* iteration limit.  (the bucket fill, its stopping test, the gathering)   *)
(***************************************************************************)
THEOREM GrainsAreCounted ==
  ASSUME OneLevelUnique
  PROVE  Spec => []GrainsCounted
<1>1. TypeOK /\ Init => LoopInv /\ DenseInv
  BY DenseInit
<1>2. TypeOK /\ TypeOK' /\ LoopInv /\ DenseInv /\ [Next]_vars => LoopInv' /\ DenseInv'
  BY FallNext, DenseNext
<1>3. TypeOK /\ DenseInv /\ SameGrainSameNumber /\ GrainsSeparated /\ NumbersDense
        => GrainsCounted
  <2> SUFFICES ASSUME TypeOK, DenseInv, SameGrainSameNumber, GrainsSeparated, NumbersDense,
                      Terminated, Converged
               PROVE  LET cells == {c \in solid : ~ Covered(c)}
                      IN  numberOfGrains
                            = Cardinality({{d \in cells : SameGrain(c, d)} : c \in cells})
    BY DEF GrainsCounted
  <2>1. numberOfGrains \in Nat
    <3>1. PICK q \in Rank : TRUE
      BY RankAssumption
    <3>2. \A r \in Rank : ctl[r].mode = "final" /\ ctl[r].at = "done"
      BY ControlFacts DEF Terminated
    <3>3. ListInv
      BY <3>1, <3>2 DEF DenseInv, Looping
    <3> QED BY <3>3, FS_CardinalityType DEF ListInv
  <2> QED BY <2>1, GrainsAndNumbers
<1>4. Spec => []GrainsSeparated
  BY GrainsAreApart
<1> QED BY <1>1, <1>2, <1>3, <1>4, TypeCorrect, NeighboursAgree, NumbersInUse, PTL DEF Spec

-----------------------------------------------------------------------------
(***************************************************************************)
(* NoRankWaits and StepsAdvance.  What a rank has sent follows from its    *)
(* stage; the rank of the lowest stage waits for ranks that are not behind *)
(* it, so what it needs is there.                                          *)
(***************************************************************************)
Message == Mode \cup {"fill"}

(* The stage in which a rank packs for an exchange, and the cells it packs. *)
PackedIn(m, ln) ==
  CASE m = "init"    -> 2 * (MaxLn - ln)
    [] m = "fill"    -> 2 * MaxLn + 4 * ln
    [] m = "iterate" -> 2 * MaxLn + 4 * ln + 2
    [] m = "final"   -> 6 * MaxLn + 7 + 2 * (MaxLn - ln)

Joins(m, ln, c) ==
  IF m = "fill" THEN LevelOf[c] \in {ln, ln - 1} ELSE LevelOf[c] = ln /\ 1 <= ln

(* Exchanges of the iteration are used up when it ends. *)
Current(m, s) == m \in {"fill", "iterate"} => s < 6 * MaxLn + 5

SentInv ==
  \A m \in Message, ln \in Level : \A c \in Cell :
    Joins(m, ln, c) /\ PackedIn(m, ln) < Stage(Place(c)) /\ Current(m, Stage(Place(c)))
      => msg[<<m, ln>>][c] # NotSent

LEMMA PlaceFacts ==
  ASSUME NEW p \in Control
  PROVE  /\ p.mode \in Mode
         /\ p.mode = "init" => p.at \in {"send", "recv"}
         /\ p.mode = "iterate" => p.at \in {"send", "recv", "fill", "sweep", "reduce"}
         /\ p.mode = "final" => p.at \in {"send", "recv", "gather", "renumber", "done"}
         /\ p.at \in {"send", "recv"} => 1 <= p.ln
         /\ p.ln \in Nat /\ p.ln <= MaxLn /\ MaxLn \in Nat
<1>1. p \in Control /\ MaxLn \in Nat
  BY HierarchyAssumption
<1> QED BY <1>1 DEF Control, Mode, Level

(* The stages, case by case.                                               *)
LEMMA StageFacts ==
  ASSUME NEW p \in Control
  PROVE  LET L  == MaxLn
             ln == p.ln
         IN  /\ Stage(p) \in Nat
             /\ p.mode = "init" /\ p.at = "send" => Stage(p) = 2 * (L - ln)
             /\ p.mode = "init" /\ p.at = "recv" => Stage(p) = 2 * (L - ln) + 1
             /\ p.at = "fill" => Stage(p) = 2 * L + 4 * ln
             /\ p.at = "sweep" => Stage(p) = 2 * L + 4 * ln + 1
             /\ p.mode = "iterate" /\ p.at = "send" => Stage(p) = 2 * L + 4 * ln + 2
             /\ p.mode = "iterate" /\ p.at = "recv" => Stage(p) = 2 * L + 4 * ln + 3
             /\ p.at = "reduce" => Stage(p) = 6 * L + 4
             /\ p.at = "gather" => Stage(p) = 6 * L + 5
             /\ p.at = "renumber" => Stage(p) = 6 * L + 6
             /\ p.mode = "final" /\ p.at = "send" => Stage(p) = 6 * L + 7 + 2 * (L - ln)
             /\ p.mode = "final" /\ p.at = "recv" => Stage(p) = 6 * L + 8 + 2 * (L - ln)
             /\ p.at = "done" => Stage(p) = 8 * L + 7
<1> DEFINE L  == MaxLn
           ln == p.ln
<1>1. ln \in Nat /\ ln <= L /\ L \in Nat
  BY PlaceFacts
<1>2. Transfer(p) = 2 * (L - ln) + (IF p.at = "recv" THEN 1 ELSE 0)
  BY DEF Transfer
<1>3. CASE p.mode = "init"
  <2>1. p.at \in {"send", "recv"} /\ Stage(p) = Transfer(p)
    BY <1>3, PlaceFacts DEF Stage
  <2> QED BY <1>1, <1>2, <1>3, <2>1
<1>4. CASE p.mode = "iterate"
  <2>1. Stage(p) = 2 * L + Loop(p)
    BY <1>4 DEF Stage
  <2>2. CASE p.at = "fill"
    <3>1. Loop(p) = 4 * ln
      BY <2>2 DEF Loop
    <3> QED BY <1>1, <1>4, <2>1, <2>2, <3>1
  <2>3. CASE p.at = "sweep"
    <3>1. Loop(p) = 4 * ln + 1
      BY <2>3 DEF Loop
    <3> QED BY <1>1, <1>4, <2>1, <2>3, <3>1
  <2>4. CASE p.at = "send"
    <3>1. Loop(p) = 4 * ln + 2
      BY <2>4 DEF Loop
    <3> QED BY <1>1, <1>4, <2>1, <2>4, <3>1
  <2>5. CASE p.at = "recv"
    <3>1. Loop(p) = 4 * ln + 3
      BY <2>5 DEF Loop
    <3> QED BY <1>1, <1>4, <2>1, <2>5, <3>1
  <2>6. CASE p.at = "reduce"
    <3>1. Loop(p) = 4 * L + 4
      BY <2>6 DEF Loop
    <3> QED BY <1>1, <1>4, <2>1, <2>6, <3>1
  <2> QED BY <1>4, <2>2, <2>3, <2>4, <2>5, <2>6, PlaceFacts
<1>5. CASE p.mode = "final"
  <2>1. Stage(p) = 6 * L + 5 + AfterLoop(p)
    BY <1>5 DEF Stage
  <2>2. CASE p.at = "gather"
    <3>1. AfterLoop(p) = 0
      BY <2>2 DEF AfterLoop
    <3> QED BY <1>1, <1>2, <1>5, <2>1, <2>2, <3>1
  <2>3. CASE p.at = "renumber"
    <3>1. AfterLoop(p) = 1
      BY <2>3 DEF AfterLoop
    <3> QED BY <1>1, <1>2, <1>5, <2>1, <2>3, <3>1
  <2>4. CASE p.at = "done"
    <3>1. AfterLoop(p) = 2 * L + 2
      BY <2>4 DEF AfterLoop
    <3> QED BY <1>1, <1>2, <1>5, <2>1, <2>4, <3>1
  <2>5. CASE p.at = "send"
    <3>1. AfterLoop(p) = 2 + Transfer(p)
      BY <2>5 DEF AfterLoop
    <3> QED BY <1>1, <1>2, <1>5, <2>1, <2>5, <3>1
  <2>6. CASE p.at = "recv"
    <3>1. AfterLoop(p) = 2 + Transfer(p)
      BY <2>6 DEF AfterLoop
    <3> QED BY <1>1, <1>2, <1>5, <2>1, <2>6, <3>1
  <2> QED BY <1>5, <2>2, <2>3, <2>4, <2>5, <2>6, PlaceFacts
<1> QED BY <1>3, <1>4, <1>5, PlaceFacts DEF Mode

LEMMA StageBounds ==
  ASSUME NEW p \in Control
  PROVE  /\ p.mode = "init" => Stage(p) < 2 * MaxLn
         /\ p.mode = "iterate" => 2 * MaxLn <= Stage(p) /\ Stage(p) <= 6 * MaxLn + 4
         /\ p.mode = "final" => 6 * MaxLn + 5 <= Stage(p) /\ Stage(p) <= 8 * MaxLn + 7
         /\ p.at # "reduce" /\ p.mode = "iterate" => Stage(p) <= 6 * MaxLn + 3
         /\ p.at # "done" => Stage(p) <= 8 * MaxLn + 6
<1>1. p.ln \in Nat /\ p.ln <= MaxLn /\ MaxLn \in Nat
  BY PlaceFacts
<1>2. CASE p.mode = "init"
  BY <1>1, <1>2, PlaceFacts, StageFacts
<1>3. CASE p.mode = "iterate"
  BY <1>1, <1>3, PlaceFacts, StageFacts
<1>4. CASE p.mode = "final"
  BY <1>1, <1>4, PlaceFacts, StageFacts
<1> QED BY <1>2, <1>3, <1>4, PlaceFacts DEF Mode

(* The steps of a rank that pack nothing, by what they do to its place.    *)
Passes(p, q) ==
  \/ p.mode = "iterate" /\ p.at = "recv" /\ p.ln < MaxLn /\ q.mode = "iterate" /\ q.at = "fill" /\ q.ln = p.ln + 1
  \/ p.mode = "iterate" /\ p.at = "recv" /\ p.ln = MaxLn /\ q.mode = "iterate" /\ q.at = "reduce"
  \/ p.mode = "init" /\ p.at = "recv" /\ p.ln > 1 /\ q.mode = "init" /\ q.at = "send" /\ q.ln = p.ln - 1
  \/ p.mode = "final" /\ p.at = "recv" /\ p.ln > 1 /\ q.mode = "final" /\ q.at = "send" /\ q.ln = p.ln - 1
  \/ p.mode = "init" /\ p.at = "recv" /\ p.ln = 1 /\ q.mode = "iterate" /\ q.at = "fill" /\ q.ln = 0
  \/ p.mode = "final" /\ p.at = "recv" /\ p.ln = 1 /\ q.mode = "final" /\ q.at = "done"
  \/ p.mode = "iterate" /\ p.at = "sweep" /\ p.ln > 0 /\ q.mode = "iterate" /\ q.at = "send" /\ q.ln = p.ln
  \/ p.mode = "iterate" /\ p.at = "sweep" /\ p.ln = 0 /\ MaxLn > 0 /\ q.mode = "iterate" /\ q.at = "fill" /\ q.ln = 1
  \/ p.mode = "iterate" /\ p.at = "sweep" /\ p.ln = 0 /\ MaxLn = 0 /\ q.mode = "iterate" /\ q.at = "reduce"
  \/ p.mode = "final" /\ p.at = "renumber" /\ MaxLn > 0 /\ q.mode = "final" /\ q.at = "send" /\ q.ln = MaxLn
  \/ p.mode = "final" /\ p.at = "renumber" /\ MaxLn = 0 /\ q.mode = "final" /\ q.at = "done"

LEMMA PassesNothing ==
  ASSUME NEW p \in Control, NEW q \in Control, Passes(p, q),
         NEW m \in Message, NEW n \in Level, m # "fill" => 1 <= n
  PROVE  ~ (Stage(p) <= PackedIn(m, n) /\ PackedIn(m, n) < Stage(q))
<1> DEFINE L == MaxLn
<1>1. /\ p.ln \in Nat /\ p.ln <= L /\ L \in Nat /\ n \in Nat /\ n <= L
      /\ p.at = "recv" => 1 <= p.ln
  BY PlaceFacts DEF Level
<1>2. /\ m = "init" => PackedIn(m, n) = 2 * (L - n)
      /\ m = "fill" => PackedIn(m, n) = 2 * L + 4 * n
      /\ m = "iterate" => PackedIn(m, n) = 2 * L + 4 * n + 2
      /\ m = "final" => PackedIn(m, n) = 6 * L + 7 + 2 * (L - n)
  BY DEF PackedIn
<1>3. m = "fill" \/ (m \in {"init", "iterate", "final"} /\ 1 <= n)
  <2>1. m \in {"fill", "init", "iterate", "final"}
    BY DEF Message, Mode
  <2> QED BY <1>1, <2>1
<1>4. CASE p.mode = "iterate" /\ p.at = "recv" /\ p.ln < MaxLn /\ q.mode = "iterate" /\ q.at = "fill" /\ q.ln = p.ln + 1
  <2>1. Stage(p) = 2 * L + 4 * p.ln + 3 /\ Stage(q) = 2 * L + 4 * (p.ln + 1)
    BY <1>1, <1>4, StageFacts
  <2> QED BY <1>1, <1>2, <1>3, <1>4, <2>1
<1>5. CASE p.mode = "iterate" /\ p.at = "recv" /\ p.ln = MaxLn /\ q.mode = "iterate" /\ q.at = "reduce"
  <2>1. Stage(p) = 2 * L + 4 * L + 3 /\ Stage(q) = 6 * L + 4
    BY <1>1, <1>5, StageFacts
  <2> QED BY <1>1, <1>2, <1>3, <1>5, <2>1
<1>6. CASE p.mode = "init" /\ p.at = "recv" /\ p.ln > 1 /\ q.mode = "init" /\ q.at = "send" /\ q.ln = p.ln - 1
  <2>1. Stage(p) = 2 * (L - p.ln) + 1 /\ Stage(q) = 2 * (L - (p.ln - 1))
    BY <1>1, <1>6, StageFacts
  <2> QED BY <1>1, <1>2, <1>3, <1>6, <2>1
<1>7. CASE p.mode = "final" /\ p.at = "recv" /\ p.ln > 1 /\ q.mode = "final" /\ q.at = "send" /\ q.ln = p.ln - 1
  <2>1. Stage(p) = 6 * L + 8 + 2 * (L - p.ln) /\ Stage(q) = 6 * L + 7 + 2 * (L - (p.ln - 1))
    BY <1>1, <1>7, StageFacts
  <2> QED BY <1>1, <1>2, <1>3, <1>7, <2>1
<1>8. CASE p.mode = "init" /\ p.at = "recv" /\ p.ln = 1 /\ q.mode = "iterate" /\ q.at = "fill" /\ q.ln = 0
  <2>1. Stage(p) = 2 * (L - 1) + 1 /\ Stage(q) = 2 * L
    BY <1>1, <1>8, StageFacts
  <2> QED BY <1>1, <1>2, <1>3, <1>8, <2>1
<1>9. CASE p.mode = "final" /\ p.at = "recv" /\ p.ln = 1 /\ q.mode = "final" /\ q.at = "done"
  <2>1. Stage(p) = 6 * L + 8 + 2 * (L - 1) /\ Stage(q) = 8 * L + 7
    BY <1>1, <1>9, StageFacts
  <2> QED BY <1>1, <1>2, <1>3, <1>9, <2>1
<1>10. CASE p.mode = "iterate" /\ p.at = "sweep" /\ p.ln > 0 /\ q.mode = "iterate" /\ q.at = "send" /\ q.ln = p.ln
  <2>1. Stage(p) = 2 * L + 4 * p.ln + 1 /\ Stage(q) = 2 * L + 4 * p.ln + 2
    BY <1>1, <1>10, StageFacts
  <2> QED BY <1>1, <1>2, <1>3, <1>10, <2>1
<1>11. CASE p.mode = "iterate" /\ p.at = "sweep" /\ p.ln = 0 /\ MaxLn > 0 /\ q.mode = "iterate" /\ q.at = "fill" /\ q.ln = 1
  <2>1. Stage(p) = 2 * L + 1 /\ Stage(q) = 2 * L + 4
    BY <1>1, <1>11, StageFacts
  <2> QED BY <1>1, <1>2, <1>3, <1>11, <2>1
<1>12. CASE p.mode = "iterate" /\ p.at = "sweep" /\ p.ln = 0 /\ MaxLn = 0 /\ q.mode = "iterate" /\ q.at = "reduce"
  <2>1. Stage(p) = 1 /\ Stage(q) = 4
    BY <1>1, <1>12, StageFacts
  <2> QED BY <1>1, <1>2, <1>3, <1>12, <2>1
<1>13. CASE p.mode = "final" /\ p.at = "renumber" /\ MaxLn > 0 /\ q.mode = "final" /\ q.at = "send" /\ q.ln = MaxLn
  <2>1. Stage(p) = 6 * L + 6 /\ Stage(q) = 6 * L + 7
    BY <1>1, <1>13, StageFacts
  <2> QED BY <1>1, <1>2, <1>3, <1>13, <2>1
<1>14. CASE p.mode = "final" /\ p.at = "renumber" /\ MaxLn = 0 /\ q.mode = "final" /\ q.at = "done"
  <2>1. Stage(p) = 6 /\ Stage(q) = 7
    BY <1>1, <1>14, StageFacts
  <2> QED BY <1>1, <1>2, <1>3, <1>14, <2>1
<1> QED BY <1>4, <1>5, <1>6, <1>7, <1>8, <1>9, <1>10, <1>11, <1>12, <1>13, <1>14 DEF Passes

LEMMA PassesOn ==
  ASSUME NEW p \in Control, NEW q \in Control, Passes(p, q)
  PROVE  Stage(p) < Stage(q)
<1> DEFINE L == MaxLn
<1>1. p.ln \in Nat /\ p.ln <= L /\ L \in Nat /\ (p.at = "recv" => 1 <= p.ln)
  BY PlaceFacts
<1>2. CASE p.mode = "iterate" /\ p.at = "recv" /\ p.ln < MaxLn /\ q.mode = "iterate" /\ q.at = "fill" /\ q.ln = p.ln + 1
  <2>1. Stage(p) = 2 * L + 4 * p.ln + 3 /\ Stage(q) = 2 * L + 4 * (p.ln + 1)
    BY <1>1, <1>2, StageFacts
  <2> QED BY <1>1, <1>2, <2>1
<1>3. CASE p.mode = "iterate" /\ p.at = "recv" /\ p.ln = MaxLn /\ q.mode = "iterate" /\ q.at = "reduce"
  <2>1. Stage(p) = 2 * L + 4 * L + 3 /\ Stage(q) = 6 * L + 4
    BY <1>1, <1>3, StageFacts
  <2> QED BY <1>1, <1>3, <2>1
<1>4. CASE p.mode = "init" /\ p.at = "recv" /\ p.ln > 1 /\ q.mode = "init" /\ q.at = "send" /\ q.ln = p.ln - 1
  <2>1. Stage(p) = 2 * (L - p.ln) + 1 /\ Stage(q) = 2 * (L - (p.ln - 1))
    BY <1>1, <1>4, StageFacts
  <2> QED BY <1>1, <1>4, <2>1
<1>5. CASE p.mode = "final" /\ p.at = "recv" /\ p.ln > 1 /\ q.mode = "final" /\ q.at = "send" /\ q.ln = p.ln - 1
  <2>1. Stage(p) = 6 * L + 8 + 2 * (L - p.ln) /\ Stage(q) = 6 * L + 7 + 2 * (L - (p.ln - 1))
    BY <1>1, <1>5, StageFacts
  <2> QED BY <1>1, <1>5, <2>1
<1>6. CASE p.mode = "init" /\ p.at = "recv" /\ p.ln = 1 /\ q.mode = "iterate" /\ q.at = "fill" /\ q.ln = 0
  <2>1. Stage(p) = 2 * (L - 1) + 1 /\ Stage(q) = 2 * L
    BY <1>1, <1>6, StageFacts
  <2> QED BY <1>1, <1>6, <2>1
<1>7. CASE p.mode = "final" /\ p.at = "recv" /\ p.ln = 1 /\ q.mode = "final" /\ q.at = "done"
  <2>1. Stage(p) = 6 * L + 8 + 2 * (L - 1) /\ Stage(q) = 8 * L + 7
    BY <1>1, <1>7, StageFacts
  <2> QED BY <1>1, <1>7, <2>1
<1>8. CASE p.mode = "iterate" /\ p.at = "sweep" /\ p.ln > 0 /\ q.mode = "iterate" /\ q.at = "send" /\ q.ln = p.ln
  <2>1. Stage(p) = 2 * L + 4 * p.ln + 1 /\ Stage(q) = 2 * L + 4 * p.ln + 2
    BY <1>1, <1>8, StageFacts
  <2> QED BY <1>1, <1>8, <2>1
<1>9. CASE p.mode = "iterate" /\ p.at = "sweep" /\ p.ln = 0 /\ MaxLn > 0 /\ q.mode = "iterate" /\ q.at = "fill" /\ q.ln = 1
  <2>1. Stage(p) = 2 * L + 1 /\ Stage(q) = 2 * L + 4
    BY <1>1, <1>9, StageFacts
  <2> QED BY <1>1, <1>9, <2>1
<1>10. CASE p.mode = "iterate" /\ p.at = "sweep" /\ p.ln = 0 /\ MaxLn = 0 /\ q.mode = "iterate" /\ q.at = "reduce"
  <2>1. Stage(p) = 1 /\ Stage(q) = 4
    BY <1>1, <1>10, StageFacts
  <2> QED BY <1>1, <1>10, <2>1
<1>11. CASE p.mode = "final" /\ p.at = "renumber" /\ MaxLn > 0 /\ q.mode = "final" /\ q.at = "send" /\ q.ln = MaxLn
  <2>1. Stage(p) = 6 * L + 6 /\ Stage(q) = 6 * L + 7
    BY <1>1, <1>11, StageFacts
  <2> QED BY <1>1, <1>11, <2>1
<1>12. CASE p.mode = "final" /\ p.at = "renumber" /\ MaxLn = 0 /\ q.mode = "final" /\ q.at = "done"
  <2>1. Stage(p) = 6 /\ Stage(q) = 7
    BY <1>1, <1>12, StageFacts
  <2> QED BY <1>1, <1>12, <2>1
<1> QED BY <1>2, <1>3, <1>4, <1>5, <1>6, <1>7, <1>8, <1>9, <1>10, <1>11, <1>12 DEF Passes

LEMMA PackedOnce ==
  ASSUME NEW m \in Message, NEW l \in Level, m # "fill" => 1 <= l,
         NEW n \in Message, NEW k \in Level, n # "fill" => 1 <= k,
         PackedIn(m, l) = PackedIn(n, k)
  PROVE  m = n /\ l = k
<1> DEFINE L == MaxLn
<1>1. l \in Nat /\ l <= L /\ k \in Nat /\ k <= L /\ L \in Nat
  BY HierarchyAssumption DEF Level
<1>2. /\ m = "init" => PackedIn(m, l) = 2 * (L - l)
      /\ m = "fill" => PackedIn(m, l) = 2 * L + 4 * l
      /\ m = "iterate" => PackedIn(m, l) = 2 * L + 4 * l + 2
      /\ m = "final" => PackedIn(m, l) = 6 * L + 7 + 2 * (L - l)
  BY DEF PackedIn
<1>3. /\ n = "init" => PackedIn(n, k) = 2 * (L - k)
      /\ n = "fill" => PackedIn(n, k) = 2 * L + 4 * k
      /\ n = "iterate" => PackedIn(n, k) = 2 * L + 4 * k + 2
      /\ n = "final" => PackedIn(n, k) = 6 * L + 7 + 2 * (L - k)
  BY DEF PackedIn
<1>4. m \in {"init", "fill", "iterate", "final"} /\ n \in {"init", "fill", "iterate", "final"}
  BY DEF Message, Mode
<1>5. CASE m = "init"
  BY <1>1, <1>2, <1>3, <1>4, <1>5
<1>6. CASE m = "fill"
  BY <1>1, <1>2, <1>3, <1>4, <1>6
<1>7. CASE m = "iterate"
  BY <1>1, <1>2, <1>3, <1>4, <1>7
<1>8. CASE m = "final"
  BY <1>1, <1>2, <1>3, <1>4, <1>8
<1> QED BY <1>4, <1>5, <1>6, <1>7, <1>8

(* Every step of a rank passes on, packs for one exchange or sweeps a cell. *)
Packs(r) ==
  \E m \in Message, ln \in Level, L \in SUBSET Int :
    /\ Pack(<<m, ln>>, r, L) /\ \A c \in Cell : Joins(m, ln, c) => LevelOf[c] \in L
    /\ Stage(ctl[r]) = PackedIn(m, ln) /\ Stage(ctl'[r]) = PackedIn(m, ln) + 1
    /\ m # "fill" => 1 <= ln

Sweeps(r) ==
  /\ msg' = msg /\ ctl'[r] = [ctl[r] EXCEPT !.k = @ + 1]
  /\ ctl[r].at = "sweep" /\ ctl[r].k \in DOMAIN Order[r][ctl[r].ln]

LEMMA WentTo ==
  ASSUME TypeOK, NEW r \in Rank, NEW m, NEW a, NEW l, Goto(r, m, a, l)
  PROVE  /\ ctl'[r].mode = m /\ ctl'[r].at = a /\ ctl'[r].ln = l
         /\ \A q \in Rank : q # r => ctl'[q] = ctl[q]
BY DEF TypeOK, Goto

LEMMA RankStepKinds ==
  ASSUME TypeOK, TypeOK', NEW r \in Rank, RankStep(r)
  PROVE  /\ counter' = counter
         /\ \A q \in Rank : q # r => ctl'[q] = ctl[q]
         /\ (Passes(ctl[r], ctl'[r]) /\ msg' = msg) \/ Packs(r) \/ Sweeps(r)
<1> DEFINE p  == ctl[r]
           q  == ctl'[r]
           ln == p.ln
<1>1. p \in Control /\ q \in Control
  BY DEF TypeOK
<1>2. /\ ln \in Nat /\ ln <= MaxLn /\ MaxLn \in Nat /\ ln \in Level
      /\ p.at \in {"send", "recv"} => 1 <= ln
      /\ p.at \in {"fill", "sweep"} => p.mode = "iterate"
      /\ p.at = "renumber" => p.mode = "final"
      /\ p.mode \in Mode
  BY <1>1, PlaceFacts, ControlFacts
<1>3. CASE Send(r)
  <2>1. p.at = "send" /\ Goto(r, p.mode, "recv", ln) /\ Pack(<<p.mode, ln>>, r, {ln})
        /\ counter' = counter
    BY <1>3 DEF Send
  <2>2. q.mode = p.mode /\ q.at = "recv" /\ q.ln = ln /\ \A s \in Rank : s # r => ctl'[s] = ctl[s]
    BY <2>1, WentTo
  <2>3. Stage(p) = PackedIn(p.mode, ln) /\ Stage(q) = PackedIn(p.mode, ln) + 1
    <3> HIDE DEF p, q, ln
    <3>1. p.mode = "init" \/ p.mode = "iterate" \/ p.mode = "final"
      BY <1>2 DEF Mode
    <3>2. CASE p.mode = "init"
      BY <1>1, <1>2, <2>1, <2>2, <3>2, StageFacts DEF PackedIn, ln
    <3>3. CASE p.mode = "iterate"
      BY <1>1, <1>2, <2>1, <2>2, <3>3, StageFacts DEF PackedIn, ln
    <3>4. CASE p.mode = "final"
      BY <1>1, <1>2, <2>1, <2>2, <3>4, StageFacts DEF PackedIn, ln
    <3> QED BY <3>1, <3>2, <3>3, <3>4
  <2>4. \A c \in Cell : Joins(p.mode, ln, c) => LevelOf[c] \in {ln}
    BY <1>2 DEF Joins, Mode
  <2>5. p.mode \in Message /\ {ln} \in SUBSET Int /\ 1 <= ln
    BY <1>2, <2>1 DEF Message
  <2> HIDE DEF p, q, ln
  <2>6. Packs(r)
    <3> DEFINE L == {ln}
    <3>1. L \in SUBSET Int /\ Pack(<<p.mode, ln>>, r, L) /\ \A c \in Cell : Joins(p.mode, ln, c) => LevelOf[c] \in L
      BY <2>1, <2>4, <2>5
    <3> HIDE DEF L
    <3> QED BY <1>2, <2>3, <2>5, <3>1 DEF Packs, p, q
  <2> QED BY <2>1, <2>2, <2>6
<1>4. CASE Fill(r)
  <2>1. p.at = "fill" /\ Goto(r, "iterate", "sweep", ln) /\ Pack(<<"fill", ln>>, r, {ln, ln - 1})
        /\ counter' = counter
    BY <1>4 DEF Fill
  <2>2. q.mode = "iterate" /\ q.at = "sweep" /\ q.ln = ln /\ \A s \in Rank : s # r => ctl'[s] = ctl[s]
    BY <2>1, WentTo
  <2>3. Stage(p) = PackedIn("fill", ln) /\ Stage(q) = PackedIn("fill", ln) + 1
    <3> HIDE DEF p, q, ln
    <3> QED BY <1>1, <1>2, <2>1, <2>2, StageFacts DEF PackedIn, ln
  <2>4. \A c \in Cell : Joins("fill", ln, c) => LevelOf[c] \in {ln, ln - 1}
    BY DEF Joins
  <2>5. "fill" \in Message
    BY DEF Message
  <2> HIDE DEF p, q, ln
  <2>6. Packs(r)
    BY <1>2, <2>1, <2>3, <2>4, <2>5 DEF Packs, p, q
  <2> QED BY <2>1, <2>2, <2>6
<1>5. CASE Coarsen(r)
  <2>1. p.at = "recv" /\ AfterCoarsen(r, p.mode, ln) /\ msg' = msg /\ counter' = counter
    BY <1>5 DEF Coarsen
  <2>2. Passes(p, q) /\ \A s \in Rank : s # r => ctl'[s] = ctl[s]
    <3>1. CASE p.mode = "iterate" /\ ln < MaxLn /\ Goto(r, "iterate", "fill", ln + 1)
      BY <2>1, <3>1, WentTo DEF Passes
    <3>2. CASE p.mode = "iterate" /\ ln = MaxLn /\ Goto(r, "iterate", "reduce", ln)
      BY <2>1, <3>2, WentTo DEF Passes
    <3>3. CASE p.mode # "iterate" /\ ln > 1 /\ Goto(r, p.mode, "send", ln - 1)
      BY <1>2, <2>1, <3>3, WentTo DEF Passes, Mode
    <3>4. CASE p.mode = "init" /\ ln = 1 /\ Goto(r, "iterate", "fill", 0)
      BY <2>1, <3>4, WentTo DEF Passes
    <3>5. CASE p.mode = "final" /\ ln = 1 /\ Goto(r, "final", "done", 0)
      BY <2>1, <3>5, WentTo DEF Passes
    <3> QED BY <2>1, <3>1, <3>2, <3>3, <3>4, <3>5 DEF AfterCoarsen
  <2> QED BY <2>1, <2>2
<1>6. CASE EndSweep(r)
  <2>1. p.at = "sweep" /\ p.mode = "iterate" /\ msg' = msg /\ counter' = counter
    BY <1>2, <1>6 DEF EndSweep
  <2>2. Passes(p, q) /\ \A s \in Rank : s # r => ctl'[s] = ctl[s]
    <3>1. CASE ln > 0 /\ Goto(r, "iterate", "send", ln)
      BY <2>1, <3>1, WentTo DEF Passes
    <3>2. CASE ln = 0 /\ MaxLn > 0 /\ Goto(r, "iterate", "fill", 1)
      BY <2>1, <3>2, WentTo DEF Passes
    <3>3. CASE ln = 0 /\ MaxLn = 0 /\ Goto(r, "iterate", "reduce", 0)
      BY <2>1, <3>3, WentTo DEF Passes
    <3> QED BY <1>2, <1>6, <3>1, <3>2, <3>3 DEF EndSweep
  <2> QED BY <2>1, <2>2
<1>7. CASE Renumber(r)
  <2>1. p.at = "renumber" /\ p.mode = "final" /\ msg' = msg /\ counter' = counter
    BY <1>2, <1>7 DEF Renumber
  <2>2. Passes(p, q) /\ \A s \in Rank : s # r => ctl'[s] = ctl[s]
    <3>1. CASE MaxLn > 0 /\ Goto(r, "final", "send", MaxLn)
      BY <2>1, <3>1, WentTo DEF Passes
    <3>2. CASE MaxLn = 0 /\ Goto(r, "final", "done", 0)
      BY <2>1, <3>2, WentTo DEF Passes
    <3> QED BY <1>2, <1>7, <3>1, <3>2 DEF Renumber
  <2> QED BY <2>1, <2>2
<1>8. CASE SweepCell(r)
  <2>1. ctl' = [ctl EXCEPT ![r].k = ctl[r].k + 1] /\ ctl \in [Rank -> Control]
    BY <1>8 DEF SweepCell, TypeOK
  <2> QED BY <1>8, <2>1 DEF SweepCell, Sweeps
<1> QED BY <1>3, <1>4, <1>5, <1>6, <1>7, <1>8 DEF RankStep

LEMMA PackValues ==
  ASSUME TypeOK, NEW tag \in Tag, NEW r \in Rank, NEW L, Pack(tag, r, L)
  PROVE  \A t \in Tag, c \in Cell :
           /\ msg'[t][c] = IF t = tag /\ OwnerOf[c] = r /\ LevelOf[c] \in L
                           THEN g[c] ELSE msg[t][c]
           /\ g[c] # NotSent
<1>1. msg \in [Tag -> [Cell -> Nat \cup {None, NotSent}]]
  BY DEF TypeOK
<1>2. \A c \in Cell : g[c] # NotSent
  BY DEF TypeOK, None, NotSent
<1> QED BY <1>1, <1>2 DEF Pack

LEMMA SweepKeepsStage ==
  ASSUME TypeOK, NEW r \in Rank, Sweeps(r)
  PROVE  /\ Stage(ctl'[r]) = Stage(ctl[r])
         /\ ctl'[r].at = ctl[r].at /\ ctl'[r].ln = ctl[r].ln /\ ctl'[r].k = ctl[r].k + 1
<1> DEFINE p == ctl[r]
           q == ctl'[r]
<1>1. q.mode = p.mode /\ q.at = p.at /\ q.ln = p.ln /\ q.k = p.k + 1
  <2>1. p \in Control /\ q = [p EXCEPT !.k = p.k + 1]
    BY DEF TypeOK, Sweeps
  <2> HIDE DEF p, q
  <2> QED BY <2>1 DEF Control
<1>2. Stage(q) = Stage(p)
  <2> HIDE DEF p, q
  <2> QED BY <1>1 DEF Stage, Loop, AfterLoop, Transfer
<1> QED BY <1>1, <1>2

LEMMA SentStep ==
  ASSUME TypeOK, TypeOK', SentInv, NEW r \in Rank, RankStep(r)
  PROVE  SentInv'
<1> DEFINE p == ctl[r]
           q == ctl'[r]
<1> SUFFICES ASSUME NEW m \in Message, NEW ln \in Level, NEW c \in Cell, Joins(m, ln, c),
                    PackedIn(m, ln) < Stage(ctl'[OwnerOf[c]]), Current(m, Stage(ctl'[OwnerOf[c]]))
             PROVE  msg'[<<m, ln>>][c] # NotSent
  BY DEF SentInv, Place
<1>1. p \in Control /\ q \in Control /\ OwnerOf[c] \in Rank /\ MaxLn \in Nat /\ <<m, ln>> \in Tag
  BY CellFacts DEF TypeOK, Message, Mode, Tag
<1>2. Stage(p) \in Nat /\ Stage(q) \in Nat /\ PackedIn(m, ln) \in Int
  <2>1. ln \in Nat /\ MaxLn \in Nat
    BY <1>1 DEF Level
  <2> QED BY <1>1, <2>1, StageFacts DEF PackedIn, Message, Mode
<1>3. /\ \A s \in Rank : s # r => ctl'[s] = ctl[s]
      /\ (Passes(p, q) /\ msg' = msg) \/ Packs(r) \/ Sweeps(r)
  BY RankStepKinds
<1>4. m # "fill" => 1 <= ln
  BY DEF Joins
<1>5. ASSUME PackedIn(m, ln) < Stage(Place(c)), Current(m, Stage(Place(c)))
      PROVE  msg'[<<m, ln>>][c] # NotSent
  <2>1. msg[<<m, ln>>][c] # NotSent
    BY <1>5 DEF SentInv
  <2>2. CASE msg' = msg
    BY <2>1, <2>2
  <2>3. CASE Packs(r)
    <3>1. PICK n \in Message, k \in Level, L \in SUBSET Int : Pack(<<n, k>>, r, L)
      BY <2>3 DEF Packs
    <3>2. <<n, k>> \in Tag
      BY DEF Message, Mode, Tag
    <3> QED BY <1>1, <2>1, <3>1, <3>2, PackValues
  <2> QED BY <1>3, <2>2, <2>3 DEF Sweeps
<1>6. CASE OwnerOf[c] # r
  BY <1>1, <1>3, <1>5, <1>6 DEF Place
<1>7. CASE OwnerOf[c] = r
  <2>0. Place(c) = p /\ PackedIn(m, ln) < Stage(q) /\ Current(m, Stage(q))
    BY <1>7 DEF Place
  <2>1. CASE Passes(p, q) /\ msg' = msg
    <3>1. PackedIn(m, ln) < Stage(p) /\ Stage(p) < Stage(q)
      BY <1>1, <1>2, <1>4, <2>0, <2>1, PassesNothing, PassesOn
    <3>2. Current(m, Stage(p))
      BY <1>1, <1>2, <2>0, <3>1 DEF Current
    <3> QED BY <1>5, <2>0, <3>1, <3>2
  <2>2. CASE Sweeps(r)
    BY <1>5, <2>0, <2>2, SweepKeepsStage
  <2>3. CASE Packs(r)
    <3>1. PICK n \in Message, k \in Level, L \in SUBSET Int :
             /\ Pack(<<n, k>>, r, L) /\ \A d \in Cell : Joins(n, k, d) => LevelOf[d] \in L
             /\ Stage(p) = PackedIn(n, k) /\ Stage(q) = PackedIn(n, k) + 1
             /\ n # "fill" => 1 <= k
      BY <2>3 DEF Packs
    <3>2. <<n, k>> \in Tag
      BY DEF Message, Mode, Tag
    <3>3. CASE PackedIn(m, ln) = PackedIn(n, k)
      <4>1. m = n /\ ln = k
        BY <1>4, <3>1, <3>3, PackedOnce
      <4>2. LevelOf[c] \in L
        BY <3>1, <4>1
      <4> QED BY <1>1, <1>7, <3>1, <3>2, <4>1, <4>2, PackValues
    <3>4. CASE PackedIn(m, ln) # PackedIn(n, k)
      <4>1. PackedIn(m, ln) < Stage(p) /\ Stage(p) < Stage(q)
        BY <1>2, <2>0, <3>1, <3>4
      <4>2. Current(m, Stage(p))
        BY <1>1, <1>2, <2>0, <4>1 DEF Current
      <4> QED BY <1>5, <2>0, <4>1, <4>2
    <3> QED BY <3>3, <3>4
  <2> QED BY <1>3, <2>1, <2>2, <2>3
<1> QED BY <1>6, <1>7

LEMMA SentNext ==
  ASSUME TypeOK, TypeOK', SentInv, [Next]_vars
  PROVE  SentInv'
<1>1. ASSUME NEW r \in Rank, RankStep(r) PROVE SentInv'
  BY <1>1, SentStep
<1> DEFINE P(m, ln, c) == /\ Joins(m, ln, c) /\ PackedIn(m, ln) < Stage(ctl'[OwnerOf[c]])
                          /\ Current(m, Stage(ctl'[OwnerOf[c]]))
<1>2. CASE AllReduce
  <2> SUFFICES ASSUME NEW m \in Message, NEW ln \in Level, NEW c \in Cell, P(m, ln, c)
               PROVE  msg'[<<m, ln>>][c] # NotSent
    BY DEF SentInv, Place
  <2>1. PICK more : NextIteration(more)
    BY <1>2 DEF AllReduce
  <2>2. OwnerOf[c] \in Rank /\ MaxLn \in Nat /\ ln \in Nat /\ ln <= MaxLn /\ <<m, ln>> \in Tag
    BY CellFacts DEF Level, Message, Mode, Tag
  <2>3. ctl[OwnerOf[c]] \in Control /\ ctl'[OwnerOf[c]] \in Control
    BY <2>2 DEF TypeOK
  <2>4. Stage(ctl[OwnerOf[c]]) = 6 * MaxLn + 4
    BY <2>1, <2>2, <2>3, StageFacts DEF NextIteration
  <2>5. Stage(ctl'[OwnerOf[c]]) = 2 * MaxLn \/ Stage(ctl'[OwnerOf[c]]) = 6 * MaxLn + 5
    <3>1. \/ ctl'[OwnerOf[c]].at = "fill" /\ ctl'[OwnerOf[c]].ln = 0
          \/ ctl'[OwnerOf[c]].at = "gather"
      BY <2>1, <2>2 DEF NextIteration
    <3> QED BY <2>2, <2>3, <3>1, StageFacts
  <2>6. m = "init" /\ 1 <= ln
    <3>1. m \in {"fill", "init", "iterate", "final"} /\ (m # "fill" => 1 <= ln)
      BY DEF Message, Mode, Joins
    <3>2. m # "fill"
      BY <2>2, <2>5 DEF PackedIn, Current
    <3>3. m # "iterate"
      BY <2>2, <2>5 DEF PackedIn, Current
    <3>4. m # "final"
      BY <2>2, <2>5 DEF PackedIn
    <3> QED BY <3>1, <3>2, <3>3, <3>4
  <2>7. msg'[<<m, ln>>] = msg[<<m, ln>>]
    BY <2>1, <2>2, <2>6 DEF NextIteration
  <2>8. PackedIn(m, ln) < Stage(Place(c)) /\ Current(m, Stage(Place(c)))
    BY <2>2, <2>4, <2>6 DEF PackedIn, Current, Place
  <2> QED BY <2>7, <2>8 DEF SentInv
<1>3. CASE Gather
  <2> SUFFICES ASSUME NEW m \in Message, NEW ln \in Level, NEW c \in Cell, P(m, ln, c)
               PROVE  msg'[<<m, ln>>][c] # NotSent
    BY DEF SentInv, Place
  <2>2. OwnerOf[c] \in Rank /\ MaxLn \in Nat /\ ln \in Nat /\ ln <= MaxLn
    BY CellFacts DEF Level
  <2>3. ctl[OwnerOf[c]] \in Control /\ ctl'[OwnerOf[c]] \in Control
    BY <2>2 DEF TypeOK
  <2>4. Stage(ctl[OwnerOf[c]]) = 6 * MaxLn + 5 /\ Stage(ctl'[OwnerOf[c]]) = 6 * MaxLn + 6
    BY <1>3, <2>2, <2>3, StageFacts DEF Gather
  <2>6. m = "init" /\ 1 <= ln
    <3>1. m \in {"fill", "init", "iterate", "final"} /\ (m # "fill" => 1 <= ln)
      BY DEF Message, Mode, Joins
    <3>2. m # "fill" /\ m # "iterate"
      BY <2>2, <2>4 DEF Current
    <3>4. m # "final"
      BY <2>2, <2>4 DEF PackedIn
    <3> QED BY <3>1, <3>2, <3>4
  <2>7. msg' = msg
    BY <1>3 DEF Gather
  <2>8. PackedIn(m, ln) < Stage(Place(c)) /\ Current(m, Stage(Place(c)))
    BY <2>2, <2>4, <2>6 DEF PackedIn, Current, Place
  <2> QED BY <2>7, <2>8 DEF SentInv
<1>4. CASE UNCHANGED vars
  BY <1>4 DEF SentInv, Place, vars
<1> QED BY <1>1, <1>2, <1>3, <1>4 DEF Next

(* A ghost cell of a patch is a cell of its level or of the coarser one.   *)
LEMMA GhostCell ==
  ASSUME NEW c \in Cell, NEW i \in Ghosts[c], Sources[c][i] # NoCell
  PROVE  Sources[c][i] \in Cell /\ LevelOf[Sources[c][i]] \in {LevelOf[c], LevelOf[c] - 1}
<1>1. i \in DOMAIN Sources[c] /\ \A d \in Reads[c] : LevelOf[d] \in {LevelOf[c], LevelOf[c] - 1}
  BY SourceAssumption
<1>2. Sources[c] \in Seq(Cell \cup {NoCell})
  BY HierarchyAssumption
<1>3. Sources[c][i] \in Reads[c]
  <2>1. Reads[c] = {Sources[c][j] : j \in DOMAIN Sources[c]} \ {NoCell}
    BY DEF Reads
  <2> QED BY <1>1, <2>1
<1>4. Sources[c][i] \in Cell \cup {NoCell}
  BY <1>1, <1>2
<1> QED BY <1>1, <1>3, <1>4

(* What a rank has sent when it is in the loop and not behind stage s.     *)
LEMMA HasSent ==
  ASSUME TypeOK, SentInv, NEW m \in Message, NEW ln \in Level, NEW d \in Cell,
         Joins(m, ln, d), PackedIn(m, ln) < Stage(ctl[OwnerOf[d]]),
         m \in {"fill", "iterate"} => ctl[OwnerOf[d]].mode # "final"
  PROVE  msg[<<m, ln>>][d] # NotSent
<1>1. ctl[OwnerOf[d]] \in Control /\ MaxLn \in Nat
  BY CellFacts DEF TypeOK
<1>2. Stage(ctl[OwnerOf[d]]) \in Nat
  BY <1>1, StageFacts
<1>3. ctl[OwnerOf[d]].mode # "final" => Stage(ctl[OwnerOf[d]]) < 6 * MaxLn + 5
  BY <1>1, <1>2, PlaceFacts, StageBounds DEF Mode
<1> QED BY <1>3 DEF SentInv, Place, Current

LEMMA LeastRankGoesOn ==
  ASSUME TypeOK, SentInv, Looping \/ \A q \in Rank : ctl[q].mode = "final",
         NEW r \in Rank, \A q \in Rank : Stage(ctl[r]) <= Stage(ctl[q])
  PROVE  CanStep(r) \/ ctl[r].at \in {"reduce", "gather", "done"}
<1> DEFINE p  == ctl[r]
           m  == p.mode
           ln == p.ln
<1>1. p \in Control /\ m \in Mode /\ ln \in Level /\ ln \in Nat /\ ln <= MaxLn /\ MaxLn \in Nat
  BY PlaceFacts, ControlFacts DEF TypeOK
<1>2. \A q \in Rank : Stage(ctl[q]) \in Nat /\ (m # "final" => ctl[q].mode # "final")
  BY StageFacts DEF TypeOK, Looping
<1>3. CASE p.at = "recv"
  <2>1. Stage(p) = PackedIn(m, ln) + 1 /\ 1 <= ln /\ m \in Message
    <3>1. 1 <= ln /\ m \in Message
      BY <1>1, <1>3, PlaceFacts DEF Message
    <3>2. CASE m = "init"
      BY <1>1, <1>3, <3>1, <3>2, StageFacts DEF PackedIn
    <3>3. CASE m = "iterate"
      BY <1>1, <1>3, <3>1, <3>3, StageFacts DEF PackedIn
    <3>4. CASE m = "final"
      BY <1>1, <1>3, <3>1, <3>4, StageFacts DEF PackedIn
    <3> QED BY <1>1, <3>1, <3>2, <3>3, <3>4 DEF Mode
  <2>2. ASSUME NEW c \in Own[r][ln - 1], NEW d \in Children[c]
        PROVE  msg[<<m, ln>>][d] # NotSent
    <3>1. c \in Cell /\ LevelOf[c] = ln - 1
      <4>1. ln - 1 \in Level
        BY <1>1, <2>1 DEF Level
      <4> QED BY <4>1 DEF Own
    <3>2. d \in Cell /\ LevelOf[d] = ln /\ OwnerOf[d] \in Rank
      BY <1>1, <3>1, CellFacts
    <3>3. Joins(m, ln, d)
      BY <1>1, <2>1, <3>2 DEF Joins, Mode
    <3>4. PackedIn(m, ln) < Stage(ctl[OwnerOf[d]])
      <4>1. PackedIn(m, ln) \in Int
        BY <1>1, <2>1 DEF PackedIn, Mode
      <4> HIDE DEF p, m, ln
      <4>2. Stage(p) <= Stage(ctl[OwnerOf[d]])
        BY <3>2 DEF p
      <4> QED BY <1>2, <2>1, <3>2, <4>1, <4>2
    <3>5. m \in {"fill", "iterate"} => ctl[OwnerOf[d]].mode # "final"
      BY <1>2, <3>2
    <3> HIDE DEF p, m, ln
    <3> QED BY <1>1, <2>1, <3>2, <3>3, <3>4, <3>5, HasSent
  <2> QED BY <1>3, <2>2 DEF CanStep
<1>4. CASE p.at = "sweep"
  <2>1. Stage(p) = PackedIn("fill", ln) + 1 /\ m = "iterate" /\ "fill" \in Message
        /\ PackedIn("fill", ln) \in Int
    BY <1>1, <1>4, StageFacts, ControlFacts DEF PackedIn, Message
  <2>2. ASSUME NEW c \in Own[r][ln], NEW i \in Ghosts[c], Sources[c][i] # NoCell
        PROVE  msg[<<"fill", ln>>][Sources[c][i]] # NotSent
    <3> DEFINE d == Sources[c][i]
    <3>1. c \in Cell /\ LevelOf[c] = ln
      BY <1>1 DEF Own
    <3>2. d \in Cell /\ LevelOf[d] \in {ln, ln - 1} /\ OwnerOf[d] \in Rank
      BY <2>2, <3>1, GhostCell, CellFacts
    <3>3. Joins("fill", ln, d)
      BY <3>2 DEF Joins
    <3> HIDE DEF d, p, m, ln
    <3>4. Stage(p) <= Stage(ctl[OwnerOf[d]])
      BY <3>2 DEF p
    <3>5. PackedIn("fill", ln) < Stage(ctl[OwnerOf[d]])
      BY <1>2, <2>1, <3>2, <3>4
    <3>6. ctl[OwnerOf[d]].mode # "final"
      BY <1>2, <2>1, <3>2
    <3> QED BY <1>1, <2>1, <3>2, <3>3, <3>5, <3>6, HasSent DEF d
  <2>3. HaloReady(r, ln)
    BY <2>2 DEF HaloReady
  <2> QED BY <1>4, <2>3 DEF CanStep
<1>5. CASE p.at \in {"send", "fill", "renumber"}
  BY <1>5 DEF CanStep
<1> QED BY <1>1, <1>3, <1>4, <1>5, PlaceFacts DEF Mode

(***************************************************************************)
(* On every hierarchy, whatever the phase and the number of ranks, the     *)
(* method never comes to a state in which every rank that has not returned *)
(* waits for data or for a collective operation.  (fillData, coarsenData   *)
(* and the collectives of findAndNumberGrains)                             *)
(***************************************************************************)
THEOREM RanksNeverWaitForEver == Spec => []NoRankWaits
<1>1. TypeOK /\ Init => LoopInv /\ DenseInv /\ SentInv
  <2> SUFFICES ASSUME TypeOK, Init PROVE SentInv
    BY DenseInit
  <2>1. \A r \in Rank : Stage(ctl[r]) = 0
    <3> SUFFICES ASSUME NEW r \in Rank PROVE Stage(ctl[r]) = 0
      OBVIOUS
    <3>1. ctl[r] \in Control /\ MaxLn \in Nat
      BY HierarchyAssumption DEF TypeOK
    <3>2. CASE MaxLn > 0
      <4>1. ctl[r].mode = "init" /\ ctl[r].at = "send" /\ ctl[r].ln = MaxLn
        BY <3>2 DEF Init
      <4> QED BY <3>1, <4>1, StageFacts
    <3>3. CASE ~ MaxLn > 0
      <4>1. ctl[r].at = "fill" /\ ctl[r].ln = 0 /\ MaxLn = 0
        BY <3>1, <3>3 DEF Init
      <4> QED BY <3>1, <4>1, StageFacts
    <3> QED BY <3>2, <3>3
  <2>2. ASSUME NEW m \in Message, NEW ln \in Level PROVE ~ PackedIn(m, ln) < 0
    <3>1. MaxLn \in Nat /\ ln \in Nat /\ ln <= MaxLn
      BY HierarchyAssumption DEF Level
    <3> QED BY <3>1 DEF PackedIn, Message, Mode
  <2> QED BY <2>1, <2>2, CellFacts DEF SentInv, Place
<1>2. TypeOK /\ TypeOK' /\ LoopInv /\ DenseInv /\ SentInv /\ [Next]_vars
        => LoopInv' /\ DenseInv' /\ SentInv'
  BY FallNext, DenseNext, SentNext
<1>3. TypeOK /\ DenseInv /\ SentInv => NoRankWaits
  <2> SUFFICES ASSUME TypeOK, DenseInv, SentInv PROVE NoRankWaits
    OBVIOUS
  <2>1. \A q \in Rank : ctl[q] \in Control /\ Stage(ctl[q]) \in Nat
    BY StageFacts DEF TypeOK
  <2>2. PICK r \in Rank : \A q \in Rank : Stage(ctl[r]) <= Stage(ctl[q])
    <3> DEFINE V == {Stage(ctl[q]) : q \in Rank}
    <3>1. V \in SUBSET Nat /\ V # {}
      BY <2>1, RankAssumption
    <3>2. PICK v \in V : \A w \in V : v <= w
      <4> HIDE DEF V
      <4> QED BY <3>1, LeastNat
    <3> QED BY <3>2
  <2>3. Looping \/ \A q \in Rank : ctl[q].mode = "final"
    BY ControlFacts DEF DenseInv
  <2>4. CanStep(r) \/ ctl[r].at \in {"reduce", "gather", "done"}
    BY <2>2, <2>3, LeastRankGoesOn
  <2>5. CASE ctl[r].at = "reduce"
    <3>1. Stage(ctl[r]) = 6 * MaxLn + 4 /\ MaxLn \in Nat /\ Looping
      BY <2>1, <2>3, <2>5, StageFacts, ControlFacts
    <3>2. ASSUME NEW q \in Rank PROVE ctl[q].at = "reduce"
      <4>1. ctl[q].mode = "init" \/ ctl[q].mode = "iterate"
        BY <2>1, <3>1, PlaceFacts DEF Looping, Mode
      <4>2. Stage(ctl[q]) \in Nat /\ 6 * MaxLn + 4 <= Stage(ctl[q])
        BY <2>1, <2>2, <3>1
      <4> QED BY <2>1, <3>1, <4>1, <4>2, StageBounds
    <3> QED BY <3>2 DEF NoRankWaits
  <2>6. CASE ctl[r].at = "gather"
    <3>1. \A q \in Rank : ctl[q].at = "gather"
      BY <2>6, ControlFacts DEF DenseInv, Looping
    <3> QED BY <3>1 DEF NoRankWaits
  <2>7. CASE ctl[r].at = "done"
    <3>1. Stage(ctl[r]) = 8 * MaxLn + 7 /\ MaxLn \in Nat
      BY <2>1, <2>7, StageFacts, PlaceFacts
    <3>2. ASSUME NEW q \in Rank PROVE ctl[q].at = "done"
      <4>1. Stage(ctl[q]) \in Nat /\ 8 * MaxLn + 7 <= Stage(ctl[q])
        BY <2>1, <2>2, <3>1
      <4>2. ctl[q].at # "done" => Stage(ctl[q]) <= 8 * MaxLn + 6
        BY <2>1, StageBounds
      <4> QED BY <3>1, <4>1, <4>2
    <3> QED BY <3>2 DEF NoRankWaits, Terminated
  <2> QED BY <2>4, <2>5, <2>6, <2>7 DEF NoRankWaits
<1> QED BY <1>1, <1>2, <1>3, TypeCorrect, PTL DEF Spec

-----------------------------------------------------------------------------
(* The loop goes on only below the iteration limit.                        *)
CountInv == Looping => counter < MaxIter

LEMMA CountNext ==
  ASSUME TypeOK, TypeOK', DenseInv, CountInv, [Next]_vars
  PROVE  CountInv'
<1> SUFFICES ASSUME Looping' PROVE counter' < MaxIter
  BY DEF CountInv
<1>1. Looping
  <2>1. PICK q \in Rank : TRUE
    BY RankAssumption
  <2>2. ~ (\A r \in Rank : ctl[r].mode = "final")
    BY <2>1, FinalStays DEF Looping
  <2> QED BY <2>2, ControlFacts DEF DenseInv
<1>2. CASE AllReduce
  <2>1. Rank # {}
    BY RankAssumption
  <2>2. PICK q \in Rank : TRUE
    BY <2>1
  <2>3. ~ NextIteration({})
    BY <2>2 DEF NextIteration, Looping
  <2>4. counter + 1 < MaxIter /\ counter' = counter + 1
    BY <1>2, <2>3 DEF AllReduce, NextIteration
  <2> QED BY <2>4
<1>3. ASSUME NEW r \in Rank, RankStep(r) PROVE counter' < MaxIter
  BY <1>1, <1>3, RankStepKinds DEF CountInv
<1>4. CASE Gather \/ UNCHANGED vars
  BY <1>1, <1>4 DEF CountInv, Gather, vars
<1> QED BY <1>2, <1>3, <1>4 DEF Next

LEMMA StepAdvances ==
  ASSUME TypeOK, TypeOK', CountInv, Next
  PROVE  IF counter' = counter
         THEN ctl' # ctl /\ \A r \in Rank : ctl'[r] = ctl[r] \/ GoesOn(r)
         ELSE counter' = counter + 1 /\ counter < MaxIter
<1>1. ASSUME NEW r \in Rank, RankStep(r)
      PROVE  counter' = counter /\ ctl' # ctl /\ \A q \in Rank : ctl'[q] = ctl[q] \/ GoesOn(q)
  <2>1. /\ counter' = counter /\ \A q \in Rank : q # r => ctl'[q] = ctl[q]
        /\ (Passes(ctl[r], ctl'[r]) /\ msg' = msg) \/ Packs(r) \/ Sweeps(r)
    BY <1>1, RankStepKinds
  <2>2. ctl[r] \in Control /\ ctl'[r] \in Control
    BY DEF TypeOK
  <2>3. Stage(ctl[r]) \in Nat /\ Stage(ctl'[r]) \in Nat
    BY <2>2, StageFacts
  <2>4. GoesOn(r) /\ ctl'[r] # ctl[r]
    <3>1. CASE Passes(ctl[r], ctl'[r])
      <4>1. Stage(ctl[r]) < Stage(ctl'[r])
        BY <2>2, <3>1, PassesOn
      <4> QED BY <2>3, <4>1 DEF GoesOn
    <3>2. CASE Packs(r)
      <4>1. Stage(ctl[r]) < Stage(ctl'[r])
        BY <2>3, <3>2 DEF Packs
      <4> QED BY <2>3, <4>1 DEF GoesOn
    <3>3. CASE Sweeps(r)
      <4>1. ctl[r].k \in Nat
        BY ControlFacts
      <4>2. GoesOn(r) /\ ctl'[r].k # ctl[r].k
        BY <3>3, <4>1, SweepKeepsStage DEF GoesOn, Sweeps
      <4> QED BY <4>2
    <3> QED BY <2>1, <3>1, <3>2, <3>3
  <2> QED BY <2>1, <2>4
<1>2. CASE AllReduce
  <2>1. counter' = counter + 1 /\ \A r \in Rank : ctl[r].at = "reduce"
    BY <1>2 DEF AllReduce, NextIteration
  <2>2. Looping
    BY <2>1, ControlFacts DEF Looping
  <2>3. counter \in Nat
    BY DEF TypeOK
  <2> QED BY <2>1, <2>2, <2>3 DEF CountInv
<1>3. CASE Gather
  <2>1. /\ counter' = counter
        /\ \A r \in Rank : ctl[r].at = "gather" /\ ctl'[r].at = "renumber"
    BY <1>3 DEF Gather
  <2>2. ASSUME NEW r \in Rank PROVE GoesOn(r)
    <3>1. ctl[r] \in Control /\ ctl'[r] \in Control /\ MaxLn \in Nat
      BY HierarchyAssumption DEF TypeOK
    <3>2. Stage(ctl[r]) = 6 * MaxLn + 5 /\ Stage(ctl'[r]) = 6 * MaxLn + 6
      BY <2>1, <3>1, StageFacts
    <3> QED BY <3>1, <3>2 DEF GoesOn
  <2>3. ctl' # ctl
    <3>1. PICK q \in Rank : TRUE
      BY RankAssumption
    <3>2. ctl'[q] # ctl[q]
      BY <2>1
    <3> QED BY <3>2
  <2> QED BY <2>1, <2>2, <2>3
<1> QED BY <1>1, <1>2, <1>3 DEF Next

(***************************************************************************)
(* On every hierarchy a step brings the ranks it moves nearer to the end   *)
(* of the method, or is one of at most MaxIter reductions: together with   *)
(* RanksNeverWaitForEver, what the method needs to end.  (the loops of     *)
(* findAndNumberGrains over iterations, levels and cells)                  *)
(***************************************************************************)
THEOREM EveryStepAdvances == Spec => StepsAdvance
<1>1. TypeOK /\ Init => LoopInv /\ DenseInv /\ CountInv
  <2>1. Init => counter < MaxIter
    BY NumberAssumption DEF Init
  <2> QED BY <2>1, DenseInit DEF CountInv
<1>2. TypeOK /\ TypeOK' /\ LoopInv /\ DenseInv /\ CountInv /\ [Next]_vars
        => LoopInv' /\ DenseInv' /\ CountInv'
  BY FallNext, DenseNext, CountNext
<1>3. TypeOK /\ TypeOK' /\ CountInv /\ [Next]_vars
        => [IF counter' = counter
            THEN ctl' # ctl /\ \A r \in Rank : ctl'[r] = ctl[r] \/ GoesOn(r)
            ELSE counter' = counter + 1 /\ counter < MaxIter]_vars
  BY StepAdvances
<1> QED BY <1>1, <1>2, <1>3, TypeCorrect, PTL DEF Spec, StepsAdvance

-----------------------------------------------------------------------------
(***************************************************************************)
(* Why CellsNumberedUniquely fails: where the numbers themselves differ it *)
(* holds, since no cell that counts is written before the first sweep.     *)
(***************************************************************************)
NumbersDiffer ==
  \A c, d \in Cell : ~ Covered(c) /\ ~ Covered(d) /\ Number[c] = Number[d] => c = d

Unswept(p) ==
  p.mode = "init" \/ (counter = 0 /\ p.mode = "iterate" /\ p.at = "fill" /\ p.ln = 0)

NumberInv ==
  \A c \in solid : ~ Covered(c) /\ Unswept(ctl[OwnerOf[c]]) => g[c] = Number[c]

LEMMA UnsweptStep ==
  ASSUME TypeOK, NEW r \in Rank, RankStep(r), NEW c \in Cell, ~ Covered(c),
         Unswept(ctl[OwnerOf[c]])'
  PROVE  Unswept(ctl[OwnerOf[c]]) /\ g'[c] = g[c]
<1>0. OwnerOf[c] \in Rank /\ g \in [Cell -> Nat \cup {None}] /\ ctl \in [Rank -> Control]
  BY HierarchyAssumption DEF TypeOK
<1>1. counter' = counter
  BY DEF RankStep, Send, Coarsen, Fill, SweepCell, EndSweep, Renumber
<1>2. /\ ctl[r].ln \in Nat
      /\ ctl[r].at \in {"send", "recv"} => 1 <= ctl[r].ln
      /\ ctl[r].at \in {"fill", "sweep"} => ctl[r].mode = "iterate"
      /\ ctl[r].at = "renumber" => ctl[r].mode = "final"
  BY <1>0, PlaceFacts, ControlFacts
<1>3. CASE Send(r)
  BY <1>0, <1>1, <1>3, WentTo DEF Send, Unswept
<1>4. CASE Fill(r)
  BY <1>0, <1>1, <1>4, WentTo DEF Fill, Unswept
<1>5. CASE Coarsen(r)
  <2>1. ctl[r].at = "recv" /\ AfterCoarsen(r, ctl[r].mode, ctl[r].ln)
    BY <1>5 DEF Coarsen
  <2>2. /\ \A q \in Rank : q # r => ctl'[q] = ctl[q]
        /\ ctl'[r].mode = "init" => ctl[r].mode = "init"
        /\ ctl'[r].mode = "iterate" /\ ctl'[r].at = "fill" /\ ctl'[r].ln = 0
             => ctl[r].mode = "init"
    BY <1>2, <2>1, WentTo DEF AfterCoarsen
  <2>3. g'[c] = g[c]
    BY <1>5 DEF Coarsen
  <2> QED
    BY <1>0, <1>1, <2>2, <2>3 DEF Unswept
<1>6. CASE EndSweep(r)
  <2>1. g' = g /\ \/ Goto(r, "iterate", "send", ctl[r].ln)
                  \/ Goto(r, "iterate", "fill", 1)
                  \/ Goto(r, "iterate", "reduce", 0)
    BY <1>6 DEF EndSweep
  <2>2. ~ Unswept(ctl[r])' /\ \A q \in Rank : q # r => ctl'[q] = ctl[q]
    BY <2>1, WentTo DEF Unswept
  <2> QED
    BY <1>0, <1>1, <2>1, <2>2 DEF Unswept
<1>7. CASE SweepCell(r)
  <2>1. /\ ctl'[r].mode = "iterate" /\ ctl'[r].at = "sweep"
        /\ \A q \in Rank : q # r => ctl'[q] = ctl[q]
    BY <1>0, <1>2, <1>7 DEF SweepCell, Control
  <2>2. OwnerOf[c] # r
    BY <2>1 DEF Unswept
  <2>3. OwnerOf[Order[r][ctl[r].ln][ctl[r].k]] = r
    BY <1>7, SweptCell DEF SweepCell
  <2>4. g'[c] = g[c]
    BY <1>0, <1>7, <2>2, <2>3 DEF SweepCell
  <2> QED
    BY <1>0, <1>1, <2>1, <2>2, <2>4 DEF Unswept
<1>8. CASE Renumber(r)
  <2>1. ctl'[r].mode = "final" /\ \A q \in Rank : q # r => ctl'[q] = ctl[q]
    BY <1>8, WentTo DEF Renumber
  <2>2. OwnerOf[c] # r
    BY <2>1 DEF Unswept
  <2>3. g'[c] = g[c]
    BY <1>8, <2>2 DEF Renumber
  <2> QED
    BY <1>0, <1>1, <2>1, <2>2, <2>3 DEF Unswept
<1> QED
  BY <1>3, <1>4, <1>5, <1>6, <1>7, <1>8 DEF RankStep

(***************************************************************************)
(* On every hierarchy, any number of levels and any order of the ranks:    *)
(* cells are numbered uniquely if their numbers differ.  So the offsets of *)
(* the levels alone are why they are not, and neither the first transfers  *)
(* to coarser levels nor a rank that is ahead.  (findAndNumberGrains, up   *)
(* to the loop)                                                            *)
(***************************************************************************)
THEOREM CellsAreNumberedUniquely ==
  ASSUME NumbersDiffer
  PROVE  Spec => []CellsNumberedUniquely
<1>1. TypeOK /\ Init => NumberInv
  BY DEF Init, NumberInv, TypeOK
<1>2. TypeOK /\ NumberInv /\ [Next]_vars => NumberInv'
  <2> SUFFICES ASSUME TypeOK, NumberInv, [Next]_vars PROVE NumberInv'
    OBVIOUS
  <2>0. solid' = solid /\ solid \subseteq Cell
    BY DEF TypeOK, Next, RankStep, Send, Coarsen, Fill, SweepCell, EndSweep, Renumber,
           AllReduce, NextIteration, Gather, vars
  <2>1. ASSUME NEW r \in Rank, RankStep(r) PROVE NumberInv'
    <3> SUFFICES ASSUME NEW c \in solid, ~ Covered(c), Unswept(ctl[OwnerOf[c]])'
                 PROVE  g'[c] = Number[c]
      BY <2>0 DEF NumberInv, Covered
    <3> QED
      BY <2>0, <2>1, UnsweptStep DEF NumberInv
  <2>2. CASE AllReduce \/ Gather
    <3>1. \A q \in Rank : ~ Unswept(ctl[q])'
      <4>1. CASE AllReduce
        <5>1. PICK more : NextIteration(more)
          BY <4>1 DEF AllReduce
        <5>2. counter \in Nat /\ counter' = counter + 1
          BY <5>1 DEF NextIteration, TypeOK
        <5>3. \A q \in Rank : ctl'[q].mode \in {"iterate", "final"}
          BY <5>1 DEF NextIteration
        <5> QED
          BY <5>2, <5>3 DEF Unswept
      <4>2. CASE Gather
        BY <4>2 DEF Gather, Unswept
      <4> QED
        BY <2>2, <4>1, <4>2
    <3> QED
      BY <2>0, <3>1, HierarchyAssumption DEF NumberInv
  <2>3. CASE UNCHANGED vars
    BY <2>3 DEF vars, NumberInv, Unswept
  <2> QED
    BY <2>1, <2>2, <2>3 DEF Next
<1>3. TypeOK /\ NumberInv => CellsNumberedUniquely
  BY HierarchyAssumption DEF TypeOK, NumberInv, Unswept, NumbersDiffer, CellsNumberedUniquely
<1> QED
  BY TypeCorrect, <1>1, <1>2, <1>3, PTL DEF Spec

=============================================================================
