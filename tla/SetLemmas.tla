----------------------------- MODULE SetLemmas -----------------------------
(***************************************************************************)
(* Facts about finite sets of numbers that the proofs of this project use. *)
(* The induction over a finite set is WFMin on its strict subsets.         *)
(***************************************************************************)
EXTENDS Integers, FiniteSets, FiniteSetTheorems, WellFoundedInduction, TLAPS

(* A finite set of integers has a least element.  (std::min over a list) *)
LEMMA FiniteLeast ==
  ASSUME NEW V \in SUBSET Int, IsFiniteSet(V), V # {}
  PROVE  \E v \in V : \A w \in V : v <= w
<1> DEFINE R == StrictSubsetOrdering(V)
           T == {U \in SUBSET V : U # {} /\ ~ \E v \in U : \A w \in U : v <= w}
<1> SUFFICES ASSUME T # {} PROVE FALSE
  BY V \in SUBSET V
<1>1. IsWellFoundedOn(R, SUBSET V)
  BY FS_StrictSubsetOrderingWellFounded, FS_FiniteSubsetsOfFinite
<1>2. PICK U \in T : \A W \in T : ~ (<<W, U>> \in R)
  <2> HIDE DEF T, R
  <2> T \subseteq SUBSET V BY DEF T
  <2> QED BY <1>1, WFMin
<1>3. PICK u \in U : TRUE
  OBVIOUS
<1> DEFINE W == U \ {u}
<1>4. W # {} 
  OBVIOUS
<1>5. ~ \E v \in W : \A w \in W : v <= w
  <2> SUFFICES ASSUME NEW v \in W, \A w \in W : v <= w PROVE FALSE
    OBVIOUS
  <2>1. CASE v <= u
    <3> \A w \in U : v <= w BY <2>1
    <3> QED OBVIOUS
  <2>2. CASE u <= v
    <3> \A w \in U : u <= w BY <2>2
    <3> QED OBVIOUS
  <2> QED BY <2>1, <2>2
<1>6. W \in T /\ <<W, U>> \in R
  <2>1. W \in T BY <1>4, <1>5
  <2>2. W \subseteq U /\ W # U /\ W \in SUBSET V /\ U \in SUBSET V OBVIOUS
  <2> HIDE DEF W, T
  <2>3. <<W, U>> \in R BY <2>2 DEF StrictSubsetOrdering
  <2> QED BY <2>1, <2>3
<1> QED BY <1>2, <1>6

(* A set of natural numbers has a least element. *)
LEMMA LeastNat ==
  ASSUME NEW V \in SUBSET Nat, V # {}
  PROVE  \E v \in V : \A w \in V : v <= w
<1>1. PICK u \in V : u \in Nat
  OBVIOUS
<1> DEFINE W == {w \in V : w <= u}
<1>2. IsFiniteSet(W)
  <2>1. \A w \in W : w \in 0 .. u
    BY <1>1
  <2>2. W \in SUBSET (0 .. u)
    BY <2>1
  <2>3. IsFiniteSet(0 .. u)
    BY <1>1, FS_Interval
  <2> QED BY <2>2, <2>3, FS_Subset
<1>3. W \in SUBSET Int /\ W # {}
  <2>1. \A w \in W : w \in Int
    OBVIOUS
  <2>2. u \in W
    BY <1>1
  <2> QED BY <2>1, <2>2
<1>4. PICK v \in W : \A w \in W : v <= w
  <2> HIDE DEF W
  <2> QED BY <1>2, <1>3, FiniteLeast
<1>5. ASSUME NEW w \in V PROVE v <= w
  <2>1. v \in Nat /\ u \in Nat /\ w \in Nat /\ v <= u
    BY <1>1
  <2>2. w <= u => w \in W
    OBVIOUS
  <2> QED BY <1>4, <2>1, <2>2
<1> QED BY <1>5

(* A set of indices of a sequence has a greatest element. *)
LEMMA GreatestIndex ==
  ASSUME NEW n \in Nat, NEW V \in SUBSET (1 .. n), V # {}
  PROVE  \E v \in V : \A w \in V : w <= v
<1> DEFINE U == {m \in 0 .. n : n - m \in V}
<1>1. \A v \in V : v \in 1 .. n /\ n - v \in U
  <2> TAKE v \in V
  <2>1. v \in 1 .. n
    OBVIOUS
  <2>2. n - v \in 0 .. n /\ n - (n - v) = v
    BY <2>1
  <2> QED BY <2>1, <2>2
<1>2. U \in SUBSET Nat /\ U # {}
  <2>1. \A m \in U : m \in Nat
    OBVIOUS
  <2>2. PICK v \in V : TRUE
    OBVIOUS
  <2> QED BY <1>1, <2>1, <2>2
<1>3. PICK u \in U : \A w \in U : u <= w
  <2> HIDE DEF U
  <2> QED BY <1>2, LeastNat
<1>4. ASSUME NEW w \in V PROVE w <= n - u
  <2>1. u <= n - w
    BY <1>1, <1>3
  <2> QED BY <1>1, <2>1
<1> QED BY <1>3, <1>4

(* Counting the smaller members numbers a finite set from 0.               *)
LEMMA CountBelow ==
  ASSUME NEW L \in SUBSET Nat, IsFiniteSet(L)
  PROVE  /\ Cardinality(L) \in Nat
         /\ {Cardinality({m \in L : m < n}) : n \in L} = 0 .. Cardinality(L) - 1
<1> DEFINE B(n) == {m \in L : m < n}
           N == Cardinality(L)
           T == 0 .. N - 1
           f == [n \in L |-> Cardinality(B(n))]
<1>1. N \in Nat
  BY FS_CardinalityType
<1>2. \A n \in L : IsFiniteSet(B(n)) /\ Cardinality(B(n)) \in Nat
  <2>1. \A n \in L : B(n) \in SUBSET L
    OBVIOUS
  <2>2. \A n \in L : IsFiniteSet(B(n))
    BY <2>1, FS_Subset
  <2> QED BY <2>2, FS_CardinalityType
<1>3. ASSUME NEW n \in L PROVE Cardinality(B(n)) \in T
  <2>1. B(n) \in SUBSET L /\ B(n) # L
    OBVIOUS
  <2>2. Cardinality(B(n)) <= N /\ Cardinality(B(n)) # N
    <3> HIDE DEF B
    <3> QED BY <2>1, FS_Subset
  <2> QED BY <1>1, <1>2, <2>2
<1>4. ASSUME NEW n \in L, NEW k \in L, n < k
      PROVE  Cardinality(B(n)) < Cardinality(B(k))
  <2>1. B(n) \in SUBSET B(k) /\ B(n) # B(k)
    <3>1. \A m \in B(n) : m \in B(k)
      BY <1>4
    <3>2. n \in B(k) /\ n \notin B(n)
      BY <1>4
    <3> HIDE DEF B
    <3> QED BY <3>1, <3>2
  <2>2. Cardinality(B(n)) <= Cardinality(B(k)) /\ Cardinality(B(n)) # Cardinality(B(k))
    <3> HIDE DEF B
    <3> QED BY <1>2, <2>1, FS_Subset
  <2> QED BY <1>2, <2>2
<1>5. f \in Injection(L, T)
  <2>1. f \in [L -> T] /\ \A n \in L : f[n] = Cardinality(B(n))
    BY <1>3
  <2>2. ASSUME NEW n \in L, NEW k \in L, f[n] = f[k] PROVE n = k
    <3>1. n \in Nat /\ k \in Nat
      OBVIOUS
    <3>2. ~ (n < k) /\ ~ (k < n)
      BY <1>2, <1>4, <2>1, <2>2
    <3> QED BY <3>1, <3>2
  <2> HIDE DEF f, T
  <2>3. DOMAIN f = L
    BY <2>1
  <2>4. IsInjective(f)
    BY <2>2, <2>3 DEF IsInjective
  <2> QED BY <2>1, <2>4 DEF Injection
<1>6. IsFiniteSet(T) /\ Cardinality(T) = N
  <2>1. 0 \in Int /\ N - 1 \in Int
    BY <1>1
  <2>2. IsFiniteSet(0 .. N - 1) /\ Cardinality(0 .. N - 1) = IF 0 > N - 1 THEN 0 ELSE N - 1 - 0 + 1
    <3> HIDE DEF N
    <3> QED BY <2>1, FS_Interval
  <2> QED BY <1>1, <2>2
<1>7. f \in Surjection(L, T)
  <2> HIDE DEF f, T
  <2> QED BY <1>5, <1>6, FS_Injection
<1>8. T = {f[n] : n \in L}
  <2>1. \A t \in T : \E n \in L : f[n] = t
    <3> HIDE DEF f, T
    <3> QED BY <1>7 DEF Surjection
  <2> QED BY <1>3, <2>1
<1> QED BY <1>1, <1>8

LEMMA CountBelowInjective ==
  ASSUME NEW L \in SUBSET Nat, IsFiniteSet(L), NEW n \in L, NEW k \in L,
         Cardinality({m \in L : m < n}) = Cardinality({m \in L : m < k})
  PROVE  n = k
<1> DEFINE B(j) == {m \in L : m < j}
<1>1. ASSUME NEW i \in L, NEW j \in L, i < j PROVE Cardinality(B(i)) # Cardinality(B(j))
  <2>1. B(i) \in SUBSET B(j) /\ B(i) # B(j) /\ B(j) \in SUBSET L
    <3>1. \A m \in B(i) : m \in B(j)
      BY <1>1
    <3>2. i \in B(j) /\ i \notin B(i) /\ B(j) \in SUBSET L
      BY <1>1
    <3> HIDE DEF B
    <3> QED BY <3>1, <3>2
  <2> HIDE DEF B
  <2>2. IsFiniteSet(B(j))
    BY <2>1, FS_Subset
  <2> QED BY <2>1, <2>2, FS_Subset
<1>2. n \in Nat /\ k \in Nat
  OBVIOUS
<1>3. ~ (n < k) /\ ~ (k < n)
  <2>1. Cardinality(B(n)) = Cardinality(B(k))
    OBVIOUS
  <2> HIDE DEF B
  <2> QED BY <1>1, <2>1
<1> QED BY <1>2, <1>3

=============================================================================
