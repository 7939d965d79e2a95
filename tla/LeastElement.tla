---------------------------- MODULE LeastElement ----------------------------
(***************************************************************************)
(* The facts the proofs need about searches of the code that stop at the   *)
(* first hit, and about its loops: there is a first one, what each round   *)
(* keeps holds after the last, and the recursion they follow has a value.  *)
(***************************************************************************)
EXTENDS Integers, FiniteSets, FiniteSetTheorems, TLAPS

\* A non-empty set of numbers has a least one.  (Sets 0 .. n - 1 are ordered
\* like n, and inclusion of finite sets is well-founded.)
LEMMA LeastNat ==
  ASSUME NEW T \in SUBSET Nat, T # {}
  PROVE  \E n \in T : \A m \in T : n <= m
<1> DEFINE Below(n) == 0 .. n - 1
           B == {Below(n) : n \in T}
<1>1. IsWellFoundedOn(StrictSubsetOrdering(Nat), FiniteSubsetsOf(Nat))
  BY FS_StrictSubsetOrderingWellFounded
<1>2. B \subseteq FiniteSubsetsOf(Nat)
  <2>1. ASSUME NEW n \in T PROVE Below(n) \in SUBSET Nat /\ IsFiniteSet(Below(n))
    BY FS_Interval
  <2> QED BY <2>1 DEF FiniteSubsetsOf
<1>3. B # {}
  OBVIOUS
<1>4. PICK b \in B : \A c \in B : <<c, b>> \notin StrictSubsetOrdering(Nat)
  <2> HIDE DEF B
  <2> QED BY <1>1, <1>2, <1>3, WFMin
<1>5. PICK n \in T : b = Below(n)
  OBVIOUS
<1>6. ASSUME NEW m \in T, m < n PROVE FALSE
  <2>1. m \in Nat /\ n \in Nat
    OBVIOUS
  <2>2. Below(m) \subseteq Below(n) /\ m \in Below(n) /\ m \notin Below(m)
    BY <1>6, <2>1
  <2>3. Below(m) \in SUBSET Nat /\ Below(n) \in SUBSET Nat
    BY <2>1
  <2>4. <<Below(m), Below(n)>> \in StrictSubsetOrdering(Nat)
    BY <2>2, <2>3 DEF StrictSubsetOrdering
  <2> QED BY <2>4, <1>4, <1>5
<1> QED
  <2>1. \A m \in T : m \in Nat /\ n \in Nat /\ ~(m < n)
    BY <1>6
  <2> QED BY <2>1

\* Induction as a fact about sets of numbers.
LEMMA SetInduction ==
  ASSUME NEW N \in Nat, NEW T, 0 \in T, \A j \in 1 .. N : j - 1 \in T => j \in T
  PROVE  0 .. N \subseteq T
<1> DEFINE Missed == {j \in 0 .. N : j \notin T}
<1> SUFFICES ASSUME Missed # {} PROVE FALSE
  <2>1. Missed = {} => \A j \in 0 .. N : j \in T
    OBVIOUS
  <2> HIDE DEF Missed
  <2> QED BY <2>1
<1>1. Missed \in SUBSET Nat
  OBVIOUS
<1>2. PICK j \in Missed : \A m \in Missed : j <= m
  <2> HIDE DEF Missed
  <2> QED BY <1>1, LeastNat
<1>3. j \in 1 .. N /\ j \notin T
  OBVIOUS
<1>4. j - 1 \in 0 .. N /\ ~(j <= j - 1)
  BY <1>3
<1>5. j - 1 \in T
  BY <1>2, <1>4
<1> QED
  BY <1>3, <1>5

\* f is what a loop of N rounds over values of S computes, round by round.
Follows(f, N, S, init, step) ==
  /\ f \in [0 .. N -> S]
  /\ f[0] = init
  /\ \A j \in 1 .. N : f[j] = step[j][f[j - 1]]

\* A function defined by recursion along 0 .. N exists.
LEMMA RecursiveFunction ==
  ASSUME NEW N \in Nat, NEW S, NEW init \in S, NEW step \in [1 .. N -> [S -> S]]
  PROVE  \E f : Follows(f, N, S, init, step)
<1> DEFINE T == {m \in 0 .. N : \E f : Follows(f, m, S, init, step)}
<1>1. 0 \in T
  <2>1. Follows([j \in 0 .. 0 |-> init], 0, S, init, step)
    BY DEF Follows
  <2> QED BY <2>1
<1>2. ASSUME NEW m \in 1 .. N, m - 1 \in T PROVE m \in T
  <2>1. PICK f : Follows(f, m - 1, S, init, step)
    BY <1>2
  <2>2. /\ m \in Nat /\ m - 1 \in 0 .. m - 1 /\ 0 \in 0 .. m - 1
        /\ \A j \in 0 .. m : j = m \/ j \in 0 .. m - 1
        /\ \A j \in 1 .. m : j - 1 \in 0 .. m - 1 /\ (j = m \/ j \in 1 .. m - 1)
        /\ \A j \in 0 .. m - 1 : j # m /\ j \in 0 .. m
    OBVIOUS
  <2> DEFINE v == step[m][f[m - 1]]
             g == [j \in 0 .. m |-> IF j = m THEN v ELSE f[j]]
  <2>3. f[m - 1] \in S /\ v \in S
    BY <2>1, <2>2 DEF Follows
  <2>4. \A j \in 0 .. m - 1 : g[j] = f[j] /\ f[j] \in S
    BY <2>1, <2>2 DEF Follows
  <2>5. g \in [0 .. m -> S]
    BY <2>2, <2>3, <2>4
  <2>6. g[0] = init
    BY <2>1, <2>2, <2>4 DEF Follows
  <2>7. ASSUME NEW j \in 1 .. m PROVE g[j] = step[j][g[j - 1]]
    <3>1. g[j - 1] = f[j - 1]
      BY <2>2, <2>4
    <3>2. CASE j = m
      <4>1. g[j] = v
        BY <2>2, <3>2
      <4> QED BY <3>1, <3>2, <4>1
    <3>3. CASE j # m
      <4>1. j \in 1 .. m - 1 /\ j \in 0 .. m - 1
        BY <2>2, <3>3
      <4> QED BY <2>1, <2>4, <3>1, <4>1 DEF Follows
    <3> QED BY <3>2, <3>3
  <2>8. Follows(g, m, S, init, step)
    BY <2>5, <2>6, <2>7 DEF Follows
  <2> HIDE DEF g
  <2> QED BY <2>8
<1>3. N \in T
  <2> HIDE DEF T
  <2>1. 0 .. N \subseteq T
    BY <1>1, <1>2, SetInduction
  <2> QED BY <2>1
<1> QED BY <1>3
=============================================================================
