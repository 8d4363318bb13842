---------------------------- MODULE SumTheorems ----------------------------
(***************************************************************************)
(* Sums over finite sets, as the services add up dishes and reservations.  *)
(* The sum of the community modules takes one element after the other, in  *)
(* an order nobody chose; these lemmas say that the order does not matter  *)
(* and what a sum becomes when one number changes.                         *)
(***************************************************************************)
EXTENDS Functions, Integers, FiniteSetTheorems, WellFoundedInduction, TLAPS

(* Induction over the subsets of a finite set: a family that holds every   *)
(* subset whose strict subsets it holds, holds all of them.                *)
LEMMA SubsetInduction ==
  ASSUME NEW S, IsFiniteSet(S), NEW G,
         \A T \in SUBSET S : (\A U \in SUBSET T : U # T => U \in G) => T \in G
  PROVE  SUBSET S \subseteq G
<1> SUFFICES ASSUME (SUBSET S) \ G # {} PROVE FALSE
  OBVIOUS
<1> DEFINE R == StrictSubsetOrdering(S)
           F == FiniteSubsetsOf(S)
           B == (SUBSET S) \ G
<1>1. IsWellFoundedOn(R, F) /\ B \subseteq F /\ B # {}
  BY FS_StrictSubsetOrderingWellFounded, FS_FiniteSubsetsOfFinite
<1>2. \E T \in B : \A U \in B : ~(<<U, T>> \in R)
  <2> HIDE DEF R, F, B
  <2> QED BY <1>1, WFMin
<1>3. PICK T \in B : \A U \in B : <<U, T>> \notin R
  BY <1>2
<1>4. ASSUME NEW U \in SUBSET T, U # T PROVE U \in G
  <2>1. <<U, T>> \in R
    BY <1>3, <1>4 DEF StrictSubsetOrdering
  <2> QED BY <1>3, <1>4, <2>1
<1>5. \A U \in SUBSET T : U # T => U \in G
  BY <1>4
<1>6. T \in SUBSET S /\ T \notin G
  BY <1>3
<1> QED
  BY <1>5, <1>6

(* The element a sum takes next.                                           *)
Picked(s) == CHOOSE x \in s : TRUE

(* What the sum computes for each set from a smaller one.                  *)
SumStep(f, g, s) == IF s = {} THEN 0 ELSE f[Picked(s)] + g[s \ {Picked(s)}]

(* Such a computation for all subsets of a set.                            *)
Recurs(f, S, g) == \A s \in SUBSET S : g[s] = SumStep(f, g, s)

(* It is an element.                                                       *)
LEMMA PickedIn == ASSUME NEW s, s # {} PROVE Picked(s) \in s
  BY DEF Picked

(* The recursion has one solution.                                         *)
LEMMA SolutionUnique ==
  ASSUME NEW S, IsFiniteSet(S), NEW f, NEW g, NEW h, Recurs(f, S, g), Recurs(f, S, h)
  PROVE  g[S] = h[S]
<1> DEFINE G == {s \in SUBSET S : g[s] = h[s]}
<1>1. ASSUME NEW T \in SUBSET S, \A U \in SUBSET T : U # T => U \in G PROVE T \in G
  <2>1. CASE T = {}
    BY <2>1 DEF Recurs, SumStep
  <2>2. CASE T # {}
    <3>1. Picked(T) \in T
      BY <2>2, PickedIn
    <3>2. T \ {Picked(T)} \in G
      BY <1>1, <3>1
    <3> QED
      BY <2>2, <3>2 DEF Recurs, SumStep
  <2> QED
    BY <2>1, <2>2
<1>2. SUBSET S \subseteq G
  <2> HIDE DEF G
  <2> QED
    BY <1>1, SubsetInduction
<1> QED
  BY <1>2

(* The recursion has a solution.                                           *)
LEMMA SolutionExists ==
  ASSUME NEW S, IsFiniteSet(S), NEW f
  PROVE  \E g : Recurs(f, S, g)
<1> DEFINE G == {T \in SUBSET S : \E g : Recurs(f, T, g)}
<1>1. ASSUME NEW T \in SUBSET S, \A U \in SUBSET T : U # T => U \in G PROVE T \in G
  <2> DEFINE H(u) == CHOOSE g : Recurs(f, u, g)
             g == [s \in SUBSET T |->
                     IF s = {} THEN 0
                     ELSE f[Picked(s)] + H(s \ {Picked(s)})[s \ {Picked(s)}]]
  <2>1. ASSUME NEW u \in SUBSET T, u # T PROVE Recurs(f, u, H(u)) /\ IsFiniteSet(u)
    <3>1. \E k : Recurs(f, u, k)
      BY <1>1, <2>1
    <3> QED
      BY <3>1, FS_Subset
  <2>2. ASSUME NEW u \in SUBSET T, u # T PROVE g[u] = H(u)[u]
    <3>1. Recurs(f, u, H(u))
      BY <2>1, <2>2
    <3>2. CASE u = {}
      BY <3>1, <3>2 DEF Recurs, SumStep
    <3>3. CASE u # {}
      <4> DEFINE v == u \ {Picked(u)}
      <4>1. v \in SUBSET u /\ v # T /\ v \in SUBSET T
        BY <2>2, <3>3, PickedIn
      <4>2. Recurs(f, v, H(v)) /\ IsFiniteSet(v)
        BY <2>1, <4>1
      <4>3. Recurs(f, v, H(u))
        BY <3>1, <4>1 DEF Recurs
      <4>4. H(u)[v] = H(v)[v]
        BY <4>2, <4>3, SolutionUnique
      <4>5. H(u)[u] = f[Picked(u)] + H(u)[v]
        BY <3>1, <3>3 DEF Recurs, SumStep
      <4>6. g[u] = f[Picked(u)] + H(v)[v]
        BY <3>3
      <4> QED
        BY <4>4, <4>5, <4>6
    <3> QED
      BY <3>2, <3>3
  <2>3. ASSUME NEW s \in SUBSET T PROVE g[s] = SumStep(f, g, s)
    <3>1. CASE s = {}
      BY <3>1 DEF SumStep
    <3>2. CASE s # {}
      <4>1. /\ s \ {Picked(s)} \in SUBSET T
            /\ s \ {Picked(s)} # T
        BY <3>2, PickedIn
      <4>2. g[s \ {Picked(s)}] = H(s \ {Picked(s)})[s \ {Picked(s)}]
        BY <2>2, <4>1
      <4>3. g[s] = f[Picked(s)] + H(s \ {Picked(s)})[s \ {Picked(s)}]
        BY <3>2
      <4> HIDE DEF g, H
      <4> QED
        BY <3>2, <4>2, <4>3 DEF SumStep
    <3> QED
      BY <3>1, <3>2
  <2>4. Recurs(f, T, g)
    <3> HIDE DEF g
    <3> QED BY <2>3 DEF Recurs
  <2> QED
    BY <2>4
<1>2. SUBSET S \subseteq G
  <2> HIDE DEF G
  <2> QED
    BY <1>1, SubsetInduction
<1> QED
  BY <1>2

(* A sum is what the solution says of the whole set.                       *)
LEMMA SumIs ==
  ASSUME NEW S, IsFiniteSet(S), NEW f
  PROVE  \E g : Recurs(f, S, g) /\ SumFunctionOnSet(f, S) = g[S]
<1> DEFINE Solves(g) ==
             g = [s \in SUBSET S |-> IF s = {} THEN 0
                                     ELSE f[Picked(s)] + g[s \ {Picked(s)}]]
           G == CHOOSE g : Solves(g)
<1>1. \E g : Solves(g)
  <2>1. PICK k : Recurs(f, S, k)
    BY SolutionExists
  <2> DEFINE g == [s \in SUBSET S |-> k[s]]
  <2>2. ASSUME NEW s \in SUBSET S
        PROVE  g[s] = IF s = {} THEN 0 ELSE f[Picked(s)] + g[s \ {Picked(s)}]
    <3>1. s \ {Picked(s)} \in SUBSET S
      OBVIOUS
    <3> QED
      BY <2>1, <3>1 DEF Recurs, SumStep
  <2>3. Solves(g)
    BY <2>2
  <2> QED
    BY <2>3
<1>2. Solves(G)
  BY <1>1, Zenon
<1>3. SumFunctionOnSet(f, S) = G[S]
  BY DEF SumFunctionOnSet, FoldFunctionOnSet, MapThenFoldSet, Picked
<1>4. Recurs(f, S, G)
  <2> SUFFICES ASSUME NEW s \in SUBSET S PROVE G[s] = SumStep(f, G, s)
    BY DEF Recurs
  <2>1. PICK g : g = G
    OBVIOUS
  <2>2. Solves(g)
    BY <1>2, <2>1
  <2>3. g[s] = SumStep(f, g, s)
    BY <2>2 DEF SumStep
  <2> HIDE DEF G
  <2> QED
    BY <2>1, <2>3
<1> HIDE DEF G
<1> QED
  BY <1>3, <1>4

(* Nothing adds up to zero.                                                *)
LEMMA SumEmpty == ASSUME NEW f PROVE SumFunctionOnSet(f, {}) = 0
<1>1. PICK g : Recurs(f, {}, g) /\ SumFunctionOnSet(f, {}) = g[{}]
  BY SumIs, FS_EmptySet
<1> QED
  BY <1>1 DEF Recurs, SumStep

(* A sum is its next element and the sum of the others.                    *)
LEMMA SumTakesPicked ==
  ASSUME NEW S, IsFiniteSet(S), S # {}, NEW f
  PROVE  SumFunctionOnSet(f, S) = f[Picked(S)] + SumFunctionOnSet(f, S \ {Picked(S)})
<1> DEFINE R == S \ {Picked(S)}
<1>1. IsFiniteSet(R) /\ R \in SUBSET S
  BY FS_RemoveElement
<1>2. PICK g : Recurs(f, S, g) /\ SumFunctionOnSet(f, S) = g[S]
  BY SumIs
<1>3. PICK h : Recurs(f, R, h) /\ SumFunctionOnSet(f, R) = h[R]
  BY <1>1, SumIs
<1>4. Recurs(f, R, g)
  BY <1>1, <1>2 DEF Recurs
<1>5. g[R] = h[R]
  BY <1>1, <1>3, <1>4, SolutionUnique
<1>6. g[S] = f[Picked(S)] + g[R]
  BY <1>2 DEF Recurs, SumStep
<1> QED
  BY <1>2, <1>3, <1>5, <1>6

(* Sums over sets on which two functions agree are equal.                  *)
LEMMA SumSame ==
  ASSUME NEW S, IsFiniteSet(S), NEW f, NEW g, \A x \in S : f[x] = g[x]
  PROVE  SumFunctionOnSet(f, S) = SumFunctionOnSet(g, S)
<1> DEFINE G == {T \in SUBSET S : SumFunctionOnSet(f, T) = SumFunctionOnSet(g, T)}
<1>1. ASSUME NEW T \in SUBSET S, \A U \in SUBSET T : U # T => U \in G PROVE T \in G
  <2>1. CASE T = {}
    BY <2>1, SumEmpty
  <2>2. CASE T # {}
    <3>1. Picked(T) \in T /\ IsFiniteSet(T)
      BY <2>2, PickedIn, FS_Subset
    <3>2. T \ {Picked(T)} \in G
      BY <1>1, <3>1
    <3>3. f[Picked(T)] = g[Picked(T)]
      BY <3>1
    <3> QED
      BY <2>2, <3>1, <3>2, <3>3, SumTakesPicked
  <2> QED
    BY <2>1, <2>2
<1>2. SUBSET S \subseteq G
  <2> HIDE DEF G
  <2> QED
    BY <1>1, SubsetInduction
<1> QED
  BY <1>2

(* A sum of integers is an integer, one of naturals a natural.             *)
LEMMA SumInt ==
  ASSUME NEW S, IsFiniteSet(S), NEW f, \A x \in S : f[x] \in Int
  PROVE  /\ SumFunctionOnSet(f, S) \in Int
         /\ (\A x \in S : f[x] \in Nat) => SumFunctionOnSet(f, S) \in Nat
<1> DEFINE Good(T) ==
             /\ SumFunctionOnSet(f, T) \in Int
             /\ (\A x \in S : f[x] \in Nat) => SumFunctionOnSet(f, T) \in Nat
           G == {T \in SUBSET S : Good(T)}
<1>1. ASSUME NEW T \in SUBSET S, \A U \in SUBSET T : U # T => U \in G PROVE T \in G
  <2>1. CASE T = {}
    BY <2>1, SumEmpty
  <2>2. CASE T # {}
    <3>1. Picked(T) \in T /\ Picked(T) \in S /\ IsFiniteSet(T)
      BY <2>2, PickedIn, FS_Subset
    <3>2. PICK R : R = T \ {Picked(T)}
      OBVIOUS
    <3>3. Good(R)
      BY <1>1, <3>1, <3>2
    <3>4. SumFunctionOnSet(f, T) = f[Picked(T)] + SumFunctionOnSet(f, R)
      BY <2>2, <3>1, <3>2, SumTakesPicked
    <3> QED
      BY <3>1, <3>3, <3>4
  <2> QED
    BY <2>1, <2>2
<1>2. SUBSET S \subseteq G
  <2> HIDE DEF G
  <2> QED
    BY <1>1, SubsetInduction
<1> QED
  BY <1>2

(* Any element may be taken first.                                         *)
LEMMA SumTakes ==
  ASSUME NEW S, IsFiniteSet(S), NEW f, \A x \in S : f[x] \in Int, NEW y \in S
  PROVE  SumFunctionOnSet(f, S) = f[y] + SumFunctionOnSet(f, S \ {y})
<1> DEFINE Good(T) ==
             \A z \in T : SumFunctionOnSet(f, T) = f[z] + SumFunctionOnSet(f, T \ {z})
           G == {T \in SUBSET S : Good(T)}
<1>1. ASSUME NEW T \in SUBSET S, \A U \in SUBSET T : U # T => U \in G PROVE T \in G
  <2> SUFFICES ASSUME NEW z \in T
               PROVE  SumFunctionOnSet(f, T) = f[z] + SumFunctionOnSet(f, T \ {z})
    OBVIOUS
  <2>1. PICK c : c = Picked(T)
    OBVIOUS
  <2>2. c \in T /\ c \in S /\ z \in S /\ IsFiniteSet(T)
    BY <2>1, PickedIn, FS_Subset
  <2>3. SumFunctionOnSet(f, T) = f[c] + SumFunctionOnSet(f, T \ {c})
    BY <2>1, <2>2, SumTakesPicked
  <2>4. CASE z = c
    BY <2>3, <2>4
  <2>5. CASE z # c
    <3>1. PICK R : R = (T \ {c}) \ {z}
      OBVIOUS
    <3>2. R = (T \ {z}) \ {c} /\ R \in SUBSET S /\ IsFiniteSet(R)
      BY <2>2, <3>1, FS_Subset
    <3>3. T \ {c} \in G /\ T \ {z} \in G
      BY <1>1, <2>2
    <3>4. SumFunctionOnSet(f, T \ {c}) = f[z] + SumFunctionOnSet(f, R)
      BY <2>5, <3>1, <3>3
    <3>5. SumFunctionOnSet(f, T \ {z}) = f[c] + SumFunctionOnSet(f, R)
      BY <2>2, <2>5, <3>2, <3>3
    <3>6. SumFunctionOnSet(f, R) \in Int /\ f[c] \in Int /\ f[z] \in Int
      BY <2>2, <3>2, SumInt
    <3> QED
      BY <2>3, <3>4, <3>5, <3>6
  <2> QED
    BY <2>4, <2>5
<1>2. SUBSET S \subseteq G
  <2> HIDE DEF G
  <2> QED
    BY <1>1, SubsetInduction
<1> QED
  BY <1>2

(* A sum after one more element.                                           *)
LEMMA SumAdds ==
  ASSUME NEW S, IsFiniteSet(S), NEW y, y \notin S, NEW f, \A x \in S \cup {y} : f[x] \in Int
  PROVE  SumFunctionOnSet(f, S \cup {y}) = SumFunctionOnSet(f, S) + f[y]
<1>1. PICK T : T = S \cup {y}
  OBVIOUS
<1>2. IsFiniteSet(T) /\ y \in T /\ T \ {y} = S
  BY <1>1, FS_AddElement
<1>3. SumFunctionOnSet(f, T) = f[y] + SumFunctionOnSet(f, S)
  BY <1>1, <1>2, SumTakes
<1>4. SumFunctionOnSet(f, S) \in Int /\ f[y] \in Int
  BY SumInt
<1> QED
  BY <1>1, <1>3, <1>4

(* The sum over part of a set of naturals is no larger than the whole.     *)
LEMMA SumPart ==
  ASSUME NEW S, IsFiniteSet(S), NEW f, \A x \in S : f[x] \in Nat, NEW P \in SUBSET S
  PROVE  /\ SumFunctionOnSet(f, P) \in Nat /\ SumFunctionOnSet(f, S) \in Nat
         /\ SumFunctionOnSet(f, P) <= SumFunctionOnSet(f, S)
<1> DEFINE Good(T) == SumFunctionOnSet(f, P \cap T) <= SumFunctionOnSet(f, T)
           G == {T \in SUBSET S : Good(T)}
<1>0. ASSUME NEW T \in SUBSET S PROVE SumFunctionOnSet(f, T) \in Nat /\ IsFiniteSet(T)
  BY <1>0, FS_Subset, SumInt
<1>1. ASSUME NEW T \in SUBSET S, \A U \in SUBSET T : U # T => U \in G PROVE T \in G
  <2>1. CASE T = {}
    BY <2>1, SumEmpty
  <2>2. CASE T # {}
    <3>1. PICK y \in T : TRUE
      BY <2>2
    <3>2. PICK R, Q : R = T \ {y} /\ Q = P \cap R
      OBVIOUS
    <3>3. R \in SUBSET S /\ Q \in SUBSET S /\ P \cap T \in SUBSET S
      BY <3>2
    <3>4. SumFunctionOnSet(f, Q) <= SumFunctionOnSet(f, R)
      BY <1>1, <3>1, <3>2
    <3>5. SumFunctionOnSet(f, T) = f[y] + SumFunctionOnSet(f, R)
      BY <1>0, <3>1, <3>2, SumTakes
    <3>6. CASE y \in P
      <4>1. P \cap T = Q \cup {y} /\ y \notin Q
        BY <3>1, <3>2, <3>6
      <4>2. IsFiniteSet(Q) /\ \A x \in Q \cup {y} : f[x] \in Int
        BY <1>0, <3>1, <3>3
      <4>3. SumFunctionOnSet(f, P \cap T) = SumFunctionOnSet(f, Q) + f[y]
        BY <4>1, <4>2, SumAdds
      <4>4. f[y] \in Nat /\ SumFunctionOnSet(f, Q) \in Nat /\ SumFunctionOnSet(f, R) \in Nat
        BY <1>0, <3>1, <3>3
      <4> QED
        BY <3>4, <3>5, <4>3, <4>4
    <3>7. CASE y \notin P
      <4>1. SumFunctionOnSet(f, P \cap T) = SumFunctionOnSet(f, Q)
        <5>1. P \cap T = Q
          BY <3>1, <3>2, <3>7
        <5> QED
          BY <5>1
      <4>2. f[y] \in Nat /\ SumFunctionOnSet(f, Q) \in Nat /\ SumFunctionOnSet(f, R) \in Nat
        BY <1>0, <3>1, <3>3
      <4>3. SumFunctionOnSet(f, P \cap T) <= SumFunctionOnSet(f, T)
        BY <3>1, <3>4, <3>5, <4>1, <4>2
      <4> QED
        BY <4>3
    <3> QED
      BY <3>6, <3>7
  <2> QED
    BY <2>1, <2>2
<1>2. SUBSET S \subseteq G
  <2> HIDE DEF G
  <2> QED
    BY <1>1, SubsetInduction
<1>3. SumFunctionOnSet(f, P \cap S) <= SumFunctionOnSet(f, S) /\ P \cap S = P
  BY <1>2
<1> QED
  BY <1>0, <1>3

(* The numbers f on S are the numbers g on R, at the places h gives them.  *)
Moves(f, S, g, R, h) ==
  /\ \A x \in S : h[x] \in R /\ f[x] = g[h[x]] /\ f[x] \in Int
  /\ \A y \in R : \E x \in S : h[x] = y
  /\ \A x, y \in S : h[x] = h[y] => x = y

(* They add up to the same.                                                *)
LEMMA SumMoved ==
  ASSUME NEW S, IsFiniteSet(S), NEW R, NEW f, NEW g, NEW h, Moves(f, S, g, R, h)
  PROVE  SumFunctionOnSet(f, S) = SumFunctionOnSet(g, R)
<1> DEFINE Image(T) == {h[x] : x \in T}
           Good(T) == IsFiniteSet(Image(T)) /\ SumFunctionOnSet(f, T) = SumFunctionOnSet(g, Image(T))
           G == {T \in SUBSET S : Good(T)}
<1> USE DEF Moves
<1>1. ASSUME NEW T \in SUBSET S, \A U \in SUBSET T : U # T => U \in G PROVE T \in G
  <2>1. CASE T = {}
    <3>1. Image(T) = {}
      BY <2>1
    <3> QED
      BY <2>1, <3>1, SumEmpty, FS_EmptySet
  <2>2. CASE T # {}
    <3>1. PICK y \in T : TRUE
      BY <2>2
    <3>2. PICK Q : Q = T \ {y}
      OBVIOUS
    <3>3. Good(Q)
      BY <1>1, <3>1, <3>2
    <3>4. Image(T) = Image(Q) \cup {h[y]} /\ h[y] \notin Image(Q)
      BY <3>1, <3>2
    <3>5. \A x \in Image(Q) \cup {h[y]} : g[x] \in Int
      BY <3>1, <3>2
    <3>6. PICK I : I = Image(Q)
      OBVIOUS
    <3>7. IsFiniteSet(I \cup {h[y]}) /\ SumFunctionOnSet(g, I \cup {h[y]}) = SumFunctionOnSet(g, I) + g[h[y]]
      <4>1. IsFiniteSet(I) /\ h[y] \notin I /\ \A x \in I \cup {h[y]} : g[x] \in Int
        BY <3>3, <3>4, <3>5, <3>6
      <4>2. IsFiniteSet(I \cup {h[y]})
        BY <4>1, FS_AddElement
      <4>3. PICK z : z = h[y]
        OBVIOUS
      <4>4. SumFunctionOnSet(g, I \cup {z}) = SumFunctionOnSet(g, I) + g[z]
        <5>1. PICK U : U = I \cup {z}
          OBVIOUS
        <5>2. IsFiniteSet(U) /\ z \in U /\ U \ {z} = I /\ \A x \in U : g[x] \in Int
          BY <4>1, <4>2, <4>3, <5>1
        <5>3. SumFunctionOnSet(g, U) = g[z] + SumFunctionOnSet(g, I)
          BY <5>2, SumTakes
        <5>4. SumFunctionOnSet(g, I) \in Int /\ g[z] \in Int
          BY <4>1, <4>3, <5>2, SumInt, FS_Subset
        <5> QED
          BY <5>1, <5>3, <5>4
      <4> QED
        BY <4>2, <4>3, <4>4
    <3>8. IsFiniteSet(T) /\ IsFiniteSet(Q) /\ \A x \in T : f[x] \in Int
      BY <3>2, FS_Subset
    <3>9. SumFunctionOnSet(f, T) = f[y] + SumFunctionOnSet(f, Q) /\ SumFunctionOnSet(f, Q) \in Int
      BY <3>1, <3>2, <3>8, SumTakes, SumInt
    <3>10. f[y] = g[h[y]] /\ f[y] \in Int
      BY <3>1
    <3>11. SumFunctionOnSet(f, Q) = SumFunctionOnSet(g, I)
      BY <3>3, <3>6
    <3>12. SumFunctionOnSet(f, T) = SumFunctionOnSet(g, I \cup {h[y]})
      BY <3>7, <3>9, <3>10, <3>11
    <3>13. Image(T) = I \cup {h[y]}
      BY <3>4, <3>6
    <3> HIDE DEF Image
    <3> QED
      BY <3>7, <3>12, <3>13
  <2> QED
    BY <2>1, <2>2
<1>2. SUBSET S \subseteq G
  <2> HIDE DEF G
  <2> QED
    BY <1>1, SubsetInduction
<1>3. Image(S) = R
  OBVIOUS
<1> HIDE DEF Image
<1> QED
  BY <1>2, <1>3

=============================================================================
