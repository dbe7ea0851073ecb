---------------------------- MODULE SumTheorems ----------------------------
(***************************************************************************)
(* Sums over the rows of a table (SumFunction and SumFunctionOnSet of the  *)
(* community modules): what changes when a row does, and how sums compare. *)
(*                                                                         *)
(* The induction theorems of the library take the property as an operator. *)
(* Here it is the set of the subsets that have it, and induction is        *)
(* FS_StrictSubsetOrderingWellFounded: there is no least subset without.   *)
(***************************************************************************)
EXTENDS FiniteSetTheorems, TLAPS

LEMMA SubsetInduction ==
  ASSUME NEW S, IsFiniteSet(S), NEW T,
         \A U \in SUBSET S : (\A V \in SUBSET U : V # U => V \in T) => U \in T
  PROVE  SUBSET S \subseteq T
<1> DEFINE Bad == (SUBSET S) \ T
<1>1. IsWellFoundedOn(StrictSubsetOrdering(S), SUBSET S)
  BY FS_StrictSubsetOrderingWellFounded, FS_FiniteSubsetsOfFinite
<1>2. SUFFICES ASSUME Bad # {} PROVE FALSE
  OBVIOUS
<1>3. Bad \subseteq SUBSET S
  OBVIOUS
<1>4. PICK U \in Bad : \A V \in Bad : ~(<<V, U>> \in StrictSubsetOrdering(S))
  <2> HIDE DEF Bad
  <2> QED BY <1>1, <1>2, <1>3, WFMin
<1>5. \A V \in SUBSET U : V # U => V \in T
  BY <1>3, <1>4 DEF StrictSubsetOrdering
<1> QED BY <1>3, <1>4, <1>5

(* The function a sum is computed by.                                       *)
FirstOf(s) == CHOOSE x \in s : TRUE
IterBody(g, f, s) == IF s = {} THEN 0 ELSE f[FirstOf(s)] + g[s \ {FirstOf(s)}]
IsIter(g, f, S) == g = [s \in SUBSET S |-> IterBody(g, f, s)]
Iter(f, S) == CHOOSE g : IsIter(g, f, S)

LEMMA SumIsIter ==
  ASSUME NEW f, NEW S
  PROVE  SumFunctionOnSet(f, S) = Iter(f, S)[S]
BY DEF SumFunctionOnSet, FoldFunctionOnSet, MapThenFoldSet, Iter, IsIter, IterBody, FirstOf

LEMMA LeastIn == ASSUME NEW s, s # {} PROVE FirstOf(s) \in s
BY DEF FirstOf

LEMMA IterStep ==
  ASSUME NEW f, NEW S, NEW g, IsIter(g, f, S), NEW U \in SUBSET S
  PROVE  g[U] = IterBody(g, f, U)
BY DEF IsIter

LEMMA IterUnique ==
  ASSUME NEW f, NEW S, NEW R, IsFiniteSet(R), NEW g, NEW h, IsIter(g, f, S), IsIter(h, f, R),
         NEW U \in SUBSET R, U \in SUBSET S
  PROVE  g[U] = h[U]
<1> DEFINE T == {V \in SUBSET R : V \in SUBSET S => g[V] = h[V]}
<1>1. ASSUME NEW V \in SUBSET R, \A W \in SUBSET V : W # V => W \in T
      PROVE  V \in T
  <2> SUFFICES ASSUME V \in SUBSET S PROVE g[V] = h[V]
    OBVIOUS
  <2>1. g[V] = IterBody(g, f, V) /\ h[V] = IterBody(h, f, V)
    BY IterStep
  <2>2. CASE V = {}
    BY <2>1, <2>2 DEF IterBody
  <2>3. CASE V # {}
    <3> DEFINE W == V \ {FirstOf(V)}
    <3>1. W \in SUBSET V /\ W # V
      BY <2>3, LeastIn
    <3>2. g[W] = h[W]
      BY <1>1, <3>1
    <3> QED BY <2>1, <3>2 DEF IterBody
  <2> QED BY <2>2, <2>3
<1>2. SUBSET R \subseteq T
  <2> HIDE DEF T
  <2> QED BY <1>1, SubsetInduction
<1> QED BY <1>2

LEMMA IterExists ==
  ASSUME NEW f, NEW S, IsFiniteSet(S)
  PROVE  IsIter(Iter(f, S), f, S)
<1> DEFINE T == {U \in SUBSET S : IsIter(Iter(f, U), f, U)}
<1>1. ASSUME NEW U \in SUBSET S, \A V \in SUBSET U : V # U => V \in T
      PROVE  U \in T
  <2> DEFINE Val(V) == Iter(f, V)[V]
             Next(V) == IF V = {} THEN 0 ELSE f[FirstOf(V)] + Val(V \ {FirstOf(V)})
             g == [V \in SUBSET U |-> Next(V)]
  <2>1. ASSUME NEW V \in SUBSET U, V # U
        PROVE  Val(V) = Next(V)
    <3>1. IsIter(Iter(f, V), f, V) /\ IsFiniteSet(V)
      BY <1>1, <2>1, FS_Subset
    <3>2. Val(V) = IterBody(Iter(f, V), f, V)
      BY <3>1, IterStep
    <3>3. CASE V = {}
      BY <3>2, <3>3 DEF IterBody
    <3>4. CASE V # {}
      <4> DEFINE W == V \ {FirstOf(V)}
      <4>1. W \in SUBSET V /\ W \in SUBSET U /\ W # U
        BY <2>1, <3>4, LeastIn
      <4>2. IsIter(Iter(f, W), f, W) /\ IsFiniteSet(W)
        BY <1>1, <4>1, FS_Subset
      <4>3. Iter(f, V)[W] = Iter(f, W)[W]
        <5> HIDE DEF W
        <5> QED BY <3>1, <4>1, <4>2, IterUnique
      <4> QED BY <3>2, <3>4, <4>3 DEF IterBody
    <3> QED BY <3>3, <3>4
  <2>2. ASSUME NEW V \in SUBSET U PROVE g[V] = IterBody(g, f, V)
    <3>1. CASE V = {}
      BY <3>1 DEF IterBody
    <3>2. CASE V # {}
      <4> DEFINE W == V \ {FirstOf(V)}
      <4>1. W \in SUBSET U /\ W # U
        BY <3>2, LeastIn
      <4>2. g[W] = Val(W)
        BY <2>1, <4>1
      <4>3. g[V] = f[FirstOf(V)] + Val(W)
        BY <3>2
      <4> QED BY <3>2, <4>2, <4>3 DEF IterBody
    <3> QED BY <3>1, <3>2
  <2>3. g = [V \in SUBSET U |-> IterBody(g, f, V)]
    <3>1. g = [V \in SUBSET U |-> g[V]]
      OBVIOUS
    <3> HIDE DEF g
    <3> QED BY <2>2, <3>1
  <2>4. IsIter(g, f, U)
    <3> HIDE DEF g
    <3> QED BY <2>3 DEF IsIter
  <2>5. IsIter(Iter(f, U), f, U)
    <3> HIDE DEF g
    <3> QED BY <2>4, Zenon DEF Iter
  <2> QED BY <2>5
<1>2. SUBSET S \subseteq T
  <2> HIDE DEF T
  <2> QED BY <1>1, SubsetInduction
<1> QED BY <1>2

-----------------------------------------------------------------------------
(* The equations of a sum.                                                   *)

SumOn(f, S) == SumFunctionOnSet(f, S)

LEMMA SumEmpty == ASSUME NEW f PROVE SumOn(f, {}) = 0
<1>1. IsIter(Iter(f, {}), f, {})
  BY IterExists, FS_EmptySet
<1>2. Iter(f, {})[{}] = IterBody(Iter(f, {}), f, {})
  BY <1>1, IterStep
<1> QED BY <1>2, SumIsIter DEF SumOn, IterBody

LEMMA SumLeast ==
  ASSUME NEW f, NEW S, IsFiniteSet(S), S # {}
  PROVE  SumOn(f, S) = f[FirstOf(S)] + SumOn(f, S \ {FirstOf(S)})
<1> DEFINE W == S \ {FirstOf(S)}
<1>1. IsFiniteSet(W) /\ W \in SUBSET S
  BY FS_Subset
<1>2. IsIter(Iter(f, S), f, S) /\ IsIter(Iter(f, W), f, W)
  BY <1>1, IterExists
<1>3. Iter(f, S)[W] = Iter(f, W)[W]
  <2> HIDE DEF W
  <2> QED BY <1>1, <1>2, IterUnique
<1>4. Iter(f, S)[S] = IterBody(Iter(f, S), f, S)
  BY <1>2, IterStep
<1> QED BY <1>3, <1>4, SumIsIter DEF SumOn, IterBody

(* Any integer summand may be taken out first. *)
LEMMA SumTyped ==
  ASSUME NEW f, NEW S, IsFiniteSet(S), \A x \in S : f[x] \in Int
  PROVE  SumOn(f, S) \in Int
<1> DEFINE T == {U \in SUBSET S : SumOn(f, U) \in Int}
<1>1. ASSUME NEW U \in SUBSET S, \A V \in SUBSET U : V # U => V \in T
      PROVE  U \in T
  <2>1. CASE U = {}
    BY <2>1, SumEmpty
  <2>2. CASE U # {}
    <3>1. SumOn(f, U \ {FirstOf(U)}) \in Int /\ f[FirstOf(U)] \in Int
      BY <1>1, <2>2, LeastIn
    <3>2. SumOn(f, U) = f[FirstOf(U)] + SumOn(f, U \ {FirstOf(U)})
      BY <2>2, SumLeast, FS_Subset
    <3> QED BY <3>1, <3>2
  <2> QED BY <2>1, <2>2
<1>2. SUBSET S \subseteq T
  <2> HIDE DEF T
  <2> QED BY <1>1, SubsetInduction
<1> QED BY <1>2

LEMMA SumOut ==
  ASSUME NEW f, NEW S, IsFiniteSet(S), \A x \in S : f[x] \in Int, NEW a \in S
  PROVE  SumOn(f, S) = f[a] + SumOn(f, S \ {a})
<1> DEFINE T == {U \in SUBSET S : \A x \in U : SumOn(f, U) = f[x] + SumOn(f, U \ {x})}
<1>1. ASSUME NEW U \in SUBSET S, \A V \in SUBSET U : V # U => V \in T
      PROVE  U \in T
  <2> SUFFICES ASSUME NEW x \in U PROVE SumOn(f, U) = f[x] + SumOn(f, U \ {x})
    OBVIOUS
  <2> DEFINE y == FirstOf(U)
             Ux == U \ {x}
             Uy == U \ {y}
             Uxy == Ux \ {y}
  <2>1. y \in U /\ SumOn(f, U) = f[y] + SumOn(f, Uy)
    BY LeastIn, SumLeast, FS_Subset
  <2>2. CASE x = y
    BY <2>1, <2>2
  <2>3. CASE x # y
    <3>1. /\ Ux \in SUBSET U /\ Ux # U /\ y \in Ux
          /\ Uy \in SUBSET U /\ Uy # U /\ x \in Uy
          /\ Uxy = Uy \ {x}
      BY <2>1, <2>3
    <3>2. SumOn(f, Ux) = f[y] + SumOn(f, Uxy) /\ SumOn(f, Uy) = f[x] + SumOn(f, Uxy)
      BY <1>1, <3>1
    <3>3. SumOn(f, Uxy) \in Int /\ f[x] \in Int /\ f[y] \in Int
      <4>1. IsFiniteSet(Uxy) /\ \A z \in Uxy : f[z] \in Int
        BY FS_Subset
      <4> HIDE DEF Uxy
      <4> QED BY <2>1, <4>1, SumTyped
    <3> HIDE DEF y, Ux, Uy, Uxy
    <3>4. SumOn(f, U) = f[x] + SumOn(f, Ux)
      BY <2>1, <3>2, <3>3
    <3> QED BY <3>4 DEF Ux
  <2> QED BY <2>2, <2>3
<1>2. SUBSET S \subseteq T
  <2> HIDE DEF T
  <2> QED BY <1>1, SubsetInduction
<1> QED BY <1>2

-----------------------------------------------------------------------------
(* Two sums over the same rows.                                              *)

(* Row by row, one is the sum of two others. *)
LEMMA SumAdds ==
  ASSUME NEW S, IsFiniteSet(S), NEW f, NEW g, NEW h,
         \A x \in S : f[x] \in Int /\ g[x] \in Int /\ h[x] = f[x] + g[x]
  PROVE  SumOn(h, S) = SumOn(f, S) + SumOn(g, S)
<1> DEFINE T == {U \in SUBSET S : SumOn(h, U) = SumOn(f, U) + SumOn(g, U)}
<1>1. ASSUME NEW U \in SUBSET S, \A V \in SUBSET U : V # U => V \in T
      PROVE  U \in T
  <2>1. CASE U = {}
    BY <2>1, SumEmpty
  <2>2. CASE U # {}
    <3> DEFINE a == FirstOf(U)
               W == U \ {a}
    <3>1. a \in U /\ W \in SUBSET U /\ W # U /\ IsFiniteSet(U) /\ IsFiniteSet(W)
      BY <2>2, LeastIn, FS_Subset
    <3>2. SumOn(h, W) = SumOn(f, W) + SumOn(g, W)
      BY <1>1, <3>1
    <3>3. /\ SumOn(h, U) = h[a] + SumOn(h, W) /\ SumOn(f, U) = f[a] + SumOn(f, W)
          /\ SumOn(g, U) = g[a] + SumOn(g, W)
      BY <2>2, <3>1, SumLeast
    <3>4. SumOn(f, W) \in Int /\ SumOn(g, W) \in Int
      <4> HIDE DEF W
      <4> QED BY <3>1, SumTyped
    <3>5. f[a] \in Int /\ g[a] \in Int /\ h[a] = f[a] + g[a]
      BY <3>1
    <3> HIDE DEF a, W
    <3> QED BY <3>2, <3>3, <3>4, <3>5
  <2> QED BY <2>1, <2>2
<1>2. SUBSET S \subseteq T
  <2> HIDE DEF T
  <2> QED BY <1>1, SubsetInduction
<1> QED BY <1>2

(* ... or they agree. *)
LEMMA SumSame ==
  ASSUME NEW S, IsFiniteSet(S), NEW f, NEW g, \A x \in S : f[x] = g[x]
  PROVE  SumOn(f, S) = SumOn(g, S)
<1> DEFINE T == {U \in SUBSET S : SumOn(f, U) = SumOn(g, U)}
<1>1. ASSUME NEW U \in SUBSET S, \A V \in SUBSET U : V # U => V \in T
      PROVE  U \in T
  <2>1. CASE U = {}
    BY <2>1, SumEmpty
  <2>2. CASE U # {}
    <3> DEFINE a == FirstOf(U)
               W == U \ {a}
    <3>1. a \in U /\ W \in SUBSET U /\ W # U /\ IsFiniteSet(U)
      BY <2>2, LeastIn, FS_Subset
    <3>2. SumOn(f, W) = SumOn(g, W)
      BY <1>1, <3>1
    <3>3. SumOn(f, U) = f[a] + SumOn(f, W) /\ SumOn(g, U) = g[a] + SumOn(g, W)
      BY <2>2, <3>1, SumLeast
    <3> QED BY <3>1, <3>2, <3>3
  <2> QED BY <2>1, <2>2
<1>2. SUBSET S \subseteq T
  <2> HIDE DEF T
  <2> QED BY <1>1, SubsetInduction
<1> QED BY <1>2

(* ... or there is nothing in any row. *)
LEMMA SumZero ==
  ASSUME NEW S, IsFiniteSet(S), NEW f, \A x \in S : f[x] = 0
  PROVE  SumOn(f, S) = 0
<1> DEFINE T == {U \in SUBSET S : SumOn(f, U) = 0}
<1>1. ASSUME NEW U \in SUBSET S, \A V \in SUBSET U : V # U => V \in T
      PROVE  U \in T
  <2>1. CASE U = {}
    BY <2>1, SumEmpty
  <2>2. CASE U # {}
    <3> DEFINE a == FirstOf(U)
               W == U \ {a}
    <3>1. a \in U /\ W \in SUBSET U /\ W # U /\ IsFiniteSet(U)
      BY <2>2, LeastIn, FS_Subset
    <3>2. SumOn(f, W) = 0
      BY <1>1, <3>1
    <3>3. SumOn(f, U) = f[a] + SumOn(f, W)
      BY <2>2, <3>1, SumLeast
    <3> QED BY <3>1, <3>2, <3>3
  <2> QED BY <2>1, <2>2
<1>2. SUBSET S \subseteq T
  <2> HIDE DEF T
  <2> QED BY <1>1, SubsetInduction
<1> QED BY <1>2

(* No row is negative: the sum is not. *)
LEMMA SumAtLeast ==
  ASSUME NEW S, IsFiniteSet(S), NEW f, \A x \in S : f[x] \in Nat
  PROVE  SumOn(f, S) \in Nat
<1> DEFINE T == {U \in SUBSET S : SumOn(f, U) \in Nat}
<1>1. ASSUME NEW U \in SUBSET S, \A V \in SUBSET U : V # U => V \in T
      PROVE  U \in T
  <2>1. CASE U = {}
    BY <2>1, SumEmpty
  <2>2. CASE U # {}
    <3> DEFINE a == FirstOf(U)
               W == U \ {a}
    <3>1. a \in U /\ W \in SUBSET U /\ W # U /\ IsFiniteSet(U)
      BY <2>2, LeastIn, FS_Subset
    <3>2. SumOn(f, W) \in Nat
      BY <1>1, <3>1
    <3>3. SumOn(f, U) = f[a] + SumOn(f, W)
      BY <2>2, <3>1, SumLeast
    <3>4. f[a] \in Nat
      BY <3>1
    <3> HIDE DEF a, W
    <3> QED BY <3>2, <3>3, <3>4
  <2> QED BY <2>1, <2>2
<1>2. SUBSET S \subseteq T
  <2> HIDE DEF T
  <2> QED BY <1>1, SubsetInduction
<1> QED BY <1>2

(* ... or each row is a multiple. *)
LEMMA SumScales ==
  ASSUME NEW S, IsFiniteSet(S), NEW f, NEW h, NEW c \in Int,
         \A x \in S : f[x] \in Int /\ h[x] = c * f[x]
  PROVE  SumOn(h, S) = c * SumOn(f, S)
<1> DEFINE T == {U \in SUBSET S : SumOn(h, U) = c * SumOn(f, U)}
<1>1. ASSUME NEW U \in SUBSET S, \A V \in SUBSET U : V # U => V \in T
      PROVE  U \in T
  <2>1. CASE U = {}
    BY <2>1, SumEmpty
  <2>2. CASE U # {}
    <3> DEFINE a == FirstOf(U)
               W == U \ {a}
    <3>1. a \in U /\ W \in SUBSET U /\ W # U /\ IsFiniteSet(U) /\ IsFiniteSet(W)
      BY <2>2, LeastIn, FS_Subset
    <3>2. SumOn(h, W) = c * SumOn(f, W)
      BY <1>1, <3>1
    <3>3. SumOn(h, U) = h[a] + SumOn(h, W) /\ SumOn(f, U) = f[a] + SumOn(f, W)
      BY <2>2, <3>1, SumLeast
    <3>4. SumOn(f, W) \in Int
      <4> HIDE DEF W
      <4> QED BY <3>1, SumTyped
    <3>5. f[a] \in Int /\ h[a] = c * f[a]
      BY <3>1
    <3> HIDE DEF a, W
    <3> QED BY <3>2, <3>3, <3>4, <3>5
  <2> QED BY <2>1, <2>2
<1>2. SUBSET S \subseteq T
  <2> HIDE DEF T
  <2> QED BY <1>1, SubsetInduction
<1> QED BY <1>2

-----------------------------------------------------------------------------
(* A finite set of numbers that is not empty has a greatest.                 *)
LEMMA HasGreatest ==
  ASSUME NEW S \in SUBSET Int, IsFiniteSet(S), S # {}
  PROVE  \E s \in S : \A t \in S : t <= s
<1> DEFINE T == {U \in SUBSET S : U # {} => \E s \in U : \A t \in U : t <= s}
<1>1. ASSUME NEW U \in SUBSET S, \A V \in SUBSET U : V # U => V \in T
      PROVE  U \in T
  <2> SUFFICES ASSUME NEW a \in U PROVE \E s \in U : \A t \in U : t <= s
    OBVIOUS
  <2> DEFINE W == U \ {a}
  <2>1. CASE W = {}
    <3>1. \A t \in U : t = a
      BY <2>1
    <3> QED BY <3>1
  <2>2. CASE W # {}
    <3>1. W \in SUBSET U /\ W # U
      OBVIOUS
    <3>2. PICK s \in W : \A t \in W : t <= s
      BY <1>1, <2>2, <3>1
    <3>3. \A t \in U : t = a \/ t <= s
      BY <3>2
    <3>4. a \in Int /\ s \in Int /\ s \in U /\ \A t \in U : t \in Int
      OBVIOUS
    <3>5. CASE a <= s
      BY <3>3, <3>4, <3>5
    <3>6. CASE s <= a
      BY <3>3, <3>4, <3>6
    <3> QED BY <3>4, <3>5, <3>6
  <2> QED BY <2>1, <2>2
<1>2. SUBSET S \subseteq T
  <2> HIDE DEF T
  <2> QED BY <1>1, SubsetInduction
<1> QED BY <1>2

-----------------------------------------------------------------------------
(* The same for the sum of all values of a function, and for a table that    *)
(* changes.                                                                  *)

LEMMA SumFunctionIs ==
  ASSUME NEW S, NEW f, DOMAIN f = S
  PROVE  SumFunction(f) = SumOn(f, S)
BY DEF SumFunction, SumOn

LEMMA SumInt ==
  ASSUME NEW S, IsFiniteSet(S), NEW f \in [S -> Int]
  PROVE  SumFunction(f) \in Int
BY SumFunctionIs, SumTyped

LEMMA SumNat ==
  ASSUME NEW S, IsFiniteSet(S), NEW f \in [S -> Nat]
  PROVE  SumFunction(f) \in Nat
BY SumFunctionIs, SumAtLeast

LEMMA SumNothing ==
  ASSUME NEW S, IsFiniteSet(S), NEW f, DOMAIN f = S, \A x \in S : f[x] = 0
  PROVE  SumFunction(f) = 0
BY SumFunctionIs, SumZero

(* One row changes. *)
LEMMA SumChanged ==
  ASSUME NEW S, IsFiniteSet(S), NEW f \in [S -> Int], NEW g \in [S -> Int],
         NEW a \in S, \A x \in S \ {a} : g[x] = f[x]
  PROVE  SumFunction(g) = SumFunction(f) - f[a] + g[a]
<1> DEFINE W == S \ {a}
<1>1. IsFiniteSet(W)
  BY FS_Subset
<1>2. SumOn(f, S) = f[a] + SumOn(f, W) /\ SumOn(g, S) = g[a] + SumOn(g, W)
  BY SumOut
<1>3. SumOn(g, W) = SumOn(f, W) /\ SumOn(f, W) \in Int
  <2>1. (\A x \in W : g[x] = f[x]) /\ (\A x \in W : f[x] \in Int)
    OBVIOUS
  <2> HIDE DEF W
  <2> QED BY <1>1, <2>1, SumSame, SumTyped
<1>4. SumFunction(g) = SumOn(g, S) /\ SumFunction(f) = SumOn(f, S)
  BY SumFunctionIs
<1>5. f[a] \in Int /\ g[a] \in Int
  OBVIOUS
<1> HIDE DEF W
<1> QED BY <1>2, <1>3, <1>4, <1>5

(* No row changes. *)
LEMMA SumUnchanged ==
  ASSUME NEW S, IsFiniteSet(S), NEW f, NEW g, DOMAIN f = S, DOMAIN g = S, \A x \in S : g[x] = f[x]
  PROVE  SumFunction(g) = SumFunction(f)
BY SumFunctionIs, SumSame

(* A row is inserted. *)
LEMMA SumInserted ==
  ASSUME NEW S, IsFiniteSet(S), NEW a, a \notin S, NEW f \in [S -> Int], NEW g \in [S \cup {a} -> Int],
         \A x \in S : g[x] = f[x]
  PROVE  SumFunction(g) = SumFunction(f) + g[a]
<1>1. IsFiniteSet(S \cup {a}) /\ (S \cup {a}) \ {a} = S
  BY FS_AddElement
<1>2. SumOn(g, S \cup {a}) = g[a] + SumOn(g, S)
  <2> DEFINE R == S \cup {a}
  <2>1. a \in R /\ \A x \in R : g[x] \in Int
    OBVIOUS
  <2> HIDE DEF R
  <2>2. SumOn(g, R) = g[a] + SumOn(g, R \ {a})
    BY <1>1, <2>1, SumOut DEF R
  <2> QED BY <1>1, <2>2 DEF R
<1>3. SumOn(g, S) = SumOn(f, S) /\ SumOn(f, S) \in Int
  BY SumSame, SumTyped
<1>4. SumFunction(g) = SumOn(g, S \cup {a}) /\ SumFunction(f) = SumOn(f, S)
  BY SumFunctionIs
<1>5. g[a] \in Int
  OBVIOUS
<1> QED BY <1>2, <1>3, <1>4, <1>5

LEMMA SumPlus ==
  ASSUME NEW S, IsFiniteSet(S), NEW f \in [S -> Int], NEW g \in [S -> Int], NEW h, DOMAIN h = S,
         \A x \in S : h[x] = f[x] + g[x]
  PROVE  SumFunction(h) = SumFunction(f) + SumFunction(g)
BY SumFunctionIs, SumAdds

LEMMA SumTimes ==
  ASSUME NEW S, IsFiniteSet(S), NEW f \in [S -> Int], NEW c \in Int, NEW h, DOMAIN h = S,
         \A x \in S : h[x] = c * f[x]
  PROVE  SumFunction(h) = c * SumFunction(f)
BY SumFunctionIs, SumScales

(* No row grows. *)
LEMMA SumAtMost ==
  ASSUME NEW S, IsFiniteSet(S), NEW f \in [S -> Int], NEW g \in [S -> Int], \A x \in S : f[x] <= g[x]
  PROVE  SumFunction(f) <= SumFunction(g)
<1> DEFINE d == [x \in S |-> g[x] - f[x]]
<1>1. d \in [S -> Nat] /\ d \in [S -> Int] /\ \A x \in S : g[x] = f[x] + d[x]
  OBVIOUS
<1> HIDE DEF d
<1>2. SumFunction(g) = SumFunction(f) + SumFunction(d)
  BY <1>1, SumPlus
<1>3. SumFunction(d) \in Nat /\ SumFunction(f) \in Int
  BY <1>1, SumNat, SumInt
<1> QED BY <1>2, <1>3

(* One row is not more than all of them. *)
LEMMA SumOfOne ==
  ASSUME NEW S, IsFiniteSet(S), NEW f \in [S -> Nat], NEW a \in S
  PROVE  f[a] <= SumFunction(f)
<1> DEFINE W == S \ {a}
<1>1. IsFiniteSet(W) /\ \A x \in W : f[x] \in Nat
  BY FS_Subset
<1>2. SumOn(f, S) = f[a] + SumOn(f, W)
  BY SumOut
<1>3. SumOn(f, W) \in Nat
  <2> HIDE DEF W
  <2> QED BY <1>1, SumAtLeast
<1> QED BY <1>2, <1>3, SumFunctionIs

(* The rows with a property: the others count for nothing. *)
LEMMA SumFiltered ==
  ASSUME NEW S, IsFiniteSet(S), NEW R \in SUBSET S, NEW f, DOMAIN f = R, NEW g \in [S -> Int],
         \A x \in R : f[x] = g[x], \A x \in S \ R : g[x] = 0
  PROVE  SumFunction(f) = SumFunction(g)
<1> DEFINE T == {U \in SUBSET S : SumOn(g, U) = SumOn(g, U \cap R)}
<1>1. ASSUME NEW U \in SUBSET S, \A V \in SUBSET U : V # U => V \in T
      PROVE  U \in T
  <2>1. CASE U \subseteq R
    <3>1. U \cap R = U
      BY <2>1
    <3> QED BY <3>1
  <2>2. CASE ~(U \subseteq R)
    <3>1. PICK a \in U : a \notin R
      BY <2>2
    <3> DEFINE W == U \ {a}
    <3>2. W \in SUBSET U /\ W # U /\ W \cap R = U \cap R
      BY <3>1
    <3>3. SumOn(g, W) = SumOn(g, U \cap R)
      BY <1>1, <3>2
    <3>4. SumOn(g, U) = g[a] + SumOn(g, W) /\ g[a] = 0
      BY <3>1, SumOut, FS_Subset
    <3>5. SumOn(g, W) \in Int
      <4>1. IsFiniteSet(W) /\ \A x \in W : g[x] \in Int
        BY FS_Subset
      <4> HIDE DEF W
      <4> QED BY <4>1, SumTyped
    <3> HIDE DEF W
    <3> QED BY <3>3, <3>4, <3>5
  <2> QED BY <2>1, <2>2
<1>2. SUBSET S \subseteq T
  <2> HIDE DEF T
  <2> QED BY <1>1, SubsetInduction
<1>3. SumOn(g, S) = SumOn(g, S \cap R) /\ S \cap R = R /\ IsFiniteSet(R)
  BY <1>2, FS_Subset
<1>4. SumOn(g, S) = SumOn(g, R)
  BY <1>3
<1>5. SumOn(g, R) = SumOn(f, R)
  BY <1>3, SumSame
<1> QED BY <1>4, <1>5, SumFunctionIs

(* At most one row changes, leaves or comes in.                              *)
LEMMA SumRowChanges ==
  ASSUME NEW S, IsFiniteSet(S), NEW K \in SUBSET S, NEW L \in SUBSET S,
         NEW f \in [K -> Int], NEW g \in [L -> Int], NEW a \in S,
         \A x \in S \ {a} : (x \in L <=> x \in K) /\ (x \in K => g[x] = f[x])
  PROVE  SumFunction(g) = SumFunction(f) - (IF a \in K THEN f[a] ELSE 0)
                                         + (IF a \in L THEN g[a] ELSE 0)
<1> DEFINE u == [x \in S |-> IF x \in K THEN f[x] ELSE 0]
           v == [x \in S |-> IF x \in L THEN g[x] ELSE 0]
<1>1. u \in [S -> Int] /\ v \in [S -> Int]
  OBVIOUS
<1>2. /\ DOMAIN f = K /\ (\A x \in K : f[x] = u[x]) /\ (\A x \in S \ K : u[x] = 0)
      /\ DOMAIN g = L /\ (\A x \in L : g[x] = v[x]) /\ (\A x \in S \ L : v[x] = 0)
  OBVIOUS
<1>3. \A x \in S \ {a} : v[x] = u[x]
  OBVIOUS
<1>4. u[a] = (IF a \in K THEN f[a] ELSE 0) /\ v[a] = (IF a \in L THEN g[a] ELSE 0)
  OBVIOUS
<1> HIDE DEF u, v
<1>5. SumFunction(f) = SumFunction(u)
  BY <1>1, <1>2, SumFiltered
<1>6. SumFunction(g) = SumFunction(v)
  BY <1>1, <1>2, SumFiltered
<1>7. SumFunction(v) = SumFunction(u) - u[a] + v[a]
  BY <1>1, <1>3, SumChanged
<1> QED BY <1>4, <1>5, <1>6, <1>7

(* The same for tables by name: f and g are tables of numbers for some of S, *)
(* and differ at most at a.                                                  *)
Numbers(f, S) == DOMAIN f \in SUBSET S /\ f \in [DOMAIN f -> Int]
SameBut(f, g, S, a) ==
  \A x \in S \ {a} : /\ x \in DOMAIN f <=> x \in DOMAIN g
                     /\ x \in DOMAIN f => g[x] = f[x]
ValueAt(f, a) == IF a \in DOMAIN f THEN f[a] ELSE 0

LEMMA SumOneRow ==
  ASSUME NEW S, IsFiniteSet(S), NEW f, NEW g, Numbers(f, S), Numbers(g, S),
         NEW a \in S, SameBut(f, g, S, a)
  PROVE  SumFunction(g) = SumFunction(f) - ValueAt(f, a) + ValueAt(g, a)
<1> DEFINE u == [x \in S |-> ValueAt(f, x)]
           v == [x \in S |-> ValueAt(g, x)]
<1>1. PICK K, L : K = DOMAIN f /\ L = DOMAIN g
  OBVIOUS
<1>2. /\ K \in SUBSET S /\ L \in SUBSET S
      /\ \A x \in K : f[x] \in Int
      /\ \A x \in L : g[x] \in Int
  BY <1>1 DEF Numbers
<1>3. u \in [S -> Int] /\ v \in [S -> Int]
  BY <1>1, <1>2 DEF ValueAt
<1>4. /\ (\A x \in K : f[x] = u[x]) /\ (\A x \in S \ K : u[x] = 0)
      /\ (\A x \in L : g[x] = v[x]) /\ (\A x \in S \ L : v[x] = 0)
  BY <1>1, <1>2 DEF ValueAt
<1>5. \A x \in S \ {a} : v[x] = u[x]
  BY DEF SameBut, ValueAt
<1>6. u[a] = ValueAt(f, a) /\ v[a] = ValueAt(g, a)
  OBVIOUS
<1> HIDE DEF u, v
<1>7. SumFunction(f) = SumFunction(u)
  BY <1>1, <1>2, <1>3, <1>4, SumFiltered
<1>8. SumFunction(g) = SumFunction(v)
  BY <1>1, <1>2, <1>3, <1>4, SumFiltered
<1>9. SumFunction(v) = SumFunction(u) - u[a] + v[a]
  BY <1>3, <1>5, SumChanged
<1> QED
  BY <1>6, <1>7, <1>8, <1>9

-----------------------------------------------------------------------------
(* Folds over a sequence: computed on the sets of its positions, the last    *)
(* position first.                                                           *)

Greatest(V) == CHOOSE x \in V : \A y \in V : x >= y
LeftBody(g, F, b, V) == IF V = {} THEN b ELSE F[Greatest(V)][g[V \ {Greatest(V)}]]
IsLeft(g, F, b, S) == g = [V \in SUBSET S |-> LeftBody(g, F, b, V)]
Left(F, b, S) == CHOOSE g : IsLeft(g, F, b, S)

LEMMA GreatestIn ==
  ASSUME NEW V \in SUBSET Int, IsFiniteSet(V), V # {}
  PROVE  Greatest(V) \in V /\ \A i \in V : i <= Greatest(V)
<1>1. PICK m \in V : \A i \in V : i <= m
  BY HasGreatest
<1>2. \E x \in V : \A y \in V : x >= y
  BY <1>1
<1> QED BY <1>2 DEF Greatest

LEMMA LeftStep ==
  ASSUME NEW F, NEW b, NEW S, NEW g, IsLeft(g, F, b, S), NEW U \in SUBSET S
  PROVE  g[U] = LeftBody(g, F, b, U)
BY DEF IsLeft

LEMMA LeftUnique ==
  ASSUME NEW F, NEW b, NEW S, NEW R \in SUBSET Int, IsFiniteSet(R), NEW g, NEW h,
         IsLeft(g, F, b, S), IsLeft(h, F, b, R), NEW U \in SUBSET R, U \in SUBSET S
  PROVE  g[U] = h[U]
<1> DEFINE T == {V \in SUBSET R : V \in SUBSET S => g[V] = h[V]}
<1>1. ASSUME NEW V \in SUBSET R, \A W \in SUBSET V : W # V => W \in T
      PROVE  V \in T
  <2> SUFFICES ASSUME V \in SUBSET S PROVE g[V] = h[V]
    OBVIOUS
  <2>1. g[V] = LeftBody(g, F, b, V) /\ h[V] = LeftBody(h, F, b, V)
    <3>1. g[V] = LeftBody(g, F, b, V)
      BY LeftStep
    <3>2. h[V] = LeftBody(h, F, b, V)
      BY DEF IsLeft
    <3> QED BY <3>1, <3>2
  <2>2. CASE V = {}
    BY <2>1, <2>2 DEF LeftBody
  <2>3. CASE V # {}
    <3> DEFINE W == V \ {Greatest(V)}
    <3>1. Greatest(V) \in V
      <4>1. V \in SUBSET Int /\ IsFiniteSet(V)
        BY FS_Subset
      <4> QED BY <2>3, <4>1, GreatestIn
    <3>2. W \in SUBSET V /\ W # V /\ W \in SUBSET S
      BY <3>1
    <3>3. g[W] = h[W]
      BY <1>1, <3>2
    <3> QED BY <2>1, <3>3 DEF LeftBody
  <2> QED BY <2>2, <2>3
<1>2. SUBSET R \subseteq T
  <2> HIDE DEF T
  <2> QED BY <1>1, SubsetInduction
<1> QED BY <1>2

LEMMA LeftExists ==
  ASSUME NEW F, NEW b, NEW S \in SUBSET Int, IsFiniteSet(S)
  PROVE  IsLeft(Left(F, b, S), F, b, S)
<1> DEFINE T == {U \in SUBSET S : IsLeft(Left(F, b, U), F, b, U)}
<1>1. ASSUME NEW U \in SUBSET S, \A V \in SUBSET U : V # U => V \in T
      PROVE  U \in T
  <2> DEFINE Val(V) == Left(F, b, V)[V]
             Next(V) == IF V = {} THEN b ELSE F[Greatest(V)][Val(V \ {Greatest(V)})]
             g == [V \in SUBSET U |-> Next(V)]
  <2>1. ASSUME NEW V \in SUBSET U, V # {}
        PROVE  V \ {Greatest(V)} \in SUBSET U /\ V \ {Greatest(V)} \in SUBSET V /\ V \ {Greatest(V)} # U
    <3>1. Greatest(V) \in V
      <4>1. V \in SUBSET Int /\ IsFiniteSet(V)
        BY FS_Subset
      <4> QED BY <2>1, <4>1, GreatestIn
    <3> QED BY <3>1
  <2>2. ASSUME NEW V \in SUBSET U, V # U
        PROVE  Val(V) = Next(V)
    <3>1. IsLeft(Left(F, b, V), F, b, V) /\ IsFiniteSet(V)
      BY <1>1, <2>2, FS_Subset
    <3>2. Val(V) = LeftBody(Left(F, b, V), F, b, V)
      BY <3>1, LeftStep
    <3>3. CASE V = {}
      BY <3>2, <3>3 DEF LeftBody
    <3>4. CASE V # {}
      <4> DEFINE W == V \ {Greatest(V)}
      <4>1. W \in SUBSET V /\ W \in SUBSET U /\ W # U
        BY <2>1, <3>4
      <4>2. IsLeft(Left(F, b, W), F, b, W) /\ IsFiniteSet(W) /\ W \in SUBSET Int /\ W \in SUBSET W
        BY <1>1, <4>1, FS_Subset
      <4>3. Left(F, b, V)[W] = Left(F, b, W)[W]
        <5> HIDE DEF W
        <5>1. PICK g1, h1 : g1 = Left(F, b, V) /\ h1 = Left(F, b, W)
          OBVIOUS
        <5>2. IsLeft(g1, F, b, V) /\ IsLeft(h1, F, b, W)
          BY <3>1, <4>2, <5>1
        <5>3. W \in SUBSET Int /\ IsFiniteSet(W) /\ W \in SUBSET W /\ W \in SUBSET V
          BY <4>1, <4>2
        <5>4. g1[W] = h1[W]
          BY <5>2, <5>3, LeftUnique
        <5> QED BY <5>1, <5>4
      <4> QED BY <3>2, <3>4, <4>3 DEF LeftBody
    <3> QED BY <3>3, <3>4
  <2>3. ASSUME NEW V \in SUBSET U PROVE g[V] = LeftBody(g, F, b, V)
    <3>1. CASE V = {}
      BY <3>1 DEF LeftBody
    <3>2. CASE V # {}
      <4> DEFINE W == V \ {Greatest(V)}
      <4>1. W \in SUBSET U /\ W # U
        BY <2>1, <3>2
      <4>2. g[W] = Val(W)
        BY <2>2, <4>1
      <4>3. g[V] = F[Greatest(V)][Val(W)]
        BY <3>2
      <4> QED BY <3>2, <4>2, <4>3 DEF LeftBody
    <3> QED BY <3>1, <3>2
  <2>4. g = [V \in SUBSET U |-> LeftBody(g, F, b, V)]
    <3>1. g = [V \in SUBSET U |-> g[V]]
      OBVIOUS
    <3> HIDE DEF g
    <3> QED BY <2>3, <3>1
  <2>5. IsLeft(g, F, b, U)
    <3> HIDE DEF g
    <3> QED BY <2>4 DEF IsLeft
  <2>6. IsLeft(Left(F, b, U), F, b, U)
    <3> HIDE DEF g
    <3> QED BY <2>5, Zenon DEF Left
  <2> QED BY <2>6
<1>2. SUBSET S \subseteq T
  <2> HIDE DEF T
  <2> QED BY <1>1, SubsetInduction
<1> QED BY <1>2

(* The same fold as a path: p[i] is what the first i elements make of b.     *)
Path(p, F, b, n) == p[0] = b /\ \A i \in 1 .. n : p[i] = F[i][p[i - 1]]

LEMMA UpTo ==
  ASSUME NEW n \in Nat, NEW T, 0 \in T, \A i \in 0 .. n : i + 1 \in 0 .. n /\ i \in T => i + 1 \in T
  PROVE  0 .. n \subseteq T
<1> DEFINE Late == {j \in 0 .. n : n - j \notin T}
<1>1. SUFFICES ASSUME Late # {} PROVE FALSE
  <2>1. ASSUME Late = {}, NEW i \in 0 .. n PROVE i \in T
    <3>1. PICK j : j = n - i
      OBVIOUS
    <3>2. j \in 0 .. n /\ n - j = i
      BY <3>1
    <3>3. j \notin Late
      BY <2>1
    <3> QED BY <3>2, <3>3
  <2> QED BY <2>1
<1>2. Late \in SUBSET Int /\ IsFiniteSet(Late)
  <2>1. IsFiniteSet(0 .. n)
    BY FS_Interval
  <2> QED BY <2>1, FS_Subset
<1>3. PICK m \in Late : \A j \in Late : j <= m
  <2> HIDE DEF Late
  <2> QED BY <1>1, <1>2, HasGreatest
<1>4. m # n /\ m + 1 \in 0 .. n
  BY <1>3
<1>5. n - (m + 1) \in T
  BY <1>3, <1>4
<1>6. n - (m + 1) \in 0 .. n /\ (n - (m + 1)) + 1 = n - m /\ n - m \in 0 .. n
  BY <1>3, <1>4
<1> QED BY <1>3, <1>5, <1>6

LEMMA PathUnique ==
  ASSUME NEW n \in Nat, NEW F, NEW b, NEW p, NEW r, Path(p, F, b, n), Path(r, F, b, n)
  PROVE  \A i \in 0 .. n : p[i] = r[i]
<1> DEFINE T == {i \in 0 .. n : p[i] = r[i]}
<1>1. 0 \in T
  BY DEF Path
<1>2. ASSUME NEW i \in 0 .. n, i + 1 \in 0 .. n, i \in T PROVE i + 1 \in T
  <2>1. i + 1 \in 1 .. n /\ (i + 1) - 1 = i
    BY <1>2
  <2>2. PICK j : j = i + 1
    OBVIOUS
  <2>3. p[j] = F[j][p[i]] /\ r[j] = F[j][r[i]]
    BY <2>1, <2>2 DEF Path
  <2> QED BY <1>2, <2>2, <2>3
<1>3. 0 .. n \subseteq T
  <2> HIDE DEF T
  <2> QED BY <1>1, <1>2, UpTo
<1> QED BY <1>3

(* g computes the fold, wherever its own values are in T.                    *)
Folded(g, F, b, n, T) ==
  /\ F \in [1 .. n -> [T -> T]] /\ b \in T /\ g[{}] = b
  /\ \A V \in SUBSET (1 .. n) : V # {} /\ g[V \ {Greatest(V)}] \in T =>
       g[V] = F[Greatest(V)][g[V \ {Greatest(V)}]]

LEMMA FoldTypes ==
  ASSUME NEW T, NEW n \in Nat, NEW F, NEW b, NEW g, Folded(g, F, b, n, T)
  PROVE  \A V \in SUBSET (1 .. n) : g[V] \in T
<1>0. /\ F \in [1 .. n -> [T -> T]] /\ b \in T /\ g[{}] = b
      /\ \A V \in SUBSET (1 .. n) : V # {} /\ g[V \ {Greatest(V)}] \in T =>
           g[V] = F[Greatest(V)][g[V \ {Greatest(V)}]]
  BY DEF Folded
<1>1. IsFiniteSet(1 .. n) /\ 1 .. n \in SUBSET Int
  BY FS_Interval
<1>2. ASSUME NEW V \in SUBSET (1 .. n), V # {} PROVE Greatest(V) \in V /\ \A j \in V : j <= Greatest(V)
  <2>1. IsFiniteSet(V) /\ V \in SUBSET Int
    BY <1>1, FS_Subset
  <2> QED BY <1>2, <2>1, GreatestIn
<1> DEFINE S == {V \in SUBSET (1 .. n) : g[V] \in T}
<1>3. ASSUME NEW U \in SUBSET (1 .. n), \A V \in SUBSET U : V # U => V \in S
      PROVE  U \in S
  <2>1. CASE U = {}
    BY <1>0, <2>1
  <2>2. CASE U # {}
    <3>1. PICK W, i : W = U \ {Greatest(U)} /\ i = Greatest(U)
      OBVIOUS
    <3>2. i \in U /\ W \in SUBSET U /\ W # U
      BY <1>2, <2>2, <3>1
    <3>3. g[W] \in T
      BY <1>3, <3>2
    <3>4. g[U] = F[i][g[W]] /\ F[i] \in [T -> T]
      BY <1>0, <2>2, <3>1, <3>2, <3>3
    <3> QED BY <3>3, <3>4
  <2> QED BY <2>1, <2>2
<1>4. SUBSET (1 .. n) \subseteq S
  <2> HIDE DEF S
  <2>1. PICK R : R = 1 .. n
    OBVIOUS
  <2>2. IsFiniteSet(R) /\ \A U \in SUBSET R : (\A V \in SUBSET U : V # U => V \in S) => U \in S
    BY <1>1, <1>3, <2>1
  <2>3. SUBSET R \subseteq S
    BY <2>2, SubsetInduction
  <2> QED BY <2>1, <2>3
<1> QED BY <1>4

LEMMA FoldPath ==
  ASSUME NEW T, NEW n \in Nat, NEW F, NEW b, NEW g, Folded(g, F, b, n, T)
  PROVE  \E p \in [0 .. n -> T] : Path(p, F, b, n) /\ p[n] = g[1 .. n]
<1>1. \A V \in SUBSET (1 .. n) : V # {} =>
        Greatest(V) \in V /\ \A j \in V : j <= Greatest(V)
  <2>1. IsFiniteSet(1 .. n) /\ 1 .. n \in SUBSET Int
    BY FS_Interval
  <2>2. ASSUME NEW V \in SUBSET (1 .. n), V # {} PROVE Greatest(V) \in V /\ \A j \in V : j <= Greatest(V)
    <3>1. IsFiniteSet(V) /\ V \in SUBSET Int
      BY <2>1, FS_Subset
    <3> QED BY <2>2, <3>1, GreatestIn
  <2> QED BY <2>2
<1>0. /\ F \in [1 .. n -> [T -> T]] /\ b \in T /\ g[{}] = b
      /\ \A V \in SUBSET (1 .. n) : V # {} /\ g[V \ {Greatest(V)}] \in T =>
           g[V] = F[Greatest(V)][g[V \ {Greatest(V)}]]
  BY DEF Folded
<1>4. \A V \in SUBSET (1 .. n) : g[V] \in T
  BY FoldTypes
<1>5. ASSUME NEW i \in 1 .. n
      PROVE  g[1 .. i] = F[i][g[1 .. i - 1]]
  <2>1. PICK V : V = 1 .. i
    OBVIOUS
  <2>2. V \in SUBSET (1 .. n) /\ i \in V /\ V # {}
    <3>1. i \in V /\ \A j \in V : j \in 1 .. n
      BY <2>1
    <3> QED BY <3>1
  <2>3. Greatest(V) = i
    <3>1. Greatest(V) \in V /\ i <= Greatest(V)
      BY <1>1, <2>2
    <3>2. Greatest(V) \in Int /\ Greatest(V) <= i
      BY <2>1, <3>1
    <3> QED BY <3>1, <3>2
  <2>4. V \ {i} = 1 .. i - 1 /\ V \ {i} \in SUBSET (1 .. n)
    BY <2>1, <2>2
  <2>5. g[V] = F[i][g[V \ {i}]]
    BY <1>0, <1>4, <2>2, <2>3, <2>4
  <2> QED BY <2>1, <2>4, <2>5
<1> DEFINE p == [i \in 0 .. n |-> g[1 .. i]]
<1>6. p \in [0 .. n -> T]
  <2>1. \A i \in 0 .. n : 1 .. i \in SUBSET (1 .. n)
    OBVIOUS
  <2> QED BY <1>4, <2>1
<1>7. p[0] = b
  <2>1. 1 .. 0 = {}
    OBVIOUS
  <2> QED BY <1>0, <2>1
<1>8. ASSUME NEW i \in 1 .. n PROVE p[i] = F[i][p[i - 1]]
  <2>1. i \in 0 .. n /\ i - 1 \in 0 .. n
    OBVIOUS
  <2> QED BY <1>5, <2>1
<1>9. p[n] = g[1 .. n]
  OBVIOUS
<1> HIDE DEF p
<1>10. Path(p, F, b, n)
  BY <1>7, <1>8 DEF Path
<1> QED BY <1>6, <1>9, <1>10

LEMMA PathExists ==
  ASSUME NEW T, NEW n \in Nat, NEW F \in [1 .. n -> [T -> T]], NEW b \in T
  PROVE  \E p \in [0 .. n -> T] : Path(p, F, b, n)
<1>1. PICK S, g : S = 1 .. n /\ g = Left(F, b, S)
  OBVIOUS
<1>2. S \in SUBSET Int /\ IsFiniteSet(S)
  BY <1>1, FS_Interval
<1>3. IsLeft(g, F, b, S)
  BY <1>1, <1>2, LeftExists
<1>4. \A V \in SUBSET S : g[V] = LeftBody(g, F, b, V)
  BY <1>3, LeftStep
<1>5. g[{}] = b
  BY <1>4 DEF LeftBody
<1>6. \A V \in SUBSET (1 .. n) : V # {} /\ g[V \ {Greatest(V)}] \in T =>
        g[V] = F[Greatest(V)][g[V \ {Greatest(V)}]]
  BY <1>1, <1>4 DEF LeftBody
<1>7. Folded(g, F, b, n, T)
  BY <1>5, <1>6 DEF Folded
<1> QED BY <1>7, FoldPath
=============================================================================
