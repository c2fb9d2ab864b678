----------------------------- MODULE FiniteSums -----------------------------
(***************************************************************************)
(* Facts about SumFunctionOnSet of the community module Functions, over     *)
(* finite sets: what TradingGateProofs needs of the exposure of rows,       *)
(* LiveExitsProofs of the contracts of runs, OperatorProofs of the updates  *)
(* of a batch, BackgroundProofs of the posts of a feed, RecordProofs of the *)
(* calls a benchmark still has to pay for and of the losses it shares out. *)
(* The last section is about the highest and the lowest of a finite set of *)
(* numbers and the size of an image.                                       *)
(*                                                                         *)
(* The sum is a fold, a function defined by recursion over the subsets.    *)
(* The induction theorems of the library have an operator parameter, which *)
(* the provers do not instantiate; induction is done here with a minimal   *)
(* counterexample: a non-empty family of subsets has a minimal member      *)
(* (MinimalSubset), because strict inclusion is well founded.              *)
(***************************************************************************)
EXTENDS Integers, Functions, FiniteSets, FiniteSetTheorems, WellFoundedInduction, TLAPS

(* A non-empty family of subsets of a finite set has a minimal member. *)
LEMMA MinimalSubset ==
  ASSUME NEW S, IsFiniteSet(S), NEW F \in SUBSET SUBSET S, F # {}
  PROVE  \E T \in F : \A U \in F : U \subseteq T => U = T
<1>1. IsWellFoundedOn(StrictSubsetOrdering(S), SUBSET S)
  BY FS_FiniteSubsetsOfFinite, FS_StrictSubsetOrderingWellFounded, Zenon
<1>2. \E T \in F : \A U \in F : ~ (<<U, T>> \in StrictSubsetOrdering(S))
  BY <1>1, WFMin, Zenon
<1> QED BY <1>2 DEF StrictSubsetOrdering

-----------------------------------------------------------------------------
(* The recursion that the fold runs, and its solutions. *)
Pick(s) == CHOOSE x \in s : TRUE

IsSum(g, f, S) ==
  g = [s \in SUBSET S |-> IF s = {} THEN 0 ELSE f[Pick(s)] + g[s \ {Pick(s)}]]

LEMMA PickIn == ASSUME NEW s, s # {} PROVE Pick(s) \in s
BY DEF Pick

LEMMA SumUnfold ==
  ASSUME NEW f, NEW S
  PROVE  SumFunctionOnSet(f, S) = (CHOOSE g : IsSum(g, f, S))[S]
BY DEF SumFunctionOnSet, FoldFunctionOnSet, MapThenFoldSet, IsSum, Pick

(* Two solutions agree where both are defined. *)
LEMMA SumsAgree ==
  ASSUME NEW f, NEW S, NEW T, IsFiniteSet(S), NEW g, NEW h, IsSum(g, f, S), IsSum(h, f, T),
         NEW U, U \subseteq S, U \subseteq T
  PROVE  g[U] = h[U]
<1> DEFINE F == {s \in SUBSET S : s \subseteq T /\ g[s] # h[s]}
<1>1. SUFFICES ASSUME F # {} PROVE FALSE
  OBVIOUS
<1>0. F \in SUBSET SUBSET S
  OBVIOUS
<1> HIDE DEF F
<1>2. PICK s \in F : \A u \in F : u \subseteq s => u = s
  BY <1>0, <1>1, MinimalSubset
<1> USE DEF F
<1>3. CASE s = {}
  BY <1>3 DEF IsSum
<1>4. CASE s # {}
  <2> DEFINE c == Pick(s)
  <2>1. c \in s
    BY <1>4, PickIn
  <2>2. g[s \ {c}] = h[s \ {c}]
    BY <1>2, <2>1
  <2>3. g[s] = f[c] + g[s \ {c}] /\ h[s] = f[c] + h[s \ {c}]
    BY <1>4 DEF IsSum
  <2> QED BY <2>2, <2>3
<1> QED BY <1>3, <1>4

(* What the solution for a set gives it. *)
Value(f, s) == (CHOOSE g : IsSum(g, f, s))[s]

LEMMA ValueOf ==
  ASSUME NEW f, NEW S, IsFiniteSet(S), NEW g, IsSum(g, f, S), NEW U, U \subseteq S
  PROVE  Value(f, U) = g[U]
<1> DEFINE r == [s \in SUBSET U |-> g[s]]
<1>1. IsSum(r, f, U)
  <2>1. \A s \in SUBSET U : s \ {Pick(s)} \in SUBSET U /\ s \in SUBSET S
    OBVIOUS
  <2>2. \A s \in SUBSET U :
          g[s] = IF s = {} THEN 0 ELSE f[Pick(s)] + g[s \ {Pick(s)}]
    BY <2>1 DEF IsSum
  <2>3. \A s \in SUBSET U : r[s] = g[s] /\ r[s \ {Pick(s)}] = g[s \ {Pick(s)}]
    BY <2>1
  <2>4. r = [s \in SUBSET U |-> IF s = {} THEN 0 ELSE f[Pick(s)] + r[s \ {Pick(s)}]]
    BY <2>2, <2>3
  <2> HIDE DEF r
  <2> QED BY <2>4 DEF IsSum
<1> HIDE DEF r
<1> DEFINE h == CHOOSE x : IsSum(x, f, U)
<1>2. IsSum(h, f, U)
  BY <1>1
<1> HIDE DEF h
<1>3. IsFiniteSet(U)
  BY FS_Subset
<1>4. h[U] = g[U]
  BY <1>2, <1>3, SumsAgree
<1> QED BY <1>4 DEF Value, h

LEMMA SumsExist ==
  ASSUME NEW f, NEW S, IsFiniteSet(S)
  PROVE  \E g : IsSum(g, f, S)
<1> DEFINE F == {T \in SUBSET S : ~ \E g : IsSum(g, f, T)}
<1>1. SUFFICES ASSUME F # {} PROVE FALSE
  OBVIOUS
<1>0. F \in SUBSET SUBSET S
  OBVIOUS
<1> HIDE DEF F
<1>2. PICK T \in F : \A U \in F : U \subseteq T => U = T
  BY <1>0, <1>1, MinimalSubset
<1> USE DEF F
<1>3. \A U \in SUBSET T : U # T => \E g : IsSum(g, f, U)
  BY <1>2
<1> DEFINE g == [s \in SUBSET T |-> IF s = {} THEN 0
                                    ELSE f[Pick(s)] + Value(f, s \ {Pick(s)})]
<1>4. ASSUME NEW U \in SUBSET T, U # T
      PROVE  Value(f, U) = g[U]
  <2>1. PICK h : IsSum(h, f, U)
    BY <1>3, <1>4
  <2>2. IsFiniteSet(U)
    BY FS_Subset, <1>4
  <2>3. Value(f, U) = h[U] /\ Value(f, U \ {Pick(U)}) = h[U \ {Pick(U)}]
    BY <2>1, <2>2, ValueOf
  <2>4. h[U] = IF U = {} THEN 0 ELSE f[Pick(U)] + h[U \ {Pick(U)}]
    BY <2>1 DEF IsSum
  <2> QED BY <2>3, <2>4
<1>5. \A s \in SUBSET T : s # {} =>
        s \ {Pick(s)} \in SUBSET T /\ s \ {Pick(s)} # T
  BY PickIn
<1>6. g = [s \in SUBSET T |-> IF s = {} THEN 0 ELSE f[Pick(s)] + g[s \ {Pick(s)}]]
  <2>1. \A s \in SUBSET T : s # {} => Value(f, s \ {Pick(s)}) = g[s \ {Pick(s)}]
    BY <1>4, <1>5
  <2> QED BY <2>1
<1> HIDE DEF g
<1>7. IsSum(g, f, T)
  BY <1>6 DEF IsSum
<1> QED BY <1>2, <1>7

(* The sum satisfies the equation it is defined by. *)
LEMMA SumEquation ==
  ASSUME NEW f, NEW S, IsFiniteSet(S)
  PROVE  /\ SumFunctionOnSet(f, {}) = 0
         /\ S # {} => SumFunctionOnSet(f, S)
                        = f[Pick(S)] + SumFunctionOnSet(f, S \ {Pick(S)})
<1>1. PICK g : IsSum(g, f, S)
  BY SumsExist
<1>2. \A U \in SUBSET S : SumFunctionOnSet(f, U) = g[U]
  BY <1>1, ValueOf, SumUnfold DEF Value
<1>3. \A U \in SUBSET S : g[U] = IF U = {} THEN 0 ELSE f[Pick(U)] + g[U \ {Pick(U)}]
  BY <1>1 DEF IsSum
<1> QED BY <1>2, <1>3

-----------------------------------------------------------------------------
(* The facts to cite. *)

(* Integers sum to an integer, naturals to a natural. *)
LEMMA SumType ==
  ASSUME NEW S, IsFiniteSet(S), NEW Typ \in {Nat, Int}, NEW f, \A x \in S : f[x] \in Typ
  PROVE  SumFunctionOnSet(f, S) \in Typ
<1> DEFINE F == {T \in SUBSET S : SumFunctionOnSet(f, T) \notin Typ}
<1>1. SUFFICES ASSUME F # {} PROVE FALSE
  OBVIOUS
<1>0. F \in SUBSET SUBSET S
  OBVIOUS
<1> HIDE DEF F
<1>2. PICK T \in F : \A U \in F : U \subseteq T => U = T
  BY <1>0, <1>1, MinimalSubset
<1> USE DEF F
<1>3. IsFiniteSet(T)
  BY FS_Subset
<1>4. CASE T = {}
  <2>1. 0 \in Typ
    OBVIOUS
  <2> QED BY <1>2, <1>3, <1>4, <2>1, SumEquation
<1>5. CASE T # {}
  <2>1. Pick(T) \in T
    BY <1>5, PickIn
  <2>2. SumFunctionOnSet(f, T \ {Pick(T)}) \in Typ
    BY <1>2, <2>1
  <2>3. f[Pick(T)] \in Typ
    BY <2>1
  <2>4. SumFunctionOnSet(f, T) = f[Pick(T)] + SumFunctionOnSet(f, T \ {Pick(T)})
    BY <1>3, <1>5, SumEquation
  <2>5. SumFunctionOnSet(f, T) \in Typ
    BY <2>2, <2>3, <2>4
  <2> QED BY <1>2, <2>5
<1> QED BY <1>4, <1>5

LEMMA SumInt ==
  ASSUME NEW S, IsFiniteSet(S), NEW f, \A x \in S : f[x] \in Int
  PROVE  SumFunctionOnSet(f, S) \in Int
BY SumType

LEMMA SumNat ==
  ASSUME NEW S, IsFiniteSet(S), NEW f, \A x \in S : f[x] \in Nat
  PROVE  SumFunctionOnSet(f, S) \in Nat
BY SumType

(* Any element may be taken out first. *)
LEMMA SumWithout ==
  ASSUME NEW S, IsFiniteSet(S), NEW f, \A x \in S : f[x] \in Int, NEW y \in S
  PROVE  SumFunctionOnSet(f, S) = f[y] + SumFunctionOnSet(f, S \ {y})
<1> DEFINE Out(T, x) == SumFunctionOnSet(f, T) = f[x] + SumFunctionOnSet(f, T \ {x})
           F == {T \in SUBSET S : \E x \in T : ~Out(T, x)}
<1>1. SUFFICES ASSUME F # {} PROVE FALSE
  <2>1. S \in SUBSET S
    OBVIOUS
  <2>2. F = {} => Out(S, y)
    BY <2>1
  <2> QED BY <2>2
<1>0. F \in SUBSET SUBSET S
  OBVIOUS
<1> HIDE DEF F
<1>2. PICK T \in F : \A U \in F : U \subseteq T => U = T
  BY <1>0, <1>1, MinimalSubset
<1>3. T \subseteq S /\ IsFiniteSet(T)
  BY <1>0, <1>2, FS_Subset
<1>4. PICK x \in T : ~Out(T, x)
  BY <1>2 DEF F
<1>5. PICK c \in T : Out(T, c)
  BY <1>3, <1>4, PickIn, SumEquation
<1>6. x # c
  BY <1>4, <1>5
<1>7. ASSUME NEW u \in T, NEW v \in T, u # v PROVE Out(T \ {u}, v)
  <2>1. T \ {u} \in SUBSET S /\ v \in T \ {u} /\ T \ {u} # T /\ T \ {u} \subseteq T
    BY <1>3, <1>7
  <2>2. T \ {u} \notin F
    BY <1>2, <2>1
  <2> HIDE DEF Out
  <2> QED BY <2>1, <2>2 DEF F
<1>8. Out(T \ {c}, x) /\ Out(T \ {x}, c)
  BY <1>4, <1>5, <1>6, <1>7
<1> DEFINE rest == SumFunctionOnSet(f, (T \ {c}) \ {x})
<1>9. rest \in Int /\ f[x] \in Int /\ f[c] \in Int
  <2>1. IsFiniteSet((T \ {c}) \ {x})
    BY <1>3, FS_Subset
  <2>2. \A z \in (T \ {c}) \ {x} : f[z] \in Int
    BY <1>3
  <2>3. rest \in Int
    BY <2>1, <2>2, SumType
  <2> QED BY <2>3, <1>3, <1>4, <1>5
<1>10. (T \ {x}) \ {c} = (T \ {c}) \ {x}
  OBVIOUS
<1>11. /\ SumFunctionOnSet(f, T) = f[c] + SumFunctionOnSet(f, T \ {c})
       /\ SumFunctionOnSet(f, T \ {c}) = f[x] + rest
       /\ SumFunctionOnSet(f, T \ {x}) = f[c] + rest
       /\ SumFunctionOnSet(f, T) # f[x] + SumFunctionOnSet(f, T \ {x})
  BY <1>4, <1>5, <1>8, <1>10
<1> HIDE DEF rest
<1> QED BY <1>9, <1>11

(* The sum over a set does not depend on values elsewhere. *)
LEMMA SumSame ==
  ASSUME NEW S, IsFiniteSet(S), NEW f, NEW h, \A x \in S : f[x] = h[x]
  PROVE  SumFunctionOnSet(f, S) = SumFunctionOnSet(h, S)
<1> DEFINE F == {T \in SUBSET S : SumFunctionOnSet(f, T) # SumFunctionOnSet(h, T)}
<1>1. SUFFICES ASSUME F # {} PROVE FALSE
  OBVIOUS
<1>0. F \in SUBSET SUBSET S
  OBVIOUS
<1> HIDE DEF F
<1>2. PICK T \in F : \A U \in F : U \subseteq T => U = T
  BY <1>0, <1>1, MinimalSubset
<1> USE DEF F
<1>3. IsFiniteSet(T)
  BY FS_Subset
<1>4. CASE T = {}
  BY <1>3, <1>4, SumEquation
<1>5. CASE T # {}
  <2>1. Pick(T) \in T
    BY <1>5, PickIn
  <2>2. SumFunctionOnSet(f, T \ {Pick(T)}) = SumFunctionOnSet(h, T \ {Pick(T)})
    BY <1>2, <2>1
  <2> QED BY <1>3, <1>5, <2>1, <2>2, SumEquation
<1> QED BY <1>4, <1>5

(* Nothing sums to nothing. *)
LEMMA SumZero ==
  ASSUME NEW S, IsFiniteSet(S), NEW f, \A x \in S : f[x] = 0
  PROVE  SumFunctionOnSet(f, S) = 0
<1> DEFINE F == {T \in SUBSET S : SumFunctionOnSet(f, T) # 0}
<1>1. SUFFICES ASSUME F # {} PROVE FALSE
  OBVIOUS
<1>2. F \in SUBSET SUBSET S
  OBVIOUS
<1> HIDE DEF F
<1>3. PICK T \in F : \A U \in F : U \subseteq T => U = T
  BY <1>1, <1>2, MinimalSubset
<1>4. T \subseteq S /\ IsFiniteSet(T) /\ SumFunctionOnSet(f, T) # 0
  BY <1>3, FS_Subset DEF F
<1>5. T # {} /\ Pick(T) \in T
  BY <1>4, SumEquation, PickIn
<1>6. SumFunctionOnSet(f, T \ {Pick(T)}) = 0
  BY <1>3, <1>4, <1>5 DEF F
<1>7. SumFunctionOnSet(f, T) = f[Pick(T)] + SumFunctionOnSet(f, T \ {Pick(T)})
  BY <1>4, <1>5, SumEquation
<1> QED BY <1>4, <1>5, <1>6, <1>7

(* One value changes. *)
LEMMA SumChanged ==
  ASSUME NEW S, IsFiniteSet(S), NEW f, NEW h, NEW y \in S,
         \A x \in S : f[x] \in Int /\ h[x] \in Int,
         \A x \in S \ {y} : f[x] = h[x]
  PROVE  SumFunctionOnSet(h, S) = SumFunctionOnSet(f, S) - f[y] + h[y]
<1>1. IsFiniteSet(S \ {y})
  BY FS_Subset
<1>2. SumFunctionOnSet(f, S \ {y}) = SumFunctionOnSet(h, S \ {y})
  BY <1>1, SumSame
<1>3. SumFunctionOnSet(f, S \ {y}) \in Int /\ f[y] \in Int /\ h[y] \in Int
  BY <1>1, SumType
<1>4. SumFunctionOnSet(f, S) = f[y] + SumFunctionOnSet(f, S \ {y})
  BY SumWithout
<1>5. SumFunctionOnSet(h, S) = h[y] + SumFunctionOnSet(h, S \ {y})
  BY SumWithout
<1> QED BY <1>2, <1>3, <1>4, <1>5

(* An element is added. *)
LEMMA SumWith ==
  ASSUME NEW S, IsFiniteSet(S), NEW f, NEW y, y \notin S, \A x \in S \cup {y} : f[x] \in Int
  PROVE  SumFunctionOnSet(f, S \cup {y}) = f[y] + SumFunctionOnSet(f, S)
<1>1. IsFiniteSet(S \cup {y})
  BY FS_AddElement
<1>2. (S \cup {y}) \ {y} = S
  OBVIOUS
<1> QED BY <1>1, <1>2, SumWithout

(* A part of a set of naturals sums to no more than the whole. *)
LEMMA SumOfPart ==
  ASSUME NEW S, IsFiniteSet(S), NEW T \in SUBSET S, NEW f, NEW h,
         \A x \in S : f[x] \in Nat, \A x \in T : h[x] = f[x]
  PROVE  SumFunctionOnSet(h, T) <= SumFunctionOnSet(f, S)
<1> DEFINE F == {U \in SUBSET (S \ T) :
                   ~(SumFunctionOnSet(f, T) <= SumFunctionOnSet(f, T \cup U))}
<1>1. IsFiniteSet(T) /\ IsFiniteSet(S \ T)
  BY FS_Subset
<1>2. SumFunctionOnSet(h, T) = SumFunctionOnSet(f, T)
  BY <1>1, SumSame
<1>3. SUFFICES ASSUME F # {} PROVE FALSE
  <2>1. T \cup (S \ T) = S
    OBVIOUS
  <2>2. F = {} => SumFunctionOnSet(f, T) <= SumFunctionOnSet(f, T \cup (S \ T))
    OBVIOUS
  <2> QED BY <1>2, <2>1, <2>2
<1>4. F \in SUBSET SUBSET (S \ T)
  OBVIOUS
<1> HIDE DEF F
<1>5. PICK U \in F : \A W \in F : W \subseteq U => W = U
  BY <1>1, <1>3, <1>4, MinimalSubset
<1>6. U \subseteq S \ T /\ ~(SumFunctionOnSet(f, T) <= SumFunctionOnSet(f, T \cup U))
  BY <1>5 DEF F
<1>7. SumFunctionOnSet(f, T) \in Int
  BY <1>1, SumInt
<1>8. U # {}
  <2>1. U = {} => T \cup U = T
    OBVIOUS
  <2> QED BY <1>6, <1>7, <2>1
<1>9. PICK x \in U : TRUE
  BY <1>8
<1>10. (T \cup U) \ {x} = T \cup (U \ {x})
  BY <1>6, <1>9
<1>11. U \ {x} \notin F /\ U \ {x} \in SUBSET (S \ T)
  BY <1>5, <1>6, <1>9
<1>12. SumFunctionOnSet(f, T) <= SumFunctionOnSet(f, T \cup (U \ {x}))
  BY <1>11 DEF F
<1>13. /\ x \in T \cup U /\ IsFiniteSet(T \cup U) /\ IsFiniteSet(T \cup (U \ {x}))
       /\ \A y \in T \cup U : f[y] \in Int /\ f[y] \in Nat
  <2>1. T \cup U \subseteq S /\ T \cup (U \ {x}) \subseteq S
    BY <1>6
  <2> QED BY <1>9, <2>1, FS_Subset
<1>14. SumFunctionOnSet(f, T \cup U) = f[x] + SumFunctionOnSet(f, T \cup (U \ {x}))
  BY <1>10, <1>13, SumWithout
<1>15. SumFunctionOnSet(f, T \cup (U \ {x})) \in Int /\ f[x] \in Nat
  BY <1>13, SumInt
<1> QED BY <1>6, <1>7, <1>12, <1>14, <1>15

(* Larger values have the larger sum. *)
LEMMA SumMonotone ==
  ASSUME NEW S, IsFiniteSet(S), NEW f, NEW h,
         \A x \in S : f[x] \in Int /\ h[x] \in Int /\ f[x] <= h[x]
  PROVE  SumFunctionOnSet(f, S) <= SumFunctionOnSet(h, S)
<1> DEFINE F == {T \in SUBSET S : ~(SumFunctionOnSet(f, T) <= SumFunctionOnSet(h, T))}
<1>1. SUFFICES ASSUME F # {} PROVE FALSE
  OBVIOUS
<1>0. F \in SUBSET SUBSET S
  OBVIOUS
<1> HIDE DEF F
<1>2. PICK T \in F : \A U \in F : U \subseteq T => U = T
  BY <1>0, <1>1, MinimalSubset
<1> USE DEF F
<1>3. IsFiniteSet(T)
  BY FS_Subset
<1>4. CASE T = {}
  BY <1>3, <1>4, SumEquation
<1>5. CASE T # {}
  <2> DEFINE c == Pick(T)
  <2>1. c \in T /\ IsFiniteSet(T \ {c})
    BY <1>3, <1>5, PickIn, FS_Subset
  <2>2. SumFunctionOnSet(f, T \ {c}) <= SumFunctionOnSet(h, T \ {c})
    BY <1>2, <2>1
  <2>3. SumFunctionOnSet(f, T \ {c}) \in Int /\ SumFunctionOnSet(h, T \ {c}) \in Int
    BY <2>1, SumType
  <2>4. /\ SumFunctionOnSet(f, T) = f[c] + SumFunctionOnSet(f, T \ {c})
        /\ SumFunctionOnSet(h, T) = h[c] + SumFunctionOnSet(h, T \ {c})
    BY <1>3, <1>5, SumEquation
  <2>5. f[c] \in Int /\ h[c] \in Int /\ f[c] <= h[c]
    BY <2>1
  <2> HIDE DEF c
  <2> QED BY <2>2, <2>3, <2>4, <2>5
<1> QED BY <1>4, <1>5

-----------------------------------------------------------------------------
(* A finite set of numbers that is not empty has a highest and a lowest.   *)
LEMMA Highest ==
  ASSUME NEW N, IsFiniteSet(N), N # {}
  PROVE  N \subseteq Int => (\E x \in N : \A y \in N : x >= y)
<1> DEFINE F == {T \in SUBSET N : T # {} /\ ~ \E x \in T : \A y \in T : x >= y}
<1>1. F = {} => (N \subseteq Int => (\E x \in N : \A y \in N : x >= y))
  OBVIOUS
<1>0. F \in SUBSET SUBSET N
  OBVIOUS
<1> HIDE DEF F
<1> SUFFICES ASSUME F # {} PROVE N \subseteq Int => FALSE
  BY <1>1
<1>2. PICK T \in F : \A U \in F : U \subseteq T => U = T
  BY <1>0, MinimalSubset
<1> SUFFICES ASSUME N \subseteq Int PROVE FALSE
  OBVIOUS
<1> USE DEF F
<1>3. PICK x \in T : TRUE
  OBVIOUS
<1>4. CASE T = {x}
  BY <1>2, <1>4
<1>5. CASE T # {x}
  <2>1. T \ {x} # {} /\ T \ {x} \notin F /\ T \ {x} \in SUBSET N
    BY <1>2, <1>3, <1>5
  <2>2. PICK m \in T \ {x} : \A y \in T \ {x} : m >= y
    BY <2>1
  <2>3. CASE m >= x
    BY <1>2, <2>2, <2>3
  <2>4. CASE ~(m >= x)
    <3>1. \A y \in T : x >= y
      BY <2>2, <2>4
    <3> QED BY <1>2, <1>3, <3>1
  <2> QED BY <2>3, <2>4
<1> QED BY <1>4, <1>5

(* And a lowest. *)
LEMMA Lowest ==
  ASSUME NEW N, IsFiniteSet(N), N # {}
  PROVE  N \subseteq Int => (\E x \in N : \A y \in N : x <= y)
<1> DEFINE F == {T \in SUBSET N : T # {} /\ ~ \E x \in T : \A y \in T : x <= y}
<1>1. F = {} => (N \subseteq Int => (\E x \in N : \A y \in N : x <= y))
  OBVIOUS
<1>0. F \in SUBSET SUBSET N
  OBVIOUS
<1> HIDE DEF F
<1> SUFFICES ASSUME F # {} PROVE N \subseteq Int => FALSE
  BY <1>1
<1>2. PICK T \in F : \A U \in F : U \subseteq T => U = T
  BY <1>0, MinimalSubset
<1> SUFFICES ASSUME N \subseteq Int PROVE FALSE
  OBVIOUS
<1> USE DEF F
<1>3. PICK x \in T : TRUE
  OBVIOUS
<1>4. CASE T = {x}
  BY <1>2, <1>4
<1>5. CASE T # {x}
  <2>1. T \ {x} # {} /\ T \ {x} \notin F /\ T \ {x} \in SUBSET N
    BY <1>2, <1>3, <1>5
  <2>2. PICK m \in T \ {x} : \A y \in T \ {x} : m <= y
    BY <2>1
  <2>3. CASE m <= x
    BY <1>2, <2>2, <2>3
  <2>4. CASE ~(m <= x)
    <3>1. \A y \in T : x <= y
      BY <2>2, <2>4
    <3> QED BY <1>2, <1>3, <3>1
  <2> QED BY <2>3, <2>4
<1> QED BY <1>4, <1>5

(* Indices are finitely many numbers. *)
LEMMA IndicesFinite ==
  ASSUME NEW n \in Nat, NEW N, N \subseteq 1..n
  PROVE  IsFiniteSet(N) /\ N \subseteq Int
<1>1. IsFiniteSet(1..n)
  BY FS_Interval
<1>2. IsFiniteSet(N)
  BY <1>1, FS_Subset
<1> QED BY <1>2

(* An image is no larger than what it is of. *)
LEMMA ImageBound ==
  ASSUME NEW D, IsFiniteSet(D), NEW f, DOMAIN f = D, NEW T, T = {f[x] : x \in D}
  PROVE  IsFiniteSet(T) /\ Cardinality(T) <= Cardinality(D)
<1>1. [x \in D |-> f[x]] \in Surjection(D, T)
  BY DEF Surjection
<1> QED BY <1>1, FS_Surjection

(* Values sum apart as they sum together. *)
LEMMA SumsAdd ==
  ASSUME NEW D, IsFiniteSet(D), NEW f, NEW g, NEW h,
         \A x \in D : f[x] \in Int /\ g[x] \in Int /\ h[x] = f[x] + g[x]
  PROVE  SumFunctionOnSet(h, D) = SumFunctionOnSet(f, D) + SumFunctionOnSet(g, D)
<1> DEFINE F == {T \in SUBSET D :
              SumFunctionOnSet(h, T) # SumFunctionOnSet(f, T) + SumFunctionOnSet(g, T)}
<1>1. SUFFICES ASSUME F # {} PROVE FALSE
  OBVIOUS
<1>0. F \in SUBSET SUBSET D
  OBVIOUS
<1> HIDE DEF F
<1>2. PICK T \in F : \A U \in F : U \subseteq T => U = T
  BY <1>0, <1>1, MinimalSubset
<1>3. /\ T \subseteq D /\ IsFiniteSet(T)
      /\ SumFunctionOnSet(h, T) # SumFunctionOnSet(f, T) + SumFunctionOnSet(g, T)
  BY <1>2, FS_Subset DEF F
<1>4. T # {}
  BY <1>3, SumEquation
<1>5. PICK x \in T : TRUE
  BY <1>4
<1>6. IsFiniteSet(T \ {x}) /\ T \ {x} \subseteq D /\ T \ {x} # T
  BY <1>3, <1>5, FS_Subset
<1>7. SumFunctionOnSet(h, T \ {x}) = SumFunctionOnSet(f, T \ {x}) + SumFunctionOnSet(g, T \ {x})
  BY <1>2, <1>6 DEF F
<1>8. f[x] \in Int /\ g[x] \in Int /\ h[x] = f[x] + g[x]
  BY <1>3, <1>5
<1>9. /\ SumFunctionOnSet(f, T) = f[x] + SumFunctionOnSet(f, T \ {x})
      /\ SumFunctionOnSet(g, T) = g[x] + SumFunctionOnSet(g, T \ {x})
      /\ SumFunctionOnSet(h, T) = h[x] + SumFunctionOnSet(h, T \ {x})
  <2>1. \A y \in T : f[y] \in Int /\ g[y] \in Int /\ h[y] \in Int
    BY <1>3
  <2> QED BY <1>3, <1>5, <2>1, SumWithout
<1>10. SumFunctionOnSet(f, T \ {x}) \in Int /\ SumFunctionOnSet(g, T \ {x}) \in Int
  BY <1>3, <1>6, SumInt
<1> QED BY <1>3, <1>7, <1>8, <1>9, <1>10

(* Nothing outside a part sums to nothing. *)
LEMMA SumOfPartOnly ==
  ASSUME NEW D, IsFiniteSet(D), NEW T \in SUBSET D, NEW f, NEW h,
         \A x \in T : f[x] \in Int /\ h[x] = f[x], \A x \in D \ T : f[x] = 0
  PROVE  SumFunctionOnSet(h, T) = SumFunctionOnSet(f, D)
<1> DEFINE F == {U \in SUBSET (D \ T) :
                    SumFunctionOnSet(f, T \cup U) # SumFunctionOnSet(f, T)}
<1>1. IsFiniteSet(T) /\ IsFiniteSet(D \ T)
  BY FS_Subset
<1>2. SumFunctionOnSet(h, T) = SumFunctionOnSet(f, T)
  BY <1>1, SumSame
<1>3. SUFFICES ASSUME F # {} PROVE FALSE
  <2>1. T \cup (D \ T) = D /\ D \ T \in SUBSET (D \ T)
    OBVIOUS
  <2>2. F = {} => SumFunctionOnSet(f, T \cup (D \ T)) = SumFunctionOnSet(f, T)
    BY <2>1
  <2> QED BY <1>2, <2>1, <2>2
<1>4. F \in SUBSET SUBSET (D \ T)
  OBVIOUS
<1> HIDE DEF F
<1>5. PICK U \in F : \A W \in F : W \subseteq U => W = U
  BY <1>1, <1>3, <1>4, MinimalSubset
<1>6. U \subseteq D \ T /\ SumFunctionOnSet(f, T \cup U) # SumFunctionOnSet(f, T)
  BY <1>5 DEF F
<1>7. U # {}
  <2>1. U = {} => T \cup U = T
    OBVIOUS
  <2> QED BY <1>6, <2>1
<1>8. PICK x \in U : TRUE
  BY <1>7
<1>9. (T \cup U) \ {x} = T \cup (U \ {x}) /\ U \ {x} \in SUBSET (D \ T) /\ U \ {x} \notin F
  BY <1>5, <1>6, <1>8
<1>10. SumFunctionOnSet(f, T \cup (U \ {x})) = SumFunctionOnSet(f, T)
  BY <1>9 DEF F
<1>11. T \cup U \subseteq D /\ \A y \in T \cup U : f[y] \in Int
  BY <1>6
<1>12. IsFiniteSet(T \cup U)
  BY <1>11, FS_Subset
<1>13. SumFunctionOnSet(f, T \cup U) = f[x] + SumFunctionOnSet(f, (T \cup U) \ {x}) /\ f[x] = 0
  BY <1>6, <1>8, <1>11, <1>12, SumWithout
<1>14. SumFunctionOnSet(f, T) \in Int
  BY <1>1, SumInt
<1>15. SumFunctionOnSet(f, T \cup U) = 0 + SumFunctionOnSet(f, T)
  BY <1>9, <1>10, <1>13
<1> QED BY <1>6, <1>14, <1>15

(* A constant over a set. *)
LEMMA SumConstant ==
  ASSUME NEW D, IsFiniteSet(D), NEW c \in Int, NEW f, \A x \in D : f[x] = c
  PROVE  SumFunctionOnSet(f, D) = c * Cardinality(D)
<1> DEFINE F == {T \in SUBSET D : SumFunctionOnSet(f, T) # c * Cardinality(T)}
<1>1. SUFFICES ASSUME F # {} PROVE FALSE
  OBVIOUS
<1>0. F \in SUBSET SUBSET D
  OBVIOUS
<1> HIDE DEF F
<1>2. PICK T \in F : \A U \in F : U \subseteq T => U = T
  BY <1>0, <1>1, MinimalSubset
<1>3. T \subseteq D /\ IsFiniteSet(T) /\ SumFunctionOnSet(f, T) # c * Cardinality(T)
  BY <1>2, FS_Subset DEF F
<1>4. T # {}
  BY <1>3, SumEquation, FS_EmptySet
<1>5. PICK x \in T : TRUE
  BY <1>4
<1>6. IsFiniteSet(T \ {x}) /\ Cardinality(T \ {x}) = Cardinality(T) - 1 /\ T \ {x} \subseteq D
  BY <1>3, <1>5, FS_RemoveElement
<1>7. SumFunctionOnSet(f, T \ {x}) = c * Cardinality(T \ {x})
  BY <1>2, <1>5, <1>6 DEF F
<1>8. SumFunctionOnSet(f, T) = c + SumFunctionOnSet(f, T \ {x})
  BY <1>3, <1>5, SumWithout
<1>9. Cardinality(T) \in Nat
  BY <1>3, FS_CardinalityType
<1> DEFINE n == Cardinality(T)
<1>10. c + c * (n - 1) = c * n
  BY <1>9
<1> QED BY <1>3, <1>6, <1>7, <1>8, <1>10
=============================================================================
