----------------------------- MODULE SumLemmas -----------------------------
(***************************************************************************)
(* What adds up: facts about the sums, and the products, over finite sets  *)
(* that the models take from the community modules, which fold a set by a  *)
(* recursive function.  The sums exist, for every finite set, by a         *)
(* smallest counterexample, and so are what they should be; sums are added *)
(* up by rows, by columns or in groups, and pairs are counted by them.     *)
(***************************************************************************)
EXTENDS Naturals, FiniteSetsExt, FiniteSetTheorems, WellFoundedInduction, TLAPS

(* The element a sum takes next.                                           *)
Taken(s) == CHOOSE x \in s : TRUE

(* iter is the sum of W over every subset of S.                            *)
Sums(iter, W, S) ==
    iter = [s \in SUBSET S |-> IF s = {} THEN 0 ELSE W[Taken(s)] + iter[s \ {Taken(s)}]]

(* The sum of W over S, as the models write it.                            *)
Sum(W, S) == MapThenSumSet(LAMBDA s : W[s], S)

(* Of finite sets there is a smallest one.                                 *)
LEMMA Smallest ==
    ASSUME NEW S, IsFiniteSet(S), NEW Bad \in SUBSET SUBSET S, Bad # {}
    PROVE  \E T \in Bad : \A U \in SUBSET T : U # T => U \notin Bad
<1>1. IsWellFoundedOn(StrictSubsetOrdering(S), SUBSET S)
  BY FS_StrictSubsetOrderingWellFounded, FS_FiniteSubsetsOfFinite
<1>2. PICK T \in Bad : \A U \in Bad : <<U, T>> \notin StrictSubsetOrdering(S)
  BY <1>1, WFMin
<1>3. ASSUME NEW U \in SUBSET T, U # T, U \in Bad PROVE FALSE
  <2>1. <<U, T>> \in StrictSubsetOrdering(S)
    BY <1>3 DEF StrictSubsetOrdering
  <2> QED
    BY <1>2, <1>3, <2>1
<1> QED
  BY <1>3

(* Of finitely many things in an order one comes before the others.        *)
LEMMA FirstOfAll ==
    ASSUME NEW T, IsFiniteSet(T), T # {}, NEW R,
           \A u \in T : <<u, u>> \notin R,
           \A u, v \in T : u # v => <<u, v>> \in R \/ <<v, u>> \in R,
           \A u, v, w \in T : <<u, v>> \in R /\ <<v, w>> \in R => <<u, w>> \in R
    PROVE  \E v \in T : \A u \in T \ {v} : <<v, u>> \in R
<1> DEFINE Before(v) == {u \in T : <<u, v>> \in R}
           Bad == {Before(v) : v \in T}
<1>1. PICK B \in Bad : \A U \in SUBSET B : U # B => U \notin Bad
  <2>1. \A v \in T : Before(v) \in SUBSET T
    OBVIOUS
  <2>2. Bad \in SUBSET SUBSET T
    <3> HIDE DEF Before
    <3> QED
      BY <2>1
  <2>3. Bad # {}
    <3> HIDE DEF Before
    <3> QED
      OBVIOUS
  <2> HIDE DEF Bad
  <2> QED
    BY <2>2, <2>3, Smallest
<1>2. PICK v \in T : B = Before(v)
  BY <1>1
<1>3. ASSUME NEW u \in Before(v) PROVE FALSE
  <2>1. u \in T /\ Before(u) \in SUBSET Before(v) /\ u \notin Before(u)
    BY <1>3
  <2>2. Before(u) \in Bad
    BY <2>1
  <2> HIDE DEF Before, Bad
  <2> QED
    BY <1>1, <1>2, <1>3, <2>1, <2>2
<1> QED
  BY <1>3

(* Taking an element leaves a smaller set.                                 *)
LEMMA TakenIsIn ==
    ASSUME NEW s, s # {}
    PROVE  Taken(s) \in s /\ s \ {Taken(s)} \in SUBSET s /\ s \ {Taken(s)} # s
  BY DEF Taken

(* What a sum says of one subset.                                          *)
LEMMA SumsAt ==
    ASSUME NEW W, NEW S, NEW iter, Sums(iter, W, S), NEW s \in SUBSET S
    PROVE  iter[s] = IF s = {} THEN 0 ELSE W[Taken(s)] + iter[s \ {Taken(s)}]
  BY DEF Sums

(* Two sums of a set and of one around it agree on the smaller one.        *)
LEMMA SumsAgree ==
    ASSUME NEW W, NEW S, IsFiniteSet(S), NEW T, S \subseteq T, NEW f, NEW g, Sums(f, W, S), Sums(g, W, T)
    PROVE  \A s \in SUBSET S : f[s] = g[s]
<1> DEFINE Bad == {s \in SUBSET S : f[s] # g[s]}
<1>1. SUFFICES ASSUME Bad # {} PROVE FALSE
  OBVIOUS
<1>2. PICK s \in Bad : \A u \in SUBSET s : u # s => u \notin Bad
  <2>1. Bad \in SUBSET SUBSET S
    OBVIOUS
  <2> HIDE DEF Bad
  <2> QED
    BY <1>1, <2>1, Smallest
<1>3. s \in SUBSET S /\ s \in SUBSET T /\ f[s] # g[s]
  BY <1>2
<1>4. f[s] = IF s = {} THEN 0 ELSE W[Taken(s)] + f[s \ {Taken(s)}]
  BY <1>3, SumsAt
<1>5. g[s] = IF s = {} THEN 0 ELSE W[Taken(s)] + g[s \ {Taken(s)}]
  BY <1>3, SumsAt
<1>6. s # {}
  BY <1>3, <1>4, <1>5
<1>7. f[s \ {Taken(s)}] = g[s \ {Taken(s)}]
  <2>1. s \ {Taken(s)} \in SUBSET s /\ s \ {Taken(s)} # s
    BY <1>6, TakenIsIn
  <2>2. s \ {Taken(s)} \notin Bad
    BY <1>2, <2>1
  <2> QED
    BY <1>3, <2>1, <2>2
<1> QED
  BY <1>3, <1>4, <1>5, <1>6, <1>7

(* Every finite set has a sum.                                             *)
LEMMA SumsExist ==
    ASSUME NEW W, NEW S, IsFiniteSet(S)
    PROVE  \E iter : Sums(iter, W, S)
<1> DEFINE Bad == {T \in SUBSET S : ~\E iter : Sums(iter, W, T)}
<1>1. SUFFICES ASSUME Bad # {} PROVE FALSE
  OBVIOUS
<1>2. PICK T \in Bad : \A U \in SUBSET T : U # T => U \notin Bad
  BY <1>1, Smallest
<1>3. T \in SUBSET S /\ IsFiniteSet(T) /\ ~\E iter : Sums(iter, W, T)
  BY <1>2, FS_Subset
<1>4. ASSUME NEW U \in SUBSET T, U # T PROVE \E iter : Sums(iter, W, U)
  BY <1>2, <1>3, <1>4
<1> DEFINE part == [U \in SUBSET T |-> CHOOSE iter : Sums(iter, W, U)]
           value == [U \in SUBSET T |-> IF U = {} THEN 0
                                        ELSE W[Taken(U)] + part[U \ {Taken(U)}][U \ {Taken(U)}]]
<1>5. ASSUME NEW U \in SUBSET T, U # T PROVE Sums(part[U], W, U)
  BY <1>4, <1>5
<1>6. ASSUME NEW U \in SUBSET T, U # T PROVE value[U] = part[U][U]
  <2>1. part[U][U] = IF U = {} THEN 0 ELSE W[Taken(U)] + part[U][U \ {Taken(U)}]
    <3>1. Sums(part[U], W, U) /\ U \in SUBSET U
      BY <1>5, <1>6
    <3> HIDE DEF part
    <3> QED
      BY <3>1, SumsAt
  <2>2. CASE U = {}
    BY <2>1, <2>2
  <2>3. CASE U # {}
    <3> DEFINE rest == U \ {Taken(U)}
    <3>1. rest \in SUBSET U /\ rest \in SUBSET T /\ rest # T /\ IsFiniteSet(rest)
      BY <2>3, <1>3, <1>6, TakenIsIn, FS_Subset
    <3>2. Sums(part[rest], W, rest) /\ Sums(part[U], W, U)
      BY <1>5, <1>6, <3>1
    <3> HIDE DEF part
    <3>3. part[rest][rest] = part[U][rest]
      BY <3>1, <3>2, SumsAgree
    <3> QED
      BY <2>1, <2>3, <3>3
  <2> QED
    BY <2>2, <2>3
<1>7. ASSUME NEW U \in SUBSET T, U # {} PROVE value[U] = W[Taken(U)] + value[U \ {Taken(U)}]
  <2> DEFINE rest == U \ {Taken(U)}
  <2>1. rest \in SUBSET T /\ rest # T
    BY <1>7, TakenIsIn
  <2>2. value[rest] = part[rest][rest]
    BY <1>6, <2>1
  <2>3. value[U] = W[Taken(U)] + part[rest][rest]
    BY <1>7
  <2> HIDE DEF value, part
  <2> QED
    BY <2>2, <2>3
<1>8. value[{}] = 0
  OBVIOUS
<1>9. value = [U \in SUBSET T |-> value[U]]
  OBVIOUS
<1> HIDE DEF value, part
<1>10. Sums(value, W, T)
  BY <1>7, <1>8, <1>9 DEF Sums
<1> QED
  BY <1>3, <1>10

(* The fold is the sum.                                                    *)
LEMMA FoldIsSum ==
    ASSUME NEW W, NEW S, IsFiniteSet(S)
    PROVE  \E iter : Sums(iter, W, S) /\ Sum(W, S) = iter[S]
<1>1. \E f : /\ f = CHOOSE iter : Sums(iter, W, S)
             /\ Sum(W, S) = f[S]
  BY DEF Sum, MapThenSumSet, MapThenFoldSet, Sums, Taken
<1> QED
  BY <1>1, SumsExist

(* The empty sum.                                                          *)
LEMMA SumOfNone == ASSUME NEW W PROVE Sum(W, {}) = 0
  BY FoldIsSum, FS_EmptySet, SumsAt

(* A sum of naturals is one.                                               *)
LEMMA SumIsNat ==
    ASSUME NEW S, IsFiniteSet(S), NEW W, \A s \in S : W[s] \in Nat
    PROVE  Sum(W, S) \in Nat
<1>1. PICK f : Sums(f, W, S) /\ Sum(W, S) = f[S]
  BY FoldIsSum
<1> DEFINE Bad == {s \in SUBSET S : f[s] \notin Nat}
<1>2. SUFFICES ASSUME Bad # {} PROVE FALSE
  BY <1>1
<1>3. PICK s \in Bad : \A u \in SUBSET s : u # s => u \notin Bad
  <2>1. Bad \in SUBSET SUBSET S
    OBVIOUS
  <2> HIDE DEF Bad
  <2> QED
    BY <1>2, <2>1, Smallest
<1>4. f[s] = IF s = {} THEN 0 ELSE W[Taken(s)] + f[s \ {Taken(s)}]
  BY <1>1, <1>3, SumsAt
<1>5. s # {}
  BY <1>3, <1>4
<1>6. Taken(s) \in S /\ f[s \ {Taken(s)}] \in Nat
  BY <1>3, <1>5, TakenIsIn
<1> QED
  BY <1>3, <1>4, <1>5, <1>6

-----------------------------------------------------------------------------
(* What holds of the empty set and of a set with one element more, holds   *)
(* of every finite set: Good are the subsets it holds of.                  *)
LEMMA OneByOne ==
    ASSUME NEW S, IsFiniteSet(S), NEW Good, {} \in Good,
           \A T \in SUBSET S : \A x \in S \ T : T \in Good => T \cup {x} \in Good
    PROVE  S \in Good
<1> DEFINE Bad == {T \in SUBSET S : T \notin Good}
<1>1. SUFFICES ASSUME Bad # {} PROVE FALSE
  OBVIOUS
<1>2. PICK T \in Bad : \A U \in SUBSET T : U # T => U \notin Bad
  <2>1. Bad \in SUBSET SUBSET S
    OBVIOUS
  <2> HIDE DEF Bad
  <2> QED
    BY <1>1, <2>1, Smallest
<1>3. PICK x \in T : TRUE
  <2>1. T \notin Good
    BY <1>2
  <2> QED
    BY <2>1
<1>4. T \ {x} \in SUBSET T /\ T \ {x} # T /\ T \ {x} \in SUBSET S /\ x \in S \ (T \ {x})
  BY <1>2, <1>3
<1>5. T \ {x} \in Good
  BY <1>2, <1>4
<1>6. (T \ {x}) \cup {x} = T
  BY <1>3
<1> QED
  BY <1>2, <1>4, <1>5, <1>6

(* The community modules' sum of a function is the sum over its domain.    *)
LEMMA SumFunctionIs == ASSUME NEW f PROVE SumFunction(f) = Sum(f, DOMAIN f)
  BY DEF SumFunction, SumFunctionOnSet, FoldFunctionOnSet, Sum, MapThenSumSet

(* And so over a set.                                                      *)
LEMMA SumOnSetIs == ASSUME NEW f, NEW S PROVE SumFunctionOnSet(f, S) = Sum(f, S)
  BY DEF SumFunctionOnSet, FoldFunctionOnSet, Sum, MapThenSumSet

(* A sum takes one element after the other,                                *)
LEMMA SumTakes ==
    ASSUME NEW S, IsFiniteSet(S), S # {}, NEW W
    PROVE  Sum(W, S) = W[Taken(S)] + Sum(W, S \ {Taken(S)})
<1> DEFINE rest == S \ {Taken(S)}
<1>1. PICK f : Sums(f, W, S) /\ Sum(W, S) = f[S]
  BY FoldIsSum
<1>2. IsFiniteSet(rest) /\ rest \in SUBSET S /\ rest \subseteq S /\ rest \in SUBSET rest
  BY FS_Subset
<1>3. PICK g : Sums(g, W, rest) /\ Sum(W, rest) = g[rest]
  BY <1>2, FoldIsSum
<1>4. f[S] = W[Taken(S)] + f[rest]
  BY <1>1, SumsAt
<1> HIDE DEF rest
<1>5. g[rest] = f[rest]
  <2>1. \A s \in SUBSET rest : g[s] = f[s]
    BY <1>1, <1>2, <1>3, SumsAgree
  <2> QED
    BY <1>2, <2>1
<1> QED
  BY <1>1, <1>3, <1>4, <1>5 DEF rest

(* of integers is an integer,                                              *)
LEMMA SumIsInt ==
    ASSUME NEW S, IsFiniteSet(S), NEW W, \A s \in S : W[s] \in Int
    PROVE  Sum(W, S) \in Int
<1> DEFINE Bad == {T \in SUBSET S : Sum(W, T) \notin Int}
<1>1. SUFFICES ASSUME Bad # {} PROVE FALSE
  OBVIOUS
<1>2. PICK T \in Bad : \A U \in SUBSET T : U # T => U \notin Bad
  <2>1. Bad \in SUBSET SUBSET S
    OBVIOUS
  <2> HIDE DEF Bad
  <2> QED
    BY <1>1, <2>1, Smallest
<1>3. T \in SUBSET S /\ IsFiniteSet(T) /\ Sum(W, T) \notin Int
  BY <1>2, FS_Subset
<1>4. T # {}
  BY <1>3, SumOfNone
<1>5. Taken(T) \in T /\ T \ {Taken(T)} \in SUBSET T /\ T \ {Taken(T)} # T
  BY <1>4, TakenIsIn
<1>6. Sum(W, T \ {Taken(T)}) \in Int
  BY <1>2, <1>3, <1>5
<1> QED
  BY <1>3, <1>4, <1>5, <1>6, SumTakes

(* and takes them in any order.                                            *)
LEMMA SumTakesAny ==
    ASSUME NEW S, IsFiniteSet(S), NEW W, \A s \in S : W[s] \in Int, NEW x \in S
    PROVE  Sum(W, S) = W[x] + Sum(W, S \ {x})
<1> DEFINE Bad == {T \in SUBSET S : ~\A y \in T : Sum(W, T) = W[y] + Sum(W, T \ {y})}
<1>1. SUFFICES ASSUME Bad # {} PROVE FALSE
  OBVIOUS
<1>2. PICK T \in Bad : \A U \in SUBSET T : U # T => U \notin Bad
  <2>1. Bad \in SUBSET SUBSET S
    OBVIOUS
  <2> HIDE DEF Bad
  <2> QED
    BY <1>1, <2>1, Smallest
<1>3. PICK y \in T : Sum(W, T) # W[y] + Sum(W, T \ {y})
  BY <1>2
<1> DEFINE t == Taken(T)
<1>4. T \in SUBSET S /\ IsFiniteSet(T) /\ T # {}
  BY <1>2, <1>3, FS_Subset
<1>5. t \in T /\ Sum(W, T) = W[t] + Sum(W, T \ {t})
  BY <1>4, TakenIsIn, SumTakes
<1> HIDE DEF t
<1>6. t # y
  BY <1>3, <1>5
<1>7. Sum(W, T \ {t}) = W[y] + Sum(W, (T \ {t}) \ {y})
  <2>1. T \ {t} \in SUBSET T /\ T \ {t} # T /\ T \ {t} \in SUBSET S /\ y \in T \ {t}
    BY <1>3, <1>4, <1>5, <1>6
  <2> QED
    BY <1>2, <2>1
<1>8. Sum(W, T \ {y}) = W[t] + Sum(W, (T \ {y}) \ {t})
  <2>1. T \ {y} \in SUBSET T /\ T \ {y} # T /\ T \ {y} \in SUBSET S /\ t \in T \ {y}
    BY <1>3, <1>4, <1>5, <1>6
  <2> QED
    BY <1>2, <2>1
<1>9. (T \ {y}) \ {t} = (T \ {t}) \ {y}
  OBVIOUS
<1> DEFINE rest == (T \ {t}) \ {y}
<1>10. Sum(W, rest) \in Int /\ W[t] \in Int /\ W[y] \in Int
  <2>1. IsFiniteSet(rest) /\ \A s \in rest : W[s] \in Int
    BY <1>4, FS_Subset
  <2> HIDE DEF rest
  <2> QED
    BY <1>3, <1>4, <1>5, <2>1, SumIsInt
<1>11. Sum(W, T \ {t}) = W[y] + Sum(W, rest) /\ Sum(W, T \ {y}) = W[t] + Sum(W, rest)
  BY <1>7, <1>8, <1>9
<1> HIDE DEF rest
<1> QED
  BY <1>3, <1>5, <1>10, <1>11

(* One element more adds its weight.                                       *)
LEMMA SumAddsElement ==
    ASSUME NEW S, IsFiniteSet(S), NEW W, \A s \in S : W[s] \in Int, NEW x, x \notin S, W[x] \in Int
    PROVE  Sum(W, S \cup {x}) = W[x] + Sum(W, S)
<1>1. IsFiniteSet(S \cup {x}) /\ x \in S \cup {x} /\ \A s \in S \cup {x} : W[s] \in Int
  BY FS_AddElement
<1>2. (S \cup {x}) \ {x} = S
  OBVIOUS
<1> QED
  BY <1>1, <1>2, SumTakesAny

(* Weights that are the same have the same sum.                            *)
LEMMA SumSame ==
    ASSUME NEW S, IsFiniteSet(S), NEW V, NEW W, \A s \in S : V[s] = W[s] /\ W[s] \in Int
    PROVE  Sum(V, S) = Sum(W, S)
<1> DEFINE Good == {T \in SUBSET S : Sum(V, T) = Sum(W, T)}
<1>1. {} \in Good
  BY SumOfNone
<1>2. ASSUME NEW T \in SUBSET S, NEW x \in S \ T, T \in Good PROVE T \cup {x} \in Good
  <2>1. Sum(V, T \cup {x}) = V[x] + Sum(V, T) /\ Sum(W, T \cup {x}) = W[x] + Sum(W, T)
    BY <1>2, FS_Subset, SumAddsElement
  <2> QED
    BY <1>2, <2>1
<1> HIDE DEF Good
<1>3. S \in Good
  BY <1>1, <1>2, OneByOne
<1> QED
  BY <1>3 DEF Good

(* Sums of the same set add up,                                            *)
LEMMA SumAdd ==
    ASSUME NEW S, IsFiniteSet(S), NEW U, NEW V, NEW W,
           \A s \in S : U[s] = V[s] + W[s] /\ V[s] \in Int /\ W[s] \in Int
    PROVE  Sum(U, S) = Sum(V, S) + Sum(W, S)
<1> DEFINE Good == {T \in SUBSET S : Sum(U, T) = Sum(V, T) + Sum(W, T)}
<1>1. {} \in Good
  BY SumOfNone
<1>2. ASSUME NEW T \in SUBSET S, NEW x \in S \ T, T \in Good PROVE T \cup {x} \in Good
  <2>1. IsFiniteSet(T) /\ U[x] = V[x] + W[x] /\ U[x] \in Int /\ V[x] \in Int /\ W[x] \in Int
    BY FS_Subset
  <2>2. Sum(V, T) \in Int /\ Sum(W, T) \in Int
    BY <2>1, SumIsInt
  <2>3. /\ Sum(U, T \cup {x}) = U[x] + Sum(U, T)
        /\ Sum(V, T \cup {x}) = V[x] + Sum(V, T)
        /\ Sum(W, T \cup {x}) = W[x] + Sum(W, T)
    BY <2>1, SumAddsElement
  <2> QED
    BY <1>2, <2>1, <2>2, <2>3
<1> HIDE DEF Good
<1>3. S \in Good
  BY <1>1, <1>2, OneByOne
<1> QED
  BY <1>3 DEF Good

(* (an integer times a sum)                                                *)
LEMMA TimesSum == ASSUME NEW k \in Int, NEW a \in Int, NEW b \in Int PROVE k * (a + b) = k * a + k * b
  OBVIOUS

(* a factor comes out of a sum,                                            *)
LEMMA SumScale ==
    ASSUME NEW S, IsFiniteSet(S), NEW k \in Int, NEW V, NEW W, \A s \in S : V[s] = k * W[s] /\ W[s] \in Int
    PROVE  Sum(V, S) = k * Sum(W, S)
<1> DEFINE Good == {T \in SUBSET S : Sum(V, T) = k * Sum(W, T)}
<1>1. {} \in Good
  BY SumOfNone
<1>2. ASSUME NEW T \in SUBSET S, NEW x \in S \ T, T \in Good PROVE T \cup {x} \in Good
  <2>1. IsFiniteSet(T) /\ V[x] = k * W[x] /\ V[x] \in Int /\ W[x] \in Int
    BY FS_Subset
  <2>2. Sum(W, T) \in Int
    BY <2>1, SumIsInt
  <2>3. /\ Sum(V, T \cup {x}) = V[x] + Sum(V, T)
        /\ Sum(W, T \cup {x}) = W[x] + Sum(W, T)
    BY <2>1, SumAddsElement
  <2>4. k * (W[x] + Sum(W, T)) = k * W[x] + k * Sum(W, T)
    BY <2>1, <2>2, TimesSum
  <2> QED
    BY <1>2, <2>1, <2>3, <2>4
<1> HIDE DEF Good
<1>3. S \in Good
  BY <1>1, <1>2, OneByOne
<1> QED
  BY <1>3 DEF Good

(* and a sum of one number is that many times it.                          *)
LEMMA SumOfOne ==
    ASSUME NEW S, IsFiniteSet(S), NEW k \in Int, NEW W, \A s \in S : W[s] = k
    PROVE  Sum(W, S) = k * Cardinality(S)
<1> DEFINE Good == {T \in SUBSET S : Sum(W, T) = k * Cardinality(T)}
<1>1. {} \in Good
  BY SumOfNone, FS_EmptySet
<1>2. ASSUME NEW T \in SUBSET S, NEW x \in S \ T, T \in Good PROVE T \cup {x} \in Good
  <2>1. IsFiniteSet(T) /\ W[x] = k /\ Cardinality(T) \in Int /\ Cardinality(T \cup {x}) = Cardinality(T) + 1
    BY FS_Subset, FS_AddElement, FS_CardinalityType
  <2>2. Sum(W, T \cup {x}) = k + Sum(W, T)
    BY <2>1, SumAddsElement
  <2>3. k * (Cardinality(T) + 1) = k * Cardinality(T) + k
    BY <2>1, TimesSum
  <2>4. k * Cardinality(T) \in Int
    BY <2>1
  <2> QED
    BY <1>2, <2>1, <2>2, <2>3, <2>4
<1> HIDE DEF Good
<1>3. S \in Good
  BY <1>1, <1>2, OneByOne
<1> QED
  BY <1>3 DEF Good

(* One weight alone.                                                       *)
LEMMA SumOfSingle == ASSUME NEW x, NEW W, W[x] \in Int PROVE Sum(W, {x}) = W[x]
<1>1. IsFiniteSet({}) /\ {} \cup {x} = {x}
  BY FS_EmptySet
<1>2. Sum(W, {} \cup {x}) = W[x] + Sum(W, {})
  BY <1>1, SumAddsElement
<1> QED
  BY <1>1, <1>2, SumOfNone

(* The sums of two sets that do not meet add up to that of both.           *)
LEMMA SumOfUnion ==
    ASSUME NEW S, IsFiniteSet(S), NEW T, IsFiniteSet(T), S \cap T = {}, NEW W, \A s \in S \cup T : W[s] \in Int
    PROVE  Sum(W, S \cup T) = Sum(W, S) + Sum(W, T)
<1> DEFINE Good == {U \in SUBSET T : Sum(W, S \cup U) = Sum(W, S) + Sum(W, U)}
<1>1. {} \in Good
  <2>1. S \cup {} = S /\ Sum(W, S) \in Int
    BY SumIsInt
  <2> QED
    BY <2>1, SumOfNone
<1>2. ASSUME NEW U \in SUBSET T, NEW x \in T \ U, U \in Good PROVE U \cup {x} \in Good
  <2>1. IsFiniteSet(U) /\ IsFiniteSet(S \cup U) /\ S \cup (U \cup {x}) = (S \cup U) \cup {x} /\ x \notin S \cup U
    BY FS_Subset, FS_Union
  <2>2. Sum(W, U) \in Int /\ Sum(W, S) \in Int /\ W[x] \in Int
    BY <2>1, SumIsInt
  <2>3. Sum(W, U \cup {x}) = W[x] + Sum(W, U)
    BY <2>1, SumAddsElement
  <2>4. Sum(W, (S \cup U) \cup {x}) = W[x] + Sum(W, S \cup U)
    BY <2>1, <2>2, SumAddsElement
  <2>5. Sum(W, S \cup U) = Sum(W, S) + Sum(W, U)
    BY <1>2
  <2>6. Sum(W, S \cup (U \cup {x})) = Sum(W, S) + Sum(W, U \cup {x})
    <3> DEFINE both == S \cup (U \cup {x})
               more == U \cup {x}
               old == S \cup U
    <3>1. Sum(W, both) = W[x] + Sum(W, old)
      BY <2>1, <2>4, Zenon
    <3>2. Sum(W, more) = W[x] + Sum(W, U) /\ Sum(W, old) = Sum(W, S) + Sum(W, U)
      BY <2>3, <2>5
    <3>3. W[x] \in Int /\ Sum(W, U) \in Int /\ Sum(W, S) \in Int
      BY <2>2
    <3> HIDE DEF both, more, old
    <3>4. Sum(W, both) = Sum(W, S) + Sum(W, more)
      BY <3>1, <3>2, <3>3
    <3> QED
      BY <3>4 DEF both, more
  <2> QED
    BY <2>6
<1> HIDE DEF Good
<1>3. T \in Good
  BY <1>1, <1>2, OneByOne
<1> QED
  BY <1>3 DEF Good

(* What weighs nothing may be left out.                                    *)
LEMMA SumOfPart ==
    ASSUME NEW S, IsFiniteSet(S), NEW T \in SUBSET S, NEW W, \A s \in T : W[s] \in Int, \A s \in S \ T : W[s] = 0
    PROVE  Sum(W, S) = Sum(W, T)
<1>1. IsFiniteSet(T) /\ IsFiniteSet(S \ T) /\ T \cap (S \ T) = {} /\ T \cup (S \ T) = S /\ \A s \in S : W[s] \in Int
  BY FS_Subset
<1>2. Sum(W, T \cup (S \ T)) = Sum(W, T) + Sum(W, S \ T)
  BY <1>1, SumOfUnion
<1>3. Sum(W, S \ T) = 0 * Cardinality(S \ T)
  BY <1>1, SumOfOne
<1>4. Cardinality(S \ T) \in Nat /\ Sum(W, T) \in Int
  BY <1>1, FS_CardinalityType, SumIsInt
<1>5. Sum(W, S) = Sum(W, T) + Sum(W, S \ T)
  BY <1>1, <1>2
<1>6. Sum(W, S \ T) = 0
  BY <1>3, <1>4
<1> QED
  BY <1>4, <1>5, <1>6

(* The sum of the rows of a table, each added up,                          *)
Twice(M, S, T) == Sum([s \in S |-> Sum(M[s], T)], S)
Turned(M, S, T) == [t \in T |-> [s \in S |-> M[s][t]]]

(* is that of its columns.                                                 *)
LEMMA Interchange ==
    ASSUME NEW S, IsFiniteSet(S), NEW T, IsFiniteSet(T), NEW M, \A s \in S, t \in T : M[s][t] \in Int
    PROVE  Twice(M, S, T) = Twice(Turned(M, S, T), T, S)
<1> DEFINE rows == [s \in S |-> Sum(M[s], T)]
           cols(U) == [t \in T |-> Sum(Turned(M, S, T)[t], U)]
           Good == {U \in SUBSET S : Sum(rows, U) = Sum(cols(U), T)}
<1>0. \A s \in S : rows[s] \in Int
  BY SumIsInt
<1>1. {} \in Good
  <2>1. \A t \in T : cols({})[t] = 0
    BY SumOfNone
  <2>2. Sum(cols({}), T) = 0 * Cardinality(T)
    <3> HIDE DEF cols
    <3> QED
      BY <2>1, SumOfOne
  <2>3. Cardinality(T) \in Nat
    BY FS_CardinalityType
  <2> HIDE DEF cols, rows
  <2> QED
    BY <2>2, <2>3, SumOfNone
<1>2. ASSUME NEW U \in SUBSET S, NEW x \in S \ U, U \in Good PROVE U \cup {x} \in Good
  <2>1. IsFiniteSet(U)
    BY FS_Subset
  <2>2. ASSUME NEW t \in T
        PROVE  cols(U \cup {x})[t] = M[x][t] + cols(U)[t] /\ M[x][t] \in Int /\ cols(U)[t] \in Int
    <3> DEFINE col == Turned(M, S, T)[t]
    <3>1. \A s \in S : col[s] = M[s][t] /\ col[s] \in Int
      BY DEF Turned
    <3>2. cols(U \cup {x})[t] = Sum(col, U \cup {x}) /\ cols(U)[t] = Sum(col, U)
      OBVIOUS
    <3> HIDE DEF col, cols
    <3>3. Sum(col, U \cup {x}) = col[x] + Sum(col, U) /\ Sum(col, U) \in Int
      BY <2>1, <3>1, SumAddsElement, SumIsInt
    <3> QED
      BY <3>1, <3>2, <3>3
  <2>3. Sum(rows, U \cup {x}) = rows[x] + Sum(rows, U)
    <3> HIDE DEF rows
    <3> QED
      BY <1>0, <2>1, SumAddsElement
  <2>4. rows[x] = Sum(M[x], T)
    OBVIOUS
  <2> HIDE DEF cols, rows
  <2>5. Sum(cols(U \cup {x}), T) = Sum(M[x], T) + Sum(cols(U), T)
    <3> DEFINE now == cols(U \cup {x})
               was == cols(U)
               row == M[x]
    <3>1. \A t \in T : now[t] = row[t] + was[t] /\ row[t] \in Int /\ was[t] \in Int
      BY <2>2
    <3> HIDE DEF now, was, row
    <3>2. Sum(now, T) = Sum(row, T) + Sum(was, T)
      BY <3>1, SumAdd
    <3> QED
      BY <3>2 DEF now, was, row
  <2> QED
    BY <1>2, <2>3, <2>4, <2>5
<1>3. S \in Good
  <2> HIDE DEF Good
  <2> QED
    BY <1>1, <1>2, OneByOne
<1>4. Twice(M, S, T) = Sum(rows, S) /\ Twice(Turned(M, S, T), T, S) = Sum(cols(S), T)
  BY DEF Twice
<1> QED
  BY <1>3, <1>4

(* Those of S that f takes to k.                                           *)
Fiber(f, S, k) == {s \in S : f[s] = k}

(* A set can be added up in groups, one for each value of a key.           *)
LEMMA Regroup ==
    ASSUME NEW S, IsFiniteSet(S), NEW K, IsFiniteSet(K), NEW f, \A s \in S : f[s] \in K,
           NEW W, \A s \in S : W[s] \in Int
    PROVE  Sum(W, S) = Sum([k \in K |-> Sum(W, Fiber(f, S, k))], K)
<1> DEFINE groups(U) == [k \in K |-> Sum(W, Fiber(f, U, k))]
           Good == {U \in SUBSET S : Sum(W, U) = Sum(groups(U), K)}
<1>0. \A U \in SUBSET S : \A k \in K : groups(U)[k] = Sum(W, Fiber(f, U, k)) /\ groups(U)[k] \in Int
  <2>1. \A U \in SUBSET S, k \in K : IsFiniteSet(Fiber(f, U, k)) /\ \A s \in Fiber(f, U, k) : W[s] \in Int
    BY FS_Subset DEF Fiber
  <2> QED
    BY <2>1, SumIsInt
<1> HIDE DEF groups
<1>1. {} \in Good
  <2>1. \A k \in K : groups({})[k] = 0
    BY <1>0, SumOfNone DEF Fiber
  <2>2. Sum(groups({}), K) = 0 * Cardinality(K)
    BY <2>1, SumOfOne
  <2> QED
    BY <2>2, FS_CardinalityType, SumOfNone
<1>2. ASSUME NEW U \in SUBSET S, NEW x \in S \ U, U \in Good PROVE U \cup {x} \in Good
  <2> DEFINE now == groups(U \cup {x})
             was == groups(U)
             h == f[x]
             rest == K \ {h}
  <2>1. IsFiniteSet(U) /\ U \cup {x} \in SUBSET S /\ h \in K /\ IsFiniteSet(rest) /\ W[x] \in Int
    BY FS_Subset
  <2>2. \A k \in K : was[k] \in Int /\ now[k] \in Int
    BY <1>0, <2>1
  <2>3. \A k \in rest : now[k] = was[k]
    <3>1. \A k \in rest : Fiber(f, U \cup {x}, k) = Fiber(f, U, k)
      BY DEF Fiber
    <3> QED
      BY <1>0, <2>1, <3>1
  <2>4. now[h] = W[x] + was[h]
    <3>1. Fiber(f, U \cup {x}, h) = Fiber(f, U, h) \cup {x} /\ IsFiniteSet(Fiber(f, U, h)) /\ x \notin Fiber(f, U, h)
          /\ \A s \in Fiber(f, U, h) : W[s] \in Int
      BY <2>1, FS_Subset DEF Fiber
    <3>2. Sum(W, Fiber(f, U, h) \cup {x}) = W[x] + Sum(W, Fiber(f, U, h))
      <4> HIDE DEF h
      <4> QED
        BY <2>1, <3>1, SumAddsElement
    <3> QED
      BY <1>0, <2>1, <3>1, <3>2
  <2> HIDE DEF now, was, rest, h
  <2>5. Sum(now, rest) = Sum(was, rest) /\ Sum(was, rest) \in Int
    <3>1. \A k \in rest : now[k] = was[k] /\ was[k] \in Int
      BY <2>2, <2>3 DEF rest
    <3> QED
      BY <2>1, <3>1, SumSame, SumIsInt
  <2>6. Sum(now, K) = now[h] + Sum(now, rest) /\ Sum(was, K) = was[h] + Sum(was, rest)
    BY <2>1, <2>2, SumTakesAny DEF rest
  <2>7. Sum(W, U \cup {x}) = W[x] + Sum(W, U)
    BY <2>1, SumAddsElement
  <2>8. Sum(W, U) = Sum(was, K)
    BY <1>2 DEF was
  <2>9. Sum(W, U \cup {x}) = Sum(now, K)
    BY <2>1, <2>2, <2>4, <2>5, <2>6, <2>7, <2>8
  <2> QED
    BY <2>1, <2>9 DEF now
<1>3. S \in Good
  <2> HIDE DEF Good
  <2> QED
    BY <1>1, <1>2, OneByOne
<1> QED
  BY <1>3 DEF groups

(* A set has as many elements as its groups together,                      *)
LEMMA CountByKey ==
    ASSUME NEW S, IsFiniteSet(S), NEW K, IsFiniteSet(K), NEW f, \A s \in S : f[s] \in K
    PROVE  Cardinality(S) = Sum([k \in K |-> Cardinality(Fiber(f, S, k))], K)
<1> DEFINE one == [s \in S |-> 1]
           sums == [k \in K |-> Sum(one, Fiber(f, S, k))]
           sizes == [k \in K |-> Cardinality(Fiber(f, S, k))]
<1>1. \A s \in S : one[s] = 1
  OBVIOUS
<1>2. \A k \in K : sums[k] = Sum(one, Fiber(f, S, k)) /\ sizes[k] = Cardinality(Fiber(f, S, k))
  OBVIOUS
<1>3. \A k \in K : IsFiniteSet(Fiber(f, S, k)) /\ Fiber(f, S, k) \subseteq S
  BY FS_Subset DEF Fiber
<1>4. Sum(one, S) = Sum(sums, K)
  <2> HIDE DEF one
  <2> QED
    BY <1>1, Regroup
<1> HIDE DEF one, sums, sizes
<1>5. Cardinality(S) \in Nat /\ \A k \in K : Cardinality(Fiber(f, S, k)) \in Nat
  BY <1>3, FS_CardinalityType
<1>6. Sum(one, S) = 1 * Cardinality(S)
  BY <1>1, SumOfOne
<1>7. \A k \in K : Sum(one, Fiber(f, S, k)) = 1 * Cardinality(Fiber(f, S, k))
  BY <1>1, <1>3, SumOfOne
<1>8. Sum(sums, K) = Sum(sizes, K)
  <2>1. \A k \in K : sums[k] = sizes[k] /\ sizes[k] \in Int
    BY <1>2, <1>5, <1>7
  <2> QED
    BY <2>1, SumSame
<1>9. Sum(one, S) = Cardinality(S)
  BY <1>5, <1>6
<1>10. Cardinality(S) = Sum(sizes, K)
  BY <1>4, <1>8, <1>9
<1> QED
  BY <1>10 DEF sizes

(* and where all of a group weigh the same, each group counts.             *)
LEMMA SumByKey ==
    ASSUME NEW S, IsFiniteSet(S), NEW K, IsFiniteSet(K), NEW f, \A s \in S : f[s] \in K,
           NEW g, \A k \in K : g[k] \in Int, NEW W, \A s \in S : W[s] = g[f[s]]
    PROVE  Sum(W, S) = Sum([k \in K |-> g[k] * Cardinality(Fiber(f, S, k))], K)
<1> DEFINE sums == [k \in K |-> Sum(W, Fiber(f, S, k))]
           sizes == [k \in K |-> g[k] * Cardinality(Fiber(f, S, k))]
<1>1. \A s \in S : W[s] \in Int
  OBVIOUS
<1>2. Sum(W, S) = Sum(sums, K)
  BY <1>1, Regroup
<1>3. ASSUME NEW k \in K PROVE sums[k] = sizes[k] /\ sizes[k] \in Int
  <2>1. IsFiniteSet(Fiber(f, S, k)) /\ \A s \in Fiber(f, S, k) : W[s] = g[k]
    BY FS_Subset DEF Fiber
  <2>2. Sum(W, Fiber(f, S, k)) = g[k] * Cardinality(Fiber(f, S, k))
    BY <2>1, SumOfOne
  <2>3. g[k] \in Int /\ Cardinality(Fiber(f, S, k)) \in Int
    BY <2>1, FS_CardinalityType
  <2>4. g[k] * Cardinality(Fiber(f, S, k)) \in Int
    BY <2>3
  <2> QED
    BY <2>2, <2>4
<1> HIDE DEF sums, sizes
<1>4. Sum(sums, K) = Sum(sizes, K)
  BY <1>3, SumSame
<1> QED
  BY <1>2, <1>4 DEF sizes

(* Naturals that add up to nothing are all nothing,                        *)
LEMMA SumIsZero ==
    ASSUME NEW S, IsFiniteSet(S), NEW W, \A s \in S : W[s] \in Nat
    PROVE  Sum(W, S) = 0 <=> \A s \in S : W[s] = 0
<1>1. ASSUME NEW s \in S, Sum(W, S) = 0 PROVE W[s] = 0
  <2>1. IsFiniteSet(S \ {s}) /\ \A r \in S \ {s} : W[r] \in Nat
    BY FS_Subset
  <2>2. Sum(W, S \ {s}) \in Nat
    BY <2>1, SumIsNat
  <2>3. Sum(W, S) = W[s] + Sum(W, S \ {s})
    BY SumTakesAny
  <2> QED
    BY <1>1, <2>2, <2>3
<1>2. ASSUME \A s \in S : W[s] = 0 PROVE Sum(W, S) = 0
  <2>1. Sum(W, S) = 0 * Cardinality(S)
    BY <1>2, SumOfOne
  <2> QED
    BY <2>1, FS_CardinalityType
<1> QED
  BY <1>1, <1>2

(* and weights that are no larger add up to no more, and to the same only  *)
(* if they are the same.                                                   *)
LEMMA SumAtMost ==
    ASSUME NEW S, IsFiniteSet(S), NEW V, NEW W, \A s \in S : V[s] \in Int /\ W[s] \in Int /\ V[s] <= W[s]
    PROVE  /\ Sum(V, S) <= Sum(W, S)
           /\ Sum(V, S) = Sum(W, S) <=> \A s \in S : V[s] = W[s]
<1> DEFINE D == [s \in S |-> W[s] - V[s]]
<1>1. \A s \in S : D[s] \in Nat /\ W[s] = V[s] + D[s]
  OBVIOUS
<1>2. \A s \in S : D[s] = 0 <=> V[s] = W[s]
  OBVIOUS
<1> HIDE DEF D
<1>3. Sum(W, S) = Sum(V, S) + Sum(D, S)
  BY <1>1, SumAdd
<1>4. Sum(D, S) \in Nat /\ Sum(V, S) \in Int /\ Sum(W, S) \in Int
  BY <1>1, SumIsNat, SumIsInt
<1>5. Sum(D, S) = 0 <=> \A s \in S : D[s] = 0
  BY <1>1, SumIsZero
<1> QED
  BY <1>2, <1>3, <1>4, <1>5

-----------------------------------------------------------------------------
(* Counting pairs.  The ordered pairs of two elements of a set,            *)
LEMMA PairsOfDistinct ==
    ASSUME NEW S, IsFiniteSet(S)
    PROVE  Cardinality({p \in S \X S : p[1] # p[2]}) = Cardinality(S) * (Cardinality(S) - 1)
<1> DEFINE P == {p \in S \X S : p[1] # p[2]}
           fst == [p \in P |-> p[1]]
           sizes == [s \in S |-> Cardinality(Fiber(fst, P, s))]
           k == Cardinality(S) - 1
<1>1. IsFiniteSet(P)
  BY FS_Product, FS_Subset
<1>2. \A p \in P : fst[p] \in S
  OBVIOUS
<1>3. ASSUME NEW s \in S PROVE sizes[s] = k
  <2>1. Fiber(fst, P, s) = {s} \X (S \ {s})
    BY DEF Fiber
  <2>2. IsFiniteSet({s}) /\ Cardinality({s}) = 1 /\ IsFiniteSet(S \ {s}) /\ Cardinality(S \ {s}) = k
    BY FS_Singleton, FS_RemoveElement
  <2>3. Cardinality({s} \X (S \ {s})) = 1 * k
    BY <2>2, FS_Product
  <2>4. k \in Int
    BY FS_CardinalityType
  <2> HIDE DEF k
  <2>5. 1 * k = k
    BY <2>4
  <2> QED
    BY <2>1, <2>3, <2>5
<1>4. Cardinality(S) \in Nat /\ k \in Int
  BY FS_CardinalityType
<1> HIDE DEF P, fst
<1>5. Cardinality(P) = Sum(sizes, S)
  BY <1>1, <1>2, CountByKey
<1> HIDE DEF sizes, k
<1>6. Sum(sizes, S) = k * Cardinality(S)
  BY <1>3, <1>4, SumOfOne
<1>7. k * Cardinality(S) = Cardinality(S) * k
  BY <1>4
<1> QED
  BY <1>5, <1>6, <1>7 DEF P, k

(* The couples of a set of ordered pairs.                                  *)
Unordered(E) == {{p[1], p[2]} : p \in E}

(* two for each couple.                                                    *)
LEMMA TwoPairsEach ==
    ASSUME NEW S, IsFiniteSet(S), NEW E \in SUBSET (S \X S),
           \A p \in E : p[1] # p[2] /\ <<p[2], p[1]>> \in E
    PROVE  IsFiniteSet(Unordered(E)) /\ Cardinality(E) = 2 * Cardinality(Unordered(E))
<1> DEFINE C == Unordered(E)
           both == [p \in E |-> {p[1], p[2]}]
           sizes == [c \in C |-> Cardinality(Fiber(both, E, c))]
<1>1. IsFiniteSet(E)
  BY FS_Product, FS_Subset
<1>2. IsFiniteSet(C)
  <2>1. both \in Surjection(E, C)
    BY DEF Surjection, Unordered
  <2> HIDE DEF both
  <2> QED
    BY <1>1, <2>1, FS_Surjection
<1>3. ASSUME NEW c \in C PROVE sizes[c] = 2
  <2>1. PICK p \in E : c = {p[1], p[2]}
    BY DEF Unordered
  <2> DEFINE q == <<p[2], p[1]>>
  <2>2. q \in E /\ p[1] # p[2] /\ p = <<p[1], p[2]>> /\ q # p
    OBVIOUS
  <2>3. Fiber(both, E, c) = {p, q}
    <3>1. p \in Fiber(both, E, c) /\ q \in Fiber(both, E, c)
      BY <2>1, <2>2 DEF Fiber
    <3>2. ASSUME NEW r \in Fiber(both, E, c) PROVE r = p \/ r = q
      <4>1. r \in E /\ {r[1], r[2]} = {p[1], p[2]} /\ r[1] # r[2] /\ r = <<r[1], r[2]>>
        BY <2>1 DEF Fiber
      <4>2. (r[1] = p[1] /\ r[2] = p[2]) \/ (r[1] = p[2] /\ r[2] = p[1])
        BY <4>1
      <4> QED
        BY <2>2, <4>1, <4>2
    <3> QED
      BY <3>1, <3>2
  <2> HIDE DEF q, both
  <2>4. Cardinality({p} \cup {q}) = 2
    <3>1. IsFiniteSet({p}) /\ Cardinality({p}) = 1 /\ q \notin {p}
      BY <2>2, FS_Singleton
    <3>2. Cardinality({p} \cup {q}) = Cardinality({p}) + 1
      BY <3>1, FS_AddElement
    <3>3. Cardinality({p}) + 1 = 2
      BY <3>1
    <3> QED
      BY <3>2, <3>3, Zenon
  <2>5. {p, q} = {p} \cup {q}
    OBVIOUS
  <2> QED
    BY <2>3, <2>4, <2>5
<1>4. \A p \in E : both[p] \in C
  BY DEF Unordered
<1> HIDE DEF both, C
<1>5. Cardinality(E) = Sum(sizes, C)
  BY <1>1, <1>2, <1>4, CountByKey
<1> HIDE DEF sizes
<1>6. Sum(sizes, C) = 2 * Cardinality(C)
  BY <1>2, <1>3, SumOfOne
<1> QED
  BY <1>2, <1>5, <1>6 DEF C

-----------------------------------------------------------------------------
(* iter is the product of every subset of S.                               *)
Products(iter, S) ==
    iter = [s \in SUBSET S |-> IF s = {} THEN 1 ELSE Taken(s) * iter[s \ {Taken(s)}]]

(* What a product says of one subset.                                      *)
LEMMA ProductsAt ==
    ASSUME NEW S, NEW iter, Products(iter, S), NEW s \in SUBSET S
    PROVE  iter[s] = IF s = {} THEN 1 ELSE Taken(s) * iter[s \ {Taken(s)}]
  BY DEF Products

(* Two products of a set and of one around it agree on the smaller one.    *)
LEMMA ProductsAgree ==
    ASSUME NEW S, IsFiniteSet(S), NEW T, S \subseteq T, NEW f, NEW g, Products(f, S), Products(g, T)
    PROVE  \A s \in SUBSET S : f[s] = g[s]
<1> DEFINE Bad == {s \in SUBSET S : f[s] # g[s]}
<1>1. SUFFICES ASSUME Bad # {} PROVE FALSE
  OBVIOUS
<1>2. PICK s \in Bad : \A u \in SUBSET s : u # s => u \notin Bad
  <2>1. Bad \in SUBSET SUBSET S
    OBVIOUS
  <2> HIDE DEF Bad
  <2> QED
    BY <1>1, <2>1, Smallest
<1>3. s \in SUBSET S /\ s \in SUBSET T /\ f[s] # g[s]
  BY <1>2
<1>4. f[s] = IF s = {} THEN 1 ELSE Taken(s) * f[s \ {Taken(s)}]
  BY <1>3, ProductsAt
<1>5. g[s] = IF s = {} THEN 1 ELSE Taken(s) * g[s \ {Taken(s)}]
  BY <1>3, ProductsAt
<1>6. s # {}
  BY <1>3, <1>4, <1>5
<1>7. f[s \ {Taken(s)}] = g[s \ {Taken(s)}]
  <2>1. s \ {Taken(s)} \in SUBSET s /\ s \ {Taken(s)} # s
    BY <1>6, TakenIsIn
  <2>2. s \ {Taken(s)} \notin Bad
    BY <1>2, <2>1
  <2> QED
    BY <1>3, <2>1, <2>2
<1> QED
  BY <1>3, <1>4, <1>5, <1>6, <1>7

(* Every finite set has a product.                                         *)
LEMMA ProductsExist ==
    ASSUME NEW S, IsFiniteSet(S)
    PROVE  \E iter : Products(iter, S)
<1> DEFINE Bad == {T \in SUBSET S : ~\E iter : Products(iter, T)}
<1>1. SUFFICES ASSUME Bad # {} PROVE FALSE
  OBVIOUS
<1>2. PICK T \in Bad : \A U \in SUBSET T : U # T => U \notin Bad
  BY <1>1, Smallest
<1>3. T \in SUBSET S /\ IsFiniteSet(T) /\ ~\E iter : Products(iter, T)
  BY <1>2, FS_Subset
<1>4. ASSUME NEW U \in SUBSET T, U # T PROVE \E iter : Products(iter, U)
  BY <1>2, <1>3, <1>4
<1> DEFINE part == [U \in SUBSET T |-> CHOOSE iter : Products(iter, U)]
           value == [U \in SUBSET T |-> IF U = {} THEN 1
                                        ELSE Taken(U) * part[U \ {Taken(U)}][U \ {Taken(U)}]]
<1>5. ASSUME NEW U \in SUBSET T, U # T PROVE Products(part[U], U)
  BY <1>4, <1>5
<1>6. ASSUME NEW U \in SUBSET T, U # T PROVE value[U] = part[U][U]
  <2>1. part[U][U] = IF U = {} THEN 1 ELSE Taken(U) * part[U][U \ {Taken(U)}]
    <3>1. Products(part[U], U) /\ U \in SUBSET U
      BY <1>5, <1>6
    <3> HIDE DEF part
    <3> QED
      BY <3>1, ProductsAt
  <2>2. CASE U = {}
    BY <2>1, <2>2
  <2>3. CASE U # {}
    <3> DEFINE rest == U \ {Taken(U)}
    <3>1. rest \in SUBSET U /\ rest \in SUBSET T /\ rest # T /\ IsFiniteSet(rest)
      BY <2>3, <1>3, <1>6, TakenIsIn, FS_Subset
    <3>2. Products(part[rest], rest) /\ Products(part[U], U)
      BY <1>5, <1>6, <3>1
    <3> HIDE DEF part
    <3>3. part[rest][rest] = part[U][rest]
      BY <3>1, <3>2, ProductsAgree
    <3> QED
      BY <2>1, <2>3, <3>3
  <2> QED
    BY <2>2, <2>3
<1>7. ASSUME NEW U \in SUBSET T, U # {} PROVE value[U] = Taken(U) * value[U \ {Taken(U)}]
  <2> DEFINE rest == U \ {Taken(U)}
  <2>1. rest \in SUBSET T /\ rest # T
    BY <1>7, TakenIsIn
  <2>2. value[rest] = part[rest][rest]
    BY <1>6, <2>1
  <2>3. value[U] = Taken(U) * part[rest][rest]
    BY <1>7
  <2> HIDE DEF value, part
  <2> QED
    BY <2>2, <2>3
<1>8. value[{}] = 1
  OBVIOUS
<1>9. value = [U \in SUBSET T |-> value[U]]
  OBVIOUS
<1> HIDE DEF value, part
<1>10. Products(value, T)
  BY <1>7, <1>8, <1>9 DEF Products
<1> QED
  BY <1>3, <1>10

(* The fold is the product.                                                *)
LEMMA FoldIsProduct ==
    ASSUME NEW S, IsFiniteSet(S)
    PROVE  \E iter : Products(iter, S) /\ ProductSet(S) = iter[S]
<1>1. \E f : /\ f = CHOOSE iter : Products(iter, S)
             /\ ProductSet(S) = f[S]
  BY DEF ProductSet, FoldSet, MapThenFoldSet, Products, Taken
<1> QED
  BY <1>1, ProductsExist

(* (two factors of a product change places)                                *)
LEMMA FactorsSwap == ASSUME NEW a \in Int, NEW b \in Int, NEW c \in Int PROVE a * (b * c) = b * (a * c)
  OBVIOUS

(* (a product of positive numbers is positive)                             *)
LEMMA PositiveTimes == ASSUME NEW a \in Nat \ {0}, NEW b \in Nat \ {0} PROVE a * b \in Nat \ {0}
  OBVIOUS

(* A product of positive numbers is positive, and each divides it.         *)
LEMMA ProductDivides ==
    ASSUME NEW S, IsFiniteSet(S), S \subseteq Nat \ {0}
    PROVE  /\ ProductSet(S) \in Nat \ {0}
           /\ \A x \in S : \E k \in Nat \ {0} : ProductSet(S) = x * k
<1>1. PICK f : Products(f, S) /\ ProductSet(S) = f[S]
  BY FoldIsProduct
<1> DEFINE Right(T) == f[T] \in Nat \ {0} /\ \A x \in T : \E k \in Nat \ {0} : f[T] = x * k
           Bad == {T \in SUBSET S : ~Right(T)}
<1>2. SUFFICES ASSUME Bad # {} PROVE FALSE
  BY <1>1
<1>3. PICK T \in Bad : \A U \in SUBSET T : U # T => U \notin Bad
  <2>1. Bad \in SUBSET SUBSET S
    OBVIOUS
  <2> HIDE DEF Bad
  <2> QED
    BY <1>2, <2>1, Smallest
<1>4. T \in SUBSET S /\ ~Right(T)
  BY <1>3
<1>5. f[T] = IF T = {} THEN 1 ELSE Taken(T) * f[T \ {Taken(T)}]
  <2>1. T \in SUBSET S
    BY <1>4
  <2>2. \A s \in SUBSET S : f[s] = IF s = {} THEN 1 ELSE Taken(s) * f[s \ {Taken(s)}]
    BY <1>1, ProductsAt
  <2> QED
    BY <2>1, <2>2
<1>6. T # {}
  BY <1>4, <1>5
<1> DEFINE t == Taken(T)
           rest == T \ {t}
<1>7. t \in T /\ rest \in SUBSET T /\ rest # T
  BY <1>6, TakenIsIn
<1>8. Right(rest)
  BY <1>3, <1>4, <1>7
<1> HIDE DEF t
<1>9. f[T] = t * f[rest] /\ t \in Nat \ {0} /\ f[rest] \in Nat \ {0} /\ f[T] \in Nat \ {0}
  <2>1. f[T] = t * f[rest] /\ t \in Nat \ {0} /\ f[rest] \in Nat \ {0}
    BY <1>4, <1>5, <1>6, <1>7, <1>8 DEF t
  <2> QED
    BY <2>1, PositiveTimes
<1>10. ASSUME NEW x \in T PROVE \E k \in Nat \ {0} : f[T] = x * k
  <2>1. CASE x = t
    BY <1>9, <2>1
  <2>2. CASE x # t
    <3>1. PICK k \in Nat \ {0} : f[rest] = x * k
      BY <1>8, <2>2
    <3>2. x \in Nat \ {0}
      BY <1>4
    <3>3. t * (x * k) = x * (t * k)
      BY <1>9, <3>2, FactorsSwap
    <3>4. t * k \in Nat \ {0}
      BY <1>9, PositiveTimes
    <3> QED
      BY <1>9, <3>1, <3>3, <3>4
  <2> QED
    BY <2>1, <2>2
<1> QED
  BY <1>4, <1>9, <1>10

(* (what is divided out comes back)                                        *)
LEMMA DividesOut ==
    ASSUME NEW m \in Nat \ {0}, NEW k \in Nat
    PROVE  (m * k) \div m = k /\ (m * k) % m = 0
  OBVIOUS

(* (no remainder)                                                          *)
LEMMA DividesEvenly ==
    ASSUME NEW m \in Nat \ {0}, NEW n \in Nat \ {0}, n % m = 0
    PROVE  n = m * (n \div m) /\ n \div m \in Nat \ {0}
  OBVIOUS

(* A set of numbers that is not empty has a smallest.                      *)
LEMMA MinIsIn == ASSUME NEW S, IsFiniteSet(S), S \subseteq Int, S # {} PROVE Min(S) \in S
<1> DEFINE R == {p \in Int \X Int : p[1] < p[2]}
<1>1. \A u, v \in Int : <<u, v>> \in R <=> u < v
  OBVIOUS
<1> HIDE DEF R
<1>2. PICK v \in S : \A u \in S \ {v} : <<v, u>> \in R
  <2>1. /\ \A u \in S : <<u, u>> \notin R
        /\ \A u, w \in S : u # w => <<u, w>> \in R \/ <<w, u>> \in R
        /\ \A u, w, x \in S : <<u, w>> \in R /\ <<w, x>> \in R => <<u, x>> \in R
    BY <1>1
  <2> QED
    BY <2>1, FirstOfAll
<1>3. ASSUME NEW u \in S PROVE v <= u
  <2>1. u # v => <<v, u>> \in R
    BY <1>2
  <2>2. u \in Int /\ v \in Int
    OBVIOUS
  <2>3. u # v => v < u
    BY <1>1, <2>1, <2>2
  <2> QED
    BY <2>2, <2>3
<1> QED
  BY <1>3 DEF Min

(* How many are in T, as a sum.                                            *)
LEMMA CountIsSum ==
    ASSUME NEW S, IsFiniteSet(S), NEW T \in SUBSET S, NEW W, \A s \in S : W[s] = IF s \in T THEN 1 ELSE 0
    PROVE  Sum(W, S) = Cardinality(T)
<1>1. IsFiniteSet(T) /\ Cardinality(T) \in Nat
    BY FS_Subset, FS_CardinalityType
<1>2. Sum(W, S) = Sum(W, T)
    <2>1. (\A s \in T : W[s] \in Int) /\ (\A s \in S \ T : W[s] = 0)
        OBVIOUS
    <2> QED
        BY <2>1, SumOfPart
<1>3. Sum(W, T) = 1 * Cardinality(T)
    <2>1. 1 \in Int /\ \A s \in T : W[s] = 1
        OBVIOUS
    <2> QED
        BY <1>1, <2>1, SumOfOne
<1> QED
    BY <1>1, <1>2, <1>3

(* How many relations hold, counted by either side.                        *)
LEMMA CountedBothWays ==
    ASSUME NEW S, IsFiniteSet(S), NEW T, IsFiniteSet(T), NEW P
    PROVE  LET rows == [s \in S |-> Cardinality({t \in T : <<s, t>> \in P})]
               cols == [t \in T |-> Cardinality({s \in S : <<s, t>> \in P})]
           IN  /\ Sum(rows, S) = Sum(cols, T)
               /\ \A s \in S : rows[s] \in Nat
               /\ \A t \in T : cols[t] \in Nat
<1> DEFINE rows == [s \in S |-> Cardinality({t \in T : <<s, t>> \in P})]
           cols == [t \in T |-> Cardinality({s \in S : <<s, t>> \in P})]
           M == [s \in S |-> [t \in T |-> IF <<s, t>> \in P THEN 1 ELSE 0]]
           N == Turned(M, S, T)
           row == [s \in S |-> Sum(M[s], T)]
           col == [t \in T |-> Sum(N[t], S)]
<1>1. ASSUME NEW s \in S PROVE rows[s] = row[s] /\ row[s] \in Nat
    <2> DEFINE line == M[s]
               those == {t \in T : <<s, t>> \in P}
    <2>1. \A t \in T : line[t] = IF t \in those THEN 1 ELSE 0
        OBVIOUS
    <2>2. those \in SUBSET T /\ row[s] = Sum(line, T) /\ rows[s] = Cardinality(those)
        OBVIOUS
    <2> HIDE DEF line, those, row, rows
    <2>3. Sum(line, T) = Cardinality(those)
        BY <2>1, <2>2, CountIsSum
    <2>4. Cardinality(those) \in Nat
        BY <2>2, FS_Subset, FS_CardinalityType
    <2> QED
        BY <2>2, <2>3, <2>4
<1>2. ASSUME NEW t \in T PROVE cols[t] = col[t] /\ col[t] \in Nat
    <2> DEFINE line == N[t]
               those == {s \in S : <<s, t>> \in P}
    <2>1. \A s \in S : line[s] = IF s \in those THEN 1 ELSE 0
        BY DEF Turned
    <2>2. those \in SUBSET S /\ col[t] = Sum(line, S) /\ cols[t] = Cardinality(those)
        OBVIOUS
    <2> HIDE DEF line, those, col, cols
    <2>3. Sum(line, S) = Cardinality(those)
        BY <2>1, <2>2, CountIsSum
    <2>4. Cardinality(those) \in Nat
        BY <2>2, FS_Subset, FS_CardinalityType
    <2> QED
        BY <2>2, <2>3, <2>4
<1>3. Sum(row, S) = Sum(col, T)
    <2>1. \A s \in S, t \in T : M[s][t] \in Int
        OBVIOUS
    <2> HIDE DEF M
    <2>2. Twice(M, S, T) = Twice(N, T, S)
        BY <2>1, Interchange
    <2> QED
        BY <2>2 DEF Twice
<1> HIDE DEF rows, cols, row, col
<1>4. Sum(rows, S) = Sum(row, S)
    <2>1. \A s \in S : rows[s] = row[s] /\ row[s] \in Int
        BY <1>1
    <2> QED
        BY <2>1, SumSame
<1>5. Sum(cols, T) = Sum(col, T)
    <2>1. \A t \in T : cols[t] = col[t] /\ col[t] \in Int
        BY <1>2
    <2> QED
        BY <2>1, SumSame
<1> QED
    BY <1>1, <1>2, <1>3, <1>4, <1>5 DEF rows, cols

(* Multiples of W, less a constant; and the sums of multiples of two.      *)
Less(W, S, r, k) == [s \in S |-> W[s] * r - k]
Mix(S, f, G, h, F) == [s \in S |-> f * G[s] + h * F[s]]

(* (terms less a constant add up to the sum less that many)                *)
LEMMA SumLess ==
    ASSUME NEW S, IsFiniteSet(S), NEW k \in Int, NEW r \in Int, NEW W, \A s \in S : W[s] \in Int
    PROVE  /\ Sum(Less(W, S, r, k), S) = Sum(W, S) * r - Cardinality(S) * k
           /\ \A s \in S : Less(W, S, r, k)[s] \in Int
<1> DEFINE V == Less(W, S, r, k)
           P == [s \in S |-> r * W[s]]
           Q == [s \in S |-> 0 - k]
<1>0. Cardinality(S) \in Nat
    BY FS_CardinalityType
<1>1. ASSUME NEW s \in S PROVE V[s] = P[s] + Q[s] /\ P[s] = r * W[s] /\ Q[s] = 0 - k /\ P[s] \in Int /\ Q[s] \in Int
    <2> DEFINE w == W[s]
    <2>1. w \in Int /\ V[s] = w * r - k /\ P[s] = r * w /\ Q[s] = 0 - k
        BY DEF Less
    <2> HIDE DEF w, P, Q, V
    <2>2. w * r - k = r * w + (0 - k) /\ r * w \in Int /\ 0 - k \in Int
        BY <2>1
    <2> QED
        BY <2>1, <2>2 DEF w
<1>v. \A s \in S : V[s] \in Int
    BY <1>1
<1> HIDE DEF P, Q, V
<1>2. Sum(V, S) = Sum(P, S) + Sum(Q, S)
    <2>1. \A s \in S : V[s] = P[s] + Q[s] /\ P[s] \in Int /\ Q[s] \in Int
        BY <1>1
    <2> QED
        BY <2>1, SumAdd
<1>3. Sum(P, S) = r * Sum(W, S)
    <2>1. \A s \in S : P[s] = r * W[s] /\ W[s] \in Int
        BY <1>1
    <2> QED
        BY <2>1, SumScale
<1>4. Sum(Q, S) = (0 - k) * Cardinality(S)
    <2> DEFINE m == 0 - k
    <2>1. m \in Int /\ \A s \in S : Q[s] = m
        BY <1>1
    <2> HIDE DEF m
    <2>2. Sum(Q, S) = m * Cardinality(S)
        BY <2>1, SumOfOne
    <2> QED
        BY <2>2 DEF m
<1>5. Sum(W, S) \in Int
    BY SumIsInt
<1> DEFINE w == Sum(W, S)
           c == Cardinality(S)
<1>6. w \in Int /\ c \in Int
    BY <1>0, <1>5
<1> HIDE DEF w, c
<1>7. r * w + (0 - k) * c = w * r - c * k
    BY <1>6
<1> QED
    BY <1>v, <1>2, <1>3, <1>4, <1>7 DEF w, c, V

(* (the sum of two multiples)                                              *)
LEMMA SumOfMultiples ==
    ASSUME NEW S, IsFiniteSet(S), NEW f \in Int, NEW h \in Int, NEW G, NEW F, \A s \in S : G[s] \in Int, \A s \in S : F[s] \in Int
    PROVE  Sum(Mix(S, f, G, h, F), S) = f * Sum(G, S) + h * Sum(F, S)
<1> DEFINE V == Mix(S, f, G, h, F)
           one == [s \in S |-> f * G[s]]
           two == [s \in S |-> h * F[s]]
<1>1. ASSUME NEW s \in S
      PROVE  /\ V[s] = one[s] + two[s] /\ one[s] = f * G[s] /\ two[s] = h * F[s]
             /\ one[s] \in Int /\ two[s] \in Int /\ G[s] \in Int /\ F[s] \in Int
    <2> DEFINE g == G[s]
               r == F[s]
    <2>1. g \in Int /\ r \in Int /\ V[s] = f * g + h * r /\ one[s] = f * g /\ two[s] = h * r
        BY DEF Mix
    <2> HIDE DEF g, r, one, two, V
    <2>2. f * g \in Int /\ h * r \in Int
        BY <2>1
    <2> QED
        BY <2>1, <2>2 DEF g, r
<1> HIDE DEF one, two, V
<1>2. Sum(V, S) = Sum(one, S) + Sum(two, S)
    <2>1. \A s \in S : V[s] = one[s] + two[s] /\ one[s] \in Int /\ two[s] \in Int
        BY <1>1
    <2> QED
        BY <2>1, SumAdd
<1>3. Sum(one, S) = f * Sum(G, S)
    <2>1. \A s \in S : one[s] = f * G[s] /\ G[s] \in Int
        BY <1>1
    <2> QED
        BY <2>1, SumScale
<1>4. Sum(two, S) = h * Sum(F, S)
    <2>1. \A s \in S : two[s] = h * F[s] /\ F[s] \in Int
        BY <1>1
    <2> QED
        BY <2>1, SumScale
<1> QED
    BY <1>2, <1>3, <1>4 DEF V

=============================================================================
