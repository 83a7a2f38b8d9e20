-------------------------------- MODULE Sums --------------------------------
(***************************************************************************)
(* Sums over finite sets.  FiniteSetsExt defines a sum by a function that  *)
(* takes one element out of a set at a time; what is shown here is that    *)
(* the sum does not depend on which is taken.  The induction is over the   *)
(* subsets of a finite set: of those that are wrong, one is smallest.      *)
(***************************************************************************)
EXTENDS Integers, FiniteSets, Folds, Functions, FiniteSetTheorems, WellFoundedInduction, TLAPS

(* The element of a set that is taken first.                                *)
First(s) == CHOOSE x \in s : TRUE

(* The function a sum over S of the values of F is read from.               *)
Adds(F, S, it) ==
  it = [s \in SUBSET S |-> IF s = {} THEN 0 ELSE F[First(s)] + it[s \ {First(s)}]]

Total(F, S) == (CHOOSE it : Adds(F, S, it))[S]

-----------------------------------------------------------------------------
(* Of the subsets of a finite set that are wrong, one holds no other.       *)
LEMMA SmallestSet ==
  ASSUME NEW S, IsFiniteSet(S), NEW T, T \subseteq SUBSET S, T # {}
  PROVE  \E a \in T : \A b \in T : ~(b \subseteq a /\ b # a)
<1>1. T \subseteq FiniteSubsetsOf(S)
  BY FS_Subset DEF FiniteSubsetsOf
<1>2. \E a \in T : \A b \in T : <<b, a>> \notin StrictSubsetOrdering(S)
  BY <1>1, FS_StrictSubsetOrderingWellFounded, WFMin
<1> QED
  BY <1>2 DEF StrictSubsetOrdering

LEMMA FirstIsIn == ASSUME NEW s, s # {} PROVE First(s) \in s
BY DEF First

LEMMA AddsIsFunction ==
  ASSUME NEW S, NEW F, NEW it, Adds(F, S, it)
  PROVE  it = [s \in SUBSET S |-> it[s]]
<1>1. DOMAIN it = SUBSET S /\ it = [s \in DOMAIN it |-> it[s]]
  BY DEF Adds
<1> QED
  BY <1>1

LEMMA AddsNothing ==
  ASSUME NEW S, NEW F, NEW it, Adds(F, S, it)
  PROVE  it[{}] = 0
BY DEF Adds

LEMMA AddsOne ==
  ASSUME NEW S, NEW F, NEW it, Adds(F, S, it), NEW s \in SUBSET S, s # {}
  PROVE  it[s] = F[First(s)] + it[s \ {First(s)}]
BY DEF Adds

(* Functions that agree on a set have the same sum there.                   *)
LEMMA AddsAgree ==
  ASSUME NEW S, IsFiniteSet(S), NEW F, NEW G, \A x \in S : F[x] = G[x],
         NEW f, Adds(F, S, f), NEW g, Adds(G, S, g)
  PROVE  f = g
<1> DEFINE Bad == {s \in SUBSET S : f[s] # g[s]}
<1>1. ASSUME Bad # {} PROVE FALSE
  <2>0. PICK a \in Bad : \A b \in Bad : ~(b \subseteq a /\ b # a)
    <3>1. Bad \subseteq SUBSET S
      OBVIOUS
    <3> HIDE DEF Bad
    <3> QED
      BY <1>1, <3>1, SmallestSet
  <2>1. /\ a \in Bad /\ a \in SUBSET S
        /\ \A b \in SUBSET S : b \subseteq a /\ b # a => b \notin Bad
    BY <2>0
  <2>2. a # {}
    BY <2>1, AddsNothing
  <2>3. First(a) \in a /\ First(a) \in S /\ a \in SUBSET S
    BY <2>1, <2>2, FirstIsIn
  <2>4. f[a \ {First(a)}] = g[a \ {First(a)}]
    BY <2>1, <2>3
  <2>5. f[a] = F[First(a)] + f[a \ {First(a)}]
    BY <2>2, <2>3 DEF Adds
  <2>6. g[a] = G[First(a)] + g[a \ {First(a)}]
    BY <2>2, <2>3 DEF Adds
  <2> QED
    BY <2>1, <2>3, <2>4, <2>5, <2>6
<1>2. f = [s \in SUBSET S |-> f[s]] /\ g = [s \in SUBSET S |-> g[s]]
  BY AddsIsFunction
<1> QED
  BY <1>1, <1>2

LEMMA AddsWithin ==
  ASSUME NEW S, NEW F, NEW f, Adds(F, S, f), NEW T, T \subseteq S
  PROVE  Adds(F, T, [s \in SUBSET T |-> f[s]])
<1> DEFINE g == [s \in SUBSET T |-> f[s]]
<1>1. f[{}] = 0
  BY AddsNothing
<1>3. ASSUME NEW s \in SUBSET S, s # {} PROVE f[s] = F[First(s)] + f[s \ {First(s)}]
  BY <1>3 DEF Adds
<1>2. ASSUME NEW s \in SUBSET T
      PROVE  g[s] = IF s = {} THEN 0 ELSE F[First(s)] + g[s \ {First(s)}]
  <2>1. s \ {First(s)} \in SUBSET T /\ s \in SUBSET S
    OBVIOUS
  <2>2. s = {} => g[s] = 0
    BY <1>1
  <2>3. g[s] = f[s] /\ g[s \ {First(s)}] = f[s \ {First(s)}]
    BY <2>1
  <2>4. s # {} => f[s] = F[First(s)] + f[s \ {First(s)}]
    BY <1>3, <2>1
  <2> QED
    BY <2>2, <2>3, <2>4
<1> QED
  BY <1>2 DEF Adds

LEMMA TotalIs ==
  ASSUME NEW S, IsFiniteSet(S), NEW F, NEW f, Adds(F, S, f)
  PROVE  Total(F, S) = f[S]
<1>1. Adds(F, S, CHOOSE it : Adds(F, S, it))
  OBVIOUS
<1> DEFINE c == CHOOSE it : Adds(F, S, it)
<1>2. Adds(F, S, c)
  BY <1>1
<1>3. Total(F, S) = c[S]
  BY DEF Total
<1> HIDE DEF c
<1>4. c = f
  BY <1>2, AddsAgree
<1> QED
  BY <1>3, <1>4

LEMMA AddsExists ==
  ASSUME NEW S, IsFiniteSet(S), NEW F
  PROVE  \E it : Adds(F, S, it)
<1> DEFINE Bad == {s \in SUBSET S : ~\E it : Adds(F, s, it)}
<1>1. ASSUME Bad # {} PROVE FALSE
  <2>0. PICK a \in Bad : \A b \in Bad : ~(b \subseteq a /\ b # a)
    <3>1. Bad \subseteq SUBSET S
      OBVIOUS
    <3> HIDE DEF Bad
    <3> QED
      BY <1>1, <3>1, SmallestSet
  <2>1. /\ a \in Bad /\ a \in SUBSET S
        /\ \A b \in SUBSET S : b \subseteq a /\ b # a => b \notin Bad
    BY <2>0
  <2> DEFINE it == [s \in SUBSET a |-> IF s = {} THEN 0
                                       ELSE F[First(s)] + Total(F, s \ {First(s)})]
  <2>2. ASSUME NEW s \in SUBSET a, s # a
        PROVE  it[s] = Total(F, s)
    <3>1. PICK h : Adds(F, s, h)
      BY <2>1, <2>2
    <3>2. IsFiniteSet(s)
      BY <2>1, FS_Subset
    <3>3. Total(F, s) = h[s]
      BY <3>1, <3>2, TotalIs
    <3>4. CASE s = {}
      BY <3>1, <3>3, <3>4, AddsNothing
    <3>5. CASE s # {}
      <4> DEFINE t == s \ {First(s)}
      <4>1. t \subseteq s /\ t \in SUBSET t /\ IsFiniteSet(t)
        BY <3>2, FS_Subset
      <4>2. Total(F, t) = [u \in SUBSET t |-> h[u]][t]
        BY <3>1, <4>1, AddsWithin, TotalIs
      <4>3. h[s] = F[First(s)] + h[t]
        <5>1. s \in SUBSET s
          OBVIOUS
        <5> HIDE DEF t
        <5>2. h[s] = F[First(s)] + h[s \ {First(s)}]
          BY <3>1, <3>5, <5>1, AddsOne
        <5> QED
          BY <5>2 DEF t
      <4>4. it[s] = F[First(s)] + Total(F, t)
        BY <3>5
      <4> QED
        BY <3>3, <4>1, <4>2, <4>3, <4>4
    <3> QED
      BY <3>4, <3>5
  <2>3. ASSUME NEW s \in SUBSET a
        PROVE  it[s] = IF s = {} THEN 0 ELSE F[First(s)] + it[s \ {First(s)}]
    <3>1. CASE s = {}
      BY <3>1
    <3>2. CASE s # {}
      <4>1. First(s) \in s
        BY <3>2, FirstIsIn
      <4>2. s \ {First(s)} \in SUBSET a /\ s \ {First(s)} # a
        BY <4>1
      <4>3. it[s \ {First(s)}] = Total(F, s \ {First(s)})
        BY <2>2, <4>2
      <4>4. it[s] = F[First(s)] + Total(F, s \ {First(s)})
        BY <3>2
      <4> QED
        BY <3>2, <4>3, <4>4
    <3> QED
      BY <3>1, <3>2
  <2>4. it = [s \in SUBSET a |-> it[s]]
    OBVIOUS
  <2> HIDE DEF it
  <2>5. it = [s \in SUBSET a |-> IF s = {} THEN 0 ELSE F[First(s)] + it[s \ {First(s)}]]
    BY <2>3, <2>4
  <2>6. Adds(F, a, it)
    BY <2>5 DEF Adds
  <2> QED
    BY <2>1, <2>6
<1> QED
  BY <1>1

-----------------------------------------------------------------------------
(* What a proof uses of a sum.                                              *)

LEMMA TotalEmpty == ASSUME NEW F PROVE Total(F, {}) = 0
<1>1. IsFiniteSet({})
  BY FS_EmptySet
<1>2. PICK f : Adds(F, {}, f)
  BY <1>1, AddsExists
<1> QED
  BY <1>1, <1>2, TotalIs, AddsNothing

LEMMA TotalFirst ==
  ASSUME NEW S, IsFiniteSet(S), S # {}, NEW F
  PROVE  Total(F, S) = F[First(S)] + Total(F, S \ {First(S)})
<1> DEFINE T == S \ {First(S)}
<1>1. PICK f : Adds(F, S, f)
  BY AddsExists
<1>2. T \subseteq S /\ T \in SUBSET T /\ S \in SUBSET S /\ IsFiniteSet(T)
  BY FS_Subset
<1>3. f[S] = F[First(S)] + f[T]
  BY <1>1, <1>2, AddsOne
<1>6. Adds(F, T, [u \in SUBSET T |-> f[u]])
  BY <1>1, <1>2, AddsWithin
<1>4. Total(F, T) = [u \in SUBSET T |-> f[u]][T]
  BY <1>2, <1>6, TotalIs
<1>5. Total(F, S) = f[S]
  BY <1>1, TotalIs
<1> QED
  BY <1>2, <1>3, <1>4, <1>5

(* A sum of integers is an integer, and of naturals a natural.              *)
LEMMA TotalInt ==
  ASSUME NEW S, IsFiniteSet(S), NEW F, \A x \in S : F[x] \in Int
  PROVE  Total(F, S) \in Int
<1> DEFINE Bad == {s \in SUBSET S : Total(F, s) \notin Int}
<1>1. ASSUME Bad # {} PROVE FALSE
  <2>0. PICK a \in Bad : \A b \in Bad : ~(b \subseteq a /\ b # a)
    <3>1. Bad \subseteq SUBSET S
      OBVIOUS
    <3> HIDE DEF Bad
    <3> QED
      BY <1>1, <3>1, SmallestSet
  <2>1. /\ a \in Bad /\ a \in SUBSET S
        /\ \A b \in SUBSET S : b \subseteq a /\ b # a => b \notin Bad
    BY <2>0
  <2>2. IsFiniteSet(a)
    BY <2>1, FS_Subset
  <2>6. a # {}
    <3>1. Total(F, {}) = 0
      BY TotalEmpty
    <3>2. Total(F, a) \notin Int
      BY <2>1
    <3>3. a = {} => Total(F, a) = Total(F, {})
      OBVIOUS
    <3> QED
      BY <3>1, <3>2, <3>3
  <2>3. First(a) \in a /\ F[First(a)] \in Int
    BY <2>1, <2>2, <2>6, FirstIsIn
  <2>4. Total(F, a \ {First(a)}) \in Int
    BY <2>1, <2>3
  <2>5. Total(F, a) = F[First(a)] + Total(F, a \ {First(a)})
    BY <2>2, <2>6, TotalFirst
  <2> QED
    BY <2>1, <2>3, <2>4, <2>5
<1> QED
  BY <1>1

LEMMA TotalNat ==
  ASSUME NEW S, IsFiniteSet(S), NEW F, \A x \in S : F[x] \in Nat
  PROVE  Total(F, S) \in Nat
<1> DEFINE Bad == {s \in SUBSET S : Total(F, s) \notin Nat}
<1>1. ASSUME Bad # {} PROVE FALSE
  <2>0. PICK a \in Bad : \A b \in Bad : ~(b \subseteq a /\ b # a)
    <3>1. Bad \subseteq SUBSET S
      OBVIOUS
    <3> HIDE DEF Bad
    <3> QED
      BY <1>1, <3>1, SmallestSet
  <2>1. /\ a \in Bad /\ a \in SUBSET S
        /\ \A b \in SUBSET S : b \subseteq a /\ b # a => b \notin Bad
    BY <2>0
  <2>2. IsFiniteSet(a)
    BY <2>1, FS_Subset
  <2>6. a # {}
    <3>1. Total(F, {}) = 0
      BY TotalEmpty
    <3>2. Total(F, a) \notin Nat
      BY <2>1
    <3>3. a = {} => Total(F, a) = Total(F, {})
      OBVIOUS
    <3> QED
      BY <3>1, <3>2, <3>3
  <2>3. First(a) \in a /\ F[First(a)] \in Nat
    BY <2>1, <2>2, <2>6, FirstIsIn
  <2>4. Total(F, a \ {First(a)}) \in Nat
    BY <2>1, <2>3
  <2>5. Total(F, a) = F[First(a)] + Total(F, a \ {First(a)})
    BY <2>2, <2>6, TotalFirst
  <2> QED
    BY <2>1, <2>3, <2>4, <2>5
<1> QED
  BY <1>1

(* Whichever element is taken out.                                          *)
LEMMA TotalWithout ==
  ASSUME NEW S, IsFiniteSet(S), NEW F, \A x \in S : F[x] \in Int, NEW x \in S
  PROVE  Total(F, S) = F[x] + Total(F, S \ {x})
<1> DEFINE Bad == {s \in SUBSET S : \E y \in s : Total(F, s) # F[y] + Total(F, s \ {y})}
<1>1. ASSUME Bad # {} PROVE FALSE
  <2>0. PICK a \in Bad : \A b \in Bad : ~(b \subseteq a /\ b # a)
    <3>1. Bad \subseteq SUBSET S
      OBVIOUS
    <3> HIDE DEF Bad
    <3> QED
      BY <1>1, <3>1, SmallestSet
  <2>1. /\ a \in Bad /\ a \in SUBSET S
        /\ \A b \in SUBSET S : b \subseteq a /\ b # a => b \notin Bad
    BY <2>0
  <2>2. PICK y \in a : Total(F, a) # F[y] + Total(F, a \ {y})
    BY <2>1
  <2> DEFINE p == First(a)
  <2>3. IsFiniteSet(a) /\ a # {} /\ p \in a
    BY <2>1, <2>2, FS_Subset, FirstIsIn
  <2>4. Total(F, a) = F[p] + Total(F, a \ {p})
    BY <2>3, TotalFirst
  <2> HIDE DEF p
  <2>5. p # y
    BY <2>2, <2>4
  <2>6. Total(F, a \ {p}) = F[y] + Total(F, (a \ {p}) \ {y})
    <3>1. a \ {p} \in SUBSET S /\ a \ {p} \subseteq a /\ a \ {p} # a /\ y \in a \ {p}
      BY <2>1, <2>2, <2>3, <2>5
    <3> QED
      BY <2>1, <3>1
  <2>7. Total(F, a \ {y}) = F[p] + Total(F, (a \ {y}) \ {p})
    <3>1. a \ {y} \in SUBSET S /\ a \ {y} \subseteq a /\ a \ {y} # a /\ p \in a \ {y}
      BY <2>1, <2>2, <2>3, <2>5
    <3> QED
      BY <2>1, <3>1
  <2>8. (a \ {p}) \ {y} = (a \ {y}) \ {p}
    OBVIOUS
  <2>9. F[p] \in Int /\ F[y] \in Int /\ Total(F, (a \ {y}) \ {p}) \in Int
    <3>1. IsFiniteSet((a \ {y}) \ {p}) /\ \A z \in (a \ {y}) \ {p} : F[z] \in Int
      BY <2>1, <2>3, FS_Subset
    <3> QED
      BY <2>1, <2>2, <2>3, <3>1, TotalInt
  <2> DEFINE rest == Total(F, (a \ {y}) \ {p})
  <2>10. Total(F, a \ {p}) = F[y] + rest /\ Total(F, a \ {y}) = F[p] + rest /\ rest \in Int
    BY <2>6, <2>7, <2>8, <2>9
  <2> HIDE DEF rest
  <2> QED
    BY <2>2, <2>4, <2>9, <2>10
<1> QED
  BY <1>1

LEMMA TotalWith ==
  ASSUME NEW S, IsFiniteSet(S), NEW F, NEW x, x \notin S, F[x] \in Int, \A y \in S : F[y] \in Int
  PROVE  Total(F, S \cup {x}) = F[x] + Total(F, S)
<1>1. IsFiniteSet(S \cup {x}) /\ (S \cup {x}) \ {x} = S /\ x \in S \cup {x}
  BY FS_AddElement
<1>2. \A y \in S \cup {x} : F[y] \in Int
  OBVIOUS
<1>3. Total(F, S \cup {x}) = F[x] + Total(F, (S \cup {x}) \ {x})
  BY <1>1, <1>2, TotalWithout
<1> QED
  BY <1>1, <1>3

LEMMA TotalSame ==
  ASSUME NEW S, IsFiniteSet(S), NEW F, NEW G, \A x \in S : F[x] = G[x]
  PROVE  Total(F, S) = Total(G, S)
<1>1. PICK f : Adds(F, S, f)
  BY AddsExists
<1>2. PICK g : Adds(G, S, g)
  BY AddsExists
<1>3. f = g
  BY <1>1, <1>2, AddsAgree
<1> QED
  BY <1>1, <1>2, <1>3, TotalIs

(* The sum of a function, as the community modules have it.                 *)
LEMMA SumIsTotal ==
  ASSUME NEW S, IsFiniteSet(S), NEW F
  PROVE  SumFunctionOnSet(F, S) = Total(F, S)
<1> DEFINE P(it) == it = [s \in SUBSET S |-> IF s = {} THEN 0
                           ELSE F[CHOOSE x \in s : TRUE] + it[s \ {CHOOSE x \in s : TRUE}]]
<1>1. SumFunctionOnSet(F, S) = (CHOOSE it : P(it))[S]
  BY DEF SumFunctionOnSet, FoldFunctionOnSet, MapThenFoldSet
<1>2. ASSUME NEW it PROVE P(it) <=> Adds(F, S, it)
  BY DEF Adds, First
<1>3. PICK it : Adds(F, S, it)
  BY AddsExists
<1> HIDE DEF P
<1>4. P(CHOOSE jt : P(jt))
  BY <1>2, <1>3
<1>5. Adds(F, S, CHOOSE jt : P(jt))
  BY <1>2, <1>4
<1> QED
  BY <1>1, <1>5, TotalIs

(* The sum over a set of what changes at one element.                       *)
LEMMA TotalMoves ==
  ASSUME NEW S, IsFiniteSet(S), NEW F, NEW G, NEW x \in S,
         \A y \in S : F[y] \in Int /\ G[y] \in Int,
         \A y \in S : y # x => G[y] = F[y]
  PROVE  Total(F, S) \in Int /\ Total(G, S) = Total(F, S) + (G[x] - F[x])
<1> DEFINE T == S \ {x}
<1>1. IsFiniteSet(T) /\ \A y \in T : F[y] = G[y] /\ F[y] \in Int
  BY FS_Subset
<1>2. Total(F, T) = Total(G, T) /\ Total(F, T) \in Int
  BY <1>1, TotalSame, TotalInt
<1>3. Total(F, S) = F[x] + Total(F, T)
  BY TotalWithout
<1>4. Total(G, S) = G[x] + Total(G, T)
  BY TotalWithout
<1> HIDE DEF T
<1> QED
  BY <1>2, <1>3, <1>4

(* The sum over a part is that over the whole of what is nothing elsewhere. *)
LEMMA TotalOfPart ==
  ASSUME NEW S, IsFiniteSet(S), NEW T, T \subseteq S, NEW F, NEW G,
         \A y \in S : F[y] \in Int, \A y \in S : G[y] = IF y \in T THEN F[y] ELSE 0
  PROVE  Total(F, T) = Total(G, S)
<1> DEFINE Bad == {s \in SUBSET S : Total(F, s \cap T) # Total(G, s)}
<1>1. ASSUME Bad # {} PROVE FALSE
  <2>0. PICK a \in Bad : \A b \in Bad : ~(b \subseteq a /\ b # a)
    <3>1. Bad \subseteq SUBSET S
      OBVIOUS
    <3> HIDE DEF Bad
    <3> QED
      BY <1>1, <3>1, SmallestSet
  <2>1. /\ Total(F, a \cap T) # Total(G, a) /\ a \in SUBSET S
        /\ \A b \in SUBSET S : b \subseteq a /\ b # a => Total(F, b \cap T) = Total(G, b)
    BY <2>0
  <2>2. IsFiniteSet(a) /\ IsFiniteSet(a \cap T)
    BY <2>1, FS_Subset
  <2>3. a # {}
    <3>1. {} \cap T = {} /\ Total(F, {}) = 0 /\ Total(G, {}) = 0
      BY TotalEmpty
    <3> QED
      BY <2>1, <3>1
  <2>4. PICK x : x \in a
    BY <2>3
  <2> DEFINE b == a \ {x}
  <2>5. Total(F, b \cap T) = Total(G, b)
    BY <2>1, <2>4
  <2>6. Total(G, a) = G[x] + Total(G, b)
    <3>1. \A y \in a : G[y] \in Int
      BY <2>1
    <3> QED
      BY <2>2, <2>4, <3>1, TotalWithout
  <2>7. CASE x \in T
    <3>1. (a \cap T) \ {x} = b \cap T /\ x \in a \cap T /\ \A y \in a \cap T : F[y] \in Int
      BY <2>1, <2>4, <2>7
    <3>2. Total(F, a \cap T) = F[x] + Total(F, (a \cap T) \ {x})
      BY <2>2, <3>1, TotalWithout
    <3>3. G[x] = F[x]
      BY <2>1, <2>4, <2>7
    <3> HIDE DEF b
    <3> QED
      BY <2>1, <2>5, <2>6, <3>1, <3>2, <3>3
  <2>8. CASE x \notin T
    <3>1. a \cap T = b \cap T /\ G[x] = 0
      BY <2>1, <2>4, <2>8
    <3>2. Total(G, b) \in Int
      <4>1. IsFiniteSet(b) /\ \A y \in b : G[y] \in Int
        BY <2>1, <2>2, FS_Subset
      <4> QED
        BY <4>1, TotalInt
    <3>3. Total(G, a) = Total(G, b)
      BY <2>6, <3>1, <3>2
    <3>4. Total(F, a \cap T) = Total(F, b \cap T)
      BY <3>1
    <3> QED
      BY <2>1, <2>5, <3>3, <3>4
  <2> QED
    BY <2>7, <2>8
<1>2. S \notin Bad /\ S \cap T = T
  BY <1>1
<1> QED
  BY <1>2

(* The size of a part is a sum of ones.                                     *)
LEMMA TotalOfOnes ==
  ASSUME NEW S, IsFiniteSet(S), NEW F, \A y \in S : F[y] = 1
  PROVE  Total(F, S) = Cardinality(S)
<1> DEFINE Bad == {s \in SUBSET S : Total(F, s) # Cardinality(s)}
<1>1. ASSUME Bad # {} PROVE FALSE
  <2>0. PICK a \in Bad : \A b \in Bad : ~(b \subseteq a /\ b # a)
    <3>1. Bad \subseteq SUBSET S
      OBVIOUS
    <3> HIDE DEF Bad
    <3> QED
      BY <1>1, <3>1, SmallestSet
  <2>1. /\ Total(F, a) # Cardinality(a) /\ a \in SUBSET S
        /\ \A b \in SUBSET S : b \subseteq a /\ b # a => Total(F, b) = Cardinality(b)
    BY <2>0
  <2>2. IsFiniteSet(a)
    BY <2>1, FS_Subset
  <2>3. a # {}
    <3>1. Total(F, {}) = 0 /\ Cardinality({}) = 0
      BY TotalEmpty, FS_EmptySet
    <3>2. a = {} => Total(F, a) = Total(F, {}) /\ Cardinality(a) = Cardinality({})
      OBVIOUS
    <3> QED
      BY <2>1, <3>1, <3>2
  <2>4. PICK x : x \in a
    BY <2>3
  <2>5. Total(F, a \ {x}) = Cardinality(a \ {x})
    BY <2>1, <2>4
  <2>6. Total(F, a) = F[x] + Total(F, a \ {x})
    <3>1. \A y \in a : F[y] \in Int
      BY <2>1
    <3> QED
      BY <2>2, <2>4, <3>1, TotalWithout
  <2>7. Cardinality(a \ {x}) = Cardinality(a) - 1 /\ Cardinality(a) \in Nat
    BY <2>2, <2>4, FS_RemoveElement, FS_CardinalityType
  <2>8. F[x] = 1
    BY <2>1, <2>4
  <2> QED
    BY <2>1, <2>5, <2>6, <2>7, <2>8
<1> QED
  BY <1>1

(* A finite set of numbers has a largest.                                   *)
LEMMA LargestOf ==
  ASSUME NEW S, IsFiniteSet(S), \A y \in S : y \in Int, S # {}
  PROVE  \E m \in S : \A n \in S : n <= m
<1> DEFINE Bad == {s \in SUBSET S : s # {} /\ ~\E m \in s : \A n \in s : n <= m}
<1>1. ASSUME Bad # {} PROVE FALSE
  <2>0. PICK a \in Bad : \A b \in Bad : ~(b \subseteq a /\ b # a)
    <3>1. Bad \subseteq SUBSET S
      OBVIOUS
    <3> HIDE DEF Bad
    <3>2. \E a \in Bad : \A b \in Bad : ~(b \subseteq a /\ b # a)
      BY <1>1, <3>1, SmallestSet
    <3> QED
      BY <3>2
  <2>1. /\ a # {} /\ a \subseteq S /\ ~\E m \in a : \A n \in a : n <= m
        /\ \A b \in SUBSET a : b # a /\ b # {} => \E m \in b : \A n \in b : n <= m
    BY <2>0
  <2>2. PICK x : x \in a
    BY <2>1
  <2>3. CASE a \ {x} = {}
    BY <2>1, <2>2, <2>3
  <2>4. CASE a \ {x} # {}
    <3>1. PICK m \in a \ {x} : \A n \in a \ {x} : n <= m
      BY <2>1, <2>2, <2>4
    <3>2. x \in Int /\ m \in Int
      BY <2>1, <2>2
    <3>3. \A n \in a : n = x \/ n <= m
      BY <3>1
    <3>4. \A n \in a : n \in Int
      BY <2>1
    <3> QED
      BY <2>1, <2>2, <3>1, <3>2, <3>3, <3>4
  <2> QED
    BY <2>3, <2>4
<1> QED
  BY <1>1
=============================================================================
