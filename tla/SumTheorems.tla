----------------------------- MODULE SumTheorems -----------------------------
(***************************************************************************)
(* Sums over finite sets, as SumFunctionOnSet and SumFunction of the       *)
(* community modules take them: what they are, and what happens to them    *)
(* when a set or a function changes.  A fact about every finite set is     *)
(* shown by looking at a smallest set that is an exception.                *)
(***************************************************************************)
EXTENDS Integers, FiniteSets, Functions, FiniteSetTheorems, WellFoundedInduction, TLAPS

\* SumFunctionOnSet takes the elements of a set in the order of CHOOSE.
Pick(s) == CHOOSE x \in s : TRUE

\* it is the fold of f over the parts of S.
Folds(f, S, it) ==
    it = [s \in SUBSET S |-> IF s = {} THEN 0 ELSE f[Pick(s)] + it[s \ {Pick(s)}]]

\* The values of f on S can be added.
Summable(f, S) == IsFiniteSet(S) /\ \A x \in S : f[x] \in Int

\* Of finite sets, one is smallest: the way around an induction.
LEMMA SmallestSet ==
    ASSUME NEW S, IsFiniteSet(S), NEW T \in SUBSET SUBSET S, T # {}
    PROVE  \E s \in T : \A x \in s : s \ {x} \notin T
  <1>1. IsWellFoundedOn(StrictSubsetOrdering(S), SUBSET S)
    BY FS_StrictSubsetOrderingWellFounded, FS_FiniteSubsetsOfFinite
  <1>2. PICK s \in T : \A t \in T : ~(<<t, s>> \in StrictSubsetOrdering(S))
    BY <1>1, WFMin
  <1>3. ASSUME NEW x \in s PROVE s \ {x} \notin T
    <2>1. <<s \ {x}, s>> \in StrictSubsetOrdering(S)
      BY DEF StrictSubsetOrdering
    <2> QED
      BY <1>2, <2>1
  <1> QED
    BY <1>3

\* A fold over a set has a value on each part of it.
LEMMA FoldsValue ==
    ASSUME NEW f, NEW S, NEW it, Folds(f, S, it), NEW s, s \subseteq S
    PROVE  it[s] = IF s = {} THEN 0 ELSE f[Pick(s)] + it[s \ {Pick(s)}]
  BY DEF Folds

\* The element that is taken is one of the set.
LEMMA PickIn == ASSUME NEW s, s # {} PROVE Pick(s) \in s
  BY DEF Pick

\* Folds of integers are integers.
LEMMA FoldsInt ==
    ASSUME NEW f, NEW S, Summable(f, S), NEW it, Folds(f, S, it)
    PROVE  \A s \in SUBSET S : it[s] \in Int
  <1> DEFINE T == {s \in SUBSET S : it[s] \notin Int}
  <1> SUFFICES ASSUME T # {} PROVE FALSE
    OBVIOUS
  <1>1. PICK s \in T : \A x \in s : s \ {x} \notin T
    BY SmallestSet DEF Summable
  <1>2. it[s] = IF s = {} THEN 0 ELSE f[Pick(s)] + it[s \ {Pick(s)}]
    BY FoldsValue
  <1>3. s # {}
    BY <1>2
  <1>4. Pick(s) \in s /\ f[Pick(s)] \in Int
    BY <1>3, PickIn DEF Summable
  <1>5. it[s \ {Pick(s)}] \in Int
    BY <1>1, <1>4
  <1> QED
    BY <1>2, <1>3, <1>4, <1>5

\* Two folds agree on the sets they share.
LEMMA FoldsAgree ==
    ASSUME NEW f, NEW S, IsFiniteSet(S), NEW R, NEW it, Folds(f, S, it), NEW jt, Folds(f, R, jt),
           NEW u, u \subseteq S, u \subseteq R
    PROVE  it[u] = jt[u]
  <1> DEFINE T == {s \in SUBSET (S \cap R) : it[s] # jt[s]}
  <1> SUFFICES ASSUME T # {} PROVE FALSE
    OBVIOUS
  <1>0. IsFiniteSet(S \cap R)
    BY FS_Intersection
  <1>1. PICK s \in T : \A x \in s : s \ {x} \notin T
    BY <1>0, SmallestSet
  <1>p. s \subseteq S /\ s \subseteq R /\ it[s] # jt[s]
    OBVIOUS
  <1>2. /\ it[s] = IF s = {} THEN 0 ELSE f[Pick(s)] + it[s \ {Pick(s)}]
        /\ jt[s] = IF s = {} THEN 0 ELSE f[Pick(s)] + jt[s \ {Pick(s)}]
    BY <1>p, FoldsValue
  <1>3. s # {}
    BY <1>2
  <1>4. Pick(s) \in s
    BY <1>3, PickIn
  <1>5. it[s \ {Pick(s)}] = jt[s \ {Pick(s)}]
    BY <1>1, <1>4
  <1> QED
    BY <1>1, <1>2, <1>3, <1>4, <1>5

\* There is a fold over every finite set.
LEMMA FoldsExist ==
    ASSUME NEW f, NEW S, IsFiniteSet(S)
    PROVE  \E it : Folds(f, S, it)
  <1>0. \A A, B, g, h, w :
           IsFiniteSet(A) /\ Folds(f, A, g) /\ Folds(f, B, h) /\ w \subseteq A /\ w \subseteq B
             => g[w] = h[w]
    BY FoldsAgree
  <1> DEFINE T == {s \in SUBSET S : ~ \E it : Folds(f, s, it)}
  <1> SUFFICES ASSUME T # {} PROVE FALSE
    OBVIOUS
  <1>1. PICK s \in T : \A x \in s : s \ {x} \notin T
    BY SmallestSet
  <1> DEFINE H == [x \in s |-> CHOOSE it : Folds(f, s \ {x}, it)]
             Low(w) == H[Pick(s \ w)][w]
             it == [u \in SUBSET s |-> IF u = {} THEN 0 ELSE f[Pick(u)] + Low(u \ {Pick(u)})]
  <1>2. \A x \in s : Folds(f, s \ {x}, H[x])
    BY <1>1
  <1> HIDE DEF H
  <1>3. IsFiniteSet(s) /\ \A x \in s : IsFiniteSet(s \ {x})
    BY FS_Subset
  <1>4. ASSUME NEW w \in SUBSET s, w # s, NEW y \in s \ w PROVE Low(w) = H[y][w]
    <2> DEFINE x == Pick(s \ w)
    <2>1. x \in s \ w
      BY <1>4, PickIn
    <2>2. Folds(f, s \ {x}, H[x]) /\ Folds(f, s \ {y}, H[y]) /\ IsFiniteSet(s \ {x})
      BY <1>2, <1>3, <2>1
    <2>3. w \subseteq s \ {x} /\ w \subseteq s \ {y}
      BY <2>1
    <2>4. H[x][w] = H[y][w]
      <3> HIDE DEF x, it, Low, T
      <3>1. PICK A, B, g, h : A = s \ {x} /\ B = s \ {y} /\ g = H[x] /\ h = H[y]
        OBVIOUS
      <3>2. IsFiniteSet(A) /\ Folds(f, A, g) /\ Folds(f, B, h) /\ w \subseteq A /\ w \subseteq B
        BY <2>2, <2>3, <3>1
      <3>3. g[w] = h[w]
        BY <1>0, <3>2
      <3> QED
        BY <3>1, <3>3
    <2> QED
      BY <2>4
  <1>5. ASSUME NEW w \in SUBSET s, w # s PROVE Low(w) = it[w]
    <2> DEFINE x == Pick(s \ w)
    <2>1. x \in s \ w
      BY <1>5, PickIn
    <2>2. H[x][w] = IF w = {} THEN 0 ELSE f[Pick(w)] + H[x][w \ {Pick(w)}]
      <3>1. Folds(f, s \ {x}, H[x]) /\ w \subseteq s \ {x}
        BY <1>2, <2>1
      <3> HIDE DEF x
      <3> QED
        BY <3>1, FoldsValue, Z3
    <2>3. H[x][w \ {Pick(w)}] = Low(w \ {Pick(w)})
      <3> DEFINE v == w \ {Pick(w)}
      <3>1. v \in SUBSET s /\ v # s /\ x \in s \ v
        BY <2>1
      <3> HIDE DEF v, x, Low
      <3> QED
        BY <3>1, <1>4 DEF v
    <2> QED
      BY <2>2, <2>3
  <1>6. \A u \in SUBSET s : u # {} => u \ {Pick(u)} \in SUBSET s /\ u \ {Pick(u)} # s
    BY PickIn
  <1>7. Folds(f, s, it)
    <2>1. \A u \in SUBSET s : u # {} => Low(u \ {Pick(u)}) = it[u \ {Pick(u)}]
      <3> HIDE DEF Low, it
      <3> QED
        BY <1>5, <1>6
    <2>2. \A u \in SUBSET s : it[u] = IF u = {} THEN 0 ELSE f[Pick(u)] + it[u \ {Pick(u)}]
      <3>1. \A u \in SUBSET s : it[u] = IF u = {} THEN 0 ELSE f[Pick(u)] + Low(u \ {Pick(u)})
        OBVIOUS
      <3> HIDE DEF Low, it
      <3> QED
        BY <2>1, <3>1
    <2>3. DOMAIN it = SUBSET s /\ it = [u \in SUBSET s |-> it[u]]
      <3> HIDE DEF Low
      <3> QED OBVIOUS
    <2> HIDE DEF it
    <2> QED
      BY <2>2, <2>3 DEF Folds
  <1> HIDE DEF it
  <1> QED
    BY <1>7

\* SumFunctionOnSet is the value of a fold.
LEMMA SumIsFold ==
    ASSUME NEW f, NEW S, IsFiniteSet(S)
    PROVE  \E it : Folds(f, S, it) /\ SumFunctionOnSet(f, S) = it[S]
  <1>1. SumFunctionOnSet(f, S) = (CHOOSE it : Folds(f, S, it))[S]
    BY Zenon DEF SumFunctionOnSet, FoldFunctionOnSet, MapThenFoldSet, Folds, Pick
  <1> QED
    BY <1>1, FoldsExist

\* A sum over a part of a set is what its fold says of the part.
LEMMA SumOfPart ==
    ASSUME NEW f, NEW S, IsFiniteSet(S), NEW it, Folds(f, S, it), NEW s, s \subseteq S
    PROVE  SumFunctionOnSet(f, s) = it[s]
  <1>1. IsFiniteSet(s)
    BY FS_Subset
  <1>2. PICK jt : Folds(f, s, jt) /\ SumFunctionOnSet(f, s) = jt[s]
    BY <1>1, SumIsFold
  <1>3. Folds(f, s, jt) /\ s \subseteq S /\ s \subseteq s
    BY <1>2
  <1>4. it[s] = jt[s]
    BY <1>3, FoldsAgree
  <1> QED
    BY <1>2, <1>4

\* Nothing adds up to zero.
LEMMA SumEmpty == ASSUME NEW f PROVE SumFunctionOnSet(f, {}) = 0
  <1>1. PICK it : Folds(f, {}, it) /\ SumFunctionOnSet(f, {}) = it[{}]
    BY SumIsFold, FS_EmptySet
  <1> QED
    BY <1>1, FoldsValue

\* Integers add up to an integer.
LEMMA SumInt ==
    ASSUME NEW f, NEW S, Summable(f, S)
    PROVE  SumFunctionOnSet(f, S) \in Int
  <1>1. PICK it : Folds(f, S, it) /\ SumFunctionOnSet(f, S) = it[S]
    BY SumIsFold DEF Summable
  <1> QED
    BY <1>1, FoldsInt

\* Any element may be taken first.
LEMMA SumRemove ==
    ASSUME NEW f, NEW S, Summable(f, S), NEW x \in S
    PROVE  SumFunctionOnSet(f, S) = f[x] + SumFunctionOnSet(f, S \ {x})
  <1>1. PICK it : Folds(f, S, it) /\ SumFunctionOnSet(f, S) = it[S]
    BY SumIsFold DEF Summable
  <1> DEFINE T == {s \in SUBSET S : \E y \in s : it[s] # f[y] + it[s \ {y}]}
  <1>2. T = {}
    <2> SUFFICES ASSUME T # {} PROVE FALSE
      OBVIOUS
    <2>1. PICK s \in T : \A y \in s : s \ {y} \notin T
      BY SmallestSet DEF Summable
    <2>2. PICK y \in s : it[s] # f[y] + it[s \ {y}]
      OBVIOUS
    <2> DEFINE p == Pick(s)
    <2>3. p \in s /\ it[s] = f[p] + it[s \ {p}]
      BY <1>1, <2>2, FoldsValue, PickIn
    <2> HIDE DEF p
    <2>4. p # y
      BY <2>2, <2>3
    <2>5. /\ it[s \ {p}] = f[y] + it[(s \ {p}) \ {y}]
          /\ it[s \ {y}] = f[p] + it[(s \ {y}) \ {p}]
      BY <2>1, <2>2, <2>3, <2>4
    <2>6. (s \ {p}) \ {y} = (s \ {y}) \ {p}
      OBVIOUS
    <2>7. f[p] \in Int /\ f[y] \in Int /\ it[(s \ {y}) \ {p}] \in Int
      BY <1>1, <2>3, FoldsInt DEF Summable
    <2>8. it[s] = f[y] + it[s \ {y}]
      <3> DEFINE k == it[(s \ {y}) \ {p}]
                 m == it[s \ {y}]
                 n == it[s \ {p}]
      <3>1. n = f[y] + k /\ m = f[p] + k /\ k \in Int /\ it[s] = f[p] + n
        BY <2>3, <2>5, <2>6, <2>7
      <3> HIDE DEF k, m, n
      <3>2. it[s] = f[y] + m
        BY <2>7, <3>1
      <3> QED
        BY <3>2 DEF m
    <2> QED
      BY <2>2, <2>8
  <1>3. it[S] = f[x] + it[S \ {x}]
    BY <1>2
  <1>4. SumFunctionOnSet(f, S \ {x}) = it[S \ {x}]
    BY <1>1, SumOfPart DEF Summable
  <1> QED
    BY <1>1, <1>3, <1>4

\* A sum looks only at the values on its set.
LEMMA SumSame ==
    ASSUME NEW f, NEW g, NEW S, IsFiniteSet(S), \A x \in S : f[x] = g[x]
    PROVE  SumFunctionOnSet(f, S) = SumFunctionOnSet(g, S)
  <1>1. PICK it : Folds(f, S, it) /\ SumFunctionOnSet(f, S) = it[S]
    BY SumIsFold
  <1>2. \A s \in SUBSET S : s # {} => f[Pick(s)] = g[Pick(s)]
    BY PickIn
  <1>3. Folds(g, S, it)
    BY <1>1, <1>2 DEF Folds
  <1> QED
    BY <1>1, <1>3, SumOfPart

\* The sum of sums is the sum over both.
LEMMA SumPlus ==
    ASSUME NEW f, NEW g, NEW h, NEW S, Summable(g, S), Summable(h, S),
           \A x \in S : f[x] = g[x] + h[x]
    PROVE  SumFunctionOnSet(f, S) = SumFunctionOnSet(g, S) + SumFunctionOnSet(h, S)
  <1> DEFINE P(s) == SumFunctionOnSet(f, s) = SumFunctionOnSet(g, s) + SumFunctionOnSet(h, s)
             T == {s \in SUBSET S : ~P(s)}
  <1>1. T = {}
    <2> SUFFICES ASSUME T # {} PROVE FALSE
      OBVIOUS
    <2>1. PICK s \in T : \A y \in s : s \ {y} \notin T
      BY SmallestSet DEF Summable
    <2>2. CASE s = {}
      BY <2>2, SumEmpty
    <2>3. CASE s # {}
      <3>1. PICK y \in s : TRUE
        BY <2>3
      <3>2. /\ Summable(f, s) /\ Summable(g, s) /\ Summable(h, s)
            /\ Summable(g, s \ {y}) /\ Summable(h, s \ {y})
        BY FS_Subset DEF Summable
      <3>3. /\ SumFunctionOnSet(f, s) = f[y] + SumFunctionOnSet(f, s \ {y})
            /\ SumFunctionOnSet(g, s) = g[y] + SumFunctionOnSet(g, s \ {y})
            /\ SumFunctionOnSet(h, s) = h[y] + SumFunctionOnSet(h, s \ {y})
        BY <3>1, <3>2, SumRemove
      <3>4. P(s \ {y})
        BY <2>1, <3>1
      <3>5. /\ g[y] \in Int /\ h[y] \in Int
            /\ SumFunctionOnSet(g, s \ {y}) \in Int /\ SumFunctionOnSet(h, s \ {y}) \in Int
        BY <3>1, <3>2, SumInt DEF Summable
      <3>6. f[y] = g[y] + h[y]
        BY <3>1
      <3> QED
        BY <3>3, <3>4, <3>5, <3>6
    <2> QED
      BY <2>2, <2>3
  <1>2. S \notin T
    BY <1>1
  <1> QED
    BY <1>2

\* Amounts add up to an amount.
LEMMA SumNat ==
    ASSUME NEW f, NEW S, IsFiniteSet(S), \A x \in S : f[x] \in Nat
    PROVE  SumFunctionOnSet(f, S) \in Nat
  <1> DEFINE T == {s \in SUBSET S : SumFunctionOnSet(f, s) \notin Nat}
  <1>1. T = {}
    <2> SUFFICES ASSUME T # {} PROVE FALSE
      OBVIOUS
    <2>1. PICK s \in T : \A y \in s : s \ {y} \notin T
      BY SmallestSet
    <2>2. s # {}
      BY SumEmpty
    <2>3. PICK y \in s : TRUE
      BY <2>2
    <2>4. Summable(f, s)
      BY FS_Subset DEF Summable
    <2>5. SumFunctionOnSet(f, s) = f[y] + SumFunctionOnSet(f, s \ {y})
      BY <2>3, <2>4, SumRemove
    <2>6. SumFunctionOnSet(f, s \ {y}) \in Nat /\ f[y] \in Nat
      BY <2>1, <2>3
    <2> QED
      BY <2>5, <2>6
  <1> QED
    BY <1>1

\* Adding one element adds its value.
LEMMA SumExtend ==
    ASSUME NEW f, NEW g, NEW S, IsFiniteSet(S), NEW x, x \notin S,
           \A y \in S \cup {x} : f[y] \in Int, \A y \in S : f[y] = g[y]
    PROVE  SumFunctionOnSet(f, S \cup {x}) = f[x] + SumFunctionOnSet(g, S)
  <1>1. Summable(f, S \cup {x}) /\ x \in S \cup {x} /\ (S \cup {x}) \ {x} = S
    BY FS_AddElement DEF Summable
  <1>2. SumFunctionOnSet(f, S \cup {x}) = f[x] + SumFunctionOnSet(f, (S \cup {x}) \ {x})
    BY <1>1, SumRemove
  <1>3. SumFunctionOnSet(f, S) = SumFunctionOnSet(g, S)
    BY SumSame
  <1> QED
    BY <1>1, <1>2, <1>3

\* The same of functions that are summed over their domains.
LEMMA SumFunctionExtend ==
    ASSUME NEW f, NEW g, NEW x, IsFiniteSet(DOMAIN g), x \notin DOMAIN g,
           DOMAIN f = DOMAIN g \cup {x}, \A y \in DOMAIN f : f[y] \in Int,
           \A y \in DOMAIN g : f[y] = g[y]
    PROVE  SumFunction(f) = f[x] + SumFunction(g)
  BY SumExtend DEF SumFunction

\* A sum over a set is the sum over a part of it and over the rest.
LEMMA SumSplit ==
    ASSUME NEW f, NEW S, Summable(f, S), NEW R \in SUBSET S
    PROVE  SumFunctionOnSet(f, S) = SumFunctionOnSet(f, R) + SumFunctionOnSet(f, S \ R)
  <1> DEFINE P(s) == SumFunctionOnSet(f, s)
                       = SumFunctionOnSet(f, s \cap R) + SumFunctionOnSet(f, s \ R)
             T == {s \in SUBSET S : ~P(s)}
  <1>1. T = {}
    <2> SUFFICES ASSUME T # {} PROVE FALSE
      OBVIOUS
    <2>1. PICK s \in T : \A y \in s : s \ {y} \notin T
      BY SmallestSet DEF Summable
    <2>2. CASE s = {}
      <3>1. s \cap R = {} /\ s \ R = {} /\ ~P(s)
        BY <2>2
      <3> QED
        BY <2>2, <3>1, SumEmpty
    <2>3. CASE s # {}
      <3>1. PICK y \in s : TRUE
        BY <2>3
      <3>2. PICK t : t = s \ {y}
        OBVIOUS
      <3>3. Summable(f, s) /\ Summable(f, s \cap R) /\ Summable(f, s \ R)
            /\ Summable(f, t \cap R) /\ Summable(f, t \ R)
        BY <3>2, FS_Subset DEF Summable
      <3>4. PICK a, b, c : /\ a = SumFunctionOnSet(f, t \cap R)
                           /\ b = SumFunctionOnSet(f, t \ R)
                           /\ c = SumFunctionOnSet(f, t)
        OBVIOUS
      <3>5. a \in Int /\ b \in Int /\ f[y] \in Int
        BY <3>1, <3>3, <3>4, SumInt DEF Summable
      <3>6. P(t)
        BY <2>1, <3>1, <3>2
      <3>7. c = a + b
        BY <3>4, <3>6
      <3>8. SumFunctionOnSet(f, s) = f[y] + c
        BY <3>1, <3>2, <3>3, <3>4, SumRemove
      <3>9. CASE y \in R
        <4>1. y \in s \cap R /\ (s \cap R) \ {y} = t \cap R /\ s \ R = t \ R
          BY <3>1, <3>2, <3>9
        <4>2. SumFunctionOnSet(f, s \cap R) = f[y] + a /\ SumFunctionOnSet(f, s \ R) = b
          <5>1. SumFunctionOnSet(f, s \cap R) = f[y] + SumFunctionOnSet(f, (s \cap R) \ {y})
            BY <3>3, <4>1, SumRemove
          <5> QED
            BY <3>4, <4>1, <5>1
        <4> QED
          BY <3>5, <3>7, <3>8, <4>2
      <3>10. CASE y \notin R
        <4>1. y \in s \ R /\ (s \ R) \ {y} = t \ R /\ s \cap R = t \cap R
          BY <3>1, <3>2, <3>10
        <4>2. SumFunctionOnSet(f, s \ R) = f[y] + b /\ SumFunctionOnSet(f, s \cap R) = a
          BY <3>3, <3>4, <4>1, SumRemove
        <4> QED
          BY <3>5, <3>7, <3>8, <4>2
      <3> QED
        BY <3>9, <3>10
    <2> QED
      BY <2>2, <2>3
  <1>2. P(S) /\ S \cap R = R
    BY <1>1
  <1> QED
    BY <1>2

\* The sum of differences is the difference of the sums.
LEMMA SumMinus ==
    ASSUME NEW f, NEW g, NEW h, NEW S, Summable(g, S), Summable(h, S),
           \A x \in S : f[x] = g[x] - h[x]
    PROVE  SumFunctionOnSet(f, S) = SumFunctionOnSet(g, S) - SumFunctionOnSet(h, S)
  <1>1. Summable(f, S) /\ \A x \in S : g[x] = f[x] + h[x]
    BY DEF Summable
  <1>2. SumFunctionOnSet(g, S) = SumFunctionOnSet(f, S) + SumFunctionOnSet(h, S)
    BY <1>1, SumPlus
  <1>3. SumFunctionOnSet(f, S) \in Int /\ SumFunctionOnSet(h, S) \in Int
    BY <1>1, SumInt
  <1> QED
    BY <1>2, <1>3

\* Opposite values have opposite sums.
LEMMA SumNegate ==
    ASSUME NEW f, NEW g, NEW S, Summable(g, S), \A x \in S : f[x] = -g[x]
    PROVE  SumFunctionOnSet(f, S) = -SumFunctionOnSet(g, S)
  <1> DEFINE z == [x \in S |-> 0]
  <1>1. Summable(z, S) /\ Summable(f, S) /\ SumFunctionOnSet(z, S) \in Int
    <2>1. Summable(z, S) /\ Summable(f, S)
      BY DEF Summable
    <2> QED
      BY <2>1, SumInt
  <1>2. SumFunctionOnSet(z, S) = SumFunctionOnSet(z, S) + SumFunctionOnSet(z, S)
    <2>1. \A x \in S : z[x] = z[x] + z[x]
      OBVIOUS
    <2> HIDE DEF z
    <2> QED
      BY <1>1, <2>1, SumPlus
  <1>3. SumFunctionOnSet(z, S) = SumFunctionOnSet(f, S) + SumFunctionOnSet(g, S)
    <2>1. \A x \in S : z[x] = f[x] + g[x]
      BY DEF Summable
    <2> HIDE DEF z
    <2> QED
      BY <1>1, <2>1, SumPlus
  <1>4. SumFunctionOnSet(f, S) \in Int /\ SumFunctionOnSet(g, S) \in Int
    BY <1>1, SumInt
  <1>5. PICK a, b, c : /\ a = SumFunctionOnSet(z, S) /\ b = SumFunctionOnSet(f, S)
                      /\ c = SumFunctionOnSet(g, S)
    OBVIOUS
  <1>6. a \in Int /\ b \in Int /\ c \in Int /\ a = a + a /\ a = b + c
    BY <1>1, <1>2, <1>3, <1>4, <1>5
  <1>7. b = -c
    BY <1>6
  <1> QED
    BY <1>5, <1>7

\* What is added up group by group is added up: k[x] is the group of x, G[r] the
\* members of group r, g[r] their sum, and D the members of all the groups.
LEMMA SumGroups ==
    ASSUME NEW f, NEW S, Summable(f, S), NEW k, NEW g, NEW G, NEW D, NEW R, IsFiniteSet(R),
           \A r \in R : g[r] = SumFunctionOnSet(f, G[r]),
           \A r \in R : \A x : x \in G[r] <=> x \in S /\ k[x] = r,
           \A x : x \in D <=> x \in S /\ k[x] \in R
    PROVE  SumFunctionOnSet(g, R) = SumFunctionOnSet(f, D)
  <1> DEFINE Of(s) == {x \in S : k[x] \in s}
             P(s)  == SumFunctionOnSet(g, s) = SumFunctionOnSet(f, Of(s))
             T == {s \in SUBSET R : ~P(s)}
  <1>1. T = {}
    <2> SUFFICES ASSUME T # {} PROVE FALSE
      OBVIOUS
    <2>1. PICK s \in T : \A y \in s : s \ {y} \notin T
      BY SmallestSet
    <2>2. CASE s = {}
      <3>1. Of(s) = {} /\ ~P(s)
        BY <2>2
      <3> QED
        BY <2>2, <3>1, SumEmpty
    <2>3. CASE s # {}
      <3>1. PICK y \in s : TRUE
        BY <2>3
      <3>2. PICK t : t = s \ {y}
        OBVIOUS
      <3>3. P(t)
        BY <2>1, <3>1, <3>2
      <3>4. Summable(f, Of(s)) /\ \A r \in R : Summable(f, G[r])
        BY FS_Subset DEF Summable
      <3>5. Summable(g, s)
        <4>1. \A r \in R : g[r] \in Int
          BY <3>4, SumInt
        <4> QED
          BY <4>1, FS_Subset DEF Summable
      <3>6. SumFunctionOnSet(g, s) = g[y] + SumFunctionOnSet(g, t)
        BY <3>1, <3>2, <3>5, SumRemove
      <3>7. PICK A, B : A = Of({y}) /\ B = Of(s)
        OBVIOUS
      <3>8. A \in SUBSET B /\ B \ A = Of(t) /\ A = G[y]
        BY <3>1, <3>2, <3>7
      <3>9. SumFunctionOnSet(f, B) = SumFunctionOnSet(f, A) + SumFunctionOnSet(f, B \ A)
        BY <3>4, <3>7, <3>8, SumSplit
      <3>10. g[y] = SumFunctionOnSet(f, A)
        BY <3>1, <3>8
      <3> QED
        BY <3>3, <3>6, <3>7, <3>8, <3>9, <3>10
    <2> QED
      BY <2>2, <2>3
  <1>2. P(R) /\ Of(R) = D
    BY <1>1
  <1> QED
    BY <1>2

=============================================================================
