----------------------------- MODULE SumTheorems -----------------------------
(***************************************************************************)
(* Sums of natural numbers over finite sets: what SumFunction computes,    *)
(* and the laws that the totals of the other modules are reasoned about    *)
(* with.                                                                   *)
(*                                                                         *)
(* The sum over a set is taken as the number of cells <<x, n>> with        *)
(* n < f[x], which turns its laws into facts about cardinalities.          *)
(***************************************************************************)
EXTENDS Integers, Functions, FiniteSetTheorems, WellFoundedInduction, TLAPS

LEMMA LeastOf ==
  ASSUME NEW T, T \subseteq Nat, T # {}
  PROVE  \E m \in T : \A n \in T : m <= n
<1>1. IsWellFoundedOn(OpToRel(<, Nat), Nat)
  BY NatLessThanWellFounded
<1>2. PICK m \in T : \A n \in T : ~ (<<n, m>> \in OpToRel(<, Nat))
  BY <1>1, WFMin
<1>3. \A n \in T : ~ (n < m)
  BY <1>2 DEF OpToRel
<1>4. QED BY <1>3

(* Induction over the subsets of a finite set, as a set of them that is    *)
(* closed under adding an element.                                         *)
LEMMA SubsetInduction ==
  ASSUME NEW S, IsFiniteSet(S), NEW Q, {} \in Q,
         \A T \in SUBSET S : \A x \in S \ T : T \in Q => T \cup {x} \in Q
  PROVE  S \in Q
<1>1. SUFFICES ASSUME S \notin Q PROVE FALSE
  OBVIOUS
<1> DEFINE Left == {T \in SUBSET S : T \notin Q}
           Sizes == {Cardinality(T) : T \in Left}
<1>2. \A T \in SUBSET S : IsFiniteSet(T) /\ Cardinality(T) \in Nat
  BY FS_Subset, FS_CardinalityType
<1>3. Sizes \subseteq Nat /\ Sizes # {}
  BY <1>1, <1>2
<1>4. PICK T \in Left : \A U \in Left : Cardinality(T) <= Cardinality(U)
  <2> HIDE DEF Sizes
  <2>1. PICK m \in Sizes : \A n \in Sizes : m <= n
    BY <1>3, LeastOf
  <2>2. QED BY <2>1 DEF Sizes
<1>5. PICK x \in T : TRUE
  BY <1>4
<1>6. Cardinality(T \ {x}) < Cardinality(T)
  <2>1. IsFiniteSet(T) /\ Cardinality(T) \in Nat
    BY <1>2, <1>4
  <2>2. Cardinality(T \ {x}) = Cardinality(T) - 1
    BY <1>5, <2>1, FS_RemoveElement
  <2>3. QED BY <2>1, <2>2
<1>7. T \ {x} \in SUBSET S /\ x \in S \ (T \ {x})
  BY <1>4, <1>5
<1>8. T \ {x} \in Q
  <2>1. T \ {x} \notin Left
    <3>1. Cardinality(T) \in Nat /\ Cardinality(T \ {x}) \in Nat
      BY <1>2, <1>4, <1>7
    <3>2. QED BY <1>4, <1>6, <3>1
  <2>2. QED BY <1>7, <2>1
<1>9. (T \ {x}) \cup {x} \in Q
  BY <1>7, <1>8
<1>10. (T \ {x}) \cup {x} = T
  BY <1>5
<1>11. QED BY <1>4, <1>9, <1>10

(* A finite set of natural numbers has a largest one.                      *)
LEMMA LargestOf ==
  ASSUME NEW T, IsFiniteSet(T), T \subseteq Nat, T # {}
  PROVE  \E m \in T : \A n \in T : m >= n
<1> DEFINE Q == {U \in SUBSET T : U = {} \/ \E m \in U : \A n \in U : m >= n}
<1>1. {} \in Q
  OBVIOUS
<1>2. ASSUME NEW U \in SUBSET T, NEW x \in T \ U, U \in Q PROVE U \cup {x} \in Q
  <2>1. CASE U = {}
    <3>1. \A n \in U \cup {x} : x >= n
      BY <2>1
    <3>2. QED BY <3>1
  <2>2. CASE U # {}
    <3>1. PICK m \in U : \A n \in U : m >= n
      BY <1>2, <2>2
    <3>2. CASE m >= x
      <4>1. m \in U \cup {x} /\ \A n \in U \cup {x} : m >= n
        BY <3>1, <3>2
      <4>2. QED BY <4>1
    <3>3. CASE ~ (m >= x)
      <4>1. \A n \in U \cup {x} : x >= n
        BY <3>1, <3>3
      <4>2. QED BY <4>1
    <3>4. QED BY <3>2, <3>3
  <2>3. QED BY <2>1, <2>2
<1>3. T \in Q
  <2> HIDE DEF Q
  <2>1. QED BY <1>1, <1>2, SubsetInduction
<1>4. QED BY <1>3

(* A sum as a number of cells: f[x] of them over each x of S.              *)
Cells(f, S) == {c \in S \X Nat : c[2] < f[c[1]]}
Naturals(f, S) == \A x \in S : f[x] \in Nat

LEMMA ColumnSize ==
  ASSUME NEW f, NEW x, f[x] \in Nat
  PROVE  IsFiniteSet(Cells(f, {x})) /\ Cardinality(Cells(f, {x})) = f[x]
<1> DEFINE n == f[x]
           column == {x} \X (0 .. n - 1)
<1>1. IsFiniteSet(0 .. n - 1) /\ Cardinality(0 .. n - 1) = n
  <2> HIDE DEF n
  <2>1. n \in Nat
    BY DEF n
  <2>2. 0 \in Int /\ n - 1 \in Int
    BY <2>1
  <2>3. /\ IsFiniteSet(0 .. n - 1)
        /\ Cardinality(0 .. n - 1) = IF 0 > n - 1 THEN 0 ELSE (n - 1) - 0 + 1
    BY <2>2, FS_Interval
  <2>4. QED BY <2>1, <2>3
<1>2. IsFiniteSet({x}) /\ Cardinality({x}) = 1
  BY FS_Singleton
<1>3. IsFiniteSet(column) /\ Cardinality(column) = 1 * n
  <2> DEFINE I == 0 .. n - 1
  <2> HIDE DEF I, n
  <2>1. IsFiniteSet(I) /\ Cardinality(I) = n
    BY <1>1 DEF I
  <2>2. IsFiniteSet({x} \X I) /\ Cardinality({x} \X I) = Cardinality({x}) * Cardinality(I)
    BY <1>2, <2>1, FS_Product
  <2>3. QED BY <1>2, <2>1, <2>2 DEF I
<1>4. Cells(f, {x}) = column
  BY DEF Cells
<1>5. n \in Nat
  OBVIOUS
<1> HIDE DEF n
<1>6. 1 * n = n
  BY <1>5
<1>7. QED BY <1>3, <1>4, <1>6 DEF n

LEMMA CellsNone == ASSUME NEW f PROVE Cells(f, {}) = {}
BY DEF Cells

LEMMA CellsUnion ==
  ASSUME NEW f, NEW S, NEW T
  PROVE  Cells(f, S \cup T) = Cells(f, S) \cup Cells(f, T)
BY Zenon DEF Cells

LEMMA CellsApart ==
  ASSUME NEW f, NEW S, NEW T, S \cap T = {}
  PROVE  Cells(f, S) \cap Cells(f, T) = {}
<1>1. \A c : c \in Cells(f, S) => c[1] \in S
  BY DEF Cells
<1>2. \A c : c \in Cells(f, T) => c[1] \in T
  BY DEF Cells
<1>3. QED BY <1>1, <1>2

LEMMA CellsFinite ==
  ASSUME NEW f, NEW S, IsFiniteSet(S), Naturals(f, S)
  PROVE  IsFiniteSet(Cells(f, S)) /\ Cardinality(Cells(f, S)) \in Nat
<1> DEFINE Q == {T \in SUBSET S : IsFiniteSet(Cells(f, T))}
<1>1. {} \in Q
  BY CellsNone, FS_EmptySet
<1>2. ASSUME NEW T \in SUBSET S, NEW x \in S \ T, T \in Q PROVE T \cup {x} \in Q
  <2>1. IsFiniteSet(Cells(f, {x}))
    BY ColumnSize DEF Naturals
  <2>2. IsFiniteSet(Cells(f, T \cup {x}))
    <3>1. IsFiniteSet(Cells(f, T))
      BY <1>2
    <3>2. IsFiniteSet(Cells(f, T) \cup Cells(f, {x}))
      BY <2>1, <3>1, FS_Union
    <3>3. Cells(f, T \cup {x}) = Cells(f, T) \cup Cells(f, {x})
      BY CellsUnion
    <3>4. QED BY <3>2, <3>3
  <2>3. QED BY <2>2
<1>3. S \in Q
  <2> HIDE DEF Q
  <2>1. QED BY <1>1, <1>2, SubsetInduction
<1>4. QED BY <1>3, FS_CardinalityType

LEMMA CellsAdd ==
  ASSUME NEW f, NEW S, IsFiniteSet(S), Naturals(f, S), NEW T, IsFiniteSet(T), Naturals(f, T),
         S \cap T = {}
  PROVE  Cardinality(Cells(f, S \cup T)) = Cardinality(Cells(f, S)) + Cardinality(Cells(f, T))
<1>1. /\ IsFiniteSet(Cells(f, S)) /\ Cardinality(Cells(f, S)) \in Nat
      /\ IsFiniteSet(Cells(f, T)) /\ Cardinality(Cells(f, T)) \in Nat
  BY CellsFinite
<1>2. Cardinality(Cells(f, S) \cup Cells(f, T)) =
        Cardinality(Cells(f, S)) + Cardinality(Cells(f, T))
          - Cardinality(Cells(f, S) \cap Cells(f, T))
  BY <1>1, FS_Union, Zenon
<1>3. Cells(f, S) \cap Cells(f, T) = {}
  BY CellsApart
<1>4. Cardinality(Cells(f, S) \cap Cells(f, T)) = 0
  BY <1>3, FS_EmptySet, Zenon
<1>5. Cells(f, S \cup T) = Cells(f, S) \cup Cells(f, T)
  BY CellsUnion
<1> DEFINE cS == Cardinality(Cells(f, S))
           cT == Cardinality(Cells(f, T))
           cU == Cardinality(Cells(f, S \cup T))
<1>6. cU = cS + cT - 0
  BY <1>2, <1>4, <1>5, Zenon
<1>7. cS \in Nat /\ cT \in Nat
  BY <1>1
<1> HIDE DEF cS, cT, cU
<1>8. cU = cS + cT
  BY <1>6, <1>7
<1>9. QED BY <1>8 DEF cS, cT, cU

LEMMA CellsTake ==
  ASSUME NEW f, NEW S, IsFiniteSet(S), Naturals(f, S), NEW x \in S
  PROVE  Cardinality(Cells(f, S)) = f[x] + Cardinality(Cells(f, S \ {x}))
<1>1. /\ S = {x} \cup (S \ {x}) /\ {x} \cap (S \ {x}) = {}
      /\ Naturals(f, {x}) /\ Naturals(f, S \ {x})
  BY DEF Naturals
<1>2. IsFiniteSet(S \ {x}) /\ IsFiniteSet({x})
  BY FS_RemoveElement, FS_Singleton
<1>3. Cardinality(Cells(f, {x} \cup (S \ {x}))) =
        Cardinality(Cells(f, {x})) + Cardinality(Cells(f, S \ {x}))
  BY <1>1, <1>2, CellsAdd
<1>4. Cardinality(Cells(f, {x})) = f[x]
  BY ColumnSize DEF Naturals
<1>5. QED BY <1>1, <1>3, <1>4

(* What SumFunctionOnSet computes, whichever element it takes first.       *)
First(S) == CHOOSE x \in S : TRUE
IsSum(it, f, S) ==
  it = [s \in SUBSET S |-> IF s = {} THEN 0 ELSE f[First(s)] + it[s \ {First(s)}]]

LEMMA SumIsCells ==
  ASSUME NEW f, NEW S, IsFiniteSet(S), Naturals(f, S)
  PROVE  SumFunctionOnSet(f, S) = Cardinality(Cells(f, S))
<1> DEFINE count == [s \in SUBSET S |-> Cardinality(Cells(f, s))]
           sum == CHOOSE it : IsSum(it, f, S)
<1>1. SumFunctionOnSet(f, S) = sum[S]
  BY Zenon DEF SumFunctionOnSet, FoldFunctionOnSet, MapThenFoldSet, IsSum, First
<1>2. count[{}] = 0
  BY CellsNone, FS_EmptySet
<1>3. \A s \in SUBSET S : s # {} =>
        First(s) \in s /\ count[s] = f[First(s)] + count[s \ {First(s)}]
  <2> SUFFICES ASSUME NEW s \in SUBSET S, s # {}, NEW x, x = First(s)
               PROVE  x \in s /\ count[s] = f[x] + count[s \ {x}]
    OBVIOUS
  <2>1. x \in s
    BY DEF First
  <2>2. IsFiniteSet(s) /\ Naturals(f, s)
    BY FS_Subset DEF Naturals
  <2>3. Cardinality(Cells(f, s)) = f[x] + Cardinality(Cells(f, s \ {x}))
    BY <2>1, <2>2, CellsTake
  <2>4. s \ {x} \in SUBSET S
    OBVIOUS
  <2>5. QED BY <2>1, <2>3, <2>4
<1>4. IsSum(sum, f, S)
  <2>1. IsSum(count, f, S)
    <3> HIDE DEF count
    <3>1. count = [s \in SUBSET S |-> count[s]]
      BY DEF count
    <3>2. QED BY <1>2, <1>3, <3>1 DEF IsSum
  <2> HIDE DEF count
  <2>2. QED BY <2>1
<1> HIDE DEF sum, count
<1>5. /\ sum[{}] = 0
      /\ \A s \in SUBSET S : s # {} => sum[s] = f[First(s)] + sum[s \ {First(s)}]
  BY <1>4 DEF IsSum
<1> DEFINE Q == {n \in Nat : \E s \in SUBSET S : Cardinality(s) = n /\ sum[s] # count[s]}
<1>6. Q = {}
  <2> SUFFICES ASSUME Q # {} PROVE FALSE
    OBVIOUS
  <2>1. Q \subseteq Nat
    OBVIOUS
  <2>2. PICK n \in Q : \A k \in Q : n <= k
    <3> HIDE DEF Q
    <3>1. QED BY <2>1, LeastOf
  <2>3. PICK s \in SUBSET S : Cardinality(s) = n /\ sum[s] # count[s]
    BY <2>2
  <2>4. s # {}
    BY <1>2, <1>5, <2>3
  <2> DEFINE x == First(s)
  <2>5. x \in s
    BY <1>3, <2>4
  <2>6. sum[s] = f[x] + sum[s \ {x}] /\ count[s] = f[x] + count[s \ {x}]
    BY <1>3, <1>5, <2>4
  <2> HIDE DEF x
  <2>7. Cardinality(s \ {x}) = n - 1 /\ Cardinality(s \ {x}) \in Nat
    <3>1. IsFiniteSet(s)
      BY FS_Subset
    <3>2. IsFiniteSet(s \ {x}) /\ Cardinality(s \ {x}) = Cardinality(s) - 1
      BY <2>5, <3>1, FS_RemoveElement
    <3>3. Cardinality(s \ {x}) \in Nat
      BY <3>2, FS_CardinalityType
    <3>4. QED BY <2>3, <3>2, <3>3
  <2>8. n - 1 \notin Q
    <3> HIDE DEF Q
    <3>1. n \in Nat
      BY <2>1
    <3>2. QED BY <2>2, <3>1
  <2>9. sum[s \ {x}] = count[s \ {x}]
    <3>1. s \ {x} \in SUBSET S
      OBVIOUS
    <3>2. QED BY <2>7, <2>8, <3>1
  <2>10. QED BY <2>3, <2>6, <2>9
<1>7. sum[S] = count[S]
  <2>1. Cardinality(S) \in Nat
    BY FS_CardinalityType
  <2>2. QED BY <1>6, <2>1
<1>8. count[S] = Cardinality(Cells(f, S))
  BY DEF count
<1>9. QED BY <1>1, <1>7, <1>8

(* A function of the sums below: finitely many natural numbers.            *)
Summable(f) == IsFiniteSet(DOMAIN f) /\ Naturals(f, DOMAIN f)
CellsOf(f) == Cells(f, DOMAIN f)

LEMMA SumOfCells ==
  ASSUME NEW f, Summable(f)
  PROVE  /\ SumFunction(f) = Cardinality(CellsOf(f))
         /\ IsFiniteSet(CellsOf(f))
         /\ SumFunction(f) \in Nat
<1>1. SumFunction(f) = SumFunctionOnSet(f, DOMAIN f)
  BY DEF SumFunction
<1>2. QED BY <1>1, SumIsCells, CellsFinite DEF Summable, CellsOf

(* Every value of f has a value of g of its own, at least as large.        *)
LEMMA SumAtMost ==
  ASSUME NEW f, Summable(f), NEW g, Summable(g),
         NEW h \in [DOMAIN f -> DOMAIN g],
         \A x \in DOMAIN f : f[x] <= g[h[x]],
         \A x, y \in DOMAIN f : h[x] = h[y] => x = y
  PROVE  SumFunction(f) <= SumFunction(g)
<1> DEFINE move == [c \in CellsOf(f) |-> <<h[c[1]], c[2]>>]
<1>1. \A c \in CellsOf(f) : /\ c = <<c[1], c[2]>> /\ c[1] \in DOMAIN f
                            /\ c[2] \in Nat /\ c[2] < f[c[1]]
  BY DEF CellsOf, Cells
<1>2. move \in [CellsOf(f) -> CellsOf(g)]
  <2> SUFFICES ASSUME NEW c \in CellsOf(f) PROVE <<h[c[1]], c[2]>> \in CellsOf(g)
    OBVIOUS
  <2>1. c[2] < g[h[c[1]]] /\ h[c[1]] \in DOMAIN g
    <3> DEFINE low == f[c[1]]
               high == g[h[c[1]]]
    <3>1. low \in Nat /\ high \in Nat /\ low <= high /\ h[c[1]] \in DOMAIN g
      BY <1>1 DEF Summable, Naturals
    <3>2. c[2] \in Nat /\ c[2] < low
      BY <1>1
    <3> HIDE DEF low, high
    <3>3. c[2] < high
      BY <3>1, <3>2
    <3>4. QED BY <3>1, <3>3 DEF high
  <2>2. QED BY <1>1, <2>1 DEF CellsOf, Cells
<1>3. \A c, d \in CellsOf(f) : move[c] = move[d] => c = d
  <2> SUFFICES ASSUME NEW c \in CellsOf(f), NEW d \in CellsOf(f),
                      <<h[c[1]], c[2]>> = <<h[d[1]], d[2]>>
               PROVE  c = d
    OBVIOUS
  <2>1. h[c[1]] = h[d[1]] /\ c[2] = d[2]
    OBVIOUS
  <2>2. c[1] = d[1]
    BY <1>1, <2>1
  <2>3. QED BY <1>1, <2>1, <2>2
<1> HIDE DEF move
<1>4. move \in Injection(CellsOf(f), CellsOf(g))
  BY <1>2, <1>3 DEF Injection, IsInjective
<1>5. Cardinality(CellsOf(f)) <= Cardinality(CellsOf(g))
  BY <1>4, SumOfCells, FS_Injection
<1>6. QED BY <1>5, SumOfCells

LEMMA SumMonotone ==
  ASSUME NEW f, Summable(f), NEW g, Summable(g), DOMAIN f \subseteq DOMAIN g,
         \A x \in DOMAIN f : f[x] <= g[x]
  PROVE  SumFunction(f) <= SumFunction(g)
<1> DEFINE h == [x \in DOMAIN f |-> x]
<1>1. /\ h \in [DOMAIN f -> DOMAIN g]
      /\ \A x \in DOMAIN f : h[x] = x
  OBVIOUS
<1> HIDE DEF h
<1>2. QED BY <1>1, SumAtMost

LEMMA SumOfOne ==
  ASSUME NEW f, Summable(f), NEW x, DOMAIN f = {x}
  PROVE  SumFunction(f) = f[x]
<1>1. CellsOf(f) = Cells(f, {x}) /\ f[x] \in Nat
  BY DEF CellsOf, Summable, Naturals
<1>2. QED BY <1>1, SumOfCells, ColumnSize

LEMMA SumWithOneMore ==
  ASSUME NEW f, Summable(f), NEW g, Summable(g), NEW x, x \notin DOMAIN g,
         \A y : y \in DOMAIN f <=> y \in DOMAIN g \/ y = x,
         \A y \in DOMAIN g : g[y] = f[y]
  PROVE  SumFunction(f) = f[x] + SumFunction(g)
<1>1. DOMAIN f \ {x} = DOMAIN g /\ x \in DOMAIN f
  OBVIOUS
<1>2. Cells(f, DOMAIN f \ {x}) = CellsOf(g)
  BY <1>1 DEF CellsOf, Cells
<1>3. Cardinality(CellsOf(f)) = f[x] + Cardinality(Cells(f, DOMAIN f \ {x}))
  BY <1>1, CellsTake DEF CellsOf, Summable
<1>4. QED BY <1>2, <1>3, SumOfCells

LEMMA SumOfNone == ASSUME NEW f, DOMAIN f = {} PROVE SumFunction(f) = 0
<1>1. Summable(f) /\ CellsOf(f) = {}
  BY CellsNone, FS_EmptySet DEF Summable, Naturals, CellsOf
<1>2. QED BY <1>1, SumOfCells, FS_EmptySet

(* As many equal values as S has elements.                                 *)
LEMMA SumOfSame ==
  ASSUME NEW S, IsFiniteSet(S), NEW n \in Nat
  PROVE  SumFunction([x \in S |-> n]) = Cardinality(S) * n
<1> DEFINE f == [x \in S |-> n]
           I == 0 .. n - 1
<1>1. Summable(f) /\ DOMAIN f = S /\ \A x \in S : f[x] = n
  BY DEF Summable, Naturals
<1>2. IsFiniteSet(I) /\ Cardinality(I) = n
  <2>1. 0 \in Int /\ n - 1 \in Int
    OBVIOUS
  <2>2. /\ IsFiniteSet(0 .. n - 1)
        /\ Cardinality(0 .. n - 1) = IF 0 > n - 1 THEN 0 ELSE (n - 1) - 0 + 1
    BY <2>1, FS_Interval
  <2>3. QED BY <2>2
<1>3. CellsOf(f) = S \X I
  <2> HIDE DEF f
  <2>1. QED BY <1>1 DEF CellsOf, Cells
<1>4. Cardinality(S \X I) = Cardinality(S) * Cardinality(I)
  <2> HIDE DEF I
  <2>1. QED BY <1>2, FS_Product
<1> HIDE DEF f, I
<1>5. SumFunction(f) = Cardinality(S) * n
  BY <1>1, <1>2, <1>3, <1>4, SumOfCells
<1>6. QED BY <1>5 DEF f

(* The same values under other names.                                      *)
LEMMA SumRenamed ==
  ASSUME NEW f, Summable(f), NEW g, Summable(g), NEW h \in [DOMAIN f -> DOMAIN g],
         \A x, y \in DOMAIN f : h[x] = h[y] => x = y,
         \A y \in DOMAIN g : \E x \in DOMAIN f : h[x] = y,
         \A x \in DOMAIN f : f[x] = g[h[x]]
  PROVE  SumFunction(f) = SumFunction(g)
<1> DEFINE back == [y \in DOMAIN g |-> CHOOSE x \in DOMAIN f : h[x] = y]
<1>1. \A y \in DOMAIN g : back[y] \in DOMAIN f /\ h[back[y]] = y
  OBVIOUS
<1>2. back \in [DOMAIN g -> DOMAIN f]
  BY <1>1
<1>3. \A x \in DOMAIN f : f[x] \in Nat
  BY DEF Summable, Naturals
<1>4. \A y \in DOMAIN g : g[y] \in Nat
  BY DEF Summable, Naturals
<1> HIDE DEF back
<1>5. SumFunction(f) <= SumFunction(g)
  <2>1. \A x \in DOMAIN f : f[x] <= g[h[x]]
    BY <1>3
  <2>2. QED BY <2>1, SumAtMost
<1>6. SumFunction(g) <= SumFunction(f)
  <2>1. \A y \in DOMAIN g : g[y] <= f[back[y]]
    BY <1>1, <1>4
  <2>2. \A x, y \in DOMAIN g : back[x] = back[y] => x = y
    BY <1>1
  <2>3. QED BY <1>2, <2>1, <2>2, SumAtMost
<1>7. SumFunction(f) \in Nat /\ SumFunction(g) \in Nat
  BY SumOfCells
<1>8. QED BY <1>5, <1>6, <1>7

(* A sum falls apart into that of g and that of h, whose values are moved. *)
LEMMA SumOfTwo ==
  ASSUME NEW f, Summable(f), NEW g, Summable(g), NEW h, Summable(h),
         DOMAIN g \subseteq DOMAIN f,
         \A x \in DOMAIN g : f[x] = g[x],
         NEW move \in [DOMAIN h -> DOMAIN f \ DOMAIN g],
         \A x, y \in DOMAIN h : move[x] = move[y] => x = y,
         \A y \in DOMAIN f \ DOMAIN g : \E x \in DOMAIN h : move[x] = y,
         \A x \in DOMAIN h : h[x] = f[move[x]]
  PROVE  SumFunction(f) = SumFunction(g) + SumFunction(h)
<1> DEFINE G == DOMAIN g
           R == DOMAIN f \ DOMAIN g
           r == [x \in R |-> f[x]]
<1>1. G \cup R = DOMAIN f /\ G \cap R = {}
  OBVIOUS
<1>2. IsFiniteSet(G) /\ Naturals(f, G) /\ IsFiniteSet(R) /\ Naturals(f, R)
  BY <1>1, FS_Subset DEF Summable, Naturals
<1>3. DOMAIN r = R /\ Summable(r) /\ \A x \in R : r[x] = f[x]
  BY <1>2 DEF Summable, Naturals
<1>4. CellsOf(g) = Cells(f, G) /\ CellsOf(r) = Cells(f, R)
  BY <1>3 DEF CellsOf, Cells
<1> HIDE DEF r
<1>5. SumFunction(h) = SumFunction(r)
  BY <1>3, SumRenamed
<1>6. Cardinality(Cells(f, G \cup R)) = Cardinality(Cells(f, G)) + Cardinality(Cells(f, R))
  <2> HIDE DEF G, R
  <2>1. QED BY <1>1, <1>2, CellsAdd
<1>7. SumFunction(f) = Cardinality(Cells(f, G \cup R))
  BY <1>1, SumOfCells DEF CellsOf
<1>8. SumFunction(g) = Cardinality(Cells(f, G)) /\ SumFunction(r) = Cardinality(Cells(f, R))
  BY <1>3, <1>4, SumOfCells
<1>9. QED BY <1>5, <1>6, <1>7, <1>8

(* A set of values that fall apart: each sum is at most what its part has. *)
LEMMA SumOfParts ==
  ASSUME NEW f, Summable(f), NEW g, Summable(g), NEW part,
         \A x \in DOMAIN f : part[x] \subseteq DOMAIN g,
         \A x, y \in DOMAIN f : \A e : e \in part[x] /\ e \in part[y] => x = y,
         \A x \in DOMAIN f : f[x] <= SumFunction([e \in part[x] |-> g[e]])
  PROVE  SumFunction(f) <= SumFunction(g)
<1> DEFINE Parts(T) == UNION {part[x] : x \in T}
           Q == {T \in SUBSET DOMAIN f :
                   Cardinality(Cells(f, T)) <= Cardinality(Cells(g, Parts(T)))}
<1>1. {} \in Q
  <2>1. Parts({}) = {}
    OBVIOUS
  <2>2. QED BY <2>1, CellsNone, FS_EmptySet
<1>2. ASSUME NEW T \in SUBSET DOMAIN f, NEW x \in DOMAIN f \ T, T \in Q
      PROVE  T \cup {x} \in Q
  <2>1. /\ Parts(T) \subseteq DOMAIN g /\ part[x] \subseteq DOMAIN g
        /\ Parts(T) \cap part[x] = {}
        /\ Parts(T \cup {x}) = Parts(T) \cup part[x]
    OBVIOUS
  <2> DEFINE P == Parts(T)
             U == part[x]
  <2>2. /\ P \subseteq DOMAIN g /\ U \subseteq DOMAIN g /\ P \cap U = {}
        /\ Parts(T \cup {x}) = P \cup U
        /\ Cardinality(Cells(f, T)) <= Cardinality(Cells(g, P))
    BY <1>2, <2>1
  <2> HIDE DEF P
  <2>3. /\ IsFiniteSet(P) /\ Naturals(g, P) /\ IsFiniteSet(U) /\ Naturals(g, U)
    BY <2>2, FS_Subset DEF Summable, Naturals
  <2>4. /\ IsFiniteSet(T) /\ Naturals(f, T) /\ IsFiniteSet({x}) /\ Naturals(f, {x})
        /\ T \cap {x} = {} /\ f[x] \in Nat
    BY FS_Subset, FS_Singleton DEF Summable, Naturals
  <2>5. f[x] <= Cardinality(Cells(g, U))
    <3> DEFINE r == [e \in U |-> g[e]]
    <3>1. Summable(r) /\ DOMAIN r = U
      BY <2>3 DEF Summable, Naturals
    <3>2. CellsOf(r) = Cells(g, U)
      BY DEF CellsOf, Cells
    <3>3. f[x] <= SumFunction(r)
      OBVIOUS
    <3> HIDE DEF r, U
    <3>4. QED BY <3>1, <3>2, <3>3, SumOfCells
  <2> HIDE DEF U
  <2>6. Cardinality(Cells(g, P \cup U)) = Cardinality(Cells(g, P)) + Cardinality(Cells(g, U))
    BY <2>2, <2>3, CellsAdd
  <2>7. Cardinality(Cells(f, T \cup {x})) = Cardinality(Cells(f, T)) + Cardinality(Cells(f, {x}))
    BY <2>4, CellsAdd
  <2>8. Cardinality(Cells(f, {x})) = f[x]
    BY <2>4, ColumnSize
  <2>9. /\ Cardinality(Cells(f, T)) \in Nat
        /\ Cardinality(Cells(g, P)) \in Nat /\ Cardinality(Cells(g, U)) \in Nat
    BY <2>3, <2>4, CellsFinite
  <2>10. Cardinality(Cells(f, T \cup {x})) <= Cardinality(Cells(g, P \cup U))
    <3> DEFINE a == Cardinality(Cells(f, T))
               b == f[x]
               c == Cardinality(Cells(g, P))
               d == Cardinality(Cells(g, U))
    <3>1. a <= c /\ b <= d /\ {a, b, c, d} \subseteq Nat
      BY <2>2, <2>4, <2>5, <2>9
    <3>2. /\ Cardinality(Cells(f, T \cup {x})) = a + b
          /\ Cardinality(Cells(g, P \cup U)) = c + d
      BY <2>6, <2>7, <2>8
    <3> HIDE DEF a, b, c, d
    <3>3. a + b <= c + d
      BY <3>1
    <3>4. QED BY <3>2, <3>3
  <2>11. QED BY <2>2, <2>10
<1>3. DOMAIN f \in Q
  <2> HIDE DEF Q
  <2>1. QED BY <1>1, <1>2, SubsetInduction DEF Summable
<1>4. Cardinality(Cells(g, Parts(DOMAIN f))) <= Cardinality(CellsOf(g))
  <2>1. Cells(g, Parts(DOMAIN f)) \subseteq CellsOf(g)
    BY DEF Cells, CellsOf
  <2>2. QED BY <2>1, SumOfCells, FS_Subset
<1>5. QED
  <2> DEFINE a == Cardinality(CellsOf(f))
             b == Cardinality(Cells(g, Parts(DOMAIN f)))
             c == Cardinality(CellsOf(g))
  <2>1. a <= b /\ b <= c
    BY <1>3, <1>4 DEF CellsOf
  <2>2. a \in Nat /\ c \in Nat /\ b \in Nat
    <3>1. IsFiniteSet(Parts(DOMAIN f)) /\ Naturals(g, Parts(DOMAIN f))
      BY FS_Subset DEF Summable, Naturals
    <3>2. QED BY <3>1, CellsFinite DEF CellsOf, Summable
  <2>3. SumFunction(f) = a /\ SumFunction(g) = c
    BY SumOfCells
  <2> HIDE DEF a, b, c
  <2>4. a <= c
    BY <2>1, <2>2
  <2>5. QED BY <2>3, <2>4

LEMMA TermAtMostSum ==
  ASSUME NEW f, NEW S, IsFiniteSet(S), Naturals(f, S), NEW x \in S
  PROVE  SumFunctionOnSet(f, S) \in Nat /\ f[x] <= SumFunctionOnSet(f, S)
<1>1. Cardinality(Cells(f, S)) = f[x] + Cardinality(Cells(f, S \ {x}))
  BY CellsTake
<1>2. Cardinality(Cells(f, S \ {x})) \in Nat
  <2>1. IsFiniteSet(S \ {x}) /\ Naturals(f, S \ {x})
    BY FS_RemoveElement DEF Naturals
  <2>2. QED BY <2>1, CellsFinite
<1>3. f[x] \in Nat
  BY DEF Naturals
<1>4. SumFunctionOnSet(f, S) = Cardinality(Cells(f, S))
  BY SumIsCells
<1>5. QED BY <1>1, <1>2, <1>3, <1>4
=============================================================================
