-------------------------- MODULE CarPricingProofs --------------------------
(***************************************************************************)
(* Proofs about CarPricing and the fee table it is charged from, for every *)
(* number of calls, parts, replacements and amounts and every bound.       *)
(***************************************************************************)
EXTENDS CarPricing, FiniteSetTheorems, TLAPS

-----------------------------------------------------------------------------
(* Sums.  Induction over the subsets of a finite set is by a smallest one  *)
(* that fails, so that no fact takes an operator as its parameter.         *)

\* Of a set of subsets of a finite set, one has no other one below it.
LEMMA SmallestSubset ==
  ASSUME NEW S, IsFiniteSet(S), NEW F, F \subseteq SUBSET S, F # {}
  PROVE  \E T \in F : \A U \in F : U \subseteq T => U = T
<1>1. IsWellFoundedOn(StrictSubsetOrdering(S), SUBSET S)
  BY FS_StrictSubsetOrderingWellFounded, FS_FiniteSubsetsOfFinite
<1>2. \E T \in F : \A U \in F : <<U, T>> \notin StrictSubsetOrdering(S)
  BY <1>1, WFMin
<1>3. \A U, T \in F : U \subseteq T /\ U # T => <<U, T>> \in StrictSubsetOrdering(S)
  BY DEF StrictSubsetOrdering
<1>4. QED
  BY <1>2, <1>3

\* A set of natural numbers has a least element.
LEMMA LeastNatural ==
  ASSUME NEW T, T \subseteq Nat, T # {}
  PROVE  \E n \in T : \A m \in T : ~(m < n)
<1>1. \E n \in T : \A m \in T : <<m, n>> \notin OpToRel(<, Nat)
  BY NatLessThanWellFounded, WFMin
<1>2. \A m, n \in T : m < n => <<m, n>> \in OpToRel(<, Nat)
  BY DEF OpToRel
<1>3. QED
  BY <1>1, <1>2

\* g sums up f over the sets of D, as the fold of the library does.
Any(T) == CHOOSE x \in T : TRUE
Adds(g, f, D) ==
  g = [T \in D |-> IF T = {} THEN 0 ELSE f[Any(T)] + g[T \ {Any(T)}]]

\* A set that is not empty has one to take first.
LEMMA AnyIsMember == \A T : T # {} => Any(T) \in T
BY DEF Any

\* Such a g is there for all subsets of a finite set, built up set size by set size.
LEMMA SumExists ==
  ASSUME NEW S, IsFiniteSet(S), NEW f
  PROVE  \E g : Adds(g, f, SUBSET S)
<1> DEFINE D(n) == {T \in SUBSET S : Cardinality(T) <= n}
           Bad == {n \in Nat : ~ \E g : Adds(g, f, D(n))}
<1>1. \A T \in SUBSET S : IsFiniteSet(T) /\ Cardinality(T) \in Nat
  BY FS_Subset, FS_CardinalityType
<1>2. Bad = {}
  <2> SUFFICES ASSUME Bad # {} PROVE FALSE
    OBVIOUS
  <2>1. PICK n \in Bad : \A m \in Bad : ~(m < n)
    <3>1. Bad \subseteq Nat
      OBVIOUS
    <3> HIDE DEF Bad
    <3>2. QED
      BY <3>1, LeastNatural
  <2>2. n \in Nat /\ ~ \E g : Adds(g, f, D(n))
    OBVIOUS
  <2>3. CASE n = 0
    <3>1. D(n) = {{}}
      <4>1. \A T \in SUBSET S : Cardinality(T) <= 0 <=> T = {}
        BY <1>1, FS_EmptySet
      <4>2. QED
        BY <4>1, <2>3
    <3>2. Adds([T \in {{}} |-> 0], f, {{}})
      BY DEF Adds
    <3>3. QED
      BY <2>2, <3>1, <3>2
  <2>4. CASE n # 0
    <3>1. n - 1 \in Nat /\ n - 1 < n
      BY <2>2, <2>4
    <3>2. n - 1 \notin Bad
      BY <2>1, <3>1
    <3>3. PICK g : Adds(g, f, D(n - 1))
      BY <3>1, <3>2
    <3> DEFINE h == [T \in D(n) |-> IF T = {} THEN 0 ELSE f[Any(T)] + g[T \ {Any(T)}]]
    <3>4. ASSUME NEW T \in D(n), T # {}
          PROVE  T \ {Any(T)} \in D(n - 1) /\ T \ {Any(T)} \in D(n)
      <4>1. IsFiniteSet(T) /\ Cardinality(T) \in Nat /\ Any(T) \in T
        BY <1>1, <3>4, AnyIsMember
      <4>2. Cardinality(T \ {Any(T)}) = Cardinality(T) - 1
        BY <4>1, FS_RemoveElement
      <4>3. Cardinality(T \ {Any(T)}) <= n - 1 /\ Cardinality(T \ {Any(T)}) <= n
        BY <2>2, <3>4, <4>1, <4>2
      <4>4. QED
        BY <3>4, <4>3
    <3>5. \A T \in D(n - 1) : T \in D(n)
      BY <1>1, <2>2
    <3>6. \A T \in D(n - 1) : g[T] = h[T]
      <4>1. \A T \in D(n - 1) :
              g[T] = IF T = {} THEN 0 ELSE f[Any(T)] + g[T \ {Any(T)}]
        <5> HIDE DEF D
        <5>1. QED
          BY <3>3 DEF Adds
      <4> HIDE DEF D
      <4>2. QED
        BY <3>5, <4>1
    <3>7. h = [T \in D(n) |-> IF T = {} THEN 0 ELSE f[Any(T)] + h[T \ {Any(T)}]]
      <4>1. \A T \in D(n) : T # {} => g[T \ {Any(T)}] = h[T \ {Any(T)}]
        <5> HIDE DEF D, h
        <5>1. QED
          BY <3>4, <3>6
      <4>2. ASSUME NEW j, \A T \in D(n) : T # {} => g[T \ {Any(T)}] = j[T \ {Any(T)}]
            PROVE  h = [T \in D(n) |-> IF T = {} THEN 0 ELSE f[Any(T)] + j[T \ {Any(T)}]]
        <5> HIDE DEF D
        <5>1. QED
          BY <4>2
      <4> HIDE DEF D, h
      <4>3. QED
        BY <4>1, <4>2
    <3>8. Adds(h, f, D(n))
      <4> HIDE DEF D, h
      <4>1. QED
        BY <3>7 DEF Adds
    <3>9. QED
      BY <2>2, <3>8
  <2>5. QED
    BY <2>3, <2>4
<1>3. Cardinality(S) \in Nat /\ \A T \in SUBSET S : Cardinality(T) <= Cardinality(S)
  BY <1>1, FS_Subset
<1>4. D(Cardinality(S)) = SUBSET S
  BY <1>3
<1>5. Cardinality(S) \notin Bad
  BY <1>2
<1>6. \E g : Adds(g, f, D(Cardinality(S)))
  BY <1>3, <1>5
<1>7. QED
  BY <1>4, <1>6

\* One step of the sum.
LEMMA SumStep ==
  ASSUME NEW S, NEW f, NEW g, Adds(g, f, SUBSET S)
  PROVE  /\ g[{}] = 0
         /\ \A T \in SUBSET S : T # {} => g[T] = f[Any(T)] + g[T \ {Any(T)}]
BY DEF Adds

\* The values of f are integers.
Integral(f, S) == \A x \in S : f[x] \in Int

\* In the sum of a set every element counts, whichever is taken first.
Counts(g, f, S) ==
  \A T \in SUBSET S : /\ g[T] \in Int
                       /\ \A x \in T : g[T] = f[x] + g[T \ {x}]

\* The sum of a set with integers is one, and every element counts once.
LEMMA SumOfIntegers ==
  ASSUME NEW S, IsFiniteSet(S), NEW f, Integral(f, S), NEW g, Adds(g, f, SUBSET S)
  PROVE  Counts(g, f, S)
<1> DEFINE Ints == {T \in SUBSET S : g[T] \notin Int}
           Bad == {T \in SUBSET S : ~ \A x \in T : g[T] = f[x] + g[T \ {x}]}
<1> USE DEF Integral
<1>1. Ints = {}
  <2> SUFFICES ASSUME Ints # {} PROVE FALSE
    OBVIOUS
  <2>1. PICK T \in Ints : \A U \in Ints : U \subseteq T => U = T
    <3>1. Ints \subseteq SUBSET S
      OBVIOUS
    <3> HIDE DEF Ints
    <3>2. QED
      BY <3>1, SmallestSubset
  <2>2. T # {}
    <3>1. g[{}] = 0
      BY SumStep
    <3>2. g[{}] \in Int
      BY <3>1
    <3>3. QED
      BY <3>2, Zenon
  <2>3. Any(T) \in T /\ T \ {Any(T)} \in SUBSET S
    BY <2>2, AnyIsMember
  <2>4. T \ {Any(T)} \notin Ints
    <3> HIDE DEF Ints
    <3>1. QED
      BY <2>1, <2>3
  <2>5. g[T \ {Any(T)}] \in Int /\ f[Any(T)] \in Int
    BY <2>3, <2>4
  <2>6. g[T] = f[Any(T)] + g[T \ {Any(T)}]
    BY <2>2, SumStep
  <2>7. QED
    BY <2>5, <2>6
<1>2. \A T \in SUBSET S : g[T] \in Int
  BY <1>1
<1>3. Bad = {}
  <2> SUFFICES ASSUME Bad # {} PROVE FALSE
    OBVIOUS
  <2>1. PICK T \in Bad : \A U \in Bad : U \subseteq T => U = T
    <3>1. Bad \subseteq SUBSET S
      OBVIOUS
    <3> HIDE DEF Bad
    <3>2. QED
      BY <3>1, SmallestSubset
  <2>2. PICK x \in T : g[T] # f[x] + g[T \ {x}]
    OBVIOUS
  <2> DEFINE y == Any(T)
  <2>3. y \in T /\ g[T] = f[y] + g[T \ {y}]
    BY <2>2, SumStep, AnyIsMember
  <2>4. x # y
    BY <2>2, <2>3
  <2> HIDE DEF y
  <2>5. T \ {x} \notin Bad /\ T \ {y} \notin Bad
    <3> HIDE DEF Bad
    <3>1. QED
      BY <2>1, <2>2, <2>3
  <2>6. g[T \ {x}] = f[y] + g[(T \ {x}) \ {y}]
    BY <2>3, <2>4, <2>5
  <2>7. g[T \ {y}] = f[x] + g[(T \ {y}) \ {x}]
    BY <2>2, <2>4, <2>5
  <2>8. (T \ {x}) \ {y} = (T \ {y}) \ {x} /\ (T \ {x}) \ {y} \in SUBSET S
    OBVIOUS
  <2>9. f[x] \in Int /\ f[y] \in Int /\ g[(T \ {x}) \ {y}] \in Int
    BY <1>2, <2>3, <2>8
  <2>10. \A a, b, r \in Int : b + (a + r) = a + (b + r)
    OBVIOUS
  <2>11. g[T] = f[y] + (f[x] + g[(T \ {x}) \ {y}])
    BY <2>3, <2>7, <2>8
  <2>12. g[T] = f[x] + (f[y] + g[(T \ {x}) \ {y}])
    BY <2>9, <2>10, <2>11
  <2>13. QED
    BY <2>2, <2>6, <2>12
<1>4. QED
  BY <1>2, <1>3 DEF Counts

\* Sums of two functions that agree on a set are equal there.
LEMMA SumsAgree ==
  ASSUME NEW S, IsFiniteSet(S), NEW f, NEW g, Adds(g, f, SUBSET S),
         NEW e, NEW h, Adds(h, e, SUBSET S), NEW R \in SUBSET S,
         \A x \in R : f[x] = e[x]
  PROVE  g[R] = h[R]
<1> DEFINE Bad == {T \in SUBSET R : g[T] # h[T]}
<1>1. Bad = {}
  <2> SUFFICES ASSUME Bad # {} PROVE FALSE
    OBVIOUS
  <2>1. PICK T \in Bad : \A U \in Bad : U \subseteq T => U = T
    <3>1. Bad \subseteq SUBSET S
      OBVIOUS
    <3> HIDE DEF Bad
    <3>2. QED
      BY <3>1, SmallestSubset
  <2>2. T # {}
    BY SumStep
  <2>3. Any(T) \in T /\ T \ {Any(T)} \in SUBSET R
    BY <2>2, AnyIsMember
  <2>4. T \ {Any(T)} \notin Bad
    <3> HIDE DEF Bad
    <3>1. QED
      BY <2>1, <2>3
  <2>5. g[T] = f[Any(T)] + g[T \ {Any(T)}] /\ h[T] = e[Any(T)] + h[T \ {Any(T)}]
    BY <2>2, SumStep
  <2>6. QED
    BY <2>3, <2>4, <2>5
<1>2. QED
  BY <1>1

\* The sum of the values v, as PartsSum takes it.
SumOver(v) == MapThenSumSet(LAMBDA p : Or0(v[p]), Parts)

\* The value of a part is a whole number, of either sign.
LEMMA ValuesAreAmounts == \A v \in Values : v \in Int /\ Or0(v) = v
BY PricingAssumption DEF Or0

\* The fold computes a sum in the sense above.
LEMMA SumOverAdds ==
  ASSUME NEW v
  PROVE  \E g : /\ Adds(g, [p \in Parts |-> Or0(v[p])], SUBSET Parts)
                /\ SumOver(v) = g[Parts]
<1> DEFINE f == [p \in Parts |-> Or0(v[p])]
           iter == CHOOSE it : it = [s \in SUBSET Parts |->
                     IF s = {} THEN 0 ELSE Or0(v[Any(s)]) + it[s \ {Any(s)}]]
<1>1. SumOver(v) = iter[Parts]
  BY DEF SumOver, MapThenSumSet, MapThenFoldSet, Any
<1>2. PICK g : Adds(g, f, SUBSET Parts)
  BY SumExists, PartsAssumption
<1>3. \A s \in SUBSET Parts : s # {} => f[Any(s)] = Or0(v[Any(s)])
  BY AnyIsMember
<1>4. g = [s \in SUBSET Parts |->
             IF s = {} THEN 0 ELSE Or0(v[Any(s)]) + g[s \ {Any(s)}]]
  <2> HIDE DEF f
  <2>1. QED
    BY <1>2, <1>3 DEF Adds
<1>5. iter = [s \in SUBSET Parts |->
                IF s = {} THEN 0 ELSE Or0(v[Any(s)]) + iter[s \ {Any(s)}]]
  BY <1>4
<1>6. Adds(iter, f, SUBSET Parts)
  <2> HIDE DEF f, iter
  <2>1. QED
    BY <1>3, <1>5 DEF Adds
<1>7. QED
  BY <1>1, <1>6

\* The sum is a whole number, and follows a change of one part.
LEMMA SumFollows ==
  ASSUME NEW v \in [Parts -> Values \cup {None}], NEW p \in Parts,
         NEW x \in Values \cup {None}
  PROVE  \E r \in Int : /\ SumOver(v) = Or0(v[p]) + r
                        /\ SumOver([v EXCEPT ![p] = x]) = Or0(x) + r
<1> DEFINE w == [v EXCEPT ![p] = x]
           f == [q \in Parts |-> Or0(v[q])]
           e == [q \in Parts |-> Or0(w[q])]
<1>1. /\ \A q \in Parts : f[q] \in Int /\ e[q] \in Int
      /\ \A q \in Parts \ {p} : f[q] = e[q]
      /\ f[p] = Or0(v[p]) /\ e[p] = Or0(x)
  <2>1. w \in [Parts -> Values \cup {None}]
    OBVIOUS
  <2>2. \A y \in Values \cup {None} : Or0(y) \in Int
    BY PricingAssumption DEF Or0
  <2>3. w[p] = x /\ \A q \in Parts \ {p} : w[q] = v[q]
    OBVIOUS
  <2> HIDE DEF w
  <2>4. QED
    BY <2>1, <2>2, <2>3
<1>2. PICK g : Adds(g, f, SUBSET Parts) /\ SumOver(v) = g[Parts]
  BY SumOverAdds
<1>3. PICK h : Adds(h, e, SUBSET Parts) /\ SumOver(w) = h[Parts]
  BY SumOverAdds
<1> HIDE DEF f, e, w
<1>4. /\ g[Parts] = f[p] + g[Parts \ {p}]
      /\ g[Parts \ {p}] \in Int
  <2>1. Counts(g, f, Parts)
    <3>1. /\ IsFiniteSet(Parts) /\ Adds(g, f, SUBSET Parts)
          /\ Integral(f, Parts)
      BY <1>1, <1>2, PartsAssumption DEF Integral
    <3>2. QED
      BY ONLY <3>1, SumOfIntegers
  <2>2. QED
    BY ONLY <2>1, p \in Parts DEF Counts
<1>5. h[Parts] = e[p] + h[Parts \ {p}]
  <2>1. Counts(h, e, Parts)
    <3>1. /\ IsFiniteSet(Parts) /\ Adds(h, e, SUBSET Parts)
          /\ Integral(e, Parts)
      BY <1>1, <1>3, PartsAssumption DEF Integral
    <3>2. QED
      BY ONLY <3>1, SumOfIntegers
  <2>2. QED
    BY ONLY <2>1, p \in Parts DEF Counts
<1>6. g[Parts \ {p}] = h[Parts \ {p}]
  BY <1>1, <1>2, <1>3, SumsAgree, PartsAssumption
<1>7. QED
  BY <1>1, <1>2, <1>3, <1>4, <1>5, <1>6 DEF w

\* Without parts it is 0.
LEMMA SumOfNone == SumOver([p \in Parts |-> None]) = 0
<1> DEFINE f == [p \in Parts |-> Or0([q \in Parts |-> None][p])]
           Bad(g) == {T \in SUBSET Parts : g[T] # 0}
<1>1. \A q \in Parts : f[q] = 0
  BY DEF Or0
<1>2. PICK g : /\ Adds(g, f, SUBSET Parts)
               /\ SumOver([p \in Parts |-> None]) = g[Parts]
  BY SumOverAdds
<1> HIDE DEF f
<1>3. Bad(g) = {}
  <2> SUFFICES ASSUME Bad(g) # {} PROVE FALSE
    OBVIOUS
  <2>1. PICK T \in Bad(g) : \A U \in Bad(g) : U \subseteq T => U = T
    <3>1. Bad(g) \subseteq SUBSET Parts
      OBVIOUS
    <3> HIDE DEF Bad
    <3>2. QED
      BY <3>1, SmallestSubset, PartsAssumption
  <2>2. T # {}
    BY <1>2, SumStep
  <2>3. Any(T) \in T /\ T \ {Any(T)} \in SUBSET Parts
    BY <2>2, AnyIsMember
  <2>4. T \ {Any(T)} \notin Bad(g)
    <3> HIDE DEF Bad
    <3>1. QED
      BY <2>1, <2>3
  <2>5. g[T] = f[Any(T)] + g[T \ {Any(T)}]
    BY <1>2, <2>2, SumStep
  <2>6. QED
    BY <1>1, <2>3, <2>4, <2>5
<1>4. QED
  BY <1>2, <1>3

-----------------------------------------------------------------------------
(* The fee table                                                           *)

ReplacementPcs == {"idle", "deleting", "deleted", "done"}

FeeTypes ==
  /\ fees \in [Auctions -> SUBSET Row]
  /\ replace \in [Replacements -> [pc : ReplacementPcs, auction : Auctions,
                                  rows : SUBSET Row]]

\* Rows of an answer are there once its replacement is done.
RowsAreOfDone ==
  \A a \in Auctions : \A r \in fees[a] :
    r.by \in Replacements => replace[r.by].pc = "done"

\* A replacement under way will delete the rows of other answers, but for those
\* of replacements it overlaps.
RowsAreSeen ==
  \A a \in Auctions : \A r \in fees[a] : \A u \in Replacing(a) :
    r.by \in Replacements => r \in replace[u].rows \/ {r.by, u} \subseteq overlaps

OverlapsAreKnown ==
  \A a \in Auctions : \A u, v \in Replacing(a) : u # v => {u, v} \subseteq overlaps

FeeInv ==
  FeeTypes /\ RowsAreOfDone /\ RowsAreSeen /\ OverlapsAreKnown /\ FeesOfOneAnswer

\* The table is empty at first.
LEMMA InitFees == FeeInit => FeeInv
<1> SUFFICES ASSUME FeeInit PROVE FeeInv
  OBVIOUS
<1>1. /\ fees = [a \in Auctions |-> {}]
      /\ replace = [u \in Replacements |-> NoReplacement]
  BY DEF FeeInit
<1>2. FeeTypes
  BY <1>1 DEF FeeTypes, NoReplacement, ReplacementPcs, Auctions
<1>3. \A a \in Auctions : Replacing(a) = {}
  BY <1>1 DEF Replacing, NoReplacement
<1>4. QED
  BY <1>1, <1>2, <1>3
     DEF FeeInv, RowsAreOfDone, RowsAreSeen, OverlapsAreKnown, FeesOfOneAnswer

\* A step of replacement u changes no other one.
LEMMA OthersReplace ==
  ASSUME FeeTypes, NEW u \in Replacements,
         replace' \in [Replacements -> [pc : ReplacementPcs, auction : Auctions,
                                       rows : SUBSET Row]],
         fees' \in [Auctions -> SUBSET Row],
         \A v \in Replacements : v # u => replace'[v] = replace[v]
  PROVE  /\ FeeTypes'
         /\ \A a \in Auctions : \A v \in Replacements :
              v # u => (v \in Replacing(a)' <=> v \in Replacing(a))
         /\ \A a \in Auctions :
              u \in Replacing(a)' <=> /\ replace'[u].auction = a
                                      /\ replace'[u].pc \in {"deleting", "deleted"}
BY DEF FeeTypes, Replacing

\* The DELETE takes its snapshot: it sees every row there is, and overlaps with
\* those that are under way.
LEMMA BeginKeepsFees ==
  ASSUME FeeInv, NEW u \in Replacements, NEW a \in Auctions, ReplaceBegin(u, a)
  PROVE  FeeInv'
<1> USE DEF FeeInv
<1>1. /\ replace[u].pc = "idle" /\ UNCHANGED fees
      /\ replace' = [replace EXCEPT ![u] = [pc |-> "deleting", auction |-> a,
                                            rows |-> fees[a]]]
      /\ overlaps \subseteq overlaps'
      /\ Replacing(a) # {} => Replacing(a) \cup {u} \subseteq overlaps'
  BY DEF ReplaceBegin
<1>2. /\ FeeTypes'
      /\ replace'[u].rows = fees[a]
      /\ \A v \in Replacements : v # u => replace'[v] = replace[v]
      /\ \A b \in Auctions : \A v \in Replacements :
           v # u => (v \in Replacing(b)' <=> v \in Replacing(b))
      /\ \A b \in Auctions : u \in Replacing(b)' <=> a = b
  <2>1. /\ fees' \in [Auctions -> SUBSET Row]
        /\ replace' \in [Replacements -> [pc : ReplacementPcs, auction : Auctions,
                                         rows : SUBSET Row]]
        /\ replace'[u].rows = fees[a] /\ replace'[u].auction = a
        /\ replace'[u].pc = "deleting"
        /\ \A v \in Replacements : v # u => replace'[v] = replace[v]
    BY <1>1 DEF FeeTypes, ReplacementPcs
  <2>2. QED
    BY <2>1, OthersReplace
<1>3. RowsAreOfDone'
  BY <1>1, <1>2 DEF RowsAreOfDone
<1>4. RowsAreSeen'
  <2> SUFFICES ASSUME NEW b \in Auctions, NEW r \in fees'[b],
                      NEW v \in Replacing(b)', r.by \in Replacements
               PROVE  r \in replace'[v].rows \/ {r.by, v} \subseteq overlaps'
    BY DEF RowsAreSeen
  <2>1. CASE v = u
    BY <1>1, <1>2, <2>1
  <2>2. CASE v # u
    <3>1. v \in Replacing(b) /\ replace'[v] = replace[v]
      BY <1>2, <2>2 DEF Replacing
    <3>2. QED
      BY <1>1, <3>1 DEF RowsAreSeen
  <2>3. QED
    BY <2>1, <2>2
<1>5. OverlapsAreKnown'
  <2> SUFFICES ASSUME NEW b \in Auctions, NEW v \in Replacing(b)',
                      NEW w \in Replacing(b)', v # w
               PROVE  {v, w} \subseteq overlaps'
    BY DEF OverlapsAreKnown
  <2>1. v \in Replacements /\ w \in Replacements
    BY DEF Replacing
  <2>2. CASE v # u /\ w # u
    BY <1>1, <1>2, <2>1, <2>2 DEF OverlapsAreKnown
  <2>3. CASE v = u \/ w = u
    BY <1>1, <1>2, <2>1, <2>3
  <2>4. QED
    BY <2>2, <2>3
<1>6. FeesOfOneAnswer'
  BY <1>1 DEF FeesOfOneAnswer
<1>7. QED
  BY <1>2, <1>3, <1>4, <1>5, <1>6

\* The rows deleted are those of the snapshot that are still there.
LEMMA DeleteKeepsFees ==
  ASSUME FeeInv, NEW u \in Replacements, ReplaceDelete(u)
  PROVE  FeeInv'
<1> USE DEF FeeInv
<1> DEFINE a == replace[u].auction
           rows == replace[u].rows \cap fees[a]
<1>1. a \in Auctions /\ rows \in SUBSET Row
  BY DEF FeeTypes
<1>2. /\ replace[u].pc = "deleting" /\ UNCHANGED <<fees, overlaps>>
      /\ fees' \in [Auctions -> SUBSET Row]
      /\ replace' \in [Replacements -> [pc : ReplacementPcs, auction : Auctions,
                                       rows : SUBSET Row]]
      /\ replace'[u].pc = "deleted" /\ replace'[u].auction = a
      /\ replace'[u].rows = rows
      /\ \A v \in Replacements : v # u => replace'[v] = replace[v]
  <2>1. /\ replace[u].pc = "deleting" /\ UNCHANGED <<fees, overlaps>>
        /\ replace' = [replace EXCEPT ![u].pc = "deleted", ![u].rows = @ \cap fees[a]]
    BY DEF ReplaceDelete
  <2>2. QED
    BY <1>1, <2>1 DEF FeeTypes, ReplacementPcs
<1> HIDE DEF a, rows
<1>3. a = replace[u].auction /\ rows = replace[u].rows \cap fees[a]
  BY DEF a, rows
<1>4. /\ FeeTypes'
      /\ replace'[u].rows = rows /\ replace'[u].pc = "deleted"
      /\ \A v \in Replacements : v # u => replace'[v] = replace[v]
      /\ \A b \in Auctions : \A v \in Replacements :
           v \in Replacing(b)' <=> v \in Replacing(b)
  <2>1. \A b \in Auctions : u \in Replacing(b) <=> a = b
    BY <1>2, <1>3 DEF Replacing
  <2>2. /\ FeeTypes'
        /\ \A b \in Auctions : \A v \in Replacements :
             v # u => (v \in Replacing(b)' <=> v \in Replacing(b))
        /\ \A b \in Auctions : u \in Replacing(b)' <=> a = b
    BY <1>2, OthersReplace
  <2>3. QED
    BY <1>2, <2>1, <2>2
<1>5. RowsAreOfDone'
  BY <1>2, <1>4 DEF RowsAreOfDone
<1>6. RowsAreSeen'
  <2> SUFFICES ASSUME NEW b \in Auctions, NEW r \in fees'[b],
                      NEW v \in Replacing(b)', r.by \in Replacements
               PROVE  r \in replace'[v].rows \/ {r.by, v} \subseteq overlaps'
    BY DEF RowsAreSeen
  <2>1. v \in Replacements /\ v \in Replacing(b)
    BY <1>4 DEF Replacing
  <2>2. r \in replace[v].rows \/ {r.by, v} \subseteq overlaps
    BY <1>2, <2>1 DEF RowsAreSeen
  <2>3. v = u => b = a
    BY <1>3, <2>1 DEF Replacing
  <2>4. QED
    BY <1>2, <1>3, <1>4, <2>1, <2>2, <2>3
<1>7. OverlapsAreKnown'
  <2> SUFFICES ASSUME NEW b \in Auctions, NEW v \in Replacing(b)',
                      NEW w \in Replacing(b)', v # w
               PROVE  {v, w} \subseteq overlaps'
    BY DEF OverlapsAreKnown
  <2>1. v \in Replacements /\ w \in Replacements
    BY DEF Replacing
  <2>2. QED
    BY <1>2, <1>4, <2>1 DEF OverlapsAreKnown
<1>8. FeesOfOneAnswer'
  BY <1>2 DEF FeesOfOneAnswer
<1>9. QED
  BY <1>4, <1>5, <1>6, <1>7, <1>8

\* The new row stays with rows of overlapping replacements only.
LEMMA CommitKeepsFees ==
  ASSUME FeeInv, NEW u \in Replacements, NEW amount \in Amounts \cup {DefaultFee},
         ReplaceCommit(u, amount)
  PROVE  FeeInv'
<1> USE DEF FeeInv
<1> DEFINE a == replace[u].auction
           row == [by |-> u, amount |-> amount]
<1>1. a \in Auctions /\ row \in Row /\ row.by = u
  BY DEF FeeTypes, Row
<1>2. /\ replace[u].pc = "deleted" /\ UNCHANGED overlaps
      /\ fees' = [fees EXCEPT ![a] = (fees[a] \ replace[u].rows) \cup {row}]
      /\ replace' \in [Replacements -> [pc : ReplacementPcs, auction : Auctions,
                                       rows : SUBSET Row]]
      /\ replace'[u].pc = "done"
      /\ \A v \in Replacements : v # u => replace'[v] = replace[v]
  <2>1. /\ replace[u].pc = "deleted" /\ UNCHANGED overlaps
        /\ fees' = [fees EXCEPT ![a] = (@ \ replace[u].rows) \cup {row}]
        /\ replace' = [replace EXCEPT ![u].pc = "done", ![u].rows = {}]
    BY DEF ReplaceCommit
  <2>2. /\ replace' \in [Replacements -> [pc : ReplacementPcs, auction : Auctions,
                                         rows : SUBSET Row]]
        /\ replace'[u].pc = "done"
        /\ \A v \in Replacements : v # u => replace'[v] = replace[v]
    BY <2>1 DEF FeeTypes, ReplacementPcs
  <2>3. fees' = [fees EXCEPT ![a] = (fees[a] \ replace[u].rows) \cup {row}]
    BY <1>1, <2>1 DEF FeeTypes
  <2>4. QED
    BY <2>1, <2>2, <2>3
<1> HIDE DEF a, row
<1>3. /\ a = replace[u].auction
      /\ fees' \in [Auctions -> SUBSET Row]
      /\ fees'[a] = (fees[a] \ replace[u].rows) \cup {row}
      /\ \A b \in Auctions : b # a => fees'[b] = fees[b]
  <2>1. a = replace[u].auction
    BY DEF a
  <2>2. QED
    BY <1>1, <1>2, <2>1 DEF FeeTypes
<1>4. u \in Replacing(a)
  BY <1>2, <1>3 DEF Replacing
<1>5. /\ FeeTypes'
      /\ replace'[u].pc = "done"
      /\ \A v \in Replacements : v # u => replace'[v] = replace[v]
      /\ \A b \in Auctions : \A v \in Replacing(b)' : v # u /\ v \in Replacing(b)
  <2>1. /\ FeeTypes'
        /\ replace'[u].pc = "done"
        /\ \A v \in Replacements : v # u => replace'[v] = replace[v]
        /\ \A b \in Auctions : \A v \in Replacements :
             v # u => (v \in Replacing(b)' <=> v \in Replacing(b))
        /\ \A b \in Auctions : u \notin Replacing(b)'
    BY <1>2, <1>3, OthersReplace
  <2>2. \A b \in Auctions : \A v \in Replacing(b)' : v \in Replacements
    BY DEF Replacing
  <2>3. QED
    BY <2>1, <2>2
<1>6. RowsAreOfDone'
  <2> SUFFICES ASSUME NEW b \in Auctions, NEW r \in fees'[b], r.by \in Replacements
               PROVE  replace'[r.by].pc = "done"
    BY DEF RowsAreOfDone
  <2>1. r = row \/ r \in fees[b]
    BY <1>3
  <2>2. QED
    BY <1>1, <1>5, <2>1 DEF RowsAreOfDone
<1>7. RowsAreSeen'
  <2> SUFFICES ASSUME NEW b \in Auctions, NEW r \in fees'[b],
                      NEW v \in Replacing(b)', r.by \in Replacements
               PROVE  r \in replace'[v].rows \/ {r.by, v} \subseteq overlaps'
    BY DEF RowsAreSeen
  <2>1. v # u /\ v \in Replacing(b) /\ v \in Replacements
    BY <1>5 DEF Replacing
  <2>2. CASE r \in fees[b]
    BY <1>2, <1>5, <2>1, <2>2 DEF RowsAreSeen
  <2>3. CASE r \notin fees[b]
    <3>1. r = row /\ b = a
      BY <1>3, <2>3
    <3>2. QED
      BY <1>1, <1>2, <1>4, <2>1, <3>1 DEF OverlapsAreKnown
  <2>4. QED
    BY <2>2, <2>3
<1>8. OverlapsAreKnown'
  <2>1. \A b \in Auctions : \A v, w \in Replacing(b)' :
          v # w => {v, w} \subseteq overlaps'
    BY <1>2, <1>5 DEF OverlapsAreKnown
  <2>2. QED
    BY <2>1 DEF OverlapsAreKnown
<1>9. FeesOfOneAnswer'
  <2> SUFFICES ASSUME NEW b \in Auctions, NEW r \in fees'[b], NEW s \in fees'[b],
                      r.by # s.by, {r.by, s.by} \subseteq Replacements
               PROVE  {r.by, s.by} \subseteq overlaps'
    BY DEF FeesOfOneAnswer
  <2>1. \A q \in fees'[b] : \/ q = row /\ b = a
                            \/ q \in fees[b] /\ (b = a => q \notin replace[u].rows)
    BY <1>3
  <2>2. \A q \in fees[a] : q \notin replace[u].rows /\ q.by \in Replacements
                          => {q.by, u} \subseteq overlaps
    BY <1>1, <1>4 DEF RowsAreSeen
  <2>3. \A q \in fees'[b] : b = a /\ q.by # u /\ q.by \in Replacements
                           => {q.by, u} \subseteq overlaps'
    BY <1>1, <1>2, <2>1, <2>2
  <2>4. CASE r = row
    <3>1. b = a /\ r.by = u /\ s.by # u
      BY <1>1, <1>2, <2>1, <2>4 DEF RowsAreOfDone
    <3>2. QED
      BY <2>3, <3>1
  <2>5. CASE s = row
    <3>1. b = a /\ s.by = u /\ r.by # u
      BY <1>1, <1>2, <2>1, <2>5 DEF RowsAreOfDone
    <3>2. QED
      BY <2>3, <3>1
  <2>6. CASE r # row /\ s # row
    BY <1>2, <2>1, <2>6 DEF FeesOfOneAnswer
  <2>7. QED
    BY <2>4, <2>5, <2>6
<1>10. QED
  BY <1>5, <1>6, <1>7, <1>8, <1>9

\* Rows entered or deleted by hand are of no answer.
LEMMA EditKeepsFees ==
  ASSUME FeeInv, NEW a \in Auctions,
         (\E amount \in Amounts : CreateFee(a, amount)) \/ DeleteFee(a)
  PROVE  FeeInv'
<1> USE DEF FeeInv
<1>1. PICK r \in Row : /\ UNCHANGED <<replace, overlaps>>
                       /\ \/ /\ r.by = Manual
                             /\ fees' = [fees EXCEPT ![a] = fees[a] \cup {r}]
                          \/ fees' = [fees EXCEPT ![a] = fees[a] \ {r}]
  <2>1. CASE \E amount \in Amounts : CreateFee(a, amount)
    <3>1. PICK amount \in Amounts : CreateFee(a, amount)
      BY <2>1
    <3>2. [by |-> Manual, amount |-> amount] \in Row
      BY DEF Row
    <3>3. /\ UNCHANGED <<replace, overlaps>>
          /\ fees' = [fees EXCEPT ![a] = @ \cup {[by |-> Manual, amount |-> amount]}]
      BY <3>1 DEF CreateFee
    <3>4. QED
      BY <3>2, <3>3 DEF FeeTypes
  <2>2. CASE DeleteFee(a)
    <3>1. PICK r \in fees[a] : fees' = [fees EXCEPT ![a] = @ \ {r}]
      BY <2>2 DEF DeleteFee
    <3>2. UNCHANGED <<replace, overlaps>>
      BY <2>2 DEF DeleteFee
    <3>3. QED
      BY <3>1, <3>2 DEF FeeTypes
  <2>3. QED
    BY <2>1, <2>2
<1>2. FeeTypes'
  BY <1>1 DEF FeeTypes
<1>3. \A b \in Auctions : \A q \in fees'[b] : q.by \in Replacements => q \in fees[b]
  BY <1>1, ManualIsNoReplacement DEF FeeTypes
<1>4. \A b \in Auctions : Replacing(b)' = Replacing(b)
  BY <1>1 DEF Replacing
<1>5. RowsAreOfDone'
  BY <1>1, <1>3 DEF RowsAreOfDone
<1>6. RowsAreSeen'
  BY <1>1, <1>3, <1>4 DEF RowsAreSeen
<1>7. OverlapsAreKnown'
  BY <1>1, <1>4 DEF OverlapsAreKnown
<1>8. FeesOfOneAnswer'
  BY <1>1, <1>3 DEF FeesOfOneAnswer
<1>9. QED
  BY <1>2, <1>5, <1>6, <1>7, <1>8

\* A replacement that fails leaves the rows as they are.
LEMMA FailKeepsFees ==
  ASSUME FeeInv, NEW u \in Replacements, ReplaceFail(u)
  PROVE  FeeInv'
<1> USE DEF FeeInv
<1>1. /\ UNCHANGED <<fees, overlaps>>
      /\ replace' = [replace EXCEPT ![u].pc = "done", ![u].rows = {}]
  BY DEF ReplaceFail
<1>2. /\ fees' \in [Auctions -> SUBSET Row]
      /\ replace' \in [Replacements -> [pc : ReplacementPcs, auction : Auctions,
                                       rows : SUBSET Row]]
      /\ replace'[u].pc = "done"
      /\ \A v \in Replacements : v # u => replace'[v] = replace[v]
  BY <1>1 DEF FeeTypes, ReplacementPcs
<1>3. /\ FeeTypes'
      /\ \A a \in Auctions : \A v \in Replacements :
           v # u => (v \in Replacing(a)' <=> v \in Replacing(a))
      /\ \A a \in Auctions : u \notin Replacing(a)'
  BY <1>2, OthersReplace
<1>4. \A a \in Auctions : \A v \in Replacing(a)' :
        v \in Replacing(a) /\ replace'[v] = replace[v]
  <2>1. \A a \in Auctions : \A v \in Replacing(a)' : v \in Replacements
    BY DEF Replacing
  <2>2. QED
    BY <1>2, <1>3, <2>1
<1>5. RowsAreOfDone'
  BY <1>1, <1>2 DEF RowsAreOfDone
<1>6. RowsAreSeen'
  BY <1>1, <1>4 DEF RowsAreSeen
<1>7. OverlapsAreKnown'
  <2>1. \A a \in Auctions : \A v, w \in Replacing(a)' :
          v # w => {v, w} \subseteq overlaps'
    BY <1>1, <1>4 DEF OverlapsAreKnown
  <2>2. QED
    BY <2>1 DEF OverlapsAreKnown
<1>8. FeesOfOneAnswer'
  BY <1>1 DEF FeesOfOneAnswer
<1>9. QED
  BY <1>3, <1>5, <1>6, <1>7, <1>8

\* A row that is changed by hand is of no answer from then on.
LEMMA ChangeKeepsFees ==
  ASSUME FeeInv, NEW a \in Auctions, NEW b \in Auctions, NEW amount \in Amounts,
         UpdateFee(a, b, amount)
  PROVE  FeeInv'
<1> USE DEF FeeInv
<1>1. PICK new : new = [by |-> Manual, amount |-> amount]
  OBVIOUS
<1>2. new \in Row /\ new.by = Manual
  BY <1>1 DEF Row
<1>3. PICK r \in fees[a] :
        /\ fees' = [c \in Auctions |-> (fees[c] \ (IF c = a THEN {r} ELSE {}))
                                        \cup (IF c = b THEN {new} ELSE {})]
        /\ replace' = [u \in Replacements |->
             IF a = b /\ u \in Replacing(a) /\ r \in replace[u].rows
             THEN [replace[u] EXCEPT !.rows = @ \cup {new}] ELSE replace[u]]
        /\ UNCHANGED overlaps
  BY <1>1 DEF UpdateFee
<1>4. ASSUME NEW u \in Replacements
      PROVE  /\ replace'[u] \in [pc : ReplacementPcs, auction : Auctions,
                                  rows : SUBSET Row]
             /\ replace'[u].pc = replace[u].pc /\ replace'[u].auction = replace[u].auction
             /\ replace[u].rows \subseteq replace'[u].rows
  <2>1. replace[u] \in [pc : ReplacementPcs, auction : Auctions, rows : SUBSET Row]
    BY DEF FeeTypes
  <2>2. replace'[u] = replace[u] \/ replace'[u] = [replace[u] EXCEPT !.rows = @ \cup {new}]
    BY <1>3
  <2>3. QED
    BY <1>2, <2>1, <2>2
<1>5. FeeTypes'
  <2>1. replace' = [u \in Replacements |-> replace'[u]]
    BY <1>3
  <2>2. fees' \in [Auctions -> SUBSET Row]
    BY <1>2, <1>3 DEF FeeTypes
  <2>3. QED
    BY <1>4, <2>1, <2>2 DEF FeeTypes
<1>6. \A c \in Auctions : \A q \in fees'[c] : q.by \in Replacements => q \in fees[c]
  BY <1>2, <1>3, ManualIsNoReplacement
<1>7. \A c \in Auctions : Replacing(c)' = Replacing(c)
  BY <1>4 DEF Replacing
<1>8. RowsAreOfDone'
  BY <1>4, <1>6 DEF RowsAreOfDone
<1>9. RowsAreSeen'
  <2> SUFFICES ASSUME NEW c \in Auctions, NEW q \in fees'[c],
                      NEW u \in Replacing(c)', q.by \in Replacements
               PROVE  q \in replace'[u].rows \/ {q.by, u} \subseteq overlaps'
    BY DEF RowsAreSeen
  <2>1. u \in Replacing(c) /\ u \in Replacements /\ q \in fees[c]
    BY <1>6, <1>7 DEF Replacing
  <2>2. QED
    BY <1>3, <1>4, <2>1 DEF RowsAreSeen
<1>10. OverlapsAreKnown'
  BY <1>3, <1>7 DEF OverlapsAreKnown
<1>11. FeesOfOneAnswer'
  BY <1>3, <1>6 DEF FeesOfOneAnswer
<1>12. QED
  BY <1>5, <1>8, <1>9, <1>10, <1>11

\* Every step of the fee table, and every other one, keeps it.
LEMMA FeeSteps == FeeInv /\ [Next]_vars => FeeInv'
<1> SUFFICES ASSUME FeeInv, [Next]_vars PROVE FeeInv'
  OBVIOUS
<1>1. CASE FeeNext
  <2>1. \A u \in Replacements : AuctionOf[u] \in Auctions
    BY AuctionAssumption
  <2>2. QED
    BY <1>1, <2>1, BeginKeepsFees, DeleteKeepsFees, CommitKeepsFees, FailKeepsFees,
       EditKeepsFees, ChangeKeepsFees DEF FeeNext
<1>2. CASE UNCHANGED feeVars
  BY <1>2 DEF FeeInv, FeeTypes, RowsAreOfDone, RowsAreSeen, OverlapsAreKnown,
              FeesOfOneAnswer, Replacing, feeVars
<1>3. FeeNext \/ UNCHANGED feeVars
  BY DEF Next, vars, Begin, AddPart, UpdatePart, DeletePart, UpdateCosts, UpdatePrice,
         ParsePrice, UpdateActualBid, UpdateStatus, ImportRead, Load, Commit,
         CallRefused, ImportWrite, ImportFail, AttachHistory, InventoryDeleted,
         AttachRefused, RecordStatus, Crash
<1>4. QED
  BY <1>1, <1>2, <1>3

\* Rows of two answers are in the table together only if their replacements have
\* overlapped (proxy_upload, update_car_fees).
THEOREM OneAnswerCharges == Spec => []FeesOfOneAnswer
<1>1. Spec => []FeeInv
  BY InitFees, FeeSteps, PTL DEF Spec, PricingInit
<1>2. FeeInv => FeesOfOneAnswer
  BY DEF FeeInv
<1>3. QED
  BY <1>1, <1>2, PTL

-----------------------------------------------------------------------------
(* Calls and what they write                                               *)

PartOps == {"add", "update", "delete"}
Ops == PartOps \cup {"costs", "price", "parse", "bid", "status"}
CallPcs == {"idle", "loaded", "read", "won", "bereft", "record"}
StatusPcs == {"won", "bereft", "record"}
CallFields == {"pc", "op", "id", "arg", "fee", "seen", "part"}
MoneyColumns == {"parts_cost", "costs", "auction_fee", "predicted", "suggested_bid"}
Columns == MoneyColumns \cup {"actual_bid", "car_status"}

CallShape(c) ==
  /\ DOMAIN call[c] = CallFields /\ call[c] = [f \in CallFields |-> call[c][f]]
  /\ call[c].pc \in CallPcs
  /\ call[c].pc \in {"loaded", "read"} =>
       call[c].seen = [f \in Columns |-> call[c].seen[f]]
  /\ call[c].pc = "loaded" => call[c].op \in Ops
  /\ call[c].pc = "read" => call[c].op = "import"
  /\ call[c].pc \in StatusPcs => call[c].op = "status"

PricingShape ==
  /\ car = [f \in Columns |-> car[f]]
  /\ call = [c \in Calls |-> call[c]]
  /\ \A c \in Calls : CallShape(c)

\* The UPDATE of a call with the row it computes.
KOf(c) == Locked(call[c])
After(c) == Computed(KOf(c))

\* SumOfInvestments and Suggested depend on the money columns only.
LEMMA SuggestedOf ==
  ASSUME NEW a, NEW b, Or0(a.auction_fee) = Or0(b.auction_fee), a.costs = b.costs,
         a.parts_cost = b.parts_cost, a.predicted = b.predicted
  PROVE  Suggested(a) = Suggested(b)
BY DEF Suggested, SumOfInvestments

\* What a change of parts makes of a row.
LEMMA ReconsideredRow ==
  ASSUME NEW r, r = [f \in Columns |-> r[f]]
  PROVE  /\ Reconsidered(r) = [f \in Columns |-> Reconsidered(r)[f]]
         /\ \A f \in MoneyColumns \ {"suggested_bid"} : Reconsidered(r)[f] = r[f]
         /\ r.suggested_bid = None => Reconsidered(r).suggested_bid = None
         /\ r.suggested_bid # None
            => Reconsidered(r).suggested_bid = Suggested(Reconsidered(r))
<1>1. CASE r.suggested_bid = None
  BY <1>1 DEF Reconsidered, MoneyColumns
<1>2. CASE r.suggested_bid # None
  <2>1. PICK d : d = [r EXCEPT !.suggested_bid = Suggested(r)]
    OBVIOUS
  <2>2. /\ d = [f \in Columns |-> d[f]]
        /\ \A f \in MoneyColumns \ {"suggested_bid"} : d[f] = r[f]
        /\ d.suggested_bid = Suggested(r)
    BY <2>1 DEF Columns, MoneyColumns
  <2>3. Suggested(d) = Suggested(r)
    BY <2>2, SuggestedOf DEF MoneyColumns
  <2>4. Reconsidered(r) = d
    BY <1>2, <2>1 DEF Reconsidered
  <2>5. QED
    BY <1>2, <2>2, <2>3, <2>4
<1>3. QED
  BY <1>1, <1>2

\* What each call makes of the row it has loaded.
LEMMA ComputedRow ==
  ASSUME NEW k, k.op \in Ops, k.seen = [f \in Columns |-> k.seen[f]]
  PROVE  LET new == Computed(k) IN
         /\ new = [f \in Columns |-> new[f]]
         /\ k.op \notin PartOps => new.parts_cost = k.seen.parts_cost
         /\ k.op = "add" => new.parts_cost = Plus(k.seen.parts_cost, k.arg)
         /\ k.op = "update" /\ Changes(k) =>
              new.parts_cost = k.seen.parts_cost + k.arg - k.part
         /\ k.op = "update" /\ ~Changes(k) => new.parts_cost = k.seen.parts_cost
         /\ k.op = "delete" => new.parts_cost = k.seen.parts_cost - k.part
         /\ k.op \in PartOps =>
              /\ k.seen.suggested_bid = None => new.suggested_bid = None
              /\ k.seen.suggested_bid # None => new.suggested_bid = Suggested(new)
         /\ k.op \in {"costs", "price", "parse"} =>
              new.suggested_bid \in {Suggested(new), Cut(Suggested(new))}
         /\ k.op = "bid" =>
              /\ new.auction_fee = k.fee
              /\ \A f \in MoneyColumns \ {"auction_fee"} : new[f] = k.seen[f]
         /\ k.op = "status" => \A f \in MoneyColumns : new[f] = k.seen[f]
<1> DEFINE new == Computed(k)
<1>1. CASE k.op \in PartOps
  <2>1. PICK x : /\ new = Reconsidered([k.seen EXCEPT !.parts_cost = x])
                 /\ k.op = "add" => x = Plus(k.seen.parts_cost, k.arg)
                 /\ k.op = "update" /\ Changes(k) =>
                      x = k.seen.parts_cost + k.arg - k.part
                 /\ k.op = "update" /\ ~Changes(k) => x = k.seen.parts_cost
                 /\ k.op = "delete" => x = k.seen.parts_cost - k.part
    <3>1. CASE k.op = "add"
      BY <3>1 DEF Computed, Columns, MoneyColumns
    <3>2. CASE k.op = "update"
      <4>1. CASE Changes(k)
        BY <3>2, <4>1 DEF Computed
      <4>2. CASE ~Changes(k)
        <5>1. k.seen = [k.seen EXCEPT !.parts_cost = k.seen.parts_cost]
          BY DEF Columns, MoneyColumns
        <5>2. new = Reconsidered(k.seen)
          BY <3>2, <4>2 DEF Computed
        <5> HIDE DEF new
        <5>3. QED
          BY <3>2, <4>2, <5>1, <5>2
      <4>3. QED
        BY <4>1, <4>2
    <3>3. CASE k.op = "delete"
      BY <3>3 DEF Computed, Columns, MoneyColumns
    <3>4. QED
      BY <1>1, <3>1, <3>2, <3>3 DEF PartOps
  <2>2. PICK r : r = [k.seen EXCEPT !.parts_cost = x]
    OBVIOUS
  <2>3. /\ r = [f \in Columns |-> r[f]]
        /\ r.parts_cost = x /\ r.suggested_bid = k.seen.suggested_bid
    BY <2>2 DEF Columns, MoneyColumns
  <2>4. new = Reconsidered(r)
    BY <2>1, <2>2
  <2> HIDE DEF new
  <2>5. /\ new = [f \in Columns |-> new[f]] /\ new.parts_cost = x
        /\ r.suggested_bid = None => new.suggested_bid = None
        /\ r.suggested_bid # None => new.suggested_bid = Suggested(new)
    BY <2>3, <2>4, ReconsideredRow DEF MoneyColumns
  <2>6. QED
    BY <1>1, <2>1, <2>3, <2>5 DEF PartOps, new
<1>2. CASE k.op \in {"costs", "price", "parse"}
  <2>1. \E r : \E b \in {Suggested(r), Cut(Suggested(r))} :
          /\ r = [f \in Columns |-> r[f]]
          /\ r.parts_cost = k.seen.parts_cost
          /\ new = [r EXCEPT !.suggested_bid = b]
    <3>1. CASE k.op = "costs"
      <4>1. PICK r : r = [k.seen EXCEPT !.costs = k.arg]
        OBVIOUS
      <4>2. r = [f \in Columns |-> r[f]] /\ r.parts_cost = k.seen.parts_cost
        BY <4>1 DEF Columns, MoneyColumns
      <4>3. new = [r EXCEPT !.suggested_bid = Suggested(r)]
        BY <3>1, <4>1 DEF Computed
      <4>4. QED
        BY <4>2, <4>3
    <3>2. CASE k.op \in {"price", "parse"}
      <4>1. PICK q : q = [k.seen EXCEPT !.predicted = k.arg]
        OBVIOUS
      <4>2. q = [f \in Columns |-> q[f]] /\ q.parts_cost = k.seen.parts_cost
        BY <4>1 DEF Columns, MoneyColumns
      <4>3. PICK r : r = [q EXCEPT !.auction_fee = k.fee]
        OBVIOUS
      <4>4. r = [f \in Columns |-> r[f]] /\ r.parts_cost = k.seen.parts_cost
        BY <4>2, <4>3 DEF Columns, MoneyColumns
      <4>5. new = Priced(k.seen, k.arg, k.fee)
        BY <3>2 DEF Computed
      <4>6. new = [r EXCEPT !.suggested_bid = Cut(Suggested(r))]
        BY <4>1, <4>3, <4>5 DEF Priced
      <4>7. QED
        BY <4>4, <4>6
    <3>3. QED
      BY <1>2, <3>1, <3>2
  <2> HIDE DEF new
  <2>2. PICK r : \E b \in {Suggested(r), Cut(Suggested(r))} :
          /\ r = [f \in Columns |-> r[f]]
          /\ r.parts_cost = k.seen.parts_cost
          /\ new = [r EXCEPT !.suggested_bid = b]
    BY <2>1
  <2>3. PICK b \in {Suggested(r), Cut(Suggested(r))} :
          /\ r = [f \in Columns |-> r[f]]
          /\ r.parts_cost = k.seen.parts_cost
          /\ new = [r EXCEPT !.suggested_bid = b]
    BY <2>2
  <2>4. /\ new = [f \in Columns |-> new[f]]
        /\ new.suggested_bid = b
        /\ \A f \in MoneyColumns \ {"suggested_bid"} : new[f] = r[f]
    BY <2>3 DEF Columns, MoneyColumns
  <2>5. Suggested(new) = Suggested(r) /\ new.parts_cost = k.seen.parts_cost
    BY <2>3, <2>4, SuggestedOf DEF MoneyColumns
  <2>6. new.suggested_bid \in {Suggested(new), Cut(Suggested(new))}
    BY <2>3, <2>4, <2>5
  <2>7. QED
    BY <1>2, <2>4, <2>5, <2>6 DEF PartOps, new
<1>3. CASE k.op = "bid"
  <2>1. PICK q : q = [k.seen EXCEPT !.actual_bid = k.arg]
    OBVIOUS
  <2>2. q = [f \in Columns |-> q[f]] /\ \A f \in MoneyColumns : q[f] = k.seen[f]
    BY <2>1 DEF Columns, MoneyColumns
  <2>3. new = [q EXCEPT !.auction_fee = k.fee]
    BY <1>3, <2>1 DEF Computed
  <2> HIDE DEF new
  <2>4. /\ new = [f \in Columns |-> new[f]] /\ new.auction_fee = k.fee
        /\ \A f \in MoneyColumns \ {"auction_fee"} : new[f] = k.seen[f]
    BY <2>2, <2>3 DEF Columns, MoneyColumns
  <2>5. QED
    BY <1>3, <2>4 DEF PartOps, MoneyColumns, new
<1>4. CASE k.op = "status"
  <2>1. new = [k.seen EXCEPT !.car_status = k.arg]
    BY <1>4 DEF Computed
  <2> HIDE DEF new
  <2>2. /\ new = [f \in Columns |-> new[f]]
        /\ \A f \in MoneyColumns : new[f] = k.seen[f]
    BY <2>1 DEF Columns, MoneyColumns
  <2>3. QED
    BY <1>4, <2>2 DEF PartOps, MoneyColumns, new
<1>5. QED
  BY <1>1, <1>2, <1>3, <1>4 DEF Ops

\* What the call has loaded when it writes.
LEMMA LockedCall ==
  ASSUME PricingShape, NEW c \in Calls, call[c].pc = "loaded"
  PROVE  /\ KOf(c).op = call[c].op /\ KOf(c).op \in Ops
         /\ KOf(c).id = call[c].id /\ KOf(c).arg = call[c].arg
         /\ KOf(c).fee = call[c].fee /\ KOf(c).part = call[c].part
         /\ KOf(c).seen = [f \in Columns |-> KOf(c).seen[f]]
         /\ call[c].op # "parse" => KOf(c) = call[c]
         /\ call[c].op = "parse" => KOf(c).seen = car
<1>1. CASE call[c].op = "parse"
  <2>1. KOf(c) = [call[c] EXCEPT !.seen = car]
    BY <1>1 DEF KOf, Locked
  <2>2. QED
    BY <1>1, <2>1 DEF PricingShape, CallShape, CallFields
<1>2. CASE call[c].op # "parse"
  <2>1. KOf(c) = call[c]
    BY <1>2 DEF KOf, Locked
  <2>2. QED
    BY <1>2, <2>1 DEF PricingShape, CallShape
<1>3. QED
  BY <1>1, <1>2

\* The row after the UPDATE; without a race the money columns are the computed
\* ones, and those of a change of status stay.
LEMMA CommittedRow ==
  ASSUME PricingShape, NEW c \in Calls, Commit(c)
  PROVE  /\ car' = [f \in Columns |-> car'[f]]
         /\ \A f \in MoneyColumns :
              car'[f] = IF After(c)[f] # KOf(c).seen[f] THEN After(c)[f] ELSE car[f]
         /\ ~raced' /\ KOf(c).op # "status"
            => /\ \A f \in MoneyColumns : car'[f] = After(c)[f]
               /\ \A f \in MoneyColumns : car[f] = KOf(c).seen[f]
               /\ Changes(KOf(c)) => parts[KOf(c).id] = KOf(c).part
         /\ KOf(c).op = "status" => \A f \in MoneyColumns : car'[f] = car[f]
         /\ ~raced' => ~raced
<1>1. call[c].pc = "loaded"
  BY DEF Commit, KOf
<1>2. car' = Written(KOf(c), After(c))
  BY DEF Commit, KOf, After
<1>3. DOMAIN car = Columns
  BY DEF PricingShape
<1>4. car' = [f \in Columns |-> IF After(c)[f] # KOf(c).seen[f] THEN After(c)[f] ELSE car[f]]
  BY <1>2, <1>3 DEF Written
<1>5. /\ car' = [f \in Columns |-> car'[f]]
      /\ \A f \in MoneyColumns :
           car'[f] = IF After(c)[f] # KOf(c).seen[f] THEN After(c)[f] ELSE car[f]
  BY <1>4 DEF Columns, MoneyColumns
<1>6. raced' = (raced \/ /\ KOf(c).op # "status"
                         /\ \/ Money(car) # Money(KOf(c).seen)
                            \/ Changes(KOf(c)) /\ parts[KOf(c).id] # KOf(c).part)
  BY DEF Commit, KOf
<1>7. ~raced' => ~raced
  BY <1>6, Zenon
<1>8. ~raced' /\ KOf(c).op # "status"
      => /\ Money(car) = Money(KOf(c).seen)
         /\ Changes(KOf(c)) => parts[KOf(c).id] = KOf(c).part
  BY <1>6, Zenon
<1>9. Money(car) = Money(KOf(c).seen)
      => \A f \in MoneyColumns : car[f] = KOf(c).seen[f]
  BY DEF Money, MoneyColumns
<1>10. KOf(c).op = "status" => \A f \in MoneyColumns : After(c)[f] = KOf(c).seen[f]
  BY <1>1, LockedCall, ComputedRow DEF After
<1>11. QED
  BY <1>5, <1>7, <1>8, <1>9, <1>10

-----------------------------------------------------------------------------
(* The inductive invariant of the car                                      *)

PartsTypes ==
  /\ parts \in [Parts -> Values \cup {None}]
  /\ car.parts_cost \in Int \cup {None}

\* A call on a part: one that adds has its id to itself, one that changes or
\* deletes has read the value.
PartCall(c) ==
  call[c].pc # "idle" =>
    /\ call[c].op \notin PartOps => call[c].id = None
    /\ call[c].op \in PartOps => call[c].id \in Parts
    /\ call[c].op \in PartOps \cup {"import"} =>
         call[c].seen.parts_cost \in Int \cup {None}
    /\ call[c].op \in {"add", "update"} => call[c].arg \in Values
    /\ call[c].op \in {"update", "delete"} => call[c].part \in Values
    /\ call[c].op = "add" =>
         /\ parts[call[c].id] = None
         /\ \A d \in Calls \ {c} : call[d].pc # "idle" => call[d].id # call[c].id

Pending == {c \in Calls : call[c].pc \in StatusPcs}

Records == [status : Nat, history : Nat, refused : Nat, restored : Nat]

\* Changes that will never be on record.
Lost == crashes + records.refused + records.restored

\* A change that is not on record yet belongs to a call that will record it, or
\* is lost for a cause.
StatusInv ==
  /\ records \in Records /\ crashes \in Nat
  /\ IsFiniteSet(Pending)
  /\ records.status - records.history <= Lost + Cardinality(Pending)

PartsInv ==
  /\ PartsTypes
  /\ \A c \in Calls : PartCall(c)
  /\ PartsCostExact

CarInv == PricingShape /\ PartsInv /\ SuggestedBidExact /\ StatusInv

\* PartsSum is the sum of the parts there are.
LEMMA PartsSumNow == PartsSum = SumOver(parts)
BY DEF PartsSum, SumOver

\* And of those there are after a step.
LEMMA PartsSumNext == PartsSum' = SumOver(parts')
BY DEF PartsSum, SumOver, MapThenSumSet, MapThenFoldSet

\* The initial state.
LEMMA InitCar == PricingInit => CarInv
<1> SUFFICES ASSUME PricingInit PROVE CarInv
  OBVIOUS
<1>1. /\ car = [parts_cost |-> None, costs |-> None, auction_fee |-> None,
                predicted |-> None, suggested_bid |-> None, actual_bid |-> None,
                car_status |-> "New"]
      /\ parts = [p \in Parts |-> None]
      /\ call = [c \in Calls |-> NoCall]
      /\ records = [status |-> 0, history |-> 0, refused |-> 0, restored |-> 0]
      /\ crashes = 0
  BY DEF PricingInit
<1>2. PricingShape
  BY <1>1 DEF PricingShape, CallShape, NoCall, CallFields, CallPcs, StatusPcs, Columns,
              MoneyColumns
<1>3. PartsInv
  <2>1. PartsTypes
    BY <1>1 DEF PartsTypes
  <2>2. \A c \in Calls : PartCall(c)
    BY <1>1 DEF PartCall, NoCall
  <2>3. PartsCostExact
    BY <1>1, SumOfNone, PartsSumNow DEF PartsCostExact, Or0
  <2>4. QED
    BY <2>1, <2>2, <2>3 DEF PartsInv
<1>4. SuggestedBidExact
  BY <1>1 DEF SuggestedBidExact
<1>5. StatusInv
  <2>1. Pending = {}
    BY <1>1 DEF Pending, StatusPcs, NoCall
  <2>2. QED
    BY <1>1, <2>1, FS_EmptySet DEF StatusInv, Records, Lost
<1>6. QED
  BY <1>2, <1>3, <1>4, <1>5 DEF CarInv

\* A step of call c keeps the shape of the calls if what it becomes has it.
LEMMA KeepCallShape ==
  ASSUME PricingShape, NEW c \in Calls, NEW new, call' = [call EXCEPT ![c] = new],
         car' = [f \in Columns |-> car'[f]],
         DOMAIN new = CallFields, new = [f \in CallFields |-> new[f]], new.pc \in CallPcs,
         new.pc \in {"loaded", "read"} => new.seen = [f \in Columns |-> new.seen[f]],
         new.pc = "loaded" => new.op \in Ops,
         new.pc = "read" => new.op = "import",
         new.pc \in StatusPcs => new.op = "status"
  PROVE  /\ PricingShape'
         /\ call'[c] = new
         /\ \A d \in Calls : d # c => call'[d] = call[d]
<1>1. call'[c] = new /\ \A d \in Calls : d # c => call'[d] = call[d]
  BY DEF PricingShape
<1>2. \A d \in Calls : CallShape(d)'
  <2>1. CASE TRUE
    <3> SUFFICES ASSUME NEW d \in Calls PROVE CallShape(d)'
      OBVIOUS
    <3>1. CASE d = c
      BY <1>1, <3>1 DEF CallShape
    <3>2. CASE d # c
      BY <1>1, <3>2 DEF PricingShape, CallShape
    <3>3. QED
      BY <3>1, <3>2
  <2>2. QED
    BY <2>1
<1>3. call' = [d \in Calls |-> call'[d]]
  BY DEF PricingShape
<1>4. QED
  BY <1>1, <1>2, <1>3 DEF PricingShape

\* A call that leaves the row and the parts alone and ends, or goes on with its
\* record.
LEMMA QuietCall ==
  ASSUME CarInv, NEW c \in Calls, NEW new, call' = [call EXCEPT ![c] = new],
         DOMAIN new = CallFields, new = [f \in CallFields |-> new[f]],
         new.pc \in {"idle"} \cup StatusPcs,
         new.pc \in StatusPcs => new.op = "status" /\ new.id = None,
         UNCHANGED <<car, parts, raced, negative, feeMoved>>
  PROVE  PricingShape' /\ PartsInv' /\ SuggestedBidExact'
<1> USE DEF CarInv
<1>1. /\ PricingShape'
      /\ call'[c] = new
      /\ \A d \in Calls : d # c => call'[d] = call[d]
  <2>1. car' = [f \in Columns |-> car'[f]]
    BY DEF PricingShape
  <2>2. QED
    BY <2>1, KeepCallShape DEF CallPcs, StatusPcs
<1>2. \A d \in Calls : PartCall(d)'
  <2> SUFFICES ASSUME NEW d \in Calls PROVE PartCall(d)'
    OBVIOUS
  <2>1. CASE d = c
    BY <1>1, <2>1 DEF PartCall, PartOps, StatusPcs
  <2>2. CASE d # c
    <3>1. PartCall(d) /\ call'[d] = call[d]
      BY <1>1, <2>2 DEF PartsInv
    <3>2. call[d].op = "add" /\ call[d].pc # "idle" => call[d].id \in Parts
      BY <3>1 DEF PartCall, PartOps
    <3>3. \A e \in Calls \ {d} : call'[e].pc # "idle"
             => \/ call'[e].id = None
                \/ call[e].pc # "idle" /\ call'[e].id = call[e].id
      BY <1>1
    <3>4. call'[d].op = "add" /\ call'[d].pc # "idle"
          => \A e \in Calls \ {d} : call'[e].pc # "idle" => call'[e].id # call'[d].id
      BY <3>1, <3>2, <3>3, PartsAssumption DEF PartCall
    <3>5. QED
      BY <3>1, <3>4 DEF PartCall
  <2>3. QED
    BY <2>1, <2>2
<1>3. PartsInv'
  <2>1. PartsTypes' /\ PartsCostExact'
    BY PartsSumNow, PartsSumNext DEF PartsInv, PartsTypes, PartsCostExact
  <2>2. QED
    BY <1>2, <2>1 DEF PartsInv
<1>4. SuggestedBidExact'
  BY DEF SuggestedBidExact, Suggested, SumOfInvestments
<1>5. QED
  BY <1>1, <1>3, <1>4

\* A call that loads the row keeps the invariants of the amounts.
LEMMA LoadKeeps ==
  ASSUME CarInv, NEW c \in Calls, NEW op \in Ops \cup {"import"},
         NEW id, NEW arg, NEW fee,
         Load(c, op, id, arg, fee),
         op \notin PartOps => id = None,
         op \in PartOps => id \in Parts,
         op \in {"add", "update"} => arg \in Values,
         op = "add" => /\ parts[id] = None
                       /\ \A d \in Calls : call[d].pc # "idle" => call[d].id # id,
         op \in {"update", "delete"} => parts[id] # None
  PROVE  PricingShape' /\ PartsInv' /\ SuggestedBidExact' /\ Pending' = Pending
         /\ UNCHANGED <<records, crashes>>
<1> USE DEF CarInv
<1> DEFINE new == [pc |-> IF op = "import" THEN "read" ELSE "loaded", op |-> op,
                   id |-> id, arg |-> arg, fee |-> fee, seen |-> car,
                   part |-> IF id = None THEN None ELSE parts[id]]
<1>1. /\ call[c].pc = "idle" /\ call' = [call EXCEPT ![c] = new]
      /\ UNCHANGED <<car, parts, records, raced, negative, feeMoved, crashes>>
  BY DEF Load
<1>2. /\ DOMAIN new = CallFields /\ new = [f \in CallFields |-> new[f]]
      /\ new.pc = (IF op = "import" THEN "read" ELSE "loaded")
      /\ new.op = op /\ new.id = id /\ new.arg = arg /\ new.seen = car
  BY DEF CallFields
<1>3. op \in {"update", "delete"} => new.part = parts[id]
  BY PartsAssumption DEF PartOps
<1> HIDE DEF new
<1>4. /\ PricingShape'
      /\ call'[c] = new
      /\ \A d \in Calls : d # c => call'[d] = call[d]
  <2>1. car = [f \in Columns |-> car[f]] /\ car' = [f \in Columns |-> car'[f]]
    BY <1>1 DEF PricingShape
  <2>2. QED
    BY <1>1, <1>2, <2>1, KeepCallShape DEF CallPcs, StatusPcs
<1>5. \A d \in Calls : PartCall(d)'
  <2> SUFFICES ASSUME NEW d \in Calls PROVE PartCall(d)'
    OBVIOUS
  <2>1. CASE d = c
    <3>1. car.parts_cost \in Int \cup {None}
      BY DEF PartsInv, PartsTypes
    <3>2. op \in {"update", "delete"} => new.part \in Values
      <4>1. op \in {"update", "delete"} => id \in Parts /\ parts[id] # None
        BY DEF PartOps
      <4>2. QED
        BY <1>3, <4>1 DEF PartsInv, PartsTypes
    <3>3. \A e \in Calls \ {c} : call'[e] = call[e]
      BY <1>4
    <3>4. op = "add" => /\ parts'[id] = None
                        /\ \A e \in Calls \ {c} :
                             call'[e].pc # "idle" => call'[e].id # id
      BY <1>1, <3>3
    <3>5. QED
      BY <1>1, <1>2, <1>4, <2>1, <3>1, <3>2, <3>4 DEF PartCall
  <2>2. CASE d # c
    <3>1. PartCall(d) /\ call'[d] = call[d]
      BY <1>4, <2>2 DEF PartsInv
    <3>2. call[d].op = "add" /\ call[d].pc # "idle" => call[d].id # id
      <4>1. CASE op \in PartOps
        <5>1. call[d].op = "add" /\ call[d].pc # "idle" => parts[call[d].id] = None
          BY <3>1 DEF PartCall
        <5>2. op \in {"update", "delete"} \/ op = "add"
          BY <4>1 DEF PartOps
        <5>3. QED
          BY <5>1, <5>2
      <4>2. CASE op \notin PartOps
        BY <3>1, <4>2, PartsAssumption DEF PartCall, PartOps
      <4>3. QED
        BY <4>1, <4>2
    <3>3. \A e \in Calls \ {d} : \/ e = c
                                 \/ call'[e] = call[e]
      BY <1>4
    <3>4. call'[d].op = "add" /\ call'[d].pc # "idle"
          => \A e \in Calls \ {d} : call'[e].pc # "idle" => call'[e].id # call'[d].id
      BY <1>2, <1>4, <3>1, <3>2, <3>3 DEF PartCall
    <3>5. QED
      BY <1>1, <3>1, <3>4 DEF PartCall
  <2>3. QED
    BY <2>1, <2>2
<1>6. PartsInv'
  <2>1. PartsTypes' /\ PartsCostExact'
    BY <1>1, PartsSumNow, PartsSumNext DEF PartsInv, PartsTypes, PartsCostExact
  <2>2. QED
    BY <1>5, <2>1 DEF PartsInv
<1>7. SuggestedBidExact'
  BY <1>1 DEF SuggestedBidExact, Suggested, SumOfInvestments
<1>8. Pending' = Pending
  BY <1>1, <1>2, <1>4 DEF Pending, StatusPcs
<1>9. QED
  BY <1>1, <1>4, <1>6, <1>7, <1>8

\* Every call begins by loading.
LEMMA BeginKeeps ==
  ASSUME CarInv, NEW c \in Calls, Begin(c)
  PROVE  CarInv'
<1>1. /\ PricingShape' /\ PartsInv' /\ SuggestedBidExact' /\ Pending' = Pending
      /\ UNCHANGED <<records, crashes>>
  <2>1. CASE AddPart(c)
    <3>1. PICK p \in Parts, v \in Values :
            /\ parts[p] = None /\ \A d \in Calls : call[d].pc # "idle" => call[d].id # p
            /\ Load(c, "add", p, v, 0)
      BY <2>1 DEF AddPart
    <3>2. QED
      BY <3>1, LoadKeeps DEF Ops, PartOps
  <2>2. CASE UpdatePart(c)
    <3>1. PICK p \in Parts, v \in Values : parts[p] # None /\ Load(c, "update", p, v, 0)
      BY <2>2 DEF UpdatePart
    <3>2. QED
      BY <3>1, LoadKeeps DEF Ops, PartOps
  <2>3. CASE DeletePart(c)
    <3>1. PICK p \in Parts : parts[p] # None /\ Load(c, "delete", p, 0, 0)
      BY <2>3 DEF DeletePart
    <3>2. QED
      BY <3>1, LoadKeeps DEF Ops, PartOps
  <2>4. CASE UpdateCosts(c)
    <3>1. PICK v \in Values \cup {None} : Load(c, "costs", None, v, 0)
      BY <2>4 DEF UpdateCosts
    <3>2. QED
      BY <3>1, LoadKeeps DEF Ops, PartOps
  <2>5. CASE UpdatePrice(c) \/ ParsePrice(c)
    <3>1. PICK op \in {"price", "parse"}, p \in Prices \cup {0} :
            Load(c, op, None, p, FeeTotal(CarAuction))
      BY <2>5 DEF UpdatePrice, ParsePrice
    <3>2. op \in Ops /\ op \notin PartOps
      BY DEF Ops, PartOps
    <3>3. op \notin {"add", "update", "delete"}
      OBVIOUS
    <3>4. QED
      BY <3>1, <3>2, <3>3, LoadKeeps
  <2>6. CASE UpdateActualBid(c)
    <3>1. PICK b \in Bids : Load(c, "bid", None, b, FeeTotal(CarAuction))
      BY <2>6 DEF UpdateActualBid
    <3>2. QED
      BY <3>1, LoadKeeps DEF Ops, PartOps
  <2>7. CASE UpdateStatus(c)
    <3>1. PICK s \in Status : Load(c, "status", None, s, 0)
      BY <2>7 DEF UpdateStatus
    <3>2. QED
      BY <3>1, LoadKeeps DEF Ops, PartOps
  <2>8. CASE ImportRead(c)
    <3>1. Load(c, "import", None, 0, 0)
      BY <2>8 DEF ImportRead
    <3>2. QED
      BY <3>1, LoadKeeps DEF Ops, PartOps
  <2>9. QED
    BY <2>1, <2>2, <2>3, <2>4, <2>5, <2>6, <2>7, <2>8 DEF Begin
<1>2. StatusInv'
  <2>1. StatusInv
    BY DEF CarInv
  <2>2. QED
    BY <1>1, <2>1 DEF StatusInv, Lost
<1>3. QED
  BY <1>1, <1>2 DEF CarInv

\* The call of a status goes on, or a call ends or dies.
LEMMA EndKeeps ==
  ASSUME CarInv, NEW c \in Calls,
         \/ CallRefused(c) \/ ImportFail(c) \/ AttachHistory(c) \/ InventoryDeleted(c)
         \/ AttachRefused(c) \/ RecordStatus(c) \/ Crash(c)
  PROVE  CarInv'
<1> USE DEF CarInv
<1>1. /\ DOMAIN NoCall = CallFields /\ NoCall = [f \in CallFields |-> NoCall[f]]
      /\ NoCall.pc = "idle"
  BY DEF NoCall, CallFields
<1>2. CASE AttachHistory(c) \/ InventoryDeleted(c)
  <2>1. PICK pc \in {"bereft", "record"} :
          /\ call[c].pc \in {"won", "bereft"} /\ call' = [call EXCEPT ![c].pc = pc]
          /\ UNCHANGED <<car, parts, raced, negative, feeMoved, records, crashes>>
    BY <1>2 DEF AttachHistory, InventoryDeleted
  <2>2. PICK new : new = [call[c] EXCEPT !.pc = pc]
    OBVIOUS
  <2>3. call' = [call EXCEPT ![c] = new]
    BY <2>1, <2>2
  <2>4. CallShape(c) /\ PartCall(c)
    BY DEF PricingShape, PartsInv
  <2>5. /\ DOMAIN new = CallFields /\ new = [f \in CallFields |-> new[f]]
        /\ new.pc = pc /\ new.op = "status" /\ new.id = None
    BY <2>1, <2>2, <2>4 DEF CallShape, PartCall, CallFields, PartOps, StatusPcs
  <2>6. PricingShape' /\ PartsInv' /\ SuggestedBidExact'
    BY <2>1, <2>3, <2>5, QuietCall DEF StatusPcs
  <2>7. call'[c] = new /\ \A d \in Calls : d # c => call'[d] = call[d]
    BY <2>3 DEF PricingShape
  <2>8. Pending' = Pending
    BY <2>1, <2>5, <2>7 DEF Pending, StatusPcs
  <2>9. QED
    BY <2>1, <2>6, <2>8 DEF StatusInv, Lost
<1>3. CASE \/ CallRefused(c) \/ ImportFail(c) \/ AttachRefused(c) \/ RecordStatus(c)
          \/ Crash(c)
  <2>1. /\ call' = [call EXCEPT ![c] = NoCall]
        /\ UNCHANGED <<car, parts, raced, negative, feeMoved>>
    BY <1>3 DEF CallRefused, ImportFail, AttachRefused, RecordStatus, Crash
  <2>2. PricingShape' /\ PartsInv' /\ SuggestedBidExact'
    BY <1>1, <2>1, QuietCall DEF StatusPcs
  <2>3. call'[c] = NoCall /\ \A d \in Calls : d # c => call'[d] = call[d]
    BY <2>1 DEF PricingShape
  <2>4. Pending' = Pending \ {c}
    BY <1>1, <2>3 DEF Pending, StatusPcs
  <2>5. /\ IsFiniteSet(Pending') /\ Cardinality(Pending') \in Nat
        /\ Cardinality(Pending) \in Nat
        /\ c \in Pending => Cardinality(Pending') = Cardinality(Pending) - 1
        /\ c \notin Pending => Cardinality(Pending') = Cardinality(Pending)
    BY <2>4, FS_RemoveElement, FS_CardinalityType DEF StatusInv
  <2>6. /\ records \in Records /\ crashes \in Nat
        /\ records.status - records.history <= Lost + Cardinality(Pending)
    BY DEF StatusInv
  <2>7. CASE RecordStatus(c)
    <3>1. /\ c \in Pending /\ records' = [records EXCEPT !.history = @ + 1]
          /\ UNCHANGED crashes
      BY <2>7 DEF RecordStatus, Pending, StatusPcs
    <3>2. /\ records' \in Records /\ Lost' = Lost
          /\ records'.status = records.status
          /\ records'.history = records.history + 1
      BY <2>6, <3>1 DEF Records, Lost
    <3>3. records'.status - records'.history <= Lost' + Cardinality(Pending')
      BY <2>5, <2>6, <3>1, <3>2 DEF Records, Lost
    <3>4. QED
      BY <2>2, <2>5, <2>6, <3>1, <3>2, <3>3 DEF StatusInv
  <2>8. CASE CallRefused(c) \/ ImportFail(c)
    <3>1. c \notin Pending /\ UNCHANGED <<records, crashes>>
      BY <2>8 DEF CallRefused, ImportFail, Pending, StatusPcs
    <3>2. QED
      BY <2>2, <2>5, <2>6, <3>1 DEF StatusInv, Lost
  <2>9. CASE Crash(c)
    <3>1. crashes' = crashes + 1 /\ UNCHANGED records
      BY <2>9 DEF Crash
    <3>2. /\ crashes' \in Nat
          /\ records'.status - records'.history <= Lost' + Cardinality(Pending')
      BY <2>5, <2>6, <3>1 DEF Lost, Records
    <3>3. QED
      BY <2>2, <2>5, <2>6, <3>1, <3>2 DEF StatusInv
  <2>10. CASE AttachRefused(c)
    <3>1. records' = [records EXCEPT !.refused = @ + 1] /\ UNCHANGED crashes
      BY <2>10 DEF AttachRefused
    <3>2. /\ records' \in Records /\ Lost' = Lost + 1
          /\ records'.status = records.status
          /\ records'.history = records.history
      BY <2>6, <3>1 DEF Records, Lost
    <3>3. records'.status - records'.history <= Lost' + Cardinality(Pending')
      BY <2>5, <2>6, <3>2 DEF Records, Lost
    <3>4. QED
      BY <2>2, <2>5, <2>6, <3>1, <3>2, <3>3 DEF StatusInv
  <2>11. QED
    BY <1>3, <2>7, <2>8, <2>9, <2>10
<1>4. QED
  BY <1>2, <1>3

\* The write of an import: what differs from the row is a race, or a status taken
\* back.
LEMMA ImportKeeps ==
  ASSUME CarInv, NEW c \in Calls, ImportWrite(c)
  PROVE  CarInv'
<1> USE DEF CarInv
<1> DEFINE k == call[c]
<1>1. /\ k.pc = "read" /\ car' = Imported(k)
      /\ raced' = (raced \/ <<car.parts_cost, car.costs>>
                             # <<k.seen.parts_cost, k.seen.costs>>)
      /\ records' = IF car.car_status = k.seen.car_status THEN records
                    ELSE [records EXCEPT !.status = @ + 1, !.restored = @ + 1]
      /\ call' = [call EXCEPT ![c] = NoCall]
      /\ UNCHANGED <<parts, negative, feeMoved, crashes>>
  BY DEF ImportWrite
<1>2. CallShape(c) /\ PartCall(c) /\ k.op = "import"
  BY <1>1 DEF PricingShape, CallShape, PartsInv
<1>3. car = [f \in Columns |-> car[f]]
  BY DEF PricingShape
<1> HIDE DEF k
<1>4. /\ car' = [f \in Columns |-> car'[f]]
      /\ car'.parts_cost = k.seen.parts_cost /\ car'.costs = k.seen.costs
      /\ \A f \in MoneyColumns \ {"parts_cost", "costs"} : car'[f] = car[f]
  <2>1. car' = [car EXCEPT !.parts_cost = k.seen.parts_cost, !.costs = k.seen.costs,
                           !.actual_bid = k.seen.actual_bid,
                           !.car_status = k.seen.car_status]
    BY <1>1 DEF Imported
  <2>2. QED
    BY <1>3, <2>1 DEF Columns, MoneyColumns
<1>5. /\ DOMAIN NoCall = CallFields /\ NoCall = [f \in CallFields |-> NoCall[f]]
      /\ NoCall.pc = "idle"
  BY DEF NoCall, CallFields
<1>6. /\ PricingShape'
      /\ call'[c] = NoCall
      /\ \A d \in Calls : d # c => call'[d] = call[d]
  BY <1>1, <1>4, <1>5, KeepCallShape DEF CallPcs, StatusPcs
<1>7. ~raced' => /\ ~raced /\ car.parts_cost = k.seen.parts_cost
                 /\ car.costs = k.seen.costs
  BY <1>1
<1>8. PartsInv'
  <2>1. \A d \in Calls : PartCall(d)'
    <3> SUFFICES ASSUME NEW d \in Calls PROVE PartCall(d)'
      OBVIOUS
    <3>1. CASE d = c
      BY <1>5, <1>6, <3>1 DEF PartCall
    <3>2. CASE d # c
      <4>1. PartCall(d) /\ call'[d] = call[d]
        BY <1>6, <3>2 DEF PartsInv
      <4>2. \A f \in Calls : call'[f].pc # "idle" => call'[f] = call[f]
        BY <1>5, <1>6
      <4>3. QED
        BY <1>1, <4>1, <4>2 DEF PartCall
    <3>3. QED
      BY <3>1, <3>2
  <2>2. PartsTypes'
    <3>1. k.seen.parts_cost \in Int \cup {None}
      BY <1>1, <1>2 DEF PartCall, k
    <3>2. QED
      BY <1>1, <1>4, <3>1 DEF PartsInv, PartsTypes
  <2>3. PartsCostExact'
    BY <1>1, <1>4, <1>7, PartsSumNow, PartsSumNext DEF PartsInv, PartsCostExact
  <2>4. QED
    BY <2>1, <2>2, <2>3 DEF PartsInv
<1>9. SuggestedBidExact'
  <2> SUFFICES ASSUME ~raced', ~feeMoved', car'.suggested_bid # None
               PROVE  car'.suggested_bid \in {Suggested(car'), Cut(Suggested(car'))}
    BY DEF SuggestedBidExact
  <2>1. \A f \in MoneyColumns : car'[f] = car[f]
    BY <1>4, <1>7 DEF MoneyColumns
  <2>2. Suggested(car') = Suggested(car) /\ car'.suggested_bid = car.suggested_bid
    BY <2>1, SuggestedOf DEF MoneyColumns
  <2>3. ~raced /\ ~feeMoved
    BY <1>1, <1>7
  <2>4. QED
    BY <2>2, <2>3 DEF SuggestedBidExact
<1>10. StatusInv'
  <2>1. Pending' = Pending
    <3>1. c \notin Pending
      BY <1>1 DEF Pending, StatusPcs, k
    <3>2. QED
      BY <1>5, <1>6, <3>1 DEF Pending, StatusPcs
  <2>2. /\ records \in Records /\ crashes \in Nat
        /\ records.status - records.history <= Lost + Cardinality(Pending)
        /\ Cardinality(Pending) \in Nat
    BY FS_CardinalityType DEF StatusInv
  <2>3. CASE car.car_status = k.seen.car_status
    BY <1>1, <2>1, <2>3 DEF StatusInv, Lost
  <2>4. CASE car.car_status # k.seen.car_status
    <3>1. records' = [records EXCEPT !.status = @ + 1, !.restored = @ + 1]
      BY <1>1, <2>4
    <3>2. /\ records.status + 1 \in Nat /\ records.restored + 1 \in Nat
          /\ records \in Records
      BY <2>2 DEF Records
    <3>3. /\ records' \in Records
          /\ records'.status = records.status + 1
          /\ records'.history = records.history
          /\ records'.refused = records.refused
          /\ records'.restored = records.restored + 1
      BY <3>1, <3>2, Zenon DEF Records
    <3>4. Lost' = Lost + 1
      BY <1>1, <2>2, <3>3 DEF Records, Lost
    <3>5. records'.status - records'.history <= Lost' + Cardinality(Pending')
      BY <2>1, <2>2, <3>3, <3>4 DEF Records, Lost
    <3>6. QED
      BY <1>1, <2>1, <2>2, <3>3, <3>5 DEF StatusInv
  <2>5. QED
    BY <2>3, <2>4
<1>11. QED
  BY <1>6, <1>8, <1>9, <1>10

\* What else a commit does.
LEMMA CommittedRest ==
  ASSUME CarInv, NEW c \in Calls, Commit(c)
  PROVE  /\ call[c].pc = "loaded"
         /\ parts' = PartsAfter(KOf(c))
         /\ Changes(KOf(c)) => KOf(c).seen.parts_cost # None
         /\ negative' = (negative \/ (/\ KOf(c).op = "add"
                                  /\ Or0(KOf(c).seen.parts_cost) < 0))
         /\ feeMoved' = (CASE KOf(c).op = "bid" ->
                                feeMoved \/ KOf(c).fee # Or0(KOf(c).seen.auction_fee)
                           [] KOf(c).op = "status" -> feeMoved
                           [] OTHER -> FALSE)
         /\ UNCHANGED crashes
         /\ KOf(c).op # "status" => UNCHANGED records /\ call'[c] = NoCall
         /\ KOf(c).op = "status" => /\ records' = [records EXCEPT !.status = @ + 1]
                                    /\ call'[c].pc \in {"won", "record"}
                                   /\ call'[c].op = "status"
                                   /\ call'[c].id = call[c].id
         /\ \A d \in Calls : d # c => call'[d] = call[d]
         /\ PricingShape'
<1> USE DEF CarInv
<1>1. call[c].pc = "loaded"
  BY DEF Commit, KOf
<1>2. /\ parts' = PartsAfter(KOf(c))
      /\ Changes(KOf(c)) => KOf(c).seen.parts_cost # None
      /\ negative' = (negative \/ (/\ KOf(c).op = "add"
                                  /\ Or0(KOf(c).seen.parts_cost) < 0))
      /\ feeMoved' = (CASE KOf(c).op = "bid" ->
                             feeMoved \/ KOf(c).fee # Or0(KOf(c).seen.auction_fee)
                        [] KOf(c).op = "status" -> feeMoved
                        [] OTHER -> FALSE)
      /\ UNCHANGED crashes
  BY DEF Commit, KOf, Computable
<1>3. /\ KOf(c).op # "status" => UNCHANGED records
      /\ KOf(c).op = "status" => records' = [records EXCEPT !.status = @ + 1]
  BY DEF Commit, KOf
<1>4. PICK new : new = IF KOf(c).op # "status" THEN NoCall
                       ELSE [KOf(c) EXCEPT !.pc = IF KOf(c).arg = "Won" THEN "won"
                                                  ELSE "record"]
  OBVIOUS
<1>5. call' = [call EXCEPT ![c] = new]
  BY <1>4 DEF Commit, KOf
<1>6. KOf(c).op = "status" => KOf(c) = call[c]
  BY <1>1, LockedCall
<1>7. call[c] = [f \in CallFields |-> call[c][f]] /\ DOMAIN call[c] = CallFields
  BY DEF PricingShape, CallShape
<1>8. /\ DOMAIN new = CallFields /\ new = [f \in CallFields |-> new[f]]
      /\ KOf(c).op # "status" => new = NoCall /\ new.pc = "idle"
      /\ KOf(c).op = "status" => /\ new.pc \in {"won", "record"} /\ new.op = "status"
                                 /\ new.id = call[c].id
  <2>1. CASE KOf(c).op # "status"
    BY <1>4, <2>1 DEF NoCall, CallFields
  <2>2. CASE KOf(c).op = "status"
    <3>1. PICK pc \in {"won", "record"} : new = [call[c] EXCEPT !.pc = pc]
      BY <1>4, <1>6, <2>2
    <3>2. call[c].op = "status"
      BY <1>6, <2>2
    <3>3. QED
      BY <1>7, <2>2, <3>1, <3>2 DEF CallFields
  <2>3. QED
    BY <2>1, <2>2
<1>9. car' = [f \in Columns |-> car'[f]]
  BY CommittedRow
<1>10. /\ PricingShape'
       /\ call'[c] = new
       /\ \A d \in Calls : d # c => call'[d] = call[d]
  <2>1. new.pc \in CallPcs /\ new.pc \notin {"loaded", "read"}
    BY <1>8 DEF CallPcs
  <2>2. new.pc \in StatusPcs => new.op = "status"
    BY <1>8 DEF StatusPcs
  <2>3. QED
    BY <1>5, <1>8, <1>9, <2>1, <2>2, KeepCallShape
<1>11. QED
  BY <1>1, <1>2, <1>3, <1>8, <1>10

\* The suggested bid after a commit.
LEMMA CommitKeepsBid ==
  ASSUME CarInv, NEW c \in Calls, Commit(c)
  PROVE  SuggestedBidExact'
<1> DEFINE k == KOf(c)
<1> SUFFICES ASSUME ~raced', ~feeMoved', car'.suggested_bid # None
             PROVE  car'.suggested_bid \in {Suggested(car'), Cut(Suggested(car'))}
  BY DEF SuggestedBidExact
<1>1. PricingShape /\ SuggestedBidExact /\ PartsInv
  BY DEF CarInv
<1>2. /\ call[c].pc = "loaded"
      /\ feeMoved' = (CASE k.op = "bid" -> feeMoved \/ k.fee # Or0(k.seen.auction_fee)
                        [] k.op = "status" -> feeMoved
                        [] OTHER -> FALSE)
  BY CommittedRest
<1>3. k.op \in Ops /\ k.seen = [f \in Columns |-> k.seen[f]]
  BY <1>1, <1>2, LockedCall
<1>4. ~raced
  BY <1>1, CommittedRow
<1>5. CASE k.op = "status"
  <2>1. ~feeMoved
    BY <1>2, <1>5
  <2>2. \A f \in MoneyColumns : car'[f] = car[f]
    BY <1>1, <1>5, CommittedRow
  <2>3. Suggested(car') = Suggested(car) /\ car'.suggested_bid = car.suggested_bid
    BY <2>2, SuggestedOf DEF MoneyColumns
  <2>4. QED
    BY <1>1, <1>4, <2>1, <2>3 DEF SuggestedBidExact
<1>6. CASE k.op # "status"
  <2>1. /\ \A f \in MoneyColumns : car'[f] = After(c)[f]
        /\ \A f \in MoneyColumns : car[f] = k.seen[f]
    BY <1>1, <1>6, CommittedRow
  <2>2. /\ Suggested(car') = Suggested(After(c))
        /\ car'.suggested_bid = After(c).suggested_bid
    BY <2>1, SuggestedOf DEF MoneyColumns
  <2>3. CASE k.op \in PartOps
    BY <1>3, <2>2, <2>3, ComputedRow DEF After
  <2>4. CASE k.op \in {"costs", "price", "parse"}
    BY <1>3, <2>2, <2>4, ComputedRow DEF After
  <2>5. CASE k.op = "bid"
    <3>1. /\ After(c).auction_fee = k.fee
          /\ \A f \in MoneyColumns \ {"auction_fee"} : After(c)[f] = k.seen[f]
      BY <1>3, <2>5, ComputedRow DEF After
    <3>2. ~feeMoved /\ k.fee = Or0(k.seen.auction_fee)
      <4>1. feeMoved' = (feeMoved \/ k.fee # Or0(k.seen.auction_fee))
        BY <1>2, <2>5
      <4>2. QED
        BY <4>1, Zenon
    <3>3. Or0(k.fee) = Or0(k.seen.auction_fee)
      BY <3>2, PricingAssumption DEF Or0
    <3>4. /\ Suggested(After(c)) = Suggested(car)
          /\ After(c).suggested_bid = car.suggested_bid
      BY <2>1, <3>1, <3>3, SuggestedOf DEF MoneyColumns
    <3>5. QED
      BY <1>1, <1>4, <2>2, <3>2, <3>4 DEF SuggestedBidExact
  <2>6. QED
    BY <1>3, <1>6, <2>3, <2>4, <2>5 DEF Ops
<1>7. QED
  BY <1>5, <1>6

\* A call that adds, changes or deletes a part.
Moves(k) == k.op = "add" \/ Changes(k)

\* What such a call makes of their cost is a number; the others leave it.
LEMMA CommittedCost ==
  ASSUME CarInv, NEW c \in Calls, Commit(c)
  PROVE  IF Moves(KOf(c)) THEN After(c).parts_cost \in Int
         ELSE After(c).parts_cost = KOf(c).seen.parts_cost
<1> DEFINE k == KOf(c)
<1>1. PricingShape /\ PartCall(c)
  BY DEF CarInv, PartsInv
<1>2. call[c].pc = "loaded" /\ (Changes(k) => k.seen.parts_cost # None)
  BY CommittedRest
<1>3. /\ k.op = call[c].op /\ k.id = call[c].id /\ k.arg = call[c].arg
      /\ k.part = call[c].part
      /\ k.op \in Ops /\ k.seen = [f \in Columns |-> k.seen[f]]
      /\ k.op \in PartOps => k.seen = call[c].seen
  BY <1>1, <1>2, LockedCall DEF PartOps
<1> HIDE DEF k
<1>4. CASE Moves(k)
  <2> SUFFICES After(c).parts_cost \in Int
    BY <1>4 DEF k
  <2>1. CASE k.op = "add"
    <3>1. After(c).parts_cost = Plus(k.seen.parts_cost, k.arg)
      BY <1>3, <2>1, ComputedRow DEF After, k
    <3>2. k.arg \in Int /\ k.seen.parts_cost \in Int \cup {None}
      BY <1>1, <1>2, <1>3, <2>1, PricingAssumption DEF PartCall, PartOps
    <3>3. QED
      BY <3>1, <3>2 DEF Plus
  <2>2. CASE k.op = "update" /\ Changes(k)
    <3>1. After(c).parts_cost = k.seen.parts_cost + k.arg - k.part
      BY <1>3, <2>2, ComputedRow DEF After, k
    <3>2. k.arg \in Int /\ k.part \in Int /\ k.seen.parts_cost \in Int
      BY <1>1, <1>2, <1>3, <2>2, PricingAssumption DEF PartCall, PartOps
    <3>3. QED
      BY <3>1, <3>2
  <2>3. CASE k.op = "delete"
    <3>1. After(c).parts_cost = k.seen.parts_cost - k.part
      BY <1>3, <2>3, ComputedRow DEF After, k
    <3>2. k.part \in Int /\ k.seen.parts_cost \in Int
      BY <1>1, <1>2, <1>3, <2>3, PricingAssumption DEF PartCall, PartOps, Changes
    <3>3. QED
      BY <3>1, <3>2
  <2>4. QED
    BY <1>4, <2>1, <2>2, <2>3 DEF Moves, Changes
<1>5. CASE ~Moves(k)
  <2>1. k.op \notin PartOps \/ (k.op = "update" /\ ~Changes(k))
    BY <1>5 DEF Moves, Changes, PartOps
  <2>2. QED
    BY <1>3, <1>5, <2>1, ComputedRow DEF After, k
<1>6. QED
  BY <1>4, <1>5 DEF k

\* The cost of the parts after a commit.
LEMMA CommitKeepsParts ==
  ASSUME CarInv, NEW c \in Calls, Commit(c)
  PROVE  PartsTypes' /\ PartsCostExact'
<1> DEFINE k == KOf(c)
<1>1. PricingShape /\ PartsTypes /\ PartsCostExact /\ PartCall(c)
  BY DEF CarInv, PartsInv
<1>2. /\ call[c].pc = "loaded" /\ parts' = PartsAfter(k)
      /\ Changes(k) => k.seen.parts_cost # None
      /\ ~negative' => ~negative /\ (k.op = "add" => ~(Or0(k.seen.parts_cost) < 0))
  <2>1. /\ call[c].pc = "loaded" /\ parts' = PartsAfter(k)
        /\ Changes(k) => k.seen.parts_cost # None
        /\ negative' = (negative \/ (k.op = "add" /\ Or0(k.seen.parts_cost) < 0))
    BY CommittedRest
  <2>2. QED
    BY <2>1, Zenon
<1>3. /\ k.op = call[c].op /\ k.id = call[c].id /\ k.arg = call[c].arg
      /\ k.part = call[c].part
      /\ k.op \in Ops /\ k.seen = [f \in Columns |-> k.seen[f]]
      /\ k.op \in PartOps => k.seen = call[c].seen
  BY <1>1, <1>2, LockedCall DEF PartOps
<1>4. car'.parts_cost = IF After(c).parts_cost # k.seen.parts_cost
                          THEN After(c).parts_cost ELSE car.parts_cost
  BY <1>1, CommittedRow DEF MoneyColumns
<1>5. ~raced' => ~raced
  BY <1>1, CommittedRow
<1>6. ~raced' /\ k.op \in PartOps
      => /\ car'.parts_cost = After(c).parts_cost
         /\ car.parts_cost = k.seen.parts_cost
         /\ Changes(k) => parts[k.id] = k.part
  <2>1. k.op \in PartOps => k.op # "status"
    BY DEF PartOps
  <2>2. QED
    BY <1>1, <2>1, CommittedRow DEF MoneyColumns
<1> HIDE DEF k
<1>7. CASE ~Moves(k)
  <2>1. After(c).parts_cost = k.seen.parts_cost
    BY <1>7, CommittedCost DEF k
  <2>2. parts' = parts
    BY <1>2, <1>7 DEF PartsAfter, Moves, Changes
  <2>3. car'.parts_cost = car.parts_cost
    BY <1>4, <2>1
  <2>4. PartsTypes'
    BY <1>1, <2>2, <2>3 DEF PartsTypes
  <2>5. PartsCostExact'
    BY <1>1, <1>2, <1>5, <2>2, <2>3, PartsSumNow, PartsSumNext DEF PartsCostExact
  <2>6. QED
    BY <2>4, <2>5
<1>8. CASE Moves(k)
  <2> k.op \in PartOps
    BY <1>8 DEF Moves, Changes, PartOps
  <2>1. PICK x \in Values \cup {None} :
          /\ parts' = [parts EXCEPT ![k.id] = x]
          /\ k.op \in {"add", "update"} => x = k.arg
          /\ k.op = "delete" => x = None
    <3>1. CASE k.op = "delete"
      <4>1. parts' = [parts EXCEPT ![k.id] = None]
        BY <1>2, <1>8, <3>1 DEF PartsAfter, Moves
      <4>2. QED
        BY <3>1, <4>1
    <3>2. CASE k.op # "delete"
      <4>1. parts' = [parts EXCEPT ![k.id] = k.arg]
        BY <1>2, <1>8, <3>2 DEF PartsAfter, Moves
      <4>2. k.arg \in Values
        BY <1>1, <1>2, <1>3, <3>2 DEF PartCall, PartOps
      <4>3. QED
        BY <3>2, <4>1, <4>2
    <3>3. QED
      BY <3>1, <3>2
  <2>2. k.id \in Parts
    BY <1>1, <1>2, <1>3, <1>8 DEF PartCall
  <2>3. After(c).parts_cost \in Int
    BY <1>8, CommittedCost DEF k
  <2>4. PartsTypes'
    <3>1. parts' \in [Parts -> Values \cup {None}]
      BY <1>1, <2>1, <2>2 DEF PartsTypes
    <3>2. car'.parts_cost \in Int \cup {None}
      BY <1>1, <1>4, <2>3 DEF PartsTypes
    <3>3. QED
      BY <3>1, <3>2 DEF PartsTypes
  <2>5. PartsCostExact'
    <3> SUFFICES ASSUME ~raced', ~negative' PROVE Or0(car'.parts_cost) = SumOver(parts')
      BY PartsSumNext DEF PartsCostExact
    <3>1. Or0(car.parts_cost) = SumOver(parts)
      BY <1>1, <1>2, <1>5, PartsSumNow DEF PartsCostExact
    <3>2. parts \in [Parts -> Values \cup {None}]
      BY <1>1 DEF PartsTypes
    <3>3. PICK r \in Int : /\ SumOver(parts) = Or0(parts[k.id]) + r
                           /\ SumOver(parts') = Or0(x) + r
      BY <2>1, <2>2, <3>2, SumFollows
    <3>4. Or0(car'.parts_cost) = After(c).parts_cost
      BY <1>6, <1>8, <2>3, PricingAssumption DEF Or0
    <3>5. CASE k.op = "add"
      <4>1. After(c).parts_cost = Plus(car.parts_cost, k.arg) /\ x = k.arg
        BY <1>3, <1>6, <1>8, <2>1, <3>5, ComputedRow DEF After, k
      <4>2. k.arg \in Int /\ Or0(x) = k.arg /\ parts[k.id] = None
        <5>1. k.arg \in Values /\ parts[k.id] = None
          BY <1>1, <1>2, <1>3, <3>5 DEF PartCall
        <5>2. QED
          BY <4>1, <5>1, ValuesAreAmounts
      <4>3. Or0(car.parts_cost) = r
        BY <3>1, <3>3, <4>2 DEF Or0
      <4>4. car.parts_cost \in Int \cup {None} /\ ~(Or0(car.parts_cost) < 0)
        BY <1>1, <1>2, <1>6, <3>5 DEF PartsTypes
      <4>5. Plus(car.parts_cost, k.arg) = k.arg + r
        BY ONLY <4>2, <4>3, <4>4, r \in Int DEF Plus, Or0
      <4>6. QED
        BY <3>3, <3>4, <4>1, <4>2, <4>5
    <3>6. CASE k.op = "update" /\ Changes(k)
      <4>1. After(c).parts_cost = car.parts_cost + k.arg - k.part /\ x = k.arg
        BY <1>3, <1>6, <1>8, <2>1, <3>6, ComputedRow DEF After, k
      <4>2. /\ k.arg \in Int /\ k.part \in Int /\ car.parts_cost \in Int
            /\ Or0(x) = k.arg /\ Or0(parts[k.id]) = k.part
        <5>1. /\ k.arg \in Values /\ k.part \in Values /\ car.parts_cost \in Int
              /\ parts[k.id] = k.part
          BY <1>1, <1>2, <1>3, <1>6, <3>6 DEF PartCall, PartsTypes
        <5>2. QED
          BY <4>1, <5>1, ValuesAreAmounts
      <4>3. car.parts_cost = k.part + r
        BY <3>1, <3>3, <4>2, PricingAssumption DEF Or0
      <4>4. QED
        BY <3>3, <3>4, <4>1, <4>2, <4>3
    <3>7. CASE k.op = "delete"
      <4>1. After(c).parts_cost = car.parts_cost - k.part /\ x = None
        BY <1>3, <1>6, <1>8, <2>1, <3>7, ComputedRow DEF After, k
      <4>2. /\ k.part \in Int /\ car.parts_cost \in Int
            /\ Or0(x) = 0 /\ Or0(parts[k.id]) = k.part
        <5>1. k.part \in Values /\ car.parts_cost \in Int /\ parts[k.id] = k.part
          BY <1>1, <1>2, <1>3, <1>6, <3>7 DEF PartCall, PartsTypes, Changes
        <5>2. Or0(x) = 0
          BY <4>1 DEF Or0
        <5>3. QED
          BY <5>1, <5>2, ValuesAreAmounts
      <4>3. car.parts_cost = k.part + r
        BY <3>1, <3>3, <4>2, PricingAssumption DEF Or0
      <4>4. QED
        BY <3>3, <3>4, <4>1, <4>2, <4>3
    <3>8. QED
      BY <1>8, <3>5, <3>6, <3>7 DEF Moves, Changes
  <2>6. QED
    BY <2>4, <2>5
<1>9. QED
  BY <1>7, <1>8

\* The other calls after a commit: none of them has added the same part.
LEMMA CommitKeepsCalls ==
  ASSUME CarInv, NEW c \in Calls, Commit(c)
  PROVE  \A d \in Calls : PartCall(d)'
<1> SUFFICES ASSUME NEW d \in Calls PROVE PartCall(d)'
  OBVIOUS
<1>1. PricingShape /\ PartsTypes /\ PartCall(c) /\ PartCall(d)
  BY DEF CarInv, PartsInv
<1>2. /\ call[c].pc = "loaded" /\ parts' = PartsAfter(KOf(c))
      /\ KOf(c).op = call[c].op /\ KOf(c).id = call[c].id
      /\ KOf(c).op # "status" => call'[c] = NoCall
      /\ KOf(c).op = "status" => /\ call'[c].pc \in {"won", "record"}
                                 /\ call'[c].op = "status"
                                /\ call'[c].id = call[c].id
      /\ \A e \in Calls : e # c => call'[e] = call[e]
  BY <1>1, CommittedRest, LockedCall
<1>3. \A e \in Calls : call'[e].pc # "idle"
                      => call[e].pc # "idle" /\ call'[e].id = call[e].id
  BY <1>2 DEF NoCall
<1>4. CASE d = c
  BY <1>1, <1>2, <1>4 DEF PartCall, PartOps, NoCall
<1>5. CASE d # c
  <2>1. call'[d] = call[d]
    BY <1>2, <1>5
  <2>2. call[d].pc # "idle" /\ call[d].op = "add"
        => \A e \in Calls \ {d} : call'[e].pc # "idle" => call'[e].id # call'[d].id
    BY <1>1, <1>3, <2>1 DEF PartCall
  <2>3. call[d].pc # "idle" /\ call[d].op = "add" => parts'[call[d].id] = None
    <3>1. call[d].pc # "idle" /\ call[d].op = "add"
          => /\ call[d].id \in Parts /\ parts[call[d].id] = None
             /\ call[c].id # call[d].id
      BY <1>1, <1>2, <1>5 DEF PartCall, PartOps
    <3>2. \A p \in Parts : p # call[c].id => parts'[p] = parts[p]
      BY <1>1, <1>2 DEF PartsAfter, PartsTypes
    <3>3. QED
      BY <3>1, <3>2
  <2>4. QED
    BY <1>1, <2>1, <2>2, <2>3 DEF PartCall
<1>6. QED
  BY <1>4, <1>5

\* The record of the status after a commit.
LEMMA CommitKeepsStatus ==
  ASSUME CarInv, NEW c \in Calls, Commit(c)
  PROVE  StatusInv'
<1>1. /\ StatusInv /\ call[c].pc = "loaded" /\ UNCHANGED crashes
      /\ KOf(c).op # "status" => UNCHANGED records /\ call'[c] = NoCall
      /\ KOf(c).op = "status" => /\ records' = [records EXCEPT !.status = @ + 1]
                                 /\ call'[c].pc \in {"won", "record"}
      /\ \A d \in Calls : d # c => call'[d] = call[d]
  BY CommittedRest DEF CarInv
<1>2. c \notin Pending /\ IsFiniteSet(Pending) /\ Cardinality(Pending) \in Nat
  BY <1>1, FS_CardinalityType DEF Pending, StatusPcs, StatusInv
<1>3. /\ records \in Records /\ crashes \in Nat
      /\ records.status - records.history <= Lost + Cardinality(Pending)
  BY <1>1 DEF StatusInv
<1>4. CASE KOf(c).op # "status"
  <2>1. Pending' = Pending
    BY <1>1, <1>4 DEF Pending, StatusPcs, NoCall
  <2>2. QED
    BY <1>1, <1>4, <2>1 DEF StatusInv, Lost
<1>5. CASE KOf(c).op = "status"
  <2>1. Pending' = Pending \cup {c}
    BY <1>1, <1>5 DEF Pending, StatusPcs
  <2>2. IsFiniteSet(Pending') /\ Cardinality(Pending') = Cardinality(Pending) + 1
    BY <1>2, <2>1, FS_AddElement
  <2>3. /\ records' \in Records /\ Lost' = Lost
        /\ records'.status = records.status + 1 /\ records'.history = records.history
    BY <1>1, <1>3, <1>5 DEF Records, Lost
  <2>4. records'.status - records'.history <= Lost' + Cardinality(Pending')
    BY <1>1, <1>2, <1>3, <2>2, <2>3 DEF Records, Lost
  <2>5. QED
    BY <1>1, <1>3, <2>2, <2>3, <2>4 DEF StatusInv
<1>6. QED
  BY <1>4, <1>5

\* Every step of the calls, and every step of the fee table, keeps it.
LEMMA CarSteps == CarInv /\ [Next]_vars => CarInv'
<1> SUFFICES ASSUME CarInv, [Next]_vars PROVE CarInv'
  OBVIOUS
<1>1. ASSUME NEW c \in Calls, Commit(c) PROVE CarInv'
  <2>1. PricingShape'
    BY <1>1, CommittedRest
  <2>2. PartsInv'
    BY <1>1, CommitKeepsParts, CommitKeepsCalls DEF PartsInv
  <2>3. SuggestedBidExact' /\ StatusInv'
    BY <1>1, CommitKeepsBid, CommitKeepsStatus
  <2>4. QED
    BY <2>1, <2>2, <2>3 DEF CarInv
<1>2. CASE UNCHANGED pricingVars
  <2>1. UNCHANGED <<car, parts, call, records, raced, negative, feeMoved, crashes>>
    BY <1>2 DEF pricingVars
  <2>2. PricingShape'
    BY <2>1 DEF CarInv, PricingShape, CallShape
  <2>3. PartsTypes' /\ PartsCostExact'
    BY <2>1, PartsSumNow, PartsSumNext DEF CarInv, PartsInv, PartsTypes, PartsCostExact
  <2>4. \A c \in Calls : PartCall(c)'
    BY <2>1 DEF CarInv, PartsInv, PartCall
  <2>5. SuggestedBidExact'
    BY <2>1 DEF CarInv, SuggestedBidExact, Suggested, SumOfInvestments
  <2>6. StatusInv'
    BY <2>1 DEF CarInv, StatusInv, Pending, Lost
  <2>7. QED
    BY <2>2, <2>3, <2>4, <2>5, <2>6 DEF CarInv, PartsInv
<1>3. CASE \E c \in Calls : \/ Begin(c) \/ Commit(c) \/ CallRefused(c)
                            \/ ImportWrite(c) \/ ImportFail(c)
                            \/ AttachHistory(c) \/ InventoryDeleted(c) \/ AttachRefused(c)
                            \/ RecordStatus(c) \/ Crash(c)
  BY <1>1, <1>3, BeginKeeps, EndKeeps, ImportKeeps
<1>4. QED
  BY <1>2, <1>3 DEF Next, vars

\* The invariant of the car holds always.
LEMMA CarInvariant == Spec => []CarInv
BY InitCar, CarSteps, PTL DEF Spec

-----------------------------------------------------------------------------
(* Theorems                                                                *)

\* parts_cost is the sum of the parts through any sequence of additions, changes
\* and deletions of any number of calls, with values of either sign, unless a call
\* or an import wrote over a cost another had changed, or an addition found a cost
\* below zero (add_part_to_vehicle, update_part, delete_part, bulk_save_vehicles).
THEOREM PartsAddUp == Spec => []PartsCostExact
<1>1. CarInv => PartsCostExact
  BY DEF CarInv, PartsInv
<1>2. QED
  BY <1>1, CarInvariant, PTL

\* The suggested bid is the predicted investment less all investments, cut to
\* dollars or not, with the exceptions the property names (update_car_costs,
\* update_car, the parse task, update_actual_bid, bulk_save_vehicles).
THEOREM SuggestedBidIsExact == Spec => []SuggestedBidExact
<1>1. CarInv => SuggestedBidExact
  BY DEF CarInv
<1>2. QED
  BY <1>1, CarInvariant, PTL

\* Between calls a change of status without a record is one of a call that died,
\* of one refused for a deleted inventory row, or one an import took back.
THEOREM StatusIsOnRecord == Spec => []StatusOnRecord
<1>1. CarInv => StatusOnRecord
  <2> SUFFICES ASSUME CarInv, \A c \in Calls : call[c].pc = "idle"
               PROVE  records.status - records.history <= Lost
    BY DEF StatusOnRecord, Lost
  <2>1. Pending = {}
    BY DEF Pending, StatusPcs
  <2>2. Cardinality(Pending) = 0
    BY <2>1, FS_EmptySet
  <2>3. /\ records \in Records /\ crashes \in Nat
        /\ records.status - records.history <= Lost + Cardinality(Pending)
    BY DEF CarInv, StatusInv
  <2>4. QED
    BY <2>2, <2>3 DEF Records, Lost
<1>2. QED
  BY <1>1, CarInvariant, PTL
=============================================================================
