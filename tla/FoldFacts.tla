------------------------------ MODULE FoldFacts ------------------------------
(*****************************************************************************)
(* Facts about the folds of the community modules: sums over finite sets,   *)
(* the list of a set, least elements and ranks.  The library defines a fold *)
(* by a function over all subsets that it chooses; that there is one, and   *)
(* only one, is proved here by the least counterexample, which stands for an *)
(* induction.                                                               *)
(*****************************************************************************)
EXTENDS Integers, SequencesExt, FiniteSetTheorems, SequenceTheorems, WellFoundedInduction, TLAPS

-----------------------------------------------------------------------------
(* Sums                                                                    *)

Some(s) == CHOOSE x \in s : TRUE
Sized(f, g, s) == IF s = {} THEN 0 ELSE f[Some(s)] + g[s \ {Some(s)}]
Sums(g, f, R) == g = [s \in SUBSET R |-> Sized(f, g, s)]
Summing(f, R) == CHOOSE g : Sums(g, f, R)

\* A set of natural numbers has a least one.
LEMMA Least ==
    ASSUME NEW T \in SUBSET Nat, T # {}
    PROVE  \E x \in T : \A y \in T : x <= y
<1> DEFINE R == {ss \in Nat \X Nat : ss[1] < ss[2]}
<1>1. IsWellFoundedOn(R, Nat)
  BY NatLessThanWellFounded DEF OpToRel
<1>2. PICK x \in T : \A y \in T : ~ (<<y, x>> \in R)
  <2> HIDE DEF R
  <2> QED
    BY <1>1, WFMin
<1>3. ASSUME NEW y \in T, y < x PROVE FALSE
  <2>1. <<y, x>> \in Nat \X Nat
    OBVIOUS
  <2>2. <<y, x>>[1] < <<y, x>>[2]
    BY <1>3
  <2>3. <<y, x>> \in R
    BY <2>1, <2>2
  <2> QED
    BY <1>2, <2>3
<1> QED
  BY <1>3

\* A sum is the value at S of the function that the library chooses.
LEMMA SumIs == ASSUME NEW f, NEW S PROVE SumFunctionOnSet(f, S) = Summing(f, S)[S]
BY DEF SumFunctionOnSet, Summing, Sums, Sized, Some, FoldFunctionOnSet, MapThenFoldSet

\* The element that is chosen is one of the set.
LEMMA SomeIn == ASSUME NEW s, s # {} PROVE Some(s) \in s
BY DEF Some

\* There is such a function: the smallest subset without one would have one.
LEMMA SummingExists ==
    ASSUME NEW f, NEW R, IsFiniteSet(R)
    PROVE  Sums(Summing(f, R), f, R)
<1> DEFINE Upto(n) == {s \in SUBSET R : Cardinality(s) <= n}
           Good(n) == \E g : g = [s \in Upto(n) |-> Sized(f, g, s)]
           Bad == {n \in Nat : ~Good(n)}
<1>1. \A s \in SUBSET R : IsFiniteSet(s) /\ Cardinality(s) \in Nat /\ Cardinality(s) <= Cardinality(R)
  BY FS_Subset, FS_CardinalityType
<1>2. \A s \in SUBSET R : Cardinality(s) = 0 <=> s = {}
  BY <1>1, FS_EmptySet
<1>3. \A s \in SUBSET R : s # {} => s \ {Some(s)} \in SUBSET R /\ Cardinality(s \ {Some(s)}) = Cardinality(s) - 1
  BY <1>1, SomeIn, FS_RemoveElement
<1>4. Good(0)
  <2> DEFINE g == [s \in Upto(0) |-> 0]
  <2>1. \A s \in Upto(0) : s = {}
    BY <1>1, <1>2
  <2>2. g = [s \in Upto(0) |-> Sized(f, g, s)]
    BY <2>1 DEF Sized
  <2> QED
    BY <2>2
<1>5. ASSUME NEW n \in Nat, Good(n) PROVE Good(n + 1)
  <2>1. PICK g : g = [s \in Upto(n) |-> Sized(f, g, s)]
    BY <1>5
  <2> DEFINE h == [s \in Upto(n + 1) |-> Sized(f, g, s)]
  <2>2. ASSUME NEW s \in Upto(n + 1), s # {} PROVE h[s \ {Some(s)}] = g[s \ {Some(s)}]
    <3>1. s \ {Some(s)} \in Upto(n) /\ s \ {Some(s)} \in Upto(n + 1)
      BY <1>1, <1>3, <2>2
    <3> QED
      BY <2>1, <3>1
  <2> HIDE DEF h
  <2>3. \A s \in Upto(n + 1) : Sized(f, h, s) = Sized(f, g, s)
    BY <2>2 DEF Sized
  <2>4. h = [s \in Upto(n + 1) |-> Sized(f, h, s)]
    BY <2>3 DEF h
  <2> QED
    BY <2>4
<1> HIDE DEF Good
<1>6. Bad = {}
  <2> SUFFICES ASSUME Bad # {} PROVE FALSE
    OBVIOUS
  <2>1. PICK m \in Bad : \A k \in Bad : m <= k
    BY Least
  <2>2. m # 0
    BY <1>4, <2>1
  <2>3. m - 1 \in Nat /\ m - 1 \notin Bad
    BY <2>1, <2>2
  <2> QED
    BY <1>5, <2>1, <2>3
<1>7. Good(Cardinality(R)) /\ Upto(Cardinality(R)) = SUBSET R
  BY <1>1, <1>6, FS_CardinalityType
<1> QED
  BY <1>7 DEF Good, Sums, Summing

\* There is only one: the smallest set where two differ would not differ.
LEMMA SummingUnique ==
    ASSUME NEW f, NEW R, IsFiniteSet(R), NEW S \in SUBSET R,
           NEW g, Sums(g, f, R), NEW h, Sums(h, f, S)
    PROVE  g[S] = h[S]
<1> DEFINE Bad == {n \in Nat : \E s \in SUBSET S : Cardinality(s) = n /\ g[s] # h[s]}
<1>1. \A s \in SUBSET S : IsFiniteSet(s) /\ Cardinality(s) \in Nat
  BY FS_Subset, FS_CardinalityType
<1>2. SUFFICES ASSUME Bad # {} PROVE FALSE
  BY <1>1
<1>3. PICK n \in Bad : \A k \in Bad : n <= k
  BY <1>2, Least
<1>4. PICK s \in SUBSET S : Cardinality(s) = n /\ g[s] # h[s]
  BY <1>3
<1>5. g[s] = Sized(f, g, s) /\ h[s] = Sized(f, h, s)
  <2>1. s \in SUBSET R
    BY <1>4
  <2> QED
    BY <2>1 DEF Sums
<1>6. s # {}
  BY <1>4, <1>5 DEF Sized
<1> DEFINE t == s \ {Some(s)}
<1>7. t \in SUBSET S /\ Cardinality(t) = n - 1 /\ n - 1 \in Nat
  <2>1. Some(s) \in s /\ Cardinality(s) # 0
    BY <1>1, <1>6, SomeIn, FS_EmptySet
  <2>2. n \in Nat /\ n # 0
    BY <1>4, <2>1
  <2>3. IsFiniteSet(s) /\ Some(s) \in s /\ Cardinality(s) = n
    BY <1>1, <1>4, <2>1
  <2> HIDE DEF Bad
  <2>4. Cardinality(t) = n - 1
    BY <2>3, FS_RemoveElement
  <2> QED
    BY <2>2, <2>4
<1>8. g[t] = h[t]
  BY <1>3, <1>7
<1> QED
  BY <1>4, <1>5, <1>6, <1>8 DEF Sized

\* A sum is one of its terms and the sum of the others.
LEMMA SumUnfold ==
    ASSUME NEW f, NEW S, IsFiniteSet(S)
    PROVE  SumFunctionOnSet(f, S) = IF S = {} THEN 0 ELSE f[Some(S)] + SumFunctionOnSet(f, S \ {Some(S)})
<1> DEFINE g == Summing(f, S)
           T == S \ {Some(S)}
           h == Summing(f, T)
<1>1. Sums(g, f, S)
  BY SummingExists
<1>2. Sums(h, f, T)
  <2>1. IsFiniteSet(T)
    BY FS_RemoveElement
  <2> QED
    BY <2>1, SummingExists
<1> HIDE DEF g, h
<1>3. g[S] = Sized(f, g, S)
  BY <1>1 DEF Sums
<1>4. g[T] = h[T]
  <2>1. T \in SUBSET S
    OBVIOUS
  <2> HIDE DEF T
  <2> QED
    BY <1>1, <1>2, <2>1, SummingUnique
<1>5. SumFunctionOnSet(f, S) = g[S] /\ SumFunctionOnSet(f, T) = h[T]
  BY SumIs DEF g, h
<1> QED
  BY <1>3, <1>4, <1>5 DEF Sized

\* Induction over finite sets, by counterexample: sets that are wrong
\* include a smallest one.
LEMMA SmallestSet ==
    ASSUME NEW S, IsFiniteSet(S), NEW Bad \in SUBSET (SUBSET S), Bad # {}
    PROVE  \E T \in Bad : IsFiniteSet(T) /\ \A U \in Bad : U \subseteq T => U = T
<1> DEFINE Sizes == {Cardinality(T) : T \in Bad}
<1>1. \A T \in SUBSET S : IsFiniteSet(T) /\ Cardinality(T) \in Nat
  BY FS_Subset, FS_CardinalityType
<1>2. Sizes \in SUBSET Nat /\ Sizes # {}
  BY <1>1
<1>3. PICK n \in Sizes : \A k \in Sizes : n <= k
  <2> HIDE DEF Sizes
  <2> QED
    BY <1>2, Least
<1>4. PICK T \in Bad : Cardinality(T) = n
  BY <1>3
<1>5. ASSUME NEW U \in Bad, U \subseteq T PROVE U = T
  <2>1. Cardinality(U) <= Cardinality(T) /\ Cardinality(T) <= Cardinality(U)
    BY <1>1, <1>3, <1>4, <1>5, FS_Subset
  <2>2. IsFiniteSet(T) /\ U \in SUBSET T /\ Cardinality(U) = Cardinality(T)
    BY <1>1, <1>5, <2>1
  <2> QED
    BY <2>2, FS_Subset
<1> QED
  BY <1>1, <1>5

Ints(f, S) == \A s \in S : f[s] \in Int
Nats(f, S) == \A s \in S : f[s] \in Nat

\* The empty sum.
LEMMA SumEmpty == ASSUME NEW f PROVE SumFunctionOnSet(f, {}) = 0
BY SumUnfold, FS_EmptySet

\* A sum of integers is one.
LEMMA SumInt ==
    ASSUME NEW f, NEW S, IsFiniteSet(S), Ints(f, S)
    PROVE  SumFunctionOnSet(f, S) \in Int
<1> DEFINE Bad == {T \in SUBSET S : SumFunctionOnSet(f, T) \notin Int}
<1>1. SUFFICES ASSUME Bad # {} PROVE FALSE
  OBVIOUS
<1>2. PICK T \in Bad : IsFiniteSet(T) /\ \A U \in Bad : U \subseteq T => U = T
  <2>1. Bad \in SUBSET (SUBSET S)
    OBVIOUS
  <2> HIDE DEF Bad
  <2> QED
    BY <1>1, <2>1, SmallestSet
<1>3. T # {}
  <2>1. SumFunctionOnSet(f, {}) \in Int
    BY SumEmpty
  <2> QED
    BY <1>2, <2>1
<1>4. Some(T) \in T /\ T \in SUBSET S
  BY <1>2, <1>3, SomeIn
<1>5. SumFunctionOnSet(f, T \ {Some(T)}) \in Int
  BY <1>2, <1>4
<1>6. f[Some(T)] \in Int
  BY <1>4 DEF Ints
<1> QED
  BY <1>2, <1>3, <1>5, <1>6, SumUnfold

\* Any term can be taken out of a sum, not only the one that is chosen.
LEMMA SumRemove ==
    ASSUME NEW f, NEW S, IsFiniteSet(S), Ints(f, S), NEW x \in S
    PROVE  SumFunctionOnSet(f, S) = f[x] + SumFunctionOnSet(f, S \ {x})
<1> DEFINE Splits(T) == \A a \in T : SumFunctionOnSet(f, T) = f[a] + SumFunctionOnSet(f, T \ {a})
           Bad == {T \in SUBSET S : ~Splits(T)}
<1>1. SUFFICES ASSUME Bad # {} PROVE FALSE
  OBVIOUS
<1>2. PICK T \in Bad : IsFiniteSet(T) /\ \A U \in Bad : U \subseteq T => U = T
  <2>1. Bad \in SUBSET (SUBSET S)
    OBVIOUS
  <2> HIDE DEF Bad
  <2> QED
    BY <1>1, <2>1, SmallestSet
<1>3. \A U \in SUBSET T : U = T \/ Splits(U)
  BY <1>2
<1>4. PICK a \in T : SumFunctionOnSet(f, T) # f[a] + SumFunctionOnSet(f, T \ {a})
  BY <1>2
<1> HIDE DEF Bad
<1> DEFINE b == Some(T)
<1>5. T \in SUBSET S /\ b \in T /\ SumFunctionOnSet(f, T) = f[b] + SumFunctionOnSet(f, T \ {b})
  BY <1>2, <1>4, SomeIn, SumUnfold DEF Bad
<1> HIDE DEF b
<1>6. a # b
  BY <1>4, <1>5
<1>7. SumFunctionOnSet(f, T \ {b}) = f[a] + SumFunctionOnSet(f, (T \ {b}) \ {a})
  BY <1>3, <1>4, <1>5, <1>6
<1>8. SumFunctionOnSet(f, T \ {a}) = f[b] + SumFunctionOnSet(f, (T \ {b}) \ {a})
  <2>1. (T \ {a}) \ {b} = (T \ {b}) \ {a}
    OBVIOUS
  <2>2. Splits(T \ {a}) /\ b \in T \ {a}
    BY <1>3, <1>4, <1>5, <1>6
  <2> QED
    BY <2>1, <2>2
<1>10. f[a] \in Int /\ f[b] \in Int /\ SumFunctionOnSet(f, (T \ {b}) \ {a}) \in Int
  <2>1. IsFiniteSet((T \ {b}) \ {a}) /\ Ints(f, (T \ {b}) \ {a})
    BY <1>2, <1>5, FS_RemoveElement DEF Ints
  <2> QED
    BY <1>4, <1>5, <2>1, SumInt DEF Ints
<1> HIDE DEF Splits
<1> QED
  BY <1>4, <1>5, <1>7, <1>8, <1>10

\* A term can be put in.
LEMMA SumAdd ==
    ASSUME NEW f, NEW S, IsFiniteSet(S), Ints(f, S), NEW x, x \notin S, f[x] \in Int
    PROVE  SumFunctionOnSet(f, S \cup {x}) = f[x] + SumFunctionOnSet(f, S)
<1>1. IsFiniteSet(S \cup {x}) /\ Ints(f, S \cup {x})
  BY FS_AddElement DEF Ints
<1>2. (S \cup {x}) \ {x} = S
  OBVIOUS
<1> QED
  BY <1>1, <1>2, SumRemove

\* Sums compare as their terms do.
LEMMA SumMonotone ==
    ASSUME NEW f, NEW g, NEW S, IsFiniteSet(S), Ints(f, S), Ints(g, S),
           \A s \in S : f[s] <= g[s]
    PROVE  SumFunctionOnSet(f, S) <= SumFunctionOnSet(g, S)
<1> DEFINE Bad == {T \in SUBSET S : ~(SumFunctionOnSet(f, T) <= SumFunctionOnSet(g, T))}
<1>1. SUFFICES ASSUME Bad # {} PROVE FALSE
  OBVIOUS
<1>2. PICK T \in Bad : IsFiniteSet(T) /\ \A U \in Bad : U \subseteq T => U = T
  <2>1. Bad \in SUBSET (SUBSET S)
    OBVIOUS
  <2> HIDE DEF Bad
  <2> QED
    BY <1>1, <2>1, SmallestSet
<1>3. PICK x \in T : TRUE
  <2>1. {} \notin Bad
    BY SumEmpty
  <2> QED
    BY <1>2, <2>1
<1>4. SumFunctionOnSet(f, T \ {x}) <= SumFunctionOnSet(g, T \ {x}) /\ x \in S /\ T \in SUBSET S
  BY <1>2, <1>3
<1>5. ~(SumFunctionOnSet(f, T) <= SumFunctionOnSet(g, T))
  BY <1>2
<1> HIDE DEF Bad
<1>6. /\ IsFiniteSet(T \ {x}) /\ Ints(f, T) /\ Ints(g, T)
      /\ Ints(f, T \ {x}) /\ Ints(g, T \ {x})
  BY <1>2, <1>4, FS_RemoveElement DEF Ints
<1>7. SumFunctionOnSet(f, T \ {x}) \in Int /\ SumFunctionOnSet(g, T \ {x}) \in Int /\ f[x] \in Int /\ g[x] \in Int
  BY <1>4, <1>6, SumInt DEF Ints
<1>8. SumFunctionOnSet(f, T) = f[x] + SumFunctionOnSet(f, T \ {x}) /\ SumFunctionOnSet(g, T) = g[x] + SumFunctionOnSet(g, T \ {x})
  BY <1>2, <1>3, <1>6, SumRemove
<1> QED
  BY <1>4, <1>5, <1>7, <1>8

\* Sums of equal terms are equal.
LEMMA SumSame ==
    ASSUME NEW f, NEW g, NEW S, IsFiniteSet(S), Ints(f, S), \A s \in S : f[s] = g[s]
    PROVE  SumFunctionOnSet(f, S) = SumFunctionOnSet(g, S)
<1>1. Ints(g, S) /\ \A s \in S : f[s] <= g[s] /\ g[s] <= f[s]
  BY DEF Ints
<1>2. SumFunctionOnSet(f, S) <= SumFunctionOnSet(g, S) /\ SumFunctionOnSet(g, S) <= SumFunctionOnSet(f, S)
  BY <1>1, SumMonotone
<1> QED
  BY <1>1, <1>2, SumInt

\* The least number of a set, as the library chooses it.
LEMMA MinIs ==
    ASSUME NEW T \in SUBSET Nat, T # {}
    PROVE  Min(T) \in T /\ \A y \in T : Min(T) <= y
BY Least DEF Min

\* A sum of natural numbers is one.
LEMMA SumNat ==
    ASSUME NEW f, NEW S, IsFiniteSet(S), Nats(f, S)
    PROVE  SumFunctionOnSet(f, S) \in Nat
<1> DEFINE Bad == {T \in SUBSET S : SumFunctionOnSet(f, T) \notin Nat}
<1>1. SUFFICES ASSUME Bad # {} PROVE FALSE
  OBVIOUS
<1>2. PICK T \in Bad : IsFiniteSet(T) /\ \A U \in Bad : U \subseteq T => U = T
  <2>1. Bad \in SUBSET (SUBSET S)
    OBVIOUS
  <2> HIDE DEF Bad
  <2> QED
    BY <1>1, <2>1, SmallestSet
<1>3. T # {}
  <2>1. SumFunctionOnSet(f, {}) \in Nat
    BY SumEmpty
  <2> QED
    BY <1>2, <2>1
<1>4. Some(T) \in T /\ T \in SUBSET S
  BY <1>2, <1>3, SomeIn
<1>5. SumFunctionOnSet(f, T \ {Some(T)}) \in Nat
  BY <1>2, <1>4
<1>6. f[Some(T)] \in Nat
  BY <1>4 DEF Nats
<1> QED
  BY <1>2, <1>3, <1>5, <1>6, SumUnfold

\* Fewer terms, a smaller sum.
LEMMA SumSubset ==
    ASSUME NEW f, NEW S, IsFiniteSet(S), Nats(f, S), NEW T \in SUBSET S
    PROVE  SumFunctionOnSet(f, T) <= SumFunctionOnSet(f, S)
<1> DEFINE Bad == {U \in SUBSET S : T \subseteq U /\ ~(SumFunctionOnSet(f, T) <= SumFunctionOnSet(f, U))}
<1>1. SUFFICES ASSUME Bad # {} PROVE FALSE
  OBVIOUS
<1>2. PICK U \in Bad : IsFiniteSet(U) /\ \A V \in Bad : V \subseteq U => V = U
  <2>1. Bad \in SUBSET (SUBSET S)
    OBVIOUS
  <2> HIDE DEF Bad
  <2> QED
    BY <1>1, <2>1, SmallestSet
<1>0. /\ IsFiniteSet(T) /\ Nats(f, T) /\ U \in SUBSET S /\ T \subseteq U
      /\ ~(SumFunctionOnSet(f, T) <= SumFunctionOnSet(f, U))
  BY <1>2, FS_Subset DEF Nats
<1>3. PICK x \in U : x \notin T
  <2>1. SumFunctionOnSet(f, T) \in Nat
    BY <1>0, SumNat
  <2>2. T # U
    BY <1>0, <2>1
  <2> QED
    BY <1>0, <2>2
<1>4. SumFunctionOnSet(f, T) <= SumFunctionOnSet(f, U \ {x})
  BY <1>0, <1>2, <1>3
<1> HIDE DEF Bad
<1>5. IsFiniteSet(U \ {x}) /\ Nats(f, U \ {x}) /\ Ints(f, U) /\ f[x] \in Nat
  BY <1>0, <1>2, <1>3, FS_RemoveElement DEF Nats, Ints
<1>6. SumFunctionOnSet(f, U) = f[x] + SumFunctionOnSet(f, U \ {x})
  BY <1>2, <1>3, <1>5, SumRemove
<1>7. SumFunctionOnSet(f, U \ {x}) \in Nat /\ SumFunctionOnSet(f, T) \in Nat
  BY <1>0, <1>5, SumNat
<1> QED
  BY <1>0, <1>4, <1>5, <1>6, <1>7

\* Terms that are matched with others, each at least as large, sum to less.
LEMMA SumInject ==
    ASSUME NEW f, NEW g, NEW S, NEW T, IsFiniteSet(S), IsFiniteSet(T), Nats(f, S), Nats(g, T),
           NEW p, \A s \in S : p[s] \in T /\ f[s] <= g[p[s]],
           \A s, t \in S : p[s] = p[t] => s = t
    PROVE  SumFunctionOnSet(f, S) <= SumFunctionOnSet(g, T)
<1> DEFINE Image(U) == {p[s] : s \in U}
           Bad == {U \in SUBSET S : ~(SumFunctionOnSet(f, U) <= SumFunctionOnSet(g, Image(U)))}
<1>0. \A U \in SUBSET S :
         /\ IsFiniteSet(U) /\ Nats(f, U) /\ Ints(f, U) /\ Image(U) \in SUBSET T
         /\ IsFiniteSet(Image(U)) /\ Nats(g, Image(U)) /\ Ints(g, Image(U))
  <2> TAKE U \in SUBSET S
  <2>1. IsFiniteSet(U) /\ Nats(f, U) /\ Ints(f, U)
    BY FS_Subset DEF Nats, Ints
  <2>2. Image(U) \in SUBSET T
    OBVIOUS
  <2>3. IsFiniteSet(Image(U)) /\ Nats(g, Image(U)) /\ Ints(g, Image(U))
    <3> HIDE DEF Image
    <3> QED
      BY <2>2, FS_Subset DEF Nats, Ints
  <2> QED
    BY <2>1, <2>2, <2>3
<1>1. Bad = {}
  <2> SUFFICES ASSUME Bad # {} PROVE FALSE
    OBVIOUS
  <2>2. PICK U \in Bad : IsFiniteSet(U) /\ \A V \in Bad : V \subseteq U => V = U
    <3>1. Bad \in SUBSET (SUBSET S)
      OBVIOUS
    <3> HIDE DEF Bad
    <3> QED
      BY <3>1, SmallestSet
  <2>0. U \in SUBSET S /\ ~(SumFunctionOnSet(f, U) <= SumFunctionOnSet(g, Image(U)))
    BY <2>2
  <2>3. PICK x \in U : TRUE
    <3>1. U = {} => Image(U) = {}
      OBVIOUS
    <3> QED
      BY <2>0, <3>1, SumEmpty
  <2>4. SumFunctionOnSet(f, U \ {x}) <= SumFunctionOnSet(g, Image(U \ {x}))
    BY <2>0, <2>2, <2>3
  <2>5. Image(U \ {x}) = Image(U) \ {p[x]} /\ p[x] \in Image(U) /\ U \ {x} \in SUBSET S
    BY <2>0, <2>3
  <2> HIDE DEF Bad, Image
  <2>6. SumFunctionOnSet(f, U) = f[x] + SumFunctionOnSet(f, U \ {x})
    BY <1>0, <2>0, <2>3, SumRemove
  <2>7. SumFunctionOnSet(g, Image(U)) = g[p[x]] + SumFunctionOnSet(g, Image(U) \ {p[x]})
    BY <1>0, <2>0, <2>5, SumRemove
  <2>8. SumFunctionOnSet(f, U \ {x}) \in Nat /\ SumFunctionOnSet(g, Image(U \ {x})) \in Nat
    BY <1>0, <2>5, SumNat
  <2>9. f[x] \in Nat /\ g[p[x]] \in Nat /\ f[x] <= g[p[x]]
    BY <2>0, <2>3 DEF Nats
  <2> QED
    BY <2>0, <2>4, <2>5, <2>6, <2>7, <2>8, <2>9
<1>2. SumFunctionOnSet(f, S) <= SumFunctionOnSet(g, Image(S))
  BY <1>1
<1> HIDE DEF Bad, Image
<1>3. SumFunctionOnSet(g, Image(S)) <= SumFunctionOnSet(g, T)
  BY <1>0, SumSubset
<1>4. /\ SumFunctionOnSet(f, S) \in Nat /\ SumFunctionOnSet(g, Image(S)) \in Nat
      /\ SumFunctionOnSet(g, T) \in Nat
  BY <1>0, SumNat
<1> QED
  BY <1>2, <1>3, <1>4

\* A sum of which one term changes.
LEMMA SumExcept ==
    ASSUME NEW f, NEW g, NEW S, IsFiniteSet(S), Ints(f, S), NEW x \in S, g[x] \in Int,
           \A s \in S \ {x} : g[s] = f[s]
    PROVE  SumFunctionOnSet(g, S) = SumFunctionOnSet(f, S) - f[x] + g[x]
<1>1. IsFiniteSet(S \ {x}) /\ Ints(g, S) /\ Ints(f, S \ {x}) /\ f[x] \in Int
  BY FS_RemoveElement DEF Ints
<1>2. SumFunctionOnSet(f, S \ {x}) = SumFunctionOnSet(g, S \ {x})
  BY <1>1, SumSame
<1>3. /\ SumFunctionOnSet(f, S) = f[x] + SumFunctionOnSet(f, S \ {x})
      /\ SumFunctionOnSet(g, S) = g[x] + SumFunctionOnSet(g, S \ {x})
  BY <1>1, SumRemove
<1>4. SumFunctionOnSet(f, S \ {x}) \in Int
  BY <1>1, SumInt
<1> QED
  BY <1>1, <1>2, <1>3, <1>4

Listed(g, s) == IF s = {} THEN <<>> ELSE Append(g[s \ {Some(s)}], Some(s))
Lists(g, R) == g = [s \in SUBSET R |-> Listed(g, s)]
Listing(R) == CHOOSE g : Lists(g, R)
ListOf(S) == FoldSet(LAMBDA x, s : Append(s, x), <<>>, S)

\* The list of a set is the value at it of the function that the library chooses.
LEMMA ListIs == ASSUME NEW S PROVE ListOf(S) = Listing(S)[S]
BY DEF ListOf, Listing, Lists, Listed, Some, FoldSet, MapThenFoldSet

\* There is such a function.
LEMMA ListingExists ==
    ASSUME NEW R, IsFiniteSet(R)
    PROVE  Lists(Listing(R), R)
<1> DEFINE Upto(n) == {s \in SUBSET R : Cardinality(s) <= n}
           Good(n) == \E g : g = [s \in Upto(n) |-> Listed(g, s)]
           Bad == {n \in Nat : ~Good(n)}
<1>1. \A s \in SUBSET R : IsFiniteSet(s) /\ Cardinality(s) \in Nat /\ Cardinality(s) <= Cardinality(R)
  BY FS_Subset, FS_CardinalityType
<1>2. \A s \in SUBSET R : Cardinality(s) = 0 <=> s = {}
  BY <1>1, FS_EmptySet
<1>3. \A s \in SUBSET R : s # {} => s \ {Some(s)} \in SUBSET R /\ Cardinality(s \ {Some(s)}) = Cardinality(s) - 1
  BY <1>1, SomeIn, FS_RemoveElement
<1>4. Good(0)
  <2> DEFINE g == [s \in Upto(0) |-> <<>>]
  <2>1. \A s \in Upto(0) : s = {}
    BY <1>1, <1>2
  <2>2. g = [s \in Upto(0) |-> Listed(g, s)]
    BY <2>1 DEF Listed
  <2> QED
    BY <2>2
<1>5. ASSUME NEW n \in Nat, Good(n) PROVE Good(n + 1)
  <2>1. PICK g : g = [s \in Upto(n) |-> Listed(g, s)]
    BY <1>5
  <2> DEFINE h == [s \in Upto(n + 1) |-> Listed(g, s)]
  <2>2. ASSUME NEW s \in Upto(n + 1), s # {} PROVE h[s \ {Some(s)}] = g[s \ {Some(s)}]
    <3>1. s \ {Some(s)} \in Upto(n) /\ s \ {Some(s)} \in Upto(n + 1)
      BY <1>1, <1>3, <2>2
    <3> QED
      BY <2>1, <3>1
  <2> HIDE DEF h
  <2>3. \A s \in Upto(n + 1) : Listed(h, s) = Listed(g, s)
    BY <2>2 DEF Listed
  <2>4. h = [s \in Upto(n + 1) |-> Listed(h, s)]
    BY <2>3 DEF h
  <2> QED
    BY <2>4
<1> HIDE DEF Good
<1>6. Bad = {}
  <2> SUFFICES ASSUME Bad # {} PROVE FALSE
    OBVIOUS
  <2>1. PICK m \in Bad : \A k \in Bad : m <= k
    BY Least
  <2>2. m # 0
    BY <1>4, <2>1
  <2>3. m - 1 \in Nat /\ m - 1 \notin Bad
    BY <2>1, <2>2
  <2> QED
    BY <1>5, <2>1, <2>3
<1>7. Good(Cardinality(R)) /\ Upto(Cardinality(R)) = SUBSET R
  BY <1>1, <1>6, FS_CardinalityType
<1> QED
  BY <1>7 DEF Good, Lists, Listing

\* There is only one.
LEMMA ListingUnique ==
    ASSUME NEW R, IsFiniteSet(R), NEW S \in SUBSET R,
           NEW g, Lists(g, R), NEW h, Lists(h, S)
    PROVE  g[S] = h[S]
<1> DEFINE Bad == {n \in Nat : \E s \in SUBSET S : Cardinality(s) = n /\ g[s] # h[s]}
<1>1. \A s \in SUBSET S : IsFiniteSet(s) /\ Cardinality(s) \in Nat
  BY FS_Subset, FS_CardinalityType
<1>2. SUFFICES ASSUME Bad # {} PROVE FALSE
  BY <1>1
<1>3. PICK n \in Bad : \A k \in Bad : n <= k
  BY <1>2, Least
<1>4. PICK s \in SUBSET S : Cardinality(s) = n /\ g[s] # h[s]
  BY <1>3
<1>5. g[s] = Listed(g, s) /\ h[s] = Listed(h, s)
  <2>1. s \in SUBSET R
    BY <1>4
  <2> QED
    BY <2>1 DEF Lists
<1>6. s # {}
  BY <1>4, <1>5 DEF Listed
<1> DEFINE t == s \ {Some(s)}
<1>7. t \in SUBSET S /\ Cardinality(t) = n - 1 /\ n - 1 \in Nat
  <2>1. Some(s) \in s /\ Cardinality(s) # 0
    BY <1>1, <1>6, SomeIn, FS_EmptySet
  <2>2. n \in Nat /\ n # 0
    BY <1>4, <2>1
  <2>3. IsFiniteSet(s) /\ Some(s) \in s /\ Cardinality(s) = n
    BY <1>1, <1>4, <2>1
  <2> HIDE DEF Bad
  <2>4. Cardinality(t) = n - 1
    BY <2>3, FS_RemoveElement
  <2> QED
    BY <2>2, <2>4
<1>8. g[t] = h[t]
  BY <1>3, <1>7
<1> QED
  BY <1>4, <1>5, <1>6, <1>8 DEF Listed

\* The list of a set is that of the others and the one that is chosen.
LEMMA ListUnfold ==
    ASSUME NEW S, IsFiniteSet(S)
    PROVE  ListOf(S) = IF S = {} THEN <<>> ELSE Append(ListOf(S \ {Some(S)}), Some(S))
<1> DEFINE g == Listing(S)
           T == S \ {Some(S)}
           h == Listing(T)
<1>1. Lists(g, S)
  BY ListingExists
<1>2. Lists(h, T)
  <2>1. IsFiniteSet(T)
    BY FS_RemoveElement
  <2> QED
    BY <2>1, ListingExists
<1> HIDE DEF g, h
<1>3. g[S] = Listed(g, S)
  BY <1>1 DEF Lists
<1>4. g[T] = h[T]
  <2>1. T \in SUBSET S
    OBVIOUS
  <2> HIDE DEF T
  <2> QED
    BY <1>1, <1>2, <2>1, ListingUnique
<1>5. ListOf(S) = g[S] /\ ListOf(T) = h[T]
  BY ListIs DEF g, h
<1> QED
  BY <1>3, <1>4, <1>5 DEF Listed

\* The fold lists the set, each element once.
LEMMA ListExact ==
    ASSUME NEW S, IsFiniteSet(S)
    PROVE  ListOf(S) \in Seq(S) /\ Len(ListOf(S)) = Cardinality(S) /\ Range(ListOf(S)) = S
<1> DEFINE Right(T) ==
             /\ ListOf(T) \in Seq(S) /\ Len(ListOf(T)) = Cardinality(T)
             /\ \A i \in DOMAIN ListOf(T) : ListOf(T)[i] \in T
             /\ \A x \in T : \E i \in DOMAIN ListOf(T) : ListOf(T)[i] = x
           Bad == {T \in SUBSET S : ~Right(T)}
<1>1. Bad = {}
  <2> SUFFICES ASSUME Bad # {} PROVE FALSE
    OBVIOUS
  <2>1. PICK T \in Bad : IsFiniteSet(T) /\ \A U \in Bad : U \subseteq T => U = T
    <3>1. Bad \in SUBSET (SUBSET S)
      OBVIOUS
    <3> HIDE DEF Bad
    <3> QED
      BY <3>1, SmallestSet
  <2>2. T \in SUBSET S /\ ~Right(T)
    BY <2>1
  <2>3. T # {}
    <3>1. ListOf({}) = <<>> /\ <<>> \in Seq(S) /\ Len(<<>>) = 0 /\ DOMAIN <<>> = {} /\ Cardinality({}) = 0
      BY ListUnfold, FS_EmptySet
    <3>2. Right({})
      BY <3>1
    <3> QED
      BY <2>2, <3>2
  <2> DEFINE x == Some(T)
             U == T \ {x}
             l == ListOf(U)
  <2>4. x \in T /\ x \in S /\ U \in SUBSET S /\ U # T
    BY <2>2, <2>3, SomeIn
  <2>5. Right(U)
    BY <2>1, <2>4
  <2>6. ListOf(T) = Append(l, x)
    BY <2>1, <2>3, ListUnfold
  <2> HIDE DEF x
  <2>7. Cardinality(U) = Cardinality(T) - 1 /\ Cardinality(T) \in Nat
    BY <2>1, <2>4, FS_RemoveElement, FS_CardinalityType
  <2> HIDE DEF l
  <2>8. l \in Seq(S) /\ Len(l) = Cardinality(T) - 1
    BY <2>5, <2>7 DEF l
  <2>9. /\ Append(l, x) \in Seq(S) /\ Len(Append(l, x)) = Len(l) + 1
        /\ \A i \in 1..Len(l) : Append(l, x)[i] = l[i]
        /\ Append(l, x)[Len(l) + 1] = x
    BY <2>4, <2>8, AppendProperties
  <2>10. /\ DOMAIN l = 1..Len(l) /\ DOMAIN Append(l, x) = 1..Len(l) + 1 /\ Len(l) \in Nat
    BY <2>8, <2>9, LenProperties
  <2>11. /\ \A i \in DOMAIN l : l[i] \in U
         /\ \A y \in U : \E i \in DOMAIN l : l[i] = y
    BY <2>5 DEF l
  <2>12. \A i \in DOMAIN Append(l, x) : Append(l, x)[i] \in T
    <3> TAKE i \in DOMAIN Append(l, x)
    <3>1. i \in DOMAIN l \/ i = Len(l) + 1
      BY <2>10
    <3> QED
      BY <2>4, <2>9, <2>10, <2>11, <3>1
  <2>13. ASSUME NEW y \in T PROVE \E i \in DOMAIN Append(l, x) : Append(l, x)[i] = y
    <3>1. CASE y = x
      BY <2>9, <2>10, <3>1
    <3>2. CASE y # x
      <4>1. PICK i \in DOMAIN l : l[i] = y
        BY <2>11, <3>2
      <4>2. i \in DOMAIN Append(l, x) /\ Append(l, x)[i] = y
        BY <2>9, <2>10, <4>1
      <4> QED
        BY <4>2
    <3> QED
      BY <3>1, <3>2
  <2>14. Right(T)
    <3>1. Len(Append(l, x)) = Cardinality(T)
      BY <2>7, <2>8, <2>9
    <3> HIDE DEF U
    <3> QED
      BY <2>6, <2>9, <2>12, <2>13, <3>1
  <2> QED
    BY <2>2, <2>14
<1>2. Right(S)
  BY <1>1
<1> HIDE DEF Right, Bad
<1> QED
  BY <1>2 DEF Right, Range

-----------------------------------------------------------------------------
(* More about sums, ranks and division                                     *)

\* The sum of a pointwise sum.
LEMMA SumPlus ==
    ASSUME NEW f, NEW g, NEW h, NEW S, IsFiniteSet(S), Ints(f, S), Ints(g, S),
           \A s \in S : h[s] = f[s] + g[s]
    PROVE  SumFunctionOnSet(h, S) = SumFunctionOnSet(f, S) + SumFunctionOnSet(g, S)
<1> DEFINE Bad == {T \in SUBSET S :
                     SumFunctionOnSet(h, T) # SumFunctionOnSet(f, T) + SumFunctionOnSet(g, T)}
<1>1. SUFFICES ASSUME Bad # {} PROVE FALSE
  OBVIOUS
<1>2. PICK T \in Bad : IsFiniteSet(T) /\ \A U \in Bad : U \subseteq T => U = T
  <2>1. Bad \in SUBSET (SUBSET S)
    OBVIOUS
  <2> HIDE DEF Bad
  <2> QED
    BY <1>1, <2>1, SmallestSet
<1>3. PICK x \in T : TRUE
  <2>1. {} \notin Bad
    BY SumEmpty
  <2> QED
    BY <1>2, <2>1
<1>4. /\ SumFunctionOnSet(h, T \ {x}) = SumFunctionOnSet(f, T \ {x}) + SumFunctionOnSet(g, T \ {x})
      /\ x \in S /\ T \in SUBSET S
  BY <1>2, <1>3
<1>5. SumFunctionOnSet(h, T) # SumFunctionOnSet(f, T) + SumFunctionOnSet(g, T)
  BY <1>2
<1> HIDE DEF Bad
<1>6. /\ IsFiniteSet(T \ {x}) /\ Ints(f, T) /\ Ints(g, T) /\ Ints(h, T)
      /\ Ints(f, T \ {x}) /\ Ints(g, T \ {x})
  BY <1>2, <1>4, FS_RemoveElement DEF Ints
<1>7. SumFunctionOnSet(f, T \ {x}) \in Int /\ SumFunctionOnSet(g, T \ {x}) \in Int /\ f[x] \in Int /\ g[x] \in Int
  BY <1>4, <1>6, SumInt DEF Ints
<1>8. /\ SumFunctionOnSet(f, T) = f[x] + SumFunctionOnSet(f, T \ {x})
      /\ SumFunctionOnSet(g, T) = g[x] + SumFunctionOnSet(g, T \ {x})
      /\ SumFunctionOnSet(h, T) = (f[x] + g[x]) + SumFunctionOnSet(h, T \ {x})
  BY <1>2, <1>3, <1>4, <1>6, SumRemove
<1> QED
  BY <1>4, <1>5, <1>7, <1>8

\* A sum that counts: c for every member of T, nothing for the others.
LEMMA SumCounts ==
    ASSUME NEW f, NEW S, IsFiniteSet(S), NEW T \in SUBSET S, NEW c \in Nat,
           \A s \in S : f[s] = IF s \in T THEN c ELSE 0
    PROVE  SumFunctionOnSet(f, S) = Cardinality(T) * c
<1> DEFINE Bad == {U \in SUBSET S : SumFunctionOnSet(f, U) # Cardinality(U \cap T) * c}
<1>1. SUFFICES ASSUME Bad # {} PROVE FALSE
  <2>1. S \cap T = T
    OBVIOUS
  <2> QED
    BY <2>1
<1>2. PICK U \in Bad : IsFiniteSet(U) /\ \A V \in Bad : V \subseteq U => V = U
  <2>1. Bad \in SUBSET (SUBSET S)
    OBVIOUS
  <2> HIDE DEF Bad
  <2> QED
    BY <1>1, <2>1, SmallestSet
<1>3. PICK x \in U : TRUE
  <2>1. Cardinality({}) = 0 /\ 0 * c = 0 /\ {} \cap T = {}
    BY FS_EmptySet
  <2>2. {} \notin Bad
    BY <2>1, SumEmpty
  <2> QED
    BY <1>2, <2>2
<1>4. /\ SumFunctionOnSet(f, U \ {x}) = Cardinality((U \ {x}) \cap T) * c
      /\ x \in S /\ U \in SUBSET S
  BY <1>2, <1>3
<1>5. SumFunctionOnSet(f, U) # Cardinality(U \cap T) * c
  BY <1>2
<1> HIDE DEF Bad
<1>6. SumFunctionOnSet(f, U) = f[x] + SumFunctionOnSet(f, U \ {x})
  <2>1. Ints(f, U)
    BY <1>4 DEF Ints
  <2> QED
    BY <1>2, <1>3, <2>1, SumRemove
<1>7. IsFiniteSet(U \cap T) /\ Cardinality(U \cap T) \in Nat
  BY <1>2, FS_Subset, FS_CardinalityType
<1> DEFINE W == U \cap T
<1>8. CASE x \in T
  <2>1. (U \ {x}) \cap T = (U \cap T) \ {x} /\ x \in U \cap T /\ f[x] = c
    BY <1>3, <1>4, <1>8
  <2>2. Cardinality((U \ {x}) \cap T) = Cardinality(U \cap T) - 1
    <3>1. IsFiniteSet(W) /\ x \in W /\ (U \ {x}) \cap T = W \ {x}
      BY <1>7, <2>1
    <3> HIDE DEF W
    <3>2. Cardinality(W \ {x}) = Cardinality(W) - 1
      BY <3>1, FS_RemoveElement
    <3> QED
      BY <3>1, <3>2 DEF W
  <2>3. \A n \in Nat : c + (n - 1) * c = n * c
    OBVIOUS
  <2> QED
    BY <1>4, <1>5, <1>6, <1>7, <2>1, <2>2, <2>3
<1>9. CASE x \notin T
  <2>1. (U \ {x}) \cap T = U \cap T /\ f[x] = 0
    BY <1>4, <1>9
  <2>2. SumFunctionOnSet(f, U) = 0 + Cardinality(U \cap T) * c
    BY <1>4, <1>6, <2>1
  <2>3. \A n \in Nat : 0 + n * c = n * c
    OBVIOUS
  <2> QED
    BY <1>5, <1>7, <2>2, <2>3
<1> QED
  BY <1>8, <1>9

Below(S, x) == {y \in S : y < x}

\* How many numbers of a set are below one orders them, and takes every
\* value from 0 on.
LEMMA Ranks ==
    ASSUME NEW S \in SUBSET Int, IsFiniteSet(S)
    PROVE  /\ Cardinality(S) \in Nat
           /\ \A x \in S : Cardinality(Below(S, x)) \in 0..Cardinality(S) - 1
           /\ \A x, y \in S : x < y => Cardinality(Below(S, x)) < Cardinality(Below(S, y))
           /\ \A k \in 0..Cardinality(S) - 1 : \E x \in S : Cardinality(Below(S, x)) = k
<1> DEFINE n == Cardinality(S)
           rank(x) == Cardinality(Below(S, x))
           f == [x \in S |-> rank(x)]
<1>1. n \in Nat
  BY FS_CardinalityType
<1>2. \A x \in S : IsFiniteSet(Below(S, x)) /\ rank(x) \in Nat /\ rank(x) <= n
  <2>1. \A x \in S : Below(S, x) \in SUBSET S
    BY DEF Below
  <2> QED
    BY <2>1, FS_Subset, FS_CardinalityType
<1>3. ASSUME NEW x \in S PROVE rank(x) \in 0..n - 1
  <2>1. Below(S, x) \in SUBSET S /\ x \notin Below(S, x)
    BY DEF Below
  <2>2. rank(x) # n
    BY <2>1, FS_Subset
  <2> HIDE DEF n
  <2> QED
    BY <1>1, <1>2, <2>2
<1>4. ASSUME NEW x \in S, NEW y \in S, x < y PROVE rank(x) < rank(y)
  <2>1. Below(S, x) \in SUBSET Below(S, y) /\ x \in Below(S, y) /\ x \notin Below(S, x)
    <3>1. x \in Int /\ y \in Int
      OBVIOUS
    <3>2. \A z \in S : z < x => z < y
      <4> TAKE z \in S
      <4>1. z \in Int
        OBVIOUS
      <4> QED
        BY <1>4, <3>1, <4>1
    <3>3. \A z : z \in Below(S, x) <=> z \in S /\ z < x
      BY DEF Below
    <3>4. \A z : z \in Below(S, y) <=> z \in S /\ z < y
      BY DEF Below
    <3>5. ~(x < x)
      BY <3>1
    <3> QED
      BY <1>4, <3>2, <3>3, <3>4, <3>5
  <2>2. rank(x) <= rank(y) /\ rank(x) # rank(y)
    BY <1>2, <2>1, FS_Subset
  <2> QED
    BY <1>2, <2>2
<1>5. f \in Injection(S, 0..n - 1)
  <2>1. f \in [S -> 0..n - 1]
    BY <1>3
  <2>2. \A x, y \in S : f[x] = f[y] => x = y
    <3> TAKE x \in S, y \in S
    <3>1. x < y \/ y < x \/ x = y
      OBVIOUS
    <3>2. rank(x) \in Nat /\ rank(y) \in Nat
      BY <1>2
    <3> QED
      BY <1>4, <3>1, <3>2
  <2> HIDE DEF f
  <2> QED
    BY <2>1, <2>2 DEF Injection, IsInjective
<1>6. Cardinality(0..n - 1) = n /\ IsFiniteSet(0..n - 1)
  <2>1. \A m \in Nat : Cardinality(0..m - 1) = m /\ IsFiniteSet(0..m - 1)
    <3> TAKE m \in Nat
    <3>1. 0 \in Int /\ m - 1 \in Int
      OBVIOUS
    <3>2. IsFiniteSet(0..m - 1) /\ Cardinality(0..m - 1) = IF 0 > m - 1 THEN 0 ELSE (m - 1) - 0 + 1
      BY <3>1, FS_Interval
    <3> QED
      BY <3>2
  <2> QED
    BY <1>1, <2>1
<1>7. f \in Surjection(S, 0..n - 1)
  <2> HIDE DEF f
  <2> QED
    BY <1>5, <1>6, FS_Injection
<1>8. \A k \in 0..n - 1 : \E x \in S : rank(x) = k
  <2>1. \A k \in 0..n - 1 : \E x \in S : f[x] = k
    <3> HIDE DEF f
    <3> QED
      BY <1>7 DEF Surjection
  <2> QED
    BY <2>1
<1> QED
  BY <1>1, <1>3, <1>4, <1>8

\* At most m numbers of a set have fewer than m others below them.
LEMMA FewLow ==
    ASSUME NEW S \in SUBSET Int, IsFiniteSet(S), NEW m \in Nat
    PROVE  Cardinality({x \in S : Cardinality(Below(S, x)) < m}) <= m
<1> DEFINE L == {x \in S : Cardinality(Below(S, x)) < m}
           f == [x \in L |-> Cardinality(Below(S, x)) + 1]
<1>1. IsFiniteSet(L) /\ Cardinality(L) \in Nat
  <2>1. L \in SUBSET S
    OBVIOUS
  <2> QED
    BY <2>1, FS_Subset, FS_CardinalityType
<1>2. IsFiniteSet(1..m) /\ Cardinality(1..m) = m
  BY FS_Interval
<1>3. f \in Injection(L, 1..m)
  <2>1. \A x \in S : Cardinality(Below(S, x)) \in Nat
    BY Ranks
  <2>2. f \in [L -> 1..m]
    <3>1. \A x \in L : Cardinality(Below(S, x)) + 1 \in 1..m
      BY <2>1
    <3> QED
      BY <3>1
  <2>3. \A x, y \in L : f[x] = f[y] => x = y
    <3> TAKE x \in L, y \in L
    <3>1. x < y \/ y < x \/ x = y
      OBVIOUS
    <3>2. f[x] = f[y] => Cardinality(Below(S, x)) = Cardinality(Below(S, y))
      BY <2>1
    <3>3. Cardinality(Below(S, x)) \in Nat /\ Cardinality(Below(S, y)) \in Nat
      BY <2>1
    <3> QED
      BY <3>1, <3>2, <3>3, Ranks
  <2> HIDE DEF f, L
  <2> QED
    BY <2>2, <2>3 DEF Injection, IsInjective
<1> HIDE DEF f, L
<1>4. Cardinality(L) <= Cardinality(1..m)
  BY <1>2, <1>3, FS_Injection
<1>5. Cardinality(L) <= m
  BY <1>2, <1>4
<1> QED
  BY <1>5 DEF L

\* Division with a remainder.
LEMMA DivMod ==
    ASSUME NEW c \in Nat, NEW n \in Nat \ {0}
    PROVE  c \div n \in Nat /\ c % n \in Nat /\ c % n < n /\ n * (c \div n) + (c % n) = c
OBVIOUS

\* The greatest number of a set, as the library chooses it.
LEMMA MaxIs ==
    ASSUME NEW n \in Nat, NEW S \in SUBSET (0..n), S # {}
    PROVE  Max(S) \in S /\ \A y \in S : y <= Max(S)
<1> DEFINE above == {k \in Nat : \A y \in S : y <= k}
<1>1. n \in above
  OBVIOUS
<1>2. PICK k \in above : \A j \in above : k <= j
  <2>1. above \in SUBSET Nat
    OBVIOUS
  <2> HIDE DEF above
  <2> QED
    BY <1>1, <2>1, Least
<1>3. k \in S
  <2> SUFFICES ASSUME k \notin S PROVE FALSE
    OBVIOUS
  <2>1. k \in Nat /\ \A y \in S : y \in Nat /\ y < k
    BY <1>2
  <2>2. PICK y \in S : y \in Nat /\ y < k
    BY <2>1
  <2>3. k - 1 \in Nat /\ \A z \in S : z <= k - 1
    BY <2>1, <2>2
  <2>4. k - 1 \in above
    BY <2>3
  <2> QED
    BY <1>2, <2>1, <2>4
<1>4. \E x \in S : \A y \in S : x >= y
  BY <1>2, <1>3
<1>5. Max(S) \in S /\ \A y \in S : Max(S) >= y
  BY <1>4 DEF Max
<1> QED
  BY <1>5

-----------------------------------------------------------------------------
(* Recursive functions on numbers *)

\* Induction over the numbers up to N.
LEMMA Climb ==
    ASSUME NEW N \in Nat, NEW P, 0 \in P, \A n \in 0..N : n \in P /\ n < N => n + 1 \in P
    PROVE  \A n \in 0..N : n \in P
<1> DEFINE Bad == {n \in 0..N : n \notin P}
<1>1. SUFFICES ASSUME Bad # {} PROVE FALSE
  OBVIOUS
<1>2. PICK m \in Bad : \A k \in Bad : m <= k
  <2>1. Bad \in SUBSET Nat
    OBVIOUS
  <2> HIDE DEF Bad
  <2> QED
    BY <1>1, <2>1, Least
<1>3. m \in 0..N /\ m \notin P /\ m # 0
  BY <1>2
<1>4. m - 1 \in 0..N /\ m - 1 < N /\ (m - 1) + 1 = m
  BY <1>3
<1>5. m - 1 \in P
  BY <1>2, <1>4
<1> QED
  BY <1>3, <1>4, <1>5

Follows(g, N, a, st) ==
    /\ g = [n \in 0..N |-> g[n]] /\ g[0] = a
    /\ \A n \in 1..N : g[n] = st[n][g[n - 1]]
Closed(st, N, D) == \A n \in 1..N : \A x \in D : st[n][x] \in D

\* A function that is defined by its value at the number before exists.
LEMMA Recursion ==
    ASSUME NEW N \in Nat, NEW D, NEW a \in D, NEW st, Closed(st, N, D)
    PROVE  \E g : Follows(g, N, a, st) /\ \A n \in 0..N : g[n] \in D
<1> DEFINE Is(g, m) == /\ g = [n \in 0..m |-> g[n]] /\ g[0] = a
                       /\ \A n \in 0..m : g[n] \in D
                       /\ \A n \in 1..m : g[n] = st[n][g[n - 1]]
           P == {m \in 0..N : \E g : Is(g, m)}
<1>0. \A n \in 1..N : \A x \in D : st[n][x] \in D
  BY DEF Closed
<1>1. 0 \in P
  <2> DEFINE g == [n \in 0..0 |-> a]
  <2>1. Is(g, 0)
    OBVIOUS
  <2>2. 0 \in 0..N
    OBVIOUS
  <2> HIDE DEF Is, g
  <2> QED
    BY <2>1, <2>2
<1>2. ASSUME NEW m \in 0..N, m \in P, m < N PROVE m + 1 \in P
  <2>1. PICK g : Is(g, m)
    BY <1>2
  <2>2. \A n \in 0..m : g[n] \in D
    BY <2>1
  <2> DEFINE b == st[m + 1][g[m]]
             h == [n \in 0..m + 1 |-> IF n = m + 1 THEN b ELSE g[n]]
  <2>3. m + 1 \in 1..N /\ g[m] \in D /\ m + 1 \in 0..N
    BY <1>2, <2>2
  <2>4. b \in D
    BY <1>0, <2>3
  <2> HIDE DEF b
  <2>5. h[0] = a /\ h[m + 1] = b /\ h = [n \in 0..m + 1 |-> h[n]]
    <3>1. 0 \in 0..m + 1 /\ 0 # m + 1 /\ m + 1 \in 0..m + 1
      BY <1>2
    <3>2. g[0] = a
      BY <2>1
    <3> HIDE DEF Is
    <3> QED
      BY <3>1, <3>2
  <2>6. \A n \in 0..m : h[n] = g[n]
    BY <1>2
  <2> HIDE DEF h
  <2>7. ASSUME NEW n \in 1..m + 1 PROVE h[n] = st[n][h[n - 1]] /\ h[n] \in D
    <3>1. n - 1 \in 0..m /\ (n = m + 1 => n - 1 = m) /\ (n # m + 1 => n \in 1..m /\ n \in 0..m)
      BY <1>2
    <3>2. h[n - 1] = g[n - 1]
      BY <2>6, <3>1
    <3>3. CASE n = m + 1
      BY <2>4, <2>5, <3>1, <3>2, <3>3 DEF b
    <3>4. CASE n # m + 1
      <4>1. g[n] = st[n][g[n - 1]]
        BY <2>1, <3>1, <3>4
      <4> QED
        BY <2>2, <2>6, <3>1, <3>2, <3>4, <4>1
    <3> QED
      BY <3>3, <3>4
  <2>8. \A n \in 0..m + 1 : h[n] \in D
    <3>1. \A n \in 0..m + 1 : n = 0 \/ n \in 1..m + 1
      BY <1>2
    <3> QED
      BY <2>5, <2>7, <3>1
  <2>9. Is(h, m + 1)
    BY <2>5, <2>7, <2>8
  <2> HIDE DEF Is
  <2> QED
    BY <2>3, <2>9
<1> HIDE DEF Is
<1>3. N \in P
  <2>1. N \in 0..N
    OBVIOUS
  <2> HIDE DEF P
  <2> QED
    BY <1>1, <1>2, <2>1, Climb
<1>4. PICK g : Is(g, N)
  BY <1>3
<1> QED
  BY <1>4 DEF Is, Follows
=============================================================================
