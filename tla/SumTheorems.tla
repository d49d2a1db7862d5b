----------------------------- MODULE SumTheorems -----------------------------
(***************************************************************************)
(* Facts about SumFunctionOnSet and SumFunction, the community modules'    *)
(* sums of the values of a function.  The models add up lots, records and  *)
(* losses with them; the proofs need to know what one more, one fewer or   *)
(* one changed summand does to a sum.                                      *)
(*                                                                         *)
(* The sums are folds, that is recursive functions, so every fact rests on *)
(* an induction.  The induction theorems of the library take an operator   *)
(* as parameter, which the provers cannot instantiate; LeastNatural and    *)
(* MinimalSet say the same of sets, and are cited with the set of the      *)
(* counterexamples.  EveryRank is about the members of an ordered set.     *)
(***************************************************************************)
EXTENDS Integers, FiniteSets, Functions, FiniteSetTheorems, TLAPS

\* Every set of naturals that is not empty has a least element.
LEMMA LeastNatural ==
  ASSUME NEW T \in SUBSET Nat, T # {}
  PROVE  \E n \in T : \A m \in T : n <= m
<1> DEFINE R == {ss \in Nat \X Nat : ss[1] < ss[2]}
<1>1. IsWellFoundedOn(R, Nat)
  BY NatLessThanWellFounded DEF OpToRel
<1>2. PICK n \in T : \A m \in T : ~ (<<m, n>> \in R)
  <2> HIDE DEF R
  <2> QED BY <1>1, WFMin
<1>3. \A m \in T : n <= m
  <2> SUFFICES ASSUME NEW m \in T PROVE n <= m
    OBVIOUS
  <2>1. ~ (<<m, n>> \in R)
    BY <1>2
  <2>2. ~ (m < n)
    BY <2>1
  <2> QED BY <2>2
<1> QED BY <1>3

\* Induction over the naturals, for a set of naturals instead of a predicate.
LEMMA NaturalInduction ==
  ASSUME NEW Good, 0 \in Good, \A n \in Nat : n \in Good => n + 1 \in Good
  PROVE  Nat \subseteq Good
<1> SUFFICES ASSUME Nat \ Good # {} PROVE FALSE
  OBVIOUS
<1>1. PICK n \in Nat \ Good : \A m \in Nat \ Good : n <= m
  BY LeastNatural
<1>2. n - 1 \in Nat /\ n - 1 \in Good
  BY <1>1
<1> QED BY <1>1, <1>2

\* A set of finite sets that is not empty has a member none of whose elements
\* can be taken away without leaving the set.
LEMMA MinimalSet ==
  ASSUME NEW Bad, Bad # {}, \A T \in Bad : IsFiniteSet(T)
  PROVE  \E T \in Bad : \A x \in T : T \ {x} \notin Bad
<1> DEFINE sizes == {n \in Nat : \E T \in Bad : Cardinality(T) = n}
<1>1. sizes # {}
  BY FS_CardinalityType
<1>2. PICK n \in sizes : \A m \in sizes : n <= m
  <2> HIDE DEF sizes
  <2>1. sizes \in SUBSET Nat
    BY DEF sizes
  <2> QED BY <1>1, <2>1, LeastNatural
<1>3. PICK T \in Bad : Cardinality(T) = n
  BY <1>2
<1>4. ASSUME NEW x \in T PROVE T \ {x} \notin Bad
  <2>1. Cardinality(T \ {x}) = n - 1 /\ n \in Nat
    BY <1>2, <1>3, FS_RemoveElement
  <2>2. Cardinality(T \ {x}) \in Nat
    BY <1>3, FS_RemoveElement, FS_CardinalityType
  <2> QED BY <1>2, <2>1, <2>2
<1> QED BY <1>4

\* A strict total order of a set, and the number of members before one of them.
Ordering(R, S) ==
  /\ \A a \in S : <<a, a>> \notin R
  /\ \A a, b \in S : a # b => <<a, b>> \in R \/ <<b, a>> \in R
  /\ \A a, b, c \in S : <<a, b>> \in R /\ <<b, c>> \in R => <<a, c>> \in R
RankBy(R, S, p) == Cardinality({q \in S : <<q, p>> \in R})

\* A strict total order of a finite set has a member of every rank.
LEMMA RankTaken ==
  ASSUME NEW S, IsFiniteSet(S), NEW R, Ordering(R, S), NEW n \in 0 .. Cardinality(S) - 1
  PROVE  \E p \in S : RankBy(R, S, p) = n
<1>0. /\ \A a \in S : <<a, a>> \notin R
      /\ \A a, b \in S : a # b => <<a, b>> \in R \/ <<b, a>> \in R
      /\ \A a, b, c \in S : <<a, b>> \in R /\ <<b, c>> \in R => <<a, c>> \in R
  BY DEF Ordering
<1> DEFINE Before(p) == {q \in S : <<q, p>> \in R}
           r == [p \in S |-> Cardinality(Before(p))]
           m == Cardinality(S)
           T == 0 .. m - 1
<1>1. m \in Nat
  BY FS_CardinalityType
<1>2. \A p \in S : Before(p) \in SUBSET S /\ IsFiniteSet(Before(p)) /\ Cardinality(Before(p)) \in Nat
  BY FS_Subset, FS_CardinalityType
<1>3. \A p \in S : Cardinality(Before(p)) <= m - 1
  <2> TAKE p \in S
  <2>1. Before(p) \in SUBSET (S \ {p})
    BY <1>0
  <2>2. IsFiniteSet(S \ {p}) /\ Cardinality(S \ {p}) = m - 1
    BY FS_RemoveElement
  <2> HIDE DEF Before, m
  <2>3. Cardinality(Before(p)) <= Cardinality(S \ {p})
    BY <2>1, <2>2, FS_Subset
  <2> QED BY <2>2, <2>3
<1>4. ASSUME NEW p \in S, NEW q \in S, <<p, q>> \in R
      PROVE  r[p] # r[q]
  <2>1. Before(p) \in SUBSET Before(q) /\ p \in Before(q) /\ p \notin Before(p)
    BY <1>0, <1>4
  <2> HIDE DEF Before
  <2>2. Cardinality(Before(p)) # Cardinality(Before(q))
    BY <1>2, <2>1, FS_Subset
  <2> QED BY <2>2
<1> HIDE DEF Before
<1>5. r \in [S -> T]
  <2> HIDE DEF m
  <2> QED BY <1>1, <1>2, <1>3
<1>6. \A p, q \in S : r[p] = r[q] => p = q
  <2> HIDE DEF r
  <2> QED BY <1>0, <1>4
<1>7. r \in Injection(S, T)
  <2> HIDE DEF r, T
  <2> QED BY <1>5, <1>6 DEF Injection, IsInjective
<1>8. IsFiniteSet(T) /\ Cardinality(T) = m
  <2> HIDE DEF m
  <2>1. 0 \in Int /\ m - 1 \in Int
    BY <1>1
  <2>2. IsFiniteSet(0 .. m - 1)
        /\ Cardinality(0 .. m - 1) = IF 0 > m - 1 THEN 0 ELSE (m - 1) - 0 + 1
    BY <2>1, FS_Interval
  <2> QED BY <1>1, <2>2
<1> HIDE DEF r, T
<1>9. r \in Surjection(S, T)
  BY <1>7, <1>8, FS_Injection DEF m
<1>10. n \in T
  BY DEF T, m
<1>11. PICK p \in S : r[p] = n
  BY <1>9, <1>10 DEF Surjection
<1> QED BY <1>11 DEF r, Before, RankBy

\* The same, of an order that is not named.
LEMMA EveryRank ==
  ASSUME NEW S, IsFiniteSet(S), NEW R,
         \A a \in S : <<a, a>> \notin R,
         \A a, b \in S : a # b => <<a, b>> \in R \/ <<b, a>> \in R,
         \A a, b, c \in S : <<a, b>> \in R /\ <<b, c>> \in R => <<a, c>> \in R,
         NEW n \in 0 .. Cardinality(S) - 1
  PROVE  \E p \in S : Cardinality({q \in S : <<q, p>> \in R}) = n
<1>1. Ordering(R, S)
  BY DEF Ordering
<1>2. PICK p \in S : RankBy(R, S, p) = n
  BY <1>1, RankTaken
<1> QED BY <1>2 DEF RankBy

-----------------------------------------------------------------------------
(***************************************************************************)
(* The fold behind a sum is a function that satisfies its own recursion.   *)
(***************************************************************************)

Chosen(s) == CHOOSE x \in s : TRUE

\* The equation of the fold over the sets of a family.
Adds(i, f, family) ==
  i = [s \in family |-> IF s = {} THEN 0 ELSE f[Chosen(s)] + i[s \ {Chosen(s)}]]

\* An element of a set that is not empty.
LEMMA ChosenIn ==
  ASSUME NEW s, s # {}
  PROVE  Chosen(s) \in s
BY DEF Chosen

\* There is a function that adds up the subsets of a finite set.
LEMMA AddsExists ==
  ASSUME NEW S, IsFiniteSet(S), NEW f
  PROVE  \E i : Adds(i, f, SUBSET S)
<1> DEFINE UpTo(n) == {s \in SUBSET S : Cardinality(s) <= n}
           Good == {n \in Nat : \E i : Adds(i, f, UpTo(n))}
<1>1. \A s \in SUBSET S : IsFiniteSet(s) /\ Cardinality(s) \in Nat
  BY FS_Subset, FS_CardinalityType
<1>2. \A s \in SUBSET S : s # {} =>
        /\ s \ {Chosen(s)} \in SUBSET S
        /\ Cardinality(s \ {Chosen(s)}) = Cardinality(s) - 1
  <2> SUFFICES ASSUME NEW s \in SUBSET S, s # {}
               PROVE Cardinality(s \ {Chosen(s)}) = Cardinality(s) - 1
    OBVIOUS
  <2> QED BY <1>1, ChosenIn, FS_RemoveElement
<1>3. 0 \in Good
  <2> DEFINE i == [s \in UpTo(0) |-> 0]
  <2>1. \A s \in UpTo(0) : s = {}
    BY <1>1, FS_EmptySet
  <2>2. Adds(i, f, UpTo(0))
    BY <2>1 DEF Adds
  <2> QED BY <2>2
<1>4. ASSUME NEW n \in Nat, n \in Good PROVE n + 1 \in Good
  <2>1. PICK i : Adds(i, f, UpTo(n))
    BY <1>4
  <2> DEFINE j == [s \in UpTo(n + 1) |->
                     IF s = {} THEN 0 ELSE f[Chosen(s)] + i[s \ {Chosen(s)}]]
  <2>2. \A s \in UpTo(n) : i[s] = IF s = {} THEN 0 ELSE f[Chosen(s)] + i[s \ {Chosen(s)}]
    BY <2>1 DEF Adds
  <2>3. \A s \in UpTo(n) : s \in UpTo(n + 1) /\ i[s] = j[s]
    BY <2>2, <1>1
  <2>4. \A s \in UpTo(n + 1) : s # {} => s \ {Chosen(s)} \in UpTo(n)
    BY <1>1, <1>2
  <2>5. \A s \in UpTo(n + 1) :
          j[s] = IF s = {} THEN 0 ELSE f[Chosen(s)] + j[s \ {Chosen(s)}]
    BY <2>3, <2>4
  <2>6. Adds(j, f, UpTo(n + 1))
    <3> HIDE DEF UpTo
    <3>1. j = [s \in UpTo(n + 1) |-> j[s]]
      OBVIOUS
    <3> HIDE DEF j
    <3> QED BY <2>5, <3>1 DEF Adds
  <2>7. \E k : Adds(k, f, UpTo(n + 1))
    <3> HIDE DEF UpTo, j
    <3> QED BY <2>6
  <2> HIDE DEF UpTo
  <2> QED BY <2>7
<1>5. Cardinality(S) \in Good
  <2> HIDE DEF Good
  <2>1. Nat \subseteq Good
    BY <1>3, <1>4, NaturalInduction
  <2> QED BY <2>1, FS_CardinalityType
<1>6. UpTo(Cardinality(S)) = SUBSET S
  BY FS_Subset
<1> QED BY <1>5, <1>6

\* The sum over a finite set is the value of such a function.
LEMMA SumAdds ==
  ASSUME NEW S, IsFiniteSet(S), NEW f
  PROVE  \E i : Adds(i, f, SUBSET S) /\ SumFunctionOnSet(f, S) = i[S]
<1> DEFINE it == CHOOSE i : Adds(i, f, SUBSET S)
<1>1. Adds(it, f, SUBSET S)
  BY AddsExists
<1>2. SumFunctionOnSet(f, S) = it[S]
  BY DEF SumFunctionOnSet, FoldFunctionOnSet, MapThenFoldSet, Adds, Chosen
<1> HIDE DEF it
<1> QED BY <1>1, <1>2

\* Two such functions agree on the sets that both add up.
LEMMA AddsAgree ==
  ASSUME NEW S, IsFiniteSet(S), NEW T \in SUBSET S, NEW f, NEW g,
         \A x \in T : f[x] = g[x],
         NEW i, NEW j, Adds(i, f, SUBSET S), Adds(j, g, SUBSET T)
  PROVE  i[T] = j[T]
<1> DEFINE Bad == {s \in SUBSET T : i[s] # j[s]}
<1> SUFFICES ASSUME Bad # {} PROVE FALSE
  OBVIOUS
<1>1. \A s \in Bad : IsFiniteSet(s)
  BY FS_Subset
<1>2. PICK s \in Bad : \A x \in s : s \ {x} \notin Bad
  <2> HIDE DEF Bad
  <2> QED BY <1>1, MinimalSet
<1>3. /\ i[s] = IF s = {} THEN 0 ELSE f[Chosen(s)] + i[s \ {Chosen(s)}]
      /\ j[s] = IF s = {} THEN 0 ELSE g[Chosen(s)] + j[s \ {Chosen(s)}]
  BY DEF Adds
<1>4. s # {}
  BY <1>3
<1>5. Chosen(s) \in s /\ f[Chosen(s)] = g[Chosen(s)]
  BY <1>4, ChosenIn
<1>6. i[s \ {Chosen(s)}] = j[s \ {Chosen(s)}]
  BY <1>2, <1>5
<1> QED BY <1>3, <1>4, <1>5, <1>6

-----------------------------------------------------------------------------
(***************************************************************************)
(* Sums over finite sets of indices.                                       *)
(***************************************************************************)

\* No summand, no sum.
THEOREM SumOfNone == \A f : SumFunctionOnSet(f, {}) = 0
<1> SUFFICES ASSUME NEW f PROVE SumFunctionOnSet(f, {}) = 0
  OBVIOUS
<1>1. PICK i : Adds(i, f, SUBSET {}) /\ SumFunctionOnSet(f, {}) = i[{}]
  BY SumAdds, FS_EmptySet
<1>2. i[{}] = 0
  BY <1>1 DEF Adds
<1> QED BY <1>1, <1>2

\* Only the summands matter, not the function they come from.
THEOREM SumOfEquals ==
  ASSUME NEW S, IsFiniteSet(S), NEW f, NEW g, \A x \in S : f[x] = g[x]
  PROVE  SumFunctionOnSet(f, S) = SumFunctionOnSet(g, S)
<1>1. PICK i : Adds(i, f, SUBSET S) /\ SumFunctionOnSet(f, S) = i[S]
  BY SumAdds
<1>2. PICK j : Adds(j, g, SUBSET S) /\ SumFunctionOnSet(g, S) = j[S]
  BY SumAdds
<1> QED BY <1>1, <1>2, AddsAgree

\* The fold takes out the element that CHOOSE names.
LEMMA SumOfChosen ==
  ASSUME NEW S, IsFiniteSet(S), S # {}, NEW f
  PROVE  SumFunctionOnSet(f, S) =
           f[Chosen(S)] + SumFunctionOnSet(f, S \ {Chosen(S)})
<1> DEFINE R == S \ {Chosen(S)}
<1>1. PICK i : Adds(i, f, SUBSET S) /\ SumFunctionOnSet(f, S) = i[S]
  BY SumAdds
<1>2. IsFiniteSet(R) /\ R \in SUBSET S
  BY FS_RemoveElement
<1>3. PICK j : Adds(j, f, SUBSET R) /\ SumFunctionOnSet(f, R) = j[R]
  BY <1>2, SumAdds
<1>4. i[R] = j[R]
  <2> HIDE DEF R
  <2> QED BY <1>1, <1>2, <1>3, AddsAgree
<1>5. i[S] = f[Chosen(S)] + i[R]
  BY <1>1 DEF Adds
<1> QED BY <1>1, <1>3, <1>4, <1>5

\* A sum of integers is an integer.
THEOREM SumIsInt ==
  ASSUME NEW S, IsFiniteSet(S), NEW f, \A x \in S : f[x] \in Int
  PROVE  SumFunctionOnSet(f, S) \in Int
<1> DEFINE Bad == {T \in SUBSET S : SumFunctionOnSet(f, T) \notin Int}
<1> SUFFICES ASSUME Bad # {} PROVE FALSE
  OBVIOUS
<1>1. \A T \in Bad : IsFiniteSet(T)
  BY FS_Subset
<1>2. PICK T \in Bad : \A x \in T : T \ {x} \notin Bad
  <2> HIDE DEF Bad
  <2> QED BY <1>1, MinimalSet
<1>3. T # {}
  BY <1>2, SumOfNone
<1>4. Chosen(T) \in T
  BY <1>3, ChosenIn
<1>5. SumFunctionOnSet(f, T \ {Chosen(T)}) \in Int
  BY <1>2, <1>4
<1>6. SumFunctionOnSet(f, T) = f[Chosen(T)] + SumFunctionOnSet(f, T \ {Chosen(T)})
  BY <1>1, <1>3, SumOfChosen
<1> QED BY <1>4, <1>5, <1>6

\* Any summand may be taken out, whichever one the fold takes first.
THEOREM SumWithout ==
  ASSUME NEW S, IsFiniteSet(S), NEW f, \A x \in S : f[x] \in Int, NEW a \in S
  PROVE  SumFunctionOnSet(f, S) = f[a] + SumFunctionOnSet(f, S \ {a})
<1> DEFINE Bad == {T \in SUBSET S : \E x \in T :
                     SumFunctionOnSet(f, T) # f[x] + SumFunctionOnSet(f, T \ {x})}
<1> SUFFICES ASSUME Bad # {} PROVE FALSE
  OBVIOUS
<1>1. \A T \in SUBSET S : IsFiniteSet(T) /\ SumFunctionOnSet(f, T) \in Int
  BY FS_Subset, SumIsInt
<1>2. PICK T \in Bad : \A x \in T : T \ {x} \notin Bad
  <2> HIDE DEF Bad
  <2>1. \A T \in Bad : IsFiniteSet(T)
    BY <1>1 DEF Bad
  <2> QED BY <2>1, MinimalSet
<1>3. PICK x \in T : SumFunctionOnSet(f, T) # f[x] + SumFunctionOnSet(f, T \ {x})
  BY <1>2
<1> DEFINE c == Chosen(T)
<1>4. c \in T
  BY <1>3, ChosenIn
<1>5. SumFunctionOnSet(f, T) = f[c] + SumFunctionOnSet(f, T \ {c})
  BY <1>1, <1>3, SumOfChosen
<1> HIDE DEF c
<1>6. x # c
  BY <1>3, <1>5
<1> DEFINE D == (T \ {c}) \ {x}
<1>7. SumFunctionOnSet(f, T \ {c}) = f[x] + SumFunctionOnSet(f, D)
  BY <1>2, <1>4, <1>6
<1>8. SumFunctionOnSet(f, T \ {x}) = f[c] + SumFunctionOnSet(f, D)
  <2>1. (T \ {x}) \ {c} = D
    OBVIOUS
  <2>2. SumFunctionOnSet(f, T \ {x}) = f[c] + SumFunctionOnSet(f, (T \ {x}) \ {c})
    BY <1>2, <1>4, <1>6
  <2> QED BY <2>1, <2>2
<1>9. SumFunctionOnSet(f, D) \in Int
  <2>1. D \in SUBSET S
    OBVIOUS
  <2> QED BY <1>1, <2>1
<1>10. f[x] \in Int /\ f[c] \in Int
  BY <1>4
<1> HIDE DEF D
<1>11. f[c] + SumFunctionOnSet(f, T \ {c}) = f[x] + SumFunctionOnSet(f, T \ {x})
  BY <1>7, <1>8, <1>9, <1>10
<1> QED BY <1>3, <1>5, <1>11

\* One summand more.
THEOREM SumWith ==
  ASSUME NEW S, IsFiniteSet(S), NEW f, NEW a, a \notin S,
         \A x \in S \cup {a} : f[x] \in Int
  PROVE  SumFunctionOnSet(f, S \cup {a}) = f[a] + SumFunctionOnSet(f, S)
<1>1. IsFiniteSet(S \cup {a}) /\ (S \cup {a}) \ {a} = S
  BY FS_AddElement
<1>2. SumFunctionOnSet(f, S \cup {a}) = f[a] + SumFunctionOnSet(f, (S \cup {a}) \ {a})
  BY <1>1, SumWithout
<1> QED BY <1>1, <1>2

\* When one summand changes, the sum changes by as much.
THEOREM SumOfUpdate ==
  ASSUME NEW S, IsFiniteSet(S), NEW f, NEW g, NEW a \in S,
         \A x \in S : f[x] \in Int /\ g[x] \in Int,
         \A x \in S \ {a} : f[x] = g[x]
  PROVE  SumFunctionOnSet(g, S) = SumFunctionOnSet(f, S) - f[a] + g[a]
<1>1. SumFunctionOnSet(f, S) = f[a] + SumFunctionOnSet(f, S \ {a})
  BY SumWithout
<1>2. SumFunctionOnSet(g, S) = g[a] + SumFunctionOnSet(g, S \ {a})
  BY SumWithout
<1>3. IsFiniteSet(S \ {a})
  BY FS_RemoveElement
<1>4. SumFunctionOnSet(f, S \ {a}) = SumFunctionOnSet(g, S \ {a})
  BY <1>3, SumOfEquals
<1>5. SumFunctionOnSet(f, S \ {a}) \in Int
  BY <1>3, SumIsInt
<1> QED BY <1>1, <1>2, <1>4, <1>5

\* A sum of summands that are not negative is not negative, and none of them
\* is greater than the sum.
THEOREM SumBoundsSummand ==
  ASSUME NEW S, IsFiniteSet(S), NEW f, \A x \in S : f[x] \in Nat
  PROVE  /\ SumFunctionOnSet(f, S) \in Nat
         /\ \A a \in S : f[a] <= SumFunctionOnSet(f, S)
<1> DEFINE Bad == {T \in SUBSET S : SumFunctionOnSet(f, T) \notin Nat}
<1>1. \A T \in SUBSET S : IsFiniteSet(T) /\ SumFunctionOnSet(f, T) \in Int
  BY FS_Subset, SumIsInt
<1>2. Bad = {}
  <2> SUFFICES ASSUME Bad # {} PROVE FALSE
    OBVIOUS
  <2>1. PICK T \in Bad : \A x \in T : T \ {x} \notin Bad
    <3> HIDE DEF Bad
    <3>1. \A T \in Bad : IsFiniteSet(T)
      BY <1>1 DEF Bad
    <3> QED BY <3>1, MinimalSet
  <2>2. T # {}
    BY <2>1, SumOfNone
  <2>3. PICK x \in T : TRUE
    BY <2>2
  <2>4. SumFunctionOnSet(f, T) = f[x] + SumFunctionOnSet(f, T \ {x})
    BY <1>1, SumWithout
  <2>5. SumFunctionOnSet(f, T \ {x}) \in Nat
    BY <2>1
  <2> QED BY <2>1, <2>4, <2>5
<1>3. \A T \in SUBSET S : SumFunctionOnSet(f, T) \in Nat
  BY <1>2
<1>4. ASSUME NEW a \in S PROVE f[a] <= SumFunctionOnSet(f, S)
  <2>1. SumFunctionOnSet(f, S) = f[a] + SumFunctionOnSet(f, S \ {a})
    BY SumWithout
  <2>2. SumFunctionOnSet(f, S \ {a}) \in Nat
    BY <1>3
  <2> QED BY <2>1, <2>2
<1> QED BY <1>3, <1>4

\* Summands that are all zero.
THEOREM SumOfZeros ==
  ASSUME NEW S, IsFiniteSet(S), NEW f, \A x \in S : f[x] = 0
  PROVE  SumFunctionOnSet(f, S) = 0
<1> DEFINE Bad == {T \in SUBSET S : SumFunctionOnSet(f, T) # 0}
<1> SUFFICES ASSUME Bad # {} PROVE FALSE
  OBVIOUS
<1>1. \A T \in Bad : IsFiniteSet(T)
  BY FS_Subset
<1>2. PICK T \in Bad : \A x \in T : T \ {x} \notin Bad
  <2> HIDE DEF Bad
  <2> QED BY <1>1, MinimalSet
<1>3. PICK x \in T : TRUE
  BY <1>2, SumOfNone
<1>4. SumFunctionOnSet(f, T) = f[x] + SumFunctionOnSet(f, T \ {x})
  BY <1>1, SumWithout
<1>5. SumFunctionOnSet(f, T \ {x}) = 0
  BY <1>2
<1> QED BY <1>2, <1>4, <1>5

\* Indices whose summands are zero may be left out.
THEOREM SumOfRest ==
  ASSUME NEW S, IsFiniteSet(S), NEW f, \A x \in S : f[x] \in Int,
         NEW R \in SUBSET S, \A x \in S \ R : f[x] = 0
  PROVE  SumFunctionOnSet(f, S) = SumFunctionOnSet(f, R)
<1> DEFINE Bad == {T \in SUBSET S : SumFunctionOnSet(f, T)
                                      # SumFunctionOnSet(f, T \cap R)}
<1> SUFFICES ASSUME Bad # {} PROVE FALSE
  <2>1. S \cap R = R
    OBVIOUS
  <2> QED BY <2>1
<1>1. \A T \in SUBSET S : IsFiniteSet(T) /\ SumFunctionOnSet(f, T) \in Int
  BY FS_Subset, SumIsInt
<1>2. PICK T \in Bad : \A x \in T : T \ {x} \notin Bad
  <2> HIDE DEF Bad
  <2>1. \A T \in Bad : IsFiniteSet(T)
    BY <1>1 DEF Bad
  <2> QED BY <2>1, MinimalSet
<1>3. T \cap R # T
  BY <1>2
<1>4. PICK x \in T : x \notin R
  BY <1>3
<1>5. SumFunctionOnSet(f, T) = f[x] + SumFunctionOnSet(f, T \ {x})
  BY <1>1, SumWithout
<1>6. SumFunctionOnSet(f, T \ {x}) = SumFunctionOnSet(f, (T \ {x}) \cap R)
  BY <1>2, <1>4
<1>7. (T \ {x}) \cap R = T \cap R
  BY <1>4
<1>8. SumFunctionOnSet(f, T) = SumFunctionOnSet(f, T \ {x})
  BY <1>1, <1>4, <1>5
<1> QED BY <1>2, <1>6, <1>7, <1>8

\* The sum of multiples is the multiple of the sum.
THEOREM SumOfMultiples ==
  ASSUME NEW S, IsFiniteSet(S), NEW c \in Int, NEW f, NEW g,
         \A x \in S : f[x] \in Int /\ g[x] = c * f[x]
  PROVE  SumFunctionOnSet(g, S) = c * SumFunctionOnSet(f, S)
<1> DEFINE Bad == {T \in SUBSET S : SumFunctionOnSet(g, T) # c * SumFunctionOnSet(f, T)}
<1> SUFFICES ASSUME Bad # {} PROVE FALSE
  OBVIOUS
<1>0. \A a, b \in Int : c * (a + b) = c * a + c * b /\ c * a \in Int
  OBVIOUS
<1>1. /\ \A x \in S : g[x] \in Int
      /\ \A T \in SUBSET S : IsFiniteSet(T) /\ SumFunctionOnSet(f, T) \in Int
  BY <1>0, FS_Subset, SumIsInt
<1>2. PICK T \in Bad : \A x \in T : T \ {x} \notin Bad
  <2> HIDE DEF Bad
  <2>1. \A T \in Bad : IsFiniteSet(T)
    BY <1>1 DEF Bad
  <2> QED BY <2>1, MinimalSet
<1>3. PICK x \in T : TRUE
  <2>1. T # {}
    <3>1. c * 0 = 0
      OBVIOUS
    <3> QED BY <1>2, <3>1, SumOfNone
  <2> QED BY <2>1
<1>4. /\ SumFunctionOnSet(f, T) = f[x] + SumFunctionOnSet(f, T \ {x})
      /\ SumFunctionOnSet(g, T) = g[x] + SumFunctionOnSet(g, T \ {x})
  BY <1>1, SumWithout
<1>5. SumFunctionOnSet(g, T \ {x}) = c * SumFunctionOnSet(f, T \ {x})
  BY <1>2
<1>6. f[x] \in Int /\ SumFunctionOnSet(f, T \ {x}) \in Int /\ g[x] = c * f[x]
  BY <1>1
<1>7. SumFunctionOnSet(g, T) = c * SumFunctionOnSet(f, T)
  BY <1>0, <1>4, <1>5, <1>6
<1> QED BY <1>2, <1>7

\* Smaller summands have a smaller sum.
THEOREM SumOfSmaller ==
  ASSUME NEW S, IsFiniteSet(S), NEW f, NEW g,
         \A x \in S : f[x] \in Int /\ g[x] \in Int /\ f[x] <= g[x]
  PROVE  SumFunctionOnSet(f, S) <= SumFunctionOnSet(g, S)
<1> DEFINE Bad == {T \in SUBSET S : ~(SumFunctionOnSet(f, T) <= SumFunctionOnSet(g, T))}
<1> SUFFICES ASSUME Bad # {} PROVE FALSE
  OBVIOUS
<1>1. \A T \in SUBSET S : /\ IsFiniteSet(T) /\ SumFunctionOnSet(f, T) \in Int
                          /\ SumFunctionOnSet(g, T) \in Int
  BY FS_Subset, SumIsInt
<1>2. PICK T \in Bad : \A x \in T : T \ {x} \notin Bad
  <2> HIDE DEF Bad
  <2>1. \A T \in Bad : IsFiniteSet(T)
    BY <1>1 DEF Bad
  <2> QED BY <2>1, MinimalSet
<1>3. PICK x \in T : TRUE
  <2>1. T # {}
    BY <1>2, SumOfNone
  <2> QED BY <2>1
<1>4. /\ SumFunctionOnSet(f, T) = f[x] + SumFunctionOnSet(f, T \ {x})
      /\ SumFunctionOnSet(g, T) = g[x] + SumFunctionOnSet(g, T \ {x})
  BY <1>1, SumWithout
<1>5. /\ T \ {x} \in SUBSET S
      /\ SumFunctionOnSet(f, T \ {x}) <= SumFunctionOnSet(g, T \ {x})
  BY <1>2
<1>6. /\ SumFunctionOnSet(f, T \ {x}) \in Int
      /\ SumFunctionOnSet(g, T \ {x}) \in Int
      /\ f[x] \in Int /\ g[x] \in Int /\ f[x] <= g[x]
  BY <1>1, <1>5
<1>7. SumFunctionOnSet(f, T) <= SumFunctionOnSet(g, T)
  BY <1>4, <1>5, <1>6
<1> QED BY <1>2, <1>7

\* Counting by places or by what stands there is the same, as long as nothing
\* stands in two places.
THEOREM SumOfImage ==
  ASSUME NEW S, IsFiniteSet(S), NEW q, \A x, y \in S : q[x] = q[y] => x = y,
         NEW f, NEW g, \A x \in S : f[q[x]] \in Int /\ g[x] = f[q[x]]
  PROVE  SumFunctionOnSet(g, S) = SumFunctionOnSet(f, {q[x] : x \in S})
<1> DEFINE Img(T) == {q[x] : x \in T}
           Bad == {T \in SUBSET S : SumFunctionOnSet(g, T) # SumFunctionOnSet(f, Img(T))}
<1> SUFFICES ASSUME Bad # {} PROVE FALSE
  OBVIOUS
<1>1. \A T \in SUBSET S : IsFiniteSet(T)
  BY FS_Subset
<1>2. PICK T \in Bad : \A x \in T : T \ {x} \notin Bad
  <2> HIDE DEF Bad
  <2>1. \A T \in Bad : IsFiniteSet(T)
    BY <1>1 DEF Bad
  <2> QED BY <2>1, MinimalSet
<1>3. PICK x \in T : TRUE
  <2>1. ASSUME T = {} PROVE FALSE
    <3>1. Img(T) = {}
      BY <2>1
    <3>2. SumFunctionOnSet(g, T) = SumFunctionOnSet(f, Img(T))
      BY <2>1, <3>1, SumOfNone
    <3> QED BY <1>2, <3>2
  <2> QED BY <2>1
<1>4. SumFunctionOnSet(g, T) = g[x] + SumFunctionOnSet(g, T \ {x})
  BY <1>1, SumWithout
<1>5. SumFunctionOnSet(g, T \ {x}) = SumFunctionOnSet(f, Img(T \ {x}))
  BY <1>2
<1>6. Img(T) = Img(T \ {x}) \cup {q[x]} /\ q[x] \notin Img(T \ {x})
  OBVIOUS
<1>7. IsFiniteSet(Img(T \ {x}))
  <2> DEFINE r == [y \in T \ {x} |-> q[y]]
  <2>1. r \in Surjection(T \ {x}, Img(T \ {x}))
    BY DEF Surjection
  <2>2. IsFiniteSet(T \ {x})
    BY <1>1
  <2> HIDE DEF r, Img
  <2> QED BY <2>1, <2>2, FS_Surjection
<1>8. \A y \in Img(T \ {x}) \cup {q[x]} : f[y] \in Int
  OBVIOUS
<1>9. SumFunctionOnSet(f, Img(T \ {x}) \cup {q[x]})
        = f[q[x]] + SumFunctionOnSet(f, Img(T \ {x}))
  <2> HIDE DEF Img
  <2> QED BY <1>6, <1>7, <1>8, SumWith
<1> HIDE DEF Img
<1>10. SumFunctionOnSet(g, T) = SumFunctionOnSet(f, Img(T))
  BY <1>4, <1>5, <1>6, <1>9
<1> QED BY <1>2, <1>10
=============================================================================
