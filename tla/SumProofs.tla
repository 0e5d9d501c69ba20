----------------------------- MODULE SumProofs -----------------------------
(***************************************************************************)
(* Sums of a function over a finite set, SumFunctionOnSet of the community *)
(* modules: that the recursion it is defined by has a solution, and what   *)
(* elements that come, go or change do to a sum.  The sums of money of     *)
(* Ledger and BankQueue and the weights of VotingEngine are such sums.     *)
(* Induction over subsets is done with a smallest counterexample.          *)
(***************************************************************************)
EXTENDS Integers, Functions, FiniteSetTheorems, WellFoundedInduction, TLAPS

Pick(s) == CHOOSE x \in s : TRUE
Rest(s) == s \ {Pick(s)}

\* g adds up f over every subset of S.
IsSum(f, g, S) ==
    g = [s \in SUBSET S |-> IF s = {} THEN 0 ELSE f[Pick(s)] + g[Rest(s)]]

\* Of the subsets of a finite set that are to blame, one has no such subset.
LEMMA Smallest ==
    ASSUME NEW S, IsFiniteSet(S), NEW Bad, Bad \subseteq SUBSET S, Bad # {}
    PROVE  \E s \in Bad : \A u \in SUBSET s : u # s => u \notin Bad
<1> DEFINE R == StrictSubsetOrdering(S)
<1>1. IsWellFoundedOn(R, FiniteSubsetsOf(S))
  BY FS_StrictSubsetOrderingWellFounded
<1>2. Bad \subseteq FiniteSubsetsOf(S)
  BY FS_Subset DEF FiniteSubsetsOf
<1>3. PICK s \in Bad : \A u \in Bad : <<u, s>> \notin R
  <2> HIDE DEF R
  <2> QED
    BY <1>1, <1>2, WFMin
<1>4. ASSUME NEW u \in SUBSET s, u # s, u \in Bad PROVE FALSE
  <2>1. <<u, s>> \in R
    BY <1>4 DEF StrictSubsetOrdering
  <2> QED
    BY <1>3, <1>4, <2>1
<1> QED
  BY <1>4

LEMMA RestSmaller ==
    ASSUME NEW s, s # {}
    PROVE  Pick(s) \in s /\ Rest(s) \subseteq s /\ Rest(s) # s
BY DEF Pick, Rest

LEMMA SumAt ==
    ASSUME NEW f, NEW g, NEW S, IsSum(f, g, S), NEW s \in SUBSET S
    PROVE  g[s] = IF s = {} THEN 0 ELSE f[Pick(s)] + g[Rest(s)]
BY DEF IsSum

LEMMA SumUnique ==
    ASSUME NEW f, NEW g, NEW h, NEW S, NEW T, IsSum(f, g, S), IsSum(f, h, T),
           NEW U, IsFiniteSet(U), U \subseteq S, U \subseteq T
    PROVE  \A u \in SUBSET U : g[u] = h[u]
<1> DEFINE Bad == {u \in SUBSET U : g[u] # h[u]}
<1> SUFFICES ASSUME Bad # {} PROVE FALSE
  OBVIOUS
<1>0. Bad \subseteq SUBSET U
  OBVIOUS
<1>1. PICK s \in Bad : \A u \in SUBSET s : u # s => u \notin Bad
  <2> HIDE DEF Bad
  <2> QED
    BY <1>0, Smallest
<1>2. s \in SUBSET S /\ s \in SUBSET T
  OBVIOUS
<1>3. g[s] = (IF s = {} THEN 0 ELSE f[Pick(s)] + g[Rest(s)])
      /\ h[s] = (IF s = {} THEN 0 ELSE f[Pick(s)] + h[Rest(s)])
  BY <1>2, SumAt
<1>4. s # {}
  BY <1>3
<1>5. Rest(s) \in SUBSET U /\ Rest(s) \notin Bad
  BY <1>1, <1>4, RestSmaller
<1>6. g[Rest(s)] = h[Rest(s)]
  BY <1>5
<1>7. g[s] # h[s]
  OBVIOUS
<1> HIDE DEF Bad
<1> QED
  BY <1>3, <1>4, <1>6, <1>7

LEMMA SumExists ==
    ASSUME NEW f, NEW S, IsFiniteSet(S)
    PROVE  \E g : IsSum(f, g, S)
<1> DEFINE Bad == {s \in SUBSET S : ~\E g : IsSum(f, g, s)}
<1> SUFFICES ASSUME Bad # {} PROVE FALSE
  OBVIOUS
<1>0. Bad \subseteq SUBSET S
  OBVIOUS
<1>1. PICK s \in Bad : \A u \in SUBSET s : u # s => u \notin Bad
  <2> HIDE DEF Bad
  <2> QED
    BY <1>0, Smallest
<1> DEFINE G(u) == CHOOSE g : IsSum(f, g, u)
<1>2. ASSUME NEW u \in SUBSET s, u # s PROVE IsSum(f, G(u), u) /\ IsFiniteSet(u)
  <2>1. \E g : IsSum(f, g, u)
    BY <1>1, <1>2
  <2>2. IsSum(f, G(u), u)
    BY <2>1
  <2> QED
    BY <1>2, <2>2, FS_Subset
<1> HIDE DEF G
<1> DEFINE sum(v) == IF v = {} THEN 0 ELSE f[Pick(v)] + G(Rest(v))[Rest(v)]
           g == [v \in SUBSET s |-> sum(v)]
<1>3. ASSUME NEW u \in SUBSET s, u # s PROVE g[u] = G(u)[u]
  <2>1. g[u] = sum(u)
    OBVIOUS
  <2>2. G(u)[u] = IF u = {} THEN 0 ELSE f[Pick(u)] + G(u)[Rest(u)]
    BY <1>2, <1>3, SumAt
  <2>3. CASE u = {}
    BY <2>1, <2>2, <2>3
  <2>4. CASE u # {}
    <3>1. Rest(u) \in SUBSET s /\ Rest(u) \subseteq u /\ Rest(u) # s
      BY <2>4, <1>3, RestSmaller
    <3>2. IsSum(f, G(u), u) /\ IsSum(f, G(Rest(u)), Rest(u)) /\ IsFiniteSet(Rest(u))
      BY <1>2, <1>3, <3>1
    <3>3. G(u)[Rest(u)] = G(Rest(u))[Rest(u)]
      BY <3>1, <3>2, SumUnique
    <3> QED
      BY <2>1, <2>2, <2>4, <3>3
  <2> QED
    BY <2>3, <2>4
<1>4. ASSUME NEW v \in SUBSET s
      PROVE  sum(v) = IF v = {} THEN 0 ELSE f[Pick(v)] + g[Rest(v)]
  <2>1. CASE v = {}
    BY <2>1
  <2>2. CASE v # {}
    <3>1. Rest(v) \in SUBSET s /\ Rest(v) # s
      BY <2>2, RestSmaller
    <3>2. g[Rest(v)] = G(Rest(v))[Rest(v)]
      BY <1>3, <3>1
    <3> HIDE DEF g
    <3> QED
      BY <2>2, <3>2
  <2> QED
    BY <2>1, <2>2
<1>5. g = [v \in SUBSET s |-> IF v = {} THEN 0 ELSE f[Pick(v)] + g[Rest(v)]]
  <2>1. g = [v \in SUBSET s |-> sum(v)]
    OBVIOUS
  <2> HIDE DEF sum, g
  <2> QED
    BY <1>4, <2>1
<1>6. IsSum(f, g, s)
  <2> HIDE DEF g
  <2> QED
    BY <1>5 DEF IsSum
<1> QED
  BY <1>6

LEMMA SumSolves ==
    ASSUME NEW f, NEW S, IsFiniteSet(S)
    PROVE  \E g : IsSum(f, g, S) /\ SumFunctionOnSet(f, S) = g[S]
<1> DEFINE g == CHOOSE h : IsSum(f, h, S)
<1>1. IsSum(f, g, S)
  BY SumExists
<1>2. SumFunctionOnSet(f, S) =
        (CHOOSE h : h = [s \in SUBSET S |-> IF s = {} THEN 0
                                            ELSE f[Pick(s)] + h[s \ {Pick(s)}]])[S]
  BY DEF SumFunctionOnSet, FoldFunctionOnSet, MapThenFoldSet, Pick
<1>3. SumFunctionOnSet(f, S) = g[S]
  BY <1>2 DEF IsSum, Rest
<1> QED
  BY <1>1, <1>3

\* The sum over nothing, and over a set whose first element is set aside.
LEMMA SumSteps ==
    ASSUME NEW f, NEW S, IsFiniteSet(S)
    PROVE  SumFunctionOnSet(f, S) =
             IF S = {} THEN 0 ELSE f[Pick(S)] + SumFunctionOnSet(f, Rest(S))
<1>1. PICK g : IsSum(f, g, S) /\ SumFunctionOnSet(f, S) = g[S]
  BY SumSolves
<1>2. CASE S = {}
  BY <1>1, <1>2, SumAt
<1>3. CASE S # {}
  <2>1. Rest(S) \subseteq S /\ IsFiniteSet(Rest(S))
    BY <1>3, RestSmaller, FS_Subset
  <2>2. PICK h : IsSum(f, h, Rest(S)) /\ SumFunctionOnSet(f, Rest(S)) = h[Rest(S)]
    BY <2>1, SumSolves
  <2>3. g[Rest(S)] = h[Rest(S)]
    BY <1>1, <2>1, <2>2, SumUnique
  <2>4. g[S] = f[Pick(S)] + g[Rest(S)]
    BY <1>1, <1>3, SumAt
  <2> QED
    BY <1>1, <1>3, <2>2, <2>3, <2>4
<1> QED
  BY <1>2, <1>3

LEMMA SumEmpty ==
    ASSUME NEW f
    PROVE  SumFunctionOnSet(f, {}) = 0
BY SumSteps, FS_EmptySet

LEMMA SumType ==
    ASSUME NEW f, NEW S, IsFiniteSet(S), \A x \in S : f[x] \in Int
    PROVE  SumFunctionOnSet(f, S) \in Int
<1> DEFINE Bad == {s \in SUBSET S : SumFunctionOnSet(f, s) \notin Int}
<1> SUFFICES ASSUME Bad # {} PROVE FALSE
  OBVIOUS
<1>0. Bad \subseteq SUBSET S
  OBVIOUS
<1>1. PICK s \in Bad : \A u \in SUBSET s : u # s => u \notin Bad
  <2> HIDE DEF Bad
  <2> QED
    BY <1>0, Smallest
<1>2. IsFiniteSet(s)
  BY FS_Subset
<1>3. s # {}
  BY SumEmpty
<1>4. Rest(s) \in SUBSET S /\ Rest(s) \notin Bad /\ Pick(s) \in S
  BY <1>1, <1>3, RestSmaller
<1>5. SumFunctionOnSet(f, s) = f[Pick(s)] + SumFunctionOnSet(f, Rest(s))
  BY <1>2, <1>3, SumSteps
<1> QED
  BY <1>4, <1>5

LEMMA SumIsNat ==
    ASSUME NEW f, NEW S, IsFiniteSet(S), \A x \in S : f[x] \in Nat
    PROVE  SumFunctionOnSet(f, S) \in Nat
<1> DEFINE Bad == {s \in SUBSET S : SumFunctionOnSet(f, s) \notin Nat}
<1> SUFFICES ASSUME Bad # {} PROVE FALSE
  OBVIOUS
<1>0. Bad \subseteq SUBSET S
  OBVIOUS
<1>1. PICK s \in Bad : \A u \in SUBSET s : u # s => u \notin Bad
  <2> HIDE DEF Bad
  <2> QED
    BY <1>0, Smallest
<1>2. IsFiniteSet(s)
  BY FS_Subset
<1>3. s # {}
  BY SumEmpty
<1>4. Rest(s) \in SUBSET S /\ Rest(s) \notin Bad /\ Pick(s) \in S
  BY <1>1, <1>3, RestSmaller
<1>5. SumFunctionOnSet(f, s) = f[Pick(s)] + SumFunctionOnSet(f, Rest(s))
  BY <1>2, <1>3, SumSteps
<1> QED
  BY <1>4, <1>5

\* Only the values on the set count.
LEMMA SumSame ==
    ASSUME NEW f, NEW g, NEW S, IsFiniteSet(S), \A x \in S : f[x] = g[x]
    PROVE  SumFunctionOnSet(f, S) = SumFunctionOnSet(g, S)
<1> DEFINE Bad == {s \in SUBSET S : SumFunctionOnSet(f, s) # SumFunctionOnSet(g, s)}
<1> SUFFICES ASSUME Bad # {} PROVE FALSE
  OBVIOUS
<1>0. Bad \subseteq SUBSET S
  OBVIOUS
<1>1. PICK s \in Bad : \A u \in SUBSET s : u # s => u \notin Bad
  <2> HIDE DEF Bad
  <2> QED
    BY <1>0, Smallest
<1>2. IsFiniteSet(s)
  BY FS_Subset
<1>3. s # {}
  BY SumEmpty
<1>4. Rest(s) \in SUBSET S /\ Rest(s) \notin Bad /\ Pick(s) \in S
  BY <1>1, <1>3, RestSmaller
<1>5. SumFunctionOnSet(f, s) = f[Pick(s)] + SumFunctionOnSet(f, Rest(s))
      /\ SumFunctionOnSet(g, s) = g[Pick(s)] + SumFunctionOnSet(g, Rest(s))
  BY <1>2, <1>3, SumSteps
<1>6. SumFunctionOnSet(f, Rest(s)) = SumFunctionOnSet(g, Rest(s))
  BY <1>4
<1>7. f[Pick(s)] = g[Pick(s)] /\ SumFunctionOnSet(f, s) # SumFunctionOnSet(g, s)
  BY <1>4
<1> HIDE DEF Bad
<1> QED
  BY <1>5, <1>6, <1>7

\* Any element may be set aside, not only the first.
LEMMA SumRemove ==
    ASSUME NEW f, NEW S, IsFiniteSet(S), \A x \in S : f[x] \in Int, NEW x \in S
    PROVE  SumFunctionOnSet(f, S) = f[x] + SumFunctionOnSet(f, S \ {x})
<1> DEFINE Bad == {s \in SUBSET S : \E y \in s :
                     SumFunctionOnSet(f, s) # f[y] + SumFunctionOnSet(f, s \ {y})}
<1> SUFFICES ASSUME Bad # {} PROVE FALSE
  OBVIOUS
<1>0. Bad \subseteq SUBSET S
  OBVIOUS
<1>1. PICK s \in Bad : \A u \in SUBSET s : u # s => u \notin Bad
  <2> HIDE DEF Bad
  <2> QED
    BY <1>0, Smallest
<1>2. PICK y \in s : SumFunctionOnSet(f, s) # f[y] + SumFunctionOnSet(f, s \ {y})
  OBVIOUS
<1>3. \A u \in SUBSET s : IsFiniteSet(u) /\ SumFunctionOnSet(f, u) \in Int
  BY FS_Subset, SumType
<1> DEFINE z == Pick(s)
<1>4. z \in s /\ Rest(s) = s \ {z}
  BY <1>2, RestSmaller DEF Rest
<1>5. SumFunctionOnSet(f, s) = f[z] + SumFunctionOnSet(f, s \ {z})
  BY <1>2, <1>3, <1>4, SumSteps
<1> HIDE DEF z
<1>6. y # z
  BY <1>2, <1>5
<1>7. SumFunctionOnSet(f, s \ {z}) = f[y] + SumFunctionOnSet(f, (s \ {z}) \ {y})
  <2>1. s \ {z} \in SUBSET s /\ s \ {z} # s /\ y \in s \ {z} /\ s \ {z} \in SUBSET S
    BY <1>4, <1>6
  <2>2. s \ {z} \notin Bad
    BY <1>1, <2>1
  <2> QED
    BY <2>1, <2>2
<1>8. SumFunctionOnSet(f, s \ {y}) = f[z] + SumFunctionOnSet(f, (s \ {y}) \ {z})
  <2>1. s \ {y} \in SUBSET s /\ s \ {y} # s /\ z \in s \ {y} /\ s \ {y} \in SUBSET S
    BY <1>4, <1>6
  <2>2. s \ {y} \notin Bad
    BY <1>1, <2>1
  <2> QED
    BY <2>1, <2>2
<1>9. (s \ {z}) \ {y} = (s \ {y}) \ {z}
  OBVIOUS
<1> DEFINE rest == SumFunctionOnSet(f, (s \ {y}) \ {z})
<1>10. f[y] \in Int /\ f[z] \in Int /\ rest \in Int
  BY <1>3, <1>4
<1>11. SumFunctionOnSet(f, s) = f[z] + (f[y] + rest)
  BY <1>5, <1>7, <1>9
<1>12. SumFunctionOnSet(f, s) # f[y] + (f[z] + rest)
  BY <1>2, <1>8
<1> HIDE DEF Bad, rest
<1> QED
  BY <1>10, <1>11, <1>12

LEMMA SumAdd ==
    ASSUME NEW f, NEW S, IsFiniteSet(S), NEW x, x \notin S,
           \A y \in S \cup {x} : f[y] \in Int
    PROVE  SumFunctionOnSet(f, S \cup {x}) = f[x] + SumFunctionOnSet(f, S)
<1>1. IsFiniteSet(S \cup {x})
  BY FS_AddElement
<1>2. (S \cup {x}) \ {x} = S
  OBVIOUS
<1>3. SumFunctionOnSet(f, S \cup {x})
        = f[x] + SumFunctionOnSet(f, (S \cup {x}) \ {x})
  <2> DEFINE T == S \cup {x}
  <2>1. x \in T /\ IsFiniteSet(T) /\ \A y \in T : f[y] \in Int
    BY <1>1
  <2> HIDE DEF T
  <2>2. SumFunctionOnSet(f, T) = f[x] + SumFunctionOnSet(f, T \ {x})
    BY <2>1, SumRemove
  <2> QED
    BY <2>2 DEF T
<1> QED
  BY <1>2, <1>3

\* Two sets that share nothing.
LEMMA SumUnion ==
    ASSUME NEW f, NEW S, NEW T, IsFiniteSet(S), IsFiniteSet(T), S \cap T = {},
           \A x \in S \cup T : f[x] \in Int
    PROVE  SumFunctionOnSet(f, S \cup T)
             = SumFunctionOnSet(f, S) + SumFunctionOnSet(f, T)
<1> DEFINE Bad == {s \in SUBSET T : SumFunctionOnSet(f, S \cup s)
                     # SumFunctionOnSet(f, S) + SumFunctionOnSet(f, s)}
<1> SUFFICES ASSUME Bad # {} PROVE FALSE
  OBVIOUS
<1>0. Bad \subseteq SUBSET T
  OBVIOUS
<1>1. PICK s \in Bad : \A u \in SUBSET s : u # s => u \notin Bad
  <2> HIDE DEF Bad
  <2> QED
    BY <1>0, Smallest
<1>2. SumFunctionOnSet(f, S \cup s) # SumFunctionOnSet(f, S) + SumFunctionOnSet(f, s)
      /\ s \subseteq T
  OBVIOUS
<1>3. SumFunctionOnSet(f, S) \in Int
  BY SumType
<1>4. s # {}
  <2> SUFFICES ASSUME s = {} PROVE FALSE
    OBVIOUS
  <2>1. S \cup s = S /\ SumFunctionOnSet(f, s) = 0
    BY SumEmpty
  <2> HIDE DEF Bad
  <2> QED
    BY <1>2, <1>3, <2>1
<1>5. PICK x \in s : TRUE
  BY <1>4
<1>6. IsFiniteSet(s) /\ IsFiniteSet(s \ {x}) /\ IsFiniteSet(S \cup (s \ {x}))
  BY <1>2, FS_Subset, FS_Union
<1>7. SumFunctionOnSet(f, S \cup (s \ {x}))
        = SumFunctionOnSet(f, S) + SumFunctionOnSet(f, s \ {x})
  <2>1. s \ {x} \in SUBSET T /\ s \ {x} \notin Bad
    BY <1>1, <1>2, <1>5
  <2> QED
    BY <2>1
<1>8. SumFunctionOnSet(f, s) = f[x] + SumFunctionOnSet(f, s \ {x})
  BY <1>2, <1>5, <1>6, SumRemove
<1>9. SumFunctionOnSet(f, S \cup s) = f[x] + SumFunctionOnSet(f, S \cup (s \ {x}))
  <2>1. (S \cup (s \ {x})) \cup {x} = S \cup s /\ x \notin S \cup (s \ {x})
    BY <1>2, <1>5
  <2>2. \A y \in (S \cup (s \ {x})) \cup {x} : f[y] \in Int
    BY <1>2, <1>5
  <2>3. SumFunctionOnSet(f, (S \cup (s \ {x})) \cup {x})
          = f[x] + SumFunctionOnSet(f, S \cup (s \ {x}))
    BY <1>6, <2>1, <2>2, SumAdd
  <2> QED
    BY <2>1, <2>3
<1>10. f[x] \in Int /\ SumFunctionOnSet(f, s \ {x}) \in Int
  BY <1>2, <1>5, <1>6, SumType
<1> HIDE DEF Bad
<1> QED
  BY <1>2, <1>3, <1>7, <1>8, <1>9, <1>10

\* The image of a finite set under a function is finite.
LEMMA ImageIsFinite ==
    ASSUME NEW F, NEW S, IsFiniteSet(S)
    PROVE  IsFiniteSet({F[x] : x \in S})
<1> DEFINE T == {F[x] : x \in S}
           f == [x \in S |-> F[x]]
<1>1. f \in [S -> T] /\ \A t \in T : \E x \in S : f[x] = t
  OBVIOUS
<1> HIDE DEF f, T
<1>2. f \in Surjection(S, T)
  BY <1>1 DEF Surjection
<1>3. IsFiniteSet(T)
  BY <1>2, FS_Surjection
<1> QED
  BY <1>3 DEF T

\* A part of natural numbers adds up to no more than all of them.
LEMMA SumPart ==
    ASSUME NEW f, NEW S, IsFiniteSet(S), \A x \in S : f[x] \in Nat,
           NEW T \in SUBSET S
    PROVE  SumFunctionOnSet(f, T) <= SumFunctionOnSet(f, S)
<1>1. IsFiniteSet(T) /\ IsFiniteSet(S \ T)
  BY FS_Subset
<1>2. \A x \in T \cup (S \ T) : f[x] \in Int
  OBVIOUS
<1>3. SumFunctionOnSet(f, T \cup (S \ T))
        = SumFunctionOnSet(f, T) + SumFunctionOnSet(f, S \ T)
  <2>1. T \cap (S \ T) = {}
    OBVIOUS
  <2> QED
    BY <1>1, <1>2, <2>1, SumUnion
<1>4. T \cup (S \ T) = S
  OBVIOUS
<1>5. SumFunctionOnSet(f, T) \in Nat /\ SumFunctionOnSet(f, S \ T) \in Nat
  <2>1. (\A x \in T : f[x] \in Nat) /\ (\A x \in S \ T : f[x] \in Nat)
    OBVIOUS
  <2> QED
    BY <1>1, <2>1, SumIsNat
<1> DEFINE a == SumFunctionOnSet(f, T)
           b == SumFunctionOnSet(f, S \ T)
<1>6. SumFunctionOnSet(f, S) = a + b
  BY <1>3, <1>4
<1>7. a \in Nat /\ b \in Nat
  BY <1>5
<1> HIDE DEF b
<1> QED
  BY <1>6, <1>7

\* Numbers that are not positive do not add up to something positive.
LEMMA SumNotPositive ==
    ASSUME NEW f, NEW S, IsFiniteSet(S), \A x \in S : f[x] \in Int /\ f[x] <= 0
    PROVE  SumFunctionOnSet(f, S) <= 0
<1> DEFINE Bad == {s \in SUBSET S : ~(SumFunctionOnSet(f, s) <= 0)}
<1> SUFFICES ASSUME Bad # {} PROVE FALSE
  OBVIOUS
<1>0. Bad \subseteq SUBSET S
  OBVIOUS
<1>1. PICK s \in Bad : \A u \in SUBSET s : u # s => u \notin Bad
  <2> HIDE DEF Bad
  <2> QED
    BY <1>0, Smallest
<1>2. IsFiniteSet(s)
  BY FS_Subset
<1>3. s # {}
  BY SumEmpty
<1>4. Rest(s) \in SUBSET S /\ Rest(s) \notin Bad /\ Pick(s) \in S
  BY <1>1, <1>3, RestSmaller
<1>5. SumFunctionOnSet(f, s) = f[Pick(s)] + SumFunctionOnSet(f, Rest(s))
  BY <1>2, <1>3, SumSteps
<1>6. SumFunctionOnSet(f, Rest(s)) \in Int
  <2>1. IsFiniteSet(Rest(s)) /\ \A x \in Rest(s) : f[x] \in Int
    BY <1>4, FS_Subset
  <2> QED
    BY <2>1, SumType
<1>7. SumFunctionOnSet(f, Rest(s)) <= 0
  BY <1>4
<1>8. f[Pick(s)] \in Int /\ f[Pick(s)] <= 0
  BY <1>4
<1>9. ~(SumFunctionOnSet(f, s) <= 0)
  OBVIOUS
<1> HIDE DEF Bad
<1> QED
  BY <1>5, <1>6, <1>7, <1>8, <1>9

\* What is carried over one to one adds up to the same.
LEMMA SumCarried ==
    ASSUME NEW f, NEW g, NEW h, NEW S, IsFiniteSet(S),
           \A x \in S : f[x] \in Int /\ g[h[x]] = f[x],
           \A x, y \in S : h[x] = h[y] => x = y
    PROVE  SumFunctionOnSet(g, {h[x] : x \in S}) = SumFunctionOnSet(f, S)
<1> DEFINE Image(s) == {h[x] : x \in s}
           Bad == {s \in SUBSET S : SumFunctionOnSet(g, Image(s)) # SumFunctionOnSet(f, s)}
<1> SUFFICES ASSUME Bad # {} PROVE FALSE
  OBVIOUS
<1>0. Bad \subseteq SUBSET S
  OBVIOUS
<1>1. PICK s \in Bad : \A u \in SUBSET s : u # s => u \notin Bad
  <2> HIDE DEF Bad
  <2> QED
    BY <1>0, Smallest
<1>2. s \subseteq S /\ IsFiniteSet(s)
  BY FS_Subset
<1>3. s # {}
  <2> SUFFICES ASSUME s = {} PROVE FALSE
    OBVIOUS
  <2>1. Image(s) = {}
    OBVIOUS
  <2>2. SumFunctionOnSet(g, Image(s)) # SumFunctionOnSet(f, s)
    OBVIOUS
  <2> HIDE DEF Bad, Image
  <2> QED
    BY <2>1, <2>2, SumEmpty
<1>4. PICK x \in s : TRUE
  BY <1>3
<1> DEFINE t == s \ {x}
<1>5. t \in SUBSET s /\ t # s /\ IsFiniteSet(t)
  BY <1>2, FS_Subset
<1>6. SumFunctionOnSet(g, Image(t)) = SumFunctionOnSet(f, t)
  <2>1. t \notin Bad /\ t \in SUBSET S
    BY <1>1, <1>2, <1>5
  <2> QED
    BY <2>1
<1>7. SumFunctionOnSet(f, s) = f[x] + SumFunctionOnSet(f, t)
  BY <1>2, <1>4, SumRemove
<1>8. Image(s) = Image(t) \cup {h[x]} /\ h[x] \notin Image(t)
  BY <1>2, <1>4
<1>9. IsFiniteSet(Image(t))
  BY <1>5, ImageIsFinite
<1>10. \A y \in Image(t) \cup {h[x]} : g[y] \in Int
  BY <1>2, <1>4
<1>11. SumFunctionOnSet(g, Image(s)) = g[h[x]] + SumFunctionOnSet(g, Image(t))
  <2> HIDE DEF Image, t, Bad
  <2> QED
    BY <1>8, <1>9, <1>10, SumAdd
<1>12. g[h[x]] = f[x] /\ SumFunctionOnSet(g, Image(s)) # SumFunctionOnSet(f, s)
  BY <1>2, <1>4
<1> HIDE DEF Image, t, Bad
<1> QED
  BY <1>6, <1>7, <1>11, <1>12
=============================================================================
