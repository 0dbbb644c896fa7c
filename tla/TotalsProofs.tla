------------------------------ MODULE TotalsProofs ------------------------------
(***************************************************************************)
(* Theorems about the amounts: the totals of the documents (InvoiceTotals),*)
(* for every number of lines, services, weights and documents and every    *)
(* order the weights are read back in; and what the reports make of them   *)
(* (Reports), for every book of factures, calendar, rate and margin.       *)
(*                                                                         *)
(* A sum is defined by recursion over the places of a table (Sigma). What  *)
(* it is of every table is proved by induction over the subsets of the     *)
(* places, each step taking one of them away.                              *)
(***************************************************************************)
EXTENDS Reports, FiniteSetTheorems, WellFoundedInduction, SequenceTheorems, TLAPS

\* A set of numbers that is not empty has a least one.
LEMMA LeastNumber ==
  ASSUME NEW T \in SUBSET Nat, T # {}
  PROVE  \E n \in T : \A m \in T : n <= m
<1> DEFINE R == OpToRel(<, Nat)
<1>1. IsWellFoundedOn(R, Nat)
  BY NatLessThanWellFounded
<1>2. R = {ss \in Nat \X Nat : ss[1] < ss[2]}
  BY DEF OpToRel
<1> HIDE DEF R
<1>3. PICK n \in T : \A m \in T : <<m, n>> \notin R
  BY <1>1, WFMin
<1>4. ASSUME NEW m \in T PROVE n <= m
  <2>1. ~(m < n)
    BY <1>2, <1>3
  <2> QED
    BY <2>1
<1> QED
  BY <1>4

\* Induction on numbers, stated of the set of those that hold.
LEMMA ByInduction ==
  ASSUME NEW T, 0 \in T, \A n \in Nat : n \in T => n + 1 \in T
  PROVE  Nat \subseteq T
<1>1. SUFFICES ASSUME Nat \ T # {} PROVE FALSE
  OBVIOUS
<1>2. PICK n \in Nat \ T : \A m \in Nat \ T : n <= m
  BY <1>1, LeastNumber
<1>3. n # 0 /\ n - 1 \in Nat /\ ~(n <= n - 1)
  BY <1>2
<1>4. n - 1 \in T
  BY <1>2, <1>3
<1> QED
  BY <1>2, <1>3, <1>4
\* Induction on the subsets of a finite set, one element taken away at a time.
LEMMA BySubsets ==
  ASSUME NEW D, IsFiniteSet(D), NEW U, {} \in U,
         \A S \in SUBSET D : S # {} /\ (\A x \in S : S \ {x} \in U) => S \in U
  PROVE  SUBSET D \subseteq U
<1> DEFINE R == StrictSubsetOrdering(D)
<1>1. IsWellFoundedOn(R, SUBSET D)
  BY FS_StrictSubsetOrderingWellFounded, FS_FiniteSubsetsOfFinite
<1>2. R = {ss \in (SUBSET D) \X (SUBSET D) : ss[1] \subseteq ss[2] /\ ss[1] # ss[2]}
  BY DEF StrictSubsetOrdering
<1> HIDE DEF R
<1>3. SUFFICES ASSUME (SUBSET D) \ U # {} PROVE FALSE
  OBVIOUS
<1>4. PICK S \in (SUBSET D) \ U : \A T \in (SUBSET D) \ U : <<T, S>> \notin R
  BY <1>1, <1>3, WFMin
<1>5. PICK x \in S : S \ {x} \notin U
  BY <1>4
<1>6. <<S \ {x}, S>> \in R
  BY <1>2, <1>4, <1>5
<1> QED
  BY <1>4, <1>5, <1>6

\* Sigma picks the elements in an order of its own: Picked(f, S) is the first of them.
Picked(S) == CHOOSE x \in S : TRUE
\* g is the table of partial sums that Sigma builds.
Sums(f, g) ==
  g = [S \in SUBSET DOMAIN f |-> IF S = {} THEN 0 ELSE f[Picked(S)] + g[S \ {Picked(S)}]]
\* The sum over a part of the places of f.
Total(f, S) == (CHOOSE g : Sums(f, g))[S]

\* Sigma(f) adds every place of f.
LEMMA SigmaIsTotal == ASSUME NEW f PROVE Sigma(f) = Total(f, DOMAIN f)
  BY DEF Sigma, Total, Sums, Picked

\* What is picked from a set belongs to it.
LEMMA PickedIn == ASSUME NEW S, S # {} PROVE Picked(S) \in S
  BY DEF Picked

\* g holds the sums over at most n places.
SumsUpTo(f, g, n) ==
  \A S \in SUBSET DOMAIN f : Cardinality(S) <= n =>
     g[S] = IF S = {} THEN 0 ELSE f[Picked(S)] + g[S \ {Picked(S)}]

\* The table that Sigma builds by recursion exists.
LEMMA SumsExist ==
  ASSUME NEW f, IsFiniteSet(DOMAIN f)
  PROVE  Sums(f, CHOOSE g : Sums(f, g))
<1> DEFINE D == DOMAIN f
           T == {n \in Nat : \E g : SumsUpTo(f, g, n)}
           step(g) == [S \in SUBSET D |-> IF S = {} THEN 0 ELSE f[Picked(S)] + g[S \ {Picked(S)}]]
<1>0. ASSUME NEW S \in SUBSET D
      PROVE  /\ Cardinality(S) \in Nat /\ (Cardinality(S) = 0 <=> S = {}) /\ Cardinality(S) <= Cardinality(D)
             /\ \A x \in S : S \ {x} \in SUBSET D /\ Cardinality(S \ {x}) = Cardinality(S) - 1
  BY FS_Subset, FS_CardinalityType, FS_EmptySet, FS_RemoveElement
<1>1. 0 \in T
  <2>1. SumsUpTo(f, step([S \in SUBSET D |-> 0]), 0)
    BY <1>0 DEF SumsUpTo
  <2> QED
    BY <2>1
<1>2. ASSUME NEW n \in Nat, n \in T PROVE n + 1 \in T
  <2>1. PICK g : SumsUpTo(f, g, n)
    BY <1>2
  <2>2. ASSUME NEW S \in SUBSET D, Cardinality(S) <= n PROVE step(g)[S] = g[S]
    BY <2>1, <2>2 DEF SumsUpTo
  <2>3. ASSUME NEW S \in SUBSET D, Cardinality(S) <= n + 1
        PROVE  step(g)[S] = IF S = {} THEN 0 ELSE f[Picked(S)] + step(g)[S \ {Picked(S)}]
    <3>1. CASE S = {}
      BY <3>1
    <3>2. CASE S # {}
      <4>1. S \ {Picked(S)} \in SUBSET D /\ Cardinality(S \ {Picked(S)}) <= n
        BY <3>2, <2>3, <1>0, PickedIn
      <4>2. step(g)[S \ {Picked(S)}] = g[S \ {Picked(S)}]
        BY <4>1, <2>2
      <4>3. step(g)[S] = f[Picked(S)] + g[S \ {Picked(S)}]
        BY <3>2
      <4> HIDE DEF step
      <4> QED
        BY <3>2, <4>2, <4>3
    <3> QED
      BY <3>1, <3>2
  <2>4. SumsUpTo(f, step(g), n + 1)
    <3> HIDE DEF step
    <3> QED BY <2>3 DEF SumsUpTo
  <2> QED
    BY <2>4
<1>3. Cardinality(D) \in Nat /\ Nat \subseteq T
  <2> HIDE DEF T
  <2> QED BY <1>0, <1>1, <1>2, ByInduction
<1>4. PICK g : SumsUpTo(f, g, Cardinality(D))
  BY <1>3
<1>5. Sums(f, [S \in SUBSET D |-> g[S]])
  <2> DEFINE h == [S \in SUBSET D |-> g[S]]
  <2>1. ASSUME NEW S \in SUBSET D
        PROVE  h[S] = IF S = {} THEN 0 ELSE f[Picked(S)] + h[S \ {Picked(S)}]
    BY <1>0, <1>4, PickedIn DEF SumsUpTo
  <2> DEFINE k == [S \in SUBSET D |-> IF S = {} THEN 0 ELSE f[Picked(S)] + h[S \ {Picked(S)}]]
  <2>2. h = [S \in SUBSET D |-> h[S]] /\ k = [S \in SUBSET D |-> k[S]]
    OBVIOUS
  <2>3. \A S \in SUBSET D : h[S] = k[S]
    BY <2>1
  <2>4. h = k
    <3> HIDE DEF h, k
    <3> QED BY <2>2, <2>3
  <2> HIDE DEF h
  <2>5. Sums(f, h)
    BY <2>4 DEF Sums
  <2> QED
    BY <2>5 DEF h
<1> QED
  BY <1>5

\* The recursion of Sigma, for the place it picks.
LEMMA TotalStep ==
  ASSUME NEW f, IsFiniteSet(DOMAIN f), NEW S \in SUBSET DOMAIN f
  PROVE  Total(f, S) = IF S = {} THEN 0 ELSE f[Picked(S)] + Total(f, S \ {Picked(S)})
<1> DEFINE g == CHOOSE g : Sums(f, g)
<1>1. Sums(f, g)
  BY SumsExist
<1>2. Total(f, S) = g[S] /\ Total(f, S \ {Picked(S)}) = g[S \ {Picked(S)}]
  BY DEF Total
<1> HIDE DEF g
<1>3. g[S] = IF S = {} THEN 0 ELSE f[Picked(S)] + g[S \ {Picked(S)}]
  BY <1>1 DEF Sums
<1> QED
  BY <1>2, <1>3

\* Nothing sums to 0.
LEMMA TotalEmpty ==
  ASSUME NEW f, IsFiniteSet(DOMAIN f)
  PROVE  Total(f, {}) = 0
  BY TotalStep

\* A finite table of numbers.
Numbers(f) == IsFiniteSet(DOMAIN f) /\ \A x \in DOMAIN f : f[x] \in Int

\* A sum of numbers is a number.
LEMMA TotalInt ==
  ASSUME NEW f, Numbers(f), NEW S \in SUBSET DOMAIN f
  PROVE  Total(f, S) \in Int
<1> DEFINE U == {V \in SUBSET DOMAIN f : Total(f, V) \in Int}
<1>1. {} \in U
  BY TotalEmpty DEF Numbers
<1>2. ASSUME NEW V \in SUBSET DOMAIN f, V # {}, \A x \in V : V \ {x} \in U PROVE V \in U
  <2>1. Picked(V) \in V /\ Picked(V) \in DOMAIN f
    BY <1>2, PickedIn
  <2>2. Total(f, V) = f[Picked(V)] + Total(f, V \ {Picked(V)})
    BY <1>2, TotalStep DEF Numbers
  <2> QED
    BY <1>2, <2>1, <2>2 DEF Numbers
<1> HIDE DEF U
<1>3. SUBSET DOMAIN f \subseteq U
  <2>1. IsFiniteSet(DOMAIN f)
    BY DEF Numbers
  <2>2. \A V \in SUBSET DOMAIN f : V # {} /\ (\A y \in V : V \ {y} \in U) => V \in U
    BY <1>2
  <2> QED
    BY <1>1, <2>1, <2>2, BySubsets, Zenon
<1> QED
  BY <1>3 DEF U

\* The order does not matter: any element may be taken out first.
LEMMA TotalPick ==
  ASSUME NEW f, Numbers(f), NEW S \in SUBSET DOMAIN f, NEW x \in S
  PROVE  Total(f, S) = f[x] + Total(f, S \ {x})
<1> DEFINE U == {V \in SUBSET DOMAIN f : \A y \in V : Total(f, V) = f[y] + Total(f, V \ {y})}
<1>1. {} \in U
  OBVIOUS
<1>2. ASSUME NEW V \in SUBSET DOMAIN f, V # {}, \A y \in V : V \ {y} \in U PROVE V \in U
  <2> DEFINE c == Picked(V)
  <2>1. c \in V /\ c \in DOMAIN f
    BY <1>2, PickedIn
  <2>2. Total(f, V) = f[c] + Total(f, V \ {c})
    BY <1>2, TotalStep DEF Numbers
  <2> HIDE DEF c
  <2>3. ASSUME NEW y \in V PROVE Total(f, V) = f[y] + Total(f, V \ {y})
    <3>1. CASE y = c
      BY <2>2, <3>1
    <3>2. CASE y # c
      <4>1. Total(f, V \ {c}) = f[y] + Total(f, (V \ {c}) \ {y})
        BY <1>2, <2>1, <3>2
      <4>2. Total(f, V \ {y}) = f[c] + Total(f, (V \ {y}) \ {c})
        BY <1>2, <2>1, <3>2
      <4>3. (V \ {c}) \ {y} = (V \ {y}) \ {c}
        OBVIOUS
      <4>4. f[y] \in Int /\ f[c] \in Int /\ Total(f, (V \ {y}) \ {c}) \in Int
        BY <2>1, TotalInt DEF Numbers
      <4> QED
        <5> HIDE DEF U
        <5>1. \A a, b, t \in Int : a + (b + t) = b + (a + t)
          OBVIOUS
        <5> QED
          <6>1. Total(f, V \ {c}) = f[y] + Total(f, (V \ {y}) \ {c})
            BY <4>1, <4>3
          <6>2. Total(f, V) = f[c] + (f[y] + Total(f, (V \ {y}) \ {c}))
            BY <2>2, <6>1
          <6>3. Total(f, V) = f[y] + (f[c] + Total(f, (V \ {y}) \ {c}))
            BY <4>4, <6>2, <5>1
          <6> QED
            BY <6>3, <4>2
    <3> QED
      BY <3>1, <3>2
  <2> QED
    BY <2>3
<1> HIDE DEF U
<1>3. SUBSET DOMAIN f \subseteq U
  <2>1. IsFiniteSet(DOMAIN f)
    BY DEF Numbers
  <2>2. \A V \in SUBSET DOMAIN f : V # {} /\ (\A y \in V : V \ {y} \in U) => V \in U
    BY <1>2
  <2> QED
    BY <1>1, <2>1, <2>2, BySubsets, Zenon
<1> QED
  BY <1>3 DEF U

\* A sum is bounded by whatever grows by no more than each element does.
LEMMA TotalAtMost ==
  ASSUME NEW f, Numbers(f), NEW G, G[{}] \in Int, 0 <= G[{}],
         \A S \in SUBSET DOMAIN f : G[S] \in Int,
         \A S \in SUBSET DOMAIN f : S # {} => \E x \in S : f[x] + G[S \ {x}] <= G[S]
  PROVE  \A S \in SUBSET DOMAIN f : Total(f, S) <= G[S]
<1> DEFINE U == {V \in SUBSET DOMAIN f : Total(f, V) <= G[V]}
<1>1. {} \in U
  BY TotalEmpty DEF Numbers
<1>2. ASSUME NEW V \in SUBSET DOMAIN f, V # {}, \A y \in V : V \ {y} \in U PROVE V \in U
  <2>1. PICK x \in V : f[x] + G[V \ {x}] <= G[V]
    BY <1>2
  <2>2. Total(f, V) = f[x] + Total(f, V \ {x})
    BY TotalPick
  <2>3. Total(f, V \ {x}) <= G[V \ {x}]
    BY <1>2
  <2>4. f[x] \in Int /\ Total(f, V \ {x}) \in Int /\ G[V] \in Int /\ G[V \ {x}] \in Int
    BY TotalInt DEF Numbers
  <2>5. Total(f, V) <= G[V]
    BY <2>1, <2>2, <2>3, <2>4
  <2> QED
    BY <2>5
<1> HIDE DEF U
<1>3. SUBSET DOMAIN f \subseteq U
  <2>1. IsFiniteSet(DOMAIN f)
    BY DEF Numbers
  <2>2. \A V \in SUBSET DOMAIN f : V # {} /\ (\A y \in V : V \ {y} \in U) => V \in U
    BY <1>2
  <2> QED
    BY <1>1, <2>1, <2>2, BySubsets, Zenon
<1> QED
  BY <1>3 DEF U

\* A sum is whatever grows by what each element adds.
LEMMA TotalIs ==
  ASSUME NEW f, Numbers(f), NEW G, G[{}] = 0,
         \A S \in SUBSET DOMAIN f : S # {} => \E x \in S : G[S] = f[x] + G[S \ {x}]
  PROVE  \A S \in SUBSET DOMAIN f : Total(f, S) = G[S]
<1> DEFINE U == {V \in SUBSET DOMAIN f : Total(f, V) = G[V]}
<1>1. {} \in U
  BY TotalEmpty DEF Numbers
<1>2. ASSUME NEW V \in SUBSET DOMAIN f, V # {}, \A y \in V : V \ {y} \in U PROVE V \in U
  <2>1. PICK x \in V : G[V] = f[x] + G[V \ {x}]
    BY <1>2
  <2>2. Total(f, V) = f[x] + Total(f, V \ {x})
    BY TotalPick
  <2>3. Total(f, V \ {x}) = G[V \ {x}]
    BY <1>2
  <2>5. Total(f, V) = G[V]
    BY <2>1, <2>2, <2>3
  <2> QED
    BY <2>5
<1> HIDE DEF U
<1>3. SUBSET DOMAIN f \subseteq U
  <2>1. IsFiniteSet(DOMAIN f)
    BY DEF Numbers
  <2>2. \A V \in SUBSET DOMAIN f : V # {} /\ (\A y \in V : V \ {y} \in U) => V \in U
    BY <1>2
  <2> QED
    BY <1>1, <2>1, <2>2, BySubsets, Zenon
<1> QED
  BY <1>3 DEF U

\* To compute a sum it is enough to name a table that some element of each part steps down.
LEMMA SigmaIs ==
  ASSUME NEW f, Numbers(f), NEW D, DOMAIN f = D, NEW G, G[{}] = 0,
         \A S \in SUBSET D : S # {} => \E x \in S : G[S] = f[x] + G[S \ {x}]
  PROVE  Sigma(f) = G[D]
  BY TotalIs, SigmaIsTotal

\* Two lists of numbers over the same places.
LEMMA SigmaInt ==
  ASSUME NEW f, Numbers(f)
  PROVE  Sigma(f) \in Int
  BY TotalInt, SigmaIsTotal

\* The sum of an empty table.
LEMMA SigmaEmpty ==
  ASSUME NEW f, DOMAIN f = {}
  PROVE  Sigma(f) = 0
<1>1. IsFiniteSet(DOMAIN f)
  BY FS_EmptySet
<1> QED
  BY <1>1, TotalEmpty, SigmaIsTotal

\* A sum is at most another of the same shape.
LEMMA SigmaMono ==
  ASSUME NEW f, NEW g, Numbers(f), Numbers(g), DOMAIN f = DOMAIN g,
         \A x \in DOMAIN f : f[x] <= g[x]
  PROVE  Sigma(f) <= Sigma(g)
<1> DEFINE G == [S \in SUBSET DOMAIN f |-> Total(g, S)]
<1>1. \A S \in SUBSET DOMAIN f : G[S] = Total(g, S) /\ G[S] \in Int
  BY TotalInt
<1>2. G[{}] = 0 /\ G[{}] \in Int /\ 0 <= G[{}]
  BY TotalEmpty, <1>1 DEF Numbers
<1>3. ASSUME NEW S \in SUBSET DOMAIN f, S # {}
      PROVE  \E x \in S : f[x] + G[S \ {x}] <= G[S]
  <2>1. PICK x \in S : TRUE
    BY <1>3
  <2>2. Total(g, S) = g[x] + Total(g, S \ {x})
    BY TotalPick
  <2>3. f[x] \in Int /\ g[x] \in Int /\ f[x] <= g[x] /\ Total(g, S \ {x}) \in Int
    BY TotalInt DEF Numbers
  <2>4. G[S \ {x}] = Total(g, S \ {x}) /\ G[S] = Total(g, S)
    OBVIOUS
  <2> HIDE DEF G
  <2>5. f[x] + G[S \ {x}] <= G[S]
    BY <2>2, <2>3, <2>4
  <2> QED
    BY <2>5
<1> HIDE DEF G
<1>4. \A S \in SUBSET DOMAIN f : Total(f, S) <= G[S]
  BY <1>1, <1>2, <1>3, TotalAtMost
<1>5. Total(f, DOMAIN f) <= Total(g, DOMAIN f)
  BY <1>1, <1>4
<1> QED
  BY <1>5, SigmaIsTotal

\* What the elements add up to, when each adds a times f and b times g.
LEMMA SigmaLinear ==
  ASSUME NEW f, NEW g, NEW h, NEW a \in Int, NEW b \in Int,
         Numbers(f), Numbers(g), Numbers(h), DOMAIN f = DOMAIN h, DOMAIN g = DOMAIN h,
         \A x \in DOMAIN h : h[x] = a * f[x] + b * g[x]
  PROVE  Sigma(h) = a * Sigma(f) + b * Sigma(g)
<1> DEFINE G == [S \in SUBSET DOMAIN h |-> a * Total(f, S) + b * Total(g, S)]
<1>1. \A S \in SUBSET DOMAIN h : G[S] = a * Total(f, S) + b * Total(g, S)
  OBVIOUS
<1>2. G[{}] = 0
  <2>1. Total(f, {}) = 0 /\ Total(g, {}) = 0
    BY TotalEmpty DEF Numbers
  <2> QED
    BY <2>1, <1>1
<1>3. ASSUME NEW S \in SUBSET DOMAIN h, S # {}
      PROVE  \E x \in S : G[S] = h[x] + G[S \ {x}]
  <2>1. PICK x \in S : TRUE
    BY <1>3
  <2>2. Total(f, S) = f[x] + Total(f, S \ {x}) /\ Total(g, S) = g[x] + Total(g, S \ {x})
    BY TotalPick
  <2>3. /\ f[x] \in Int /\ g[x] \in Int /\ h[x] = a * f[x] + b * g[x]
        /\ Total(f, S \ {x}) \in Int /\ Total(g, S \ {x}) \in Int
    BY TotalInt DEF Numbers
  <2>4. G[S \ {x}] = a * Total(f, S \ {x}) + b * Total(g, S \ {x})
        /\ G[S] = a * Total(f, S) + b * Total(g, S)
    OBVIOUS
  <2> HIDE DEF G
  <2>5. \A p, q, r, s \in Int : a * (p + q) + b * (r + s) = (a * p + b * r) + (a * q + b * s)
    BY SMTT(20)
  <2>6. G[S] = h[x] + G[S \ {x}]
    BY <2>2, <2>3, <2>4, <2>5, SMTT(20)
  <2> QED
    BY <2>6
<1> HIDE DEF G
<1>4. \A S \in SUBSET DOMAIN h : Total(h, S) = G[S]
  BY <1>2, <1>3, TotalIs, ZenonT(40)
<1>5. Total(h, DOMAIN h) = a * Total(f, DOMAIN h) + b * Total(g, DOMAIN h)
  BY <1>1, <1>4
<1> QED
  BY <1>5, SigmaIsTotal

\* The sum of a constant.
LEMMA SigmaConst ==
  ASSUME NEW D, IsFiniteSet(D), NEW c \in Int
  PROVE  Sigma([x \in D |-> c]) = c * Cardinality(D)
<1> DEFINE f == [x \in D |-> c]
           G == [S \in SUBSET D |-> c * Cardinality(S)]
<1>1. Numbers(f) /\ DOMAIN f = D /\ \A x \in D : f[x] = c
  BY DEF Numbers
<1>2. \A S \in SUBSET D : G[S] = c * Cardinality(S)
  OBVIOUS
<1>3. G[{}] = 0
  BY <1>2, FS_EmptySet
<1>4. ASSUME NEW S \in SUBSET D, S # {}
      PROVE  \E x \in S : G[S] = f[x] + G[S \ {x}]
  <2>1. PICK x \in S : TRUE
    BY <1>4
  <2>2. Cardinality(S) \in Nat /\ Cardinality(S \ {x}) = Cardinality(S) - 1
    BY FS_Subset, FS_CardinalityType, FS_RemoveElement
  <2>3. G[S] = c * Cardinality(S) /\ G[S \ {x}] = c * Cardinality(S \ {x}) /\ f[x] = c
    OBVIOUS
  <2> HIDE DEF f, G
  <2>4. \A k \in Nat : c * k = c + c * (k - 1)
    BY SMTT(20)
  <2> QED
    BY <2>2, <2>3, <2>4, ZenonT(20)
<1> HIDE DEF f, G
<1>5. \A S \in SUBSET D : Total(f, S) = G[S]
  BY <1>1, <1>3, <1>4, TotalIs, ZenonT(40)
<1>6. Sigma(f) = c * Cardinality(D)
  BY <1>1, <1>2, <1>5, SigmaIsTotal
<1> QED
  BY <1>6 DEF f

\* Sigma of a table restricted to some places.
LEMMA SigmaOnSubset ==
  ASSUME NEW f, Numbers(f), NEW S \in SUBSET DOMAIN f
  PROVE  Sigma([x \in S |-> f[x]]) = Total(f, S)
<1> DEFINE h == [x \in S |-> f[x]]
           G == [T \in SUBSET S |-> Total(f, T)]
<1>1. Numbers(h) /\ DOMAIN h = S /\ \A x \in S : h[x] = f[x]
  BY FS_Subset DEF Numbers
<1>2. \A T \in SUBSET S : G[T] = Total(f, T)
  OBVIOUS
<1>3. G[{}] = 0
  BY <1>2, TotalEmpty DEF Numbers
<1>4. ASSUME NEW T \in SUBSET S, T # {}
      PROVE  \E x \in T : G[T] = h[x] + G[T \ {x}]
  <2>1. PICK x \in T : TRUE
    BY <1>4
  <2>2. Total(f, T) = f[x] + Total(f, T \ {x})
    BY TotalPick
  <2> HIDE DEF G, h
  <2> QED
    BY <1>1, <1>2, <2>2
<1> HIDE DEF h, G
<1>5. \A T \in SUBSET S : Total(h, T) = G[T]
  <2>1. Numbers(h) /\ DOMAIN h = S
    BY <1>1
  <2>2. \A T \in SUBSET DOMAIN h : T # {} => \E x \in T : G[T] = h[x] + G[T \ {x}]
    BY <1>4, <2>1
  <2> QED
    BY <2>1, <2>2, <1>3, TotalIs
<1>6. Sigma(h) = Total(f, S)
  BY <1>1, <1>2, <1>5, SigmaIsTotal
<1> QED
  BY <1>6 DEF h

\* A sum splits into the sums over a part and over the rest.
LEMMA SigmaSplit ==
  ASSUME NEW f, Numbers(f), NEW S \in SUBSET DOMAIN f
  PROVE  Sigma(f) = Total(f, S) + Total(f, DOMAIN f \ S)
<1> DEFINE D == DOMAIN f
           E == D \ S
           G == [T \in SUBSET D |-> Total(f, T \cap S) + Total(f, T \cap E)]
<1>2. \A T \in SUBSET D : G[T] = Total(f, T \cap S) + Total(f, T \cap E)
  OBVIOUS
<1>3. G[{}] = 0
  <2>1. Total(f, {}) = 0 /\ {} \cap S = {} /\ {} \cap E = {}
    BY TotalEmpty DEF Numbers
  <2> QED
    BY <1>2, <2>1
<1>4. ASSUME NEW T \in SUBSET D, T # {}
      PROVE  \E x \in T : G[T] = f[x] + G[T \ {x}]
  <2>1. PICK x \in T : TRUE
    BY <1>4
  <2>2. /\ f[x] \in Int
        /\ Total(f, T \cap S) \in Int /\ Total(f, T \cap E) \in Int
        /\ Total(f, (T \cap S) \ {x}) \in Int /\ Total(f, (T \cap E) \ {x}) \in Int
    BY TotalInt DEF Numbers
  <2>3. G[T] = Total(f, T \cap S) + Total(f, T \cap E)
        /\ G[T \ {x}] = Total(f, (T \ {x}) \cap S) + Total(f, (T \ {x}) \cap E)
    BY <1>2
  <2>4. (T \ {x}) \cap S = (T \cap S) \ {x} /\ (T \ {x}) \cap E = (T \cap E) \ {x}
    OBVIOUS
  <2>5. CASE x \in S
    <3>1. Total(f, T \cap S) = f[x] + Total(f, (T \cap S) \ {x})
      BY <2>5, TotalPick
    <3>2. (T \cap E) \ {x} = T \cap E
      BY <2>5
    <3>3. /\ G[T] = Total(f, T \cap S) + Total(f, T \cap E)
          /\ G[T \ {x}] = Total(f, (T \cap S) \ {x}) + Total(f, (T \cap E) \ {x})
      BY <2>3, <2>4
    <3>4. \A a, b, c \in Int : (a + b) + c = a + (b + c) /\ b + (a + c) = a + (b + c)
      OBVIOUS
    <3> HIDE DEF G
    <3>7. G[T] = (f[x] + Total(f, (T \cap S) \ {x})) + Total(f, T \cap E)
      BY <3>1, <3>3
    <3>8. G[T \ {x}] = Total(f, (T \cap S) \ {x}) + Total(f, T \cap E)
      BY <3>2, <3>3
    <3>5. G[T] = f[x] + G[T \ {x}]
      BY <2>2, <3>4, <3>7, <3>8
    <3> QED
      BY <3>5
  <2>6. CASE x \notin S
    <3>1. Total(f, T \cap E) = f[x] + Total(f, (T \cap E) \ {x})
      BY <2>6, TotalPick
    <3>2. (T \cap S) \ {x} = T \cap S
      BY <2>6
    <3>3. /\ G[T] = Total(f, T \cap S) + Total(f, T \cap E)
          /\ G[T \ {x}] = Total(f, (T \cap S) \ {x}) + Total(f, (T \cap E) \ {x})
      BY <2>3, <2>4
    <3>4. \A a, b, c \in Int : (a + b) + c = a + (b + c) /\ b + (a + c) = a + (b + c)
      OBVIOUS
    <3> HIDE DEF G
    <3>7. G[T] = Total(f, T \cap S) + (f[x] + Total(f, (T \cap E) \ {x}))
      BY <3>1, <3>3
    <3>8. G[T \ {x}] = Total(f, T \cap S) + Total(f, (T \cap E) \ {x})
      BY <3>2, <3>3
    <3>6. G[T] = f[x] + G[T \ {x}]
      BY <2>2, <3>4, <3>7, <3>8
    <3> QED
      BY <3>6
  <2> QED
    BY <2>5, <2>6
<1>5. \A T \in SUBSET D : Total(f, T) = G[T]
  <2> HIDE DEF G
  <2> QED BY <1>3, <1>4, TotalIs
<1>6. D \cap S = S /\ D \cap E = E
  OBVIOUS
<1> QED
  BY <1>2, <1>5, <1>6, SigmaIsTotal

\* The same elements under other names.
LEMMA SigmaRename ==
  ASSUME NEW f, Numbers(f), NEW D, IsFiniteSet(D), NEW p \in [D -> DOMAIN f],
         \A x, y \in D : p[x] = p[y] => x = y, \A z \in DOMAIN f : \E x \in D : p[x] = z
  PROVE  Sigma([x \in D |-> f[p[x]]]) = Sigma(f)
<1> DEFINE h == [x \in D |-> f[p[x]]]
           G == [T \in SUBSET D |-> Total(f, {p[x] : x \in T})]
<1>1. Numbers(h) /\ DOMAIN h = D /\ \A x \in D : h[x] = f[p[x]]
  BY DEF Numbers
<1>2. \A T \in SUBSET D : G[T] = Total(f, {p[x] : x \in T})
  OBVIOUS
<1>3. G[{}] = 0
  <2>1. {p[x] : x \in {}} = {}
    OBVIOUS
  <2> QED
    BY <1>2, <2>1, TotalEmpty DEF Numbers
<1>4. ASSUME NEW T \in SUBSET D, T # {}
      PROVE  \E x \in T : G[T] = h[x] + G[T \ {x}]
  <2>1. PICK x \in T : TRUE
    BY <1>4
  <2> DEFINE image == {p[y] : y \in T}
             rest == {p[y] : y \in T \ {x}}
  <2>2. image \in SUBSET DOMAIN f /\ p[x] \in image /\ image \ {p[x]} = rest
    OBVIOUS
  <2>3. G[T] = Total(f, image) /\ G[T \ {x}] = Total(f, rest)
    BY <1>2
  <2> HIDE DEF G, h, image, rest
  <2>4. Total(f, image) = f[p[x]] + Total(f, image \ {p[x]})
    BY <2>2, TotalPick
  <2>5. G[T] = h[x] + G[T \ {x}]
    BY <1>1, <2>2, <2>3, <2>4
  <2> QED
    BY <2>5
<1>5. {p[x] : x \in D} = DOMAIN f
  OBVIOUS
<1> HIDE DEF h, G
<1>6. Sigma(h) = G[D]
  <2>1. \A T \in SUBSET D : T # {} => \E x \in T : G[T] = h[x] + G[T \ {x}]
    BY <1>4
  <2>2. Numbers(h) /\ DOMAIN h = D
    BY <1>1
  <2>3. \A T \in SUBSET DOMAIN h : T # {} => \E x \in T : G[T] = h[x] + G[T \ {x}]
    BY <2>1, <2>2
  <2>4. \A T \in SUBSET DOMAIN h : Total(h, T) = G[T]
    BY <1>3, <2>2, <2>3, TotalIs
  <2> QED
    BY <2>2, <2>4, SigmaIsTotal
<1>7. Sigma(h) = Sigma(f)
  BY <1>2, <1>5, <1>6, SigmaIsTotal
<1> QED
  BY <1>7 DEF h

\* Two sums of the same numbers.
LEMMA SigmaSame ==
  ASSUME NEW f, NEW g, Numbers(f), DOMAIN g = DOMAIN f, \A x \in DOMAIN f : g[x] = f[x]
  PROVE  Sigma(g) = Sigma(f)
<1>1. Numbers(g)
  BY DEF Numbers
<1>2. \A x \in DOMAIN f : f[x] <= g[x] /\ g[x] <= f[x]
  BY DEF Numbers
<1>3. Sigma(f) <= Sigma(g)
  BY <1>1, <1>2, SigmaMono
<1>4. Sigma(g) <= Sigma(f)
  BY <1>1, <1>2, SigmaMono
<1>5. Sigma(f) \in Int /\ Sigma(g) \in Int
  BY <1>1, SigmaInt
<1> QED
  BY <1>3, <1>4, <1>5

\* f and g are the sums of the rows and of the columns of a table of numbers.
Edges(f, g, row, column) ==
  /\ IsFiniteSet(DOMAIN f) /\ IsFiniteSet(DOMAIN g)
  /\ \A x \in DOMAIN f : DOMAIN row[x] = DOMAIN g /\ f[x] = Sigma(row[x])
  /\ \A y \in DOMAIN g : DOMAIN column[y] = DOMAIN f /\ g[y] = Sigma(column[y])
  /\ \A x \in DOMAIN f, y \in DOMAIN g : row[x][y] \in Int /\ column[y][x] = row[x][y]

\* A table adds up to the same by rows and by columns.
LEMMA SigmaTurned ==
  ASSUME NEW f, NEW g, NEW row, NEW column, Edges(f, g, row, column)
  PROVE  Sigma(f) = Sigma(g) /\ Numbers(f) /\ Numbers(g)
<1> DEFINE D == DOMAIN f
           E == DOMAIN g
           part(T) == [y \in E |-> Total(column[y], T)]
           G == [T \in SUBSET D |-> Sigma(part(T))]
<1>0. IsFiniteSet(D) /\ IsFiniteSet(E)
  BY DEF Edges
<1>1. \A x \in D : Numbers(row[x]) /\ DOMAIN row[x] = E
  BY DEF Edges, Numbers
<1>2. \A y \in E : Numbers(column[y]) /\ DOMAIN column[y] = D /\ g[y] = Sigma(column[y])
  BY DEF Edges, Numbers
<1>3. Numbers(f) /\ Numbers(g) /\ \A x \in D : f[x] = Sigma(row[x])
  BY <1>1, <1>2, SigmaInt DEF Edges, Numbers
<1>4. ASSUME NEW T \in SUBSET D
      PROVE  Numbers(part(T)) /\ DOMAIN part(T) = E /\ \A y \in E : part(T)[y] = Total(column[y], T)
  BY <1>0, <1>2, TotalInt DEF Numbers
<1>5. \A T \in SUBSET D : G[T] = Sigma(part(T))
  OBVIOUS
<1> HIDE DEF G
<1>6. G[{}] = 0
  <2>1. part({}) = [y \in E |-> 0]
    BY <1>2, TotalEmpty DEF Numbers
  <2>2. Sigma([y \in E |-> 0]) = 0 * Cardinality(E)
    <3> DEFINE c == 0
    <3>1. c \in Int
      OBVIOUS
    <3> HIDE DEF c
    <3>2. Sigma([y \in E |-> c]) = c * Cardinality(E)
      BY <1>0, <3>1, SigmaConst
    <3> QED
      BY <3>2 DEF c
  <2>3. Cardinality(E) \in Nat
    BY <1>0, FS_CardinalityType
  <2>4. Sigma([y \in E |-> 0]) = 0
    BY <2>2, <2>3
  <2> QED
    BY <1>5, <2>1, <2>4
<1> HIDE DEF part
<1>7. ASSUME NEW T \in SUBSET D, T # {}
      PROVE  \E x \in T : G[T] = f[x] + G[T \ {x}]
  <2>1. PICK x \in T : TRUE
    BY <1>7
  <2>2. ASSUME NEW y \in E PROVE part(T)[y] = 1 * row[x][y] + 1 * part(T \ {x})[y]
    <3>1. Total(column[y], T) = column[y][x] + Total(column[y], T \ {x})
      BY <1>2, TotalPick
    <3>2. column[y][x] = row[x][y] /\ row[x][y] \in Int
      BY DEF Edges
    <3>3. part(T)[y] = Total(column[y], T) /\ part(T \ {x})[y] = Total(column[y], T \ {x})
      BY <1>4
    <3>4. Total(column[y], T \ {x}) \in Int
      BY <1>2, TotalInt
    <3> QED
      BY <3>1, <3>2, <3>3, <3>4
  <2>3. /\ Numbers(part(T)) /\ DOMAIN part(T) = E
        /\ Numbers(part(T \ {x})) /\ DOMAIN part(T \ {x}) = E
        /\ Numbers(row[x]) /\ DOMAIN row[x] = E
    BY <1>1, <1>4
  <2>4. Sigma(part(T)) = 1 * Sigma(row[x]) + 1 * Sigma(part(T \ {x}))
    <3> DEFINE a == row[x]
               b == part(T \ {x})
               c == part(T)
    <3>1. Numbers(a) /\ Numbers(b) /\ Numbers(c) /\ DOMAIN a = DOMAIN c /\ DOMAIN b = DOMAIN c
      BY <2>3
    <3>2. \A y \in DOMAIN c : c[y] = 1 * a[y] + 1 * b[y]
      BY <2>2, <2>3
    <3> HIDE DEF a, b, c
    <3>3. Sigma(c) = 1 * Sigma(a) + 1 * Sigma(b)
      BY <3>1, <3>2, SigmaLinear
    <3> QED
      BY <3>3 DEF a, b, c
  <2>5. Sigma(row[x]) \in Int /\ Sigma(part(T \ {x})) \in Int
    BY <2>3, SigmaInt
  <2>6. G[T] = Sigma(part(T)) /\ G[T \ {x}] = Sigma(part(T \ {x})) /\ f[x] = Sigma(row[x])
    BY <1>3, <1>5
  <2>7. G[T] = f[x] + G[T \ {x}]
    BY <2>4, <2>5, <2>6
  <2> QED
    BY <2>7
<1>8. \A T \in SUBSET D : Total(f, T) = G[T]
  <2>1. \A T \in SUBSET DOMAIN f : T # {} => \E x \in T : G[T] = f[x] + G[T \ {x}]
    BY <1>3, <1>7
  <2>2. \A T \in SUBSET DOMAIN f : Total(f, T) = G[T]
    BY <1>3, <1>6, <2>1, TotalIs
  <2> QED
    BY <1>3, <2>2
<1>9. Sigma(f) = Sigma(part(D))
  BY <1>3, <1>5, <1>8, SigmaIsTotal
<1>10. Sigma(g) = Sigma(part(D))
  <2>1. \A y \in E : part(D)[y] = g[y]
    <3>1. \A y \in E : part(D)[y] = Total(column[y], D)
      BY <1>4
    <3>2. \A y \in E : Total(column[y], D) = Sigma(column[y])
      BY <1>2, SigmaIsTotal
    <3> QED
      BY <1>2, <3>1, <3>2
  <2>2. Numbers(part(D)) /\ DOMAIN part(D) = E
    BY <1>4
  <2> QED
    BY <1>3, <2>1, <2>2, SigmaSame
<1> QED
  BY <1>3, <1>9, <1>10

\* Quotient and remainder are the only ones there are.
LEMMA DivisionIs ==
  ASSUME NEW a \in Int, NEW b \in Int, 0 < b, NEW q \in Int, NEW r \in Int,
         a = b * q + r, 0 <= r, r < b
  PROVE  a \div b = q /\ a % b = r
  OBVIOUS

\* What a quotient and a remainder are.
LEMMA Division ==
  ASSUME NEW a \in Int, NEW b \in Int, 0 < b
  PROVE  /\ a \div b \in Int /\ a % b \in Int
         /\ a = b * (a \div b) + (a % b) /\ 0 <= a % b /\ a % b < b
  OBVIOUS

\* A sum of ones counts.
LEMMA SigmaCount ==
  ASSUME NEW D, IsFiniteSet(D), NEW S \in SUBSET D
  PROVE  Sigma([x \in D |-> IF x \in S THEN 1 ELSE 0]) = Cardinality(S)
<1> DEFINE f == [x \in D |-> IF x \in S THEN 1 ELSE 0]
           G == [T \in SUBSET D |-> Cardinality(T \cap S)]
<1>1. Numbers(f) /\ DOMAIN f = D
  BY DEF Numbers
<1>2. \A T \in SUBSET D : G[T] = Cardinality(T \cap S)
  OBVIOUS
<1>3. G[{}] = 0
  <2>1. {} \cap S = {}
    OBVIOUS
  <2> QED
    BY <1>2, <2>1, FS_EmptySet
<1>4. ASSUME NEW T \in SUBSET D, T # {}
      PROVE  \E x \in T : G[T] = f[x] + G[T \ {x}]
  <2>1. PICK x \in T : TRUE
    BY <1>4
  <2>2. IsFiniteSet(T \cap S)
    BY FS_Subset
  <2>3. Cardinality(T \cap S) \in Nat
    BY <2>2, FS_CardinalityType
  <2>4. (T \ {x}) \cap S = (T \cap S) \ {x}
    OBVIOUS
  <2>5. Cardinality((T \cap S) \ {x}) = IF x \in T \cap S THEN Cardinality(T \cap S) - 1 ELSE Cardinality(T \cap S)
    BY <2>2, FS_RemoveElement
  <2>6. f[x] = IF x \in S THEN 1 ELSE 0
    OBVIOUS
  <2>7. G[T] = Cardinality(T \cap S) /\ G[T \ {x}] = Cardinality((T \cap S) \ {x})
    BY <1>2, <2>4
  <2> HIDE DEF f, G
  <2>8. G[T] = f[x] + G[T \ {x}]
    BY <2>3, <2>5, <2>6, <2>7
  <2> QED
    BY <2>8
<1> HIDE DEF f, G
<1>5. Sigma(f) = G[D]
  <2>1. \A T \in SUBSET D : T # {} => \E x \in T : G[T] = f[x] + G[T \ {x}]
    BY <1>4
  <2>2. \A T \in SUBSET D : Total(f, T) = G[T]
    BY <1>1, <1>3, <2>1, TotalIs
  <2> QED
    BY <1>1, <2>2, SigmaIsTotal
<1>6. D \cap S = S
  OBVIOUS
<1> QED
  BY <1>2, <1>5, <1>6 DEF f

\* The places before i when the remainders are ranked, the largest first.
Ahead(r, i) == {j \in DOMAIN r : r[j] > r[i] \/ (r[j] = r[i] /\ j < i)}

\* The ranks of the remainders are all different: no cent is given twice or kept.
LEMMA Ranks ==
  ASSUME NEW D \in SUBSET Int, IsFiniteSet(D), NEW r \in [D -> Int]
  PROVE  /\ \A i \in D : Cardinality(Ahead(r, i)) \in 0..(Cardinality(D) - 1)
         /\ \A i, j \in D : Cardinality(Ahead(r, i)) = Cardinality(Ahead(r, j)) => i = j
<1>1. Cardinality(D) \in Nat
  BY FS_CardinalityType
<1>2. ASSUME NEW i \in D
      PROVE  /\ IsFiniteSet(Ahead(r, i)) /\ Cardinality(Ahead(r, i)) \in Nat
             /\ Cardinality(Ahead(r, i)) <= Cardinality(D) - 1
  <2>1. Ahead(r, i) \subseteq D \ {i}
    BY DEF Ahead
  <2>2. IsFiniteSet(D \ {i}) /\ Cardinality(D \ {i}) = Cardinality(D) - 1
    BY FS_RemoveElement
  <2>3. IsFiniteSet(Ahead(r, i)) /\ Cardinality(Ahead(r, i)) <= Cardinality(D \ {i})
    BY <2>1, <2>2, FS_Subset
  <2> QED
    BY <2>2, <2>3, FS_CardinalityType
<1>3. ASSUME NEW i \in D, NEW j \in D, i \in Ahead(r, j)
      PROVE  Cardinality(Ahead(r, i)) # Cardinality(Ahead(r, j))
  <2>1. Ahead(r, i) \cup {i} \subseteq Ahead(r, j) /\ i \notin Ahead(r, i)
    <3>1. ASSUME NEW m \in Ahead(r, i) PROVE m \in Ahead(r, j) /\ m # i
      <4>1. m \in D /\ m \in Int /\ i \in Int /\ j \in Int /\ r[m] \in Int /\ r[i] \in Int /\ r[j] \in Int
        BY DEF Ahead
      <4>2. r[m] > r[i] \/ (r[m] = r[i] /\ m < i)
        BY DEF Ahead
      <4>3. r[i] > r[j] \/ (r[i] = r[j] /\ i < j)
        BY <1>3 DEF Ahead
      <4>4. (r[m] > r[j] \/ (r[m] = r[j] /\ m < j)) /\ m # i
        BY <4>1, <4>2, <4>3
      <4> QED
        BY <4>1, <4>4 DEF Ahead
    <3>2. i \notin Ahead(r, i)
      BY DEF Ahead
    <3> QED
      BY <1>3, <3>1, <3>2
  <2>2. Cardinality(Ahead(r, i) \cup {i}) = Cardinality(Ahead(r, i)) + 1
    BY <1>2, <2>1, FS_AddElement
  <2>3. Cardinality(Ahead(r, i) \cup {i}) <= Cardinality(Ahead(r, j))
    BY <1>2, <2>1, FS_Subset
  <2> QED
    BY <1>2, <2>2, <2>3
<1>4. ASSUME NEW i \in D, NEW j \in D, i # j PROVE i \in Ahead(r, j) \/ j \in Ahead(r, i)
  BY <1>4 DEF Ahead
<1> QED
  BY <1>1, <1>2, <1>3, <1>4

\* As many places have a rank under k as there are ranks under k.
LEMMA RankedBefore ==
  ASSUME NEW D \in SUBSET Int, IsFiniteSet(D), NEW r \in [D -> Int], NEW k \in 0..Cardinality(D)
  PROVE  Cardinality({i \in D : Cardinality(Ahead(r, i)) < k}) = k
<1> DEFINE n == Cardinality(D)
           rank == [i \in D |-> Cardinality(Ahead(r, i))]
           first == {i \in D : Cardinality(Ahead(r, i)) < k}
           part == [i \in first |-> Cardinality(Ahead(r, i))]
<1>1. n \in Nat
  BY FS_CardinalityType
<1>2. rank \in Injection(D, 0..(n - 1))
  BY Ranks DEF Injection, IsInjective
<1>3. IsFiniteSet(0..(n - 1)) /\ Cardinality(0..(n - 1)) = n
  <2> HIDE DEF n
  <2>1. 0 \in Int /\ n - 1 \in Int /\ (IF 0 > n - 1 THEN 0 ELSE (n - 1) - 0 + 1) = n
    BY <1>1
  <2> QED
    BY <2>1, FS_Interval
<1>4. rank \in Surjection(D, 0..(n - 1))
  BY <1>2, <1>3, FS_Injection
<1>5. part \in Bijection(first, 0..(k - 1))
  <2>1. part \in [first -> 0..(k - 1)]
    <3>1. ASSUME NEW i \in first PROVE part[i] \in 0..(k - 1)
      <4>1. Cardinality(Ahead(r, i)) \in 0..(n - 1) /\ Cardinality(Ahead(r, i)) < k
        BY Ranks
      <4>2. part[i] = Cardinality(Ahead(r, i))
        OBVIOUS
      <4> HIDE DEF part, n
      <4> QED
        BY <1>1, <4>1, <4>2
    <3> QED
      BY <3>1
  <2>2. \A i, j \in first : part[i] = part[j] => i = j
    BY Ranks
  <2>3. ASSUME NEW m \in 0..(k - 1) PROVE \E i \in first : part[i] = m
    <3>1. m \in 0..(n - 1)
      BY <1>1
    <3>2. PICK i \in D : rank[i] = m
      BY <1>4, <3>1 DEF Surjection
    <3>3. Cardinality(Ahead(r, i)) = m /\ m < k
      BY <3>2
    <3> QED
      BY <3>3
  <2> HIDE DEF part, first
  <2> QED
    BY <2>1, <2>2, <2>3 DEF Bijection, Injection, Surjection, IsInjective
<1>6. IsFiniteSet(first)
  BY FS_Subset
<1>7. ExistsBijection(first, 0..(k - 1))
  BY <1>5 DEF ExistsBijection
<1>8. k \in Nat /\ Cardinality(0..(k - 1)) = k
  BY <1>1, FS_Interval
<1> QED
  BY <1>6, <1>7, <1>8, FS_Bijection

\* Weights a service may be split by: numbers that do not all vanish.
Weights(w) == DOMAIN w \in SUBSET Int /\ IsFiniteSet(DOMAIN w) /\ (\A i \in DOMAIN w : w[i] \in Nat)
                /\ Sigma(w) > 0

\* The parts of WeightedSplit.
Shares(a, w) == [i \in DOMAIN w |-> (a * w[i]) \div Sigma(w)]
\* What WeightedSplit ranks, and the cents it has left to give.
Remainders(a, w) == [i \in DOMAIN w |-> (a * w[i]) % Sigma(w)]
Left(a, w) == a - Sigma(Shares(a, w))

\* WeightedSplit is the shares rounded down plus a cent to the first ranks.
LEMMA SplitParts ==
  ASSUME NEW a \in Int, NEW w, Weights(w)
  PROVE  WeightedSplit(a, w) =
           [i \in DOMAIN w |-> Shares(a, w)[i]
              + (IF Cardinality(Ahead(Remainders(a, w), i)) < Left(a, w) THEN 1 ELSE 0)]
<1>1. DOMAIN Remainders(a, w) = DOMAIN w
  BY DEF Remainders
<1> QED
  BY <1>1 DEF WeightedSplit, Shares, Remainders, Left, Ahead, Quantify

\* The parts of a split are numbers, and each weight is its share and remainder.
LEMMA SplitNumbers ==
  ASSUME NEW a \in Int, NEW w, Weights(w)
  PROVE  /\ Sigma(w) \in Nat \ {0} /\ Numbers(w)
         /\ Shares(a, w) \in [DOMAIN w -> Int] /\ Remainders(a, w) \in [DOMAIN w -> 0..(Sigma(w) - 1)]
         /\ Numbers(Shares(a, w)) /\ Numbers(Remainders(a, w)) /\ Left(a, w) \in Int
         /\ \A i \in DOMAIN w :
              a * w[i] = Sigma(w) * Shares(a, w)[i] + Remainders(a, w)[i]
<1>1. Numbers(w)
  BY DEF Weights, Numbers
<1>2. Sigma(w) \in Nat \ {0}
  BY <1>1, SigmaInt DEF Weights
<1>3. ASSUME NEW i \in DOMAIN w
      PROVE  /\ Shares(a, w)[i] \in Int /\ Remainders(a, w)[i] \in 0..(Sigma(w) - 1)
             /\ a * w[i] = Sigma(w) * Shares(a, w)[i] + Remainders(a, w)[i]
  <2> DEFINE p == a * w[i]
             s == Sigma(w)
  <2>1. p \in Int /\ s \in Int /\ 0 < s
    BY <1>2 DEF Weights
  <2>2. Shares(a, w)[i] = p \div s /\ Remainders(a, w)[i] = p % s
    BY DEF Shares, Remainders
  <2> HIDE DEF p, s
  <2>3. /\ p \div s \in Int /\ p % s \in Int
        /\ p = s * (p \div s) + (p % s) /\ 0 <= p % s /\ p % s < s
    BY <2>1, Division
  <2>4. Remainders(a, w)[i] \in 0..(s - 1)
    BY <2>1, <2>2, <2>3
  <2>5. p = s * Shares(a, w)[i] + Remainders(a, w)[i]
    BY <2>2, <2>3
  <2> QED
    BY <2>2, <2>3, <2>4, <2>5 DEF p, s
<1>4. Shares(a, w) \in [DOMAIN w -> Int]
  BY <1>3 DEF Shares
<1>5. Remainders(a, w) \in [DOMAIN w -> 0..(Sigma(w) - 1)]
  BY <1>3 DEF Remainders
<1>6. Numbers(Shares(a, w)) /\ Numbers(Remainders(a, w))
  BY <1>2, <1>4, <1>5 DEF Numbers, Weights
<1>7. Left(a, w) \in Int
  BY <1>6, SigmaInt DEF Left
<1> QED
  BY <1>1, <1>2, <1>3, <1>4, <1>5, <1>6, <1>7

\* A leftover cent for each place that has a remainder, at most.
LEMMA LeftIsSmall ==
  ASSUME NEW a \in Int, NEW w, Weights(w)
  PROVE  Left(a, w) \in 0..Cardinality({i \in DOMAIN w : Remainders(a, w)[i] > 0})
<1> DEFINE D == DOMAIN w
           whole == Sigma(w)
           r == Remainders(a, w)
           h == Shares(a, w)
           P == {i \in D : r[i] > 0}
           one == [i \in D |-> IF i \in P THEN 1 ELSE 0]
           scaled == [i \in D |-> a * w[i]]
           bound == [i \in D |-> (whole - 1) * one[i]]
           zero == [i \in D |-> 0]
<1>1. /\ whole \in Nat \ {0} /\ Numbers(w) /\ Numbers(r) /\ Numbers(h) /\ Left(a, w) \in Int
      /\ DOMAIN w = D /\ DOMAIN r = D /\ DOMAIN h = D
      /\ \A i \in D : a * w[i] = whole * h[i] + r[i] /\ r[i] \in 0..(whole - 1)
                      /\ h[i] \in Int /\ w[i] \in Int
  BY SplitNumbers DEF Numbers
<1>2. IsFiniteSet(D) /\ IsFiniteSet(P) /\ Cardinality(P) \in Nat /\ Cardinality(D) \in Nat
  BY FS_Subset, FS_CardinalityType DEF Weights
<1>3. Left(a, w) = a - Sigma(h)
  BY DEF Left
<1>4. /\ Numbers(one) /\ DOMAIN one = D /\ \A i \in D : one[i] = IF i \in P THEN 1 ELSE 0
      /\ Sigma(one) = Cardinality(P)
  BY <1>2, SigmaCount DEF Numbers
<1>5. Numbers(scaled) /\ DOMAIN scaled = D /\ \A i \in D : scaled[i] = a * w[i]
  BY <1>1, <1>2 DEF Numbers
<1>6. Numbers(zero) /\ DOMAIN zero = D /\ \A i \in D : zero[i] = 0
  BY <1>2 DEF Numbers
<1> HIDE DEF one, scaled, r, h, whole, zero
<1>7. Numbers(bound) /\ DOMAIN bound = D /\ \A i \in D : bound[i] = (whole - 1) * one[i]
  BY <1>1, <1>2, <1>4 DEF Numbers
<1> HIDE DEF bound, P
<1>8. Sigma(scaled) = a * Sigma(w) + 0 * Sigma(w)
  BY <1>1, <1>5, SigmaLinear
<1>9. Sigma(scaled) = whole * Sigma(h) + 1 * Sigma(r)
  BY <1>1, <1>5, SigmaLinear
<1>10. Sigma(bound) = (whole - 1) * Sigma(one) + 0 * Sigma(one)
  BY <1>1, <1>4, <1>7, SigmaLinear
<1>11. Sigma(r) <= Sigma(bound)
  BY <1>1, <1>4, <1>7, SigmaMono DEF P
<1>12. Sigma(zero) = 0 * Sigma(one) + 0 * Sigma(one)
  BY <1>4, <1>6, SigmaLinear
<1>13. Sigma(zero) <= Sigma(r)
  BY <1>1, <1>6, SigmaMono
<1>14. Sigma(w) = whole /\ Sigma(h) \in Int /\ Sigma(r) \in Int /\ Sigma(one) \in Int
  BY <1>1, <1>4, SigmaInt DEF whole
<1>15. a * whole = whole * Sigma(h) + Sigma(r) /\ 0 <= Sigma(r)
       /\ Sigma(r) <= (whole - 1) * Cardinality(P)
  BY <1>1, <1>2, <1>4, <1>8, <1>9, <1>10, <1>11, <1>12, <1>13, <1>14
<1>16. whole * Left(a, w) = Sigma(r)
  BY <1>1, <1>3, <1>14, <1>15
<1>17. \A n \in Nat \ {0}, l \in Int, c \in Nat : 0 <= n * l /\ n * l <= (n - 1) * c => 0 <= l /\ l <= c
  OBVIOUS
<1>18. 0 <= Left(a, w) /\ Left(a, w) <= Cardinality(P)
  BY <1>1, <1>2, <1>15, <1>16, <1>17
<1> QED
  BY <1>1, <1>2, <1>18 DEF P, r

\* WeightedSplit gives out the amount exactly, each share rounded down or up.
LEMMA SplitIsExact ==
  ASSUME NEW a \in Int, NEW w, Weights(w)
  PROVE  /\ WeightedSplit(a, w) \in [DOMAIN w -> Int]
         /\ Sigma(WeightedSplit(a, w)) = a
         /\ \A i \in DOMAIN w :
              /\ WeightedSplit(a, w)[i] \in {Shares(a, w)[i], Shares(a, w)[i] + 1}
              /\ Remainders(a, w)[i] = 0 => WeightedSplit(a, w)[i] = Shares(a, w)[i]
<1> DEFINE D == DOMAIN w
           r == Remainders(a, w)
           h == Shares(a, w)
           left == Left(a, w)
           P == {i \in D : r[i] > 0}
           first == {i \in D : Cardinality(Ahead(r, i)) < left}
           one == [i \in D |-> IF i \in first THEN 1 ELSE 0]
           split == WeightedSplit(a, w)
<1>1. /\ Numbers(h) /\ DOMAIN h = D /\ left \in Int /\ left = a - Sigma(h)
      /\ r \in [D -> 0..(Sigma(w) - 1)] /\ r \in [D -> Int]
      /\ \A i \in D : h[i] \in Int
  BY SplitNumbers DEF Left
<1>2. D \in SUBSET Int /\ IsFiniteSet(D) /\ IsFiniteSet(P) /\ Cardinality(P) \in Nat /\ Cardinality(D) \in Nat
      /\ Cardinality(P) <= Cardinality(D)
  BY FS_Subset, FS_CardinalityType DEF Weights
<1>3. left \in 0..Cardinality(P)
  BY LeftIsSmall
<1>4. left \in 0..Cardinality(D)
  BY <1>1, <1>2, <1>3
<1>5. Cardinality(first) = left
  <2> HIDE DEF r, left, D
  <2> QED
    BY <1>1, <1>2, <1>4, RankedBefore
<1>6. /\ Numbers(one) /\ DOMAIN one = D /\ \A i \in D : one[i] = IF i \in first THEN 1 ELSE 0
      /\ Sigma(one) = Cardinality(first)
  BY <1>2, SigmaCount DEF Numbers
<1>7. split = [i \in D |-> h[i] + (IF Cardinality(Ahead(r, i)) < left THEN 1 ELSE 0)]
  BY SplitParts
<1> HIDE DEF one, split, h, r, left
<1>8. DOMAIN split = D /\ \A i \in D : split[i] = h[i] + one[i]
  BY <1>6, <1>7
<1> HIDE DEF first
<1>9. split \in [D -> Int] /\ Numbers(split)
  BY <1>1, <1>2, <1>6, <1>7, <1>8 DEF Numbers
<1>10. Sigma(split) = a
  <2>1. Sigma(split) = 1 * Sigma(h) + 1 * Sigma(one)
    <3>1. \A i \in D : split[i] = 1 * h[i] + 1 * one[i]
      BY <1>1, <1>6, <1>8 DEF Numbers
    <3> QED
      BY <1>1, <1>6, <1>8, <1>9, <3>1, SigmaLinear
  <2>2. Sigma(h) \in Int
    BY <1>1, SigmaInt
  <2> QED
    BY <1>1, <1>5, <1>6, <2>1, <2>2
<1>11. ASSUME NEW i \in D PROVE split[i] \in {h[i], h[i] + 1}
  BY <1>1, <1>6, <1>8
<1>12. ASSUME NEW i \in D, r[i] = 0 PROVE split[i] = h[i]
  <2>1. P \subseteq Ahead(r, i)
    BY <1>1, <1>12 DEF Ahead
  <2>2. Ahead(r, i) \subseteq D /\ IsFiniteSet(Ahead(r, i))
    BY <1>1, <1>2, FS_Subset DEF Ahead
  <2>3. Cardinality(P) <= Cardinality(Ahead(r, i)) /\ Cardinality(Ahead(r, i)) \in Nat
    BY <2>1, <2>2, FS_Subset, FS_CardinalityType
  <2>4. ~(Cardinality(Ahead(r, i)) < left)
    <3> HIDE DEF P
    <3> QED
      BY <1>1, <1>2, <1>3, <2>3
  <2>5. one[i] = 0
    BY <1>6, <2>4 DEF first
  <2> QED
    BY <1>1, <1>8, <2>5
<1> QED
  BY <1>9, <1>10, <1>11, <1>12 DEF split, h, r

\* An order the repository may read n rows back in.
Reorders(order, n) == order \in [1..n -> 1..n] /\ IsInjective(order)

\* An injective order of the lines is a permutation: each line comes once.
LEMMA OrderCovers ==
  ASSUME NEW n \in Nat, NEW order, Reorders(order, n)
  PROVE  /\ DOMAIN order = 1..n
         /\ \A k, l \in 1..n : order[k] = order[l] => k = l
         /\ \A i \in 1..n : \E k \in 1..n : order[k] = i
<1>1. order \in Injection(1..n, 1..n)
  BY DEF Reorders, Injection
<1>2. IsFiniteSet(1..n)
  BY FS_Interval
<1>3. order \in Surjection(1..n, 1..n)
  BY <1>1, <1>2, FS_Injection
<1> QED
  BY <1>3 DEF Reorders, Surjection, IsInjective

\* Where line i comes in an order, and the weights read in that order.
Line(order, i) == CHOOSE k \in DOMAIN order : order[k] = i
Read(s, order) == [k \in DOMAIN order |-> s.weights[order[k]]]

\* Distribution splits by the weights read, and gives each line its own.
LEMMA DistributionIs ==
  ASSUME NEW s, NEW order
  PROVE  Distribution(s, order) = [i \in DOMAIN order |-> WeightedSplit(s.amount, Read(s, order))[Line(order, i)]]
  BY DEF Distribution, Read, Line

\* A redistributed service over n lines.
IsSpread(s, n) ==
  s.amount \in Nat /\ s.weights \in [1..n -> Nat] /\ Sigma(s.weights) > 0

\* Whatever the order, the weights read are the weights, each found by its line.
LEMMA ReadWeights ==
  ASSUME NEW n \in Nat, NEW s, IsSpread(s, n), NEW order, Reorders(order, n)
  PROVE  /\ Weights(Read(s, order)) /\ DOMAIN Read(s, order) = 1..n
         /\ Sigma(Read(s, order)) = Sigma(s.weights) /\ Weights(s.weights)
         /\ \A i \in 1..n : Line(order, i) \in 1..n /\ order[Line(order, i)] = i
                            /\ Read(s, order)[Line(order, i)] = s.weights[i]
<1>1. /\ DOMAIN order = 1..n
      /\ \A k, l \in 1..n : order[k] = order[l] => k = l
      /\ \A i \in 1..n : \E k \in 1..n : order[k] = i
      /\ order \in [1..n -> 1..n]
  BY OrderCovers DEF Reorders
<1>2. IsFiniteSet(1..n) /\ 1..n \in SUBSET Int
  BY FS_Interval
<1>3. Numbers(s.weights) /\ DOMAIN s.weights = 1..n /\ Weights(s.weights)
  BY <1>2 DEF Numbers, IsSpread, Weights
<1>4. Sigma([k \in 1..n |-> s.weights[order[k]]]) = Sigma(s.weights)
  <2> DEFINE f == s.weights
             D == 1..n
  <2>1. /\ Numbers(f) /\ IsFiniteSet(D) /\ order \in [D -> DOMAIN f]
        /\ \A x, y \in D : order[x] = order[y] => x = y
        /\ \A z \in DOMAIN f : \E x \in D : order[x] = z
    BY <1>1, <1>2, <1>3
  <2> HIDE DEF f, D
  <2>2. Sigma([x \in D |-> f[order[x]]]) = Sigma(f)
    BY <2>1, SigmaRename
  <2> QED
    BY <2>2 DEF f, D
<1>5. Read(s, order) = [k \in 1..n |-> s.weights[order[k]]]
  BY <1>1 DEF Read
<1>6. \A i \in 1..n : Line(order, i) \in 1..n /\ order[Line(order, i)] = i
  BY <1>1 DEF Line
<1>7. Weights(Read(s, order))
  <2>1. ASSUME NEW k \in 1..n PROVE Read(s, order)[k] \in Nat
    <3>1. order[k] \in 1..n /\ s.weights \in [1..n -> Nat]
      BY <1>1 DEF IsSpread
    <3>2. Read(s, order)[k] = s.weights[order[k]]
      BY <1>5
    <3> QED
      BY <3>1, <3>2
  <2> QED
    BY <1>2, <1>4, <1>5, <2>1 DEF Weights, IsSpread
<1> QED
  BY <1>3, <1>4, <1>5, <1>6, <1>7

\* What a line gets of a redistributed service, whatever order its weights come back in.
LEMMA DistributionExact ==
  ASSUME NEW n \in Nat, NEW s, IsSpread(s, n), NEW order, Reorders(order, n)
  PROVE  /\ Distribution(s, order) \in [1..n -> Int] /\ Sigma(Distribution(s, order)) = s.amount
         /\ \A i \in 1..n :
              LET proportion == (s.amount * s.weights[i]) \div Sigma(s.weights)
                  remainder == (s.amount * s.weights[i]) % Sigma(s.weights)
              IN /\ Distribution(s, order)[i] \in {proportion, proportion + 1}
                 /\ remainder = 0 => Distribution(s, order)[i] = proportion
<1> DEFINE w == Read(s, order)
           f == WeightedSplit(s.amount, w)
           p == [i \in 1..n |-> Line(order, i)]
           d == Distribution(s, order)
<1>1. /\ Weights(w) /\ DOMAIN w = 1..n /\ Sigma(w) = Sigma(s.weights) /\ s.amount \in Int
      /\ \A i \in 1..n : Line(order, i) \in 1..n /\ order[Line(order, i)] = i
                         /\ w[Line(order, i)] = s.weights[i]
  <2>1. s.amount \in Int
    BY DEF IsSpread
  <2>2. /\ Weights(Read(s, order)) /\ DOMAIN Read(s, order) = 1..n
        /\ Sigma(Read(s, order)) = Sigma(s.weights) /\ Weights(s.weights)
        /\ \A i \in 1..n : Line(order, i) \in 1..n /\ order[Line(order, i)] = i
                           /\ Read(s, order)[Line(order, i)] = s.weights[i]
    BY ReadWeights, SMTT(40)
  <2> QED
    BY <2>1, <2>2
<1>2. DOMAIN order = 1..n /\ (\A k, l \in 1..n : order[k] = order[l] => k = l) /\ order \in [1..n -> 1..n]
  BY OrderCovers DEF Reorders
<1>3. d = [i \in 1..n |-> f[Line(order, i)]]
  BY <1>2, DistributionIs
<1> HIDE DEF w, d
<1>4. /\ f \in [1..n -> Int] /\ Sigma(f) = s.amount
      /\ \A k \in 1..n :
           /\ f[k] \in {Shares(s.amount, w)[k], Shares(s.amount, w)[k] + 1}
           /\ Remainders(s.amount, w)[k] = 0 => f[k] = Shares(s.amount, w)[k]
  <2> DEFINE a == s.amount
  <2>1. a \in Int /\ Weights(w) /\ DOMAIN w = 1..n
    BY <1>1
  <2> HIDE DEF a
  <2>2. /\ WeightedSplit(a, w) \in [1..n -> Int] /\ Sigma(WeightedSplit(a, w)) = a
        /\ \A k \in 1..n :
             /\ WeightedSplit(a, w)[k] \in {Shares(a, w)[k], Shares(a, w)[k] + 1}
             /\ Remainders(a, w)[k] = 0 => WeightedSplit(a, w)[k] = Shares(a, w)[k]
    BY <2>1, SplitIsExact
  <2> QED
    BY <2>2 DEF a
<1>5. Sigma(d) = s.amount
  <2> DEFINE D == 1..n
  <2>1. IsFiniteSet(D)
    BY FS_Interval
  <2>2. Numbers(f) /\ p \in [D -> DOMAIN f]
    BY <1>1, <1>4, <2>1 DEF Numbers
  <2>3. \A x, y \in D : p[x] = p[y] => x = y
    BY <1>1
  <2>4. \A z \in DOMAIN f : \E x \in D : p[x] = z
    <3>1. ASSUME NEW z \in D PROVE order[z] \in D /\ p[order[z]] = z
      BY <1>1, <1>2
    <3> QED
      BY <1>4, <3>1
  <2>5. d = [x \in D |-> f[p[x]]]
    BY <1>3
  <2> HIDE DEF f, p, D
  <2>6. Sigma([x \in D |-> f[p[x]]]) = Sigma(f)
    BY <2>1, <2>2, <2>3, <2>4, SigmaRename
  <2> QED
    BY <1>4, <2>5, <2>6
<1>6. ASSUME NEW i \in 1..n
      PROVE  /\ Shares(s.amount, w)[Line(order, i)] = (s.amount * s.weights[i]) \div Sigma(s.weights)
             /\ Remainders(s.amount, w)[Line(order, i)] = (s.amount * s.weights[i]) % Sigma(s.weights)
  BY <1>1 DEF Shares, Remainders
<1> HIDE DEF f
<1>7. d \in [1..n -> Int] /\ \A i \in 1..n : d[i] = f[Line(order, i)]
  BY <1>1, <1>3, <1>4
<1>8. ASSUME NEW i \in 1..n
      PROVE  LET proportion == (s.amount * s.weights[i]) \div Sigma(s.weights)
                 remainder == (s.amount * s.weights[i]) % Sigma(s.weights)
             IN /\ d[i] \in {proportion, proportion + 1}
                /\ remainder = 0 => d[i] = proportion
  <2>1. Line(order, i) \in 1..n
    BY <1>1
  <2> DEFINE k == Line(order, i)
             proportion == (s.amount * s.weights[i]) \div Sigma(s.weights)
             remainder == (s.amount * s.weights[i]) % Sigma(s.weights)
  <2>2. Shares(s.amount, w)[k] = proportion /\ Remainders(s.amount, w)[k] = remainder
    BY <1>6
  <2>3. d[i] = f[k] /\ k \in 1..n
    BY <1>7, <2>1
  <2> HIDE DEF k, proportion, remainder
  <2>4. d[i] \in {proportion, proportion + 1} /\ (remainder = 0 => d[i] = proportion)
    BY <1>4, <2>2, <2>3
  <2> QED
    BY <2>4 DEF proportion, remainder
<1> QED
  BY <1>5, <1>7, <1>8 DEF d

\* A redistributed service costs its amount exactly in every order.
LEMMA SharesAreExact ==
  ASSUME NEW n \in Nat, NEW s, IsSpread(s, n), NEW order, Reorders(order, n)
  PROVE  SharesExactly(s, order) /\ Distribution(s, order) \in [1..n -> Nat]
<1> DEFINE d == Distribution(s, order)
           whole == Sigma(s.weights)
           a == s.amount
<1>1. /\ d \in [1..n -> Int] /\ Sigma(d) = a
      /\ \A i \in 1..n :
           /\ d[i] \in {(a * s.weights[i]) \div whole, (a * s.weights[i]) \div whole + 1}
           /\ (a * s.weights[i]) % whole = 0 => d[i] = (a * s.weights[i]) \div whole
  BY DistributionExact
<1>2. a \in Nat /\ s.weights \in [1..n -> Nat] /\ whole \in Nat \ {0}
  <2>1. Weights(s.weights) /\ a \in Int
    BY ReadWeights DEF IsSpread
  <2>2. Sigma(s.weights) \in Nat \ {0}
    BY <2>1, SplitNumbers
  <2> QED
    BY <2>2 DEF IsSpread
<1> HIDE DEF d, whole
<1>3. ASSUME NEW i \in 1..n
      PROVE  /\ (a * s.weights[i]) \div whole \in Nat
             /\ s.weights[i] = 0 => (a * s.weights[i]) \div whole = 0 /\ (a * s.weights[i]) % whole = 0
  <2> DEFINE w == s.weights[i]
  <2>1. w \in Nat /\ a * w \in Nat
    BY <1>2
  <2> HIDE DEF w, a
  <2>2. (a * w) \div whole \in Nat
    <3> DEFINE p == a * w
    <3>1. p \in Nat
      BY <2>1
    <3> HIDE DEF p
    <3>2. /\ p \div whole \in Int /\ p = whole * (p \div whole) + (p % whole)
          /\ 0 <= p % whole /\ p % whole < whole /\ p % whole \in Int
      BY <1>2, <3>1, Division
    <3>3. \A q \in Int, m \in Int : 0 <= whole * q + m /\ m < whole => 0 <= q
      BY <1>2
    <3>4. p \div whole \in Nat
      BY <3>1, <3>2, <3>3
    <3> QED
      BY <3>4 DEF p
  <2>3. w = 0 => (a * w) \div whole = 0 /\ (a * w) % whole = 0
    <3>1. a \in Nat
      BY <1>2 DEF a
    <3>2. w = 0 => a * w = 0
      BY <3>1
    <3>3. 0 \div whole = 0 /\ 0 % whole = 0
      BY <1>2
    <3> QED
      BY <3>2, <3>3
  <2> QED
    BY <2>2, <2>3 DEF w
<1>4. d \in [1..n -> Nat]
  BY <1>1, <1>3
<1>5. SharesExactly(s, order)
  <2>1. DOMAIN d = 1..n
    BY <1>1
  <2>2. ASSUME NEW i \in DOMAIN d
        PROVE  LET proportion == (a * s.weights[i]) \div whole
               IN /\ d[i] \in {proportion, proportion + 1}
                  /\ s.weights[i] = 0 => d[i] = 0
    BY <1>1, <1>3, <2>1
  <2> QED
    BY <1>1, <2>2 DEF SharesExactly, d, whole
<1> QED
  BY <1>4, <1>5 DEF d

(* The amounts of a body. *)

\* Rounding keeps a natural number natural.
LEMMA HalfUpNat ==
  ASSUME NEW n \in Nat, NEW d \in Nat, 0 < d
  PROVE  HalfUp(n, d) \in Nat
<1> DEFINE p == 2 * n + d
           q == 2 * d
<1>1. p \in Nat /\ q \in Nat /\ 0 < q
  OBVIOUS
<1> HIDE DEF p, q
<1>2. p \div q \in Int /\ p = q * (p \div q) + (p % q) /\ 0 <= p % q /\ p % q < q /\ p % q \in Int
  BY <1>1, Division
<1>3. \A k \in Int, m \in Int : 0 <= q * k + m /\ m < q => 0 <= k
  BY <1>1
<1>4. p \div q \in Nat
  BY <1>1, <1>2, <1>3
<1> QED
  BY <1>4 DEF HalfUp, p, q

\* A division rounded half up is off by half the divisor at most.
LEMMA HalfUpRounds ==
  ASSUME NEW n \in Int, NEW d \in Nat, 0 < d
  PROVE  /\ HalfUp(n, d) \in Int
         /\ d * HalfUp(n, d) - n \in -(d \div 2)..(d \div 2)
<1> DEFINE p == 2 * n + d
           q == 2 * d
           h == p \div q
           m == p % q
<1>1. p \in Int /\ q \in Nat /\ 0 < q
  OBVIOUS
<1> HIDE DEF p, q
<1>2. h \in Int /\ p = q * h + m /\ 0 <= m /\ m < q /\ m \in Int
  BY <1>1, Division
<1>3. HalfUp(n, d) = h
  BY DEF HalfUp, p, q
<1> HIDE DEF h, m
<1>4. q * h = 2 * (d * h) /\ d * h \in Int
  BY <1>2 DEF q
<1>5. 2 * (d * h) = 2 * n + d - m
  BY <1>1, <1>2, <1>4 DEF p
<1>6. d \div 2 \in Nat /\ 2 * (d \div 2) <= d /\ d < 2 * (d \div 2) + 2
  OBVIOUS
<1>7. m < 2 * d
  BY <1>2 DEF q
<1> DEFINE x == d * h
<1>8. x \in Int /\ 2 * x = 2 * n + d - m
  BY <1>4, <1>5
<1> HIDE DEF x
<1>9. x - n <= d \div 2 /\ -(d \div 2) <= x - n
  BY <1>2, <1>6, <1>7, <1>8
<1> QED
  BY <1>2, <1>3, <1>6, <1>8, <1>9 DEF x

\* So does rounding up to whole packages.
LEMMA CeilToNat ==
  ASSUME NEW n \in Nat, NEW d \in Nat, 0 < d
  PROVE  CeilTo(n, d) \in Nat
<1> DEFINE p == n + d - 1
<1>1. p \in Nat
  OBVIOUS
<1> HIDE DEF p
<1>2. p \div d \in Int /\ p = d * (p \div d) + (p % d) /\ 0 <= p % d /\ p % d < d /\ p % d \in Int
  BY <1>1, Division
<1>3. \A k \in Int, m \in Int : 0 <= d * k + m /\ m < d => 0 <= k
  OBVIOUS
<1>4. p \div d \in Nat
  BY <1>1, <1>2, <1>3
<1>5. (p \div d) * d \in Nat
  BY <1>4
<1> QED
  BY <1>5 DEF CeilTo, p

\* The quantities and the total of a line are natural numbers.
LEMMA LineNumbers ==
  ASSUME NEW l, IsLineItem(l)
  PROVE  BilledQuantity(l) \in Nat /\ l.unitPrice \in Nat /\ LineTotal(l) \in Nat
<1>1. /\ l.quantity \in Nat /\ l.unitPrice \in Nat /\ l.wasteTenths \in Nat /\ l.packaging \in Nat
      /\ l.area \in BOOLEAN /\ l.roundUp \in BOOLEAN
  BY DEF IsLineItem
<1>2. NeededQuantity(l) \in Nat
  <2>1. \A a, b \in Nat : a * b \in Nat
    OBVIOUS
  <2>2. (IF l.area THEN 10 + l.wasteTenths ELSE 10) \in Nat
    BY <1>1
  <2> QED
    BY <1>1, <2>1, <2>2 DEF NeededQuantity
<1>3. BilledQuantity(l) \in Nat
  <2>1. CASE l.roundUp /\ l.packaging > 0
    <3>1. 10 * l.packaging \in Nat /\ 0 < 10 * l.packaging
      BY <1>1, <2>1
    <3>2. CeilTo(NeededQuantity(l), 10 * l.packaging) \in Nat
      BY <1>2, <3>1, CeilToNat
    <3> QED
      BY <2>1, <3>2 DEF BilledQuantity
  <2>2. CASE ~(l.roundUp /\ l.packaging > 0)
    BY <1>2, <2>2 DEF BilledQuantity
  <2> QED
    BY <2>1, <2>2
<1>4. BilledQuantity(l) * l.unitPrice \in Nat
  BY <1>1, <1>3
<1>5. LineTotal(l) \in Nat
  BY <1>4, HalfUpNat DEF LineTotal
<1> QED
  BY <1>1, <1>3, <1>5

\* A service as its rows hold it.
GoodService(s, n) ==
  /\ s = [k \in DOMAIN s |-> s[k]]
  /\ s.amount \in Nat /\ s.visible \in BOOLEAN /\ s.weights \in [1..n -> Nat]
  /\ ~s.visible => Sigma(s.weights) > 0

\* What every body has, and what a body of mode manuel has on top of it.
Shape(b) ==
  /\ {"mode", "lines", "services", "remises", "reverse", "from", "liable", "rate"} \subseteq DOMAIN b
  /\ b.mode \in {"GUIDED", "MANUAL"} /\ b.rate \in Int
  /\ b.mode = "MANUAL" =>
       /\ {"rows", "subtotal", "vat", "total"} \subseteq DOMAIN b
       /\ Numbers(b.rows) /\ b.subtotal \in Int /\ b.vat \in Int /\ b.total \in Int
\* Lines and discounts of a body of n lines.
LinesOf(b, n) ==
  /\ DOMAIN b.lines = 1..n /\ Len(b.lines) = n
  /\ \A i \in 1..n : IsLineItem(b.lines[i])
  /\ IsFiniteSet(DOMAIN b.services) /\ Numbers(b.remises)

\* A body that the boundary let through, or that was derived from one.
GoodOf(b, n) ==
  Shape(b) /\ LinesOf(b, n) /\ \A j \in DOMAIN b.services : GoodService(b.services[j], n)
GoodBody(b) == \E n \in Nat : GoodOf(b, n)

\* The lines before any service, and the subtotal that no order appears in.
Own(b) == Sigma([i \in DOMAIN b.lines |-> LineTotal(b.lines[i])])
GuidedSubtotal(b) ==
  Max({0, Own(b) + Amounts(b, SpreadServices(b)) + Amounts(b, Visible(b)) - Sigma(b.remises)})

\* The orders of a body are the permutations of its lines.
LEMMA OrdersOf ==
  ASSUME NEW n \in Nat, NEW b, GoodOf(b, n)
  PROVE  /\ \A order : order \in Orders(b) <=> Reorders(order, n)
         /\ InPosition(b) \in Orders(b)
<1>1. DOMAIN b.lines = 1..n
  BY DEF GoodOf, LinesOf
<1>2. ASSUME NEW order PROVE order \in Orders(b) <=> Reorders(order, n)
  BY <1>1 DEF Orders, Reorders
<1>3. InPosition(b) \in Orders(b)
  BY DEF InPosition, Orders, IsInjective
<1> QED
  BY <1>2, <1>3

\* The services of a body, apart and folded in.
LEMMA ServicesOf ==
  ASSUME NEW n \in Nat, NEW b, GoodOf(b, n)
  PROVE  /\ IsFiniteSet(SpreadServices(b)) /\ IsFiniteSet(Visible(b))
         /\ SpreadServices(b) \subseteq DOMAIN b.services
         /\ \A j \in SpreadServices(b) : IsSpread(b.services[j], n)
         /\ Amounts(b, SpreadServices(b)) \in Int /\ Amounts(b, Visible(b)) \in Int
<1>1. IsFiniteSet(DOMAIN b.services) /\ \A j \in DOMAIN b.services : GoodService(b.services[j], n)
  BY DEF GoodOf, LinesOf
<1>2. /\ SpreadServices(b) \subseteq DOMAIN b.services /\ Visible(b) \subseteq DOMAIN b.services
      /\ \A j \in SpreadServices(b) : ~b.services[j].visible
  BY DEF SpreadServices, Visible
<1>3. IsFiniteSet(SpreadServices(b)) /\ IsFiniteSet(Visible(b))
  BY <1>1, <1>2, FS_Subset
<1>4. \A j \in SpreadServices(b) : IsSpread(b.services[j], n)
  BY <1>1, <1>2 DEF GoodService, IsSpread
<1>5. ASSUME NEW S \in SUBSET DOMAIN b.services PROVE Amounts(b, S) \in Int
  <2> DEFINE f == [j \in S |-> b.services[j].amount]
  <2>1. Numbers(f)
    <3>1. IsFiniteSet(S) /\ \A j \in S : b.services[j].amount \in Nat
      BY <1>1, FS_Subset DEF GoodService
    <3> QED
      BY <3>1 DEF Numbers
  <2> HIDE DEF f
  <2>2. Sigma(f) \in Int
    BY <2>1, SigmaInt
  <2> QED
    BY <2>2 DEF Amounts, f
<1> QED
  BY <1>2, <1>3, <1>4, <1>5

\* The totals of the lines, and their sum: the lines and the services folded in.
LEMMA LineTotalsOf ==
  ASSUME NEW n \in Nat, NEW b, GoodOf(b, n), NEW order, Reorders(order, n)
  PROVE  /\ LineTotals(b, order) \in [1..n -> Nat] /\ Own(b) \in Int
         /\ \A i \in 1..n : LineTotals(b, order)[i]
              = LineTotal(b.lines[i])
                + Sigma([j \in SpreadServices(b) |-> Distribution(b.services[j], order)[i]])
         /\ Sigma(LineTotals(b, order)) = Own(b) + Amounts(b, SpreadServices(b))
<1> DEFINE D == 1..n
           S == SpreadServices(b)
           share == [j \in S |-> Distribution(b.services[j], order)]
           own == [i \in D |-> LineTotal(b.lines[i])]
           folded == [i \in D |-> Sigma([j \in S |-> share[j][i]])]
           amount == [j \in S |-> b.services[j].amount]
           lines == LineTotals(b, order)
<1>1. IsFiniteSet(D) /\ IsFiniteSet(S) /\ DOMAIN b.lines = D /\ \A i \in D : IsLineItem(b.lines[i])
  <2>1. IsFiniteSet(S)
    BY ServicesOf
  <2>2. IsFiniteSet(D)
    BY FS_Interval
  <2> QED
    BY <2>1, <2>2 DEF GoodOf, LinesOf
<1>2. ASSUME NEW j \in S
      PROVE  share[j] \in [D -> Nat] /\ Sigma(share[j]) = amount[j] /\ amount[j] \in Nat
  <2>1. IsSpread(b.services[j], n)
    BY ServicesOf
  <2>2. Distribution(b.services[j], order) \in [1..n -> Nat]
    BY <2>1, SharesAreExact
  <2>3. Sigma(Distribution(b.services[j], order)) = b.services[j].amount
    BY <2>1, DistributionExact
  <2> QED
    BY <2>1, <2>2, <2>3 DEF IsSpread
<1>3. share = [j \in S |-> share[j]] /\ DOMAIN share = S
  OBVIOUS
<1>4. lines = [i \in D |-> LineTotal(b.lines[i]) + Sigma([j \in S |-> share[j][i]])]
  BY <1>1 DEF LineTotals
<1>5. Numbers(own) /\ DOMAIN own = D /\ \A i \in D : own[i] = LineTotal(b.lines[i]) /\ own[i] \in Nat
  BY <1>1, LineNumbers DEF Numbers
<1>6. Own(b) = Sigma(own)
  BY <1>1 DEF Own
<1>7. Amounts(b, S) = Sigma(amount)
  BY DEF Amounts
<1>8. amount = [j \in S |-> Sigma(share[j])]
  BY <1>2
<1>9. ASSUME NEW j \in S PROVE share[j] = [i \in D |-> share[j][i]]
  BY <1>2
<1>10. ASSUME NEW i \in D PROVE folded[i] = Sigma([j \in S |-> share[j][i]]) /\ folded[i] \in Nat
  <2> DEFINE g == [j \in S |-> share[j][i]]
             zero == [j \in S |-> 0]
  <2>1. Numbers(g) /\ DOMAIN g = S /\ \A j \in S : g[j] \in Nat
    BY <1>1, <1>2 DEF Numbers
  <2>2. Numbers(zero) /\ DOMAIN zero = S /\ \A j \in S : zero[j] = 0
    BY <1>1 DEF Numbers
  <2>3. folded[i] = Sigma(g)
    OBVIOUS
  <2> HIDE DEF g, zero, share, S
  <2>4. Sigma(zero) <= Sigma(g)
    BY <2>1, <2>2, SigmaMono
  <2>5. Sigma(zero) = 0 * Sigma(g) + 0 * Sigma(g)
    BY <2>1, <2>2, SigmaLinear
  <2>6. Sigma(g) \in Int
    BY <2>1, SigmaInt
  <2>7. Sigma(g) \in Nat
    BY <2>4, <2>5, <2>6
  <2> QED
    BY <2>3, <2>7 DEF g
<1>11. Numbers(folded) /\ DOMAIN folded = D
  BY <1>1, <1>10 DEF Numbers
<1> HIDE DEF share, amount
<1>12. Sigma(amount) = Sigma(folded)
  <2> DEFINE column == [i \in D |-> [j \in S |-> share[j][i]]]
  <2>1. /\ \A i \in D : DOMAIN column[i] = S /\ folded[i] = Sigma(column[i])
        /\ \A j \in S, i \in D : column[i][j] = share[j][i]
    OBVIOUS
  <2>2. /\ \A j \in S : DOMAIN share[j] = D /\ amount[j] = Sigma(share[j])
        /\ \A j \in S, i \in D : share[j][i] \in Int
    BY <1>2
  <2>3. DOMAIN amount = S /\ DOMAIN folded = D
    BY <1>11 DEF amount
  <2> HIDE DEF column, folded, S, D
  <2>4. Edges(amount, folded, share, column)
    BY <1>1, <2>1, <2>2, <2>3 DEF Edges
  <2> QED
    BY <2>4, SigmaTurned
<1>13. Sigma(folded) = Sigma(amount)
  BY <1>12
<1> HIDE DEF own, folded, lines
<1>14. /\ DOMAIN lines = D
       /\ \A i \in D : lines[i] = own[i] + folded[i] /\ lines[i] \in Nat
                       /\ lines[i] = 1 * own[i] + 1 * folded[i]
  BY <1>4, <1>5, <1>10
<1>15. lines \in [D -> Nat] /\ Numbers(lines)
  BY <1>1, <1>4, <1>14 DEF Numbers
<1>16. Sigma(lines) = 1 * Sigma(own) + 1 * Sigma(folded)
  BY <1>5, <1>11, <1>14, <1>15, SigmaLinear
<1>17. Sigma(own) \in Int /\ Sigma(folded) \in Int
  BY <1>5, <1>11, SigmaInt
<1>18. Sigma(lines) = Own(b) + Amounts(b, S)
  BY <1>6, <1>7, <1>13, <1>16, <1>17
<1>19. ASSUME NEW i \in D
       PROVE  lines[i] = LineTotal(b.lines[i])
                + Sigma([j \in S |-> Distribution(b.services[j], order)[i]])
  <2>1. [j \in S |-> share[j][i]] = [j \in S |-> Distribution(b.services[j], order)[i]]
    BY DEF share
  <2> QED
    BY <1>4, <2>1
<1> QED
  BY <1>6, <1>15, <1>17, <1>18, <1>19 DEF lines

\* What a body costs before VAT, whatever the VAT and the order.
Before(b) ==
  IF b.mode = "MANUAL" THEN OrElse(b.subtotal, Sigma(b.rows)) ELSE GuidedSubtotal(b)

\* What VatOf and the rows hold.
IsVat(v) == v.applicable \in BOOLEAN /\ v.rate \in Int

\* The floor of an over-discounted subtotal.
LEMMA MaxWithZero ==
  ASSUME NEW x \in Int
  PROVE  Max({0, x}) = IF x > 0 THEN x ELSE 0
  BY DEF Max

\* The subtotal of a guided body is a natural number.
LEMMA GuidedSubtotalInt ==
  ASSUME NEW b, GoodBody(b)
  PROVE  GuidedSubtotal(b) \in Nat
<1>1. PICK n \in Nat : GoodOf(b, n)
  BY DEF GoodBody
<1>2. Own(b) \in Int
  <2>1. InPosition(b) \in Orders(b) /\ (InPosition(b) \in Orders(b) => Reorders(InPosition(b), n))
    BY <1>1, OrdersOf
  <2> QED
    BY <1>1, <2>1, LineTotalsOf
<1>3. Amounts(b, SpreadServices(b)) \in Int /\ Amounts(b, Visible(b)) \in Int
  BY <1>1, ServicesOf
<1>4. Sigma(b.remises) \in Int
  BY <1>1, SigmaInt DEF GoodOf, LinesOf
<1>5. Own(b) + Amounts(b, SpreadServices(b)) + Amounts(b, Visible(b)) - Sigma(b.remises) \in Int
  BY <1>2, <1>3, <1>4
<1> QED
  BY <1>5, MaxWithZero DEF GuidedSubtotal

\* What a body costs before VAT is a number.
LEMMA BeforeInt ==
  ASSUME NEW b, GoodBody(b)
  PROVE  Before(b) \in Int
<1>1. CASE b.mode = "MANUAL"
  <2>1. b.subtotal \in Int /\ Numbers(b.rows)
    BY <1>1 DEF GoodBody, GoodOf, Shape
  <2>2. Sigma(b.rows) \in Int
    BY <2>1, SigmaInt
  <2> QED
    BY <1>1, <2>1, <2>2 DEF Before, OrElse
<1>2. CASE b.mode # "MANUAL"
  BY <1>2, GuidedSubtotalInt DEF Before
<1> QED
  BY <1>1, <1>2

\* The totals of a guided body are the same in every order of its weights.
LEMMA GuidedTotalsAre ==
  ASSUME NEW b, GoodBody(b), NEW order \in Orders(b), NEW vat
  PROVE  GuidedTotals(b, vat, order) = Totals(GuidedSubtotal(b), vat)
<1>1. PICK n \in Nat : GoodOf(b, n)
  BY DEF GoodBody
<1>2. Reorders(order, n)
  BY <1>1, OrdersOf
<1>3. Sigma(LineTotals(b, order)) = Own(b) + Amounts(b, SpreadServices(b))
  BY <1>1, <1>2, LineTotalsOf
<1> QED
  BY <1>3 DEF GuidedTotals, GuidedSubtotal

\* The totals of a body do not depend on the order its weights are read in, nor its
\* subtotal on the VAT.
LEMMA BodyTotalsAre ==
  ASSUME NEW b, GoodBody(b), NEW order \in Orders(b), NEW vat
  PROVE  /\ BodyTotals(b, vat, order) = BodyTotals(b, vat, InPosition(b))
         /\ BodyTotals(b, vat, order).subtotal = Before(b)
<1>1. InPosition(b) \in Orders(b)
  BY OrdersOf DEF GoodBody
<1>2. CASE b.mode = "MANUAL"
  BY <1>2 DEF BodyTotals, ManualTotals, Before
<1>3. CASE b.mode # "MANUAL"
  <2>1. /\ GuidedTotals(b, vat, order) = Totals(GuidedSubtotal(b), vat)
        /\ GuidedTotals(b, vat, InPosition(b)) = Totals(GuidedSubtotal(b), vat)
    BY <1>1, GuidedTotalsAre
  <2>2. Totals(GuidedSubtotal(b), vat).subtotal = GuidedSubtotal(b)
    BY DEF Totals
  <2> QED
    BY <1>3, <2>1, <2>2 DEF BodyTotals, Before
<1> QED
  BY <1>2, <1>3

\* VAT is a number.
LEMMA VatInt ==
  ASSUME NEW s \in Int, NEW vat, IsVat(vat)
  PROVE  VatAmount(s, vat) \in Int
<1> DEFINE p == s * vat.rate
<1>1. p \in Int /\ 10000 \in Nat /\ 0 < 10000
  BY DEF IsVat
<1> HIDE DEF p
<1>2. HalfUp(p, 10000) \in Int
  BY <1>1, HalfUpRounds
<1> QED
  BY <1>2 DEF VatAmount, p

\* So are the totals of every body.
LEMMA BodyTotalsTyped ==
  ASSUME NEW b, GoodBody(b), NEW order \in Orders(b), NEW vat, IsVat(vat)
  PROVE  IsTotals(BodyTotals(b, vat, order))
<1>1. Before(b) \in Int
  BY BeforeInt
<1>2. VatAmount(Before(b), vat) \in Int
  BY <1>1, VatInt
<1>3. CASE b.mode = "MANUAL"
  <2>1. b.vat \in Int /\ b.total \in Int
    BY <1>3 DEF GoodBody, GoodOf, Shape
  <2> DEFINE s == Before(b)
             tax == OrElse(b.vat, VatAmount(s, vat))
  <2>2. s \in Int /\ tax \in Int
    BY <1>1, <1>2, <2>1 DEF OrElse
  <2>3. BodyTotals(b, vat, order) = [subtotal |-> s, vat |-> tax, total |-> OrElse(b.total, s + tax)]
    BY <1>3 DEF BodyTotals, ManualTotals, Before
  <2> HIDE DEF s, tax
  <2>4. OrElse(b.total, s + tax) \in Int
    BY <2>1, <2>2 DEF OrElse
  <2> QED
    BY <2>2, <2>3, <2>4 DEF IsTotals
<1>4. CASE b.mode # "MANUAL"
  <2>1. BodyTotals(b, vat, order) = Totals(Before(b), vat)
    BY <1>4, GuidedTotalsAre DEF BodyTotals, Before
  <2> QED
    BY <1>1, <1>2, <2>1 DEF IsTotals, Totals
<1> QED
  BY <1>3, <1>4

\* Two bodies that say the same, the weights of their redistributed services and what
\* was typed over their totals apart.
SameAmounts(b, c) ==
  /\ b.mode = c.mode /\ b.lines = c.lines /\ b.remises = c.remises
  /\ DOMAIN b.services = DOMAIN c.services
  /\ \A j \in DOMAIN b.services : /\ b.services[j].amount = c.services[j].amount
                                  /\ b.services[j].visible = c.services[j].visible
  /\ b.mode = "MANUAL" => b.rows = c.rows
SameOverrides(b, c) ==
  b.mode = "MANUAL" => b.subtotal = c.subtotal /\ b.vat = c.vat /\ b.total = c.total

\* Two bodies of the same amounts have the same totals, whatever their weights, when
\* the same was typed over them.
LEMMA SameAmountsSameTotals ==
  ASSUME NEW b, GoodBody(b), NEW c, GoodBody(c), SameAmounts(b, c)
  PROVE  /\ Orders(b) = Orders(c) /\ InPosition(b) = InPosition(c)
         /\ Visible(b) = Visible(c) /\ SpreadServices(b) = SpreadServices(c)
         /\ SameOverrides(b, c) =>
              /\ Before(b) = Before(c)
              /\ \A vat : BodyTotals(b, vat, InPosition(b)) = BodyTotals(c, vat, InPosition(c))
<1>1. Orders(b) = Orders(c) /\ InPosition(b) = InPosition(c)
  BY DEF SameAmounts, Orders, InPosition
<1>2. Visible(b) = Visible(c) /\ SpreadServices(b) = SpreadServices(c)
  BY DEF SameAmounts, Visible, SpreadServices
<1>3. Own(b) = Own(c) /\ Sigma(b.remises) = Sigma(c.remises)
  BY DEF SameAmounts, Own
<1>4. ASSUME NEW S \in SUBSET DOMAIN b.services PROVE Amounts(b, S) = Amounts(c, S)
  <2>1. [j \in S |-> b.services[j].amount] = [j \in S |-> c.services[j].amount]
    BY DEF SameAmounts
  <2> QED
    BY <2>1 DEF Amounts
<1>5. Visible(b) \in SUBSET DOMAIN b.services /\ SpreadServices(b) \in SUBSET DOMAIN b.services
  BY DEF Visible, SpreadServices
<1>6. GuidedSubtotal(b) = GuidedSubtotal(c)
  BY <1>2, <1>3, <1>4, <1>5 DEF GuidedSubtotal
<1>7. SameOverrides(b, c) => Before(b) = Before(c)
  BY <1>6 DEF Before, SameAmounts, SameOverrides
<1>8. ASSUME SameOverrides(b, c), NEW vat
      PROVE  BodyTotals(b, vat, InPosition(b)) = BodyTotals(c, vat, InPosition(c))
  <2>1. CASE b.mode = "MANUAL"
    BY <1>8, <2>1 DEF BodyTotals, ManualTotals, SameAmounts, SameOverrides
  <2>2. CASE b.mode # "MANUAL"
    <3>1. InPosition(b) \in Orders(b) /\ InPosition(c) \in Orders(c)
      BY OrdersOf DEF GoodBody
    <3>2. /\ GuidedTotals(b, vat, InPosition(b)) = Totals(GuidedSubtotal(b), vat)
          /\ GuidedTotals(c, vat, InPosition(c)) = Totals(GuidedSubtotal(c), vat)
      BY <3>1, GuidedTotalsAre
    <3> QED
      BY <1>6, <2>2, <3>2 DEF BodyTotals, SameAmounts
  <2> QED
    BY <2>1, <2>2
<1> QED
  BY <1>1, <1>2, <1>7, <1>8

\* What a request says of a service: its weights are expanded when it is read.
TypedService(s, n) ==
  /\ s.amount \in Nat /\ s.visible \in BOOLEAN
  /\ s.strategy = "EQUAL" \/ (s.weights \in Seq(Nat) /\ Len(s.weights) >= n)

\* A request that the boundary lets through.
GoodRequest(r) ==
  /\ Len(r.lines) \in Nat /\ Shape(r) /\ LinesOf(r, Len(r.lines))
  /\ \A j \in DOMAIN r.services : TypedService(r.services[j], Len(r.lines))

\* Expanding the weights touches nothing but the services.
LEMMA ExpandedAre ==
  ASSUME NEW r, GoodRequest(r)
  PROVE  /\ DOMAIN Expanded(r) = DOMAIN r
         /\ \A k \in DOMAIN r \ {"services"} : Expanded(r)[k] = r[k]
         /\ Expanded(r).mode = r.mode /\ Expanded(r).lines = r.lines
         /\ Expanded(r).remises = r.remises /\ Expanded(r).from = r.from
         /\ DOMAIN Expanded(r).services = DOMAIN r.services
         /\ \A j \in DOMAIN r.services :
              /\ Expanded(r).services[j] = Expand(r.services[j], Len(r.lines))
              /\ Expanded(r).services[j].amount = r.services[j].amount
              /\ Expanded(r).services[j].visible = r.services[j].visible
  BY DEF Expanded, Expand, GoodRequest, Shape

\* Expanded weights: one per line, those typed when they were typed.
LEMMA ExpandIs ==
  ASSUME NEW n \in Nat, NEW s, TypedService(s, n)
  PROVE  /\ Expand(s, n) \in [amount : Nat, visible : BOOLEAN, weights : [1..n -> Nat]]
         /\ Expand(s, n).amount = s.amount /\ Expand(s, n).visible = s.visible
         /\ s.strategy # "EQUAL" => \A i \in 1..n : Expand(s, n).weights[i] = s.weights[i]
<1>1. CASE s.strategy = "EQUAL"
  BY <1>1 DEF Expand, TypedService
<1>2. CASE s.strategy # "EQUAL"
  <2>1. s.weights \in Seq(Nat) /\ Len(s.weights) >= n /\ Len(s.weights) \in Nat
    BY <1>2 DEF TypedService
  <2>2. SubSeq(s.weights, 1, n) \in [1..n -> Nat]
        /\ \A i \in 1..n : SubSeq(s.weights, 1, n)[i] = s.weights[i]
    <3> DEFINE t == SubSeq(s.weights, 1, n)
    <3>1. \A i \in 1..n : s.weights[i] \in Nat
      BY <2>1
    <3>2. /\ t \in Seq(Nat) /\ Len(t) = IF 1 <= n THEN n - 1 + 1 ELSE 0
          /\ \A i \in 1..(n - 1 + 1) : t[i] = s.weights[1 + i - 1]
      BY <3>1, SubSeqProperties
    <3> HIDE DEF t
    <3>3. Len(t) = n /\ DOMAIN t = 1..n /\ t \in [1..n -> Nat]
      BY <3>2
    <3>4. \A i \in 1..n : t[i] = s.weights[i]
      BY <3>2
    <3> QED
      BY <3>3, <3>4 DEF t
  <2>3. Expand(s, n).weights = SubSeq(s.weights, 1, n)
    BY <1>2 DEF Expand
  <2> QED
    BY <1>2, <2>2, <2>3 DEF Expand, TypedService
<1> QED
  BY <1>1, <1>2

\* The validator lets through the requests whose services can be redistributed.
LEMMA ExpandedGood ==
  ASSUME NEW r, GoodRequest(r), Valid(r)
  PROVE  GoodBody(Expanded(r))
<1> DEFINE n == Len(r.lines)
           b == Expanded(r)
<1>1. n \in Nat /\ Shape(r) /\ LinesOf(r, n) /\ \A j \in DOMAIN r.services : TypedService(r.services[j], n)
  BY DEF GoodRequest
<1>2. /\ DOMAIN b = DOMAIN r /\ \A k \in DOMAIN r \ {"services"} : b[k] = r[k]
      /\ DOMAIN b.services = DOMAIN r.services
      /\ b.lines = r.lines /\ b.remises = r.remises
      /\ \A j \in DOMAIN r.services : b.services[j] = Expand(r.services[j], n)
  BY ExpandedAre
<1>3. \A j \in DOMAIN r.services : ~r.services[j].visible => Sigma(b.services[j].weights) > 0
  BY DEF Valid
<1> HIDE DEF n, b
<1>4. Shape(b)
  BY <1>1, <1>2 DEF Shape
<1>5. LinesOf(b, n)
  BY <1>1, <1>2 DEF LinesOf
<1>6. ASSUME NEW j \in DOMAIN b.services PROVE GoodService(b.services[j], n)
  <2>1. b.services[j] = Expand(r.services[j], n) /\ TypedService(r.services[j], n)
    BY <1>1, <1>2
  <2>2. /\ b.services[j] \in [amount : Nat, visible : BOOLEAN, weights : [1..n -> Nat]]
        /\ b.services[j].visible = r.services[j].visible
    BY <1>1, <2>1, ExpandIs
  <2> QED
    BY <1>2, <1>3, <2>2 DEF GoodService
<1>7. GoodOf(b, n)
  BY <1>4, <1>5, <1>6 DEF GoodOf
<1> QED
  BY <1>1, <1>7 DEF GoodBody, b

-------------------------------------------------------------------------------
\* A sequence, whatever it holds.
IsList(s) == s \in Seq(ToSet(s))

\* Appending to a sequence.
LEMMA ListAppend ==
  ASSUME NEW s, IsList(s), NEW x
  PROVE  /\ Len(s) \in Nat /\ DOMAIN s = 1..Len(s)
         /\ IsList(Append(s, x)) /\ Len(Append(s, x)) = Len(s) + 1
         /\ Append(s, x)[Len(s) + 1] = x /\ \A i \in 1..Len(s) : Append(s, x)[i] = s[i]
<1> DEFINE T == ToSet(s) \cup {x}
           t == Append(s, x)
<1>1. s \in Seq(T)
  BY DEF IsList
<1>2. /\ Len(s) \in Nat /\ DOMAIN s = 1..Len(s)
      /\ t \in Seq(T) /\ Len(t) = Len(s) + 1 /\ DOMAIN t = 1..(Len(s) + 1)
      /\ t[Len(s) + 1] = x /\ \A i \in 1..Len(s) : t[i] = s[i]
  BY <1>1, AppendProperties
<1> HIDE DEF t
<1>3. t \in Seq(ToSet(t))
  <2>1. t \in [1..(Len(s) + 1) -> ToSet(t)]
    BY <1>2 DEF ToSet
  <2> QED
    BY <1>2, <2>1
<1> QED
  BY <1>2, <1>3 DEF IsList, t

-------------------------------------------------------------------------------
\* A body made of another: the same amounts, and of each redistributed service the same
\* weights or the shares it was split in.
Derived(b, source) ==
  /\ SameAmounts(b, source)
  /\ \A j \in SpreadServices(b) :
       \/ b.services[j].weights = source.services[j].weights
       \/ \E order \in Orders(source) : b.services[j].weights = Distribution(source.services[j], order)

\* A table has no services, and nothing typed over its totals.
Bare(b) == b.mode = "MANUAL" => DOMAIN b.services = {}
NoOverride(b) == b.subtotal = Unset /\ b.vat = Unset /\ b.total = Unset

\* A table made of another keeps its VAT, and the totals that were computed.
KeepsVat(d, source) ==
  d.body.mode = "MANUAL" /\ ~d.body.reverse /\ NoOverride(source.body) =>
    /\ NoOverride(d.body)
    /\ d.vat.applicable = source.vat.applicable /\ d.vat.rate = source.vat.rate

\* What the reload of a table asks for, until the request is sent.
Reloaded(r, source) ==
  r.mode = "MANUAL" =>
    /\ NoOverride(r) /\ r.rate = source.vat.rate
    /\ r.liable = IF source.vat.applicable THEN "yes" ELSE "no"

\* A row of the documents agrees with what was shown for it and with the row it comes from.
RowHolds(docs, i) ==
  LET d == docs[i]
  IN /\ GoodBody(d.body) /\ Bare(d.body)
     /\ d.type \in {"DEVIS", "FACTURE"} /\ IsVat(d.vat) /\ d.vat.rate # Unset
     /\ d.from \in 0..(i - 1) /\ d.cloned \in BOOLEAN /\ IsTotals(d.agreed.totals)
     /\ d.agreed # NothingShown =>
          d.agreed.totals = BodyTotals(d.body, d.agreed.vat, InPosition(d.body))
     /\ d.cloned => d.agreed.vat = d.vat
     /\ d.from # 0 => Derived(d.body, docs[d.from].body) /\ KeepsVat(d, docs[d.from])

\* The inductive invariant: the request, what is shown and every row belong together.
TotalsInv ==
  /\ profile \in [liable : BOOLEAN, rate : Rates]
  /\ request = NoBody \/ (GoodRequest(request) /\ Bare(request))
  /\ request # NoBody /\ request.from # 0 =>
       /\ request.from \in DOMAIN documents
       /\ Derived(Expanded(request), documents[request.from].body)
       /\ Reloaded(request, documents[request.from])
  /\ IsTotals(shown.totals)
  /\ shown # NothingShown =>
       /\ request # NoBody /\ Valid(request)
       /\ shown.totals = BodyTotals(Expanded(request), shown.vat, InPosition(Expanded(request)))
  /\ IsList(documents) /\ Len(documents) <= MaxDocuments
  /\ \A i \in DOMAIN documents : RowHolds(documents, i)

\* A new row leaves the others as they hold.
LEMMA RowsAppend ==
  ASSUME NEW docs, IsList(docs), \A i \in DOMAIN docs : RowHolds(docs, i), NEW d,
         RowHolds(Append(docs, d), Len(docs) + 1)
  PROVE  /\ IsList(Append(docs, d)) /\ Len(Append(docs, d)) = Len(docs) + 1
         /\ DOMAIN docs \subseteq DOMAIN Append(docs, d)
         /\ \A i \in DOMAIN docs : Append(docs, d)[i] = docs[i]
         /\ \A i \in DOMAIN Append(docs, d) : RowHolds(Append(docs, d), i)
<1> DEFINE t == Append(docs, d)
           n == Len(docs)
<1>1. /\ n \in Nat /\ DOMAIN docs = 1..n /\ IsList(t) /\ Len(t) = n + 1
      /\ t[n + 1] = d /\ \A i \in 1..n : t[i] = docs[i]
  BY ListAppend
<1> HIDE DEF t, n
<1>2. DOMAIN t = 1..(n + 1)
  BY <1>1 DEF IsList
<1>3. ASSUME NEW i \in 1..n PROVE RowHolds(t, i)
  <2>1. RowHolds(docs, i) /\ t[i] = docs[i]
    BY <1>1
  <2>2. docs[i].from # 0 => docs[i].from \in 1..n
    BY <1>1, <2>1 DEF RowHolds
  <2>3. docs[i].from # 0 => t[docs[i].from] = docs[docs[i].from]
    BY <1>1, <2>2
  <2> QED
    BY <2>1, <2>3 DEF RowHolds
<1>4. RowHolds(t, n + 1)
  BY DEF t, n
<1> QED
  BY <1>1, <1>2, <1>3, <1>4 DEF t, n

\* The requests that the artisan may start from are good.
LEMMA RequestsGood ==
  ASSUME NEW r \in GuidedRequests \cup ManualRequests
  PROVE  GoodRequest(r) /\ Bare(r) /\ r.from = 0 /\ r # NoBody
<1>1. ASSUME NEW l \in BoundedSeq(LineItems, MaxLines),
             NEW s \in {<<>>} \cup {<<x>> : x \in ServiceItems},
             NEW m \in {<<>>} \cup {<<x>> : x \in Remises},
             r = [mode |-> "GUIDED", lines |-> l, services |-> s, remises |-> m, reverse |-> FALSE,
                  from |-> 0, liable |-> "profile", rate |-> Unset]
      PROVE  GoodRequest(r)
  <2>1. PICK n \in 0..MaxLines : l \in [1..n -> LineItems]
    BY <1>1 DEF BoundedSeq, SeqOf
  <2>2. n \in Nat /\ n <= MaxLines /\ DOMAIN l = 1..n /\ Len(l) = n /\ MaxLines \in Nat
    BY <2>1, TotalsBounds
  <2>3. \A i \in 1..n : IsLineItem(l[i])
    BY <2>1, TotalsData
  <2>4. IsFiniteSet(DOMAIN s) /\ \A j \in DOMAIN s : s[j] \in ServiceItems
    <3>1. CASE s = <<>>
      BY <3>1, FS_EmptySet
    <3>2. CASE s # <<>>
      <4>1. PICK x \in ServiceItems : s = <<x>>
        BY <3>2
      <4>2. DOMAIN s = {1} /\ s[1] = x
        BY <4>1
      <4> QED
        BY <4>2, FS_Singleton
    <3> QED
      BY <3>1, <3>2
  <2>5. \A j \in DOMAIN s : TypedService(s[j], n)
    <3>1. ASSUME NEW j \in DOMAIN s PROVE TypedService(s[j], n)
      <4>1. IsServiceItem(s[j])
        BY <2>4, TotalsData
      <4>2. Len(s[j].weights) >= MaxLines /\ s[j].weights \in Seq(Nat) => Len(s[j].weights) >= n
        BY <2>2
      <4> QED
        BY <4>1, <4>2 DEF IsServiceItem, TypedService
    <3> QED
      BY <3>1
  <2>6. Numbers(m)
    <3>1. CASE m = <<>>
      BY <3>1, FS_EmptySet DEF Numbers
    <3>2. CASE m # <<>>
      <4>1. PICK x \in Remises : m = <<x>>
        BY <3>2
      <4>2. DOMAIN m = {1} /\ m[1] = x
        BY <4>1
      <4>3. x \in Int
        BY <4>1, TotalsData
      <4> QED
        BY <4>2, <4>3, FS_Singleton DEF Numbers
    <3> QED
      BY <3>1, <3>2
  <2>7. Shape(r)
    BY <1>1 DEF Shape, Unset
  <2>8. LinesOf(r, n)
    BY <1>1, <2>2, <2>3, <2>4, <2>6 DEF LinesOf
  <2> QED
    BY <1>1, <2>2, <2>5, <2>7, <2>8 DEF GoodRequest
<1>2. ASSUME NEW t \in ManualTables,
             r = [mode |-> "MANUAL", lines |-> <<>>, services |-> <<>>, remises |-> <<>>, reverse |-> FALSE,
                  from |-> 0, liable |-> t.liable, rate |-> t.rate, rows |-> t.rows,
                  subtotal |-> t.subtotal, vat |-> t.vat, total |-> t.total]
      PROVE  GoodRequest(r)
  <2>1. IsManualTable(t)
    BY TotalsData
  <2>2. Numbers(t.rows)
    <3>1. t.rows \in Seq(Int) /\ DOMAIN t.rows = 1..Len(t.rows) /\ Len(t.rows) \in Nat
      BY <2>1 DEF IsManualTable
    <3>2. IsFiniteSet(1..Len(t.rows))
      BY <3>1, FS_Interval
    <3> QED
      BY <3>1, <3>2 DEF Numbers
  <2>3. Shape(r)
    BY <1>2, <2>1, <2>2 DEF Shape, IsManualTable, Unset
  <2>4. /\ DOMAIN r.lines = 1..0 /\ Len(r.lines) = 0 /\ DOMAIN r.services = 1..0 /\ DOMAIN r.remises = 1..0
    BY <1>2
  <2>5. IsFiniteSet(1..0)
    BY FS_Interval
  <2>6. LinesOf(r, 0) /\ Len(r.lines) = 0
    BY <2>4, <2>5 DEF LinesOf, Numbers
  <2> QED
    BY <2>3, <2>4, <2>6 DEF GoodRequest
<1>3. r.from = 0 /\ r.mode # "NONE"
  BY DEF GuidedRequests, ManualRequests
<1>4. r # NoBody
  BY <1>3 DEF NoBody
<1>5. Bare(r)
  BY DEF GuidedRequests, ManualRequests, Bare
<1> QED
  BY <1>1, <1>2, <1>3, <1>4, <1>5 DEF GuidedRequests, ManualRequests

\* The VAT of a request is a VAT.
LEMMA VatOfIs ==
  ASSUME NEW r, Shape(r), profile \in [liable : BOOLEAN, rate : Rates]
  PROVE  IsVat(VatOf(r)) /\ VatOf(r).rate # Unset
<1>1. profile.rate \in Nat
  <2>1. \A x \in Rates : x \in Nat
    BY TotalsData
  <2>2. profile.rate \in Rates
    OBVIOUS
  <2> QED
    BY <2>1, <2>2
<1>2. OrElse(r.rate, profile.rate) \in Int /\ OrElse(r.rate, profile.rate) # Unset
  BY <1>1 DEF Shape, OrElse, Unset
<1> QED
  BY <1>2 DEF IsVat, VatOf

\* The weights of a clone are the source's, found by their line in whatever order.
LEMMA ClonedAre ==
  ASSUME NEW n \in Nat, NEW order, Reorders(order, n), NEW s, s.weights \in [1..n -> Nat],
         NEW lines, DOMAIN lines = 1..n
  PROVE  ClonedWeights(WeightRows(s, order), lines) = s.weights
<1> DEFINE pairs == WeightRows(s, order)
           cloned == ClonedWeights(pairs, lines)
<1>1. /\ DOMAIN order = 1..n /\ \A i \in 1..n : \E k \in 1..n : order[k] = i
  BY OrderCovers
<1>2. /\ DOMAIN pairs = 1..n
      /\ \A k \in 1..n : pairs[k].line = order[k] /\ pairs[k].weight = s.weights[order[k]]
  BY <1>1 DEF WeightRows
<1>3. cloned = [i \in 1..n |->
                  LET mine == {k \in DOMAIN pairs : pairs[k].line = i}
                  IN IF mine = {} THEN 0 ELSE pairs[CHOOSE k \in mine : TRUE].weight]
  BY DEF ClonedWeights
<1> HIDE DEF pairs
<1>4. ASSUME NEW i \in 1..n PROVE cloned[i] = s.weights[i]
  <2> DEFINE mine == {k \in DOMAIN pairs : pairs[k].line = i}
             k == CHOOSE k \in mine : TRUE
  <2>1. mine # {}
    <3>1. PICK l \in 1..n : order[l] = i
      BY <1>1
    <3>2. l \in mine
      BY <1>2, <3>1
    <3> QED
      BY <3>2
  <2>2. k \in mine
    BY <2>1
  <2>3. pairs[k].weight = s.weights[i]
    BY <1>2, <2>2
  <2>4. cloned[i] = IF mine = {} THEN 0 ELSE pairs[k].weight
    BY <1>3
  <2> QED
    BY <2>1, <2>3, <2>4
<1>5. cloned = [i \in 1..n |-> cloned[i]]
  BY <1>3
<1> HIDE DEF cloned
<1>6. cloned = s.weights
  BY <1>4, <1>5
<1> QED
  BY <1>6 DEF cloned, pairs

\* The first state.
LEMMA TotalsInvInit == TotalsInit => TotalsInv
<1> SUFFICES ASSUME TotalsInit PROVE TotalsInv
  OBVIOUS
<1>1. profile \in [liable : BOOLEAN, rate : Rates] /\ shown = NothingShown /\ documents = <<>>
  BY DEF TotalsInit
<1>2. GoodRequest(request) /\ Bare(request) /\ request.from = 0
  BY RequestsGood DEF TotalsInit
<1>3. IsTotals(shown.totals)
  BY <1>1 DEF NothingShown, NoTotals, IsTotals
<1>4. IsList(documents) /\ Len(documents) = 0 /\ DOMAIN documents = {}
  BY <1>1 DEF IsList, ToSet
<1>5. Len(documents) <= MaxDocuments
  BY <1>4, TotalsBounds
<1> QED
  BY <1>1, <1>2, <1>3, <1>4, <1>5 DEF TotalsInv

\* The profile only weighs on what is not made yet.
LEMMA ChangeProfileKeeps ==
  ASSUME TotalsInv, ChangeProfile
  PROVE  TotalsInv'
<1>1. UNCHANGED <<request, shown, documents>> /\ profile' \in [liable : BOOLEAN, rate : Rates]
  BY DEF ChangeProfile
<1> QED
  BY <1>1 DEF TotalsInv

\* Autoliquidation clears what was shown.
LEMMA SetReverseChargeKeeps ==
  ASSUME TotalsInv, SetReverseCharge
  PROVE  TotalsInv'
<1> DEFINE r == request
           q == request'
<1>1. /\ request # NoBody /\ request' = [request EXCEPT !.reverse = TRUE] /\ shown' = NothingShown
      /\ profile' = profile /\ documents' = documents
  BY DEF SetReverseCharge
<1>2. GoodRequest(r)
  BY <1>1 DEF TotalsInv
<1>3. DOMAIN q = DOMAIN r /\ \A k \in DOMAIN r \ {"reverse"} : q[k] = r[k]
  BY <1>1
<1>4. GoodRequest(q)
  <2>1. Shape(q)
    BY <1>2, <1>3 DEF GoodRequest, Shape
  <2>2. q.lines = r.lines /\ q.services = r.services /\ q.remises = r.remises
    BY <1>2, <1>3 DEF GoodRequest, Shape
  <2> HIDE DEF q, r
  <2> QED
    BY <1>2, <2>1, <2>2 DEF GoodRequest, LinesOf
<1>5. q.from # 0 => /\ q.from \in DOMAIN documents /\ Derived(Expanded(q), documents[q.from].body)
                    /\ Reloaded(q, documents[q.from])
  <2>1. q.from = r.from /\ q.services = r.services /\ q.lines = r.lines
    BY <1>2, <1>3 DEF GoodRequest, Shape
  <2>2. r.from # 0 => /\ r.from \in DOMAIN documents /\ Derived(Expanded(r), documents[r.from].body)
                      /\ Reloaded(r, documents[r.from])
    BY <1>1 DEF TotalsInv
  <2>3. /\ Expanded(q).mode = Expanded(r).mode /\ Expanded(q).lines = Expanded(r).lines
        /\ Expanded(q).remises = Expanded(r).remises
        /\ Expanded(q).services = Expanded(r).services
        /\ r.mode = "MANUAL" => /\ Expanded(q).rows = Expanded(r).rows /\ Expanded(q).subtotal = Expanded(r).subtotal
                                /\ Expanded(q).vat = Expanded(r).vat /\ Expanded(q).total = Expanded(r).total
        /\ Expanded(r).mode = r.mode
    BY <1>2, <1>3 DEF Expanded, GoodRequest, Shape
  <2>5. \A source : Reloaded(r, source) => Reloaded(q, source)
    BY <1>2, <1>3 DEF Reloaded, NoOverride, GoodRequest, Shape
  <2> DEFINE b == Expanded(q)
             c == Expanded(r)
  <2> HIDE DEF q, r, b, c
  <2>4. ASSUME NEW source, Derived(c, source) PROVE Derived(b, source)
    <3>1. SameAmounts(b, source)
      BY <2>3, <2>4 DEF b, c, Derived, SameAmounts
    <3>2. SpreadServices(b) = SpreadServices(c)
      BY <2>3 DEF b, c, SpreadServices
    <3> QED
      BY <2>3, <2>4, <3>1, <3>2 DEF b, c, Derived
  <2> QED
    BY <2>1, <2>2, <2>4, <2>5 DEF b, c
<1>6. IsTotals(shown'.totals)
  BY <1>1 DEF NothingShown, NoTotals, IsTotals
<1>8. Bare(q)
  BY <1>1, <1>2, <1>3 DEF TotalsInv, Bare, GoodRequest, Shape
<1> HIDE DEF q
<1>7. TotalsInv'
  BY <1>1, <1>4, <1>5, <1>6, <1>8 DEF TotalsInv, q, RowHolds, IsTotals
<1> QED
  BY <1>7

\* A preview shows the totals of the request it was asked for.
LEMMA PreviewKeeps ==
  ASSUME TotalsInv, Preview
  PROVE  TotalsInv'
<1> DEFINE body == Expanded(request)
           vat == VatOf(request)
           totals == BodyTotals(body, vat, InPosition(body))
<1>1. /\ request # NoBody /\ Valid(request) /\ shown' = [totals |-> totals, vat |-> vat]
      /\ request' = request /\ profile' = profile /\ documents' = documents
  BY DEF Preview
<1>2. GoodRequest(request)
  BY <1>1 DEF TotalsInv
<1>3. GoodBody(body)
  BY <1>1, <1>2, ExpandedGood
<1>4. IsVat(vat)
  BY <1>2, VatOfIs DEF TotalsInv, GoodRequest
<1>5. InPosition(body) \in Orders(body)
  BY <1>3, OrdersOf DEF GoodBody
<1>6. IsTotals(totals)
  <2> HIDE DEF body, vat
  <2> QED
    BY <1>3, <1>4, <1>5, BodyTotalsTyped
<1>7. shown'.totals = totals /\ shown'.vat = vat
  BY <1>1
<1> HIDE DEF totals, vat
<1>8. Valid(request)'
  BY <1>1 DEF Valid, Expanded, Expand
<1>9. IsTotals(shown'.totals)
  BY <1>6, <1>7
<1>10. shown'.totals = BodyTotals(Expanded(request'), shown'.vat, InPosition(Expanded(request')))
  BY <1>1, <1>7 DEF totals
<1> QED
  BY <1>1, <1>2, <1>8, <1>9, <1>10 DEF TotalsInv, RowHolds, IsTotals

\* A copy of every amount and weight is a derived body.
LEMMA SameWeightsDerived ==
  ASSUME NEW b, NEW c, SameAmounts(b, c),
         \A j \in DOMAIN b.services : b.services[j].weights = c.services[j].weights
  PROVE  Derived(b, c)
  BY DEF Derived, SpreadServices

\* A creation persists the request, and what was shown of it.
LEMMA CreateDocumentKeeps ==
  ASSUME TotalsInv, NEW type \in {"DEVIS", "FACTURE"}, CreateDocument(type)
  PROVE  TotalsInv'
<1> DEFINE d == [body |-> Expanded(request), type |-> type, vat |-> VatOf(request),
                 from |-> request.from, cloned |-> FALSE, agreed |-> shown]
           n == Len(documents)
<1>1. /\ request # NoBody /\ Valid(request) /\ n < MaxDocuments
      /\ documents' = Append(documents, d)
      /\ request' = NoBody /\ shown' = NothingShown /\ profile' = profile
  BY DEF CreateDocument, Persist
<1>2. /\ GoodRequest(request) /\ Bare(request)
      /\ IsList(documents) /\ \A i \in DOMAIN documents : RowHolds(documents, i)
  BY <1>1 DEF TotalsInv
<1>3. GoodBody(d.body) /\ Bare(d.body) /\ IsVat(d.vat) /\ d.vat.rate # Unset
  <2>1. Bare(Expanded(request))
    BY <1>2, ExpandedAre DEF Bare
  <2> QED
    BY <1>1, <1>2, <2>1, ExpandedGood, VatOfIs DEF TotalsInv, GoodRequest
<1>4. d.from # 0 => /\ d.from \in DOMAIN documents /\ Derived(d.body, documents[d.from].body)
                    /\ KeepsVat(d, documents[d.from])
  <2> SUFFICES ASSUME d.from # 0
               PROVE  /\ d.from \in DOMAIN documents /\ Derived(d.body, documents[d.from].body)
                      /\ KeepsVat(d, documents[d.from])
    OBVIOUS
  <2> DEFINE source == documents[request.from]
             b == Expanded(request)
             v == VatOf(request)
  <2>0. request.from # 0 /\ d.body = b /\ d.vat = v /\ d.from = request.from
    OBVIOUS
  <2> HIDE DEF d
  <2>1. /\ request.from \in DOMAIN documents /\ Derived(b, source.body) /\ Reloaded(request, source)
    BY <1>1, <2>0 DEF TotalsInv
  <2>2. IsVat(source.vat) /\ source.vat.rate # Unset
    BY <1>2, <2>1 DEF RowHolds
  <2>3. /\ b.mode = request.mode
        /\ b.mode = "MANUAL" => /\ b.subtotal = request.subtotal /\ b.vat = request.vat
                                /\ b.total = request.total
        /\ b.reverse = request.reverse
    BY <1>2, ExpandedAre DEF GoodRequest, Shape
  <2>4. ASSUME b.mode = "MANUAL", ~b.reverse
        PROVE  NoOverride(b) /\ v.applicable = source.vat.applicable /\ v.rate = source.vat.rate
    <3> HIDE DEF b, source
    <3>1. NoOverride(b) /\ request.rate = source.vat.rate
          /\ request.liable = IF source.vat.applicable THEN "yes" ELSE "no"
      BY <2>1, <2>3, <2>4 DEF Reloaded, NoOverride
    <3> QED
      BY <2>2, <2>3, <2>4, <3>1 DEF VatOf, OrElse, IsVat
  <2> HIDE DEF b, v
  <2>5. KeepsVat(d, source)
    BY <2>0, <2>4 DEF KeepsVat
  <2> QED
    BY <2>0, <2>1, <2>5
<1>5. /\ IsTotals(d.agreed.totals)
      /\ d.agreed # NothingShown => d.agreed.totals = BodyTotals(d.body, d.agreed.vat, InPosition(d.body))
  BY DEF TotalsInv
<1>6. d.type = type /\ d.cloned = FALSE
  OBVIOUS
<1> HIDE DEF d
<1>7. /\ n \in Nat /\ DOMAIN documents = 1..n /\ Append(documents, d)[n + 1] = d
      /\ \A i \in 1..n : Append(documents, d)[i] = documents[i]
  BY <1>2, ListAppend
<1>8. RowHolds(Append(documents, d), n + 1)
  <2>1. d.from \in 0..n
    BY <1>4, <1>7
  <2>2. d.from # 0 => Append(documents, d)[d.from] = documents[d.from]
    BY <1>4, <1>7
  <2> HIDE DEF n
  <2>3. d.from \in 0..((n + 1) - 1)
    BY <1>7, <2>1
  <2> QED
    BY <1>3, <1>4, <1>5, <1>6, <1>7, <2>2, <2>3 DEF RowHolds
<1>9. /\ IsList(documents') /\ Len(documents') = n + 1
      /\ \A i \in DOMAIN documents' : RowHolds(documents', i)
  BY <1>1, <1>2, <1>8, RowsAppend
<1>10. Len(documents') <= MaxDocuments
  <2> HIDE DEF n
  <2> QED
    BY <1>1, <1>7, <1>9, TotalsBounds
<1>11. IsTotals(NothingShown.totals)
  BY DEF NothingShown, NoTotals, IsTotals
<1> QED
  BY <1>1, <1>9, <1>10, <1>11 DEF TotalsInv, IsTotals

\* The services of a clone: the weights of the redistributed ones follow their lines.
Clones(source, order) ==
  [j \in DOMAIN source.services |->
     IF source.services[j].visible THEN source.services[j]
     ELSE [source.services[j] EXCEPT
             !.weights = ClonedWeights(WeightRows(source.services[j], order), source.lines)]]

\* The body of a clone is its source's.
LEMMA CloneIs ==
  ASSUME NEW source, GoodBody(source), NEW order \in Orders(source),
         NEW body, body = [source EXCEPT !.services = Clones(source, order)]
  PROVE  /\ GoodBody(body) /\ SameAmounts(body, source) /\ SameOverrides(body, source)
         /\ Derived(body, source) /\ (Bare(source) => Bare(body))
<1> DEFINE clones == Clones(source, order)
<1>1. PICK n \in Nat : GoodOf(source, n)
  BY DEF GoodBody
<1>2. Shape(source) /\ LinesOf(source, n) /\ Reorders(order, n)
      /\ \A j \in DOMAIN source.services : GoodService(source.services[j], n)
  BY <1>1, OrdersOf DEF GoodOf
<1>3. /\ DOMAIN body = DOMAIN source
      /\ \A k \in DOMAIN source \ {"services"} : body[k] = source[k]
      /\ body.services = clones
  BY <1>2 DEF Shape
<1>4. ASSUME NEW j \in DOMAIN source.services PROVE clones[j] = source.services[j]
  <2> DEFINE s == source.services[j]
             w == ClonedWeights(WeightRows(s, order), source.lines)
  <2>1. s = [k \in DOMAIN s |-> s[k]] /\ s.weights \in [1..n -> Nat] /\ DOMAIN source.lines = 1..n
    BY <1>2 DEF GoodService, LinesOf
  <2>2. w = s.weights
    <3> HIDE DEF s
    <3> QED
      BY <1>2, <2>1, ClonedAre
  <2>3. clones[j] = IF s.visible THEN s ELSE [s EXCEPT !.weights = w]
    BY DEF Clones
  <2> HIDE DEF s, w
  <2>4. [s EXCEPT !.weights = s.weights] = s
    BY <2>1
  <2>5. clones[j] = s
    BY <2>2, <2>3, <2>4
  <2> QED
    BY <2>5 DEF s
<1>5. /\ DOMAIN body.services = DOMAIN source.services
      /\ \A j \in DOMAIN source.services : body.services[j] = source.services[j]
  BY <1>3, <1>4 DEF Clones
<1>6. Shape(body) /\ body.mode = source.mode /\ body.lines = source.lines /\ body.remises = source.remises
  BY <1>2, <1>3 DEF Shape
<1>7. GoodBody(body)
  BY <1>2, <1>5, <1>6 DEF GoodBody, GoodOf, LinesOf
<1>8. SameAmounts(body, source) /\ SameOverrides(body, source) /\ (Bare(source) => Bare(body))
  BY <1>2, <1>3, <1>5, <1>6 DEF SameAmounts, SameOverrides, Shape, Bare
<1> QED
  BY <1>5, <1>7, <1>8, SameWeightsDerived

\* A conversion persists a clone of its source and the VAT of that source.
LEMMA ConvertKeeps ==
  ASSUME TotalsInv, NEW i \in DOMAIN documents, NEW type \in {"DEVIS", "FACTURE"}, Convert(i, type)
  PROVE  TotalsInv'
<1> DEFINE n == Len(documents)
           source == documents[i].body
           v == documents[i].vat
<1>1. /\ IsList(documents) /\ \A k \in DOMAIN documents : RowHolds(documents, k)
  BY DEF TotalsInv
<1>2. GoodBody(source) /\ Bare(source) /\ IsVat(v) /\ v.rate # Unset
  BY <1>1 DEF RowHolds
<1>3. PICK order \in Orders(source) :
        LET clone(s) == IF s.visible THEN s
                        ELSE [s EXCEPT !.weights = ClonedWeights(WeightRows(s, order), source.lines)]
            body == [source EXCEPT !.services = [j \in DOMAIN @ |-> clone(@[j])]]
        IN Persist(body, type, SnapshotVat(i), i, TRUE,
                   [totals |-> BodyTotals(source, v, InPosition(source)), vat |-> v])
  BY DEF Convert
<1>4. n < MaxDocuments /\ profile' = profile /\ request' = request /\ shown' = shown
  BY DEF Convert
<1> DEFINE clone(s) == IF s.visible THEN s
                       ELSE [s EXCEPT !.weights = ClonedWeights(WeightRows(s, order), source.lines)]
           body == [source EXCEPT !.services = [j \in DOMAIN @ |-> clone(@[j])]]
           agreed == [totals |-> BodyTotals(source, v, InPosition(source)), vat |-> v]
           d == [body |-> body, type |-> type, vat |-> v, from |-> i, cloned |-> TRUE, agreed |-> agreed]
<1>5. documents' = Append(documents, d)
  BY <1>3 DEF Persist, SnapshotVat
<1>6. /\ GoodBody(body) /\ Bare(body)
      /\ SameAmounts(body, source) /\ SameOverrides(body, source) /\ Derived(body, source)
  <2>1. body = [source EXCEPT !.services = Clones(source, order)]
    BY DEF Clones
  <2> HIDE DEF body, source
  <2> QED
    BY <1>2, <2>1, CloneIs
<1> HIDE DEF body
<1>7. /\ IsTotals(agreed.totals) /\ agreed.vat = v
      /\ agreed.totals = BodyTotals(body, v, InPosition(body))
  <2>1. InPosition(source) \in Orders(source)
    BY <1>2, OrdersOf DEF GoodBody
  <2>2. BodyTotals(body, v, InPosition(body)) = BodyTotals(source, v, InPosition(source))
    BY <1>2, <1>6, SameAmountsSameTotals
  <2>3. IsTotals(BodyTotals(source, v, InPosition(source)))
    <3> HIDE DEF source, v
    <3> QED
      BY <1>2, <2>1, BodyTotalsTyped
  <2> QED
    BY <2>2, <2>3
<1> HIDE DEF agreed
<1>8. d.body = body /\ d.type = type /\ d.vat = v /\ d.from = i /\ d.cloned = TRUE /\ d.agreed = agreed
  OBVIOUS
<1> HIDE DEF d
<1>9. /\ n \in Nat /\ DOMAIN documents = 1..n /\ Append(documents, d)[n + 1] = d
      /\ \A k \in 1..n : Append(documents, d)[k] = documents[k]
  BY <1>1, ListAppend
<1>10. RowHolds(Append(documents, d), n + 1)
  <2>1. i \in 0..((n + 1) - 1)
        /\ Append(documents, d)[i].body = source /\ Append(documents, d)[i].vat = v
    <3> HIDE DEF n
    <3> QED
      BY <1>9 DEF source, v
  <2> HIDE DEF n, source, v
  <2>2. KeepsVat(d, Append(documents, d)[i])
    BY <1>6, <1>8, <2>1 DEF KeepsVat, NoOverride, SameOverrides, SameAmounts
  <2> QED
    BY <1>2, <1>6, <1>7, <1>8, <1>9, <2>1, <2>2 DEF RowHolds
<1>11. /\ IsList(documents') /\ Len(documents') = n + 1
       /\ DOMAIN documents \subseteq DOMAIN documents' /\ \A k \in DOMAIN documents : documents'[k] = documents[k]
       /\ \A k \in DOMAIN documents' : RowHolds(documents', k)
  BY <1>1, <1>5, <1>10, RowsAppend
<1>12. Len(documents') <= MaxDocuments
  <2> HIDE DEF n
  <2> QED
    BY <1>4, <1>9, <1>11, TotalsBounds
<1>13. request # NoBody /\ request.from # 0 =>
         /\ request.from \in DOMAIN documents'
         /\ Derived(Expanded(request), documents'[request.from].body)
         /\ Reloaded(request, documents'[request.from])
  BY <1>11 DEF TotalsInv
<1>14. shown' # NothingShown =>
         /\ request # NoBody /\ Valid(request)'
         /\ shown.totals = BodyTotals(Expanded(request), shown.vat, InPosition(Expanded(request)))
  BY <1>4 DEF TotalsInv, Valid, Expanded, Expand
<1> QED
  BY <1>4, <1>11, <1>12, <1>13, <1>14 DEF TotalsInv, IsTotals

\* The services of a devis put back in the draft: its own split, in cents, as weights.
Loaded(source, order) ==
  [j \in DOMAIN source.services |->
     [amount |-> source.services[j].amount, visible |-> source.services[j].visible,
      strategy |-> "WEIGHTED",
      weights |-> IF source.services[j].visible THEN source.services[j].weights
                  ELSE Distribution(source.services[j], order)]]

\* A devis reloaded into the draft is a request derived from it.
LEMMA LoadedIs ==
  ASSUME NEW source, GoodBody(source), source.mode = "GUIDED", NEW order \in Orders(source), NEW i,
         NEW q, DOMAIN q = DOMAIN source, q.from = i, q.services = Loaded(source, order),
         \A k \in DOMAIN source \ {"reverse", "from", "services"} : q[k] = source[k]
  PROVE  /\ GoodRequest(q) /\ Bare(q) /\ q.from = i /\ Derived(Expanded(q), source) /\ q # NoBody
         /\ q.mode = "GUIDED"
<1> DEFINE loaded == Loaded(source, order)
<1>1. PICK n \in Nat : GoodOf(source, n)
  BY DEF GoodBody
<1>2. Shape(source) /\ LinesOf(source, n) /\ Reorders(order, n)
      /\ \A j \in DOMAIN source.services : GoodService(source.services[j], n)
  BY <1>1, OrdersOf DEF GoodOf
<1>3. /\ DOMAIN q = DOMAIN source /\ q.from = i /\ q.services = loaded
      /\ q.mode = "GUIDED" /\ q.lines = source.lines /\ q.remises = source.remises /\ q.rate = source.rate
  BY <1>2 DEF Shape
<1>4. DOMAIN loaded = DOMAIN source.services
  BY DEF Loaded
<1>5. ASSUME NEW j \in DOMAIN source.services
      PROVE  /\ loaded[j].amount = source.services[j].amount
             /\ loaded[j].visible = source.services[j].visible
             /\ loaded[j].strategy = "WEIGHTED"
             /\ loaded[j].weights \in [1..n -> Nat]
             /\ ~source.services[j].visible => loaded[j].weights = Distribution(source.services[j], order)
             /\ TypedService(loaded[j], n)
  <2> DEFINE s == source.services[j]
  <2>1. s.amount \in Nat /\ s.visible \in BOOLEAN /\ s.weights \in [1..n -> Nat]
    BY <1>2 DEF GoodService
  <2>2. /\ loaded[j].amount = s.amount /\ loaded[j].visible = s.visible /\ loaded[j].strategy = "WEIGHTED"
        /\ loaded[j].weights = IF s.visible THEN s.weights ELSE Distribution(s, order)
    BY DEF Loaded
  <2>3. ~s.visible => Distribution(s, order) \in [1..n -> Nat]
    <3>1. ASSUME ~s.visible PROVE IsSpread(s, n)
      BY <1>2, <3>1 DEF GoodService, IsSpread
    <3> HIDE DEF s
    <3> QED
      BY <1>2, <3>1, SharesAreExact
  <2> HIDE DEF s
  <2>4. loaded[j].weights \in [1..n -> Nat]
    BY <2>1, <2>2, <2>3
  <2>5. loaded[j].weights \in Seq(Nat) /\ Len(loaded[j].weights) = n
    BY <2>4
  <2>6. TypedService(loaded[j], n)
    BY <2>1, <2>2, <2>5 DEF TypedService
  <2> QED
    BY <2>2, <2>4, <2>6 DEF s
<1> HIDE DEF loaded
<1>6. Shape(q)
  BY <1>2, <1>3 DEF Shape
<1>7. LinesOf(q, n) /\ Len(q.lines) = n
  BY <1>2, <1>3, <1>4 DEF LinesOf
<1>8. GoodRequest(q)
  BY <1>3, <1>4, <1>5, <1>6, <1>7 DEF GoodRequest
<1> DEFINE b == Expanded(q)
<1>9. /\ b.mode = "GUIDED" /\ b.lines = source.lines /\ b.remises = source.remises
      /\ DOMAIN b.services = DOMAIN source.services
      /\ \A j \in DOMAIN source.services :
           /\ b.services[j] = Expand(loaded[j], n)
           /\ b.services[j].amount = source.services[j].amount
           /\ b.services[j].visible = source.services[j].visible
  <2>1. /\ b.mode = q.mode /\ b.lines = q.lines /\ b.remises = q.remises
        /\ DOMAIN b.services = DOMAIN q.services
        /\ \A j \in DOMAIN q.services :
              /\ b.services[j] = Expand(q.services[j], Len(q.lines))
              /\ b.services[j].amount = q.services[j].amount
              /\ b.services[j].visible = q.services[j].visible
    <3>1. /\ DOMAIN Expanded(q) = DOMAIN q
          /\ \A k \in DOMAIN q \ {"services"} : Expanded(q)[k] = q[k]
          /\ Expanded(q).mode = q.mode /\ Expanded(q).lines = q.lines
          /\ Expanded(q).remises = q.remises /\ Expanded(q).from = q.from
          /\ DOMAIN Expanded(q).services = DOMAIN q.services
          /\ \A j \in DOMAIN q.services :
               /\ Expanded(q).services[j] = Expand(q.services[j], Len(q.lines))
               /\ Expanded(q).services[j].amount = q.services[j].amount
               /\ Expanded(q).services[j].visible = q.services[j].visible
      <4> HIDE DEF b
      <4> QED
        BY <1>8, ExpandedAre
    <3> HIDE DEF b
    <3> QED
      BY <3>1 DEF b
  <2> HIDE DEF b
  <2> QED
    BY <1>3, <1>4, <1>5, <1>7, <2>1
<1> HIDE DEF b
<1>10. SameAmounts(b, source)
  BY <1>9 DEF SameAmounts
<1>11. ASSUME NEW j \in SpreadServices(b)
       PROVE  b.services[j].weights = Distribution(source.services[j], order)
  <2>1. j \in DOMAIN source.services /\ ~source.services[j].visible
    BY <1>9 DEF SpreadServices
  <2> DEFINE s == loaded[j]
             w == Expand(s, n).weights
  <2>2. TypedService(s, n) /\ s.strategy # "EQUAL" /\ s.weights \in [1..n -> Nat]
        /\ s.weights = Distribution(source.services[j], order)
    BY <1>5, <2>1
  <2> HIDE DEF s
  <2>3. /\ Expand(s, n) \in [amount : Nat, visible : BOOLEAN, weights : [1..n -> Nat]]
        /\ \A k \in 1..n : Expand(s, n).weights[k] = s.weights[k]
    BY <2>2, ExpandIs
  <2>4. w \in [1..n -> Nat] /\ \A k \in 1..n : w[k] = s.weights[k]
    BY <2>3
  <2> HIDE DEF w
  <2>5. w = s.weights
    BY <2>2, <2>4
  <2> QED
    BY <1>9, <2>1, <2>2, <2>5 DEF w, s
<1>12. Derived(b, source)
  BY <1>10, <1>11 DEF Derived
<1>13. q # NoBody /\ Bare(q) /\ q.mode = "GUIDED"
  BY <1>3 DEF NoBody, Bare
<1> QED
  BY <1>3, <1>8, <1>12, <1>13 DEF b

\* Reloading a devis starts a request that nothing was shown for.
LEMMA LoadDevisKeeps ==
  ASSUME TotalsInv, NEW i \in DOMAIN documents, LoadDevis(i)
  PROVE  TotalsInv'
<1> DEFINE source == documents[i].body
<1>1. GoodBody(source) /\ source.mode = "GUIDED"
  BY DEF TotalsInv, RowHolds, LoadDevis, Load
<1>2. PICK order \in Orders(source) : request' = [source EXCEPT !.reverse = FALSE, !.from = i,
                                                     !.services = Loaded(source, order)]
  BY DEF LoadDevis, Load, Loaded
<1>3. /\ GoodRequest(request') /\ Bare(request') /\ request'.from = i
      /\ Derived(Expanded(request'), source) /\ request' # NoBody /\ request'.mode = "GUIDED"
  <2> DEFINE q == request'
  <2>0. order \in Orders(source)
    OBVIOUS
  <2>1. /\ DOMAIN q = DOMAIN source /\ q.from = i /\ q.services = Loaded(source, order)
        /\ \A k \in DOMAIN source \ {"reverse", "from", "services"} : q[k] = source[k]
    BY <1>1, <1>2 DEF GoodBody, GoodOf, Shape
  <2> HIDE DEF q, source
  <2>2. /\ GoodRequest(q) /\ Bare(q) /\ q.from = i /\ Derived(Expanded(q), source) /\ q # NoBody
        /\ q.mode = "GUIDED"
    BY <1>1, <2>0, <2>1, LoadedIs
  <2> QED
    BY <2>2 DEF q
<1>4. shown' = NothingShown /\ profile' = profile /\ documents' = documents
  BY DEF LoadDevis, Load
<1>5. IsTotals(NothingShown.totals)
  BY DEF NothingShown, NoTotals, IsTotals
<1>6. Reloaded(request', documents[i])
  BY <1>3 DEF Reloaded
<1> QED
  BY <1>3, <1>4, <1>5, <1>6 DEF TotalsInv, RowHolds, IsTotals

\* A table reloaded has its rows, its VAT, and nothing typed over.
LEMMA LoadedTableIs ==
  ASSUME NEW source, GoodBody(source), Bare(source), source.mode = "MANUAL", NEW i,
         NEW q, DOMAIN q = DOMAIN source, q.from = i, q.rate \in Int, NoOverride(q),
         \A k \in DOMAIN source \ {"reverse", "from", "liable", "rate", "subtotal", "vat", "total"} :
           q[k] = source[k]
  PROVE  GoodRequest(q) /\ Bare(q) /\ Derived(Expanded(q), source) /\ q # NoBody
<1>1. PICK n \in Nat : GoodOf(source, n)
  BY DEF GoodBody
<1>2. Shape(source) /\ LinesOf(source, n) /\ DOMAIN source.services = {}
  BY <1>1 DEF GoodOf, Bare
<1>3. /\ q.mode = "MANUAL" /\ q.lines = source.lines /\ q.services = source.services
      /\ q.remises = source.remises /\ q.rows = source.rows
  BY <1>2 DEF Shape
<1>4. Shape(q)
  BY <1>2, <1>3 DEF Shape, NoOverride, Unset
<1>5. GoodRequest(q) /\ Bare(q)
  BY <1>2, <1>3, <1>4 DEF GoodRequest, LinesOf, Bare
<1> DEFINE b == Expanded(q)
<1>6. /\ b.mode = q.mode /\ b.lines = q.lines /\ b.remises = q.remises /\ b.rows = q.rows
      /\ DOMAIN b.services = DOMAIN q.services
  BY <1>3, <1>4, <1>5, ExpandedAre DEF Shape
<1> HIDE DEF b
<1>7. Derived(b, source)
  BY <1>2, <1>3, <1>6 DEF Derived, SameAmounts, SpreadServices
<1> QED
  BY <1>3, <1>5, <1>7 DEF b, NoBody

\* Reloading a table starts a request under the VAT of the devis.
LEMMA LoadDevisTableKeeps ==
  ASSUME TotalsInv, NEW i \in DOMAIN documents, LoadDevisTable(i)
  PROVE  TotalsInv'
<1> DEFINE source == documents[i].body
           v == documents[i].vat
           q == request'
<1>1. /\ GoodBody(source) /\ Bare(source) /\ source.mode = "MANUAL" /\ IsVat(v)
  BY DEF TotalsInv, RowHolds, LoadDevisTable, Load
<1>2. Shape(source)
  BY <1>1 DEF GoodBody, GoodOf
<1>3. q = [source EXCEPT !.reverse = FALSE, !.from = i,
                         !.liable = IF v.applicable THEN "yes" ELSE "no", !.rate = v.rate,
                         !.subtotal = Unset, !.vat = Unset, !.total = Unset]
  BY DEF LoadDevisTable, Load
<1>4. shown' = NothingShown /\ profile' = profile /\ documents' = documents
  BY DEF LoadDevisTable, Load
<1> HIDE DEF q, source, v
<1>5. /\ DOMAIN q = DOMAIN source /\ q.from = i /\ NoOverride(q) /\ q.rate = v.rate
      /\ q.liable = IF v.applicable THEN "yes" ELSE "no"
      /\ \A k \in DOMAIN source \ {"reverse", "from", "liable", "rate", "subtotal", "vat", "total"} :
           q[k] = source[k]
  BY <1>1, <1>2, <1>3 DEF Shape, NoOverride
<1>6. GoodRequest(q) /\ Bare(q) /\ Derived(Expanded(q), source) /\ q # NoBody
  <2>1. q.rate \in Int
    BY <1>1, <1>5 DEF IsVat
  <2> QED
    BY <1>1, <1>5, <2>1, LoadedTableIs
<1>7. Reloaded(q, documents[i])
  BY <1>5 DEF Reloaded, v
<1>8. IsTotals(NothingShown.totals)
  BY DEF NothingShown, NoTotals, IsTotals
<1> QED
  BY <1>4, <1>5, <1>6, <1>7, <1>8 DEF TotalsInv, RowHolds, IsTotals, q, source

\* A step of nothing.
LEMMA TotalsStutterKeeps ==
  ASSUME TotalsInv, UNCHANGED totalsVars
  PROVE  TotalsInv'
  BY DEF totalsVars, TotalsInv

\* Every step keeps the invariant.
LEMMA TotalsInvNext == TotalsInv /\ [TotalsNext]_totalsVars => TotalsInv'
<1> SUFFICES ASSUME TotalsInv, [TotalsNext]_totalsVars PROVE TotalsInv'
  OBVIOUS
<1>1. CASE ChangeProfile
  BY <1>1, ChangeProfileKeeps
<1>2. CASE SetReverseCharge
  BY <1>2, SetReverseChargeKeeps
<1>3. CASE Preview
  BY <1>3, PreviewKeeps
<1>4. ASSUME NEW type \in {"DEVIS", "FACTURE"}, CreateDocument(type) PROVE TotalsInv'
  BY <1>4, CreateDocumentKeeps
<1>5. ASSUME NEW i \in DOMAIN documents, LoadDevis(i) PROVE TotalsInv'
  BY <1>5, LoadDevisKeeps
<1>6. ASSUME NEW i \in DOMAIN documents, NEW type \in {"DEVIS", "FACTURE"}, Convert(i, type)
      PROVE  TotalsInv'
  BY <1>6, ConvertKeeps
<1>7. CASE UNCHANGED totalsVars
  BY <1>7, TotalsStutterKeeps
<1>8. ASSUME NEW i \in DOMAIN documents, LoadDevisTable(i) PROVE TotalsInv'
  BY <1>8, LoadDevisTableKeeps
<1> QED
  BY <1>1, <1>2, <1>3, <1>4, <1>5, <1>6, <1>7, <1>8 DEF TotalsNext

\* Every amount shown, persisted, converted or reloaded comes from one and the same body
\* (InvoiceService.create, convertToFacture, convertToDevis and loadFromInvoice).
THEOREM TotalsInvariant == TotalsSpec => []TotalsInv
<1>1. TotalsInit => TotalsInv
  BY TotalsInvInit
<1>2. TotalsInv /\ [TotalsNext]_totalsVars => TotalsInv'
  BY TotalsInvNext
<1> QED
  BY <1>1, <1>2, PTL DEF TotalsSpec

\* Every state of the totals has its type, whatever the lines, services and rates.
THEOREM TotalsTyped == TotalsSpec => []TotalsTypeOK
<1>1. TotalsInv => TotalsTypeOK
  <2> SUFFICES ASSUME TotalsInv PROVE TotalsTypeOK
    OBVIOUS
  <2>1. request.mode \in {"NONE", "GUIDED", "MANUAL"}
    BY DEF TotalsInv, GoodRequest, Shape, NoBody
  <2>2. /\ IsList(documents) /\ Len(documents) <= MaxDocuments
        /\ \A i \in DOMAIN documents : RowHolds(documents, i)
    BY DEF TotalsInv
  <2>3. Len(documents) \in Nat /\ DOMAIN documents = 1..Len(documents) /\ MaxDocuments \in Nat
    BY <2>2, TotalsBounds DEF IsList
  <2>4. ASSUME NEW d \in ToSet(documents)
        PROVE  /\ d.type \in {"DEVIS", "FACTURE"} /\ d.from \in 0..MaxDocuments /\ d.cloned \in BOOLEAN
               /\ d.vat.applicable \in BOOLEAN /\ IsTotals(d.agreed.totals)
    <3>1. PICK i \in DOMAIN documents : d = documents[i]
      BY DEF ToSet
    <3>2. RowHolds(documents, i) /\ i \in 1..Len(documents)
      BY <2>2, <2>3
    <3>3. d.from \in 0..(i - 1)
      BY <3>1, <3>2 DEF RowHolds
    <3>4. d.from \in 0..MaxDocuments
      BY <2>2, <2>3, <3>2, <3>3
    <3> QED
      BY <3>1, <3>2, <3>4 DEF RowHolds, IsVat
  <2> QED
    BY <2>1, <2>2, <2>4 DEF TotalsInv, TotalsTypeOK
<1> QED
  BY <1>1, TotalsInvariant, PTL

\* The invariant gives the property: totals depend neither on the order nor on the shares.
LEMMA AgreedTotals == TotalsInv => TotalsAgree
<1> SUFFICES ASSUME TotalsInv, NEW d \in ToSet(documents), NEW order \in Orders(d.body)
             PROVE  /\ d.agreed # NothingShown =>
                         /\ Subtotal(d, order) = d.agreed.totals.subtotal
                         /\ d.cloned \/ d.agreed.vat = d.vat =>
                              BodyTotals(d.body, d.vat, order) = d.agreed.totals
                    /\ Untouched(d) /\ d.body.mode = "GUIDED" =>
                         Subtotal(d, order) = Subtotal(documents[d.from], InPosition(d.body))
                    /\ Reconciles(d) =>
                         BodyTotals(d.body, d.vat, order) =
                           BodyTotals(documents[d.from].body, documents[d.from].vat, order)
  BY DEF TotalsAgree
<1>1. PICK i \in DOMAIN documents : d = documents[i]
  BY DEF ToSet
<1>2. /\ \A k \in DOMAIN documents : RowHolds(documents, k)
      /\ Len(documents) \in Nat /\ DOMAIN documents = 1..Len(documents)
  BY DEF TotalsInv, IsList
<1>3. RowHolds(documents, i) /\ GoodBody(d.body)
  BY <1>1, <1>2 DEF RowHolds
<1>4. InPosition(d.body) \in Orders(d.body)
  BY <1>3, OrdersOf DEF GoodBody
<1>5. \A vat : /\ BodyTotals(d.body, vat, order) = BodyTotals(d.body, vat, InPosition(d.body))
               /\ BodyTotals(d.body, vat, order).subtotal = Before(d.body)
  <2> DEFINE b == d.body
  <2>1. GoodBody(b) /\ order \in Orders(b)
    BY <1>3
  <2> HIDE DEF b
  <2>2. \A vat : /\ BodyTotals(b, vat, order) = BodyTotals(b, vat, InPosition(b))
                 /\ BodyTotals(b, vat, order).subtotal = Before(b)
    BY <2>1, BodyTotalsAre
  <2> QED
    BY <2>2 DEF b
<1>6. ASSUME d.agreed # NothingShown
      PROVE  /\ Subtotal(d, order) = d.agreed.totals.subtotal
             /\ d.cloned \/ d.agreed.vat = d.vat => BodyTotals(d.body, d.vat, order) = d.agreed.totals
  <2>1. /\ d.agreed.totals = BodyTotals(d.body, d.agreed.vat, InPosition(d.body))
        /\ d.cloned => d.agreed.vat = d.vat
    BY <1>1, <1>3, <1>6 DEF RowHolds
  <2>2. d.agreed.totals = BodyTotals(d.body, d.agreed.vat, order)
    BY <1>5, <2>1
  <2> QED
    BY <1>5, <2>1, <2>2 DEF Subtotal
<1>7. ASSUME Untouched(d), d.body.mode = "GUIDED"
      PROVE  Subtotal(d, order) = Subtotal(documents[d.from], InPosition(d.body))
  <2> DEFINE e == documents[d.from]
             b == d.body
             c == e.body
  <2>1. d.from # 0 /\ d.from \in 0..(i - 1) /\ Derived(b, c)
    BY <1>1, <1>3, <1>7 DEF RowHolds, Untouched
  <2>2. RowHolds(documents, d.from) /\ d.from \in DOMAIN documents
    BY <1>2, <2>1
  <2>3. GoodBody(c) /\ GoodBody(b) /\ SameAmounts(b, c) /\ SameOverrides(b, c)
    BY <1>3, <1>7, <2>1, <2>2 DEF RowHolds, Derived, SameOverrides
  <2> HIDE DEF b, c
  <2>4. InPosition(b) = InPosition(c) /\ Before(b) = Before(c)
    BY <2>3, SameAmountsSameTotals
  <2>5. InPosition(c) \in Orders(c)
    BY <2>3, OrdersOf DEF GoodBody
  <2>6. \A vat : BodyTotals(c, vat, InPosition(c)).subtotal = Before(c)
    BY <2>3, <2>5, BodyTotalsAre
  <2>7. Subtotal(e, InPosition(b)) = Before(c)
    BY <2>4, <2>6 DEF Subtotal, c
  <2>8. Subtotal(d, order) = Before(b)
    BY <1>5 DEF Subtotal, b
  <2> QED
    BY <2>4, <2>7, <2>8 DEF b, c
<1>8. ASSUME Reconciles(d)
      PROVE  BodyTotals(d.body, d.vat, order) =
               BodyTotals(documents[d.from].body, documents[d.from].vat, order)
  <2> DEFINE e == documents[d.from]
  <2>1. KeepsVat(d, e)
    BY <1>1, <1>3, <1>8 DEF RowHolds, Reconciles
  <2>2. /\ d.body.mode = "MANUAL" /\ e.body.mode = "MANUAL" /\ d.body.rows = e.body.rows
        /\ NoOverride(e.body) /\ NoOverride(d.body)
        /\ d.vat.applicable = e.vat.applicable /\ d.vat.rate = e.vat.rate
    <3>1. NoOverride(e.body)
      BY <1>8 DEF Reconciles, AllComputed, NoOverride
    <3> QED
      BY <1>8, <2>1, <3>1 DEF Reconciles, KeepsVat
  <2> HIDE DEF e
  <2> QED
    BY <2>2 DEF BodyTotals, ManualTotals, NoOverride, VatAmount, e
<1> QED
  BY <1>6, <1>7, <1>8

\* The totals read from the rows of a document are those its artisan agreed to, and a devis
\* reloaded keeps its amounts (InvoiceMapper, weightedSplit and both loadFromInvoice), however
\* many lines, services and documents there are and whatever order the repository reads the
\* weights in.
THEOREM TotalsAlwaysAgree == TotalsSpec => []TotalsAgree
  BY AgreedTotals, TotalsInvariant, PTL

-------------------------------------------------------------------------------
\* A service split by the cents of its own split moves no share by more than a cent.
LEMMA SharesStayClose ==
  ASSUME NEW n \in Nat, NEW s, IsSpread(s, n), NEW t, IsSpread(t, n), t.amount = s.amount,
         t.weights = s.weights
           \/ \E o : Reorders(o, n) /\ t.weights = Distribution(s, o),
         NEW p, Reorders(p, n), NEW q, Reorders(q, n), NEW i \in 1..n
  PROVE  Distribution(t, p)[i] - Distribution(s, q)[i] \in -1..1
<1> DEFINE a == s.amount
           whole == Sigma(s.weights)
           share == (a * s.weights[i]) \div whole
<1>1. ASSUME NEW o, Reorders(o, n) PROVE Distribution(s, o)[i] \in {share, share + 1}
  BY <1>1, DistributionExact
<1>2. share \in Int
  <2>1. Weights(s.weights) /\ a \in Int
    BY ReadWeights DEF IsSpread
  <2>2. whole \in Nat \ {0} /\ s.weights[i] \in Int
    BY <2>1, SigmaInt DEF Weights, Numbers, IsSpread
  <2> DEFINE m == a * s.weights[i]
  <2>3. m \in Int
    BY <2>1, <2>2
  <2> HIDE DEF m, whole
  <2>4. m \div whole \in Int
    BY <2>2, <2>3, Division
  <2> QED
    BY <2>4 DEF m, whole
<1>3. Distribution(t, p)[i] \in {share, share + 1}
  <2>1. CASE t.weights = s.weights
    <3>1. LET proportion == (t.amount * t.weights[i]) \div Sigma(t.weights)
          IN Distribution(t, p)[i] \in {proportion, proportion + 1}
      BY DistributionExact
    <3> QED
      BY <2>1, <3>1
  <2>2. ASSUME NEW o, Reorders(o, n), t.weights = Distribution(s, o)
        PROVE  Distribution(t, p)[i] \in {share, share + 1}
    <3> DEFINE w == t.weights[i]
    <3>1. Sigma(t.weights) = a
      BY <2>2, DistributionExact
    <3>2. a \in Nat /\ 0 < a /\ w \in Nat
      BY <3>1 DEF IsSpread
    <3>3. LET proportion == (t.amount * w) \div Sigma(t.weights)
              remainder == (t.amount * w) % Sigma(t.weights)
          IN remainder = 0 => Distribution(t, p)[i] = proportion
      BY DistributionExact
    <3>4. (a * w) % a = 0 => Distribution(t, p)[i] = (a * w) \div a
      BY <3>1, <3>3
    <3>5. (a * w) \div a = w /\ (a * w) % a = 0
      <4> HIDE DEF a, w
      <4> DEFINE m == a * w
      <4>1. m \in Int /\ m = a * w + 0 /\ a \in Int /\ w \in Int /\ 0 \in Int /\ 0 <= 0 /\ 0 < a
        BY <3>2
      <4>2. m \div a = w /\ m % a = 0
        <5> DEFINE z == 0
        <5>1. m \in Int /\ m = a * w + z /\ a \in Int /\ w \in Int /\ z \in Int /\ 0 <= z /\ z < a
          BY <4>1
        <5> HIDE DEF z, m
        <5>2. m \div a = w /\ m % a = z
          BY <5>1, <4>1, DivisionIs
        <5> QED
          BY <5>2 DEF z
      <4> QED
        BY <4>2
    <3>6. Distribution(t, p)[i] = w
      BY <3>4, <3>5
    <3>7. w \in {share, share + 1}
      BY <1>1, <2>2
    <3> QED
      BY <3>6, <3>7
  <2> QED
    BY <2>1, <2>2
<1>4. Distribution(s, q)[i] \in {share, share + 1}
  BY <1>1
<1> HIDE DEF share
<1> QED
  BY <1>2, <1>3, <1>4

\* Sums of numbers that stay within one of each other.
LEMMA SumsStayClose ==
  ASSUME NEW f, NEW g, Numbers(f), Numbers(g), DOMAIN f = DOMAIN g,
         \A x \in DOMAIN f : f[x] - g[x] \in -1..1
  PROVE  Sigma(f) - Sigma(g) \in -Cardinality(DOMAIN f)..Cardinality(DOMAIN f)
<1> DEFINE D == DOMAIN f
           h == [x \in D |-> f[x] - g[x]]
           up == [x \in D |-> 1]
           down == [x \in D |-> -1]
<1>1. IsFiniteSet(D) /\ Cardinality(D) \in Nat
  BY FS_CardinalityType DEF Numbers
<1>2. /\ Numbers(h) /\ DOMAIN h = D /\ \A x \in D : h[x] = 1 * f[x] + (-1) * g[x]
      /\ \A x \in D : h[x] \in -1..1
  BY <1>1 DEF Numbers
<1>3. /\ Numbers(up) /\ DOMAIN up = D /\ \A x \in D : up[x] = 1
      /\ Numbers(down) /\ DOMAIN down = D /\ \A x \in D : down[x] = -1
  BY <1>1 DEF Numbers
<1>4. Sigma(up) = 1 * Cardinality(D) /\ Sigma(down) = (-1) * Cardinality(D)
  <2> DEFINE c == 1
             k == -1
  <2>1. c \in Int /\ k \in Int
    OBVIOUS
  <2> HIDE DEF c, k, D
  <2>2. Sigma([x \in D |-> c]) = c * Cardinality(D) /\ Sigma([x \in D |-> k]) = k * Cardinality(D)
    BY <1>1, <2>1, SigmaConst
  <2> QED
    BY <2>2 DEF c, k, D
<1> HIDE DEF h, up, down
<1>5. Sigma(h) = 1 * Sigma(f) + (-1) * Sigma(g)
  <2> DEFINE x1 == 1
             y1 == -1
  <2>1. x1 \in Int /\ y1 \in Int /\ \A x \in DOMAIN h : h[x] = x1 * f[x] + y1 * g[x]
    BY <1>2
  <2> HIDE DEF x1, y1
  <2>2. Sigma(h) = x1 * Sigma(f) + y1 * Sigma(g)
    BY <1>2, <2>1, SigmaLinear
  <2> QED
    BY <2>2 DEF x1, y1
<1>6. Sigma(down) <= Sigma(h) /\ Sigma(h) <= Sigma(up)
  <2>1. \A x \in D : h[x] <= up[x] /\ down[x] <= h[x]
    BY <1>2, <1>3
  <2> QED
    BY <1>2, <1>3, <2>1, SigmaMono
<1>7. Sigma(f) \in Int /\ Sigma(g) \in Int
  BY SigmaInt
<1> QED
  BY <1>1, <1>4, <1>5, <1>6, <1>7

\* A line of a document made of another is the source's to a cent for each service.
LEMMA LinesStayClose ==
  ASSUME NEW b, GoodBody(b), NEW c, GoodBody(c), Derived(b, c), NEW order \in Orders(b),
         NEW i \in DOMAIN b.lines
  PROVE  LineTotals(b, order)[i] - LineTotals(c, InPosition(b))[i]
           \in -Cardinality(SpreadServices(b))..Cardinality(SpreadServices(b))
<1> DEFINE S == SpreadServices(b)
           pos == InPosition(b)
           own == LineTotal(b.lines[i])
           f == [j \in S |-> Distribution(b.services[j], order)[i]]
           g == [j \in S |-> Distribution(c.services[j], pos)[i]]
<1>1. PICK n \in Nat : GoodOf(b, n)
  BY DEF GoodBody
<1>2. PICK m \in Nat : GoodOf(c, m)
  BY DEF GoodBody
<1>3. SameAmounts(b, c) /\ SpreadServices(c) = S /\ InPosition(c) = pos /\ Orders(c) = Orders(b)
  BY SameAmountsSameTotals DEF Derived
<1>4. b.lines = c.lines /\ DOMAIN b.lines = 1..n /\ Len(b.lines) = n /\ Len(c.lines) = m
  BY <1>1, <1>2, <1>3 DEF SameAmounts, GoodOf, LinesOf
<1>5. m = n
  BY <1>4
<1>6. GoodOf(c, n)
  BY <1>2, <1>5
<1>7. i \in 1..n /\ IsLineItem(b.lines[i])
  BY <1>1, <1>4 DEF GoodOf, LinesOf
<1>8. Reorders(order, n) /\ Reorders(pos, n)
  <2>1. Reorders(order, n)
    BY <1>1, OrdersOf
  <2>2. pos \in Orders(b)
    BY <1>1, OrdersOf
  <2> HIDE DEF pos
  <2>3. Reorders(pos, n)
    BY <1>1, <2>2, OrdersOf
  <2> QED
    BY <2>1, <2>3
<1>9. /\ IsFiniteSet(S) /\ Cardinality(S) \in Nat
      /\ \A j \in S : IsSpread(b.services[j], n) /\ IsSpread(c.services[j], n)
  <2>1. IsFiniteSet(S) /\ \A j \in S : IsSpread(b.services[j], n)
    BY <1>1, ServicesOf
  <2>2. \A j \in SpreadServices(c) : IsSpread(c.services[j], n)
    BY <1>6, ServicesOf
  <2> QED
    BY <1>3, <2>1, <2>2, FS_CardinalityType
<1>10. LineTotals(b, order)[i] = own + Sigma(f)
  BY <1>1, <1>7, <1>8, LineTotalsOf
<1>11. LineTotals(c, pos)[i] = own + Sigma(g)
  <2>1. LineTotals(c, pos)[i]
          = LineTotal(c.lines[i]) + Sigma([j \in SpreadServices(c) |-> Distribution(c.services[j], pos)[i]])
    <3> HIDE DEF pos
    <3> QED
      BY <1>6, <1>7, <1>8, LineTotalsOf, SMTT(30)
  <2> QED
    BY <1>3, <1>4, <2>1
<1>12. ASSUME NEW j \in S
       PROVE  /\ f[j] \in Int /\ g[j] \in Int /\ f[j] - g[j] \in -1..1
  <2> DEFINE s == c.services[j]
             t == b.services[j]
  <2>1. IsSpread(s, n) /\ IsSpread(t, n) /\ t.amount = s.amount
    BY <1>3, <1>9 DEF SameAmounts, SpreadServices
  <2>2. t.weights = s.weights \/ \E o \in Orders(c) : t.weights = Distribution(s, o)
    BY DEF Derived
  <2>3. \A o \in Orders(c) : Reorders(o, n)
    BY <1>6, OrdersOf
  <2>4. t.weights = s.weights \/ \E o : Reorders(o, n) /\ t.weights = Distribution(s, o)
    BY <2>2, <2>3
  <2> HIDE DEF s, t, pos
  <2>5. Distribution(t, order)[i] - Distribution(s, pos)[i] \in -1..1
    BY <1>7, <1>8, <2>1, <2>4, SharesStayClose
  <2>6. Distribution(t, order) \in [1..n -> Nat] /\ Distribution(s, pos) \in [1..n -> Nat]
    BY <1>8, <2>1, SharesAreExact
  <2>7. f[j] = Distribution(t, order)[i] /\ g[j] = Distribution(s, pos)[i]
    BY DEF s, t
  <2> HIDE DEF f, g
  <2> QED
    BY <1>7, <2>5, <2>6, <2>7
<1>13. Numbers(f) /\ Numbers(g) /\ DOMAIN f = S /\ DOMAIN g = S
  BY <1>9, <1>12 DEF Numbers
<1> HIDE DEF f, g
<1>14. Sigma(f) - Sigma(g) \in -Cardinality(S)..Cardinality(S)
  BY <1>12, <1>13, SumsStayClose
<1>15. Sigma(f) \in Int /\ Sigma(g) \in Int
  BY <1>13, SigmaInt
<1>16. own \in Int
  BY <1>7, LineNumbers
<1> HIDE DEF own, S
<1> DEFINE x == LineTotals(b, order)[i]
           y == LineTotals(c, pos)[i]
<1>17. x - y = Sigma(f) - Sigma(g)
  <2>1. x = own + Sigma(f) /\ y = own + Sigma(g)
    BY <1>10, <1>11
  <2> HIDE DEF x, y
  <2> QED
    BY <1>15, <1>16, <2>1
<1> QED
  BY <1>14, <1>17 DEF S

\* The unit price printed gives the total of the line back up to its rounding.
LEMMA UnitPriceRounds ==
  ASSUME NEW l, IsLineItem(l), BilledQuantity(l) # 0, NEW total \in Nat
  PROVE  LET billed == BilledQuantity(l)
             rounding == 5000 + billed \div 2
         IN DisplayUnitPrice(l, total) * billed - total * 10000 \in -rounding..rounding
<1> DEFINE billed == BilledQuantity(l)
           price == l.unitPrice
           half == billed \div 2
<1>1. billed \in Nat /\ 0 < billed /\ price \in Nat
  BY LineNumbers
<1> HIDE DEF billed, price
<1>2. half \in Nat
  BY <1>1
<1> HIDE DEF half
<1>3. CASE total = LineTotal(l)
  <2> DEFINE m == billed * price
             d == 10000
  <2>1. m \in Int /\ d \in Nat /\ 0 < d
    BY <1>1
  <2>2. total = HalfUp(m, d)
    BY <1>3 DEF LineTotal, billed, price
  <2>3. DisplayUnitPrice(l, total) * billed = m
    <3>1. DisplayUnitPrice(l, total) = price
      BY <1>3 DEF DisplayUnitPrice, price
    <3> QED
      BY <1>1, <3>1
  <2> HIDE DEF m, d
  <2>4. d * HalfUp(m, d) - m \in -(d \div 2)..(d \div 2)
    BY <2>1, HalfUpRounds
  <2> DEFINE z == total * 10000
  <2>5. z \in Int /\ d \div 2 = 5000 /\ d * HalfUp(m, d) = z
    BY <2>2 DEF d
  <2> HIDE DEF z
  <2>6. z - m <= 5000 /\ -5000 <= z - m
    BY <2>1, <2>4, <2>5
  <2>7. m - z \in -(5000 + half)..(5000 + half)
    <3>1. m - z \in Int /\ m - z <= 5000 + half /\ -(5000 + half) <= m - z
      BY <1>2, <2>1, <2>5, <2>6
    <3> QED
      BY <1>2, <3>1
  <2> QED
    BY <2>3, <2>7 DEF z, half, billed
<1>4. CASE total # LineTotal(l)
  <2> DEFINE m == total * 10000
             h == HalfUp(m, billed)
  <2>1. m \in Int
    OBVIOUS
  <2>2. DisplayUnitPrice(l, total) = h
    BY <1>1, <1>4 DEF DisplayUnitPrice, EffectiveUnitPrice, billed
  <2> HIDE DEF m
  <2>3. h \in Int /\ billed * h - m \in -(billed \div 2)..(billed \div 2)
    BY <1>1, <2>1, HalfUpRounds
  <2> HIDE DEF h
  <2>4. h * billed = billed * h /\ billed * h \in Int
    BY <1>1, <2>3
  <2> DEFINE p == billed * h
  <2>5. p \in Int /\ p - m \in -half..half /\ h * billed = p
    BY <2>3, <2>4 DEF half
  <2> HIDE DEF p
  <2>6. p - m \in -(5000 + half)..(5000 + half)
    BY <1>2, <2>1, <2>5
  <2> QED
    BY <2>2, <2>5, <2>6 DEF m, half, billed
<1> QED
  BY <1>3, <1>4

\* The invariant gives the property of the lines.
LEMMA AgreedLines == TotalsInv => LinesAgree
<1> SUFFICES ASSUME TotalsInv, NEW d \in ToSet(documents), NEW order \in Orders(d.body)
             PROVE  /\ \A j \in SpreadServices(d.body) : SharesExactly(d.body.services[j], order)
                    /\ \A i \in DOMAIN d.body.lines :
                         LET mine == LineTotals(d.body, order)[i]
                             theirs == LineTotals(documents[d.from].body, InPosition(d.body))[i]
                             slack == Cardinality(SpreadServices(d.body))
                             billed == BilledQuantity(d.body.lines[i])
                             product == DisplayUnitPrice(d.body.lines[i], mine) * billed
                             rounding == 5000 + billed \div 2
                         IN /\ Untouched(d) => mine - theirs \in -slack..slack
                            /\ billed # 0 => product - mine * 10000 \in -rounding..rounding
  BY DEF LinesAgree
<1> DEFINE b == d.body
           e == documents[d.from]
           c == e.body
<1>1. PICK k \in DOMAIN documents : d = documents[k]
  BY DEF ToSet
<1>2. /\ \A x \in DOMAIN documents : RowHolds(documents, x)
      /\ Len(documents) \in Nat /\ DOMAIN documents = 1..Len(documents)
  BY DEF TotalsInv, IsList
<1>3. RowHolds(documents, k) /\ GoodBody(b)
  BY <1>1, <1>2 DEF RowHolds
<1>4. PICK n \in Nat : GoodOf(b, n)
  BY <1>3 DEF GoodBody
<1>5. Untouched(d) => GoodBody(c) /\ Derived(b, c)
  <2> SUFFICES ASSUME Untouched(d) PROVE GoodBody(c) /\ Derived(b, c)
    OBVIOUS
  <2>1. d.from # 0 /\ d.from \in 0..(k - 1) /\ Derived(b, c)
    BY <1>1, <1>3 DEF RowHolds, Untouched
  <2>2. RowHolds(documents, d.from)
    BY <1>2, <2>1
  <2> QED
    BY <2>1, <2>2 DEF RowHolds
<1> HIDE DEF b, c
<1>6. Reorders(order, n) /\ order \in Orders(b)
  BY <1>4, OrdersOf DEF b
<1>7. ASSUME NEW j \in SpreadServices(b) PROVE SharesExactly(b.services[j], order)
  <2>1. IsSpread(b.services[j], n)
    BY <1>4, ServicesOf
  <2> QED
    BY <1>6, <2>1, SharesAreExact
<1>8. ASSUME NEW i \in DOMAIN b.lines
      PROVE  LET mine == LineTotals(b, order)[i]
                 theirs == LineTotals(c, InPosition(b))[i]
                 slack == Cardinality(SpreadServices(b))
                 billed == BilledQuantity(b.lines[i])
                 product == DisplayUnitPrice(b.lines[i], mine) * billed
                 rounding == 5000 + billed \div 2
             IN /\ Untouched(d) => mine - theirs \in -slack..slack
                /\ billed # 0 => product - mine * 10000 \in -rounding..rounding
  <2>1. i \in 1..n /\ IsLineItem(b.lines[i])
    BY <1>4 DEF GoodOf, LinesOf
  <2>2. LineTotals(b, order)[i] \in Nat
    BY <1>4, <1>6, <2>1, LineTotalsOf
  <2> DEFINE l == b.lines[i]
             mine == LineTotals(b, order)[i]
  <2> HIDE DEF l, mine
  <2>3. ASSUME BilledQuantity(l) # 0
        PROVE  LET billed == BilledQuantity(l)
                   rounding == 5000 + billed \div 2
               IN DisplayUnitPrice(l, mine) * billed - mine * 10000 \in -rounding..rounding
    BY <2>1, <2>2, <2>3, UnitPriceRounds DEF l, mine
  <2>4. ASSUME Untouched(d)
        PROVE  mine - LineTotals(c, InPosition(b))[i]
                 \in -Cardinality(SpreadServices(b))..Cardinality(SpreadServices(b))
    BY <1>3, <1>5, <1>6, <2>4, LinesStayClose DEF mine
  <2> QED
    BY <2>3, <2>4 DEF l, mine
<1> QED
  BY <1>7, <1>8 DEF b, c

\* No cent of a redistributed service is lost or invented, a converted document keeps its
\* lines to a cent per service, and a unit price gives its total back up to its rounding
\* (weightedSplit and effectiveUnitPrice), whatever the lines and the orders.
THEOREM LinesAlwaysAgree == TotalsSpec => []LinesAgree
  BY AgreedLines, TotalsInvariant, PTL

-------------------------------------------------------------------------------
(* More about sums                                                          *)

\* The sum of two sums.
LEMMA SigmaPlus ==
  ASSUME NEW f, NEW g, NEW h, Numbers(f), Numbers(g), DOMAIN f = DOMAIN h, DOMAIN g = DOMAIN h,
         \A x \in DOMAIN h : h[x] = f[x] + g[x]
  PROVE  Numbers(h) /\ Sigma(h) = Sigma(f) + Sigma(g) /\ Sigma(f) \in Int /\ Sigma(g) \in Int
<1>1. Numbers(h) /\ \A x \in DOMAIN h : h[x] = 1 * f[x] + 1 * g[x]
  BY DEF Numbers
<1>2. Sigma(h) = 1 * Sigma(f) + 1 * Sigma(g)
  BY <1>1, SigmaLinear
<1>3. Sigma(f) \in Int /\ Sigma(g) \in Int
  BY SigmaInt
<1> QED
  BY <1>1, <1>2, <1>3

\* The difference of two sums.
LEMMA SigmaMinus ==
  ASSUME NEW f, NEW g, NEW h, Numbers(f), Numbers(g), DOMAIN f = DOMAIN h, DOMAIN g = DOMAIN h,
         \A x \in DOMAIN h : h[x] = f[x] - g[x]
  PROVE  Numbers(h) /\ Sigma(h) = Sigma(f) - Sigma(g) /\ Sigma(f) \in Int /\ Sigma(g) \in Int
<1>1. Numbers(h) /\ \A x \in DOMAIN h : h[x] = 1 * f[x] + (-1) * g[x]
  BY DEF Numbers
<1>2. Sigma(h) = 1 * Sigma(f) + (-1) * Sigma(g)
  BY <1>1, SigmaLinear
<1>3. Sigma(f) \in Int /\ Sigma(g) \in Int
  BY SigmaInt
<1> QED
  BY <1>1, <1>2, <1>3

\* A sum over a part of the places, as a sum over all of them.
LEMMA SigmaWhere ==
  ASSUME NEW f, Numbers(f), NEW g, DOMAIN g \in SUBSET DOMAIN f,
         \A x \in DOMAIN f : f[x] = IF x \in DOMAIN g THEN g[x] ELSE 0
  PROVE  Numbers(g) /\ Sigma(g) = Sigma(f)
<1> DEFINE S == DOMAIN g
           T == DOMAIN f \ S
           kept == [x \in S |-> f[x]]
           dropped == [x \in T |-> f[x]]
<1>1. IsFiniteSet(S) /\ IsFiniteSet(T) /\ S \in SUBSET DOMAIN f /\ T \in SUBSET DOMAIN f
  BY FS_Subset DEF Numbers
<1>2. Numbers(g) /\ Numbers(kept) /\ DOMAIN kept = S /\ \A x \in S : g[x] = kept[x]
  BY <1>1 DEF Numbers
<1>3. dropped = [x \in T |-> 0]
  OBVIOUS
<1> HIDE DEF kept, dropped, S, T
<1>4. Sigma(kept) = Total(f, S)
  BY <1>1, SigmaOnSubset DEF kept
<1>5. Sigma(dropped) = Total(f, T)
  BY <1>1, SigmaOnSubset DEF dropped
<1>6. Sigma(dropped) = 0
  <2>1. Cardinality(T) \in Nat /\ 0 \in Int
    BY <1>1, FS_CardinalityType
  <2>2. Sigma([x \in T |-> 0]) = 0 * Cardinality(T)
    BY <1>1, <2>1, SigmaConst
  <2> QED
    BY <1>3, <2>1, <2>2
<1>7. Sigma(f) = Total(f, S) + Total(f, DOMAIN f \ S) /\ Total(f, S) \in Int
  BY <1>1, SigmaSplit, TotalInt
<1>8. Sigma(g) = Sigma(kept)
  BY <1>2, SigmaSame DEF S
<1> QED
  BY <1>2, <1>4, <1>5, <1>6, <1>7, <1>8 DEF T

\* One place alone.
LEMMA SigmaAt ==
  ASSUME NEW f, Numbers(f), NEW z \in DOMAIN f, \A x \in DOMAIN f : x # z => f[x] = 0
  PROVE  Sigma(f) = f[z]
<1> DEFINE g == [x \in {z} |-> f[z]]
<1>1. DOMAIN g = {z} /\ \A x \in DOMAIN f : f[x] = IF x \in DOMAIN g THEN g[x] ELSE 0
  OBVIOUS
<1>2. Sigma(g) = f[z] * Cardinality({z})
  <2>1. IsFiniteSet({z}) /\ f[z] \in Int
    BY FS_Singleton DEF Numbers
  <2> QED
    BY <2>1, SigmaConst
<1> HIDE DEF g
<1>3. Sigma(g) = Sigma(f)
  BY <1>1, SigmaWhere
<1>4. Cardinality({z}) = 1 /\ f[z] \in Int
  BY FS_Singleton DEF Numbers
<1> QED
  BY <1>2, <1>3, <1>4

\* A sum of natural numbers is one, and no less than any of them.
LEMMA SigmaNat ==
  ASSUME NEW f, Numbers(f), \A x \in DOMAIN f : f[x] \in Nat
  PROVE  Sigma(f) \in Nat /\ \A x \in DOMAIN f : f[x] <= Sigma(f)
<1> DEFINE zero == [x \in DOMAIN f |-> 0]
<1>1. Numbers(zero) /\ DOMAIN zero = DOMAIN f /\ \A x \in DOMAIN f : zero[x] = 0
  BY DEF Numbers
<1>2. IsFiniteSet(DOMAIN f)
  BY DEF Numbers
<1> HIDE DEF zero
<1>3. Sigma(zero) = 0
  <2>1. CASE DOMAIN f = {}
    BY <1>1, <2>1, SigmaEmpty
  <2>2. CASE \E z : z \in DOMAIN f
    <3>1. PICK z : z \in DOMAIN f
      BY <2>2
    <3> QED
      BY <1>1, <3>1, SigmaAt
  <2> QED
    BY <2>1, <2>2
<1>4. Sigma(zero) <= Sigma(f) /\ Sigma(f) \in Int
  BY <1>1, SigmaMono, SigmaInt
<1>5. ASSUME NEW x \in DOMAIN f PROVE f[x] <= Sigma(f)
  <2> DEFINE one == [y \in DOMAIN f |-> IF y = x THEN f[x] ELSE 0]
  <2>1. Numbers(one) /\ DOMAIN one = DOMAIN f /\ one[x] = f[x]
        /\ (\A y \in DOMAIN one : y # x => one[y] = 0) /\ \A y \in DOMAIN f : one[y] <= f[y]
    BY DEF Numbers
  <2> HIDE DEF one
  <2>2. Sigma(one) = one[x]
    BY <2>1, SigmaAt
  <2>3. Sigma(one) <= Sigma(f)
    BY <2>1, SigmaMono
  <2> QED
    BY <2>1, <2>2, <2>3
<1> QED
  BY <1>3, <1>4, <1>5

\* A sum over a part of numbers that are not negative is no more than the whole.
LEMMA SigmaPart ==
  ASSUME NEW f, Numbers(f), \A x \in DOMAIN f : f[x] \in Nat,
         NEW g, DOMAIN g \in SUBSET DOMAIN f, \A x \in DOMAIN g : g[x] \in Nat /\ g[x] <= f[x]
  PROVE  Numbers(g) /\ Sigma(g) \in Nat /\ Sigma(g) <= Sigma(f)
<1> DEFINE h == [x \in DOMAIN f |-> IF x \in DOMAIN g THEN g[x] ELSE 0]
<1>1. IsFiniteSet(DOMAIN f) /\ \A x \in DOMAIN f : f[x] \in Int
  BY DEF Numbers
<1>2. Numbers(h) /\ DOMAIN h = DOMAIN f /\ (\A x \in DOMAIN h : h[x] = IF x \in DOMAIN g THEN g[x] ELSE 0)
      /\ \A x \in DOMAIN h : h[x] <= f[x]
  BY <1>1 DEF Numbers
<1> HIDE DEF h
<1>3. Numbers(g) /\ Sigma(g) = Sigma(h)
  BY <1>2, SigmaWhere
<1>4. Sigma(h) <= Sigma(f)
  BY <1>2, SigmaMono
<1>5. Sigma(g) \in Nat
  BY <1>3, SigmaNat
<1> QED
  BY <1>3, <1>4, <1>5

\* A list of numbers.
LEMMA NumbersOfList ==
  ASSUME NEW s \in Seq(Int)
  PROVE  Numbers(s) /\ IsFiniteSet(DOMAIN s)
<1>1. Len(s) \in Nat /\ DOMAIN s = 1..Len(s) /\ \A k \in 1..Len(s) : s[k] \in Int
  OBVIOUS
<1>2. IsFiniteSet(1..Len(s))
  BY <1>1, FS_Interval
<1> QED
  BY <1>1, <1>2 DEF Numbers

\* Numbers that are apart by no more than others sum up so.
LEMMA SigmaApart ==
  ASSUME NEW f, NEW g, NEW h, Numbers(f), Numbers(g), Numbers(h),
         DOMAIN f = DOMAIN h, DOMAIN g = DOMAIN h, \A x \in DOMAIN h : f[x] - g[x] <= h[x]
  PROVE  Sigma(f) - Sigma(g) <= Sigma(h)
<1> DEFINE d == [x \in DOMAIN h |-> f[x] - g[x]]
<1>1. DOMAIN d = DOMAIN h /\ \A x \in DOMAIN d : d[x] = f[x] - g[x]
  OBVIOUS
<1> HIDE DEF d
<1>2. Numbers(d) /\ Sigma(d) = Sigma(f) - Sigma(g)
  BY <1>1, SigmaMinus
<1>3. Sigma(d) <= Sigma(h)
  BY <1>1, <1>2, SigmaMono
<1> QED
  BY <1>2, <1>3

\* s holds, key by key, the sums of the numbers of f that a key masks.
Masked(f, key, s, row) ==
  /\ Numbers(f) /\ IsFiniteSet(DOMAIN s)
  /\ \A x \in DOMAIN f : key[x] \in DOMAIN s
  /\ \A r \in DOMAIN s : /\ s[r] = Sigma(row[r]) /\ DOMAIN row[r] = DOMAIN f
                         /\ \A x \in DOMAIN f : row[r][x] = IF key[x] = r THEN f[x] ELSE 0

\* Masked by a key, numbers add up key by key.
LEMMA SigmaMasked ==
  ASSUME NEW f, NEW key, NEW s, NEW row, Masked(f, key, s, row)
  PROVE  Sigma(s) = Sigma(f) /\ Numbers(s)
<1> DEFINE D == DOMAIN f
           R == DOMAIN s
           column == [x \in D |-> [r \in R |-> IF key[x] = r THEN f[x] ELSE 0]]
<1>1. /\ \A r \in R : DOMAIN row[r] = D /\ s[r] = Sigma(row[r])
      /\ \A x \in D : DOMAIN column[x] = R
      /\ \A r \in R, x \in D : row[r][x] = IF key[x] = r THEN f[x] ELSE 0
      /\ \A r \in R, x \in D : column[x][r] = IF key[x] = r THEN f[x] ELSE 0
  BY DEF Masked
<1>2. IsFiniteSet(D) /\ IsFiniteSet(R) /\ \A x \in D : f[x] \in Int /\ key[x] \in R
  BY DEF Masked, Numbers
<1> HIDE DEF column
<1>4. ASSUME NEW x \in D PROVE f[x] = Sigma(column[x])
  <2> DEFINE q == column[x]
  <2>1. Numbers(q)
    BY <1>1, <1>2 DEF Numbers
  <2>2. key[x] \in DOMAIN q /\ q[key[x]] = f[x] /\ \A r \in DOMAIN q : r # key[x] => q[r] = 0
    BY <1>1, <1>2
  <2> HIDE DEF q
  <2>3. Sigma(q) = q[key[x]]
    BY <2>1, <2>2, SigmaAt
  <2> QED
    BY <2>2, <2>3 DEF q
<1>5. Edges(s, f, row, column)
  BY <1>1, <1>2, <1>4 DEF Edges
<1> QED
  BY <1>5, SigmaTurned

\* s holds, key by key, the sums of the parts that a key puts the numbers of f in.
PutApart(f, key, s, part) ==
  /\ Numbers(f) /\ IsFiniteSet(DOMAIN s)
  /\ \A x \in DOMAIN f : key[x] \in DOMAIN s
  /\ \A r \in DOMAIN s : /\ s[r] = Sigma(part[r])
                         /\ \A x : x \in DOMAIN part[r] <=> x \in DOMAIN f /\ key[x] = r
                         /\ \A x \in DOMAIN part[r] : part[r][x] = f[x]

\* Numbers put apart by a key add up key by key.
LEMMA SigmaFibers ==
  ASSUME NEW f, NEW key, NEW s, NEW part, PutApart(f, key, s, part)
  PROVE  Sigma(s) = Sigma(f) /\ Numbers(s)
<1> DEFINE D == DOMAIN f
           R == DOMAIN s
           row == [r \in R |-> [x \in D |-> IF key[x] = r THEN f[x] ELSE 0]]
<1>1. /\ \A r \in R : DOMAIN row[r] = D
      /\ \A r \in R, x \in D : row[r][x] = IF key[x] = r THEN f[x] ELSE 0
  OBVIOUS
<1>2. IsFiniteSet(D) /\ \A x \in D : f[x] \in Int
  BY DEF PutApart, Numbers
<1> HIDE DEF row
<1>3. ASSUME NEW r \in R PROVE s[r] = Sigma(row[r])
  <2> DEFINE p == part[r]
             q == row[r]
  <2>1. Numbers(q)
    BY <1>1, <1>2 DEF Numbers
  <2>2. s[r] = Sigma(p) /\ (\A x : x \in DOMAIN p <=> x \in D /\ key[x] = r) /\ (\A x \in DOMAIN p : p[x] = f[x])
    BY DEF PutApart
  <2>3. DOMAIN q = D /\ \A x \in D : q[x] = IF key[x] = r THEN f[x] ELSE 0
    BY <1>1
  <2> HIDE DEF p, q, D, R
  <2>4. DOMAIN p \in SUBSET DOMAIN q
    BY <2>2, <2>3
  <2>5. \A x \in DOMAIN q : q[x] = IF x \in DOMAIN p THEN p[x] ELSE 0
    BY <2>2, <2>3
  <2>6. Sigma(p) = Sigma(q)
    BY <2>1, <2>4, <2>5, SigmaWhere
  <2> QED
    BY <2>2, <2>6 DEF q
<1>4. Masked(f, key, s, row)
  BY <1>1, <1>3 DEF PutApart, Masked
<1> QED
  BY <1>4, SigmaMasked

\* The values of a finite function are finitely many.
LEMMA FiniteValues ==
  ASSUME NEW f, IsFiniteSet(DOMAIN f)
  PROVE  IsFiniteSet({f[x] : x \in DOMAIN f})
<1> DEFINE T == {f[x] : x \in DOMAIN f}
           g == [x \in DOMAIN f |-> f[x]]
<1>1. g \in Surjection(DOMAIN f, T)
  BY DEF Surjection
<1> QED
  BY <1>1, FS_Surjection

-------------------------------------------------------------------------------
(* Reports: the book                                                        *)

Statuses == {"NON_PAYEE", "ACOMPTE_VERSE", "PAYEE", "ANNULEE"}
Entries == [bill : Bills, status : Statuses, paidAt : Int]

(* What is booked is a bill, and was paid at a moment past exactly when    *)
(* its status says so.                                                     *)
ReportsInv ==
  /\ margin \in Margins /\ now \in 0..LastMoment
  /\ book \in Seq(Entries) /\ Len(book) <= MaxBooked
  /\ \A i \in DOMAIN book : IF book[i].status = "PAYEE" THEN book[i].paidAt \in 0..now
                            ELSE book[i].paidAt = NotPaid

\* At first nothing is booked.
LEMMA ReportsInvInit == ReportsInit => ReportsInv
  BY ReportBounds DEF ReportsInit, ReportsInv, Entries

\* A facture is booked unpaid.
LEMMA IssueFactureKeeps ==
  ASSUME ReportsInv, IssueFacture
  PROVE  ReportsInv'
<1>1. PICK bill \in Bills :
        book' = Append(book, [bill |-> bill, status |-> "NON_PAYEE", paidAt |-> NotPaid])
  BY DEF IssueFacture
<1> DEFINE e == [bill |-> bill, status |-> "NON_PAYEE", paidAt |-> NotPaid]
<1>2. e \in Entries /\ e.status = "NON_PAYEE" /\ e.paidAt = NotPaid
  BY DEF Entries, Statuses, NotPaid
<1>3. book' = Append(book, e) /\ Len(book) < MaxBooked /\ margin' = margin /\ now' = now
  BY <1>1 DEF IssueFacture
<1> HIDE DEF e
<1>4. book \in Seq(Entries)
  BY DEF ReportsInv
<1>5. /\ book' \in Seq(Entries) /\ Len(book') = Len(book) + 1 /\ book'[Len(book) + 1] = e
      /\ \A i \in 1..Len(book) : book'[i] = book[i]
  BY <1>2, <1>3, <1>4
<1>6. Len(book) \in Nat /\ DOMAIN book = 1..Len(book) /\ DOMAIN book' = 1..(Len(book) + 1)
  BY <1>4, <1>5
<1>7. Len(book') <= MaxBooked
  BY <1>3, <1>5, <1>6, ReportBounds
<1> QED
  BY <1>2, <1>3, <1>5, <1>6, <1>7 DEF ReportsInv

\* Its moment comes and goes with its status.
LEMMA SetStatusKeeps ==
  ASSUME ReportsInv, NEW i \in DOMAIN book, NEW to \in Statuses, SetStatus(i, to)
  PROVE  ReportsInv'
<1> DEFINE paid == IF to = "PAYEE" THEN (IF book[i].paidAt = NotPaid THEN now ELSE book[i].paidAt)
                   ELSE IF to # book[i].status THEN NotPaid ELSE book[i].paidAt
           e == [book[i] EXCEPT !.status = to, !.paidAt = paid]
<1>1. book' = [book EXCEPT ![i] = e] /\ margin' = margin /\ now' = now
  BY DEF SetStatus
<1>2. /\ book \in Seq(Entries) /\ Len(book) \in Nat /\ DOMAIN book = 1..Len(book) /\ book[i] \in Entries
      /\ now \in Nat
  BY ReportBounds DEF ReportsInv
<1>3. /\ book[i].status # "PAYEE" => book[i].paidAt = NotPaid
      /\ book[i].status = "PAYEE" => book[i].paidAt \in 0..now
  BY DEF ReportsInv
<1>4. IF to = "PAYEE" THEN paid \in 0..now ELSE paid = NotPaid
  BY <1>2, <1>3 DEF Statuses
<1>5. e \in Entries /\ e.status = to /\ e.paidAt = paid
  <2>1. paid \in Int
    BY <1>4, <1>2 DEF NotPaid
  <2> HIDE DEF paid
  <2> QED
    BY <1>2, <2>1 DEF Entries
<1> HIDE DEF e, paid
<1>6. book' \in Seq(Entries) /\ Len(book') = Len(book)
  BY <1>1, <1>2, <1>5, ExceptSeq
<1>7. DOMAIN book' = DOMAIN book /\ book'[i] = e /\ \A j \in DOMAIN book : j # i => book'[j] = book[j]
  BY <1>1
<1>8. \A j \in DOMAIN book' : IF book'[j].status = "PAYEE" THEN book'[j].paidAt \in 0..now
                              ELSE book'[j].paidAt = NotPaid
  BY <1>4, <1>5, <1>7 DEF ReportsInv
<1> QED
  BY <1>1, <1>6, <1>8 DEF ReportsInv

\* The margin of the item leaves the book alone.
LEMMA EditMarginKeeps ==
  ASSUME ReportsInv, EditMargin
  PROVE  ReportsInv'
  BY DEF EditMargin, ReportsInv

\* What is paid stays in the past.
LEMMA TimePassesKeeps ==
  ASSUME ReportsInv, TimePasses
  PROVE  ReportsInv'
<1>1. /\ margin' = margin /\ book' = book /\ now' = now + 1 /\ now < LastMoment
      /\ now \in 0..LastMoment
  BY DEF TimePasses, ReportsInv
<1>2. now' \in 0..LastMoment /\ \A t : t \in 0..now => t \in 0..now'
  BY <1>1, ReportBounds
<1> QED
  BY <1>1, <1>2 DEF ReportsInv

\* Every step keeps the book.
LEMMA ReportsInvNext == ReportsInv /\ [ReportsNext]_reportVars => ReportsInv'
<1> SUFFICES ASSUME ReportsInv, [ReportsNext]_reportVars PROVE ReportsInv'
  OBVIOUS
<1>1. CASE IssueFacture
  BY <1>1, IssueFactureKeeps
<1>2. CASE EditMargin
  BY <1>2, EditMarginKeeps
<1>3. CASE TimePasses
  BY <1>3, TimePassesKeeps
<1>4. CASE \E i \in DOMAIN book, to \in Statuses : SetStatus(i, to)
  BY <1>4, SetStatusKeeps
<1>5. CASE UNCHANGED reportVars
  BY <1>5 DEF reportVars, ReportsInv
<1> QED
  BY <1>1, <1>2, <1>3, <1>4, <1>5 DEF ReportsNext, Statuses

\* The book of Reports, whatever the artisan does and however time passes.
THEOREM ReportsInvariant == ReportsSpec => []ReportsInv
<1>1. ReportsInit => ReportsInv
  BY ReportsInvInit
<1>2. ReportsInv /\ [ReportsNext]_reportVars => ReportsInv'
  BY ReportsInvNext
<1> QED
  BY <1>1, <1>2, PTL DEF ReportsSpec

(* Type correctness of Reports.                                            *)
THEOREM ReportsTyped == ReportsSpec => []ReportsTypeOK
<1>1. ReportsInv => ReportsTypeOK
  <2> SUFFICES ASSUME ReportsInv PROVE ReportsTypeOK
    OBVIOUS
  <2>1. \A i \in DOMAIN book : book[i] \in Entries
    BY DEF ReportsInv
  <2>2. ASSUME NEW i \in DOMAIN book PROVE book[i].bill \in Bills /\ book[i].paidAt \in {NotPaid} \cup 0..now
    BY <2>1 DEF ReportsInv, Entries
  <2> QED
    BY <2>2 DEF ReportsInv, ReportsTypeOK
<1> QED
  BY <1>1, ReportsInvariant, PTL

-------------------------------------------------------------------------------
(* Reports: a facture, whatever order its weights come back in              *)

\* What a facture is before its discounts.
Gross(b) ==
  IF b.mode = "MANUAL" THEN Before(b)
  ELSE Own(b) + Amounts(b, SpreadServices(b)) + Amounts(b, Visible(b))

\* What the validators let through is a good body.
LEMMA BilledBody ==
  ASSUME NEW b, IsBilledBody(b)
  PROVE  GoodOf(b, Len(b.lines)) /\ GoodBody(b) /\ Len(b.lines) \in Nat
<1> DEFINE n == Len(b.lines)
<1>1. n \in Nat /\ DOMAIN b.lines = 1..n /\ \A i \in 1..n : IsLineItem(b.lines[i])
  BY DEF IsBilledBody
<1>2. IsFiniteSet(DOMAIN b.services)
  <2>1. Len(b.services) \in Nat /\ DOMAIN b.services = 1..Len(b.services)
    BY DEF IsBilledBody
  <2> QED
    BY <2>1, FS_Interval
<1>3. Numbers(b.remises)
  <2>1. b.remises \in Seq(Int)
    BY DEF IsBilledBody
  <2> QED
    BY <2>1, NumbersOfList
<1>4. b.mode = "MANUAL" => Numbers(b.rows) /\ b.subtotal \in Int /\ b.vat \in Int /\ b.total \in Int
  <2> SUFFICES ASSUME b.mode = "MANUAL" PROVE Numbers(b.rows) /\ {b.subtotal, b.vat, b.total} \subseteq Int
    OBVIOUS
  <2>1. b.rows \in Seq(Int) /\ {b.subtotal, b.vat, b.total} \subseteq Int
    BY DEF IsBilledBody, Unset
  <2> QED
    BY <2>1, NumbersOfList
<1>5. Shape(b)
  BY <1>4 DEF Shape, IsBilledBody, Unset
<1>6. LinesOf(b, n)
  BY <1>1, <1>2, <1>3 DEF LinesOf
<1>7. ASSUME NEW j \in DOMAIN b.services PROVE GoodService(b.services[j], n)
  <2>1. IsBilledService(b.services[j], n)
    BY DEF IsBilledBody
  <2> HIDE DEF n
  <2> QED
    BY <2>1 DEF IsBilledService, GoodService
<1> HIDE DEF n
<1>8. GoodOf(b, n)
  BY <1>5, <1>6, <1>7 DEF GoodOf
<1> QED
  BY <1>1, <1>8 DEF n, GoodBody

\* An order for each facture of the book.
IsReading(order) == \A i \in DOMAIN book : order[i] \in Orders(Body(i))

\* What is booked is a bill, with the body, VAT and deposit of one.
LEMMA BillOf ==
  ASSUME ReportsInv, NEW i \in DOMAIN book
  PROVE  /\ book[i].bill \in Bills /\ IsBilledBody(Body(i)) /\ GoodBody(Body(i))
         /\ book[i].bill.vat \in [applicable : BOOLEAN, rate : Nat] /\ IsVat(book[i].bill.vat)
         /\ book[i].bill.deposit \in Nat \cup {Unset} /\ book[i].status \in Statuses
<1>1. book[i] \in Entries
  BY DEF ReportsInv
<1>2. book[i].bill \in Bills /\ book[i].status \in Statuses
  BY <1>1 DEF Entries
<1>3. /\ IsBilledBody(book[i].bill.body) /\ book[i].bill.deposit \in Nat \cup {Unset}
      /\ book[i].bill.vat \in [applicable : BOOLEAN, rate : Nat]
  BY <1>2, ReportData
<1>4. IsVat(book[i].bill.vat)
  BY <1>3 DEF IsVat
<1>5. GoodBody(book[i].bill.body)
  BY <1>3, BilledBody
<1> QED
  BY <1>2, <1>3, <1>4, <1>5 DEF Body

\* Discounts only take away, and never below nothing.
LEMMA GrossIs ==
  ASSUME NEW b, IsBilledBody(b)
  PROVE  /\ Gross(b) \in Nat /\ Before(b) \in Nat /\ Sigma(b.remises) \in Nat
         /\ Before(b) <= Gross(b) /\ Gross(b) - Sigma(b.remises) <= Before(b)
         /\ Before(b) > 0 => Before(b) = Gross(b) - Sigma(b.remises)
<1> DEFINE n == Len(b.lines)
           taken == Sigma(b.remises)
<1>1. GoodOf(b, n) /\ GoodBody(b) /\ n \in Nat
  BY BilledBody
<1>2. taken \in Nat
  <2>1. b.remises \in Seq(Int) /\ \A k \in DOMAIN b.remises : b.remises[k] \in Nat
    BY DEF IsBilledBody
  <2> QED
    BY <2>1, NumbersOfList, SigmaNat
<1>3. CASE b.mode = "MANUAL"
  <2>1. b.remises = <<>> /\ b.rows \in Seq(Int) /\ (\A k \in DOMAIN b.rows : b.rows[k] \in Nat)
        /\ b.subtotal \in Nat \cup {Unset}
    BY <1>3 DEF IsBilledBody
  <2>2. Sigma(b.rows) \in Nat
    BY <2>1, NumbersOfList, SigmaNat
  <2>3. taken = 0
    BY <2>1, SigmaEmpty
  <2>4. Before(b) \in Nat /\ Gross(b) = Before(b)
    BY <1>3, <2>1, <2>2 DEF Before, Gross, OrElse, Unset
  <2> QED
    BY <2>3, <2>4
<1>4. CASE b.mode # "MANUAL"
  <2> DEFINE own == Own(b)
             spread == Amounts(b, SpreadServices(b))
             apart == Amounts(b, Visible(b))
  <2>1. own \in Nat
    <3> DEFINE f == [i \in DOMAIN b.lines |-> LineTotal(b.lines[i])]
    <3>0. DOMAIN b.lines = 1..n /\ \A i \in 1..n : IsLineItem(b.lines[i])
      BY <1>1 DEF GoodOf, LinesOf
    <3>1. IsFiniteSet(1..n)
      BY <1>1, FS_Interval
    <3>2. Numbers(f) /\ \A i \in DOMAIN f : f[i] \in Nat
      BY <3>0, <3>1, LineNumbers DEF Numbers
    <3> HIDE DEF f
    <3>3. Sigma(f) \in Nat
      BY <3>2, SigmaNat
    <3> QED
      BY <3>3 DEF f, Own
  <2>2. ASSUME NEW S \in SUBSET DOMAIN b.services PROVE Amounts(b, S) \in Nat
    <3> DEFINE f == [j \in S |-> b.services[j].amount]
    <3>1. IsFiniteSet(S) /\ \A j \in S : b.services[j].amount \in Nat
      BY <1>1, FS_Subset DEF GoodOf, LinesOf, GoodService
    <3>2. Numbers(f) /\ \A i \in DOMAIN f : f[i] \in Nat
      BY <3>1 DEF Numbers
    <3> HIDE DEF f
    <3>3. Sigma(f) \in Nat
      BY <3>2, SigmaNat
    <3> QED
      BY <3>3 DEF f, Amounts
  <2>3. spread \in Nat /\ apart \in Nat
    BY <2>2 DEF SpreadServices, Visible
  <2>4. Gross(b) = own + spread + apart
    BY <1>4 DEF Gross
  <2>5. Before(b) = Max({0, own + spread + apart - taken})
    BY <1>4 DEF Before, GuidedSubtotal
  <2> HIDE DEF own, spread, apart, taken
  <2>6. own + spread + apart - taken \in Int
    BY <1>2, <2>1, <2>3
  <2>7. Before(b) = IF own + spread + apart - taken > 0 THEN own + spread + apart - taken ELSE 0
    BY <2>5, <2>6, MaxWithZero
  <2>8. /\ Gross(b) \in Nat /\ Before(b) \in Nat
        /\ Before(b) <= Gross(b) /\ Gross(b) - taken <= Before(b)
        /\ Before(b) > 0 => Before(b) = Gross(b) - taken
    BY <1>2, <2>1, <2>3, <2>4, <2>7
  <2> QED
    BY <1>2, <2>8 DEF taken
<1> QED
  BY <1>3, <1>4

\* What every screen reads of a facture.
LEMMA SubtotalOf ==
  ASSUME ReportsInv, NEW order, IsReading(order), NEW i \in DOMAIN book
  PROVE  TotalsOf(i, order).subtotal = Before(Body(i)) /\ IsTotals(TotalsOf(i, order))
<1>1. GoodBody(Body(i)) /\ IsVat(book[i].bill.vat) /\ order[i] \in Orders(Body(i))
  BY BillOf DEF IsReading
<1> QED
  BY <1>1, BodyTotalsAre, BodyTotalsTyped DEF TotalsOf

\* The lines of a facture.
LEMMA LinesRead ==
  ASSUME NEW b, IsBilledBody(b), NEW order \in Orders(b)
  PROVE  /\ Len(b.lines) \in Nat /\ DOMAIN b.lines = 1..Len(b.lines) /\ Reorders(order, Len(b.lines))
         /\ LineTotals(b, order) \in [1..Len(b.lines) -> Nat] /\ Numbers(LineTotals(b, order))
         /\ Sigma(LineTotals(b, order)) = Own(b) + Amounts(b, SpreadServices(b))
<1> DEFINE n == Len(b.lines)
<1>1. GoodOf(b, n) /\ n \in Nat
  BY BilledBody
<1>2. Reorders(order, n) /\ DOMAIN b.lines = 1..n
  BY <1>1, OrdersOf DEF GoodOf, LinesOf
<1> HIDE DEF n
<1>3. /\ LineTotals(b, order) \in [1..n -> Nat]
      /\ Sigma(LineTotals(b, order)) = Own(b) + Amounts(b, SpreadServices(b))
  BY <1>1, <1>2, LineTotalsOf
<1>4. Numbers(LineTotals(b, order))
  BY <1>1, <1>3, FS_Interval DEF Numbers
<1> QED
  BY <1>1, <1>2, <1>3, <1>4 DEF n

-------------------------------------------------------------------------------
(* Reports: each facture is counted once                                    *)

Categories == Activities \cup {Uncategorized}

\* There are finitely many categories.
LEMMA CategoriesFinite == IsFiniteSet(Activities) /\ IsFiniteSet(Categories) /\ Uncategorized \in Categories
<1>0. IsFiniteSet(DOMAIN Cotisations)
  BY ReportData
<1>1. IsFiniteSet(Activities) /\ IsFiniteSet({Uncategorized})
  BY <1>0, FS_Singleton DEF Activities
<1> QED
  BY <1>1, FS_Union DEF Categories

\* The categories of a facture add up to its amount.
LEMMA CategoriesAddUp ==
  ASSUME ReportsInv, NEW order, IsReading(order), NEW i \in DOMAIN book,
         NEW m, DOMAIN m = Categories, \A c \in Categories : m[c] = InCategory(i, order, c)
  PROVE  Numbers(m) /\ Sigma(m) = Gross(Body(i))
<1> DEFINE b == Body(i)
           lines == LineTotals(b, order[i])
<1>1. /\ IsBilledBody(b) /\ order[i] \in Orders(b) /\ Gross(b) \in Nat /\ Before(b) \in Nat
      /\ TotalsOf(i, order).subtotal = Before(b)
  BY BillOf, GrossIs, SubtotalOf DEF IsReading
<1>2. CASE b.mode = "MANUAL"
  <2>1. \A c \in Categories : m[c] = IF c = Uncategorized THEN Gross(b) ELSE 0
    BY <1>1, <1>2 DEF InCategory, Gross
  <2>2. Numbers(m)
    BY <1>1, <2>1, CategoriesFinite DEF Numbers
  <2> QED
    BY <2>1, <2>2, CategoriesFinite, SigmaAt
<1>3. CASE b.mode # "MANUAL"
  <2> DEFINE visible == Visible(b)
             amount == [j \in visible |-> b.services[j].amount]
             lineKey == [k \in DOMAIN lines |-> CategoryOf(b.lines[k])]
             serviceKey == [j \in visible |-> CategoryOf(b.services[j])]
             lineRow == [c \in Categories |->
                          [k \in DOMAIN lines |-> IF CategoryOf(b.lines[k]) = c THEN lines[k] ELSE 0]]
             part == [c \in Categories |->
                          [j \in {j \in visible : CategoryOf(b.services[j]) = c} |-> b.services[j].amount]]
             ofLines == [c \in Categories |-> Sigma(lineRow[c])]
             ofServices == [c \in Categories |-> Sigma(part[c])]
  <2>1. Numbers(lines) /\ Sigma(lines) = Own(b) + Amounts(b, SpreadServices(b))
    BY <1>1, LinesRead
  <2>2. Numbers(amount) /\ DOMAIN amount = visible /\ Sigma(amount) = Amounts(b, visible)
    <3>1. GoodOf(b, Len(b.lines)) /\ Len(b.lines) \in Nat
      BY <1>1, BilledBody
    <3>2. IsFiniteSet(visible) /\ \A j \in visible : b.services[j].amount \in Nat
      BY <3>1, ServicesOf DEF GoodOf, GoodService, Visible
    <3> QED
      BY <3>2 DEF Numbers, Amounts
  <2>3. \A x : CategoryOf(x) \in Categories
    BY DEF CategoryOf, Categories
  <2>4. \A c \in Categories : m[c] = ofLines[c] + ofServices[c]
    BY <1>3 DEF InCategory, Amounts, Counted
  <2>5. /\ DOMAIN ofLines = Categories /\ DOMAIN ofServices = Categories
        /\ \A c \in Categories : ofLines[c] = Sigma(lineRow[c]) /\ ofServices[c] = Sigma(part[c])
    OBVIOUS
  <2>6. /\ \A c \in Categories : DOMAIN lineRow[c] = DOMAIN lines
        /\ \A c \in Categories, k \in DOMAIN lines :
             lineRow[c][k] = IF lineKey[k] = c THEN lines[k] ELSE 0
        /\ \A k \in DOMAIN lines : lineKey[k] \in Categories
    BY <2>3
  <2>7. /\ \A c \in Categories : \A j : j \in DOMAIN part[c] <=> j \in visible /\ serviceKey[j] = c
        /\ \A c \in Categories : \A j \in DOMAIN part[c] : part[c][j] = amount[j]
        /\ \A j \in visible : serviceKey[j] \in Categories
    BY <2>3
  <2> HIDE DEF lines, amount, lineKey, serviceKey, lineRow, part, ofLines, ofServices
  <2>8. Masked(lines, lineKey, ofLines, lineRow)
    BY <2>1, <2>5, <2>6, CategoriesFinite DEF Masked
  <2>9. PutApart(amount, serviceKey, ofServices, part)
    BY <2>2, <2>5, <2>7, CategoriesFinite DEF PutApart
  <2>10. Sigma(ofLines) = Sigma(lines) /\ Numbers(ofLines)
    BY <2>8, SigmaMasked
  <2>11. Sigma(ofServices) = Sigma(amount) /\ Numbers(ofServices)
    BY <2>9, SigmaFibers
  <2>12. Numbers(m) /\ Sigma(m) = Sigma(ofLines) + Sigma(ofServices)
    BY <2>4, <2>5, <2>10, <2>11, SigmaPlus
  <2>13. Gross(b) = Own(b) + Amounts(b, SpreadServices(b)) + Amounts(b, visible)
    BY <1>3 DEF Gross
  <2> QED
    BY <2>1, <2>2, <2>10, <2>11, <2>12, <2>13
<1> QED
  BY <1>2, <1>3

\* The factures a range of time holds.
LEMMA PaidIn ==
  ASSUME ReportsInv, NEW range
  PROVE  /\ IsFiniteSet(DOMAIN book) /\ IsFiniteSet(FindPaidInRange(range))
         /\ FindPaidInRange(range) \in SUBSET DOMAIN book
         /\ \A i \in FindPaidInRange(range) : book[i].paidAt \in 0..now
         /\ now \in Nat /\ FindPaidInRange(range) \subseteq FindPaidInRange(0..now)
<1>1. Len(book) \in Nat /\ DOMAIN book = 1..Len(book)
  BY DEF ReportsInv
<1>2. IsFiniteSet(1..Len(book))
  BY <1>1, FS_Interval
<1>3. FindPaidInRange(range) \in SUBSET DOMAIN book
  BY DEF FindPaidInRange
<1>4. \A i \in FindPaidInRange(range) : book[i].paidAt \in 0..now
  BY DEF ReportsInv, FindPaidInRange
<1>5. now \in Nat
  BY ReportBounds DEF ReportsInv
<1> QED
  BY <1>1, <1>2, <1>3, <1>4, <1>5, FS_Subset DEF FindPaidInRange

\* What the factures of S are before their discounts.
GrossOf(S) == [i \in S |-> Gross(Body(i))]

\* They are natural numbers.
LEMMA GrossNumbers ==
  ASSUME ReportsInv, NEW S \in SUBSET DOMAIN book
  PROVE  /\ Numbers(GrossOf(S)) /\ DOMAIN GrossOf(S) = S
         /\ \A i \in S : GrossOf(S)[i] = Gross(Body(i)) /\ GrossOf(S)[i] \in Nat
<1>1. IsFiniteSet(S)
  BY PaidIn, FS_Subset
<1>2. \A i \in S : Gross(Body(i)) \in Nat
  BY BillOf, GrossIs
<1> QED
  BY <1>1, <1>2 DEF GrossOf, Numbers

\* The statement declares each facture it reads once.
LEMMA DeclaredIs ==
  ASSUME ReportsInv, NEW order, IsReading(order), NEW range
  PROVE  Declared(range, order) = Sigma(GrossOf(FindPaidInRange(range)))
<1> DEFINE S == FindPaidInRange(range)
           table == ByCategory(range, order)
           row == [c \in Categories |-> [i \in S |-> InCategory(i, order, c)]]
           column == [i \in S |-> [c \in Categories |-> InCategory(i, order, c)]]
           g == GrossOf(S)
<1>1. IsFiniteSet(S) /\ S \in SUBSET DOMAIN book
  BY PaidIn
<1>2. DOMAIN g = S /\ \A i \in S : g[i] = Gross(Body(i))
  BY <1>1, GrossNumbers
<1>3. DOMAIN table = Categories /\ \A c \in Categories : table[c] = Sigma(row[c])
  BY DEF ByCategory, Categories
<1>4. /\ \A c \in Categories : DOMAIN row[c] = S
      /\ \A i \in S : DOMAIN column[i] = Categories /\ \A c \in Categories : column[i][c] = InCategory(i, order, c)
      /\ \A c \in Categories, i \in S : column[i][c] = row[c][i]
  OBVIOUS
<1> HIDE DEF S, table, row, column, g
<1>5. ASSUME NEW i \in S PROVE Numbers(column[i]) /\ g[i] = Sigma(column[i])
  <2> DEFINE q == column[i]
  <2>1. DOMAIN q = Categories /\ \A c \in Categories : q[c] = InCategory(i, order, c)
    BY <1>4
  <2>2. i \in DOMAIN book
    BY <1>1
  <2> HIDE DEF q
  <2>3. Numbers(q) /\ Sigma(q) = Gross(Body(i))
    BY <2>1, <2>2, CategoriesAddUp
  <2> QED
    BY <1>2, <2>3 DEF q
<1>6. Edges(table, g, row, column)
  BY <1>1, <1>2, <1>3, <1>4, <1>5, CategoriesFinite DEF Edges, Numbers
<1>7. Sigma(table) = Sigma(g)
  BY <1>6, SigmaTurned
<1> QED
  BY <1>7 DEF table, g, S, Declared

\* The months on a screen are those of the window.
LEMMA WindowMonthly ==
  ASSUME ReportsInv
  PROVE  IsFiniteSet(MonthKeys) /\ \A t \in Window : UtcMonth(t) \in MonthKeys
<1> DEFINE w == WindowMonths - 1
           m == UtcMonth(now)
           first == m - w
<1>1. now \in Nat /\ w \in Nat
  BY ReportBounds DEF ReportsInv
<1>2. m \in Int /\ now = 2 * m + (now % 2) /\ now % 2 \in 0..1
  BY <1>1, Division DEF UtcMonth
<1>3. first \in Int
  BY <1>1, <1>2
<1>4. UtcMonth(StartOfMonthsAgo(WindowMonths - 1)) = first
  <2>1. (2 * first) \div 2 = first
    BY <1>3, DivisionIs
  <2> QED
    BY <2>1 DEF UtcMonth, StartOfMonthsAgo
<1>5. MonthKeys = {first + k : k \in 0..w}
  BY <1>4 DEF MonthKeys
<1> HIDE DEF w, m
<1>6. IsFiniteSet(MonthKeys)
  <2> DEFINE f == [k \in 0..w |-> first + k]
  <2>1. IsFiniteSet(0..w) /\ DOMAIN f = 0..w /\ {f[k] : k \in DOMAIN f} = {first + k : k \in 0..w}
    BY <1>1, FS_Interval
  <2> HIDE DEF f
  <2> QED
    BY <1>5, <2>1, FiniteValues
<1>7. ASSUME NEW t \in Window PROVE UtcMonth(t) \in MonthKeys
  <2>1. t \in (2 * first)..now
    BY <1>7 DEF Window, StartOfMonthsAgo, w, m
  <2> HIDE DEF first
  <2>2. t \in Int /\ 2 * first <= t /\ t <= now
    BY <1>1, <1>3, <2>1
  <2>3. t \div 2 \in Int /\ t = 2 * (t \div 2) + (t % 2) /\ t % 2 \in 0..1
    BY <2>2, Division
  <2> DEFINE q == t \div 2
             k == q - first
  <2>4. first <= q /\ q <= m
    BY <1>1, <1>2, <1>3, <2>2, <2>3
  <2>5. k \in 0..w /\ first + k = q
    BY <1>1, <1>2, <1>3, <2>3, <2>4 DEF first
  <2> QED
    BY <1>5, <2>5 DEF UtcMonth
<1> QED
  BY <1>6, <1>7

\* What the factures of S are after their discounts.
NetOf(S) == [i \in S |-> Before(Body(i))]
RemisesOf(S) == [i \in S |-> Sigma(Body(i).remises)]

\* They are natural numbers.
LEMMA NetNumbers ==
  ASSUME ReportsInv, NEW S \in SUBSET DOMAIN book
  PROVE  /\ Numbers(NetOf(S)) /\ Numbers(RemisesOf(S)) /\ DOMAIN NetOf(S) = S /\ DOMAIN RemisesOf(S) = S
         /\ \A i \in S : /\ NetOf(S)[i] = Before(Body(i)) /\ NetOf(S)[i] \in Nat
                         /\ RemisesOf(S)[i] = Sigma(Body(i).remises) /\ RemisesOf(S)[i] \in Nat
<1>1. IsFiniteSet(S)
  BY PaidIn, FS_Subset
<1>2. \A i \in S : Before(Body(i)) \in Nat /\ Sigma(Body(i).remises) \in Nat
  BY BillOf, GrossIs
<1> QED
  BY <1>1, <1>2 DEF NetOf, RemisesOf, Numbers

\* The activity screen sums the amounts after the discounts,
LEMMA RevenueIs ==
  ASSUME ReportsInv, NEW order, IsReading(order), NEW S \in SUBSET DOMAIN book
  PROVE  Revenue(S, order) = Sigma(NetOf(S))
<1>1. \A i \in S : TotalsOf(i, order).subtotal = Before(Body(i))
  BY SubtotalOf
<1>2. [i \in S |-> TotalsOf(i, order).subtotal] = NetOf(S)
  BY <1>1 DEF NetOf
<1> QED
  BY <1>2 DEF Revenue

\* and the margin screen those before them.
LEMMA MarginRevenueIs ==
  ASSUME ReportsInv, NEW order, IsReading(order), NEW S \in SUBSET DOMAIN book
  PROVE  MarginTotal(S, order, "revenue") = Sigma(GrossOf(S))
<1>1. ASSUME NEW i \in S PROVE MarginOf(i, order)["revenue"] = Gross(Body(i))
  <2>1. TotalsOf(i, order).subtotal = Before(Body(i)) /\ IsBilledBody(Body(i)) /\ order[i] \in Orders(Body(i))
    BY SubtotalOf, BillOf DEF IsReading
  <2>2. Sigma(LineTotals(Body(i), order[i])) = Own(Body(i)) + Amounts(Body(i), SpreadServices(Body(i)))
    BY <2>1, LinesRead
  <2> QED
    BY <2>1, <2>2 DEF MarginOf, Gross, Counted
<1>2. [i \in S |-> MarginOf(i, order)["revenue"]] = GrossOf(S)
  BY <1>1 DEF GrossOf
<1> QED
  BY <1>2 DEF MarginTotal

\* The months of the margin screen add up to its total.
LEMMA MarginMonthsAddUp ==
  ASSUME ReportsInv, NEW order, IsReading(order)
  PROVE  Sigma(MarginByMonth(order, "revenue")) = Sigma(GrossOf(FindPaidInRange(Window)))
<1> DEFINE S == FindPaidInRange(Window)
           fiber(m) == {i \in S : UtcMonth(book[i].paidAt) = m}
           f == GrossOf(S)
           key == [i \in S |-> UtcMonth(book[i].paidAt)]
           part == [m \in MonthKeys |-> GrossOf(fiber(m))]
           s == MarginByMonth(order, "revenue")
<1>1. S \in SUBSET DOMAIN book /\ \A i \in S : book[i].paidAt \in Window
  BY PaidIn DEF FindPaidInRange
<1>2. IsFiniteSet(MonthKeys) /\ \A i \in S : key[i] \in MonthKeys
  BY <1>1, WindowMonthly
<1>3. Numbers(f) /\ DOMAIN f = S /\ \A i \in S : f[i] = Gross(Body(i))
  BY <1>1, GrossNumbers
<1>4. ASSUME NEW m \in MonthKeys
      PROVE  /\ s[m] = Sigma(part[m])
             /\ \A i : i \in DOMAIN part[m] <=> i \in S /\ key[i] = m
             /\ \A i \in DOMAIN part[m] : part[m][i] = f[i]
  <2>1. fiber(m) \in SUBSET DOMAIN book
    BY <1>1
  <2>2. MarginTotal(fiber(m), order, "revenue") = Sigma(GrossOf(fiber(m)))
    BY <2>1, MarginRevenueIs
  <2>3. s[m] = MarginTotal(fiber(m), order, "revenue")
    BY DEF MarginByMonth
  <2>4. DOMAIN GrossOf(fiber(m)) = fiber(m) /\ \A i \in fiber(m) : GrossOf(fiber(m))[i] = Gross(Body(i))
    BY <2>1, GrossNumbers
  <2> QED
    BY <1>3, <2>2, <2>3, <2>4
<1>5. DOMAIN s = MonthKeys
  BY DEF MarginByMonth
<1> HIDE DEF S, f, key, part, s
<1>6. PutApart(f, key, s, part)
  BY <1>2, <1>3, <1>4, <1>5 DEF PutApart
<1> QED
  BY <1>6, SigmaFibers DEF f, s, S

\* So do those of the activity screen.
LEMMA RevenueMonthsAddUp ==
  ASSUME ReportsInv, NEW order, IsReading(order)
  PROVE  Sigma(RevenueByMonth(order)) = Sigma(NetOf(FindPaidInRange(Window)))
<1> DEFINE S == FindPaidInRange(Window)
           fiber(m) == {i \in S : UtcMonth(book[i].paidAt) = m}
           f == NetOf(S)
           key == [i \in S |-> UtcMonth(book[i].paidAt)]
           part == [m \in MonthKeys |-> NetOf(fiber(m))]
           s == RevenueByMonth(order)
<1>1. S \in SUBSET DOMAIN book /\ \A i \in S : book[i].paidAt \in Window
  BY PaidIn DEF FindPaidInRange
<1>2. IsFiniteSet(MonthKeys) /\ \A i \in S : key[i] \in MonthKeys
  BY <1>1, WindowMonthly
<1>3. Numbers(f) /\ DOMAIN f = S /\ \A i \in S : f[i] = Before(Body(i))
  BY <1>1, NetNumbers
<1>4. ASSUME NEW m \in MonthKeys
      PROVE  /\ s[m] = Sigma(part[m])
             /\ \A i : i \in DOMAIN part[m] <=> i \in S /\ key[i] = m
             /\ \A i \in DOMAIN part[m] : part[m][i] = f[i]
  <2>1. fiber(m) \in SUBSET DOMAIN book
    BY <1>1
  <2>2. Revenue(fiber(m), order) = Sigma(NetOf(fiber(m)))
    BY <2>1, RevenueIs
  <2>3. s[m] = Revenue(fiber(m), order)
    BY DEF RevenueByMonth
  <2>4. DOMAIN NetOf(fiber(m)) = fiber(m) /\ \A i \in fiber(m) : NetOf(fiber(m))[i] = Before(Body(i))
    BY <2>1, NetNumbers
  <2> QED
    BY <1>3, <2>2, <2>3, <2>4
<1>5. DOMAIN s = MonthKeys
  BY DEF RevenueByMonth
<1> HIDE DEF S, f, key, part, s
<1>6. PutApart(f, key, s, part)
  BY <1>2, <1>3, <1>4, <1>5 DEF PutApart
<1> QED
  BY <1>6, SigmaFibers DEF f, s, S

\* The clients of the activity screen add up to the same.
LEMMA RevenueClientsAddUp ==
  ASSUME ReportsInv, NEW order, IsReading(order)
  PROVE  Sigma(RevenueByClient(order)) = Sigma(NetOf(FindPaidInRange(Window)))
<1> DEFINE S == FindPaidInRange(Window)
           fiber(c) == {i \in S : book[i].bill.customer = c}
           clients == {book[i].bill.customer : i \in S}
           f == NetOf(S)
           key == [i \in S |-> book[i].bill.customer]
           part == [c \in clients |-> NetOf(fiber(c))]
           s == RevenueByClient(order)
<1>1. S \in SUBSET DOMAIN book /\ IsFiniteSet(S)
  BY PaidIn
<1>2. IsFiniteSet(clients) /\ \A i \in S : key[i] \in clients
  <2>1. IsFiniteSet(DOMAIN key) /\ {key[i] : i \in DOMAIN key} = clients
    BY <1>1
  <2> HIDE DEF clients
  <2>2. IsFiniteSet(clients)
    BY <2>1, FiniteValues
  <2> QED
    BY <2>2 DEF clients
<1>3. Numbers(f) /\ DOMAIN f = S /\ \A i \in S : f[i] = Before(Body(i))
  BY <1>1, NetNumbers
<1>4. ASSUME NEW c \in clients
      PROVE  /\ s[c] = Sigma(part[c])
             /\ \A i : i \in DOMAIN part[c] <=> i \in S /\ key[i] = c
             /\ \A i \in DOMAIN part[c] : part[c][i] = f[i]
  <2>1. fiber(c) \in SUBSET DOMAIN book
    BY <1>1
  <2>2. Revenue(fiber(c), order) = Sigma(NetOf(fiber(c)))
    BY <2>1, RevenueIs
  <2>3. s[c] = Revenue(fiber(c), order)
    BY DEF RevenueByClient
  <2>4. DOMAIN NetOf(fiber(c)) = fiber(c) /\ \A i \in fiber(c) : NetOf(fiber(c))[i] = Before(Body(i))
    BY <2>1, NetNumbers
  <2> QED
    BY <1>3, <2>2, <2>3, <2>4
<1>5. DOMAIN s = clients
  BY DEF RevenueByClient
<1> HIDE DEF S, f, key, part, s, clients
<1>6. PutApart(f, key, s, part)
  BY <1>2, <1>3, <1>4, <1>5 DEF PutApart
<1> QED
  BY <1>6, SigmaFibers DEF f, s, S

\* The activity screen tells the statement's amounts less the discounts.
LEMMA NetAgainstGross ==
  ASSUME ReportsInv, NEW S \in SUBSET DOMAIN book
  PROVE  /\ Sigma(NetOf(S)) \in Nat /\ Sigma(GrossOf(S)) \in Nat /\ Sigma(RemisesOf(S)) \in Nat
         /\ Sigma(NetOf(S)) <= Sigma(GrossOf(S))
         /\ Sigma(NetOf(S)) >= Sigma(GrossOf(S)) - Sigma(RemisesOf(S))
         /\ (\A i \in S : Before(Body(i)) > 0)
              => Sigma(NetOf(S)) = Sigma(GrossOf(S)) - Sigma(RemisesOf(S))
<1> DEFINE g == GrossOf(S)
           f == NetOf(S)
           r == RemisesOf(S)
           less == [i \in S |-> g[i] - r[i]]
<1>1. /\ Numbers(g) /\ DOMAIN g = S /\ Numbers(f) /\ DOMAIN f = S /\ Numbers(r) /\ DOMAIN r = S
      /\ \A i \in S : g[i] \in Nat /\ f[i] \in Nat /\ r[i] \in Nat
      /\ \A i \in S : g[i] = Gross(Body(i)) /\ f[i] = Before(Body(i)) /\ r[i] = Sigma(Body(i).remises)
  BY GrossNumbers, NetNumbers
<1>2. \A i \in S : /\ f[i] <= g[i] /\ g[i] - r[i] <= f[i]
                   /\ Before(Body(i)) > 0 => f[i] = g[i] - r[i]
  BY <1>1, BillOf, GrossIs
<1>3. DOMAIN less = S /\ \A i \in S : less[i] = g[i] - r[i]
  OBVIOUS
<1> HIDE DEF g, f, r, less
<1>4. Numbers(less) /\ Sigma(less) = Sigma(g) - Sigma(r)
  BY <1>1, <1>3, SigmaMinus
<1>5. Sigma(g) \in Nat /\ Sigma(f) \in Nat /\ Sigma(r) \in Nat
  BY <1>1, SigmaNat
<1>6. Sigma(f) <= Sigma(g)
  BY <1>1, <1>2, SigmaMono
<1>7. Sigma(less) <= Sigma(f)
  BY <1>1, <1>2, <1>3, <1>4, SigmaMono
<1>8. ASSUME \A i \in S : Before(Body(i)) > 0 PROVE Sigma(f) = Sigma(g) - Sigma(r)
  <2>1. \A i \in S : f[i] <= less[i]
    BY <1>1, <1>2, <1>3, <1>8
  <2>2. Sigma(f) <= Sigma(less)
    BY <1>1, <1>3, <1>4, <2>1, SigmaMono
  <2> QED
    BY <1>4, <1>5, <1>7, <2>2
<1>9. Sigma(f) >= Sigma(g) - Sigma(r)
  BY <1>4, <1>5, <1>7
<1> QED
  BY <1>5, <1>6, <1>8, <1>9 DEF f, g, r

\* What has no item is a part of the amount.
LEMMA UnknownIsPart ==
  ASSUME ReportsInv, NEW order, IsReading(order), NEW i \in DOMAIN book
  PROVE  MarginOf(i, order)["unknown"] \in Nat /\ MarginOf(i, order)["unknown"] <= Gross(Body(i))
<1> DEFINE b == Body(i)
           lines == LineTotals(b, order[i])
           visible == Visible(b)
           freehand == {j \in visible : ~b.services[j].item}
           untyped == [k \in DOMAIN lines |-> IF b.lines[k].item THEN 0 ELSE lines[k]]
           amount == [j \in visible |-> b.services[j].amount]
           some == [j \in freehand |-> b.services[j].amount]
<1>1. /\ IsBilledBody(b) /\ order[i] \in Orders(b) /\ Gross(b) \in Nat
      /\ TotalsOf(i, order).subtotal = Before(b)
  BY BillOf, GrossIs, SubtotalOf DEF IsReading
<1>2. CASE b.mode = "MANUAL"
  <2>1. MarginOf(i, order)["unknown"] = Gross(b)
    BY <1>1, <1>2 DEF MarginOf, Gross
  <2> QED
    BY <1>1, <2>1
<1>3. CASE b.mode # "MANUAL"
  <2>1. Numbers(lines) /\ (\A k \in DOMAIN lines : lines[k] \in Nat)
        /\ Sigma(lines) = Own(b) + Amounts(b, SpreadServices(b))
    BY <1>1, LinesRead
  <2>2. DOMAIN untyped = DOMAIN lines /\ \A k \in DOMAIN lines : untyped[k] \in Nat /\ untyped[k] <= lines[k]
    BY <2>1
  <2>3. /\ IsFiniteSet(visible) /\ \A j \in visible : b.services[j].amount \in Nat
    <3>1. GoodOf(b, Len(b.lines)) /\ Len(b.lines) \in Nat
      BY <1>1, BilledBody
    <3> QED
      BY <3>1, ServicesOf DEF GoodOf, GoodService, Visible
  <2>4. /\ Numbers(amount) /\ DOMAIN amount = visible /\ \A j \in visible : amount[j] \in Nat
        /\ DOMAIN some \in SUBSET visible /\ \A j \in DOMAIN some : some[j] \in Nat /\ some[j] <= amount[j]
    BY <2>3 DEF Numbers
  <2>5. Gross(b) = Sigma(lines) + Sigma(amount)
    BY <1>3, <2>1 DEF Gross, Amounts
  <2>6. MarginOf(i, order)["unknown"] = Sigma(some) + Sigma(untyped)
    BY <1>3 DEF MarginOf, Counted, Amounts
  <2> HIDE DEF lines, amount, some, untyped, visible
  <2>7. Sigma(untyped) \in Nat /\ Sigma(untyped) <= Sigma(lines)
    BY <2>1, <2>2, SigmaPart
  <2>8. Sigma(some) \in Nat /\ Sigma(some) <= Sigma(amount)
    BY <2>4, SigmaPart
  <2>9. Sigma(lines) \in Nat /\ Sigma(amount) \in Nat
    BY <2>1, <2>4, SigmaNat
  <2> QED
    BY <2>5, <2>6, <2>7, <2>8, <2>9
<1> QED
  BY <1>2, <1>3

\* And a part of the amounts of a set of factures.
LEMMA UnknownAtMost ==
  ASSUME ReportsInv, NEW order, IsReading(order), NEW S \in SUBSET DOMAIN book
  PROVE  MarginTotal(S, order, "unknown") <= Sigma(GrossOf(S))
<1> DEFINE u == [i \in S |-> MarginOf(i, order)["unknown"]]
           g == GrossOf(S)
<1>1. \A i \in S : u[i] \in Nat /\ u[i] <= Gross(Body(i))
  BY UnknownIsPart
<1>2. Numbers(g) /\ DOMAIN g = S /\ \A i \in S : g[i] = Gross(Body(i)) /\ g[i] \in Nat
  BY GrossNumbers
<1>3. DOMAIN u = S /\ MarginTotal(S, order, "unknown") = Sigma(u)
  BY DEF MarginTotal
<1> HIDE DEF u, g
<1>4. Sigma(u) <= Sigma(g)
  BY <1>1, <1>2, <1>3, SigmaPart
<1> QED
  BY <1>3, <1>4 DEF g

\* The ceiling counts no more than what was ever paid.
LEMMA PlafondAtMost ==
  ASSUME ReportsInv, NEW order, IsReading(order)
  PROVE  PlafondYearToDate(order) <= Sigma(GrossOf(FindPaidInRange(0..now)))
<1> DEFINE S == FindPaidInRange(YearToDate)
           T == FindPaidInRange(0..now)
           f == GrossOf(S)
           g == GrossOf(T)
<1>1. S \in SUBSET DOMAIN book /\ T \in SUBSET DOMAIN book /\ S \in SUBSET T
  BY PaidIn
<1>2. PlafondYearToDate(order) = Sigma(NetOf(S))
  BY <1>1, RevenueIs DEF PlafondYearToDate
<1>3. Sigma(NetOf(S)) \in Nat /\ Sigma(f) \in Nat /\ Sigma(NetOf(S)) <= Sigma(f) /\ Sigma(g) \in Nat
  BY <1>1, NetAgainstGross
<1>4. /\ Numbers(g) /\ DOMAIN g = T /\ (\A i \in T : g[i] \in Nat /\ g[i] = Gross(Body(i)))
      /\ DOMAIN f = S /\ (\A i \in S : f[i] \in Nat /\ f[i] = Gross(Body(i)))
  BY <1>1, GrossNumbers
<1> HIDE DEF f, g, S, T
<1>5. DOMAIN f \in SUBSET DOMAIN g /\ \A i \in DOMAIN f : f[i] \in Nat /\ f[i] <= g[i]
  BY <1>1, <1>4
<1>6. Sigma(f) <= Sigma(g)
  BY <1>4, <1>5, SigmaPart
<1> QED
  BY <1>2, <1>3, <1>6 DEF g, T

-------------------------------------------------------------------------------
(* Reports: what is owed, and the margin of an item                         *)

\* A part of a natural number, rounded half up, is one of its amounts.
LEMMA ShareOf ==
  ASSUME NEW s \in Nat, NEW d \in Nat, 0 < d, NEW m \in 0..d
  PROVE  HalfUp(s * m, d) \in 0..s
<1> DEFINE h == HalfUp(s * m, d)
<1>1. s * m \in Nat /\ s * m <= s * d /\ s * d \in Nat
  OBVIOUS
<1>2. h \in Nat
  BY <1>1, HalfUpNat
<1>3. 2 * d * h <= 2 * (s * m) + d
  <2> DEFINE a == 2 * (s * m) + d
             e == 2 * d
  <2>1. a \in Int /\ e \in Int /\ 0 < e
    BY <1>1
  <2> HIDE DEF a, e
  <2>2. a \div e \in Int /\ a % e \in Int /\ a = e * (a \div e) + (a % e) /\ 0 <= a % e
    BY <2>1, Division
  <2>3. h = a \div e
    BY DEF HalfUp, a, e
  <2>4. e * (a \div e) \in Int
    BY <2>1, <2>2
  <2>5. e * h <= a
    BY <2>1, <2>2, <2>3, <2>4
  <2> QED
    BY <2>5 DEF a, e
<1> HIDE DEF h
<1>4. h <= s
  <2> SUFFICES ASSUME h >= s + 1 PROVE FALSE
    BY <1>2
  <2>1. 2 * d * (s + 1) <= 2 * d * h
    BY <1>2
  <2>2. 2 * d * (s + 1) = 2 * (s * d) + 2 * d
    OBVIOUS
  <2>3. 2 * d * h \in Int
    BY <1>2
  <2> QED
    BY <1>1, <1>3, <2>1, <2>2, <2>3
<1> QED
  BY <1>2, <1>4 DEF h

\* What is still owed of a facture is no more than its amount.
LEMMA OwedAtMost ==
  ASSUME ReportsInv, NEW order, IsReading(order), NEW i \in DOMAIN book
  PROVE  OutstandingHt(i, order) \in 0..Before(Body(i))
<1> DEFINE t == TotalsOf(i, order)
           deposit == book[i].bill.deposit
           left == Max({0, t.total - deposit})
<1>1. t.subtotal = Before(Body(i)) /\ Before(Body(i)) \in Nat /\ IsTotals(t)
  BY SubtotalOf, BillOf, GrossIs
<1>2. t.total \in Int
  BY <1>1 DEF IsTotals
<1>3. deposit \in Nat \cup {Unset}
  BY BillOf
<1>4. CASE book[i].status # "ACOMPTE_VERSE" \/ deposit \in {Unset, 0} \/ t.total <= 0
  <2>1. OutstandingHt(i, order) = t.subtotal
    BY <1>4 DEF OutstandingHt
  <2> QED
    BY <1>1, <2>1
<1>5. CASE ~(book[i].status # "ACOMPTE_VERSE" \/ deposit \in {Unset, 0} \/ t.total <= 0)
  <2>1. OutstandingHt(i, order) = HalfUp(t.subtotal * left, t.total)
    BY <1>5 DEF OutstandingHt
  <2>2. deposit \in Nat /\ t.total \in Nat /\ 0 < t.total
    BY <1>2, <1>3, <1>5 DEF Unset
  <2>3. left \in 0..t.total
    <3>1. t.total - deposit \in Int
      BY <2>2
    <3>2. left = IF t.total - deposit > 0 THEN t.total - deposit ELSE 0
      BY <3>1, MaxWithZero
    <3> HIDE DEF left, t, deposit
    <3> QED
      BY <2>2, <3>2
  <2> HIDE DEF left
  <2> QED
    BY <1>1, <2>1, <2>2, <2>3, ShareOf
<1> QED
  BY <1>4, <1>5

\* An item's margin is a part of what the line leaves.
LEMMA MarginIsPart ==
  ASSUME ReportsInv, NEW x, x.item \in BOOLEAN, NEW base \in Nat, NEW count \in Nat
  PROVE  ResolveMargin(x, base, count) \in 0..base
<1>0. margin \in Margins
  BY DEF ReportsInv
<1>1. /\ margin.mode \in {"NONE", "PERCENTAGE", "AMOUNT"} /\ margin.value \in Nat
      /\ margin.mode = "PERCENTAGE" => margin.value <= 10000
  BY <1>0, ReportData
<1>2. Max({base, 0}) = base
  <2>1. Max({0, base}) = base
    BY MaxWithZero
  <2> QED
    BY <2>1
<1>3. CASE ~x.item
  BY <1>3 DEF ResolveMargin
<1>4. CASE x.item /\ margin.mode = "NONE"
  BY <1>2, <1>4 DEF ResolveMargin
<1>5. CASE x.item /\ margin.mode = "PERCENTAGE"
  <2>1. ResolveMargin(x, base, count) = HalfUp(base * margin.value, 10000)
    BY <1>5 DEF ResolveMargin
  <2> DEFINE v == margin.value
  <2>2. v \in Nat /\ v <= 10000
    BY <1>1, <1>5
  <2> HIDE DEF v
  <2> DEFINE d == 10000
  <2>3. d \in Nat /\ 0 < d /\ v <= d
    BY <2>2
  <2> HIDE DEF d
  <2>4. v \in 0..d
    BY <2>2, <2>3
  <2>5. HalfUp(base * v, d) \in 0..base
    BY <2>3, <2>4, ShareOf
  <2> QED
    BY <2>1, <2>5 DEF v, d
<1>6. CASE x.item /\ margin.mode = "AMOUNT"
  <2> DEFINE h == HalfUp(margin.value * count, 10000)
  <2>0. margin.mode = "AMOUNT" /\ margin.mode # "NONE" /\ margin.mode # "PERCENTAGE"
    BY <1>6
  <2> HIDE DEF h
  <2>1. ResolveMargin(x, base, count) = Min({h, base})
    <3> DEFINE most == Max({base, 0})
               least == Min({h, most})
    <3>1. /\ ResolveMargin(x, base, count) = least
      <4>1. least = Min({HalfUp(margin.value * count, 10000), Max({base, 0})})
        BY DEF h
      <4> HIDE DEF least
      <4> QED
        BY <1>6, <2>0, <4>1 DEF ResolveMargin
    <3> QED
      BY <1>2, <3>1
  <2>2. h \in Nat
    <3>1. margin.value * count \in Nat /\ 10000 \in Nat /\ 0 < 10000
      BY <1>1
    <3> QED
      BY <3>1, HalfUpNat DEF h
  <2>3. Min({h, base}) = IF h < base THEN h ELSE base
    BY <2>2 DEF Min
  <2> QED
    BY <2>1, <2>2, <2>3
<1> QED
  BY <1>1, <1>3, <1>4, <1>5, <1>6

\* The margin of each line of a facture.
LEMMA LineMarginsArePart ==
  ASSUME ReportsInv, NEW order, IsReading(order), NEW i \in DOMAIN book,
         NEW k \in DOMAIN LineMargins(i, order)
  PROVE  LineMargins(i, order)[k] \in 0..Max({0, LineTotals(Body(i), order[i])[k]})
<1> DEFINE b == Body(i)
           lines == LineTotals(b, order[i])
           l == b.lines[k]
<1>1. IsBilledBody(b) /\ order[i] \in Orders(b)
  BY BillOf DEF IsReading
<1>2. DOMAIN b.lines = 1..Len(b.lines) /\ lines \in [1..Len(b.lines) -> Nat]
  BY <1>1, LinesRead
<1>3. k \in DOMAIN lines /\ LineMargins(i, order)[k] = ResolveMargin(l, lines[k], BilledQuantity(l))
  BY DEF LineMargins
<1>4. IsLineItem(l) /\ l.item \in BOOLEAN /\ lines[k] \in Nat
  BY <1>1, <1>2, <1>3 DEF IsBilledBody
<1>5. BilledQuantity(l) \in Nat
  BY <1>4, LineNumbers
<1>6. Max({0, lines[k]}) = lines[k]
  BY <1>4, MaxWithZero
<1> HIDE DEF lines, l
<1>7. ResolveMargin(l, lines[k], BilledQuantity(l)) \in 0..lines[k]
  <2> DEFINE base == lines[k]
             count == BilledQuantity(l)
  <2>1. l.item \in BOOLEAN /\ base \in Nat /\ count \in Nat
    BY <1>4, <1>5
  <2> HIDE DEF base, count
  <2>2. ResolveMargin(l, base, count) \in 0..base
    BY <2>1, MarginIsPart
  <2> QED
    BY <2>2 DEF base, count
<1> QED
  BY <1>3, <1>6, <1>7 DEF lines

\* A facture that is not cancelled is either paid or still owed.
LEMMA PaidOrOwed ==
  ASSUME ReportsInv, NEW i \in DOMAIN book, book[i].status # "ANNULEE"
  PROVE  (i \in FindPaidInRange(0..now)) # (i \in FindOutstanding)
<1>1. book[i].status \in Statuses /\ (book[i].status = "PAYEE" => book[i].paidAt \in 0..now)
  BY BillOf DEF ReportsInv
<1>2. (i \in FindPaidInRange(0..now)) <=> book[i].status = "PAYEE"
  BY <1>1 DEF FindPaidInRange
<1>3. (i \in FindOutstanding) <=> book[i].status # "PAYEE"
  BY <1>1 DEF FindOutstanding, Statuses
<1> QED
  BY <1>2, <1>3

-------------------------------------------------------------------------------
(* Reports: the periods of the picker                                       *)

\* A moment is in the period its local month is in, and in no other.
LEMMA PeriodHolds ==
  ASSUME NEW step \in Nat, 0 < step, NEW t \in Nat, NEW q \in Int
  PROVE  t \in (2 * (q * step) - 1)..(2 * (q * step + step) - 2) <=> LocalMonth(t) \div step = q
<1> DEFINE l == LocalMonth(t)
           p == q * step
<1>1. p \in Int /\ p = step * q
  OBVIOUS
<1>2. l \in Nat /\ t + 1 = 2 * l + ((t + 1) % 2) /\ (t + 1) % 2 \in 0..1
  <2>1. t + 1 \in Int /\ 0 < 2
    OBVIOUS
  <2>2. (t + 1) \div 2 \in Int /\ (t + 1) % 2 \in Int /\ t + 1 = 2 * ((t + 1) \div 2) + ((t + 1) % 2)
        /\ 0 <= (t + 1) % 2 /\ (t + 1) % 2 < 2
    BY <2>1, Division
  <2> QED
    BY <2>2 DEF LocalMonth
<1> HIDE DEF l, p
<1>3. t \in (2 * p - 1)..(2 * (p + step) - 2) <=> p <= l /\ l <= p + step - 1
  BY <1>1, <1>2
<1>4. ASSUME p <= l, l <= p + step - 1 PROVE l \div step = q
  <2> DEFINE r == l - p
  <2>1. r \in Int /\ l = step * q + r /\ 0 <= r /\ r < step /\ l \in Int
    BY <1>1, <1>2, <1>4
  <2> HIDE DEF r
  <2> QED
    BY <2>1, DivisionIs
<1>5. ASSUME l \div step = q PROVE p <= l /\ l <= p + step - 1
  <2>1. l = step * q + (l % step) /\ 0 <= l % step /\ l % step < step /\ l % step \in Int
    BY <1>2, <1>5, Division
  <2> QED
    BY <1>1, <1>2, <2>1
<1> QED
  BY <1>3, <1>4, <1>5 DEF l, p

\* Where the picker stands for a moment that has passed.
LEMMA PeriodReached ==
  ASSUME NEW step \in Nat, 0 < step, NEW l \in Nat, NEW last \in Nat, l <= last
  PROVE  \E m \in 0..last : (last - m) % step = 0 /\ m \div step = l \div step
<1> DEFINE q == l \div step
           big == last \div step
           r == last % step
           m == step * q + r
<1>1. q \in Int /\ l = step * q + (l % step) /\ 0 <= l % step /\ l % step < step /\ l % step \in Int
  BY Division
<1>2. big \in Int /\ last = step * big + r /\ 0 <= r /\ r < step /\ r \in Int
  BY Division
<1> HIDE DEF q, big, r
<1>3. step * q \in Int /\ step * big \in Int
  BY <1>1, <1>2
<1>4. q <= big
  <2> SUFFICES ASSUME big + 1 <= q PROVE FALSE
    BY <1>1, <1>2
  <2>1. step * (big + 1) <= step * q
    BY <1>1, <1>2
  <2>2. step * (big + 1) = step * big + step
    BY <1>2
  <2> QED
    BY <1>1, <1>2, <1>3, <2>1, <2>2
<1>5. 0 <= q
  <2> SUFFICES ASSUME q <= -1 PROVE FALSE
    BY <1>1
  <2>1. step * q <= step * (-1)
    BY <1>1
  <2> QED
    BY <1>1, <1>3, <2>1
<1>6. 0 <= step * q /\ step * q <= step * big
  BY <1>1, <1>2, <1>4, <1>5
<1>7. m \in 0..last /\ last - m = step * (big - q) + 0
  BY <1>1, <1>2, <1>3, <1>6
<1>8. m \div step = q
  <2>1. m \in Int /\ m = step * q + r
    BY <1>2, <1>3
  <2> HIDE DEF m
  <2> QED
    BY <1>1, <1>2, <2>1, DivisionIs
<1>9. (last - m) % step = 0
  <2> DEFINE a == last - m
             c == big - q
  <2>1. a \in Int /\ c \in Int /\ a = step * c + 0 /\ 0 \in Int
    BY <1>1, <1>2, <1>7
  <2> HIDE DEF a, c, m
  <2>2. a % step = 0
    BY <2>1, DivisionIs
  <2> QED
    BY <2>2 DEF a
<1> QED
  BY <1>7, <1>8, <1>9 DEF q

\* Each paid facture is declared in one period.
LEMMA PeriodsAddUp ==
  ASSUME ReportsInv, NEW order, IsReading(order), NEW mode \in {"month", "quarter"}
  PROVE  Sigma([range \in Periods(mode) |-> Declared(range, order)])
           = Sigma(GrossOf(FindPaidInRange(0..now)))
<1> DEFINE step == MonthStep(mode)
           last == LocalMonth(now)
           T == FindPaidInRange(0..now)
           f == GrossOf(T)
           at(q) == (2 * (q * step) - 1)..(2 * (q * step + step) - 2)
           key == [i \in T |-> at(LocalMonth(book[i].paidAt) \div step)]
           s == [range \in Periods(mode) |-> Declared(range, order)]
           part == [range \in Periods(mode) |-> GrossOf(FindPaidInRange(range))]
<1>1. step \in Nat /\ 0 < step
  BY ReportBounds DEF MonthStep
<1>2. now \in Nat /\ last \in Nat /\ \A t \in 0..now : LocalMonth(t) \in Nat /\ LocalMonth(t) <= last
  <2>1. now \in Nat
    BY PaidIn
  <2>2. ASSUME NEW t \in 0..now PROVE LocalMonth(t) \in Nat /\ 2 * LocalMonth(t) \in t..(t + 1)
    <3>1. t + 1 \in Int /\ t \in Nat
      BY <2>1
    <3>2. (t + 1) \div 2 \in Int /\ (t + 1) % 2 \in Int /\ t + 1 = 2 * ((t + 1) \div 2) + ((t + 1) % 2)
          /\ 0 <= (t + 1) % 2 /\ (t + 1) % 2 < 2
      BY <3>1, Division
    <3> QED
      BY <3>1, <3>2 DEF LocalMonth
  <2>3. last \in Nat /\ 2 * last \in now..(now + 1)
    BY <2>1, <2>2
  <2>4. ASSUME NEW t \in 0..now PROVE LocalMonth(t) <= last
    <3>1. (t + 1) \div 2 <= (now + 1) \div 2
      <4> DEFINE x == LocalMonth(t)
      <4>1. x \in Nat /\ 2 * x <= t + 1 /\ t <= now /\ t \in Nat
        BY <2>1, <2>2
      <4>2. now + 1 <= 2 * last + 1
        <5> DEFINE r == (now + 1) % 2
        <5>1. now + 1 \in Int
          BY <2>1
        <5>2. r \in Int /\ now + 1 = 2 * last + r /\ r < 2
          BY <5>1, Division DEF LocalMonth
        <5> HIDE DEF r, last
        <5> QED
          BY <2>1, <2>3, <5>2
      <4> HIDE DEF x, last
      <4>3. x <= last
        BY <2>1, <2>3, <4>1, <4>2
      <4> QED
        BY <4>3 DEF x, last, LocalMonth
    <3> QED
      BY <3>1 DEF LocalMonth
  <2> QED
    BY <2>1, <2>2, <2>3, <2>4
<1>3. \A m : PeriodRange(mode, m) = at(m \div step)
  BY DEF PeriodRange
<1>4. Periods(mode) = {PeriodRange(mode, m) : m \in {m \in 0..last : (last - m) % step = 0}}
  BY DEF Periods
<1> HIDE DEF step, last
<1>5. IsFiniteSet(Periods(mode))
  <2> DEFINE M == {m \in 0..last : (last - m) % step = 0}
             p == [m \in M |-> PeriodRange(mode, m)]
  <2>1. IsFiniteSet(0..last)
    BY <1>2, FS_Interval
  <2>2. IsFiniteSet(M)
    BY <2>1, FS_Subset
  <2>3. DOMAIN p = M /\ {p[m] : m \in DOMAIN p} = Periods(mode)
    BY <1>4
  <2> HIDE DEF p, M
  <2> QED
    BY <2>2, <2>3, FiniteValues
<1>6. T \in SUBSET DOMAIN book /\ \A i \in T : book[i].paidAt \in 0..now
  BY PaidIn
<1>7. Numbers(f) /\ DOMAIN f = T /\ \A i \in T : f[i] = Gross(Body(i))
  BY <1>6, GrossNumbers
<1>8. \A i \in T : key[i] = at(LocalMonth(book[i].paidAt) \div step)
  OBVIOUS
<1>9. ASSUME NEW i \in T PROVE key[i] \in Periods(mode) /\ book[i].paidAt \in key[i]
  <2> DEFINE t == book[i].paidAt
             l == LocalMonth(t)
             q == l \div step
  <2>1. t \in Nat /\ l \in Nat /\ l <= last
    BY <1>2, <1>6
  <2>2. PICK m \in 0..last : (last - m) % step = 0 /\ m \div step = q
    BY <1>1, <1>2, <2>1, PeriodReached
  <2>3. PeriodRange(mode, m) = key[i]
    BY <1>3, <1>8, <2>2
  <2>4. q \in Int
    BY <1>1, <2>1, Division
  <2> HIDE DEF t
  <2>5. t \in at(q)
    BY <1>1, <2>1, <2>4, PeriodHolds
  <2> QED
    BY <1>4, <1>8, <2>2, <2>3, <2>5 DEF t
<1>10. ASSUME NEW range \in Periods(mode), NEW i \in T, book[i].paidAt \in range
       PROVE  key[i] = range
  <2> DEFINE t == book[i].paidAt
  <2>1. PICK m \in 0..last : range = PeriodRange(mode, m)
    BY <1>4
  <2> DEFINE q == m \div step
  <2>2. q \in Int /\ range = at(q)
    <3>1. m \in Int
      BY <1>2
    <3>2. q \in Int
      BY <1>1, <3>1, Division
    <3> QED
      BY <1>3, <2>1, <3>2
  <2>3. t \in Nat
    BY <1>2, <1>6
  <2> HIDE DEF t, q
  <2>4. LocalMonth(t) \div step = q
    BY <1>1, <1>10, <2>2, <2>3, PeriodHolds DEF t
  <2> QED
    BY <1>8, <2>2, <2>4 DEF t
<1>11. ASSUME NEW range \in Periods(mode)
       PROVE  /\ s[range] = Sigma(part[range])
              /\ \A i : i \in DOMAIN part[range] <=> i \in T /\ key[i] = range
              /\ \A i \in DOMAIN part[range] : part[range][i] = f[i]
  <2> DEFINE S == FindPaidInRange(range)
  <2>1. S \in SUBSET T /\ S \in SUBSET DOMAIN book /\ \A i \in T : i \in S <=> book[i].paidAt \in range
    BY PaidIn DEF FindPaidInRange
  <2>2. s[range] = Sigma(GrossOf(S)) /\ part[range] = GrossOf(S)
    BY DeclaredIs
  <2>3. DOMAIN GrossOf(S) = S /\ \A i \in S : GrossOf(S)[i] = Gross(Body(i))
    BY <2>1, GrossNumbers
  <2>4. \A i : i \in S <=> i \in T /\ key[i] = range
    BY <1>9, <1>10, <2>1
  <2> HIDE DEF S, T, key, f, s, part
  <2> QED
    BY <1>7, <2>1, <2>2, <2>3, <2>4
<1>12. DOMAIN s = Periods(mode)
  OBVIOUS
<1> HIDE DEF T, f, key, part, s
<1>13. PutApart(f, key, s, part)
  BY <1>5, <1>7, <1>9, <1>11, <1>12 DEF PutApart
<1> QED
  BY <1>13, SigmaFibers DEF f, s, T

-------------------------------------------------------------------------------
(* Reports: what another order of the weights moves                         *)

\* What a number is above zero.
Pos(x) == IF x > 0 THEN x ELSE 0

\* Between two orders a service gives some lines a cent and takes as many back.
LEMMA SharesTrade ==
  ASSUME NEW n \in Nat, NEW s, IsSpread(s, n), NEW p, Reorders(p, n), NEW q, Reorders(q, n),
         NEW m, DOMAIN m = 1..n,
         \A k \in 1..n : m[k] = Pos(Distribution(s, p)[k] - Distribution(s, q)[k])
  PROVE  Numbers(m) /\ Sigma(m) \in Nat /\ 2 * Sigma(m) <= n
<1> DEFINE f == Distribution(s, p)
           g == Distribution(s, q)
           d == [k \in 1..n |-> f[k] - g[k]]
           one == [k \in 1..n |-> 1]
           up == [k \in 1..n |-> d[k] + one[k]]
           twice == [k \in 1..n |-> m[k] + m[k]]
<1>1. IsFiniteSet(1..n) /\ Cardinality(1..n) = n
  BY FS_Interval
<1>2. Numbers(f) /\ Numbers(g) /\ DOMAIN f = 1..n /\ DOMAIN g = 1..n /\ Sigma(f) = s.amount /\ Sigma(g) = s.amount
      /\ s.amount \in Nat
  BY <1>1, DistributionExact DEF Numbers, IsSpread
<1>3. \A k \in 1..n : f[k] - g[k] \in -1..1
  <2>1. s.amount = s.amount /\ s.weights = s.weights
    OBVIOUS
  <2> QED
    BY <2>1, SharesStayClose
<1>4. /\ DOMAIN d = 1..n /\ DOMAIN one = 1..n /\ DOMAIN up = 1..n /\ DOMAIN twice = 1..n
      /\ \A k \in 1..n : d[k] = f[k] - g[k] /\ one[k] = 1
      /\ \A k \in 1..n : up[k] = d[k] + one[k] /\ twice[k] = m[k] + m[k]
  OBVIOUS
<1>5. Sigma(one) = n
  <2>1. 1 \in Int
    OBVIOUS
  <2>2. Sigma(one) = 1 * Cardinality(1..n)
    BY <1>1, <2>1, SigmaConst
  <2> QED
    BY <1>1, <2>2
<1>6. \A k \in 1..n : m[k] = Pos(f[k] - g[k])
  OBVIOUS
<1> HIDE DEF f, g, d, one, up, twice
<1>7. Numbers(d) /\ Sigma(d) = 0
  <2>1. DOMAIN f = DOMAIN d /\ DOMAIN g = DOMAIN d /\ \A k \in DOMAIN d : d[k] = f[k] - g[k]
    BY <1>2, <1>4
  <2>2. Numbers(d) /\ Sigma(d) = Sigma(f) - Sigma(g)
    BY <1>2, <2>1, SigmaMinus
  <2> QED
    BY <1>2, <2>2
<1>8. Numbers(one)
  BY <1>1, <1>4 DEF Numbers
<1>9. Numbers(up) /\ Sigma(up) = n
  <2>1. DOMAIN d = DOMAIN up /\ DOMAIN one = DOMAIN up /\ \A k \in DOMAIN up : up[k] = d[k] + one[k]
    BY <1>4
  <2>2. Numbers(up) /\ Sigma(up) = Sigma(d) + Sigma(one)
    BY <1>7, <1>8, <2>1, SigmaPlus
  <2> QED
    BY <1>5, <1>7, <2>2
<1>10. \A k \in 1..n : m[k] \in Nat /\ twice[k] <= up[k]
  BY <1>3, <1>4, <1>6 DEF Pos
<1>11. Numbers(m)
  BY <1>1, <1>10 DEF Numbers
<1>12. Numbers(twice) /\ Sigma(twice) = Sigma(m) + Sigma(m)
  BY <1>4, <1>11, SigmaPlus
<1>13. Sigma(twice) <= Sigma(up)
  BY <1>4, <1>9, <1>10, <1>12, SigmaMono
<1>14. Sigma(m) \in Nat
  BY <1>10, <1>11, SigmaNat
<1> QED
  BY <1>9, <1>11, <1>12, <1>13, <1>14

\* The cents the lines of a facture can gain by another order of its weights.
Moves(b) == Cardinality(SpreadServices(b)) * (Len(b.lines) \div 2)

\* The lines of a facture gain no more than that.
LEMMA LinesTrade ==
  ASSUME NEW b, IsBilledBody(b), NEW p \in Orders(b), NEW q \in Orders(b),
         NEW m, DOMAIN m = DOMAIN b.lines,
         \A k \in DOMAIN b.lines : m[k] = Pos(LineTotals(b, p)[k] - LineTotals(b, q)[k])
  PROVE  Numbers(m) /\ (\A k \in DOMAIN m : m[k] \in Nat)
         /\ Sigma(m) \in Nat /\ Sigma(m) <= Moves(b) /\ Moves(b) \in Nat
<1> DEFINE n == Len(b.lines)
           K == SpreadServices(b)
           half == n \div 2
           share(j, o) == Distribution(b.services[j], o)
           row == [k \in 1..n |-> [j \in K |-> Pos(share(j, p)[k] - share(j, q)[k])]]
           column == [j \in K |-> [k \in 1..n |-> Pos(share(j, p)[k] - share(j, q)[k])]]
           up == [k \in 1..n |-> Sigma(row[k])]
           per == [j \in K |-> Sigma(column[j])]
           most == [j \in K |-> half]
<1>1. n \in Nat /\ DOMAIN b.lines = 1..n /\ Reorders(p, n) /\ Reorders(q, n)
  BY LinesRead
<1>2. GoodOf(b, n)
  BY BilledBody
<1> HIDE DEF n
<1>3. IsFiniteSet(K) /\ Cardinality(K) \in Nat /\ IsFiniteSet(1..n) /\ \A j \in K : IsSpread(b.services[j], n)
  BY <1>1, <1>2, ServicesOf, FS_CardinalityType, FS_Interval
<1>4. half \in Nat /\ \A x \in Nat : 2 * x <= n => x <= half
  <2> DEFINE r == n % 2
  <2>1. half \in Int /\ r \in Int /\ n = 2 * half + r /\ 0 <= r /\ r < 2
    BY <1>1, Division
  <2> HIDE DEF half, r
  <2> QED
    BY <1>1, <2>1
<1> HIDE DEF half
<1>5. /\ \A j \in K : share(j, p) \in [1..n -> Int] /\ share(j, q) \in [1..n -> Int]
      /\ \A k \in 1..n : /\ LineTotals(b, p)[k] = LineTotal(b.lines[k]) + Sigma([j \in K |-> share(j, p)[k]])
                         /\ LineTotals(b, q)[k] = LineTotal(b.lines[k]) + Sigma([j \in K |-> share(j, q)[k]])
                         /\ LineTotal(b.lines[k]) \in Nat
                         /\ LineTotals(b, p)[k] \in Nat /\ LineTotals(b, q)[k] \in Nat
  <2>1. \A j \in K : share(j, p) \in [1..n -> Int] /\ share(j, q) \in [1..n -> Int]
    BY <1>1, <1>3, DistributionExact
  <2>2. \A k \in 1..n : LineTotal(b.lines[k]) \in Nat
    BY <1>2, LineNumbers DEF GoodOf, LinesOf
  <2>3. ASSUME NEW o, Reorders(o, n)
        PROVE  /\ LineTotals(b, o) \in [1..n -> Nat]
               /\ \A k \in 1..n : LineTotals(b, o)[k] = LineTotal(b.lines[k]) + Sigma([j \in K |-> share(j, o)[k]])
    <3>1. /\ LineTotals(b, o) \in [1..n -> Nat] /\ Own(b) \in Int
          /\ \A i \in 1..n : LineTotals(b, o)[i]
               = LineTotal(b.lines[i])
                 + Sigma([j \in SpreadServices(b) |-> Distribution(b.services[j], o)[i]])
          /\ Sigma(LineTotals(b, o)) = Own(b) + Amounts(b, SpreadServices(b))
      BY ONLY <1>1, <1>2, <2>3, LineTotalsOf, ZenonT(30)
    <3> QED
      BY <3>1
  <2> HIDE DEF K, share
  <2>4. ASSUME NEW k \in 1..n, NEW o, Reorders(o, n)
        PROVE  /\ LineTotals(b, o)[k] = LineTotal(b.lines[k]) + Sigma([j \in K |-> share(j, o)[k]])
               /\ LineTotals(b, o)[k] \in Nat
    BY <2>3, <2>4
  <2> QED
    BY <1>1, <2>1, <2>2, <2>4
<1>6. /\ DOMAIN up = 1..n /\ DOMAIN per = K /\ \A k \in 1..n : DOMAIN row[k] = K /\ up[k] = Sigma(row[k])
      /\ \A j \in K : DOMAIN column[j] = 1..n /\ per[j] = Sigma(column[j])
      /\ \A k \in 1..n, j \in K : /\ row[k][j] = Pos(share(j, p)[k] - share(j, q)[k])
                                  /\ column[j][k] = Pos(share(j, p)[k] - share(j, q)[k])
  OBVIOUS
<1> HIDE DEF K, row, column, up, per
<1>7. \A k \in 1..n, j \in K : row[k][j] \in Nat /\ column[j][k] = row[k][j]
  <2> SUFFICES ASSUME NEW k \in 1..n, NEW j \in K PROVE row[k][j] \in Nat /\ column[j][k] = row[k][j]
    OBVIOUS
  <2> DEFINE x == share(j, p)[k] - share(j, q)[k]
  <2>1. x \in Int
    <3> DEFINE f == share(j, p)
               g == share(j, q)
    <3>1. f \in [1..n -> Int] /\ g \in [1..n -> Int]
      BY <1>5
    <3> HIDE DEF f, g
    <3>2. f[k] - g[k] \in Int
      BY <3>1
    <3> QED
      BY <3>2 DEF f, g
  <2>2. row[k][j] = Pos(x) /\ column[j][k] = Pos(x)
    BY <1>6
  <2> HIDE DEF x
  <2> QED
    BY <2>1, <2>2 DEF Pos
<1>8. Edges(up, per, row, column)
  BY <1>3, <1>6, <1>7 DEF Edges
<1>9. Sigma(up) = Sigma(per) /\ Numbers(up) /\ Numbers(per)
  BY <1>8, SigmaTurned
<1>10. ASSUME NEW j \in K PROVE per[j] <= half
  <2> DEFINE c == column[j]
             s == b.services[j]
  <2>1. DOMAIN c = 1..n /\ IsSpread(s, n) /\ \A k \in 1..n : c[k] = Pos(Distribution(s, p)[k] - Distribution(s, q)[k])
    BY <1>3, <1>6
  <2> HIDE DEF c, s
  <2>2. Sigma(c) \in Nat /\ 2 * Sigma(c) <= n
    BY <1>1, <2>1, SharesTrade
  <2> QED
    BY <1>4, <1>6, <2>2 DEF c
<1>11. Sigma(most) = half * Cardinality(K) /\ Numbers(most) /\ DOMAIN most = K /\ \A j \in K : most[j] = half
  <2>1. half \in Int
    BY <1>4
  <2> QED
    BY <1>3, <2>1, SigmaConst DEF Numbers
<1> HIDE DEF most
<1>12. Sigma(per) <= half * Cardinality(K)
  BY <1>6, <1>9, <1>10, <1>11, SigmaMono
<1>13. ASSUME NEW k \in 1..n
       PROVE  m[k] \in Nat /\ m[k] <= up[k]
  <2> DEFINE f == [j \in K |-> share(j, p)[k]]
             g == [j \in K |-> share(j, q)[k]]
             h == row[k]
  <2>1. Numbers(f) /\ Numbers(g) /\ DOMAIN f = K /\ DOMAIN g = K
        /\ \A j \in K : f[j] \in Int /\ g[j] \in Int /\ f[j] = share(j, p)[k] /\ g[j] = share(j, q)[k]
    BY <1>3, <1>5 DEF Numbers
  <2>2. Numbers(h) /\ DOMAIN h = K /\ \A j \in K : h[j] \in Nat /\ h[j] = Pos(share(j, p)[k] - share(j, q)[k])
    BY <1>3, <1>6, <1>7 DEF Numbers
  <2>3. /\ LineTotals(b, p)[k] = LineTotal(b.lines[k]) + Sigma(f)
        /\ LineTotals(b, q)[k] = LineTotal(b.lines[k]) + Sigma(g)
        /\ LineTotal(b.lines[k]) \in Nat
    BY <1>5
  <2> HIDE DEF f, g, h, share
  <2>4. \A j \in K : f[j] - g[j] <= h[j]
    BY <2>1, <2>2 DEF Pos
  <2>5. Sigma(f) - Sigma(g) <= Sigma(h)
    BY <2>1, <2>2, <2>4, SigmaApart
  <2>6. Sigma(h) \in Nat /\ Sigma(f) \in Int /\ Sigma(g) \in Int
    BY <2>1, <2>2, SigmaNat, SigmaInt
  <2>7. up[k] = Sigma(h)
    BY <1>6 DEF h
  <2>8. m[k] = Pos(LineTotals(b, p)[k] - LineTotals(b, q)[k])
    BY <1>1
  <2> DEFINE x == LineTotals(b, p)[k] - LineTotals(b, q)[k]
  <2>9. x \in Int /\ x <= Sigma(h)
    BY <2>3, <2>5, <2>6
  <2> HIDE DEF x
  <2>10. Pos(x) \in Nat /\ Pos(x) <= Sigma(h)
    BY <2>6, <2>9 DEF Pos
  <2> QED
    BY <2>7, <2>8, <2>10 DEF x
<1>14. Numbers(m) /\ \A k \in DOMAIN m : m[k] \in Nat
  BY <1>1, <1>3, <1>13 DEF Numbers
<1>15. Sigma(m) <= Sigma(up)
  BY <1>1, <1>6, <1>9, <1>13, <1>14, SigmaMono
<1>16. Sigma(m) \in Nat
  BY <1>14, SigmaNat
<1>17. Sigma(per) \in Int
  BY <1>9, SigmaInt
<1>18. Moves(b) = half * Cardinality(K) /\ Moves(b) \in Nat
  <2>1. Moves(b) = Cardinality(K) * half
    BY DEF Moves, half, K, n
  <2> QED
    BY <1>3, <1>4, <2>1
<1> QED
  BY <1>9, <1>12, <1>14, <1>15, <1>16, <1>17, <1>18

\* A part of an amount, rounded half up, grows by no more than the amount does.
LEMMA RoundedGrows ==
  ASSUME NEW a \in Int, NEW b \in Int, NEW d \in Nat, 0 < d, NEW rate \in 0..d
  PROVE  /\ HalfUp(a * rate, d) \in Int /\ HalfUp(b * rate, d) \in Int
         /\ HalfUp(a * rate, d) - HalfUp(b * rate, d) <= Pos(a - b)
<1> DEFINE e == Pos(a - b)
           x == a * rate
           y == b * rate
           ed == e * d
           f == HalfUp(x, d)
           g == HalfUp(y, d)
<1>1. e \in Nat /\ a <= b + e
  BY DEF Pos
<1>2. x \in Int /\ y \in Int /\ ed \in Nat
  BY <1>1
<1>3. x <= y + ed
  <2> HIDE DEF e
  <2>1. a * rate <= (b + e) * rate
    BY <1>1
  <2>2. (b + e) * rate = b * rate + e * rate /\ e * rate <= e * d
    BY <1>1
  <2>3. e * rate \in Nat
    BY <1>1
  <2> QED
    BY <1>2, <2>1, <2>2, <2>3
<1> HIDE DEF e, x, y, ed
<1>4. ASSUME NEW z \in Int
      PROVE  HalfUp(z, d) \in Int /\ 2 * (d * HalfUp(z, d)) <= 2 * z + d
             /\ 2 * z + d < 2 * (d * HalfUp(z, d)) + 2 * d
  <2> DEFINE u == 2 * z + d
             v == 2 * d
             h == u \div v
             r == u % v
  <2>1. u \in Int /\ v \in Int /\ 0 < v
    OBVIOUS
  <2>2. HalfUp(z, d) = h
    BY DEF HalfUp
  <2> HIDE DEF u, v
  <2>3. h \in Int /\ r \in Int /\ u = v * h + r /\ 0 <= r /\ r < v
    BY <2>1, Division
  <2> HIDE DEF h, r
  <2>4. v * h = 2 * (d * h) /\ d * h \in Int
    BY <2>3 DEF v
  <2> QED
    BY <2>1, <2>2, <2>3, <2>4 DEF u, v
<1>5. f \in Int /\ 2 * (d * f) <= 2 * x + d /\ g \in Int /\ 2 * y + d < 2 * (d * g) + 2 * d
  BY <1>2, <1>4
<1> HIDE DEF f, g
<1>6. d * f \in Int /\ d * g \in Int /\ d * e \in Int /\ ed = d * e
  BY <1>1, <1>5 DEF ed
<1>7. d * f < d * g + d + d * e
  BY <1>2, <1>3, <1>5, <1>6
<1>8. f - g <= e
  <2> SUFFICES ASSUME g + e + 1 <= f PROVE FALSE
    BY <1>1, <1>5
  <2>1. d * (g + e + 1) <= d * f
    BY <1>1, <1>5
  <2>2. d * (g + e + 1) = d * g + d * e + d
    BY <1>1, <1>5
  <2> QED
    BY <1>6, <1>7, <2>1, <2>2
<1> QED
  BY <1>5, <1>8 DEF f, g, e, x, y

\* So does the margin of an item.
LEMMA MarginGrows ==
  ASSUME ReportsInv, NEW x, x.item \in BOOLEAN, NEW a \in Nat, NEW b \in Nat, NEW count \in Nat
  PROVE  ResolveMargin(x, a, count) - ResolveMargin(x, b, count) <= Pos(a - b)
<1>0. margin \in Margins
  BY DEF ReportsInv
<1>1. /\ margin.mode \in {"NONE", "PERCENTAGE", "AMOUNT"} /\ margin.value \in Nat
      /\ margin.mode = "PERCENTAGE" => margin.value <= 10000
  BY <1>0, ReportData
<1>2. Max({a, 0}) = a /\ Max({b, 0}) = b
  <2>1. Max({0, a}) = a /\ Max({0, b}) = b
    BY MaxWithZero
  <2> QED
    BY <2>1
<1>3. CASE ~x.item
  <2>1. ResolveMargin(x, a, count) = 0 /\ ResolveMargin(x, b, count) = 0
    BY <1>3 DEF ResolveMargin
  <2> QED
    BY <2>1 DEF Pos
<1>4. CASE x.item /\ margin.mode = "NONE"
  <2>1. ResolveMargin(x, a, count) = a /\ ResolveMargin(x, b, count) = b
    BY <1>2, <1>4 DEF ResolveMargin
  <2> QED
    BY <2>1 DEF Pos
<1>5. CASE x.item /\ margin.mode = "PERCENTAGE"
  <2> DEFINE v == margin.value
  <2>1. ResolveMargin(x, a, count) = HalfUp(a * v, 10000) /\ ResolveMargin(x, b, count) = HalfUp(b * v, 10000)
    BY <1>5 DEF ResolveMargin
  <2>2. v \in Nat /\ v <= 10000
    BY <1>1, <1>5
  <2> HIDE DEF v
  <2> DEFINE d == 10000
  <2>3. d \in Nat /\ 0 < d /\ v <= d
    BY <2>2
  <2> HIDE DEF d
  <2>4. v \in 0..d /\ a \in Int /\ b \in Int
    BY <2>2, <2>3
  <2>5. HalfUp(a * v, d) - HalfUp(b * v, d) <= Pos(a - b)
    BY <2>3, <2>4, RoundedGrows
  <2> QED
    BY <2>1, <2>5 DEF d
<1>6. CASE x.item /\ margin.mode = "AMOUNT"
  <2> DEFINE h == HalfUp(margin.value * count, 10000)
  <2>0. margin.mode = "AMOUNT" /\ margin.mode # "NONE" /\ margin.mode # "PERCENTAGE"
    BY <1>6
  <2>1. ResolveMargin(x, a, count) = Min({h, Max({a, 0})}) /\ ResolveMargin(x, b, count) = Min({h, Max({b, 0})})
    <3> DEFINE u == Min({h, Max({a, 0})})
               v == Min({h, Max({b, 0})})
    <3>1. u = Min({HalfUp(margin.value * count, 10000), Max({a, 0})})
          /\ v = Min({HalfUp(margin.value * count, 10000), Max({b, 0})})
      OBVIOUS
    <3> HIDE DEF u, v
    <3> QED
      BY <1>6, <2>0, <3>1 DEF ResolveMargin
  <2>2. h \in Nat
    <3>1. margin.value * count \in Nat /\ 10000 \in Nat /\ 0 < 10000
      BY <1>1
    <3> QED
      BY <3>1, HalfUpNat
  <2> HIDE DEF h
  <2>3. Min({h, a}) = (IF h < a THEN h ELSE a) /\ Min({h, b}) = IF h < b THEN h ELSE b
    BY <2>2 DEF Min
  <2>4. ResolveMargin(x, a, count) = (IF h < a THEN h ELSE a) /\ ResolveMargin(x, b, count) = IF h < b THEN h ELSE b
    BY <1>2, <2>1, <2>3
  <2> QED
    BY <2>2, <2>4 DEF Pos
<1> QED
  BY <1>1, <1>3, <1>4, <1>5, <1>6

\* The cents facture i's lines gain when read in this order and not in that one.
Moved(i, order, other) ==
  [k \in DOMAIN Body(i).lines |->
     Pos(LineTotals(Body(i), order[i])[k] - LineTotals(Body(i), other[i])[k])]
MovedIn(i, order, other, c) ==
  [k \in DOMAIN Body(i).lines |-> IF CategoryOf(Body(i).lines[k]) = c THEN Moved(i, order, other)[k] ELSE 0]

\* They are no more than the leftover cents.
LEMMA MovedAre ==
  ASSUME ReportsInv, NEW order, IsReading(order), NEW other, IsReading(other), NEW i \in DOMAIN book
  PROVE  /\ Numbers(Moved(i, order, other)) /\ DOMAIN Moved(i, order, other) = DOMAIN Body(i).lines
         /\ \A k \in DOMAIN Body(i).lines :
              /\ Moved(i, order, other)[k] \in Nat
              /\ LineTotals(Body(i), order[i])[k] \in Nat /\ LineTotals(Body(i), other[i])[k] \in Nat
              /\ LineTotals(Body(i), order[i])[k] - LineTotals(Body(i), other[i])[k] <= Moved(i, order, other)[k]
         /\ DOMAIN LineTotals(Body(i), order[i]) = DOMAIN Body(i).lines
         /\ DOMAIN LineTotals(Body(i), other[i]) = DOMAIN Body(i).lines
         /\ Sigma(Moved(i, order, other)) \in Nat /\ Sigma(Moved(i, order, other)) <= Moves(Body(i))
         /\ Moves(Body(i)) \in Nat /\ IsFiniteSet(DOMAIN Body(i).lines)
<1> DEFINE b == Body(i)
           p == order[i]
           q == other[i]
           m == Moved(i, order, other)
<1>1. IsBilledBody(b) /\ p \in Orders(b) /\ q \in Orders(b)
  BY BillOf DEF IsReading
<1>2. DOMAIN m = DOMAIN b.lines /\ \A k \in DOMAIN b.lines : m[k] = Pos(LineTotals(b, p)[k] - LineTotals(b, q)[k])
  BY DEF Moved
<1> HIDE DEF b, p, q, m
<1>3. Numbers(m) /\ (\A k \in DOMAIN m : m[k] \in Nat) /\ Sigma(m) \in Nat /\ Sigma(m) <= Moves(b) /\ Moves(b) \in Nat
  BY <1>1, <1>2, LinesTrade
<1>4. /\ DOMAIN b.lines = 1..Len(b.lines)
      /\ LineTotals(b, p) \in [1..Len(b.lines) -> Nat] /\ LineTotals(b, q) \in [1..Len(b.lines) -> Nat]
  BY <1>1, LinesRead
<1>5. ASSUME NEW k \in DOMAIN b.lines
      PROVE  /\ LineTotals(b, p)[k] \in Nat /\ LineTotals(b, q)[k] \in Nat
             /\ LineTotals(b, p)[k] - LineTotals(b, q)[k] <= m[k]
  <2> DEFINE x == LineTotals(b, p)[k] - LineTotals(b, q)[k]
  <2>1. LineTotals(b, p)[k] \in Nat /\ LineTotals(b, q)[k] \in Nat
    BY <1>4
  <2>2. x \in Int
    BY <2>1
  <2> HIDE DEF x
  <2>3. x <= Pos(x)
    BY <2>2 DEF Pos
  <2>4. m[k] = Pos(x)
    BY <1>2 DEF x
  <2> QED
    BY <2>1, <2>3, <2>4 DEF x
<1>6. IsFiniteSet(DOMAIN b.lines)
  BY <1>2, <1>3 DEF Numbers
<1> QED
  BY <1>2, <1>3, <1>4, <1>5, <1>6 DEF b, p, q, m

\* The margin of a facture moves by no more.
LEMMA FactureMarginMoves ==
  ASSUME ReportsInv, NEW order, IsReading(order), NEW other, IsReading(other), NEW i \in DOMAIN book
  PROVE  /\ MarginOf(i, order)["margin"] \in Int /\ MarginOf(i, other)["margin"] \in Int
         /\ MarginOf(i, order)["margin"] - MarginOf(i, other)["margin"] <= Moves(Body(i))
<1> DEFINE b == Body(i)
           m == Moved(i, order, other)
           f == LineMargins(i, order)
           g == LineMargins(i, other)
           h == ServiceMargins(i)
<1>1. IsBilledBody(b)
  BY BillOf
<1>2. Sigma(m) \in Nat /\ Sigma(m) <= Moves(b) /\ Moves(b) \in Nat
  BY MovedAre
<1>3. CASE b.mode = "MANUAL"
  <2>1. MarginOf(i, order)["margin"] = 0 /\ MarginOf(i, other)["margin"] = 0
    BY <1>3 DEF MarginOf
  <2> QED
    BY <1>2, <2>1
<1>4. CASE b.mode # "MANUAL"
  <2>1. MarginOf(i, order)["margin"] = Sigma(f) + Sigma(h) /\ MarginOf(i, other)["margin"] = Sigma(g) + Sigma(h)
    BY <1>4 DEF MarginOf
  <2>2. Numbers(h)
    <3>1. IsFiniteSet(DOMAIN b.services)
      BY <1>1, BilledBody DEF GoodOf, LinesOf
    <3>2. ASSUME NEW j \in DOMAIN b.services PROVE h[j] \in Int
      <4> DEFINE x == b.services[j]
                 amount == x.amount
                 count == 10000
      <4>1. h[j] = ResolveMargin(x, amount, count)
        BY DEF ServiceMargins
      <4>2. x.item \in BOOLEAN /\ amount \in Nat /\ count \in Nat
        BY <1>1 DEF IsBilledBody, IsBilledService
      <4> HIDE DEF x, amount, count
      <4>3. ResolveMargin(x, amount, count) \in 0..amount
        BY <4>2, MarginIsPart
      <4> QED
        BY <4>1, <4>2, <4>3
    <3>3. DOMAIN h = DOMAIN b.services
      BY DEF ServiceMargins
    <3> QED
      BY <3>1, <3>2, <3>3 DEF Numbers
  <2>3. /\ DOMAIN f = DOMAIN m /\ DOMAIN g = DOMAIN m /\ Numbers(m) /\ DOMAIN m = DOMAIN b.lines
        /\ IsFiniteSet(DOMAIN b.lines)
    BY MovedAre DEF LineMargins
  <2>4. ASSUME NEW k \in DOMAIN m PROVE f[k] \in Int /\ g[k] \in Int /\ f[k] - g[k] <= m[k]
    <3> DEFINE x == b.lines[k]
               t == LineTotals(b, order[i])[k]
               u == LineTotals(b, other[i])[k]
               count == BilledQuantity(x)
    <3>1. f[k] = ResolveMargin(x, t, count) /\ g[k] = ResolveMargin(x, u, count)
      BY <2>3, MovedAre DEF LineMargins
    <3>2. t \in Nat /\ u \in Nat /\ t - u <= m[k] /\ m[k] \in Nat
      BY <2>3, MovedAre
    <3>3. IsLineItem(x) /\ x.item \in BOOLEAN
      BY <1>1, <2>3 DEF IsBilledBody
    <3>4. count \in Nat
      BY <3>3, LineNumbers
    <3> HIDE DEF x, t, u, count, m
    <3>5. ResolveMargin(x, t, count) - ResolveMargin(x, u, count) <= Pos(t - u)
      BY <3>2, <3>3, <3>4, MarginGrows
    <3>6. ResolveMargin(x, t, count) \in 0..t /\ ResolveMargin(x, u, count) \in 0..u
      <4>1. ResolveMargin(x, t, count) \in 0..t
        BY <3>2, <3>3, <3>4, MarginIsPart
      <4>2. ResolveMargin(x, u, count) \in 0..u
        BY <3>2, <3>3, <3>4, MarginIsPart
      <4> QED
        BY <4>1, <4>2
    <3>7. Pos(t - u) <= m[k]
      BY <3>2 DEF Pos
    <3>8. Pos(t - u) \in Int
      BY <3>2 DEF Pos
    <3> QED
      BY <3>1, <3>2, <3>5, <3>6, <3>7, <3>8
  <2> HIDE DEF m, f, g, h, b
  <2>5. Numbers(f) /\ Numbers(g)
    BY <2>3, <2>4 DEF Numbers
  <2>6. Sigma(f) - Sigma(g) <= Sigma(m)
    BY <2>3, <2>4, <2>5, SigmaApart
  <2>7. Sigma(f) \in Int /\ Sigma(g) \in Int /\ Sigma(h) \in Int
    BY <2>2, <2>5, SigmaInt
  <2> QED
    BY <1>2, <2>1, <2>6, <2>7 DEF b
<1> QED
  BY <1>3, <1>4

\* A category of it gains no more than its lines do.
LEMMA FactureCategoryMoves ==
  ASSUME ReportsInv, NEW order, IsReading(order), NEW other, IsReading(other), NEW i \in DOMAIN book,
         NEW c \in Categories
  PROVE  /\ InCategory(i, order, c) \in Int /\ InCategory(i, other, c) \in Int
         /\ InCategory(i, order, c) - InCategory(i, other, c) <= Sigma(MovedIn(i, order, other, c))
         /\ Sigma(MovedIn(i, order, other, c)) \in Nat
<1> DEFINE b == Body(i)
           T == LineTotals(b, order[i])
           U == LineTotals(b, other[i])
           m == MovedIn(i, order, other, c)
           f == [k \in DOMAIN T |-> IF CategoryOf(b.lines[k]) = c THEN T[k] ELSE 0]
           g == [k \in DOMAIN U |-> IF CategoryOf(b.lines[k]) = c THEN U[k] ELSE 0]
           S == {j \in Counted(b) : CategoryOf(b.services[j]) = c}
           rest == Amounts(b, S)
<1>1. IsBilledBody(b)
  BY BillOf
<1>2. /\ DOMAIN T = DOMAIN b.lines /\ DOMAIN U = DOMAIN b.lines /\ IsFiniteSet(DOMAIN b.lines)
      /\ \A k \in DOMAIN b.lines : /\ Moved(i, order, other)[k] \in Nat /\ T[k] \in Nat /\ U[k] \in Nat
                                   /\ T[k] - U[k] <= Moved(i, order, other)[k]
  BY MovedAre
<1>3. /\ DOMAIN m = DOMAIN b.lines /\ DOMAIN f = DOMAIN b.lines /\ DOMAIN g = DOMAIN b.lines
      /\ \A k \in DOMAIN b.lines : /\ f[k] = (IF CategoryOf(b.lines[k]) = c THEN T[k] ELSE 0)
                                   /\ g[k] = (IF CategoryOf(b.lines[k]) = c THEN U[k] ELSE 0)
                                   /\ m[k] = (IF CategoryOf(b.lines[k]) = c THEN Moved(i, order, other)[k] ELSE 0)
  BY <1>2 DEF MovedIn
<1>4. \A x : InCategory(i, x, c) =
        IF b.mode = "MANUAL" THEN IF c = Uncategorized THEN TotalsOf(i, x).subtotal ELSE 0
        ELSE Sigma([k \in DOMAIN LineTotals(b, x[i]) |->
                      IF CategoryOf(b.lines[k]) = c THEN LineTotals(b, x[i])[k] ELSE 0]) + rest
  BY DEF InCategory
<1>5. b.mode # "MANUAL" => /\ InCategory(i, order, c) = Sigma(f) + rest
                           /\ InCategory(i, other, c) = Sigma(g) + rest
  BY <1>4
<1>6. rest \in Int
  <2> DEFINE a == [j \in S |-> b.services[j].amount]
  <2>1. GoodOf(b, Len(b.lines)) /\ Len(b.lines) \in Nat
    BY <1>1, BilledBody
  <2>2. IsFiniteSet(S) /\ \A j \in S : b.services[j].amount \in Nat
    <3>1. IsFiniteSet(Visible(b)) /\ S \in SUBSET Visible(b)
      BY <2>1, ServicesOf DEF Counted
    <3> QED
      BY <2>1, <3>1, FS_Subset DEF GoodOf, GoodService, Visible
  <2>3. Numbers(a)
    BY <2>2 DEF Numbers
  <2> HIDE DEF a
  <2>4. Sigma(a) \in Int
    BY <2>3, SigmaInt
  <2> QED
    BY <2>4 DEF a, Amounts
<1> HIDE DEF T, U, m, f, g, rest
<1>7. /\ Numbers(f) /\ Numbers(g) /\ Numbers(m)
      /\ \A k \in DOMAIN m : f[k] - g[k] <= m[k] /\ m[k] \in Nat
  BY <1>2, <1>3 DEF Numbers
<1>8. Sigma(f) - Sigma(g) <= Sigma(m)
  BY <1>3, <1>7, SigmaApart
<1>9. Sigma(f) \in Int /\ Sigma(g) \in Int /\ Sigma(m) \in Nat
  BY <1>7, SigmaInt, SigmaNat
<1>10. CASE b.mode = "MANUAL"
  <2>1. /\ TotalsOf(i, order).subtotal = Before(b) /\ TotalsOf(i, other).subtotal = Before(b)
        /\ Before(b) \in Nat
    BY <1>1, SubtotalOf, GrossIs
  <2>2. InCategory(i, order, c) = InCategory(i, other, c) /\ InCategory(i, order, c) \in Nat
    BY <1>4, <1>10, <2>1
  <2> QED
    BY <1>9, <2>2 DEF m
<1>11. CASE b.mode # "MANUAL"
  BY <1>5, <1>6, <1>8, <1>9, <1>11 DEF m
<1> QED
  BY <1>10, <1>11

\* The categories of a statement gain no more than the leftover cents between them.
LEMMA CategoriesMove ==
  ASSUME ReportsInv, NEW order, IsReading(order), NEW other, IsReading(other), NEW range,
         NEW w, DOMAIN w = Categories,
         \A c \in Categories :
           w[c] = Sigma([i \in FindPaidInRange(range) |-> Sigma(MovedIn(i, order, other, c))])
  PROVE  /\ Numbers(w) /\ Sigma(w) <= Sigma([i \in FindPaidInRange(range) |-> Moves(Body(i))])
         /\ \A c \in Categories :
              /\ w[c] \in Nat
              /\ ByCategory(range, order)[c] \in Int /\ ByCategory(range, other)[c] \in Int
              /\ ByCategory(range, order)[c] - ByCategory(range, other)[c] <= w[c]
<1> DEFINE S == FindPaidInRange(range)
           v == [i \in S |-> Sigma(Moved(i, order, other))]
           most == [i \in S |-> Moves(Body(i))]
           row == [c \in Categories |-> [i \in S |-> Sigma(MovedIn(i, order, other, c))]]
           column == [i \in S |-> [c \in Categories |-> Sigma(MovedIn(i, order, other, c))]]
<1>1. IsFiniteSet(S) /\ S \in SUBSET DOMAIN book
  BY PaidIn
<1>2. /\ DOMAIN v = S /\ DOMAIN most = S
      /\ \A c \in Categories : DOMAIN row[c] = S /\ w[c] = Sigma(row[c])
      /\ \A i \in S : DOMAIN column[i] = Categories /\ v[i] = Sigma(Moved(i, order, other)) /\ most[i] = Moves(Body(i))
      /\ \A c \in Categories, i \in S : row[c][i] = Sigma(MovedIn(i, order, other, c)) /\ column[i][c] = row[c][i]
  OBVIOUS
<1>3. \A c \in Categories, i \in S : row[c][i] \in Nat
  BY <1>1, <1>2, FactureCategoryMoves
<1>4. \A i \in S : v[i] \in Nat /\ most[i] \in Nat /\ v[i] <= most[i]
  BY <1>1, <1>2, MovedAre
<1> HIDE DEF v, most, row, column
<1>5. ASSUME NEW i \in S PROVE v[i] = Sigma(column[i])
  <2> DEFINE f == Moved(i, order, other)
             key == [k \in DOMAIN f |-> CategoryOf(Body(i).lines[k])]
             parts == [c \in Categories |-> MovedIn(i, order, other, c)]
             s == column[i]
  <2>1. Numbers(f) /\ DOMAIN f = DOMAIN Body(i).lines
    BY <1>1, MovedAre
  <2>2. /\ \A k \in DOMAIN f : key[k] = CategoryOf(Body(i).lines[k]) /\ key[k] \in Categories
        /\ DOMAIN s = Categories /\ \A c \in Categories : s[c] = Sigma(parts[c])
    BY <1>2 DEF CategoryOf, Categories
  <2>3. \A c \in Categories : /\ DOMAIN parts[c] = DOMAIN f
                              /\ \A k \in DOMAIN f : parts[c][k] = IF key[k] = c THEN f[k] ELSE 0
    BY <2>1, <2>2 DEF MovedIn
  <2> HIDE DEF f, key, parts, s
  <2>4. Masked(f, key, s, parts)
    BY <2>1, <2>2, <2>3, CategoriesFinite DEF Masked
  <2>5. Sigma(s) = Sigma(f)
    BY <2>4, SigmaMasked
  <2> QED
    BY <1>2, <2>5 DEF s, f
<1>6. Edges(w, v, row, column)
  BY <1>1, <1>2, <1>3, <1>5, CategoriesFinite DEF Edges
<1>7. Sigma(w) = Sigma(v) /\ Numbers(w) /\ Numbers(v)
  BY <1>6, SigmaTurned
<1>8. Sigma(v) <= Sigma(most)
  <2>1. Numbers(most)
    BY <1>1, <1>2, <1>4 DEF Numbers
  <2> QED
    BY <1>2, <1>4, <1>7, <2>1, SigmaMono
<1>9. ASSUME NEW c \in Categories
      PROVE  /\ w[c] \in Nat
             /\ ByCategory(range, order)[c] \in Int /\ ByCategory(range, other)[c] \in Int
             /\ ByCategory(range, order)[c] - ByCategory(range, other)[c] <= w[c]
  <2> DEFINE f == [i \in S |-> InCategory(i, order, c)]
             g == [i \in S |-> InCategory(i, other, c)]
             h == row[c]
  <2>1. /\ DOMAIN f = S /\ DOMAIN g = S /\ DOMAIN h = S
        /\ \A i \in S : f[i] \in Int /\ g[i] \in Int /\ f[i] - g[i] <= h[i] /\ h[i] \in Nat
    <3>1. ASSUME NEW i \in S PROVE f[i] \in Int /\ g[i] \in Int /\ f[i] - g[i] <= h[i] /\ h[i] \in Nat
      BY <1>1, <1>2, <1>3, FactureCategoryMoves
    <3> QED
      BY <1>2, <3>1
  <2>2. ByCategory(range, order)[c] = Sigma(f) /\ ByCategory(range, other)[c] = Sigma(g)
    BY DEF ByCategory, Categories
  <2> HIDE DEF f, g, h, S
  <2>3. Numbers(f) /\ Numbers(g) /\ Numbers(h)
    BY <1>1, <2>1 DEF Numbers
  <2>4. Sigma(f) - Sigma(g) <= Sigma(h) /\ Sigma(f) \in Int /\ Sigma(g) \in Int /\ Sigma(h) \in Nat
    BY <2>1, <2>3, SigmaApart, SigmaInt, SigmaNat
  <2> QED
    BY <1>2, <2>2, <2>4 DEF h
<1> QED
  BY <1>7, <1>8, <1>9 DEF most

\* What MostRates says.
LEMMA MostRatesIs ==
  MostRates \in Nat /\ \A c \in Activities : Len(Cotisations[c]) \in Nat /\ Len(Cotisations[c]) <= MostRates
<1> DEFINE len == [c \in Activities |-> Len(Cotisations[c])]
           S == {0} \cup {Len(Cotisations[c]) : c \in Activities}
           B == {n \in Nat : \A c \in Activities : len[c] <= n}
<1>1. \A c \in Activities : Len(Cotisations[c]) \in Nat
  BY ReportData DEF Activities
<1>2. DOMAIN len = Activities /\ \A c \in Activities : len[c] \in Nat /\ len[c] = Len(Cotisations[c])
  BY <1>1
<1>3. S = {0} \cup {len[c] : c \in Activities}
  OBVIOUS
<1> HIDE DEF len, S
<1>4. Numbers(len)
  BY <1>2, CategoriesFinite DEF Numbers
<1>5. Sigma(len) \in B
  BY <1>2, <1>4, SigmaNat
<1>6. B \in SUBSET Nat /\ B # {}
  BY <1>5
<1>7. PICK n \in B : \A m \in B : n <= m
  BY <1>6, LeastNumber
<1>8. n \in Nat /\ \A c \in Activities : len[c] <= n
  OBVIOUS
<1>9. n \in S
  <2>1. CASE n = 0
    BY <1>3, <2>1
  <2>2. CASE n # 0
    <3>1. n - 1 \in Nat /\ n - 1 \notin B
      BY <1>7, <1>8, <2>2
    <3>2. PICK c \in Activities : ~(len[c] <= n - 1)
      BY <3>1
    <3>3. len[c] = n
      BY <1>2, <1>8, <3>2
    <3> QED
      BY <1>3, <3>3
  <2> QED
    BY <2>1, <2>2
<1>10. \A y \in S : n >= y
  BY <1>2, <1>3, <1>8
<1>11. Max(S) \in S /\ \A y \in S : Max(S) >= y
  <2>1. Max(S) = CHOOSE x \in S : \A y \in S : x >= y
    BY DEF Max
  <2> QED
    BY <1>9, <1>10, <2>1
<1>12. MostRates = Max(S)
  BY DEF MostRates, S
<1> QED
  BY <1>2, <1>3, <1>11, <1>12

\* The charges of one activity, rate by rate.
LEMMA ActivityCharges ==
  ASSUME NEW c \in Activities, NEW a \in Int, NEW b \in Int, NEW w \in Nat, a - b <= w,
         NEW f, NEW g, DOMAIN f = DOMAIN Cotisations[c], DOMAIN g = DOMAIN Cotisations[c],
         \A k \in DOMAIN f : f[k] = HalfUp(a * Cotisations[c][k], 10000),
         \A k \in DOMAIN g : g[k] = HalfUp(b * Cotisations[c][k], 10000)
  PROVE  Sigma(f) \in Int /\ Sigma(g) \in Int /\ Sigma(f) - Sigma(g) <= MostRates * w
<1> DEFINE rates == Cotisations[c]
           n == Len(rates)
           d == 10000
           most == [k \in 1..n |-> w]
<1>1. rates \in Seq(0..d)
  BY ReportData DEF Activities
<1>2. n <= MostRates /\ MostRates \in Nat
  BY MostRatesIs
<1>3. d \in Nat /\ 0 < d
  OBVIOUS
<1>4. /\ DOMAIN f = DOMAIN rates /\ DOMAIN g = DOMAIN rates
      /\ \A k \in DOMAIN rates : f[k] = HalfUp(a * rates[k], d) /\ g[k] = HalfUp(b * rates[k], d)
  OBVIOUS
<1> HIDE DEF rates, d
<1>5. n \in Nat /\ DOMAIN rates = 1..n /\ \A k \in 1..n : rates[k] \in 0..d
  BY <1>1, <1>3
<1> HIDE DEF n
<1>6. IsFiniteSet(1..n) /\ Cardinality(1..n) = n
  BY <1>5, FS_Interval
<1>7. ASSUME NEW k \in 1..n PROVE f[k] \in Int /\ g[k] \in Int /\ f[k] - g[k] <= w
  <2> DEFINE r == rates[k]
  <2>0. f[k] = HalfUp(a * r, d) /\ g[k] = HalfUp(b * r, d)
    <3>1. k \in DOMAIN rates
      BY <1>5
    <3> QED
      BY ONLY <1>4, <3>1
  <2>1. r \in 0..d
    BY <1>5
  <2> HIDE DEF r
  <2>2. HalfUp(a * r, d) \in Int /\ HalfUp(b * r, d) \in Int /\ HalfUp(a * r, d) - HalfUp(b * r, d) <= Pos(a - b)
    <3>1. a \in Int /\ b \in Int
      OBVIOUS
    <3> QED
      BY ONLY <1>3, <2>1, <3>1, RoundedGrows
  <2>3. Pos(a - b) \in Int /\ Pos(a - b) <= w
    BY DEF Pos
  <2> QED
    BY <2>0, <2>2, <2>3
<1>8. DOMAIN most = 1..n /\ (\A k \in 1..n : most[k] = w) /\ Sigma(most) = w * n
  <2>1. w \in Int
    OBVIOUS
  <2>2. Sigma(most) = w * Cardinality(1..n)
    BY ONLY <1>6, <2>1, SigmaConst
  <2> QED
    BY <1>6, <2>2
<1> HIDE DEF most
<1>9. Numbers(f) /\ Numbers(g) /\ Numbers(most) /\ DOMAIN f = DOMAIN most /\ DOMAIN g = DOMAIN most
      /\ \A k \in DOMAIN most : f[k] - g[k] <= most[k]
  BY <1>4, <1>5, <1>6, <1>7, <1>8 DEF Numbers
<1>10. Sigma(f) - Sigma(g) <= Sigma(most) /\ Sigma(f) \in Int /\ Sigma(g) \in Int
  BY <1>9, SigmaApart, SigmaInt
<1>11. w * n <= MostRates * w /\ w * n \in Int /\ MostRates * w \in Int
  BY <1>2, <1>5
<1> QED
  BY <1>8, <1>10, <1>11

\* The cents an order can move in the window.
Leftovers(S) == Sigma([i \in S |-> Moves(Body(i))])

\* They are a natural number.
LEMMA LeftoversAre ==
  ASSUME ReportsInv, NEW S \in SUBSET DOMAIN book
  PROVE  Numbers([i \in S |-> Moves(Body(i))]) /\ Leftovers(S) \in Nat
<1> DEFINE most == [i \in S |-> Moves(Body(i))]
<1>1. \A i \in S : Moves(Body(i)) \in Nat
  <2>1. ASSUME NEW i \in S PROVE Moves(Body(i)) \in Nat
    <3> DEFINE b == Body(i)
               n == Len(b.lines)
    <3>1. IsBilledBody(b)
      BY BillOf
    <3>2. GoodOf(b, n) /\ n \in Nat
      BY <3>1, BilledBody
    <3>3. IsFiniteSet(SpreadServices(b))
      BY <3>2, ServicesOf
    <3>4. Cardinality(SpreadServices(b)) \in Nat
      BY <3>3, FS_CardinalityType
    <3>5. n \div 2 \in Nat
      <4> HIDE DEF n
      <4> QED
        BY <3>2
    <3> DEFINE x == Cardinality(SpreadServices(b))
               y == n \div 2
    <3>6. Moves(b) = x * y
      BY DEF Moves
    <3>7. x \in Nat /\ y \in Nat
      BY <3>4, <3>5
    <3> HIDE DEF x, y
    <3> QED
      BY <3>6, <3>7
  <2> QED
    BY <2>1
<1>2. IsFiniteSet(S)
  BY PaidIn, FS_Subset
<1>3. Numbers(most) /\ \A i \in DOMAIN most : most[i] \in Nat
  BY <1>1, <1>2 DEF Numbers
<1> HIDE DEF most
<1>4. Sigma(most) \in Nat
  BY <1>3, SigmaNat
<1> QED
  BY <1>3, <1>4 DEF most, Leftovers

\* The margin of a set of factures moves by no more.
LEMMA MarginMoves ==
  ASSUME ReportsInv, NEW order, IsReading(order), NEW other, IsReading(other), NEW S \in SUBSET DOMAIN book
  PROVE  /\ MarginTotal(S, order, "margin") \in Int /\ MarginTotal(S, other, "margin") \in Int
         /\ MarginTotal(S, order, "margin") - MarginTotal(S, other, "margin") <= Leftovers(S)
<1> DEFINE f == [i \in S |-> MarginOf(i, order)["margin"]]
           g == [i \in S |-> MarginOf(i, other)["margin"]]
           h == [i \in S |-> Moves(Body(i))]
<1>1. \A i \in S : f[i] \in Int /\ g[i] \in Int /\ f[i] - g[i] <= h[i]
  BY FactureMarginMoves
<1>2. DOMAIN f = S /\ DOMAIN g = S /\ DOMAIN h = S
  OBVIOUS
<1>3. Numbers(h) /\ Leftovers(S) = Sigma(h)
  BY LeftoversAre DEF Leftovers
<1>4. MarginTotal(S, order, "margin") = Sigma(f) /\ MarginTotal(S, other, "margin") = Sigma(g)
  BY DEF MarginTotal
<1> HIDE DEF f, g, h
<1>5. Numbers(f) /\ Numbers(g)
  BY <1>1, <1>2, <1>3 DEF Numbers
<1> QED
  BY <1>1, <1>2, <1>3, <1>4, <1>5, SigmaApart, SigmaInt

\* The charges of a statement move by no more than those cents, once a rate.
LEMMA ChargesMove ==
  ASSUME ReportsInv, NEW order, IsReading(order), NEW other, IsReading(other), NEW range
  PROVE  /\ EstimatedCharges(range, order) \in Int /\ EstimatedCharges(range, other) \in Int
         /\ EstimatedCharges(range, order) - EstimatedCharges(range, other)
              <= MostRates * Leftovers(FindPaidInRange(range))
<1> DEFINE S == FindPaidInRange(range)
           w == [c \in Categories |-> Sigma([i \in S |-> Sigma(MovedIn(i, order, other, c))])]
           at(o, c) == ByCategory(range, o)[c]
           charge(o, c) == [k \in DOMAIN Cotisations[c] |-> HalfUp(at(o, c) * Cotisations[c][k], 10000)]
           f == [c \in Activities |-> Sigma(charge(order, c))]
           g == [c \in Activities |-> Sigma(charge(other, c))]
           h == [c \in Activities |-> MostRates * w[c]]
           part == [c \in Activities |-> w[c]]
           zero == [c \in Activities |-> 0]
<1>1. /\ Numbers(w) /\ Sigma(w) <= Leftovers(S) /\ DOMAIN w = Categories
      /\ \A c \in Categories : w[c] \in Nat /\ at(order, c) \in Int /\ at(other, c) \in Int
                               /\ at(order, c) - at(other, c) <= w[c]
  <2>1. DOMAIN w = Categories /\ \A c \in Categories : w[c] = Sigma([i \in S |-> Sigma(MovedIn(i, order, other, c))])
    OBVIOUS
  <2> HIDE DEF w
  <2> QED
    BY <2>1, CategoriesMove DEF Leftovers
<1>2. Activities \in SUBSET Categories /\ IsFiniteSet(Activities)
  BY CategoriesFinite DEF Categories
<1>3. MostRates \in Nat
  BY MostRatesIs
<1>4. EstimatedCharges(range, order) = Sigma(f) /\ EstimatedCharges(range, other) = Sigma(g)
  BY DEF EstimatedCharges
<1>5. /\ DOMAIN f = Activities /\ DOMAIN g = Activities /\ DOMAIN h = Activities /\ DOMAIN part = Activities
      /\ DOMAIN zero = Activities
      /\ \A c \in Activities : /\ f[c] = Sigma(charge(order, c)) /\ g[c] = Sigma(charge(other, c))
                               /\ h[c] = MostRates * w[c] /\ part[c] = w[c] /\ zero[c] = 0
  OBVIOUS
<1> HIDE DEF w, f, g, h, part, zero
<1>6. ASSUME NEW c \in Activities PROVE f[c] \in Int /\ g[c] \in Int /\ f[c] - g[c] <= h[c]
  <2> DEFINE a == at(order, c)
             b == at(other, c)
             x == charge(order, c)
             y == charge(other, c)
             more == w[c]
  <2>1. a \in Int /\ b \in Int /\ more \in Nat /\ a - b <= more
    BY <1>1, <1>2
  <2>2. /\ DOMAIN x = DOMAIN Cotisations[c] /\ DOMAIN y = DOMAIN Cotisations[c]
        /\ \A k \in DOMAIN x : x[k] = HalfUp(a * Cotisations[c][k], 10000)
        /\ \A k \in DOMAIN y : y[k] = HalfUp(b * Cotisations[c][k], 10000)
    OBVIOUS
  <2>3. f[c] = Sigma(x) /\ g[c] = Sigma(y) /\ h[c] = MostRates * more
    BY <1>5
  <2> HIDE DEF a, b, x, y, more
  <2>4. Sigma(x) \in Int /\ Sigma(y) \in Int /\ Sigma(x) - Sigma(y) <= MostRates * more
    BY <2>1, <2>2, ActivityCharges
  <2> QED
    BY <2>3, <2>4
<1> HIDE DEF at, charge
<1>7. Numbers(f) /\ Numbers(g) /\ Numbers(h) /\ Numbers(part) /\ Numbers(zero)
  <2>1. \A c \in Activities : w[c] \in Nat
    BY <1>1, <1>2
  <2>2. \A c \in Activities : h[c] = MostRates * w[c] /\ part[c] = w[c] /\ zero[c] = 0
    BY <1>5
  <2>3. \A c \in Activities : h[c] \in Int /\ part[c] \in Int /\ zero[c] \in Int
    BY <1>3, <2>1, <2>2
  <2> QED
    BY <1>2, <1>5, <1>6, <2>3 DEF Numbers
<1>8. Sigma(f) - Sigma(g) <= Sigma(h) /\ Sigma(f) \in Int /\ Sigma(g) \in Int
  BY <1>5, <1>6, <1>7, SigmaApart, SigmaInt
<1>9. Sigma(h) = MostRates * Sigma(part) + 0 * Sigma(zero)
  <2>1. \A c \in DOMAIN h : h[c] = MostRates * part[c] + 0 * zero[c]
    <3>1. ASSUME NEW c \in DOMAIN h PROVE h[c] = MostRates * part[c] + 0 * zero[c]
      <4>1. h[c] = MostRates * w[c] /\ part[c] = w[c] /\ zero[c] = 0 /\ w[c] \in Nat
        BY <1>1, <1>2, <1>5
      <4> QED
        BY <1>3, <4>1
    <3> QED
      BY <3>1
  <2>2. MostRates \in Int /\ 0 \in Int
    BY <1>3
  <2>3. DOMAIN part = DOMAIN h /\ DOMAIN zero = DOMAIN h
    BY <1>5
  <2> QED
    BY <1>7, <2>1, <2>2, <2>3, SigmaLinear
<1>10. Sigma(part) \in Nat /\ Sigma(part) <= Sigma(w)
  <2>1. DOMAIN part \in SUBSET DOMAIN w /\ (\A c \in DOMAIN w : w[c] \in Nat)
        /\ \A c \in DOMAIN part : part[c] \in Nat /\ part[c] <= w[c]
    <3>1. ASSUME NEW c \in Activities PROVE part[c] \in Nat /\ part[c] <= w[c]
      <4>1. part[c] = w[c] /\ w[c] \in Nat
        BY <1>1, <1>2, <1>5
      <4> QED
        BY <4>1
    <3> QED
      BY <1>1, <1>2, <1>5, <3>1
  <2> QED
    BY <1>1, <2>1, SigmaPart
<1>11. Leftovers(S) \in Nat /\ Sigma(w) \in Int /\ Sigma(zero) \in Int
  BY <1>1, <1>7, PaidIn, LeftoversAre, SigmaInt
<1> DEFINE p == Sigma(part)
           l == Leftovers(S)
<1>12. p \in Nat /\ l \in Nat /\ p <= l
  BY <1>1, <1>10, <1>11
<1> HIDE DEF p, l
<1>13. MostRates * p <= MostRates * l /\ MostRates * p \in Int /\ MostRates * l \in Int
  BY <1>3, <1>12
<1>14. Sigma(h) = MostRates * p
  BY <1>9, <1>11, <1>13 DEF p
<1> QED
  BY <1>4, <1>8, <1>13, <1>14 DEF l

\* What is left after the charges.
LEMMA NetMoves ==
  ASSUME ReportsInv, NEW order, IsReading(order), NEW other, IsReading(other)
  PROVE  /\ NetProfit(order) \in Int /\ NetProfit(other) \in Int
         /\ NetProfit(order) - NetProfit(other) <= (1 + MostRates) * Leftovers(FindPaidInRange(Window))
<1> DEFINE S == FindPaidInRange(Window)
           l == Leftovers(S)
           m == MarginTotal(S, order, "margin")
           n == MarginTotal(S, other, "margin")
           c == EstimatedCharges(Window, order)
           d == EstimatedCharges(Window, other)
<1>1. S \in SUBSET DOMAIN book
  BY PaidIn
<1>2. m \in Int /\ n \in Int /\ m - n <= l
  BY <1>1, MarginMoves
<1>3. c \in Int /\ d \in Int /\ d - c <= MostRates * l
  BY ChargesMove
<1>4. l \in Nat /\ MostRates \in Nat
  BY <1>1, LeftoversAre, MostRatesIs
<1>5. NetProfit(order) = m - c /\ NetProfit(other) = n - d
  BY DEF NetProfit
<1> HIDE DEF S, l, m, n, c, d
<1>6. (1 + MostRates) * l = l + MostRates * l /\ MostRates * l \in Int
  BY <1>4
<1>7. (m - c) - (n - d) <= (1 + MostRates) * l
  BY <1>2, <1>3, <1>4, <1>6
<1> QED
  BY <1>2, <1>3, <1>5, <1>7 DEF l, S

-------------------------------------------------------------------------------
(* Reports: every screen tells the same                                     *)

\* The order of the positions is one a screen may read.
LEMMA InPositionReads ==
  ASSUME ReportsInv
  PROVE  IsReading([i \in DOMAIN book |-> InPosition(Body(i))])
<1>1. ASSUME NEW i \in DOMAIN book PROVE InPosition(Body(i)) \in Orders(Body(i))
  <2>1. GoodOf(Body(i), Len(Body(i).lines)) /\ Len(Body(i).lines) \in Nat
    BY BillOf, BilledBody
  <2> QED
    BY <2>1, OrdersOf
<1> QED
  BY <1>1 DEF IsReading

\* A reading gives each facture an order of its weights.
LEMMA ReadingsRead ==
  ASSUME NEW order \in Readings
  PROVE  IsReading(order)
  BY DEF Readings, IsReading, Body

\* Whatever each screen reads, it tells the same euros.
LEMMA ReportsHold == ReportsInv => ReportsAgree
<1> SUFFICES ASSUME ReportsInv, NEW again \in Readings PROVE
      LET order == [i \in DOMAIN book |-> InPosition(Body(i))]
          paid == FindPaidInRange(Window)
          remises == Sigma([i \in paid |-> Sigma(Body(i).remises)])
          whole == Declared(0..now, order)
      IN /\ \A mode \in {"month", "quarter"} :
              Sigma([range \in Periods(mode) |-> Declared(range, again)]) = whole
         /\ MarginTotal(paid, again, "revenue") = Declared(Window, order)
         /\ Sigma(MarginByMonth(again, "revenue")) = Declared(Window, order)
         /\ Sigma(RevenueByMonth(order)) = Sigma(RevenueByClient(again))
         /\ Sigma(RevenueByMonth(order)) >= Declared(Window, again) - remises
         /\ (\A i \in paid : TotalsOf(i, order).subtotal > 0)
              => Sigma(RevenueByMonth(order)) = Declared(Window, again) - remises
         /\ MarginTotal(paid, order, "unknown") <= Declared(Window, again)
         /\ PlafondYearToDate(order) <= whole
         /\ LET leftovers == Sigma([i \in paid |->
                                 Cardinality(SpreadServices(Body(i))) * (Len(Body(i).lines) \div 2)])
                slack == (1 + MostRates) * leftovers
            IN NetProfit(order) - NetProfit(again) \in -slack..slack
         /\ \A i \in DOMAIN book :
              /\ book[i].status # "ANNULEE" => (i \in FindPaidInRange(0..now)) # (i \in FindOutstanding)
              /\ OutstandingHt(i, order) \in 0..TotalsOf(i, again).subtotal
              /\ \A k \in DOMAIN LineMargins(i, order) :
                   LineMargins(i, order)[k] \in 0..Max({0, LineTotals(Body(i), order[i])[k]})
  BY DEF ReportsAgree
<1> DEFINE order == [i \in DOMAIN book |-> InPosition(Body(i))]
           paid == FindPaidInRange(Window)
           remises == Sigma([i \in paid |-> Sigma(Body(i).remises)])
           whole == Declared(0..now, order)
           leftovers == Sigma([i \in paid |->
                          Cardinality(SpreadServices(Body(i))) * (Len(Body(i).lines) \div 2)])
           slack == (1 + MostRates) * leftovers
           ever == Sigma(GrossOf(FindPaidInRange(0..now)))
           gross == Sigma(GrossOf(paid))
           net == Sigma(NetOf(paid))
<1>1. IsReading(order) /\ IsReading(again)
  BY InPositionReads, ReadingsRead
<1>2. paid \in SUBSET DOMAIN book /\ FindPaidInRange(0..now) \in SUBSET DOMAIN book
  BY PaidIn
<1>3. leftovers = Leftovers(paid) /\ remises = Sigma(RemisesOf(paid))
  BY DEF Leftovers, Moves, RemisesOf
<1> HIDE DEF order, leftovers, remises
<1>4. whole = ever /\ Declared(Window, order) = gross /\ Declared(Window, again) = gross
  BY <1>1, DeclaredIs
<1>5. \A mode \in {"month", "quarter"} :
        Sigma([range \in Periods(mode) |-> Declared(range, again)]) = whole
  BY <1>1, <1>4, PeriodsAddUp
<1>6. MarginTotal(paid, again, "revenue") = Declared(Window, order)
  BY <1>1, <1>2, <1>4, MarginRevenueIs
<1>7. Sigma(MarginByMonth(again, "revenue")) = Declared(Window, order)
  BY <1>1, <1>4, MarginMonthsAddUp
<1>8. Sigma(RevenueByMonth(order)) = net /\ Sigma(RevenueByClient(again)) = net
  BY <1>1, RevenueMonthsAddUp, RevenueClientsAddUp
<1>9. net >= gross - remises /\ ((\A i \in paid : Before(Body(i)) > 0) => net = gross - remises)
  BY <1>2, <1>3, NetAgainstGross
<1>10. \A i \in DOMAIN book : TotalsOf(i, order).subtotal = Before(Body(i)) /\ TotalsOf(i, again).subtotal = Before(Body(i))
  BY <1>1, SubtotalOf
<1>11. /\ Sigma(RevenueByMonth(order)) >= Declared(Window, again) - remises
       /\ (\A i \in paid : TotalsOf(i, order).subtotal > 0)
            => Sigma(RevenueByMonth(order)) = Declared(Window, again) - remises
  <2>1. (\A i \in paid : TotalsOf(i, order).subtotal > 0) => \A i \in paid : Before(Body(i)) > 0
    BY <1>2, <1>10
  <2> HIDE DEF net, gross, paid
  <2> QED
    BY <1>4, <1>8, <1>9, <2>1
<1>12. MarginTotal(paid, order, "unknown") <= Declared(Window, again)
  BY <1>1, <1>2, <1>4, UnknownAtMost
<1>13. PlafondYearToDate(order) <= whole
  BY <1>1, <1>4, PlafondAtMost
<1>14. NetProfit(order) - NetProfit(again) \in -slack..slack
  <2>1. /\ NetProfit(order) \in Int /\ NetProfit(again) \in Int
        /\ NetProfit(order) - NetProfit(again) <= slack
        /\ NetProfit(again) - NetProfit(order) <= slack
    BY <1>1, <1>3, NetMoves
  <2>2. slack \in Int
    <3>1. Leftovers(paid) \in Nat /\ MostRates \in Nat
      BY <1>2, LeftoversAre, MostRatesIs
    <3> HIDE DEF paid
    <3> QED
      BY <1>3, <3>1
  <2> HIDE DEF slack
  <2> QED
    BY <2>1, <2>2
<1>15. ASSUME NEW i \in DOMAIN book
       PROVE  /\ book[i].status # "ANNULEE" => (i \in FindPaidInRange(0..now)) # (i \in FindOutstanding)
              /\ OutstandingHt(i, order) \in 0..TotalsOf(i, again).subtotal
              /\ \A k \in DOMAIN LineMargins(i, order) :
                   LineMargins(i, order)[k] \in 0..Max({0, LineTotals(Body(i), order[i])[k]})
  <2>1. book[i].status # "ANNULEE" => (i \in FindPaidInRange(0..now)) # (i \in FindOutstanding)
    BY PaidOrOwed
  <2>2. OutstandingHt(i, order) \in 0..TotalsOf(i, again).subtotal
    BY <1>1, <1>10, OwedAtMost
  <2>3. \A k \in DOMAIN LineMargins(i, order) :
          LineMargins(i, order)[k] \in 0..Max({0, LineTotals(Body(i), order[i])[k]})
    BY <1>1, LineMarginsArePart
  <2> QED
    BY <2>1, <2>2, <2>3
<1> QED
  BY <1>5, <1>6, <1>7, <1>8, <1>11, <1>12, <1>13, <1>14, <1>15 DEF order, remises, leftovers

(* Every screen tells the same euros, each of them once.                   *)
THEOREM ReportsAlwaysAgree == ReportsSpec => []ReportsAgree
  BY ReportsInvariant, ReportsHold, PTL

=================================================================================
