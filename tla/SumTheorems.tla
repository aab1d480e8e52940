----------------------------- MODULE SumTheorems -----------------------------
(***************************************************************************)
(* Facts about Total, the sum of a function's values over its domain.      *)
(*                                                                         *)
(* The community modules define the sum by a recursive function over the   *)
(* subsets of the domain that takes one chosen element at a time.  The     *)
(* first two parts show that this function exists on a finite domain, by   *)
(* induction over the subsets of a finite set (a set of subsets stands for *)
(* the predicate, and WFMin of WellFoundedInduction gives the minimal      *)
(* counterexample); the rest needs only what follows from it, that any     *)
(* element can be taken out of a sum.                                      *)
(***************************************************************************)
EXTENDS Sums, Integers, FiniteSets, FiniteSetTheorems, TLAPS

-----------------------------------------------------------------------------
(* Induction over the subsets of a finite set.                             *)

\* A set of subsets that has T whenever it has every proper subset of T has
\* them all.
LEMMA SubsetInduction ==
  ASSUME NEW D, IsFiniteSet(D), NEW G,
         \A T \in SUBSET D : (\A U \in SUBSET T : U # T => U \in G) => T \in G
  PROVE  \A T \in SUBSET D : T \in G
<1>1. SUFFICES ASSUME NEW T0 \in SUBSET D, T0 \notin G PROVE FALSE
  OBVIOUS
<1>. DEFINE B == {T \in SUBSET D : T \notin G}
            R == StrictSubsetOrdering(D)
            S == FiniteSubsetsOf(D)
<1>2. IsWellFoundedOn(R, S)
  BY FS_StrictSubsetOrderingWellFounded
<1>3. S = SUBSET D
  BY FS_FiniteSubsetsOfFinite
<1>4. B \subseteq S /\ B # {}
  BY <1>1, <1>3
<1>5. \A y, x \in SUBSET D : (y \subseteq x /\ y # x) => <<y, x>> \in R
  BY DEF StrictSubsetOrdering
<1>6. \E x \in B : \A y \in B : ~ (<<y, x>> \in R)
  <2>. HIDE DEF B, R, S
  <2>. QED
    BY <1>2, <1>4, WFMin
<1>7. PICK x \in B : \A y \in B : ~ (<<y, x>> \in R)
  BY <1>6
<1>. HIDE DEF R
<1>8. ASSUME NEW U \in SUBSET x, U # x, U \notin G
      PROVE  FALSE
  <2>1. U \in SUBSET D /\ U \in B /\ x \in SUBSET D
    BY <1>7, <1>8
  <2>2. <<U, x>> \in R
    BY <1>5, <1>8, <2>1
  <2>. HIDE DEF B
  <2>. QED
    BY <1>7, <2>1, <2>2
<1>. QED
  BY <1>7, <1>8

\* And over an interval that starts at zero, one number at a time.
LEMMA IntervalInduction ==
  ASSUME NEW n \in Nat, NEW G, 0 \in G, \A i \in 0 .. n : i < n /\ i \in G => i + 1 \in G
  PROVE  \A i \in 0 .. n : i \in G
<1>. DEFINE F == {T \in SUBSET (0 .. n) : \A i \in 0 .. n : T = 0 .. i => i \in G}
<1>1. ASSUME NEW T \in SUBSET (0 .. n), \A U \in SUBSET T : U # T => U \in F
      PROVE  T \in F
  <2>1. ASSUME NEW i \in 0 .. n, T = 0 .. i PROVE i \in G
    <3>1. CASE i = 0
      BY <3>1
    <3>2. CASE i > 0
      <4>1. i - 1 \in 0 .. n /\ 0 .. (i - 1) \in SUBSET T /\ i \notin 0 .. (i - 1) /\ i \in T
        BY <2>1, <3>2
      <4>2. 0 .. (i - 1) \in F
        BY <1>1, <4>1
      <4>3. i - 1 \in G
        BY <4>1, <4>2
      <4>. QED
        BY <4>1, <4>3
    <3>. QED
      BY <3>1, <3>2
  <2>. QED
    BY <2>1
<1>2. \A T \in SUBSET (0 .. n) : T \in F
  <2>1. IsFiniteSet(0 .. n)
    BY FS_Interval
  <2>. HIDE DEF F
  <2>. QED
    BY <1>1, <2>1, SubsetInduction
<1>3. ASSUME NEW i \in 0 .. n PROVE i \in G
  <2>1. 0 .. i \in SUBSET (0 .. n)
    OBVIOUS
  <2>2. 0 .. i \in F
    BY <1>2, <2>1
  <2>. QED
    BY <2>2
<1>. QED
  BY <1>3

-----------------------------------------------------------------------------
(* The sum as a recursive function over the subsets of the domain.         *)

Pick(s) == CHOOSE x \in s : TRUE
Body(f, it) ==
  [s \in SUBSET DOMAIN f |-> IF s = {} THEN 0 ELSE f[Pick(s)] + it[s \ {Pick(s)}]]
Iter(f) == CHOOSE it : it = Body(f, it)

\* The library's fold, written out.
LEMMA TotalIsIter ==
  ASSUME NEW f
  PROVE  Total(f) = Iter(f)[DOMAIN f]
BY DEF Total, MapThenSumSet, MapThenFoldSet, Iter, Body, Pick

\* g sums f over every subset of T.
SumsOver(g, f, T) ==
  /\ g \in [SUBSET T -> Int]
  /\ \A s \in SUBSET T : g[s] = IF s = {} THEN 0 ELSE f[Pick(s)] + g[s \ {Pick(s)}]

\* Picking shrinks a set.
LEMMA PickIn ==
  ASSUME NEW s, s # {}
  PROVE  Pick(s) \in s /\ s \ {Pick(s)} \in SUBSET s /\ s \ {Pick(s)} # s
<1>1. Pick(s) \in s
  BY DEF Pick
<1>. QED
  BY <1>1

\* Two such functions agree where the functions they sum do.
LEMMA SumsAgree ==
  ASSUME NEW D, IsFiniteSet(D), NEW f, NEW e,
         NEW T \in SUBSET D, NEW U \in SUBSET D, NEW g, NEW h,
         SumsOver(g, f, T), SumsOver(h, e, U), \A x \in T \cap U : f[x] = e[x],
         NEW s \in SUBSET (T \cap U)
  PROVE  g[s] = h[s]
<1>. DEFINE G == {v \in SUBSET D : v \subseteq T \cap U => g[v] = h[v]}
<1>1. ASSUME NEW v \in SUBSET D, \A w \in SUBSET v : w # v => w \in G,
             v \subseteq T \cap U
      PROVE  g[v] = h[v]
  <2>1. CASE v = {}
    BY <1>1, <2>1 DEF SumsOver
  <2>2. CASE v # {}
    <3>. DEFINE w == v \ {Pick(v)}
    <3>1. w \in SUBSET v /\ w # v /\ Pick(v) \in v
      BY <2>2, PickIn
    <3>2. g[w] = h[w]
      BY <1>1, <3>1
    <3>3. g[v] = f[Pick(v)] + g[w] /\ h[v] = e[Pick(v)] + h[w]
      BY <1>1, <2>2 DEF SumsOver
    <3>4. f[Pick(v)] = e[Pick(v)]
      BY <1>1, <3>1
    <3>. QED
      BY <3>2, <3>3, <3>4
  <2>. QED
    BY <2>1, <2>2
<1>2. \A v \in SUBSET D : v \in G
  <2>1. \A v \in SUBSET D : (\A w \in SUBSET v : w # v => w \in G) => v \in G
    BY <1>1
  <2>. HIDE DEF G
  <2>. QED
    BY <2>1, SubsetInduction
<1>. QED
  BY <1>2

\* There is such a function, built from those for the proper subsets.
LEMMA SumExists ==
  ASSUME NEW D, IsFiniteSet(D), NEW f \in [D -> Int]
  PROVE  \E g : SumsOver(g, f, D)
<1>. DEFINE G == {T \in SUBSET D : \E g : SumsOver(g, f, T)}
            At(T) == CHOOSE g : SumsOver(g, f, T)
<1>1. ASSUME NEW T \in SUBSET D, \A U \in SUBSET T : U # T => U \in G
      PROVE  \E g : SumsOver(g, f, T)
  <2>1. \A U \in SUBSET T : U # T => SumsOver(At(U), f, U)
    BY <1>1
  <2>. HIDE DEF At
  <2>. DEFINE q == T \ {Pick(T)}
              h == [s \in SUBSET T |-> IF s # T THEN At(s)[s]
                                       ELSE IF T = {} THEN 0 ELSE f[Pick(T)] + At(q)[q]]
  <2>2. \A s \in SUBSET T : s # T => At(s)[s] \in Int
    <3>. SUFFICES ASSUME NEW s \in SUBSET T, s # T PROVE At(s)[s] \in Int
      OBVIOUS
    <3>1. SumsOver(At(s), f, s) /\ s \in SUBSET s
      BY <2>1
    <3>. QED
      BY <3>1 DEF SumsOver
  <2>3. h \in [SUBSET T -> Int]
    <3>1. T # {} => (f[Pick(T)] \in Int /\ q \in SUBSET T /\ q # T)
      BY PickIn
    <3>. QED
      BY <2>2, <3>1
  <2>4. ASSUME NEW s \in SUBSET T, s # {}
        PROVE  h[s] = f[Pick(s)] + h[s \ {Pick(s)}]
    <3>. DEFINE p == s \ {Pick(s)}
    <3>1. p \in SUBSET s /\ p # s /\ p \in SUBSET T /\ p # T
      BY <2>4, PickIn
    <3>2. h[p] = At(p)[p]
      BY <3>1
    <3>3. CASE s = T
      BY <2>4, <3>2, <3>3
    <3>4. CASE s # T
      <4>1. SumsOver(At(s), f, s) /\ SumsOver(At(p), f, p)
        BY <2>1, <3>1, <3>4
      <4>2. At(s)[p] = At(p)[p]
        <5>1. s \in SUBSET D /\ p \in SUBSET D /\ p \in SUBSET (s \cap p)
          BY <3>1
        <5>. HIDE DEF p
        <5>. QED
          BY <4>1, <5>1, SumsAgree
      <4>3. At(s)[s] = f[Pick(s)] + At(s)[p]
        BY <2>4, <4>1 DEF SumsOver
      <4>. QED
        BY <3>2, <3>4, <4>2, <4>3
    <3>. QED
      BY <3>3, <3>4
  <2>5. h[{}] = 0
    <3>1. CASE T = {}
      BY <3>1
    <3>2. CASE T # {}
      <4>1. SumsOver(At({}), f, {})
        BY <2>1, <3>2
      <4>2. At({})[{}] = 0
        BY <4>1 DEF SumsOver
      <4>. QED
        BY <3>2, <4>2
    <3>. QED
      BY <3>1, <3>2
  <2>. HIDE DEF h
  <2>6. SumsOver(h, f, T)
    BY <2>3, <2>4, <2>5 DEF SumsOver
  <2>. QED
    BY <2>6
<1>2. \A T \in SUBSET D : T \in G
  <2>1. \A T \in SUBSET D : (\A U \in SUBSET T : U # T => U \in G) => T \in G
    BY <1>1
  <2>. HIDE DEF G
  <2>. QED
    BY <2>1, SubsetInduction
<1>. QED
  BY <1>2

\* So the one CHOOSE names is one.
LEMMA IterSums ==
  ASSUME NEW D, IsFiniteSet(D), NEW f \in [D -> Int]
  PROVE  SumsOver(Iter(f), f, D)
<1>1. PICK g : SumsOver(g, f, D)
  BY SumExists
<1>2. g = Body(f, g)
  BY <1>1 DEF SumsOver, Body
<1>3. Iter(f) = Body(f, Iter(f))
  BY <1>2 DEF Iter
<1>4. PICK it : it = Iter(f)
  OBVIOUS
<1>5. /\ DOMAIN it = SUBSET D
      /\ it = [s \in SUBSET D |-> it[s]]
  BY <1>3, <1>4 DEF Body
<1>6. /\ it[{}] = 0
      /\ \A s \in SUBSET D : s # {} => it[s] = f[Pick(s)] + it[s \ {Pick(s)}]
  BY <1>3, <1>4 DEF Body
<1>. DEFINE G == {s \in SUBSET D : it[s] \in Int}
<1>7. ASSUME NEW s \in SUBSET D, \A w \in SUBSET s : w # s => w \in G
      PROVE  it[s] \in Int
  <2>1. CASE s = {}
    BY <1>6, <2>1
  <2>2. CASE s # {}
    <3>1. it[s \ {Pick(s)}] \in Int /\ f[Pick(s)] \in Int
      BY <1>7, <2>2, PickIn
    <3>2. it[s] = f[Pick(s)] + it[s \ {Pick(s)}]
      BY <1>6, <2>2
    <3>. QED
      BY <3>1, <3>2
  <2>. QED
    BY <2>1, <2>2
<1>8. \A s \in SUBSET D : s \in G
  <2>1. \A s \in SUBSET D : (\A w \in SUBSET s : w # s => w \in G) => s \in G
    BY <1>7
  <2>. HIDE DEF G
  <2>. QED
    BY <2>1, SubsetInduction
<1>9. it \in [SUBSET D -> Int]
  BY <1>5, <1>8
<1>. QED
  BY <1>9, <1>6, <1>4 DEF SumsOver

-----------------------------------------------------------------------------
(* What the recursion gives.                                               *)

\* A sum of integers is an integer.
LEMMA SumInt ==
  ASSUME NEW D, IsFiniteSet(D), NEW f \in [D -> Int]
  PROVE  Total(f) \in Int
<1>1. SumsOver(Iter(f), f, D)
  BY IterSums
<1>2. Iter(f)[D] \in Int
  BY <1>1 DEF SumsOver
<1>. QED
  BY <1>2, TotalIsIter

\* The empty sum.
LEMMA SumEmpty ==
  ASSUME NEW f, DOMAIN f = {}
  PROVE  Total(f) = 0
<1>1. \A x : f \in [{} -> Int]
  OBVIOUS
<1>. QED
  BY <1>1, FS_EmptySet, TotalIsIter, IterSums DEF SumsOver

\* A sum is its picked term and the sum of the others.
LEMMA SumPick ==
  ASSUME NEW D, IsFiniteSet(D), NEW f \in [D -> Int], D # {}
  PROVE  Total(f) = f[Pick(D)] + Total([x \in D \ {Pick(D)} |-> f[x]])
<1>. DEFINE E == D \ {Pick(D)}
            e == [x \in E |-> f[x]]
<1>1. E \in SUBSET D /\ IsFiniteSet(E) /\ e \in [E -> Int]
  BY FS_Subset
<1>2. Total(f) = Iter(f)[D] /\ Total(e) = Iter(e)[E]
  BY <1>1, TotalIsIter
<1>3. SumsOver(Iter(f), f, D) /\ SumsOver(Iter(e), e, E)
  <2>. HIDE DEF E, e
  <2>. QED
    BY <1>1, IterSums
<1>4. Iter(f)[D] = f[Pick(D)] + Iter(f)[E]
  BY <1>3 DEF SumsOver
<1>5. Iter(f)[E] = Iter(e)[E]
  <2>1. \A x \in D \cap E : f[x] = e[x]
    OBVIOUS
  <2>2. E \in SUBSET (D \cap E)
    OBVIOUS
  <2>. HIDE DEF E, e
  <2>. QED
    BY <1>1, <1>3, <2>1, <2>2, SumsAgree
<1>. QED
  BY <1>2, <1>4, <1>5

\* Any element can be taken out of a sum.
LEMMA SumRemove ==
  ASSUME NEW D, IsFiniteSet(D), NEW f \in [D -> Int], NEW x \in D
  PROVE  Total(f) = f[x] + Total([y \in D \ {x} |-> f[y]])
<1>. DEFINE Rest(S, z) == Total([y \in S \ {z} |-> f[y]])
            Sum(S) == Total([y \in S |-> f[y]])
            G == {T \in SUBSET D : \A z \in T : Sum(T) = f[z] + Sum(T \ {z})}
<1>1. ASSUME NEW T \in SUBSET D, \A U \in SUBSET T : U # T => U \in G, NEW z \in T
      PROVE  Sum(T) = f[z] + Sum(T \ {z})
  <2>. DEFINE p == Pick(T)
  <2>0. \A U \in SUBSET T : Sum(U) \in Int
    <3>. SUFFICES ASSUME NEW U \in SUBSET T PROVE Sum(U) \in Int
      OBVIOUS
    <3>1. IsFiniteSet(U) /\ [y \in U |-> f[y]] \in [U -> Int]
      BY FS_Subset
    <3>. HIDE DEF G
    <3>. QED
      BY <3>1, SumInt
  <2>1. \A U \in SUBSET T : U # {} => Pick(U) \in U /\ Sum(U) = f[Pick(U)] + Sum(U \ {Pick(U)})
    <3>. SUFFICES ASSUME NEW U \in SUBSET T, U # {}
                  PROVE Pick(U) \in U /\ Sum(U) = f[Pick(U)] + Sum(U \ {Pick(U)})
      OBVIOUS
    <3>. DEFINE u == [y \in U |-> f[y]]
    <3>1. IsFiniteSet(U) /\ u \in [U -> Int] /\ Pick(U) \in U
      BY FS_Subset, PickIn
    <3>2. Total(u) = u[Pick(U)] + Total([y \in U \ {Pick(U)} |-> u[y]])
      <4>. HIDE DEF u
      <4>. QED
        BY <3>1, SumPick
    <3>3. [y \in U \ {Pick(U)} |-> u[y]] = [y \in U \ {Pick(U)} |-> f[y]]
      OBVIOUS
    <3>. QED
      BY <3>1, <3>2, <3>3
  <2>2. CASE z = p
    BY <2>1, <2>2
  <2>3. CASE z # p
    <3>. DEFINE all == Sum(T)
                noP == Sum(T \ {p})
                noZ == Sum(T \ {z})
                neither == Sum((T \ {p}) \ {z})
    <3>1. p \in T /\ all = f[p] + noP
      BY <2>1
    <3>2. noP = f[z] + neither
      BY <1>1, <2>3, <3>1
    <3>3. noZ = f[p] + neither
      <4>1. (T \ {z}) \ {p} = (T \ {p}) \ {z}
        OBVIOUS
      <4>. QED
        BY <1>1, <2>3, <3>1, <4>1
    <3>4. f[p] \in Int /\ f[z] \in Int /\ neither \in Int
      BY <2>0, <3>1
    <3>5. all = f[z] + noZ
      <4>. HIDE DEF all, noP, noZ, neither
      <4>. QED
        BY <3>1, <3>2, <3>3, <3>4
    <3>. QED
      BY <3>5
  <2>. QED
    BY <2>2, <2>3
<1>2. \A T \in SUBSET D : T \in G
  <2>1. \A T \in SUBSET D : (\A U \in SUBSET T : U # T => U \in G) => T \in G
    BY <1>1
  <2>. HIDE DEF G
  <2>. QED
    BY <2>1, SubsetInduction
<1>3. Sum(D) = f[x] + Sum(D \ {x})
  BY <1>2
<1>. QED
  BY <1>3

-----------------------------------------------------------------------------
(* Sums over parts of a domain.                                            *)

SumOver(f, T) == Total([x \in T |-> f[x]])

\* The three facts about the sum over a part of the domain that the inductions
\* below use.
LEMMA PartialSum ==
  ASSUME NEW D, IsFiniteSet(D), NEW f \in [D -> Int], NEW T \in SUBSET D
  PROVE  /\ SumOver(f, T) \in Int
         /\ T = {} => SumOver(f, T) = 0
         /\ \A x \in T : SumOver(f, T) = f[x] + SumOver(f, T \ {x})
<1>. DEFINE t == [x \in T |-> f[x]]
<1>1. IsFiniteSet(T) /\ t \in [T -> Int] /\ DOMAIN t = T
  BY FS_Subset
<1>2. Total(t) \in Int /\ (T = {} => Total(t) = 0)
  <2>. HIDE DEF t
  <2>. QED
    BY <1>1, SumInt, SumEmpty
<1>3. ASSUME NEW x \in T
      PROVE  SumOver(f, T) = f[x] + SumOver(f, T \ {x})
  <2>1. Total(t) = t[x] + Total([y \in T \ {x} |-> t[y]])
    <3>1. PICK u : u = t
      OBVIOUS
    <3>2. IsFiniteSet(T) /\ u \in [T -> Int]
      BY <1>1, <3>1
    <3>3. Total(u) = u[x] + Total([y \in T \ {x} |-> u[y]])
      BY <3>2, SumRemove
    <3>. QED
      BY <3>1, <3>3
  <2>2. [y \in T \ {x} |-> t[y]] = [y \in T \ {x} |-> f[y]] /\ t[x] = f[x]
    OBVIOUS
  <2>. QED
    BY <2>1, <2>2 DEF SumOver
<1>. QED
  BY <1>2, <1>3 DEF SumOver

\* The whole is a part.
LEMMA WholeSum ==
  ASSUME NEW D, NEW f \in [D -> Int]
  PROVE  Total(f) = SumOver(f, D)
<1>1. [x \in D |-> f[x]] = f
  OBVIOUS
<1>. QED
  BY <1>1 DEF SumOver

\* Terms that add up give sums that add up.
LEMMA SumAdd ==
  ASSUME NEW D, IsFiniteSet(D), NEW f \in [D -> Int], NEW g \in [D -> Int],
         NEW h \in [D -> Int], \A x \in D : h[x] = f[x] + g[x]
  PROVE  Total(h) = Total(f) + Total(g)
<1>. DEFINE G == {T \in SUBSET D : SumOver(h, T) = SumOver(f, T) + SumOver(g, T)}
<1>1. ASSUME NEW T \in SUBSET D, \A U \in SUBSET T : U # T => U \in G
      PROVE  SumOver(h, T) = SumOver(f, T) + SumOver(g, T)
  <2>1. CASE T = {}
    BY <2>1, PartialSum
  <2>2. CASE T # {}
    <3>1. PICK x \in T : TRUE
      BY <2>2
    <3>. DEFINE fr == SumOver(f, T \ {x})
                gr == SumOver(g, T \ {x})
                hr == SumOver(h, T \ {x})
    <3>2. hr = fr + gr
      BY <1>1
    <3>3. fr \in Int /\ gr \in Int /\ f[x] \in Int /\ g[x] \in Int /\ h[x] = f[x] + g[x]
      BY PartialSum
    <3>4. /\ SumOver(f, T) = f[x] + fr
          /\ SumOver(g, T) = g[x] + gr
          /\ SumOver(h, T) = h[x] + hr
      BY PartialSum
    <3>. HIDE DEF fr, gr, hr
    <3>. QED
      BY <3>2, <3>3, <3>4
  <2>. QED
    BY <2>1, <2>2
<1>2. D \in G
  <2>1. \A T \in SUBSET D : (\A U \in SUBSET T : U # T => U \in G) => T \in G
    BY <1>1
  <2>. HIDE DEF G
  <2>. QED
    BY <2>1, SubsetInduction
<1>. QED
  BY <1>2, WholeSum

\* Terms a number of times as large give a sum that many times as large.
LEMMA Distributes ==
  ASSUME NEW c \in Int, NEW a \in Int, NEW b \in Int
  PROVE  c * (a + b) = c * a + c * b /\ c * a \in Int /\ c * 0 = 0
OBVIOUS

LEMMA SumScale ==
  ASSUME NEW D, IsFiniteSet(D), NEW c \in Int, NEW f \in [D -> Int], NEW g \in [D -> Int],
         \A x \in D : g[x] = c * f[x]
  PROVE  Total(g) = c * Total(f)
<1>. DEFINE G == {T \in SUBSET D : SumOver(g, T) = c * SumOver(f, T)}
<1>1. ASSUME NEW T \in SUBSET D, \A U \in SUBSET T : U # T => U \in G
      PROVE  SumOver(g, T) = c * SumOver(f, T)
  <2>1. CASE T = {}
    <3>1. SumOver(g, T) = 0 /\ SumOver(f, T) = 0
      BY <2>1, PartialSum
    <3>. QED
      BY <3>1, Distributes
  <2>2. CASE T # {}
    <3>1. PICK x \in T : TRUE
      BY <2>2
    <3>. DEFINE fr == SumOver(f, T \ {x})
                gr == SumOver(g, T \ {x})
    <3>2. gr = c * fr
      BY <1>1
    <3>3. fr \in Int /\ f[x] \in Int /\ g[x] = c * f[x]
      BY PartialSum
    <3>4. SumOver(f, T) = f[x] + fr /\ SumOver(g, T) = g[x] + gr
      BY PartialSum
    <3>. HIDE DEF fr, gr
    <3>5. c * (f[x] + fr) = c * f[x] + c * fr
      BY <3>3, Distributes
    <3>. QED
      BY <3>2, <3>3, <3>4, <3>5
  <2>. QED
    BY <2>1, <2>2
<1>2. D \in G
  <2>1. \A T \in SUBSET D : (\A U \in SUBSET T : U # T => U \in G) => T \in G
    BY <1>1
  <2>. HIDE DEF G
  <2>. QED
    BY <2>1, SubsetInduction
<1>. QED
  BY <1>2, WholeSum

\* Larger terms give a larger sum.
LEMMA SumMonotone ==
  ASSUME NEW D, IsFiniteSet(D), NEW f \in [D -> Int], NEW g \in [D -> Int],
         \A x \in D : f[x] <= g[x]
  PROVE  Total(f) <= Total(g)
<1>. DEFINE G == {T \in SUBSET D : SumOver(f, T) <= SumOver(g, T)}
<1>1. ASSUME NEW T \in SUBSET D, \A U \in SUBSET T : U # T => U \in G
      PROVE  SumOver(f, T) <= SumOver(g, T)
  <2>1. CASE T = {}
    BY <2>1, PartialSum
  <2>2. CASE T # {}
    <3>1. PICK x \in T : TRUE
      BY <2>2
    <3>. DEFINE fr == SumOver(f, T \ {x})
                gr == SumOver(g, T \ {x})
    <3>2. fr <= gr
      BY <1>1
    <3>3. fr \in Int /\ gr \in Int /\ f[x] \in Int /\ g[x] \in Int /\ f[x] <= g[x]
      BY PartialSum
    <3>4. SumOver(f, T) = f[x] + fr /\ SumOver(g, T) = g[x] + gr
      BY PartialSum
    <3>. HIDE DEF fr, gr
    <3>. QED
      BY <3>2, <3>3, <3>4
  <2>. QED
    BY <2>1, <2>2
<1>2. D \in G
  <2>1. \A T \in SUBSET D : (\A U \in SUBSET T : U # T => U \in G) => T \in G
    BY <1>1
  <2>. HIDE DEF G
  <2>. QED
    BY <2>1, SubsetInduction
<1>. QED
  BY <1>2, WholeSum

\* A sum of zeros.
LEMMA SumZero ==
  ASSUME NEW D, IsFiniteSet(D), NEW f \in [D -> Int], \A x \in D : f[x] = 0
  PROVE  Total(f) = 0
<1>1. Total(f) = Total(f) + Total(f)
  <2>1. \A x \in D : f[x] = f[x] + f[x]
    OBVIOUS
  <2>. QED
    BY <2>1, SumAdd
<1>. QED
  BY <1>1, SumInt

\* Terms that are zero may be left out.
LEMMA SumSupport ==
  ASSUME NEW D, IsFiniteSet(D), NEW f \in [D -> Int], NEW E \in SUBSET D,
         \A x \in D \ E : f[x] = 0
  PROVE  Total(f) = Total([x \in E |-> f[x]])
<1>. DEFINE G == {T \in SUBSET D : SumOver(f, T) = SumOver(f, T \cap E)}
<1>1. ASSUME NEW T \in SUBSET D, \A U \in SUBSET T : U # T => U \in G
      PROVE  SumOver(f, T) = SumOver(f, T \cap E)
  <2>1. CASE T = {}
    BY <2>1
  <2>2. CASE T # {}
    <3>1. PICK x \in T : TRUE
      BY <2>2
    <3>2. SumOver(f, T) = f[x] + SumOver(f, T \ {x})
      BY PartialSum
    <3>3. SumOver(f, T \ {x}) = SumOver(f, (T \ {x}) \cap E)
      BY <1>1
    <3>4. SumOver(f, (T \ {x}) \cap E) \in Int
      BY PartialSum
    <3>5. CASE x \in E
      <4>1. SumOver(f, T \cap E) = f[x] + SumOver(f, (T \cap E) \ {x})
        BY <3>5, PartialSum
      <4>2. (T \cap E) \ {x} = (T \ {x}) \cap E
        OBVIOUS
      <4>. QED
        BY <3>2, <3>3, <4>1, <4>2
    <3>6. CASE x \notin E
      <4>1. (T \ {x}) \cap E = T \cap E /\ f[x] = 0
        BY <3>6
      <4>. DEFINE rest == SumOver(f, (T \ {x}) \cap E)
      <4>2. SumOver(f, T) = f[x] + rest /\ rest \in Int
        BY <3>2, <3>3, <3>4
      <4>3. rest = SumOver(f, T \cap E)
        BY <4>1
      <4>. HIDE DEF rest
      <4>. QED
        BY <4>1, <4>2, <4>3
    <3>. QED
      BY <3>5, <3>6
  <2>. QED
    BY <2>1, <2>2
<1>2. D \in G
  <2>1. \A T \in SUBSET D : (\A U \in SUBSET T : U # T => U \in G) => T \in G
    BY <1>1
  <2>. HIDE DEF G
  <2>. QED
    BY <2>1, SubsetInduction
<1>3. D \cap E = E
  OBVIOUS
<1>. QED
  BY <1>2, <1>3, WholeSum DEF SumOver

\* A sum of natural numbers is one, and bounds every term.
LEMMA SumNat ==
  ASSUME NEW D, IsFiniteSet(D), NEW f \in [D -> Nat]
  PROVE  Total(f) \in Nat /\ \A x \in D : f[x] <= Total(f)
<1>. DEFINE z == [x \in D |-> 0]
            one(x) == [y \in D |-> IF y = x THEN f[x] ELSE 0]
<1>0. f \in [D -> Int]
  OBVIOUS
<1>1. Total(f) \in Int
  BY <1>0, SumInt
<1>2. Total(z) <= Total(f) /\ Total(z) = 0
  <2>1. z \in [D -> Int] /\ \A x \in D : z[x] = 0 /\ z[x] <= f[x]
    OBVIOUS
  <2>. HIDE DEF z
  <2>. QED
    BY <1>0, <2>1, SumMonotone, SumZero
<1>3. ASSUME NEW x \in D
      PROVE  f[x] <= Total(f)
  <2>. DEFINE h == [y \in D |-> IF y = x THEN f[x] ELSE 0]
  <2>1. h \in [D -> Int] /\ \A y \in D : h[y] <= f[y]
    OBVIOUS
  <2>2. h[x] = f[x] /\ \A y \in D \ {x} : h[y] = 0
    OBVIOUS
  <2>. HIDE DEF h
  <2>3. Total(h) <= Total(f)
    BY <1>0, <2>1, SumMonotone
  <2>4. Total(h) = SumOver(h, {x})
    BY <2>1, <2>2, SumSupport DEF SumOver
  <2>5. SumOver(h, {x}) = h[x] + SumOver(h, {x} \ {x})
    BY <2>1, PartialSum
  <2>6. SumOver(h, {x} \ {x}) = 0
    BY <2>1, PartialSum
  <2>. QED
    BY <2>2, <2>3, <2>4, <2>5, <2>6
<1>. QED
  BY <1>1, <1>2, <1>3

\* Changing one term.
LEMMA SumUpdate ==
  ASSUME NEW D, IsFiniteSet(D), NEW f \in [D -> Int], NEW g \in [D -> Int],
         NEW x \in D, \A y \in D \ {x} : g[y] = f[y]
  PROVE  Total(g) = Total(f) - f[x] + g[x]
<1>1. [y \in D \ {x} |-> g[y]] = [y \in D \ {x} |-> f[y]]
  OBVIOUS
<1>2. /\ Total(f) = f[x] + SumOver(f, D \ {x})
      /\ Total(g) = g[x] + SumOver(f, D \ {x})
  BY <1>1, SumRemove DEF SumOver
<1>3. SumOver(f, D \ {x}) \in Int
  BY PartialSum
<1>4. f[x] \in Int /\ g[x] \in Int
  OBVIOUS
<1>. QED
  BY <1>2, <1>3, <1>4

\* The one term that is not zero.
LEMMA SumSingle ==
  ASSUME NEW D, IsFiniteSet(D), NEW f \in [D -> Int], NEW x \in D,
         \A y \in D \ {x} : f[y] = 0
  PROVE  Total(f) = f[x]
<1>1. PICK z : z = [y \in D |-> 0]
  OBVIOUS
<1>2. z \in [D -> Int] /\ \A y \in D : z[y] = 0
  BY <1>1
<1>3. Total(z) = 0
  BY <1>2, SumZero
<1>4. Total(f) = Total(z) - z[x] + f[x]
  BY <1>2, SumUpdate
<1>. QED
  BY <1>2, <1>3, <1>4

-----------------------------------------------------------------------------
(* Sums over a table, column by column.                                    *)

Table(A, B) == A \X B

\* A table is a set of pairs, and a finite one when its sides are.
LEMMA Columns ==
  ASSUME NEW A, IsFiniteSet(A), NEW B, IsFiniteSet(B)
  PROVE  /\ IsFiniteSet(Table(A, B))
         /\ \A a \in A, b \in B : <<a, b>> \in Table(A, B)
         /\ \A T \in SUBSET A, U \in SUBSET B : Table(T, U) \in SUBSET Table(A, B)
         /\ \A T \in SUBSET A : Table(T, {}) = {}
         /\ \A U \in SUBSET B : Table({}, U) = {}
<1>1. IsFiniteSet(A \X B)
  BY FS_Product
<1>. QED
  BY <1>1 DEF Table

\* Two parts that share no element.
LEMMA SumSplit ==
  ASSUME NEW D, IsFiniteSet(D), NEW f \in [D -> Int],
         NEW S \in SUBSET D, NEW U \in SUBSET D, S \cap U = {}
  PROVE  SumOver(f, S \cup U) = SumOver(f, S) + SumOver(f, U)
<1>. DEFINE G == {T \in SUBSET D : T \cap S = {} =>
                    SumOver(f, S \cup T) = SumOver(f, S) + SumOver(f, T)}
<1>1. ASSUME NEW T \in SUBSET D, \A V \in SUBSET T : V # T => V \in G, T \cap S = {}
      PROVE  SumOver(f, S \cup T) = SumOver(f, S) + SumOver(f, T)
  <2>1. CASE T = {}
    <3>1. S \cup T = S
      BY <2>1
    <3>. DEFINE s == SumOver(f, S)
    <3>2. s \in Int /\ SumOver(f, T) = 0
      BY <2>1, PartialSum
    <3>3. SumOver(f, S \cup T) = s
      BY <3>1
    <3>4. SumOver(f, S \cup T) = s + SumOver(f, T)
      <4>. HIDE DEF s
      <4>. QED
        BY <3>2, <3>3
    <3>. QED
      BY <3>4
  <2>2. CASE T # {}
    <3>1. PICK x \in T : TRUE
      BY <2>2
    <3>. DEFINE t == SumOver(f, T \ {x})
                s == SumOver(f, S)
                st == SumOver(f, S \cup (T \ {x}))
    <3>2. st = s + t
      BY <1>1
    <3>3. t \in Int /\ s \in Int /\ f[x] \in Int
      BY PartialSum
    <3>4. SumOver(f, T) = f[x] + t
      BY PartialSum
    <3>5. SumOver(f, S \cup T) = f[x] + st
      <4>1. (S \cup T) \ {x} = S \cup (T \ {x})
        BY <1>1
      <4>2. SumOver(f, S \cup T) = f[x] + SumOver(f, (S \cup T) \ {x})
        BY PartialSum
      <4>. QED
        BY <4>1, <4>2
    <3>. HIDE DEF t, s, st
    <3>6. SumOver(f, S \cup T) = s + SumOver(f, T)
      BY <3>2, <3>3, <3>4, <3>5
    <3>. QED
      BY <3>6 DEF s
  <2>. QED
    BY <2>1, <2>2
<1>2. U \in G
  <2>1. \A T \in SUBSET D : (\A V \in SUBSET T : V # T => V \in G) => T \in G
    BY <1>1
  <2>. HIDE DEF G
  <2>. QED
    BY <2>1, SubsetInduction
<1>. QED
  BY <1>2

\* One column of a table.
LEMMA SumOfColumn ==
  ASSUME NEW A, IsFiniteSet(A), NEW B, IsFiniteSet(B),
         NEW f \in [Table(A, B) -> Int], NEW b \in B,
         NEW g \in [A -> Int], \A a \in A : g[a] = f[<<a, b>>]
  PROVE  SumOver(f, Table(A, {b})) = Total(g)
<1>. DEFINE G == {T \in SUBSET A : SumOver(f, Table(T, {b})) = SumOver(g, T)}
<1>1. ASSUME NEW T \in SUBSET A, \A U \in SUBSET T : U # T => U \in G
      PROVE  SumOver(f, Table(T, {b})) = SumOver(g, T)
  <2>0. IsFiniteSet(Table(A, B)) /\ Table(T, {b}) \in SUBSET Table(A, B)
    BY Columns
  <2>1. CASE T = {}
    <3>1. Table(T, {b}) = {}
      BY <2>1, Columns
    <3>. QED
      BY <2>0, <2>1, <3>1, PartialSum
  <2>2. CASE T # {}
    <3>1. PICK a \in T : TRUE
      BY <2>2
    <3>2. SumOver(f, Table(T \ {a}, {b})) = SumOver(g, T \ {a})
      BY <1>1
    <3>3. SumOver(g, T) = g[a] + SumOver(g, T \ {a})
      BY PartialSum
    <3>4. /\ <<a, b>> \in Table(T, {b})
          /\ Table(T, {b}) \ {<<a, b>>} = Table(T \ {a}, {b})
      BY DEF Table
    <3>5. SumOver(f, Table(T, {b})) = f[<<a, b>>] + SumOver(f, Table(T, {b}) \ {<<a, b>>})
      <4>1. PICK t, e : t = Table(T, {b}) /\ e = <<a, b>>
        OBVIOUS
      <4>2. IsFiniteSet(Table(A, B)) /\ t \in SUBSET Table(A, B) /\ e \in t
        BY <2>0, <3>4, <4>1
      <4>3. SumOver(f, t) = f[e] + SumOver(f, t \ {e})
        BY <4>2, PartialSum
      <4>. QED
        BY <4>1, <4>3
    <3>. QED
      BY <3>2, <3>3, <3>4, <3>5
  <2>. QED
    BY <2>1, <2>2
<1>2. A \in G
  <2>1. \A T \in SUBSET A : (\A U \in SUBSET T : U # T => U \in G) => T \in G
    BY <1>1
  <2>. HIDE DEF G
  <2>. QED
    BY <2>1, SubsetInduction
<1>. QED
  BY <1>2, WholeSum

\* The sum of a table is the sum of its columns' sums.
LEMMA SumColumns ==
  ASSUME NEW A, IsFiniteSet(A), NEW B, IsFiniteSet(B), NEW f \in [Table(A, B) -> Int],
         NEW col \in [B -> [A -> Int]], \A a \in A, b \in B : col[b][a] = f[<<a, b>>],
         NEW g \in [B -> Int], \A b \in B : g[b] = Total(col[b])
  PROVE  Total(f) = Total(g)
<1>. DEFINE G == {U \in SUBSET B : SumOver(f, Table(A, U)) = SumOver(g, U)}
<1>0. IsFiniteSet(Table(A, B))
  BY Columns
<1>1. ASSUME NEW U \in SUBSET B, \A V \in SUBSET U : V # U => V \in G
      PROVE  SumOver(f, Table(A, U)) = SumOver(g, U)
  <2>1. CASE U = {}
    <3>1. Table(A, U) = {} /\ Table(A, U) \in SUBSET Table(A, B)
      BY <2>1, Columns
    <3>. QED
      BY <1>0, <2>1, <3>1, PartialSum
  <2>2. CASE U # {}
    <3>1. PICK b \in U : TRUE
      BY <2>2
    <3>. DEFINE P == Table(A, U \ {b})
                Q == Table(A, {b})
    <3>2. SumOver(f, P) = SumOver(g, U \ {b})
      BY <1>1
    <3>3. SumOver(g, U) = g[b] + SumOver(g, U \ {b}) /\ SumOver(g, U \ {b}) \in Int
      BY PartialSum
    <3>4. SumOver(f, Q) = g[b]
      <4>1. PICK h : h = col[b]
        OBVIOUS
      <4>2. b \in B /\ h \in [A -> Int] /\ \A a \in A : h[a] = f[<<a, b>>]
        BY <4>1
      <4>3. SumOver(f, Q) = Total(h)
        BY <4>2, SumOfColumn
      <4>. QED
        BY <4>1, <4>3
    <3>5. /\ P \cup Q = Table(A, U) /\ P \cap Q = {}
          /\ P \in SUBSET Table(A, B) /\ Q \in SUBSET Table(A, B)
      BY DEF Table
    <3>6. SumOver(f, Table(A, U)) = SumOver(f, P) + SumOver(f, Q)
      <4>. HIDE DEF P, Q
      <4>1. SumOver(f, P \cup Q) = SumOver(f, P) + SumOver(f, Q)
        BY <1>0, <3>5, SumSplit
      <4>. QED
        BY <3>5, <4>1
    <3>7. g[b] \in Int
      OBVIOUS
    <3>. HIDE DEF P, Q
    <3>. QED
      BY <3>2, <3>3, <3>4, <3>6, <3>7
  <2>. QED
    BY <2>1, <2>2
<1>2. B \in G
  <2>1. \A U \in SUBSET B : (\A V \in SUBSET U : V # U => V \in G) => U \in G
    BY <1>1
  <2>. HIDE DEF G
  <2>. QED
    BY <2>1, SubsetInduction
<1>. QED
  BY <1>0, <1>2, WholeSum
=============================================================================
