------------------------------ MODULE BtreeLemmas ------------------------------
(****************************************************************************)
(* What the operators of BtreePages and Btree compute (the division of cells  *)
(* among siblings, the free list, the way down and along a tree), the         *)
(* inductive invariant of Btree, and that a row inserted or deleted keeps it.  *)
(****************************************************************************)
EXTENDS Btree, WellFoundedInduction, FiniteSetTheorems, TLAPS

\* A set of numbers has a least element.
LEMMA LeastOf ==
    ASSUME NEW T, T \subseteq Nat, T # {}
    PROVE  \E x \in T : \A y \in T : x <= y
  <1>1. PICK x \in T : \A y \in T : <<y, x>> \notin OpToRel(<, Nat)
    BY NatLessThanWellFounded, WFMin, Zenon
  <1>2. \A y \in T : y \in Nat
    OBVIOUS
  <1>3. \A y \in T : ~(y < x)
    BY <1>1, <1>2, Zenon DEF OpToRel
  <1> QED BY <1>2, <1>3

\* A bounded one has a greatest.
LEMMA GreatestOf ==
    ASSUME NEW T, NEW b \in Int, T \subseteq Int, T # {}, \A x \in T : x <= b
    PROVE  \E x \in T : \A y \in T : y <= x
  <1> DEFINE M == {b - x : x \in T}
  <1>0. PICK x0 \in T : TRUE
    OBVIOUS
  <1>1. M \subseteq Nat /\ M # {}
    <2>1. b - x0 \in M
      BY <1>0
    <2>2. \A x \in T : b - x \in Nat
      OBVIOUS
    <2> QED BY <2>1, <2>2
  <1>2. PICK m \in M : \A y \in M : m <= y
    BY <1>1, LeastOf
  <1>3. PICK x \in T : m = b - x
    OBVIOUS
  <1>4. ASSUME NEW y \in T PROVE y <= x
    <2>1. b - y \in M
      OBVIOUS
    <2>2. b - x <= b - y /\ x \in Int /\ y \in Int
      BY <1>2, <1>3, <2>1
    <2> QED BY <2>2
  <1> QED BY <1>4

\* The smallest of some naturals: Min is defined by CHOOSE.
LEMMA MinIs ==
    ASSUME NEW T, T \subseteq Nat, T # {}
    PROVE  Min(T) \in T /\ \A y \in T : Min(T) <= y
  BY LeastOf DEF Min

\* The largest of some integers with an upper bound.
LEMMA MaxIs ==
    ASSUME NEW T, NEW b \in Int, T \subseteq Int, T # {}, \A x \in T : x <= b
    PROVE  Max(T) \in T /\ \A y \in T : y <= Max(T)
  <1>1. PICK x \in T : \A y \in T : y <= x
    BY GreatestOf
  <1>2. \A y \in T : x >= y
    BY <1>1
  <1>3. Max(T) \in T /\ \A y \in T : Max(T) >= y
    BY <1>2, Zenon DEF Max
  <1> QED BY <1>3

\* A function is defined by recursion on levels: what G makes of it at a place
\* depends on the places of lower levels only.
Recursive(D, S, N, h, G) ==
    /\ N \in Nat /\ h \in [D -> 0 .. N] /\ S # {}
    /\ G \in [D -> [[D -> S] -> S]]
    /\ \A p \in D : \A f, g \in [D -> S] :
          (\A q \in D : h[q] < h[p] => f[q] = g[q]) => G[p][f] = G[p][g]

Solves(D, S, G, f) == f \in [D -> S] /\ \A p \in D : f[p] = G[p][f]

\* A definition that goes from a level to lower ones has a solution.
LEMMA RecursionExists ==
    ASSUME NEW D, NEW S, NEW N, NEW h, NEW G, Recursive(D, S, N, h, G)
    PROVE  \E f : Solves(D, S, G, f)
  <1>0. /\ N \in Nat /\ h \in [D -> 0 .. N] /\ S # {}
        /\ G \in [D -> [[D -> S] -> S]]
        /\ \A p \in D : \A f, g \in [D -> S] :
              (\A q \in D : h[q] < h[p] => f[q] = g[q]) => G[p][f] = G[p][g]
    BY DEF Recursive
  <1> DEFINE Upto(n) == \E f \in [D -> S] : \A p \in D : h[p] <= n => f[p] = G[p][f]
             T == {n \in Nat : ~Upto(n)}
  <1>1. SUFFICES ASSUME T # {} PROVE FALSE
    <2>1. Upto(N)
      BY <1>0, <1>1
    <2>2. \A p \in D : h[p] <= N
      BY <1>0
    <2> QED BY <2>1, <2>2 DEF Solves
  <1>2. PICK n \in T : \A m \in T : n <= m
    BY <1>1, LeastOf
  <1>3. \E g \in [D -> S] : \A p \in D : h[p] < n => g[p] = G[p][g]
    <2>1. CASE n = 0
      <3>1. PICK s \in S : TRUE
        BY <1>0
      <3>2. [p \in D |-> s] \in [D -> S]
        OBVIOUS
      <3>3. \A p \in D : ~(h[p] < n)
        BY <1>0, <2>1
      <3> QED BY <3>2, <3>3
    <2>2. CASE n # 0
      <3>0. n \in Nat
        BY <1>2
      <3>1. n - 1 \in Nat /\ n - 1 \notin T
        <4> HIDE DEF T
        <4>1. n - 1 \in Nat /\ n - 1 < n
          BY <2>2, <3>0
        <4> QED BY <1>2, <3>0, <4>1
      <3>2. Upto(n - 1)
        BY <3>1
      <3>3. \A p \in D : h[p] < n => h[p] <= n - 1
        BY <1>0, <1>2
      <3> QED BY <3>2, <3>3
    <2> QED BY <2>1, <2>2
  <1>4. PICK g \in [D -> S] : \A p \in D : h[p] < n => g[p] = G[p][g]
    BY <1>3
  <1> DEFINE f == [p \in D |-> G[p][g]]
  <1>5. f \in [D -> S]
    BY <1>0
  <1>6. ASSUME NEW p \in D, h[p] <= n PROVE f[p] = G[p][f]
    <2>1. \A q \in D : h[q] < h[p] => f[q] = g[q]
      BY <1>0, <1>2, <1>4, <1>6
    <2>2. G[p][f] = G[p][g]
      BY <1>0, <1>5, <2>1
    <2> QED BY <2>2
  <1>7. Upto(n)
    BY <1>5, <1>6
  <1> QED BY <1>2, <1>7
\* Two functions that agree at a place whenever they do at those of lower levels
\* are the same.
Alike(D, h, f, g) ==
    /\ h \in [D -> Nat]
    /\ \A p \in D : (\A q \in D : h[q] < h[p] => f[q] = g[q]) => f[p] = g[p]

\* Two functions that agree where they agree on lower levels are the same.
LEMMA SameByLevels ==
    ASSUME NEW D, NEW h, NEW f, NEW g, Alike(D, h, f, g)
    PROVE  \A p \in D : f[p] = g[p]
  <1>0. /\ h \in [D -> Nat]
        /\ \A p \in D : (\A q \in D : h[q] < h[p] => f[q] = g[q]) => f[p] = g[p]
    BY DEF Alike
  <1> DEFINE W == {p \in D : f[p] # g[p]}
             T == {h[p] : p \in W}
  <1>1. SUFFICES ASSUME NEW p0 \in W PROVE FALSE
    OBVIOUS
  <1>2. T \subseteq Nat /\ T # {}
    BY <1>0, <1>1
  <1>3. PICK n \in T : \A m \in T : n <= m
    <2> HIDE DEF T
    <2> QED BY <1>2, LeastOf
  <1>4. PICK p \in W : h[p] = n
    BY <1>3
  <1>5. ASSUME NEW q \in D, h[q] < h[p] PROVE f[q] = g[q]
    <2>1. SUFFICES ASSUME q \in W PROVE FALSE
      OBVIOUS
    <2>2. h[q] \in T
      BY <2>1
    <2>3. n <= h[q] /\ h[q] \in Nat /\ n \in Nat
      BY <1>2, <1>3, <2>2
    <2> QED BY <1>0, <1>4, <1>5, <2>3
  <1> QED BY <1>0, <1>4, <1>5

\* The equation that the sums of sizes solve.
SumsOf(sizes, s) == [i \in 0 .. Len(sizes) |-> IF i = 0 THEN 0 ELSE s[i - 1] + sizes[i]]

\* Sums adds the sizes up one by one.
LEMMA SumsAre ==
    ASSUME NEW sizes \in Seq(Nat)
    PROVE  /\ Sums(sizes) \in [0 .. Len(sizes) -> Nat]
           /\ Sums(sizes)[0] = 0
           /\ \A i \in 1 .. Len(sizes) : Sums(sizes)[i] = Sums(sizes)[i - 1] + sizes[i]
  <1> DEFINE D == 0 .. Len(sizes)
             h == [i \in D |-> i]
             G == [i \in D |-> [s \in [D -> Nat] |-> IF i = 0 THEN 0 ELSE s[i - 1] + sizes[i]]]
  <1>1. Len(sizes) \in Nat /\ h \in [D -> 0 .. Len(sizes)]
    OBVIOUS
  <1>2. G \in [D -> [[D -> Nat] -> Nat]]
    BY SMTT(30)
  <1>3. \A p \in D : \A f, g \in [D -> Nat] :
           (\A q \in D : h[q] < h[p] => f[q] = g[q]) => G[p][f] = G[p][g]
    OBVIOUS
  <1>4. Recursive(D, Nat, Len(sizes), h, G)
    BY <1>1, <1>2, <1>3 DEF Recursive
  <1>5. PICK f : Solves(D, Nat, G, f)
    <2> HIDE DEF D, h, G
    <2> QED BY <1>4, RecursionExists
  <1>5a. f \in [D -> Nat] /\ \A p \in D : f[p] = G[p][f]
    BY <1>5 DEF Solves
  <1>6. f = SumsOf(sizes, f)
    BY <1>5a DEF SumsOf
  <1>7. Sums(sizes) = CHOOSE s : s = SumsOf(sizes, s)
    BY DEF Sums, SumsOf
  <1>8. Sums(sizes) = SumsOf(sizes, Sums(sizes))
    BY <1>6, <1>7
  <1> DEFINE s == Sums(sizes)
  <1>9. \A i \in D : s[i] = IF i = 0 THEN 0 ELSE s[i - 1] + sizes[i]
    BY <1>8 DEF SumsOf
  <1>10. \A i \in D : s[i] = f[i]
    <2>1. ASSUME NEW i \in D, \A j \in D : h[j] < h[i] => s[j] = f[j] PROVE s[i] = f[i]
      <3>1. i # 0 => i - 1 \in D /\ h[i - 1] < h[i]
        OBVIOUS
      <3> QED BY <1>5a, <1>9, <2>1, <3>1
    <2>2. h \in [D -> Nat]
      OBVIOUS
    <2> HIDE DEF D, h, s, G
    <2>3. Alike(D, h, s, f)
      BY <2>1, <2>2 DEF Alike
    <2> QED BY <2>3, SameByLevels
  <1>11. s \in [D -> Nat]
    BY <1>5a, <1>8, <1>10 DEF SumsOf
  <1> QED BY <1>9, <1>11

\* Sums of positive sizes rise.
LEMMA SumsRise ==
    ASSUME NEW sizes \in Seq(Nat \ {0})
    PROVE  \A i, j \in 0 .. Len(sizes) : i < j => Sums(sizes)[i] < Sums(sizes)[j]
  <1> DEFINE s == Sums(sizes)
             m == Len(sizes)
             T == {d \in Nat : d > 0 /\ \E i, j \in 0 .. m : j = i + d /\ ~(s[i] < s[j])}
  <1>1. /\ s \in [0 .. m -> Nat] /\ m \in Nat
        /\ \A i \in 1 .. m : s[i] = s[i - 1] + sizes[i] /\ sizes[i] > 0 /\ sizes[i] \in Nat
    <2>1. sizes \in Seq(Nat)
      OBVIOUS
    <2> QED BY <2>1, SumsAre
  <1> HIDE DEF s, m
  <1>2. T = {}
    <2>1. SUFFICES ASSUME T # {} PROVE FALSE
      OBVIOUS
    <2>2. PICK d \in T : \A e \in T : d <= e
      <3>1. T \subseteq Nat
        OBVIOUS
      <3> HIDE DEF T
      <3> QED BY <2>1, <3>1, LeastOf
    <2>3. PICK i \in 0 .. m, j \in 0 .. m : j = i + d /\ ~(s[i] < s[j])
      BY <2>2
    <2>4. d \in Nat /\ d > 0
      BY <2>2
    <2>8. j \in 1 .. m /\ j - 1 \in 0 .. m
      BY <1>1, <2>3, <2>4
    <2>9. /\ s[j] = s[j - 1] + sizes[j] /\ sizes[j] > 0 /\ sizes[j] \in Nat
          /\ s[j - 1] \in Nat /\ s[i] \in Nat
      BY <1>1, <2>8
    <2>10. ~(s[i] < s[j - 1])
      BY <2>3, <2>9
    <2>5. d > 1
      <3>1. SUFFICES ASSUME d = 1 PROVE FALSE
        BY <2>4
      <3>2. j - 1 = i
        BY <2>3, <3>1
      <3> QED BY <2>3, <2>9, <3>2
    <2>6. d - 1 \notin T
      <3>1. d - 1 < d
        BY <2>4
      <3> HIDE DEF T
      <3> QED BY <2>2, <2>4, <3>1
    <2>7. s[i] < s[j - 1]
      <3>1. d - 1 \in Nat /\ d - 1 > 0 /\ j - 1 \in 0 .. m /\ j - 1 = i + (d - 1)
        BY <1>1, <2>3, <2>4, <2>5
      <3> QED BY <2>6, <3>1
    <2> QED BY <2>7, <2>10
  <1>3. ASSUME NEW i \in 0 .. m, NEW j \in 0 .. m, i < j PROVE s[i] < s[j]
    <2>1. j - i \in Nat /\ j - i > 0 /\ j = i + (j - i)
      BY <1>1, <1>3
    <2> QED BY <1>2, <2>1
  <1> QED BY <1>3 DEF s, m

\* How the sums of positive sizes behave.
LEMMA Totals ==
    ASSUME NEW sizes \in Seq(Nat \ {0})
    PROVE  /\ Sums(sizes) \in [0 .. Len(sizes) -> Nat] /\ Sums(sizes)[0] = 0
           /\ \A i \in 1 .. Len(sizes) : Sums(sizes)[i] = Sums(sizes)[i - 1] + sizes[i]
           /\ \A i, j \in 0 .. Len(sizes) : i < j => Sums(sizes)[i] < Sums(sizes)[j]
  <1>1. sizes \in Seq(Nat)
    OBVIOUS
  <1> QED BY <1>1, SumsAre, SumsRise

\* Filled goes as far as the page holds, and no farther.
LEMMA FilledIs ==
    ASSUME NEW sizes \in Seq(Nat \ {0}), NEW from \in 0 .. Len(sizes), U \in Nat
    PROVE  /\ Filled(sizes, from) \in from .. Len(sizes)
           /\ Held(sizes, from, Filled(sizes, from)) <= U
           /\ Filled(sizes, from) < Len(sizes) => Held(sizes, from, Filled(sizes, from) + 1) > U
  <1> DEFINE s == Sums(sizes)
             m == Len(sizes)
             T == {c \in from .. m : s[c] - s[from] <= U}
             c == Max(T)
  <1>1. s \in [0 .. m -> Nat] /\ m \in Nat /\ from \in Nat
    BY Totals
  <1>2. Filled(sizes, from) = c
    BY DEF Filled, Held
  <1> HIDE DEF s, m
  <1>3. c \in T /\ \A d \in T : d <= c
    <2>1. T \subseteq Int /\ m \in Int /\ \A d \in T : d <= m
      BY <1>1
    <2>2. T # {}
      <3>1. from \in T
        BY <1>1 DEF m
      <3> QED BY <3>1
    <2> HIDE DEF T
    <2> QED BY <2>1, <2>2, MaxIs
  <1> HIDE DEF c
  <1>4. ASSUME c < m, s[c + 1] - s[from] <= U PROVE FALSE
    <2>1. c + 1 \in T
      BY <1>1, <1>3, <1>4
    <2> QED BY <1>1, <1>3, <2>1
  <1>5. c < m => s[c + 1] - s[from] > U
    <2>1. c < m => c + 1 \in 0 .. m
      BY <1>1, <1>3
    <2>2. c < m => s[c + 1] \in Nat /\ s[from] \in Nat
      BY <1>1, <2>1 DEF m
    <2> QED BY <1>4, <2>2
  <1> QED BY <1>2, <1>3, <1>5 DEF Held, s, m

\* After which cell the i-th page starts, if the pages end at cnt.
StartOf(cnt, skip, i) == IF i = 1 THEN 0 ELSE cnt[i - 1] + skip

\* Each page but the last is full.
Filling(sizes, skip, cnt) ==
    LET m == Len(sizes) IN
    /\ cnt \in Seq(0 .. m) /\ Len(cnt) >= 1 /\ cnt[Len(cnt)] = m
    /\ \A i \in 1 .. Len(cnt) : /\ StartOf(cnt, skip, i) <= cnt[i]
                                /\ Held(sizes, StartOf(cnt, skip, i), cnt[i]) <= U
    /\ \A i \in 1 .. Len(cnt) - 1 : /\ cnt[i] < m
                                    /\ Held(sizes, StartOf(cnt, skip, i), cnt[i] + 1) > U

\* The equation that the ends of the pages solve.
EndsOf(sizes, skip, e) ==
    [i \in 1 .. Len(sizes) + 1 |->
       IF i = 1 THEN Filled(sizes, 0)
       ELSE IF e[i - 1] = Len(sizes) THEN e[i - 1] ELSE Filled(sizes, e[i - 1] + skip)]

Ends(sizes, skip) == CHOOSE e : e = EndsOf(sizes, skip, e)

\* The ends that FillFromLeft computes exist and solve its recursion.
LEMMA EndsAre ==
    ASSUME NEW sizes \in Seq(Nat \ {0}), NEW skip \in 0 .. 1, U \in Nat
    PROVE  /\ Ends(sizes, skip) \in [1 .. Len(sizes) + 1 -> 0 .. Len(sizes)]
           /\ Ends(sizes, skip) = EndsOf(sizes, skip, Ends(sizes, skip))
  <1> DEFINE m == Len(sizes)
             D == 1 .. m + 1
             S == 0 .. m
             h == [i \in D |-> i]
             next(b) == IF b = m THEN b ELSE Filled(sizes, b + skip)
             G == [i \in D |-> [e \in [D -> S] |->
                     IF i = 1 THEN Filled(sizes, 0) ELSE next(e[i - 1])]]
  <1>1. m \in Nat /\ h \in [D -> 0 .. m + 1] /\ S # {} /\ h \in [D -> Nat]
    OBVIOUS
  <1>2. Filled(sizes, 0) \in S
    BY <1>1, FilledIs
  <1>3. ASSUME NEW b \in S PROVE next(b) \in S
    <2>1. CASE b = m
      BY <2>1
    <2>2. CASE b # m
      <3>1. b + skip \in 0 .. m
        BY <1>1, <2>2
      <3>2. Filled(sizes, b + skip) \in b + skip .. m
        BY <3>1, FilledIs
      <3> QED BY <1>1, <2>2, <3>1, <3>2
    <2> QED BY <2>1, <2>2
  <1> HIDE DEF next, m
  <1>4. G \in [D -> [[D -> S] -> S]]
    <2>1. ASSUME NEW i \in D, NEW e \in [D -> S], i # 1 PROVE next(e[i - 1]) \in S
      <3>1. i - 1 \in D
        BY <1>1, <2>1
      <3> QED BY <1>3, <3>1
    <2> HIDE DEF D, S
    <2> QED BY <1>2, <2>1
  <1>5. \A p \in D : \A f, g \in [D -> S] :
           (\A q \in D : h[q] < h[p] => f[q] = g[q]) => G[p][f] = G[p][g]
    BY <1>1
  <1>6. Recursive(D, S, m + 1, h, G)
    <2>1. m + 1 \in Nat
      BY <1>1
    <2> HIDE DEF D, h, G, S
    <2> QED BY <1>1, <1>4, <1>5, <2>1 DEF Recursive
  <1>7. PICK f : Solves(D, S, G, f)
    <2> HIDE DEF D, h, G, S
    <2> QED BY <1>6, RecursionExists
  <1>8. f \in [D -> S] /\ \A p \in D : f[p] = IF p = 1 THEN Filled(sizes, 0) ELSE next(f[p - 1])
    BY <1>7 DEF Solves
  <1>9. f = EndsOf(sizes, skip, f)
    BY <1>8 DEF EndsOf, next, m
  <1> DEFINE e == Ends(sizes, skip)
  <1>10. e = EndsOf(sizes, skip, e)
    BY <1>9 DEF Ends
  <1>11. \A i \in D : e[i] = IF i = 1 THEN Filled(sizes, 0) ELSE next(e[i - 1])
    BY <1>10 DEF EndsOf, next, m
  <1>12. \A i \in D : e[i] = f[i]
    <2>1. ASSUME NEW i \in D, \A j \in D : h[j] < h[i] => e[j] = f[j] PROVE e[i] = f[i]
      <3>1. i # 1 => i - 1 \in D /\ h[i - 1] < h[i]
        BY <1>1
      <3> HIDE DEF e, G
      <3> QED BY <1>8, <1>11, <2>1, <3>1
    <2>2. h \in [D -> Nat]
      BY <1>1
    <2> HIDE DEF D, h, e, G, S
    <2>3. Alike(D, h, e, f)
      BY <2>1, <2>2 DEF Alike
    <2> QED BY <2>3, SameByLevels
  <1>13. e \in [D -> S]
    BY <1>8, <1>10, <1>12 DEF EndsOf, m
  <1> QED BY <1>10, <1>13 DEF m

\* The first pass fills each page but the last: balance_nonroot, szNew and cntNew.
LEMMA FillFromLeftIs ==
    ASSUME NEW sizes \in Seq(Nat \ {0}), NEW skip \in 0 .. 1, U \in Nat,
           \A i \in 1 .. Len(sizes) : sizes[i] <= U
    PROVE  Filling(sizes, skip, FillFromLeft(sizes, skip))
  <1> DEFINE m == Len(sizes)
             s == Sums(sizes)
             e == Ends(sizes, skip)
             T == {i \in 1 .. m + 1 : e[i] = m}
             k == Min(T)
             cnt == SubSeq(e, 1, k)
  <1>0. m \in Nat
    OBVIOUS
  <1>1. e \in [1 .. m + 1 -> 0 .. m] /\ e = EndsOf(sizes, skip, e)
    BY EndsAre
  <1> HIDE DEF e
  <1>2. e[1] = Filled(sizes, 0)
        /\ \A i \in 2 .. m + 1 : e[i] = IF e[i - 1] = m THEN m ELSE Filled(sizes, e[i - 1] + skip)
    <2>1. \A i \in 1 .. m + 1 : e[i] = EndsOf(sizes, skip, e)[i]
      BY <1>1
    <2> QED BY <1>0, <2>1 DEF EndsOf
  <1>3. FillFromLeft(sizes, skip) = cnt
    BY DEF FillFromLeft, Ends, EndsOf, e
  <1>4. /\ s \in [0 .. m -> Nat]
        /\ \A i \in 1 .. m : s[i] = s[i - 1] + sizes[i] /\ sizes[i] \in Nat
    BY Totals
  <1> HIDE DEF s, m
  \* A page takes a cell at least.
  <1>5. ASSUME NEW from \in 0 .. m - 1 PROVE Filled(sizes, from) > from
    <2>1. /\ Filled(sizes, from) \in from .. m
          /\ Filled(sizes, from) < m => Held(sizes, from, Filled(sizes, from) + 1) > U
      <3>1. from \in 0 .. Len(sizes)
        BY <1>0 DEF m
      <3> QED BY <3>1, FilledIs DEF m
    <2>2. Held(sizes, from, from + 1) <= U
      <3>1. from + 1 \in 1 .. m /\ (from + 1) - 1 = from /\ from \in 0 .. m
        BY <1>0
      <3>2. sizes[from + 1] <= U
        BY <3>1 DEF m
      <3>3. s[from + 1] = s[from] + sizes[from + 1] /\ s[from] \in Nat /\ sizes[from + 1] \in Nat
        BY <1>4, <3>1
      <3>4. s[from + 1] - s[from] <= U
        BY <3>2, <3>3
      <3> QED BY <3>4 DEF Held, s
    <2>3. SUFFICES ASSUME Filled(sizes, from) = from PROVE FALSE
      BY <2>1, <1>0
    <2>4. from < m
      BY <1>0
    <2>5. Held(sizes, from, from + 1) > U
      BY <2>1, <2>3, <2>4
    <2>6. Held(sizes, from, from + 1) \in Int
      <3>1. from \in 0 .. m /\ from + 1 \in 0 .. m
        BY <1>0
      <3>2. s[from] \in Nat /\ s[from + 1] \in Nat
        BY <1>4, <3>1
      <3> QED BY <3>2 DEF Held, s
    <2> QED BY <2>2, <2>5, <2>6
  <1>6. T \subseteq Nat /\ T # {}
    <2> DEFINE W == {i \in 1 .. m + 1 : e[i] # m /\ e[i] < i}
    <2>1. W = {}
      <3>1. SUFFICES ASSUME W # {} PROVE FALSE
        OBVIOUS
      <3>2. PICK i \in W : \A j \in W : i <= j
        <4>1. W \subseteq Nat
          BY <1>0
        <4> HIDE DEF W
        <4> QED BY <3>1, <4>1, LeastOf
      <3>3. CASE i = 1
        <4>1. m # 0
          BY <1>0, <1>1, <3>2, <3>3
        <4>2. e[1] > 0
          BY <1>0, <1>2, <1>5, <4>1
        <4> QED BY <1>1, <3>2, <3>3, <4>2
      <3>4. CASE i # 1
        <4>1. i \in 2 .. m + 1 /\ i - 1 \in 1 .. m + 1
          BY <1>0, <3>2, <3>4
        <4>2. e[i - 1] # m /\ e[i] = Filled(sizes, e[i - 1] + skip)
          BY <1>2, <3>2, <4>1
        <4>3. e[i - 1] \in 0 .. m - 1
          BY <1>0, <1>1, <4>1, <4>2
        <4>4. i - 1 \notin W
          <5>1. i - 1 < i
            BY <4>1
          <5> HIDE DEF W
          <5> QED BY <3>2, <4>1, <5>1
        <4>5. e[i - 1] >= i - 1
          BY <4>1, <4>2, <4>3, <4>4
        <4>6. e[i] # m /\ e[i] \in 0 .. m /\ e[i] < i
          BY <1>1, <3>2, <4>1
        <4>7. CASE e[i - 1] + skip = m
          <5>1. Filled(sizes, m) \in m .. m
            BY FilledIs DEF m
          <5> QED BY <1>0, <4>2, <4>6, <4>7, <5>1
        <4>8. CASE e[i - 1] + skip # m
          <5>1. e[i - 1] + skip \in 0 .. m - 1
            BY <1>0, <4>3, <4>8
          <5>2. e[i] > e[i - 1] + skip
            BY <1>5, <4>2, <5>1
          <5> QED BY <1>0, <4>1, <4>3, <4>5, <4>6, <5>2
        <4> QED BY <4>7, <4>8
      <3> QED BY <3>3, <3>4
    <2>2. m + 1 \in 1 .. m + 1 /\ e[m + 1] \in 0 .. m
      BY <1>0, <1>1
    <2>3. e[m + 1] = m
      BY <1>0, <2>1, <2>2
    <2> QED BY <1>0, <2>2, <2>3
  <1>7. k \in T /\ \A i \in T : k <= i
    <2> HIDE DEF T
    <2> QED BY <1>6, MinIs
  <1> HIDE DEF k
  <1>8. k \in 1 .. m + 1 /\ e[k] = m /\ \A i \in 1 .. k - 1 : e[i] # m
    BY <1>0, <1>7
  <1>9. /\ cnt \in Seq(0 .. m) /\ Len(cnt) = k
        /\ \A i \in 1 .. k : cnt[i] = e[i]
    <2>1. e \in Seq(0 .. m) /\ Len(e) = m + 1
      BY <1>0, <1>1
    <2> HIDE DEF m
    <2> QED BY <1>0, <1>8, <2>1, SMTT(30)
  <1> HIDE DEF cnt
  <1>10. ASSUME NEW i \in 1 .. k
         PROVE  LET from == StartOf(cnt, skip, i) IN
                /\ from \in 0 .. m /\ cnt[i] = Filled(sizes, from)
    <2>1. CASE i = 1
      BY <1>0, <1>2, <1>8, <1>9, <2>1 DEF StartOf
    <2>2. CASE i # 1
      <3>1. i \in 2 .. m + 1 /\ i - 1 \in 1 .. k - 1 /\ i - 1 \in 1 .. k /\ i - 1 \in 1 .. m + 1
        BY <1>0, <1>8, <2>2
      <3>2. e[i - 1] # m /\ e[i - 1] \in 0 .. m
        BY <1>1, <1>8, <3>1
      <3>3. e[i] = Filled(sizes, e[i - 1] + skip) /\ e[i - 1] + skip \in 0 .. m
        BY <1>0, <1>2, <3>1, <3>2
      <3> QED BY <1>9, <2>2, <3>1, <3>3 DEF StartOf
    <2> QED BY <2>1, <2>2
  <1>11. ASSUME NEW i \in 1 .. k
         PROVE  LET from == StartOf(cnt, skip, i) IN
                /\ from <= cnt[i] /\ cnt[i] \in 0 .. m /\ Held(sizes, from, cnt[i]) <= U
                /\ cnt[i] < m => Held(sizes, from, cnt[i] + 1) > U
    <2> DEFINE from == StartOf(cnt, skip, i)
    <2>1. from \in 0 .. Len(sizes) /\ cnt[i] = Filled(sizes, from)
      BY <1>10 DEF m
    <2> HIDE DEF from
    <2>2. /\ cnt[i] \in from .. m /\ Held(sizes, from, cnt[i]) <= U
          /\ cnt[i] < m => Held(sizes, from, cnt[i] + 1) > U
      BY <2>1, FilledIs DEF m
    <2>3. from \in Nat /\ m \in Nat
      BY <1>0, <2>1
    <2>4. from <= cnt[i] /\ cnt[i] \in 0 .. m
      BY <2>2, <2>3
    <2> QED BY <2>2, <2>4 DEF from
  <1>12. ASSUME NEW i \in 1 .. k - 1
         PROVE  cnt[i] < m /\ Held(sizes, StartOf(cnt, skip, i), cnt[i] + 1) > U
    <2>1. i \in 1 .. k
      BY <1>8
    <2>2. cnt[i] # m /\ cnt[i] \in 0 .. m
      BY <1>8, <1>9, <1>11, <2>1
    <2>3. cnt[i] < m
      BY <1>0, <2>2
    <2> QED BY <1>11, <2>1, <2>3
  <1>13. Len(cnt) >= 1 /\ cnt[Len(cnt)] = m
    BY <1>0, <1>8, <1>9
  <1>14. Filling(sizes, skip, cnt)
    BY <1>9, <1>11, <1>12, <1>13 DEF Filling, m
  <1> QED BY <1>3, <1>14

\* A page keeps a cell of its own, and gives one to the next.
Givable(sizes, skip, from, upto, end) ==
    /\ sizes \in Seq(Nat \ {0}) /\ skip \in 0 .. 1 /\ U \in Nat
    /\ \A i \in 1 .. Len(sizes) : sizes[i] <= U
    /\ from \in Nat /\ upto \in Nat /\ end \in Nat
    /\ from + 1 + skip <= upto /\ upto < end /\ end <= Len(sizes)
    /\ Held(sizes, from, upto) <= U /\ Held(sizes, upto + skip, end) <= U

\* The second pass leaves each page a cell and the next one within the page size.
LEMMA GiveToRightIs ==
    ASSUME NEW sizes, NEW skip, NEW from, NEW upto, NEW end,
           Givable(sizes, skip, from, upto, end)
    PROVE  LET r == GiveToRight(sizes, from, upto, end, skip) IN
           /\ r \in from + 1 .. upto /\ r + skip < end
           /\ Held(sizes, r + skip, end) <= U
  <1> DEFINE s == Sums(sizes)
             m == Len(sizes)
             left(r) == s[r] - s[from]
             right(r) == s[end] - s[r + skip]
             T == {r \in 0 .. upto :
                     r = 0 \/ (right(r) # 0 /\ right(r) + sizes[r + skip] > left(r) - sizes[r])}
             r == Max(T)
  <1>0. /\ skip \in 0 .. 1 /\ U \in Nat /\ from \in Nat /\ upto \in Nat /\ end \in Nat
        /\ from + 1 + skip <= upto /\ upto < end /\ end <= m
        /\ m \in Nat
    BY DEF Givable
  <1>1. /\ s \in [0 .. m -> Nat] /\ m \in Nat /\ sizes \in [1 .. m -> Nat \ {0}]
        /\ \A i \in 1 .. m : s[i] = s[i - 1] + sizes[i]
        /\ \A i, j \in 0 .. m : i < j => s[i] < s[j]
    BY Totals, SMTT(30) DEF Givable
  <1>2. GiveToRight(sizes, from, upto, end, skip) = r
    BY DEF GiveToRight, Held
  <1>3. s[upto] - s[from] <= U /\ s[end] - s[upto + skip] <= U
    BY DEF Givable, Held
  <1>4. \A i \in 1 .. m : sizes[i] <= U
    BY DEF Givable
  <1> HIDE DEF s, m
  <1>6. from + 1 \in T
    <2>1. /\ from + 1 \in 1 .. m /\ from + 1 + skip \in 1 .. m /\ from \in 0 .. m
          /\ from + 1 + skip \in 0 .. m /\ end \in 0 .. m /\ from + 1 \in 0 .. upto
          /\ from + 1 \in 0 .. m
      BY <1>0
    <2>2. /\ sizes[from + 1] \in Nat /\ sizes[from + 1 + skip] \in Nat
          /\ s[from] \in Nat /\ s[from + 1] \in Nat /\ s[end] \in Nat /\ s[from + 1 + skip] \in Nat
      BY <1>1, <2>1
    <2>3. s[from + 1] = s[from] + sizes[from + 1]
      <3>1. (from + 1) - 1 = from
        BY <1>0
      <3> QED BY <1>0, <1>1, <2>1, <3>1
    <2>4. s[from + 1 + skip] < s[end]
      BY <1>0, <1>1, <2>1
    <2>5. right(from + 1) # 0 /\ right(from + 1) > 0 /\ left(from + 1) - sizes[from + 1] = 0
      BY <1>0, <2>2, <2>3, <2>4
    <2>6. right(from + 1) + sizes[from + 1 + skip] > left(from + 1) - sizes[from + 1]
      BY <1>0, <2>2, <2>5
    <2> QED BY <1>0, <2>1, <2>5, <2>6
  <1>7. r \in T /\ \A q \in T : q <= r
    <2>1. T \subseteq Int /\ upto \in Int /\ \A q \in T : q <= upto
      BY <1>0
    <2> HIDE DEF T
    <2> QED BY <1>0, <1>6, <2>1, MaxIs
  <1> HIDE DEF r
  <1>8. r \in from + 1 .. upto
    <2>1. r \in 0 .. upto /\ from + 1 <= r
      BY <1>0, <1>6, <1>7
    <2> QED BY <1>0, <2>1
  <1>9. right(r) # 0
    BY <1>0, <1>7, <1>8
  <1>10. /\ r \in 1 .. m /\ r + skip \in 1 .. m /\ r + skip <= end /\ end \in 0 .. m /\ from \in 0 .. m
         /\ upto \in 0 .. m
    BY <1>0, <1>8
  <1>11. r + skip < end
    <2>1. r + skip \in 0 .. m
      BY <1>0, <1>10
    <2>2. s[r + skip] # s[end]
      <3>1. s[r + skip] \in Nat /\ s[end] \in Nat
        BY <1>1, <1>10, <2>1
      <3> QED BY <1>9, <3>1
    <2>3. r + skip # end
      BY <2>2
    <2> QED BY <1>0, <1>10, <2>3
  <1>12. right(r) <= U
    <2>1. CASE r = upto
      BY <1>0, <1>3, <2>1
    <2>2. CASE r # upto
      <3>1. r + 1 \in 1 .. upto /\ r + 1 \in 1 .. m /\ r + 1 + skip \in 1 .. m
        BY <1>0, <1>8, <1>10, <2>2
      <3>2. r + 1 \notin T
        <4>1. ~(r + 1 <= r)
          BY <1>0, <1>10
        <4> HIDE DEF T
        <4> QED BY <1>0, <1>7, <4>1
      <3>3. right(r + 1) = 0 \/ ~(right(r + 1) + sizes[r + 1 + skip] > left(r + 1) - sizes[r + 1])
        BY <1>0, <3>1, <3>2
      <3>4. /\ s[r + 1] = s[r] + sizes[r + 1]
            /\ s[r + 1 + skip] = s[r + skip] + sizes[r + 1 + skip]
        <4>1. (r + 1) - 1 = r /\ (r + 1 + skip) - 1 = r + skip
          BY <1>0, <1>10
        <4> QED BY <1>0, <1>1, <3>1, <4>1
      <3>5. /\ sizes[r + 1] \in Nat /\ sizes[r + 1 + skip] \in Nat /\ sizes[r + 1 + skip] <= U
            /\ s[r] \in Nat /\ s[r + 1] \in Nat /\ s[r + skip] \in Nat /\ s[r + 1 + skip] \in Nat
            /\ s[end] \in Nat /\ s[from] \in Nat /\ s[upto] \in Nat
        <4>1. r \in 0 .. m /\ r + 1 \in 0 .. m /\ r + skip \in 0 .. m /\ r + 1 + skip \in 0 .. m
          BY <1>0, <1>10, <3>1
        <4> QED BY <1>0, <1>1, <1>4, <1>10, <3>1, <4>1
      <3>6. s[r] <= s[upto]
        <4>1. r \in 0 .. m /\ r < upto
          BY <1>0, <1>8, <1>10, <2>2
        <4>2. s[r] < s[upto]
          BY <1>0, <1>1, <1>10, <4>1
        <4> QED BY <1>0, <3>5, <4>2
      <3>7. CASE right(r + 1) = 0
        BY <1>0, <3>4, <3>5, <3>7
      <3>8. CASE right(r + 1) + sizes[r + 1 + skip] <= left(r + 1) - sizes[r + 1]
        <4>1. right(r) <= left(r)
          BY <1>0, <3>4, <3>5, <3>8
        <4>2. left(r) <= U
          BY <1>0, <1>3, <3>5, <3>6
        <4> QED BY <1>0, <3>5, <4>1, <4>2
      <3> QED BY <1>0, <3>3, <3>5, <3>7, <3>8
    <2> QED BY <1>0, <2>1, <2>2
  <1> QED BY <1>0, <1>2, <1>8, <1>11, <1>12 DEF Held, s

\* The equation that the ends solve once the pages are evened out.
EvenOf(sizes, cnt, skip, e) ==
    [j \in 0 .. Len(cnt) - 1 |->
       IF j = 0 THEN cnt[Len(cnt)]
       ELSE GiveToRight(sizes, StartOf(cnt, skip, Len(cnt) - j), cnt[Len(cnt) - j], e[j - 1], skip)]

EvenEnds(sizes, cnt, skip) == CHOOSE e : e = EvenOf(sizes, cnt, skip, e)

\* The ends that EvenOut computes exist and solve its recursion.
LEMMA EvenEndsAre ==
    ASSUME NEW sizes, NEW skip, NEW m \in Nat, NEW cnt \in Seq(0 .. m), Len(cnt) >= 1
    PROVE  /\ EvenEnds(sizes, cnt, skip) = EvenOf(sizes, cnt, skip, EvenEnds(sizes, cnt, skip))
  <1> DEFINE k == Len(cnt)
             D == 0 .. k - 1
             S == 0 .. m
             h == [j \in D |-> j]
             next(j, b) == GiveToRight(sizes, StartOf(cnt, skip, k - j), cnt[k - j], b, skip)
             G == [j \in D |-> [e \in [D -> S] |-> IF j = 0 THEN cnt[k] ELSE next(j, e[j - 1])]]
  <1>0. 0 \in S
    OBVIOUS
  <1>1. k \in Nat /\ h \in [D -> 0 .. k] /\ S # {} /\ k >= 1
    <2>1. k \in Nat /\ k >= 1
      OBVIOUS
    <2>2. \A j \in D : j \in 0 .. k
      BY <2>1
    <2> HIDE DEF D, S, k
    <2> QED BY <1>0, <2>1, <2>2
  <1>2. cnt[k] \in S
    BY <1>1
  <1>3. ASSUME NEW j \in D, j # 0, NEW b PROVE next(j, b) \in S
    <2> DEFINE upto == cnt[k - j]
               from == StartOf(cnt, skip, k - j)
               T == {r \in 0 .. upto :
                       r = 0 \/ (/\ Held(sizes, r + skip, b) # 0
                                 /\ Held(sizes, r + skip, b) + sizes[r + skip] > Held(sizes, from, r) - sizes[r])}
    <2>1. k - j \in 1 .. k /\ upto \in 0 .. m
      BY <1>1, <1>3
    <2>2. next(j, b) = Max(T)
      BY DEF GiveToRight
    <2> HIDE DEF upto
    <2>3. T \subseteq 0 .. upto /\ upto \in Int
      BY <2>1
    <2>4. 0 \in T
      BY <2>1
    <2> HIDE DEF T, next
    <2>5. T \subseteq Int /\ T # {} /\ \A r \in T : r <= upto
      BY <2>3, <2>4
    <2>6. Max(T) \in T
      BY <2>3, <2>5, MaxIs
    <2>7. Max(T) \in 0 .. upto
      BY <2>3, <2>6
    <2> QED BY <2>1, <2>2, <2>7
  <1> HIDE DEF next, k
  <1>4. G \in [D -> [[D -> S] -> S]]
    BY <1>2, <1>3
  <1>5. \A p \in D : \A f, g \in [D -> S] :
           (\A q \in D : h[q] < h[p] => f[q] = g[q]) => G[p][f] = G[p][g]
    BY <1>1
  <1>6. Recursive(D, S, k, h, G)
    <2> HIDE DEF D, h, G, S
    <2> QED BY <1>1, <1>4, <1>5 DEF Recursive
  <1>7. PICK f : Solves(D, S, G, f)
    <2> HIDE DEF D, h, G, S
    <2> QED BY <1>6, RecursionExists
  <1>8. f \in [D -> S] /\ \A p \in D : f[p] = IF p = 0 THEN cnt[k] ELSE next(p, f[p - 1])
    BY <1>7 DEF Solves
  <1>9. f = EvenOf(sizes, cnt, skip, f)
    BY <1>8 DEF EvenOf, next, k
  <1> QED BY <1>9 DEF EvenEnds

\* Cells that can be divided: each fits a page, and two and a cell between them do.
Divisible(sizes, skip) ==
    /\ sizes \in Seq(Nat \ {0}) /\ skip \in 0 .. 1 /\ U \in Nat
    /\ \A i \in 1 .. Len(sizes) : sizes[i] <= IF skip = 1 THEN U \div 4 ELSE U

\* The pages take all cells, but for one between each two if skip is 1, and none
\* holds more than fits or, if there is any cell, nothing.
Divided(sizes, skip, cnt) ==
    LET m == Len(sizes) IN
    /\ cnt \in Seq(0 .. m) /\ Len(cnt) >= 1 /\ cnt[Len(cnt)] = m
    /\ \A i \in 1 .. Len(cnt) : /\ StartOf(cnt, skip, i) <= cnt[i]
                                /\ m > 0 => StartOf(cnt, skip, i) < cnt[i]
                                /\ Held(sizes, StartOf(cnt, skip, i), cnt[i]) <= U

\* A page that is full holds one cell at least, and two if the next is skipped.
LEMMA FullPage ==
    ASSUME NEW sizes, NEW skip, Divisible(sizes, skip),
           NEW from \in Nat, NEW upto \in Nat, from <= upto, upto < Len(sizes),
           Held(sizes, from, upto + 1) > U
    PROVE  from + 1 + skip <= upto
  <1> DEFINE s == Sums(sizes)
             m == Len(sizes)
  <1>1. /\ s \in [0 .. m -> Nat] /\ sizes \in [1 .. m -> Nat \ {0}]
        /\ \A i \in 1 .. m : s[i] = s[i - 1] + sizes[i]
    BY Totals DEF Divisible
  <1>2. skip \in 0 .. 1 /\ U \in Nat /\ m \in Nat
    BY DEF Divisible
  <1>3. \A i \in 1 .. m : sizes[i] <= U /\ (skip = 1 => sizes[i] <= U \div 4)
    <2>1. U \div 4 <= U
      BY <1>2
    <2>2. \A i \in 1 .. m : sizes[i] <= IF skip = 1 THEN U \div 4 ELSE U
      BY DEF Divisible
    <2>3. \A i \in 1 .. m : sizes[i] \in Nat
      BY <1>1
    <2>4. U \div 4 \in Nat
      BY <1>2
    <2> QED BY <1>2, <2>1, <2>2, <2>3, <2>4
  <1>4. s[upto + 1] - s[from] > U
    BY DEF Held
  <1> HIDE DEF s, m
  <1>5. upto < m
    BY DEF m
  <1>6. from # upto
    <2>1. SUFFICES ASSUME from = upto PROVE FALSE
      OBVIOUS
    <2>2. upto + 1 \in 1 .. m /\ (upto + 1) - 1 = upto /\ upto \in 0 .. m
      BY <1>2, <1>5
    <2>3. s[upto + 1] = s[upto] + sizes[upto + 1] /\ sizes[upto + 1] <= U
          /\ sizes[upto + 1] \in Nat /\ s[upto] \in Nat
      BY <1>1, <1>3, <2>2
    <2> QED BY <1>2, <1>4, <2>1, <2>3
  <1>7. CASE skip = 0
    BY <1>6, <1>7
  <1>8. CASE skip = 1
    <2>1. SUFFICES ASSUME upto = from + 1 PROVE FALSE
      BY <1>6, <1>8
    <2>2. /\ upto + 1 \in 1 .. m /\ (upto + 1) - 1 = upto /\ upto \in 1 .. m /\ upto - 1 = from
          /\ from \in 0 .. m
      BY <1>2, <1>5, <2>1
    <2>3. /\ s[upto + 1] = s[upto] + sizes[upto + 1] /\ s[upto] = s[from] + sizes[upto]
          /\ sizes[upto + 1] <= U \div 4 /\ sizes[upto] <= U \div 4
          /\ sizes[upto + 1] \in Nat /\ sizes[upto] \in Nat /\ s[from] \in Nat
      BY <1>1, <1>3, <1>8, <2>2
    <2>4. 2 * (U \div 4) <= U /\ U \div 4 \in Nat
      BY <1>2
    <2> QED BY <1>2, <1>4, <2>3, <2>4
  <1> QED BY <1>2, <1>7, <1>8

\* Cells are divided among pages that they fit.
LEMMA DivideIs ==
    ASSUME NEW sizes, NEW skip, Divisible(sizes, skip)
    PROVE  Divided(sizes, skip, Divide(sizes, skip))
  <1> DEFINE s == Sums(sizes)
             m == Len(sizes)
             cnt == FillFromLeft(sizes, skip)
             k == Len(cnt)
             e == EvenEnds(sizes, cnt, skip)
             start(i) == StartOf(cnt, skip, i)
             res == [i \in 1 .. k |-> e[k - i]]
  <1>1. skip \in 0 .. 1 /\ U \in Nat /\ m \in Nat /\ sizes \in Seq(Nat \ {0})
    BY DEF Divisible
  <1>2. /\ s \in [0 .. m -> Nat]
        /\ \A i, j \in 0 .. m : i < j => s[i] < s[j]
    BY Totals DEF Divisible
  <1>3. \A i \in 1 .. m : sizes[i] <= U
    <2>1. U \div 4 <= U /\ U \div 4 \in Nat
      BY <1>1
    <2>2. \A i \in 1 .. m : sizes[i] <= IF skip = 1 THEN U \div 4 ELSE U
      BY DEF Divisible
    <2>3. \A i \in 1 .. m : sizes[i] \in Nat
      BY <1>1
    <2> QED BY <1>1, <2>1, <2>2, <2>3
  <1>4. Filling(sizes, skip, cnt)
    BY <1>1, <1>3, FillFromLeftIs
  <1> HIDE DEF cnt
  <1>5. /\ cnt \in Seq(0 .. m) /\ k \in Nat /\ k >= 1 /\ cnt[k] = m
        /\ \A i \in 1 .. k : cnt[i] \in 0 .. m
        /\ \A i \in 1 .. k : start(i) <= cnt[i] /\ Held(sizes, start(i), cnt[i]) <= U
        /\ \A i \in 1 .. k - 1 : cnt[i] < m /\ Held(sizes, start(i), cnt[i] + 1) > U
    BY <1>4 DEF Filling
  <1>6. e = EvenOf(sizes, cnt, skip, e)
    BY <1>1, <1>5, EvenEndsAre
  <1>7. Divide(sizes, skip) = res
    BY DEF Divide, EvenOut, EvenEnds, EvenOf, StartOf, cnt, e
  <1> HIDE DEF e, s, m, k, start
  <1>8. /\ e[0] = m
        /\ \A j \in 1 .. k - 1 :
              e[j] = GiveToRight(sizes, start(k - j), cnt[k - j], e[j - 1], skip)
    <2>1. \A j \in 0 .. k - 1 : e[j] = EvenOf(sizes, cnt, skip, e)[j]
      BY <1>6
    <2>2. k = Len(cnt)
      BY DEF k
    <2> QED BY <1>5, <2>1, <2>2 DEF EvenOf, start
  \* Held and its bounds.
  <1>9. ASSUME NEW a \in 0 .. m, NEW b \in 0 .. m, NEW c \in 0 .. m, b <= c
        PROVE  Held(sizes, a, b) <= Held(sizes, a, c)
    <2>1. s[a] \in Nat /\ s[b] \in Nat /\ s[c] \in Nat /\ (b = c \/ s[b] < s[c])
      <3>1. b < c \/ b = c
        BY <1>1, <1>9
      <3> QED BY <1>2, <3>1
    <2>2. s[b] - s[a] <= s[c] - s[a]
      BY <2>1
    <2> QED BY <2>2 DEF Held, s
  <1>10. ASSUME NEW a \in 0 .. m, NEW b \in 0 .. m PROVE Held(sizes, a, b) \in Int
    <2>1. s[a] \in Nat /\ s[b] \in Nat
      BY <1>2
    <2> QED BY <2>1 DEF Held, s
  <1>11. \A i \in 1 .. k : start(i) \in 0 .. m
    <2>1. ASSUME NEW i \in 1 .. k PROVE start(i) \in 0 .. m
      <3>1. CASE i = 1
        BY <1>1, <3>1 DEF start, StartOf
      <3>2. CASE i # 1
        <4>1. i - 1 \in 1 .. k - 1 /\ i - 1 \in 1 .. k
          BY <1>5, <3>2
        <4>2. cnt[i - 1] < m /\ cnt[i - 1] \in 0 .. m
          BY <1>5, <4>1
        <4> QED BY <1>1, <3>2, <4>2 DEF start, StartOf
      <3> QED BY <3>1, <3>2
    <2> QED BY <2>1
  \* What the page with j pages to its right keeps.
  <1> DEFINE Kept(j) ==
               /\ e[j] \in 0 .. cnt[k - j]
               /\ start(k - j) <= e[j] /\ (j # 0 => start(k - j) < e[j])
               /\ j # 0 => /\ e[j] + skip < e[j - 1]
                           /\ Held(sizes, e[j] + skip, e[j - 1]) <= U
  <1>12. \A j \in 0 .. k - 1 : Kept(j)
    <2> DEFINE T == {j \in 0 .. k - 1 : ~Kept(j)}
    <2>1. SUFFICES ASSUME T # {} PROVE FALSE
      OBVIOUS
    <2>2. PICK j \in T : \A i \in T : j <= i
      <3>1. T \subseteq Nat
        BY <1>5
      <3> HIDE DEF T
      <3> QED BY <2>1, <3>1, LeastOf
    <2>3. j \in 0 .. k - 1 /\ ~Kept(j)
      BY <2>2
    <2>4. j # 0
      <3>1. SUFFICES ASSUME j = 0 PROVE FALSE
        OBVIOUS
      <3>2. k - j = k /\ k \in 1 .. k
        BY <1>5, <3>1
      <3>3. start(k) <= cnt[k] /\ e[j] = cnt[k] /\ cnt[k] \in 0 .. cnt[k]
        BY <1>1, <1>5, <1>8, <3>1, <3>2
      <3>4. Kept(j)
        BY <3>1, <3>2, <3>3
      <3> QED BY <2>3, <3>4
    <2>5. j - 1 \in 0 .. k - 1 /\ j - 1 < j
      BY <1>5, <2>3, <2>4
    <2>6. Kept(j - 1)
      <3>1. j - 1 \notin T
        <4>1. ~(j <= j - 1)
          BY <2>3
        <4> HIDE DEF T
        <4> QED BY <2>2, <4>1
      <3> QED BY <2>5, <3>1
    <2> DEFINE i == k - j
               from == start(i)
               upto == cnt[i]
               end == e[j - 1]
    <2>7. i \in 1 .. k - 1 /\ i + 1 \in 1 .. k /\ k - (j - 1) = i + 1 /\ i \in 1 .. k
      BY <1>5, <2>3, <2>4
    <2>8. start(i + 1) = upto + skip
      <3>1. (i + 1) - 1 = i /\ i + 1 # 1
        BY <2>7
      <3> QED BY <3>1 DEF start, StartOf
    <2>9. /\ end \in 0 .. cnt[i + 1] /\ start(i + 1) <= end
          /\ (j - 1 # 0 => start(i + 1) < end) /\ (j - 1 = 0 => end = m)
      BY <1>8, <2>6, <2>7
    <2>10. cnt[i + 1] \in 0 .. m /\ upto \in 0 .. m /\ upto < m /\ from \in 0 .. m /\ from <= upto
      BY <1>5, <1>11, <2>7
    <2>11. /\ Held(sizes, from, upto) <= U /\ Held(sizes, from, upto + 1) > U
           /\ Held(sizes, start(i + 1), cnt[i + 1]) <= U
      BY <1>5, <2>7
    <2> HIDE DEF i, from, upto, end, Kept
    <2>12. end \in 0 .. m /\ upto < end
      <3>1. end \in Nat /\ end <= m
        BY <1>1, <2>9, <2>10
      <3>2. upto + skip <= end /\ (j - 1 # 0 => upto + skip < end)
        BY <2>8, <2>9
      <3>3. upto < end
        BY <1>1, <2>9, <2>10, <3>1, <3>2
      <3> QED BY <1>1, <3>1, <3>3
    <2>13. Held(sizes, upto + skip, end) <= U
      <3>1. upto + skip \in 0 .. m
        BY <1>1, <2>10
      <3>2. end <= cnt[i + 1]
        BY <2>9
      <3>3. Held(sizes, upto + skip, end) <= Held(sizes, upto + skip, cnt[i + 1])
        BY <1>9, <2>10, <2>12, <3>1, <3>2
      <3>4. /\ Held(sizes, upto + skip, end) \in Int
            /\ Held(sizes, upto + skip, cnt[i + 1]) \in Int
        BY <1>10, <2>10, <2>12, <3>1
      <3>5. Held(sizes, upto + skip, cnt[i + 1]) <= U
        BY <2>8, <2>11
      <3> QED BY <1>1, <3>3, <3>4, <3>5
    <2>14. from + 1 + skip <= upto
      <3>1. from \in Nat /\ upto \in Nat /\ from <= upto /\ upto < Len(sizes)
        BY <1>1, <2>10 DEF m
      <3> QED BY <2>11, <3>1, FullPage
    <2>15. Givable(sizes, skip, from, upto, end)
      <3>1. from \in Nat /\ upto \in Nat /\ end \in Nat /\ end <= Len(sizes)
        BY <1>1, <2>10, <2>12 DEF m
      <3> QED BY <1>1, <1>3, <2>11, <2>12, <2>13, <2>14, <3>1 DEF Givable, m
    <2>16. e[j] = GiveToRight(sizes, from, upto, end, skip)
      BY <1>8, <2>3, <2>4, <1>5 DEF i, from, upto, end
    <2>17. e[j] \in from + 1 .. upto /\ e[j] + skip < end /\ Held(sizes, e[j] + skip, end) <= U
      BY <2>15, <2>16, GiveToRightIs
    <2>18. Kept(j)
      <3>1. e[j] \in 0 .. upto /\ from <= e[j] /\ from < e[j]
        BY <2>10, <2>17, <1>1
      <3> QED BY <2>17, <3>1 DEF Kept, i, from, upto, end
    <2> QED BY <2>3, <2>18
  <1>13. /\ res \in Seq(0 .. m) /\ Len(res) = k /\ \A i \in 1 .. k : res[i] = e[k - i]
         /\ \A i \in 1 .. k : k - i \in 0 .. k - 1 /\ cnt[i] \in 0 .. m /\ res[i] \in 0 .. cnt[i]
    <2>1. ASSUME NEW i \in 1 .. k
          PROVE  k - i \in 0 .. k - 1 /\ cnt[i] \in 0 .. m /\ e[k - i] \in 0 .. cnt[i] /\ e[k - i] \in 0 .. m
      <3>1. k - i \in 0 .. k - 1 /\ k - (k - i) = i /\ cnt[i] \in 0 .. m
        BY <1>5
      <3>2. e[k - i] \in 0 .. cnt[i]
        BY <1>12, <3>1
      <3> QED BY <1>1, <3>1, <3>2
    <2> HIDE DEF Kept
    <2>2. res \in Seq(0 .. m) /\ Len(res) = k
      BY <1>5, <2>1
    <2> QED BY <2>1, <2>2
  <1>14. res[k] = m
    <2>1. k \in 1 .. k /\ k - k = 0
      BY <1>5
    <2> QED BY <1>8, <1>13, <2>1
  <1>15. ASSUME NEW i \in 1 .. k
         PROVE  LET from == StartOf(res, skip, i) IN
                /\ from <= res[i] /\ (m > 0 => from < res[i])
                /\ Held(sizes, from, res[i]) <= U
    <2>1. CASE i # 1
      <3> DEFINE j == k - (i - 1)
      <3>1. i - 1 \in 1 .. k /\ j \in 0 .. k - 1 /\ j # 0 /\ j - 1 = k - i
        BY <1>5, <2>1
      <3>2. res[i - 1] = e[j] /\ res[i] = e[j - 1]
        BY <1>13, <3>1
      <3> HIDE DEF j
      <3>3. e[j] + skip < e[j - 1] /\ Held(sizes, e[j] + skip, e[j - 1]) <= U
        BY <1>12, <3>1
      <3>4. StartOf(res, skip, i) = e[j] + skip
        BY <2>1, <3>2 DEF StartOf
      <3>5. e[j] \in Nat /\ e[j - 1] \in Nat
        BY <1>13, <3>1, <3>2
      <3> QED BY <1>1, <3>2, <3>3, <3>4, <3>5
    <2>2. CASE i = 1
      <3>1. StartOf(res, skip, i) = 0 /\ start(1) = 0 /\ 1 \in 1 .. k
        BY <1>5, <2>2 DEF StartOf, start
      <3>2. res[1] \in 0 .. cnt[1] /\ cnt[1] \in 0 .. m
        BY <1>13, <3>1
      <3>3. Held(sizes, 0, res[1]) <= U
        <4>1. Held(sizes, 0, cnt[1]) <= U
          BY <1>5, <3>1
        <4>2. 0 \in 0 .. m /\ res[1] \in 0 .. m /\ res[1] <= cnt[1]
          BY <1>1, <3>2
        <4>3. Held(sizes, 0, res[1]) <= Held(sizes, 0, cnt[1])
          BY <1>9, <3>2, <4>2
        <4>4. Held(sizes, 0, res[1]) \in Int /\ Held(sizes, 0, cnt[1]) \in Int
          BY <1>10, <3>2, <4>2
        <4> QED BY <1>1, <4>1, <4>3, <4>4
      <3>4. m > 0 => 0 < res[1]
        <4>1. CASE k = 1
          BY <1>14, <4>1
        <4>2. CASE k # 1
          <5>1. k - 1 \in 0 .. k - 1 /\ k - 1 # 0 /\ k - (k - 1) = 1
            BY <1>5, <4>2
          <5>2. start(1) < e[k - 1]
            BY <1>12, <5>1
          <5> QED BY <1>13, <3>1, <5>2
        <4> QED BY <4>1, <4>2
      <3> QED BY <2>2, <3>1, <3>2, <3>3, <3>4
    <2> QED BY <2>1, <2>2
  <1> HIDE DEF res
  <1>16. Divided(sizes, skip, res)
    BY <1>5, <1>13, <1>14, <1>15 DEF Divided, m
  <1> QED BY <1>7, <1>16

CellType == [key : Keys, sz : Nat \ {0}, ovf : Seq(Nat), left : Nat]

\* Two runs of the same sizes take the same.
SameRun(s, a, t, b, n) ==
    /\ s \in Seq(Nat \ {0}) /\ t \in Seq(Nat \ {0}) /\ a \in Nat /\ b \in Nat /\ n \in Nat
    /\ a + n <= Len(s) /\ b + n <= Len(t)
    /\ \A j \in 1 .. n : s[a + j] = t[b + j]

\* Equal runs of sizes take the same.
LEMMA SameHeld ==
    ASSUME NEW s, NEW a, NEW t, NEW b, NEW n, SameRun(s, a, t, b, n)
    PROVE  Held(s, a, a + n) = Held(t, b, b + n)
  <1> DEFINE S == Sums(s)
             R == Sums(t)
             T == {j \in 0 .. n : S[a + j] - S[a] # R[b + j] - R[b]}
  <1>1. /\ a \in Nat /\ b \in Nat /\ n \in Nat /\ Len(s) \in Nat /\ Len(t) \in Nat
        /\ a + n <= Len(s) /\ b + n <= Len(t)
    BY DEF SameRun
  <1>2. /\ S \in [0 .. Len(s) -> Nat] /\ R \in [0 .. Len(t) -> Nat]
        /\ \A i \in 1 .. Len(s) : S[i] = S[i - 1] + s[i] /\ s[i] \in Nat
        /\ \A i \in 1 .. Len(t) : R[i] = R[i - 1] + t[i] /\ t[i] \in Nat
    BY Totals DEF SameRun
  <1>3. \A j \in 1 .. n : s[a + j] = t[b + j]
    BY DEF SameRun
  <1> HIDE DEF S, R
  <1>4. T = {}
    <2>1. SUFFICES ASSUME T # {} PROVE FALSE
      OBVIOUS
    <2>2. PICK j \in T : \A i \in T : j <= i
      <3>1. T \subseteq Nat
        BY <1>1
      <3> HIDE DEF T
      <3> QED BY <2>1, <3>1, LeastOf
    <2>3. j \in 0 .. n /\ S[a + j] - S[a] # R[b + j] - R[b]
      BY <2>2
    <2>4. a \in 0 .. Len(s) /\ b \in 0 .. Len(t)
      BY <1>1
    <2>5. S[a] \in Nat /\ R[b] \in Nat
      BY <1>2, <2>4
    <2>6. j # 0
      <3>1. SUFFICES ASSUME j = 0 PROVE FALSE
        OBVIOUS
      <3>2. a + j = a /\ b + j = b
        BY <1>1, <3>1
      <3> QED BY <2>3, <2>5, <3>2
    <2>7. /\ j - 1 \in 0 .. n /\ a + j \in 1 .. Len(s) /\ b + j \in 1 .. Len(t) /\ j \in 1 .. n
          /\ (a + j) - 1 = a + (j - 1) /\ (b + j) - 1 = b + (j - 1)
          /\ a + (j - 1) \in 0 .. Len(s) /\ b + (j - 1) \in 0 .. Len(t)
      BY <1>1, <2>3, <2>6
    <2>8. S[a + (j - 1)] - S[a] = R[b + (j - 1)] - R[b]
      <3>1. j - 1 \notin T
        <4>1. ~(j <= j - 1)
          BY <2>3
        <4> HIDE DEF T
        <4> QED BY <2>2, <4>1
      <3> QED BY <2>7, <3>1
    <2>9. S[a + j] = S[a + (j - 1)] + s[a + j] /\ R[b + j] = R[b + (j - 1)] + t[b + j]
      BY <1>2, <2>7
    <2>10. /\ s[a + j] = t[b + j] /\ s[a + j] \in Nat
           /\ S[a + (j - 1)] \in Nat /\ R[b + (j - 1)] \in Nat
      BY <1>2, <1>3, <2>7
    <2> QED BY <2>3, <2>5, <2>8, <2>9, <2>10
  <1>5. n \in 0 .. n
    BY <1>1
  <1> QED BY <1>4, <1>5 DEF Held, S, R

\* What the cells of a page take.
Taken(cells) == Total(Sizes(cells))

\* The sizes of cells, one each.
LEMMA SizesAre ==
    ASSUME NEW cells \in Seq(CellType)
    PROVE  /\ Sizes(cells) \in Seq(Nat \ {0}) /\ Len(Sizes(cells)) = Len(cells)
           /\ \A j \in 1 .. Len(cells) : Sizes(cells)[j] = cells[j].sz /\ cells[j].sz \in Nat \ {0}
  <1>1. \A j \in 1 .. Len(cells) : cells[j].sz \in Nat \ {0}
    <2>1. \A j \in 1 .. Len(cells) : cells[j] \in CellType
      OBVIOUS
    <2> QED BY <2>1 DEF CellType
  <1> QED BY <1>1 DEF Sizes

\* What cells take, in parts.
LEMMA TakenParts ==
    ASSUME NEW cells \in Seq(CellType)
    PROVE  /\ Taken(cells) \in Nat /\ Taken(cells) = Held(Sizes(cells), 0, Len(cells))
           /\ \A a, b, c \in 0 .. Len(cells) :
                 /\ Held(Sizes(cells), a, b) \in Int
                 /\ a <= b => Held(Sizes(cells), a, b) \in Nat
                 /\ a < b => Held(Sizes(cells), a, b) > 0
                 /\ Held(Sizes(cells), a, b) + Held(Sizes(cells), b, c) = Held(Sizes(cells), a, c)
           /\ \A i \in 1 .. Len(cells) : Held(Sizes(cells), i - 1, i) = cells[i].sz
           /\ cells # << >> => Taken(cells) > 0
  <1> DEFINE s == Sums(Sizes(cells))
             m == Len(cells)
  <1>1. /\ s \in [0 .. m -> Nat] /\ s[0] = 0 /\ m \in Nat
        /\ \A i \in 1 .. m : s[i] = s[i - 1] + cells[i].sz /\ cells[i].sz \in Nat
        /\ \A i, j \in 0 .. m : i < j => s[i] < s[j]
    BY SizesAre, Totals
  <1>2. Taken(cells) = s[m]
    BY SizesAre DEF Taken, Total
  <1>3. cells # << >> => m > 0
    OBVIOUS
  <1>4. \A a, b : Held(Sizes(cells), a, b) = s[b] - s[a]
    BY DEF Held
  <1> HIDE DEF s, m
  <1>5. 0 \in 0 .. m /\ m \in 0 .. m /\ s[m] \in Nat
    BY <1>1
  <1>6. ASSUME NEW a \in 0 .. m, NEW b \in 0 .. m, NEW c \in 0 .. m
        PROVE  /\ s[a] \in Nat /\ s[b] \in Nat /\ s[c] \in Nat
               /\ a < b => s[a] < s[b]
               /\ a = b => s[a] = s[b]
               /\ a <= b => a < b \/ a = b
    <2>1. a <= b => a < b \/ a = b
      BY <1>1
    <2> QED BY <1>1, <2>1
  <1>7. ASSUME NEW a \in 0 .. m, NEW b \in 0 .. m, NEW c \in 0 .. m
        PROVE  /\ s[b] - s[a] \in Int
               /\ a <= b => s[b] - s[a] \in Nat
               /\ a < b => s[b] - s[a] > 0
               /\ (s[b] - s[a]) + (s[c] - s[b]) = s[c] - s[a]
    BY <1>6
  <1>8. ASSUME NEW i \in 1 .. m PROVE s[i] - s[i - 1] = cells[i].sz
    <2>1. i - 1 \in 0 .. m
      BY <1>1
    <2>2. s[i - 1] \in Nat /\ s[i] = s[i - 1] + cells[i].sz /\ cells[i].sz \in Nat
      BY <1>1, <2>1
    <2> QED BY <2>2
  <1>9. cells # << >> => s[m] > 0
    BY <1>1, <1>3, <1>5
  <1>10. s[m] = s[m] - s[0]
    BY <1>1, <1>5
  <1> DEFINE H(a, b) == Held(Sizes(cells), a, b)
  <1>11. Taken(cells) \in Nat /\ Taken(cells) = H(0, m)
    BY <1>2, <1>4, <1>5, <1>10
  <1>12. \A a, b, c \in 0 .. m :
            /\ H(a, b) \in Int /\ (a <= b => H(a, b) \in Nat) /\ (a < b => H(a, b) > 0)
            /\ H(a, b) + H(b, c) = H(a, c)
    <2>1. \A a, b : H(a, b) = s[b] - s[a]
      BY <1>4
    <2> HIDE DEF H
    <2> QED BY <1>7, <2>1
  <1>13. \A i \in 1 .. m : H(i - 1, i) = cells[i].sz
    BY <1>4, <1>8
  <1>14. cells # << >> => Taken(cells) > 0
    BY <1>2, <1>9
  <1> QED BY <1>11, <1>12, <1>13, <1>14 DEF m

\* Runs of cells of the same sizes.
SameCells(cells, a, t, b, n) ==
    /\ cells \in Seq(CellType) /\ t \in Seq(CellType)
    /\ a \in Nat /\ b \in Nat /\ n \in Nat /\ a + n <= Len(cells) /\ b + n <= Len(t)
    /\ \A j \in 1 .. n : cells[a + j].sz = t[b + j].sz

\* Equal runs of cells take the same.
LEMMA SameTaken ==
    ASSUME NEW cells, NEW a, NEW t, NEW b, NEW n, SameCells(cells, a, t, b, n)
    PROVE  Held(Sizes(cells), a, a + n) = Held(Sizes(t), b, b + n)
  <1>1. /\ Sizes(cells) \in Seq(Nat \ {0}) /\ Len(Sizes(cells)) = Len(cells)
        /\ \A j \in 1 .. Len(cells) : Sizes(cells)[j] = cells[j].sz
    BY SizesAre DEF SameCells
  <1>2. /\ Sizes(t) \in Seq(Nat \ {0}) /\ Len(Sizes(t)) = Len(t)
        /\ \A j \in 1 .. Len(t) : Sizes(t)[j] = t[j].sz
    BY SizesAre DEF SameCells
  <1>3. \A j \in 1 .. n : a + j \in 1 .. Len(cells) /\ b + j \in 1 .. Len(t)
    BY DEF SameCells
  <1>4. SameRun(Sizes(cells), a, Sizes(t), b, n)
    BY <1>1, <1>2, <1>3 DEF SameRun, SameCells
  <1> QED BY <1>4, SameHeld

\* A part of a sequence, its length and elements.
LEMMA PartOfCells ==
    ASSUME NEW S, NEW cells \in Seq(S), NEW a \in 0 .. Len(cells), NEW b \in 0 .. Len(cells), a <= b
    PROVE  LET t == SubSeq(cells, a + 1, b) IN
           t \in Seq(S) /\ Len(t) = b - a /\ \A j \in 1 .. b - a : t[j] = cells[a + j]
  <1>1. a + 1 \in Nat /\ b \in Nat /\ a \in Nat /\ Len(cells) \in Nat
    OBVIOUS
  <1>2. \A j \in a + 1 .. b : cells[j] \in S
    BY <1>1
  <1>3. SubSeq(cells, a + 1, b) \in Seq(S)
    BY <1>1, <1>2
  <1> QED BY <1>1, <1>3

\* What a part of the cells takes.
LEMMA TakenOfPart ==
    ASSUME NEW cells \in Seq(CellType), NEW a \in 0 .. Len(cells), NEW b \in 0 .. Len(cells), a <= b
    PROVE  Taken(SubSeq(cells, a + 1, b)) = Held(Sizes(cells), a, b)
  <1> DEFINE t == SubSeq(cells, a + 1, b)
             n == b - a
  <1>1. t \in Seq(CellType) /\ Len(t) = n /\ \A j \in 1 .. n : t[j] = cells[a + j]
    BY PartOfCells
  <1>2. n \in Nat /\ a \in Nat /\ a + n = b /\ a + n <= Len(cells) /\ 0 + n <= Len(t) /\ 0 + n = n
    BY <1>1
  <1>3. \A j \in 1 .. n : cells[a + j].sz = t[0 + j].sz
    <2>1. \A j \in 1 .. n : 0 + j = j
      BY <1>2
    <2> HIDE DEF t, n
    <2> QED BY <1>1, <2>1
  <1>4. Taken(t) = Held(Sizes(t), 0, Len(t))
    BY <1>1, TakenParts
  <1> HIDE DEF t, n
  <1>5. Held(Sizes(cells), a, a + n) = Held(Sizes(t), 0, 0 + n)
    <2>1. SameCells(cells, a, t, 0, n)
      BY <1>1, <1>2, <1>3 DEF SameCells
    <2> QED BY <2>1, SameTaken
  <1> QED BY <1>1, <1>2, <1>4, <1>5 DEF t

\* A cell taken out, put in, replaced or added.
LEMMA Removed ==
    ASSUME NEW S, NEW cells \in Seq(S), NEW i \in 1 .. Len(cells)
    PROVE  LET t == RemoveAt(cells, i) IN
           /\ t \in Seq(S) /\ Len(t) = Len(cells) - 1
           /\ \A j \in 1 .. Len(cells) - 1 : t[j] = IF j < i THEN cells[j] ELSE cells[j + 1]
  <1> DEFINE n == Len(cells)
             x == SubSeq(cells, 1, i - 1)
             y == SubSeq(cells, i + 1, n)
  <1>1. n \in Nat /\ i \in Nat /\ i - 1 \in 0 .. n /\ 0 \in 0 .. n /\ i \in 0 .. n /\ n \in 0 .. n /\ i <= n
        /\ 0 + 1 = 1
    OBVIOUS
  <1>2. /\ x \in Seq(S) /\ Len(x) = i - 1
        /\ \A j \in 1 .. i - 1 : x[j] = cells[j]
    <2>1. LET t == SubSeq(cells, 0 + 1, i - 1) IN
          t \in Seq(S) /\ Len(t) = (i - 1) - 0 /\ \A j \in 1 .. (i - 1) - 0 : t[j] = cells[0 + j]
      BY <1>1, PartOfCells
    <2>2. \A j \in 1 .. i - 1 : 0 + j = j
      BY <1>1
    <2>3. (i - 1) - 0 = i - 1
      BY <1>1
    <2> QED BY <1>1, <2>1, <2>2, <2>3
  <1>3. /\ y \in Seq(S) /\ Len(y) = n - i
        /\ \A j \in 1 .. n - i : y[j] = cells[i + j]
    BY <1>1, PartOfCells
  <1> HIDE DEF x, y, n
  <1>4. RemoveAt(cells, i) = x \o y
    BY DEF RemoveAt, x, y, n
  <1>5. x \o y \in Seq(S) /\ Len(x \o y) = n - 1
    <2>0. x \in Seq(S) /\ y \in Seq(S)
      BY <1>2, <1>3
    <2>1. x \o y \in Seq(S) /\ Len(x \o y) = Len(x) + Len(y)
      BY <2>0
    <2> QED BY <1>1, <1>2, <1>3, <2>1
  <1>6. ASSUME NEW j \in 1 .. n - 1
        PROVE  (x \o y)[j] = IF j < i THEN cells[j] ELSE cells[j + 1]
    <2>1. CASE j < i
      <3>1. j \in 1 .. i - 1
        BY <1>1, <2>1
      <3> QED BY <1>2, <1>3, <2>1, <3>1
    <2>2. CASE ~(j < i)
      <3>1. j - (i - 1) \in 1 .. n - i /\ i + (j - (i - 1)) = j + 1
        BY <1>1, <2>2
      <3>2. (x \o y)[j] = y[j - (i - 1)]
        BY <1>1, <1>2, <1>3, <2>2, <3>1
      <3> QED BY <1>3, <2>2, <3>1, <3>2
    <2> QED BY <2>1, <2>2
  <1> QED BY <1>4, <1>5, <1>6 DEF n

IsInserted(t, cells, i, c) ==
    /\ Len(t) = Len(cells) + 1
    /\ \A j \in 1 .. Len(cells) + 1 :
          t[j] = IF j < i THEN cells[j] ELSE IF j = i THEN c ELSE cells[j - 1]

\* InsertAt puts one cell in and moves those after it.
LEMMA Inserted ==
    ASSUME NEW S, NEW cells \in Seq(S), NEW i \in 1 .. Len(cells) + 1, NEW c \in S
    PROVE  /\ InsertAt(cells, i, c) \in Seq(S)
           /\ IsInserted(InsertAt(cells, i, c), cells, i, c)
  <1> DEFINE n == Len(cells)
             x == SubSeq(cells, 1, i - 1)
             y == SubSeq(cells, i, n)
             z == x \o <<c>>
  <1>1. /\ n \in Nat /\ i \in Nat /\ i - 1 \in 0 .. n /\ 0 \in 0 .. n /\ n \in 0 .. n /\ i - 1 <= n
        /\ 0 + 1 = 1 /\ (i - 1) + 1 = i
    OBVIOUS
  <1>2. /\ x \in Seq(S) /\ Len(x) = i - 1
        /\ \A j \in 1 .. i - 1 : x[j] = cells[j]
    <2>1. LET t == SubSeq(cells, 0 + 1, i - 1) IN
          t \in Seq(S) /\ Len(t) = (i - 1) - 0 /\ \A j \in 1 .. (i - 1) - 0 : t[j] = cells[0 + j]
      BY <1>1, PartOfCells
    <2>2. \A j \in 1 .. i - 1 : 0 + j = j
      BY <1>1
    <2>3. (i - 1) - 0 = i - 1
      BY <1>1
    <2> QED BY <1>1, <2>1, <2>2, <2>3
  <1>3. /\ y \in Seq(S) /\ Len(y) = n - (i - 1)
        /\ \A j \in 1 .. n - (i - 1) : y[j] = cells[(i - 1) + j]
    <2>1. LET t == SubSeq(cells, (i - 1) + 1, n) IN
          t \in Seq(S) /\ Len(t) = n - (i - 1) /\ \A j \in 1 .. n - (i - 1) : t[j] = cells[(i - 1) + j]
      BY <1>1, PartOfCells
    <2> QED BY <1>1, <2>1
  <1> HIDE DEF x, y, n
  <1>4. InsertAt(cells, i, c) = z \o y
    BY DEF InsertAt, x, y, n
  <1>5. /\ z \in Seq(S) /\ Len(z) = i /\ z[i] = c
        /\ \A j \in 1 .. i - 1 : z[j] = cells[j]
    BY <1>1, <1>2, SMTT(30)
  <1> HIDE DEF z
  <1>6. z \o y \in Seq(S) /\ Len(z \o y) = n + 1
    <2>0. z \in Seq(S) /\ y \in Seq(S)
      BY <1>3, <1>5
    <2>1. z \o y \in Seq(S) /\ Len(z \o y) = Len(z) + Len(y)
      BY <2>0
    <2> QED BY <1>1, <1>3, <1>5, <2>1
  <1>7. ASSUME NEW j \in 1 .. n + 1
        PROVE  (z \o y)[j] = IF j < i THEN cells[j] ELSE IF j = i THEN c ELSE cells[j - 1]
    <2>1. CASE j <= i
      <3>1. j \in 1 .. i /\ (j < i => j \in 1 .. i - 1) /\ (~(j < i) => j = i)
        BY <1>1, <2>1
      <3>2. (z \o y)[j] = z[j]
        BY <1>1, <1>3, <1>5, <3>1
      <3> QED BY <1>5, <3>1, <3>2
    <2>2. CASE ~(j <= i)
      <3>1. j - i \in 1 .. n - (i - 1) /\ (i - 1) + (j - i) = j - 1
        BY <1>1, <2>2
      <3>2. (z \o y)[j] = y[j - i]
        BY <1>1, <1>3, <1>5, <2>2, <3>1
      <3>3. ~(j < i) /\ j # i
        BY <1>1, <2>2
      <3> QED BY <1>3, <3>1, <3>2, <3>3
    <2> QED BY <2>1, <2>2
  <1> QED BY <1>4, <1>6, <1>7 DEF n, IsInserted

\* Cells that differ from others between p and q, where those have p to r.
Spliced(cells, t, p, q, r) ==
    /\ cells \in Seq(CellType) /\ t \in Seq(CellType)
    /\ p \in Nat /\ q \in Nat /\ r \in Nat /\ p <= q /\ p <= r
    /\ q <= Len(cells) /\ r <= Len(t) /\ Len(cells) - q = Len(t) - r
    /\ \A j \in 1 .. p : cells[j].sz = t[j].sz
    /\ \A j \in 1 .. Len(cells) - q : cells[q + j].sz = t[r + j].sz

\* When a run of cells is replaced, the others take what they took.
LEMMA SplicedTaken ==
    ASSUME NEW cells, NEW t, NEW p, NEW q, NEW r, Spliced(cells, t, p, q, r)
    PROVE  /\ Taken(cells) \in Nat /\ Taken(t) \in Nat
           /\ Held(Sizes(cells), p, q) \in Nat /\ Held(Sizes(t), p, r) \in Nat
           /\ Taken(cells) - Held(Sizes(cells), p, q) = Taken(t) - Held(Sizes(t), p, r)
  <1> DEFINE H(a, b) == Held(Sizes(cells), a, b)
             K(a, b) == Held(Sizes(t), a, b)
             m == Len(cells)
             n == Len(t)
  <1>1. /\ p \in Nat /\ q \in Nat /\ r \in Nat /\ m \in Nat /\ n \in Nat
        /\ p <= q /\ p <= r /\ q <= m /\ r <= n /\ m - q = n - r
    BY DEF Spliced
  <1>2. cells \in Seq(CellType) /\ t \in Seq(CellType)
    BY DEF Spliced
  <1>3. H(0, p) = K(0, p)
    <2>1. \A j \in 1 .. p : cells[0 + j].sz = t[0 + j].sz
      <3>1. \A j \in 1 .. p : 0 + j = j
        BY <1>1
      <3> QED BY <3>1 DEF Spliced
    <2>2. 0 \in Nat /\ 0 + p <= m /\ 0 + p <= n /\ 0 + p = p
      BY <1>1
    <2>3. SameCells(cells, 0, t, 0, p)
      BY <1>1, <1>2, <2>1, <2>2 DEF SameCells
    <2>4. Held(Sizes(cells), 0, 0 + p) = Held(Sizes(t), 0, 0 + p)
      BY <2>3, SameTaken
    <2> QED BY <2>2, <2>4
  <1>4. H(q, m) = K(r, n)
    <2> DEFINE d == m - q
    <2>1. d \in Nat /\ q + d = m /\ r + d = n /\ q + d <= m /\ r + d <= n
      BY <1>1
    <2>2. \A j \in 1 .. d : cells[q + j].sz = t[r + j].sz
      BY DEF Spliced
    <2> HIDE DEF d
    <2>3. SameCells(cells, q, t, r, d)
      BY <1>1, <1>2, <2>1, <2>2 DEF SameCells
    <2>4. Held(Sizes(cells), q, q + d) = Held(Sizes(t), r, r + d)
      BY <2>3, SameTaken
    <2> QED BY <2>1, <2>4
  <1>5. 0 \in 0 .. m /\ p \in 0 .. m /\ q \in 0 .. m /\ m \in 0 .. m
        /\ 0 \in 0 .. n /\ p \in 0 .. n /\ r \in 0 .. n /\ n \in 0 .. n
    BY <1>1
  <1>6. /\ Taken(cells) \in Nat /\ Taken(cells) = H(0, m)
        /\ H(0, p) + H(p, m) = H(0, m) /\ H(p, q) + H(q, m) = H(p, m)
        /\ H(0, p) \in Int /\ H(p, m) \in Int /\ H(q, m) \in Int /\ H(p, q) \in Nat
    BY <1>1, <1>2, <1>5, TakenParts
  <1>7. /\ Taken(t) \in Nat /\ Taken(t) = K(0, n)
        /\ K(0, p) + K(p, n) = K(0, n) /\ K(p, r) + K(r, n) = K(p, n)
        /\ K(0, p) \in Int /\ K(p, n) \in Int /\ K(r, n) \in Int /\ K(p, r) \in Nat
    BY <1>1, <1>2, <1>5, TakenParts
  <1> HIDE DEF H, K
  <1>8. Taken(cells) - H(p, q) = Taken(t) - K(p, r)
    BY <1>3, <1>4, <1>6, <1>7, SMTT(30)
  <1> QED BY <1>6, <1>7, <1>8 DEF H, K

\* A cell takes what its size is, no cell nothing.
LEMMA HeldOne ==
    ASSUME NEW cells \in Seq(CellType), NEW i \in 1 .. Len(cells)
    PROVE  Held(Sizes(cells), i - 1, i) = cells[i].sz /\ cells[i].sz \in Nat \ {0}
  BY SizesAre, TakenParts

\* No cells take nothing.
LEMMA HeldNone ==
    ASSUME NEW cells \in Seq(CellType), NEW a \in 0 .. Len(cells)
    PROVE  Held(Sizes(cells), a, a) = 0
  <1>1. Held(Sizes(cells), a, a) \in Int
        /\ Held(Sizes(cells), a, a) + Held(Sizes(cells), a, a) = Held(Sizes(cells), a, a)
    BY TakenParts
  <1> QED BY <1>1

\* A removed cell takes its size with it: dropCell.
LEMMA TakenRemoved ==
    ASSUME NEW cells \in Seq(CellType), NEW i \in 1 .. Len(cells)
    PROVE  /\ Taken(RemoveAt(cells, i)) = Taken(cells) - cells[i].sz
           /\ Taken(RemoveAt(cells, i)) \in Nat /\ Taken(cells) \in Nat /\ cells[i].sz \in Nat
  <1> DEFINE t == RemoveAt(cells, i)
             m == Len(cells)
  <1>1. /\ t \in Seq(CellType) /\ Len(t) = m - 1
        /\ \A j \in 1 .. m - 1 : t[j] = IF j < i THEN cells[j] ELSE cells[j + 1]
    BY Removed
  <1>2. m \in Nat /\ i \in Nat /\ i >= 1 /\ i <= m /\ i - 1 \in Nat
    OBVIOUS
  <1> HIDE DEF t, m
  <1>3. ASSUME NEW j \in 1 .. i - 1 PROVE cells[j].sz = t[j].sz
    <2>1. j \in 1 .. m - 1 /\ j < i
      BY <1>2
    <2> QED BY <1>1, <2>1
  <1>4. ASSUME NEW j \in 1 .. m - i PROVE cells[i + j].sz = t[(i - 1) + j].sz
    <2>1. (i - 1) + j \in 1 .. m - 1 /\ ~((i - 1) + j < i) /\ ((i - 1) + j) + 1 = i + j
      BY <1>2
    <2> QED BY <1>1, <2>1
  <1>5. Spliced(cells, t, i - 1, i, i - 1)
    <2>1. Len(cells) = m
      BY DEF m
    <2>2. i - 1 <= i /\ i - 1 <= i - 1 /\ i <= m /\ i - 1 <= m - 1 /\ m - i = (m - 1) - (i - 1)
      BY <1>2
    <2> QED BY <1>1, <1>2, <1>3, <1>4, <2>1, <2>2 DEF Spliced
  <1>6. i - 1 \in 0 .. Len(t)
    BY <1>1, <1>2
  <1>7. Held(Sizes(t), i - 1, i - 1) = 0
    BY <1>1, <1>6, HeldNone
  <1>8. Held(Sizes(cells), i - 1, i) = cells[i].sz /\ cells[i].sz \in Nat
    BY HeldOne
  <1>9. Taken(cells) \in Nat /\ Taken(t) \in Nat
        /\ Taken(cells) - Held(Sizes(cells), i - 1, i) = Taken(t) - Held(Sizes(t), i - 1, i - 1)
    BY <1>5, SplicedTaken
  <1> QED BY <1>7, <1>8, <1>9 DEF t

\* An inserted cell adds its size: insertCell.
LEMMA TakenInserted ==
    ASSUME NEW cells \in Seq(CellType), NEW i \in 1 .. Len(cells) + 1, NEW c \in CellType
    PROVE  /\ Taken(InsertAt(cells, i, c)) = Taken(cells) + c.sz
           /\ Taken(InsertAt(cells, i, c)) \in Nat /\ Taken(cells) \in Nat /\ c.sz \in Nat
  <1> DEFINE t == InsertAt(cells, i, c)
             m == Len(cells)
  <1>1. /\ t \in Seq(CellType) /\ Len(t) = m + 1
        /\ \A j \in 1 .. m + 1 : t[j] = IF j < i THEN cells[j] ELSE IF j = i THEN c ELSE cells[j - 1]
    <2>1. t \in Seq(CellType) /\ IsInserted(t, cells, i, c)
      BY Inserted
    <2> HIDE DEF t
    <2> QED BY <2>1 DEF IsInserted
  <1>2. m \in Nat /\ i \in Nat /\ i >= 1 /\ i <= m + 1 /\ i - 1 \in Nat
    OBVIOUS
  <1> HIDE DEF t, m
  <1>3. ASSUME NEW j \in 1 .. i - 1 PROVE cells[j].sz = t[j].sz
    <2>1. j \in 1 .. m + 1 /\ j < i
      BY <1>2
    <2> QED BY <1>1, <2>1
  <1>4. ASSUME NEW j \in 1 .. m - (i - 1) PROVE cells[(i - 1) + j].sz = t[i + j].sz
    <2>1. i + j \in 1 .. m + 1 /\ ~(i + j < i) /\ i + j # i /\ (i + j) - 1 = (i - 1) + j
      BY <1>2
    <2> QED BY <1>1, <2>1
  <1>5. Spliced(cells, t, i - 1, i - 1, i)
    <2>1. Len(cells) = m
      BY DEF m
    <2>2. i - 1 <= i /\ i - 1 <= i - 1 /\ i - 1 <= m /\ i <= m + 1 /\ m - (i - 1) = (m + 1) - i
      BY <1>2
    <2> QED BY <1>1, <1>2, <1>3, <1>4, <2>1, <2>2 DEF Spliced
  <1>6. i - 1 \in 0 .. Len(cells) /\ i \in 1 .. Len(t) /\ t[i] = c
    BY <1>1, <1>2 DEF m
  <1>7. Held(Sizes(cells), i - 1, i - 1) = 0
    BY <1>6, HeldNone
  <1>8. Held(Sizes(t), i - 1, i) = c.sz /\ c.sz \in Nat
    BY <1>1, <1>6, HeldOne
  <1>9. Taken(cells) \in Nat /\ Taken(t) \in Nat
        /\ Taken(cells) - Held(Sizes(cells), i - 1, i - 1) = Taken(t) - Held(Sizes(t), i - 1, i)
    BY <1>5, SplicedTaken
  <1> QED BY <1>7, <1>8, <1>9 DEF t

\* A replaced cell changes what is taken by the difference of the sizes.
LEMMA TakenReplaced ==
    ASSUME NEW cells \in Seq(CellType), NEW i \in 1 .. Len(cells), NEW c \in CellType
    PROVE  LET t == [cells EXCEPT ![i] = c] IN
           /\ t \in Seq(CellType) /\ Len(t) = Len(cells)
           /\ \A j \in 1 .. Len(cells) : t[j] = IF j = i THEN c ELSE cells[j]
           /\ Taken(t) = (Taken(cells) - cells[i].sz) + c.sz
           /\ Taken(t) \in Nat /\ Taken(cells) \in Nat /\ c.sz \in Nat /\ cells[i].sz \in Nat
  <1> DEFINE t == [cells EXCEPT ![i] = c]
             m == Len(cells)
  <1>1. /\ t \in Seq(CellType) /\ Len(t) = m
        /\ \A j \in 1 .. m : t[j] = IF j = i THEN c ELSE cells[j]
    OBVIOUS
  <1>2. m \in Nat /\ i \in Nat /\ i >= 1 /\ i <= m /\ i - 1 \in Nat
    OBVIOUS
  <1> HIDE DEF t, m
  <1>3. ASSUME NEW j \in 1 .. i - 1 PROVE cells[j].sz = t[j].sz
    <2>1. j \in 1 .. m /\ j # i
      BY <1>2
    <2> QED BY <1>1, <2>1
  <1>4. ASSUME NEW j \in 1 .. m - i PROVE cells[i + j].sz = t[i + j].sz
    <2>1. i + j \in 1 .. m /\ i + j # i
      BY <1>2
    <2> QED BY <1>1, <2>1
  <1>5. Spliced(cells, t, i - 1, i, i)
    <2>1. Len(cells) = m
      BY DEF m
    <2>2. i - 1 <= i /\ i <= m
      BY <1>2
    <2> QED BY <1>1, <1>2, <1>3, <1>4, <2>1, <2>2 DEF Spliced
  <1>6. i \in 1 .. Len(t) /\ t[i] = c
    BY <1>1, <1>2
  <1>7. Held(Sizes(cells), i - 1, i) = cells[i].sz /\ cells[i].sz \in Nat
    BY HeldOne
  <1>8. Held(Sizes(t), i - 1, i) = c.sz /\ c.sz \in Nat
    BY <1>1, <1>6, HeldOne
  <1>9. Taken(cells) \in Nat /\ Taken(t) \in Nat
        /\ Taken(cells) - Held(Sizes(cells), i - 1, i) = Taken(t) - Held(Sizes(t), i - 1, i)
    BY <1>5, SplicedTaken
  <1>10. Taken(t) = (Taken(cells) - cells[i].sz) + c.sz
    BY <1>7, <1>8, <1>9
  <1> QED BY <1>1, <1>7, <1>8, <1>9, <1>10 DEF t, m

TrunkType == [pg : Nat, leaves : Seq(Nat)]
FileType == [trunk : Seq(TrunkType), nPage : Nat]

\* The i-th page that a trunk page lists, itself first.
Listed(t, i) == IF i = 0 THEN t.pg ELSE t.leaves[i]
Spots(f) == {s \in (DOMAIN f.trunk) \X Nat : s[2] <= Len(f.trunk[s[1]].leaves)}
FreeAt(f, s) == Listed(f.trunk[s[1]], s[2])
FreePages(f) == {FreeAt(f, s) : s \in Spots(f)}

\* The free list has pages of the file, each once.
FileOK(f) ==
    /\ f \in FileType /\ f.nPage >= 2
    /\ \A s \in Spots(f) : FreeAt(f, s) \in 3 .. f.nPage
    /\ \A s, v \in Spots(f) : FreeAt(f, s) = FreeAt(f, v) => s = v

\* The other pages but the first two.
Used(f) == (3 .. f.nPage) \ FreePages(f)

\* The closest leaf is one of the trunk page's leaves: allocateBtreePage.
LEMMA ClosestIs ==
    ASSUME NEW leaves \in Seq(Nat), leaves # << >>, NEW nearby \in Nat
    PROVE  Min({i \in DOMAIN leaves :
                  \A j \in DOMAIN leaves : Distance(leaves[i], nearby) <= Distance(leaves[j], nearby)})
             \in 1 .. Len(leaves)
  <1> DEFINE far(i) == Distance(leaves[i], nearby)
             D == {far(i) : i \in DOMAIN leaves}
             T == {i \in DOMAIN leaves : \A j \in DOMAIN leaves : far(i) <= far(j)}
  <1>1. 1 \in DOMAIN leaves /\ DOMAIN leaves = 1 .. Len(leaves) /\ Len(leaves) \in Nat
    OBVIOUS
  <1>2. \A i \in DOMAIN leaves : far(i) \in Nat
    BY DEF Distance
  <1> HIDE DEF far
  <1>3. D \subseteq Nat /\ D # {}
    BY <1>1, <1>2
  <1>4. PICK d \in D : \A x \in D : d <= x
    <2> HIDE DEF D
    <2> QED BY <1>3, LeastOf
  <1>5. PICK i \in DOMAIN leaves : d = far(i)
    BY <1>4
  <1>6. i \in T
    BY <1>4, <1>5
  <1>7. T \subseteq Nat /\ T # {}
    BY <1>1, <1>6
  <1>8. Min(T) \in T
    <2> HIDE DEF T
    <2> QED BY <1>7, MinIs
  <1>9. Min(T) \in 1 .. Len(leaves)
    BY <1>1, <1>8
  <1> QED BY <1>9 DEF far

\* The pages of a file when one of them, which was free or is new, is taken.
Taking(f, a) ==
    /\ FileOK(a.file) /\ a.pg \in Nat /\ a.pg >= 3
    /\ a.pg \notin Used(f) /\ Used(a.file) = Used(f) \cup {a.pg}

\* One spot goes, and with it its page.
LEMMA SpotGone ==
    ASSUME NEW f, FileOK(f), NEW g, g \in FileType, g.nPage = f.nPage,
           NEW s0 \in Spots(f), NEW from, from \in [Spots(g) -> Spots(f) \ {s0}],
           \A s \in Spots(g) : FreeAt(g, s) = FreeAt(f, from[s]),
           \A s, v \in Spots(g) : from[s] = from[v] => s = v,
           \A s \in Spots(f) \ {s0} : \E v \in Spots(g) : from[v] = s
    PROVE  Taking(f, [pg |-> FreeAt(f, s0), file |-> g])
  <1>1. /\ f.nPage \in Nat /\ f.nPage >= 2 /\ FreeAt(f, s0) \in 3 .. f.nPage
        /\ \A s \in Spots(f) : FreeAt(f, s) \in 3 .. f.nPage
        /\ \A s, v \in Spots(f) : FreeAt(f, s) = FreeAt(f, v) => s = v
    BY DEF FileOK, FileType
  <1>2. \A s \in Spots(g) : from[s] \in Spots(f) /\ from[s] # s0
    OBVIOUS
  <1>3. FileOK(g)
    BY <1>1, <1>2 DEF FileOK
  <1>4. FreePages(g) = FreePages(f) \ {FreeAt(f, s0)}
    <2>1. ASSUME NEW x \in FreePages(g) PROVE x \in FreePages(f) /\ x # FreeAt(f, s0)
      <3>1. PICK s \in Spots(g) : x = FreeAt(g, s)
        BY DEF FreePages
      <3> QED BY <1>1, <1>2, <3>1 DEF FreePages
    <2>2. ASSUME NEW x \in FreePages(f), x # FreeAt(f, s0) PROVE x \in FreePages(g)
      <3>1. PICK s \in Spots(f) : x = FreeAt(f, s)
        BY DEF FreePages
      <3>2. s # s0
        BY <2>2, <3>1
      <3>3. PICK v \in Spots(g) : from[v] = s
        BY <3>2
      <3>4. x = FreeAt(g, v)
        BY <3>1, <3>3
      <3> QED BY <3>4 DEF FreePages
    <2> QED BY <2>1, <2>2
  <1>5. FreeAt(f, s0) \in FreePages(f)
    BY DEF FreePages
  <1>6. FreeAt(f, s0) \in Nat /\ FreeAt(f, s0) >= 3
    BY <1>1
  <1>7. FreeAt(f, s0) \notin Used(f) /\ Used(g) = Used(f) \cup {FreeAt(f, s0)}
    BY <1>1, <1>4, <1>5 DEF Used
  <1> QED BY <1>3, <1>6, <1>7 DEF Taking

\* A spot of the free list is a trunk page and a place on it.
LEMMA SpotIs ==
    ASSUME NEW f, NEW s
    PROVE  s \in Spots(f) <=> /\ s = <<s[1], s[2]>> /\ s[1] \in DOMAIN f.trunk /\ s[2] \in Nat
                              /\ s[2] <= Len(f.trunk[s[1]].leaves)
  BY DEF Spots

\* Every place on a trunk page is a spot.
LEMMA SpotMade ==
    ASSUME NEW f, NEW t, NEW i, t \in DOMAIN f.trunk, i \in Nat, i <= Len(f.trunk[t].leaves)
    PROVE  <<t, i>> \in Spots(f)
  BY DEF Spots

\* A leaf is taken out of the list of the first trunk.
LEMMA LeafTaken ==
    ASSUME NEW leaves \in Seq(Nat), NEW c \in 1 .. Len(leaves)
    PROVE  /\ TakeLeaf(leaves, c) \in Seq(Nat) /\ Len(TakeLeaf(leaves, c)) = Len(leaves) - 1
           /\ \A i \in 1 .. Len(leaves) - 1 :
                 TakeLeaf(leaves, c)[i] = IF i = c THEN leaves[Len(leaves)] ELSE leaves[i]
  <1> DEFINE n == Len(leaves)
             l == [leaves EXCEPT ![c] = Last(leaves)]
  <1>1. n \in Nat /\ n >= 1 /\ Last(leaves) = leaves[n] /\ leaves[n] \in Nat
    BY DEF Last
  <1>2. l \in Seq(Nat) /\ Len(l) = n /\ \A i \in 1 .. n : l[i] = IF i = c THEN leaves[n] ELSE leaves[i]
    BY <1>1
  <1>3. TakeLeaf(leaves, c) = SubSeq(l, 1, n - 1)
    BY DEF TakeLeaf
  <1> HIDE DEF l, n
  <1>4. 0 \in 0 .. Len(l) /\ n - 1 \in 0 .. Len(l) /\ 0 <= n - 1 /\ 0 + 1 = 1 /\ (n - 1) - 0 = n - 1
    BY <1>1, <1>2
  <1>5. LET t == SubSeq(l, 0 + 1, n - 1) IN
        t \in Seq(Nat) /\ Len(t) = (n - 1) - 0 /\ \A j \in 1 .. (n - 1) - 0 : t[j] = l[0 + j]
    BY <1>2, <1>4, PartOfCells, SMTT(30)
  <1>6. \A j \in 1 .. n - 1 : 0 + j = j /\ j \in 1 .. n
    BY <1>1
  <1>7. /\ SubSeq(l, 1, n - 1) \in Seq(Nat) /\ Len(SubSeq(l, 1, n - 1)) = n - 1
        /\ \A j \in 1 .. n - 1 : SubSeq(l, 1, n - 1)[j] = l[j]
    BY <1>4, <1>5, <1>6
  <1> QED BY <1>2, <1>3, <1>6, <1>7 DEF n

\* Taking an empty trunk page off the free list takes that page only.
LEMMA TrunkTaken ==
    ASSUME NEW f, FileOK(f), f.trunk # << >>, Head(f.trunk).leaves = << >>
    PROVE  Taking(f, [pg |-> Head(f.trunk).pg, file |-> [f EXCEPT !.trunk = Tail(@)]])
  <1> DEFINE g == [f EXCEPT !.trunk = Tail(@)]
             s0 == <<1, 0>>
             from == [s \in Spots(g) |-> <<s[1] + 1, s[2]>>]
             n == Len(f.trunk)
  <1>1. f \in FileType /\ f.trunk \in Seq(TrunkType) /\ n \in Nat /\ n >= 1
    BY DEF FileOK, FileType
  <1>2. /\ g \in FileType /\ g.nPage = f.nPage /\ g.trunk = Tail(f.trunk)
        /\ Len(g.trunk) = n - 1 /\ \A t \in 1 .. n - 1 : g.trunk[t] = f.trunk[t + 1]
    BY <1>1 DEF FileType
  <1>3. Head(f.trunk) = f.trunk[1] /\ DOMAIN f.trunk = 1 .. n /\ DOMAIN g.trunk = 1 .. n - 1
    BY <1>1, <1>2 DEF FileType
  <1> HIDE DEF g, n
  <1>4. Len(<< >>) = 0
    OBVIOUS
  <1>5. s0 \in Spots(f) /\ FreeAt(f, s0) = Head(f.trunk).pg
    <2>1. 1 \in DOMAIN f.trunk /\ 0 \in Nat /\ 0 <= Len(f.trunk[1].leaves)
      BY <1>1, <1>3, <1>4
    <2> QED BY <1>3, <2>1, SpotMade DEF FreeAt, Listed
  <1>6. ASSUME NEW s \in Spots(f), s # s0
        PROVE  <<s[1] - 1, s[2]>> \in Spots(g) /\ s = <<s[1], s[2]>> /\ s[1] \in 1 .. n
    <2>1. s = <<s[1], s[2]>> /\ s[1] \in 1 .. n /\ s[2] \in Nat /\ s[2] <= Len(f.trunk[s[1]].leaves)
      BY <1>3, SpotIs
    <2>2. s[1] # 1
      BY <1>3, <1>4, <1>6, <2>1
    <2>3. s[1] - 1 \in 1 .. n - 1 /\ (s[1] - 1) + 1 = s[1]
      BY <1>1, <2>1, <2>2
    <2> QED BY <1>2, <1>3, <2>1, <2>3, SpotMade
  <1>7. ASSUME NEW s \in Spots(g)
        PROVE  /\ <<s[1] + 1, s[2]>> \in Spots(f) \ {s0} /\ s = <<s[1], s[2]>> /\ s[1] \in 1 .. n - 1
               /\ FreeAt(g, s) = FreeAt(f, <<s[1] + 1, s[2]>>)
    <2>1. s = <<s[1], s[2]>> /\ s[1] \in 1 .. n - 1 /\ s[2] \in Nat /\ s[2] <= Len(g.trunk[s[1]].leaves)
      BY <1>3, SpotIs
    <2>4. n \in Nat /\ s[1] \in 1 .. n - 1
      BY <1>1, <2>1
    <2>5. s[1] + 1 \in 1 .. n /\ s[1] + 1 # 1
      BY <2>4
    <2>2. s[1] + 1 \in 1 .. n /\ s[1] + 1 # 1 /\ g.trunk[s[1]] = f.trunk[s[1] + 1]
      BY <1>2, <2>1, <2>5
    <2>3. <<s[1] + 1, s[2]>> \in Spots(f)
      BY <1>3, <2>1, <2>2, SpotMade
    <2> QED BY <2>1, <2>2, <2>3 DEF FreeAt
  <1>8. from \in [Spots(g) -> Spots(f) \ {s0}]
    BY <1>7
  <1>9. \A s \in Spots(g) : FreeAt(g, s) = FreeAt(f, from[s])
    BY <1>7
  <1>10. \A s, v \in Spots(g) : from[s] = from[v] => s = v
    <2>1. ASSUME NEW s \in Spots(g), NEW v \in Spots(g), from[s] = from[v] PROVE s = v
      <3>1. s[1] + 1 = v[1] + 1 /\ s[2] = v[2]
        BY <2>1
      <3>2. /\ s = <<s[1], s[2]>> /\ s[1] \in 1 .. n - 1
            /\ v = <<v[1], v[2]>> /\ v[1] \in 1 .. n - 1
        BY <1>7
      <3>3. s[1] = v[1]
        BY <1>1, <3>1, <3>2
      <3> QED BY <3>1, <3>2, <3>3
    <2> QED BY <2>1
  <1>11. \A s \in Spots(f) \ {s0} : \E v \in Spots(g) : from[v] = s
    <2>1. ASSUME NEW s \in Spots(f) \ {s0} PROVE \E v \in Spots(g) : from[v] = s
      <3>1. <<s[1] - 1, s[2]>> \in Spots(g) /\ s = <<s[1], s[2]>> /\ s[1] \in 1 .. n
        BY <1>6
      <3>2. (s[1] - 1) + 1 = s[1]
        BY <1>1, <3>1
      <3>3. from[<<s[1] - 1, s[2]>>] = s
        BY <3>1, <3>2
      <3> QED BY <3>1, <3>3
    <2> QED BY <2>1
  <1> HIDE DEF from, s0
  <1>12. Taking(f, [pg |-> FreeAt(f, s0), file |-> g])
    BY <1>2, <1>5, <1>8, <1>9, <1>10, <1>11, SpotGone
  <1> QED BY <1>5, <1>12 DEF g

\* Taking a leaf off a trunk page takes that page only.
LEMMA ListedLeafTaken ==
    ASSUME NEW f, FileOK(f), f.trunk # << >>, NEW c \in 1 .. Len(Head(f.trunk).leaves)
    PROVE  Taking(f, [pg |-> Head(f.trunk).leaves[c],
                      file |-> [f EXCEPT !.trunk[1].leaves = TakeLeaf(@, c)]])
  <1> DEFINE g == [f EXCEPT !.trunk[1].leaves = TakeLeaf(@, c)]
             leaves == Head(f.trunk).leaves
             n == Len(leaves)
             s0 == <<1, c>>
             was(s) == IF s = <<1, c>> THEN <<1, n>> ELSE s
             from == [s \in Spots(g) |-> was(s)]
  <1>1. f \in FileType /\ f.trunk \in Seq(TrunkType) /\ Len(f.trunk) >= 1
    BY DEF FileOK, FileType
  <1>2. Head(f.trunk) = f.trunk[1] /\ f.trunk[1] \in TrunkType /\ 1 \in DOMAIN f.trunk
    BY <1>1
  <1>3. leaves \in Seq(Nat) /\ n \in Nat /\ c \in 1 .. n /\ leaves = f.trunk[1].leaves
    BY <1>2 DEF TrunkType
  <1> DEFINE less == TakeLeaf(leaves, c)
  <1>4. /\ less \in Seq(Nat) /\ Len(less) = n - 1
        /\ \A i \in 1 .. n - 1 : less[i] = IF i = c THEN leaves[n] ELSE leaves[i]
    BY <1>3, LeafTaken
  <1> HIDE DEF less, leaves, n
  <1>5. g = [f EXCEPT !.trunk = [f.trunk EXCEPT ![1] = [f.trunk[1] EXCEPT !.leaves = less]]]
    BY <1>1, <1>2, <1>3 DEF less, leaves, FileType
  <1>6. [f.trunk[1] EXCEPT !.leaves = less] \in TrunkType
        /\ [f.trunk[1] EXCEPT !.leaves = less].leaves = less
        /\ [f.trunk[1] EXCEPT !.leaves = less].pg = f.trunk[1].pg
    BY <1>2, <1>4 DEF TrunkType
  <1> DEFINE t1 == [f.trunk[1] EXCEPT !.leaves = less]
             trunk == [f.trunk EXCEPT ![1] = t1]
  <1>6a. g = [f EXCEPT !.trunk = trunk] /\ t1 \in TrunkType /\ t1.leaves = less /\ t1.pg = f.trunk[1].pg
    BY <1>5, <1>6
  <1> HIDE DEF g, t1
  <1>6b. /\ trunk \in Seq(TrunkType) /\ DOMAIN trunk = DOMAIN f.trunk /\ trunk[1] = t1
         /\ \A t \in DOMAIN f.trunk : t # 1 => trunk[t] = f.trunk[t]
    BY <1>1, <1>2, <1>6a
  <1> HIDE DEF trunk
  <1>6c. g \in FileType /\ g.nPage = f.nPage /\ g.trunk = trunk
    BY <1>1, <1>6a, <1>6b DEF FileType
  <1>7. /\ g \in FileType /\ g.nPage = f.nPage /\ DOMAIN g.trunk = DOMAIN f.trunk
        /\ \A t \in DOMAIN f.trunk : t # 1 => g.trunk[t] = f.trunk[t]
        /\ g.trunk[1].leaves = less /\ g.trunk[1].pg = f.trunk[1].pg
    BY <1>6a, <1>6b, <1>6c
  <1>8. s0 \in Spots(f) /\ FreeAt(f, s0) = leaves[c]
    <2>1. c \in Nat /\ c <= Len(f.trunk[1].leaves) /\ c # 0
      BY <1>3 DEF n
    <2> QED BY <1>2, <1>3, <2>1, SpotMade DEF FreeAt, Listed
  <1>9. ASSUME NEW s \in Spots(g)
        PROVE  /\ s = <<s[1], s[2]>> /\ s[2] \in Nat /\ (s[1] = 1 => s[2] \in 0 .. n - 1)
               /\ was(s) \in Spots(f) \ {s0} /\ FreeAt(g, s) = FreeAt(f, was(s))
    <2>1. s = <<s[1], s[2]>> /\ s[1] \in DOMAIN f.trunk /\ s[2] \in Nat /\ s[2] <= Len(g.trunk[s[1]].leaves)
      BY <1>7, SpotIs
    <2>2. CASE s[1] # 1
      <3>1. g.trunk[s[1]] = f.trunk[s[1]] /\ was(s) = s /\ s # s0
        BY <1>7, <2>1, <2>2
      <3>2. s \in Spots(f)
        BY <2>1, <3>1, SpotIs
      <3> QED BY <2>1, <2>2, <3>1, <3>2 DEF FreeAt
    <2>3. CASE s[1] = 1
      <3>1. s[2] \in 0 .. n - 1 /\ n \in 1 .. n /\ n # 0
        BY <1>3, <1>4, <1>7, <2>1, <2>3
      <3>2. CASE s[2] = c
        <4>1. was(s) = <<1, n>> /\ n # c /\ c \in 1 .. n - 1
          BY <1>3, <2>1, <2>3, <3>1, <3>2
        <4>2. <<1, n>> \in Spots(f)
          BY <1>2, <1>3, <3>1, SpotMade DEF n
        <4>3. <<1, n>> # s0
          BY <4>1
        <4>4. FreeAt(f, <<1, n>>) = leaves[n]
          BY <1>3, <3>1 DEF FreeAt, Listed
        <4>5. FreeAt(g, s) = leaves[n]
          BY <1>3, <1>4, <1>7, <2>3, <3>2, <4>1, SMTT(30) DEF FreeAt, Listed
        <4> QED BY <2>1, <3>1, <4>1, <4>2, <4>3, <4>4, <4>5
      <3>3. CASE s[2] # c
        <4>1. s # <<1, c>> /\ was(s) = s
          BY <2>1, <3>3
        <4>2. s[2] <= Len(f.trunk[1].leaves)
          BY <1>3, <3>1 DEF n
        <4>3. s \in Spots(f)
          BY <2>1, <2>3, <4>2, SpotIs
        <4>4. FreeAt(g, s) = FreeAt(f, s)
          <5>1. s[2] # 0 => /\ s[2] \in 1 .. n - 1 /\ less[s[2]] = leaves[s[2]]
            <6>1. s[2] # 0 => s[2] \in 1 .. n - 1
              BY <1>3, <3>1
            <6> QED BY <1>4, <3>3, <6>1
          <5>2. g.trunk[s[1]].leaves = less /\ g.trunk[s[1]].pg = f.trunk[1].pg
                /\ f.trunk[s[1]].leaves = leaves
            BY <1>3, <1>7, <2>3
          <5> QED BY <2>3, <5>1, <5>2 DEF FreeAt, Listed
        <4> QED BY <2>1, <3>1, <4>1, <4>3, <4>4
      <3> QED BY <3>2, <3>3
    <2> QED BY <2>2, <2>3
  <1>10. from \in [Spots(g) -> Spots(f) \ {s0}]
    BY <1>9
  <1>11. \A s \in Spots(g) : FreeAt(g, s) = FreeAt(f, from[s])
    BY <1>9
  <1>12. \A s, v \in Spots(g) : from[s] = from[v] => s = v
    <2>1. ASSUME NEW s \in Spots(g), was(s) = <<1, n>> PROVE s = <<1, c>>
      <3>1. SUFFICES ASSUME s # <<1, c>> PROVE FALSE
        OBVIOUS
      <3>2. s = <<1, n>>
        BY <2>1, <3>1
      <3>3. s[1] = 1 /\ s[2] = n
        BY <3>2
      <3>4. n \in 0 .. n - 1
        BY <1>9, <3>3
      <3> QED BY <1>3, <3>4
    <2>2. ASSUME NEW s \in Spots(g), NEW v \in Spots(g), from[s] = from[v] PROVE s = v
      <3>1. was(s) = was(v)
        BY <2>2
      <3>2. CASE s = <<1, c>>
        <4>1. was(v) = <<1, n>>
          BY <3>1, <3>2
        <4> QED BY <2>1, <3>2, <4>1
      <3>3. CASE s # <<1, c>> /\ v = <<1, c>>
        <4>1. was(s) = <<1, n>>
          BY <3>1, <3>3
        <4> QED BY <2>1, <3>3, <4>1
      <3>4. CASE s # <<1, c>> /\ v # <<1, c>>
        BY <3>1, <3>4
      <3> QED BY <3>2, <3>3, <3>4
    <2> QED BY <2>2
  <1>13. \A s \in Spots(f) \ {s0} : \E v \in Spots(g) : from[v] = s
    <2>1. ASSUME NEW s \in Spots(f) \ {s0} PROVE \E v \in Spots(g) : was(v) = s
      <3>1. s = <<s[1], s[2]>> /\ s[1] \in DOMAIN f.trunk /\ s[2] \in Nat /\ s[2] <= Len(f.trunk[s[1]].leaves)
        BY SpotIs
      <3>2. CASE s[1] # 1
        <4>1. s \in Spots(g)
          BY <1>7, <3>1, <3>2, SpotIs
        <4>2. was(s) = s
          OBVIOUS
        <4> QED BY <4>1, <4>2
      <3>3. CASE s[1] = 1
        <4>1. s[2] \in 0 .. n /\ s[2] # c
          BY <1>3, <3>1, <3>3 DEF n
        <4>2. CASE s[2] = n
          <5>1. <<1, c>> \in Spots(g)
            <6>1. c \in Nat /\ c <= n - 1
              BY <1>3, <4>1, <4>2
            <6> QED BY <1>2, <1>4, <1>7, <6>1, SpotMade
          <5>2. was(<<1, c>>) = s
            BY <3>1, <3>3, <4>2
          <5> QED BY <5>1, <5>2
        <4>3. CASE s[2] # n
          <5>1. s[2] <= Len(g.trunk[s[1]].leaves)
            BY <1>3, <1>4, <1>7, <3>3, <4>1, <4>3
          <5>2. s \in Spots(g)
            BY <1>7, <3>1, <5>1, SpotIs
          <5>3. was(s) = s
            OBVIOUS
          <5> QED BY <5>2, <5>3
        <4> QED BY <4>2, <4>3
      <3> QED BY <3>2, <3>3
    <2> QED BY <2>1
  <1> HIDE DEF from, s0
  <1>14. Taking(f, [pg |-> FreeAt(f, s0), file |-> g])
    BY <1>7, <1>8, <1>10, <1>11, <1>12, <1>13, SpotGone
  <1> QED BY <1>8, <1>14 DEF g, leaves

\* A page is taken off the free list, or the file grows by one.
LEMMA PageTaken ==
    ASSUME NEW f, FileOK(f), NEW nearby \in Nat
    PROVE  Taking(f, allocateBtreePage(f, nearby))
  <1>1. f \in FileType /\ f.trunk \in Seq(TrunkType) /\ f.nPage \in Nat /\ f.nPage >= 2
    BY DEF FileOK, FileType
  <1>2. CASE f.trunk = << >>
    <2> DEFINE g == [f EXCEPT !.nPage = @ + 1]
    <2>1. g \in FileType /\ g.trunk = << >> /\ g.nPage = f.nPage + 1
      BY <1>1, <1>2 DEF FileType
    <2>2. Spots(f) = {} /\ Spots(g) = {}
      BY <1>2, <2>1 DEF Spots
    <2>3. Used(f) = 3 .. f.nPage /\ Used(g) = 3 .. f.nPage + 1
      BY <2>1, <2>2 DEF Used, FreePages
    <2>4. FileOK(g)
      BY <1>1, <2>1, <2>2 DEF FileOK
    <2>5. allocateBtreePage(f, nearby) = [pg |-> f.nPage + 1, file |-> g]
      BY <1>2 DEF allocateBtreePage
    <2>6. (3 .. f.nPage + 1) = (3 .. f.nPage) \cup {f.nPage + 1}
      BY <1>1
    <2> QED BY <1>1, <2>3, <2>4, <2>5, <2>6 DEF Taking
  <1>3. CASE f.trunk # << >> /\ Head(f.trunk).leaves = << >>
    <2>1. allocateBtreePage(f, nearby) = [pg |-> Head(f.trunk).pg, file |-> [f EXCEPT !.trunk = Tail(@)]]
      BY <1>3 DEF allocateBtreePage
    <2> QED BY <1>3, <2>1, TrunkTaken
  <1>4. CASE f.trunk # << >> /\ Head(f.trunk).leaves # << >>
    <2> DEFINE t == Head(f.trunk)
               far(i) == Distance(t.leaves[i], nearby)
               c == IF nearby = 0 THEN 1
                    ELSE Min({i \in DOMAIN t.leaves : \A j \in DOMAIN t.leaves : far(i) <= far(j)})
    <2>1. t.leaves \in Seq(Nat) /\ t.leaves # << >>
      <3>1. t \in TrunkType
        BY <1>1, <1>4
      <3> QED BY <1>4, <3>1 DEF TrunkType
    <2>2. c \in 1 .. Len(t.leaves)
      <3> DEFINE x == Min({i \in DOMAIN t.leaves :
                             \A j \in DOMAIN t.leaves : Distance(t.leaves[i], nearby) <= Distance(t.leaves[j], nearby)})
      <3> HIDE DEF t
      <3>1. x \in 1 .. Len(t.leaves)
        BY <2>1, ClosestIs
      <3>2. 1 \in 1 .. Len(t.leaves)
        BY <2>1
      <3>3. c = IF nearby = 0 THEN 1 ELSE x
        OBVIOUS
      <3> HIDE DEF c, x
      <3> QED BY <3>1, <3>2, <3>3
    <2>3. allocateBtreePage(f, nearby)
            = [pg |-> t.leaves[c], file |-> [f EXCEPT !.trunk[1].leaves = TakeLeaf(@, c)]]
      BY <1>4 DEF allocateBtreePage
    <2> HIDE DEF c
    <2> QED BY <1>4, <2>2, <2>3, ListedLeafTaken
  <1> QED BY <1>2, <1>3, <1>4

\* The pages of a file when one of them is put on the free list.
Freeing(f, pg, g) == FileOK(g) /\ g.nPage = f.nPage /\ Used(g) = Used(f) \ {pg}

\* A spot is added, for a page that was in use.
LEMMA SpotNew ==
    ASSUME NEW f, FileOK(f), NEW g, g \in FileType, g.nPage = f.nPage,
           NEW s0 \in Spots(g), FreeAt(g, s0) \in Used(f),
           NEW to, to \in [Spots(f) -> Spots(g) \ {s0}],
           \A s \in Spots(f) : FreeAt(g, to[s]) = FreeAt(f, s),
           \A v \in Spots(g) \ {s0} : \E s \in Spots(f) : to[s] = v
    PROVE  Freeing(f, FreeAt(g, s0), g)
  <1>1. /\ f.nPage \in Nat /\ f.nPage >= 2 /\ FreeAt(g, s0) \in 3 .. f.nPage
        /\ \A s \in Spots(f) : FreeAt(f, s) \in 3 .. f.nPage
        /\ \A s, v \in Spots(f) : FreeAt(f, s) = FreeAt(f, v) => s = v
    BY DEF FileOK, FileType, Used
  <1>2. \A s \in Spots(f) : to[s] \in Spots(g) /\ to[s] # s0 /\ FreeAt(f, s) # FreeAt(g, s0)
    BY DEF Used, FreePages
  <1>3. ASSUME NEW v \in Spots(g), v # s0
        PROVE  \E s \in Spots(f) : to[s] = v /\ FreeAt(g, v) = FreeAt(f, s)
    BY <1>3
  <1>4. FileOK(g)
    <2>1. ASSUME NEW v \in Spots(g) PROVE FreeAt(g, v) \in 3 .. g.nPage
      <3>1. CASE v = s0
        BY <1>1, <3>1
      <3>2. CASE v # s0
        BY <1>1, <1>3, <3>2
      <3> QED BY <3>1, <3>2
    <2>2. ASSUME NEW v \in Spots(g), NEW x \in Spots(g), FreeAt(g, v) = FreeAt(g, x) PROVE v = x
      <3>1. CASE v = s0 /\ x # s0
        BY <1>2, <1>3, <2>2, <3>1
      <3>2. CASE v # s0 /\ x = s0
        BY <1>2, <1>3, <2>2, <3>2
      <3>3. CASE v # s0 /\ x # s0
        <4>1. PICK s \in Spots(f) : to[s] = v /\ FreeAt(g, v) = FreeAt(f, s)
          BY <1>3, <3>3
        <4>2. PICK r \in Spots(f) : to[r] = x /\ FreeAt(g, x) = FreeAt(f, r)
          BY <1>3, <3>3
        <4>3. s = r
          BY <1>1, <2>2, <4>1, <4>2
        <4> QED BY <4>1, <4>2, <4>3
      <3> QED BY <3>1, <3>2, <3>3
    <2> QED BY <1>1, <2>1, <2>2 DEF FileOK
  <1>5. FreePages(g) = FreePages(f) \cup {FreeAt(g, s0)}
    <2>1. ASSUME NEW x \in FreePages(g) PROVE x \in FreePages(f) \cup {FreeAt(g, s0)}
      <3>1. PICK v \in Spots(g) : x = FreeAt(g, v)
        BY DEF FreePages
      <3> QED BY <1>3, <3>1 DEF FreePages
    <2>2. ASSUME NEW x \in FreePages(f) PROVE x \in FreePages(g)
      <3>1. PICK s \in Spots(f) : x = FreeAt(f, s)
        BY DEF FreePages
      <3> QED BY <1>2, <3>1 DEF FreePages
    <2>3. FreeAt(g, s0) \in FreePages(g)
      BY DEF FreePages
    <2> QED BY <2>1, <2>2, <2>3
  <1>6. Used(g) = Used(f) \ {FreeAt(g, s0)}
    BY <1>5 DEF Used
  <1> QED BY <1>4, <1>6 DEF Freeing

\* A page freed onto a trunk page's list is on the free list, once.
LEMMA PageListed ==
    ASSUME NEW f, FileOK(f), NEW pg \in Used(f), f.trunk # << >>
    PROVE  Freeing(f, pg, [f EXCEPT !.trunk[1].leaves = Append(@, pg)])
  <1> DEFINE g == [f EXCEPT !.trunk[1].leaves = Append(@, pg)]
             leaves == f.trunk[1].leaves
             n == Len(leaves)
             s0 == <<1, n + 1>>
             to == [s \in Spots(f) |-> s]
             more == Append(leaves, pg)
             t1 == [f.trunk[1] EXCEPT !.leaves = more]
             trunk == [f.trunk EXCEPT ![1] = t1]
  <1>1. /\ f \in FileType /\ f.trunk \in Seq(TrunkType) /\ Len(f.trunk) >= 1 /\ pg \in Nat
        /\ f.nPage \in Nat
    BY DEF FileOK, FileType, Used
  <1>2. f.trunk[1] \in TrunkType /\ 1 \in DOMAIN f.trunk
    BY <1>1
  <1>3. leaves \in Seq(Nat) /\ n \in Nat
    BY <1>2 DEF TrunkType
  <1>4. /\ more \in Seq(Nat) /\ Len(more) = n + 1 /\ more[n + 1] = pg
        /\ \A i \in 1 .. n : more[i] = leaves[i]
    BY <1>1, <1>3
  <1>5. g = [f EXCEPT !.trunk = trunk]
    BY <1>1, <1>2 DEF FileType
  <1> HIDE DEF g, n, leaves, more
  <1>6. t1 \in TrunkType /\ t1.leaves = more /\ t1.pg = f.trunk[1].pg
    BY <1>2, <1>4 DEF TrunkType
  <1> HIDE DEF t1
  <1>7. /\ trunk \in Seq(TrunkType) /\ DOMAIN trunk = DOMAIN f.trunk /\ trunk[1] = t1
        /\ \A t \in DOMAIN f.trunk : t # 1 => trunk[t] = f.trunk[t]
    BY <1>1, <1>2, <1>6
  <1> HIDE DEF trunk
  <1>8. g \in FileType /\ g.nPage = f.nPage /\ g.trunk = trunk
    BY <1>1, <1>5, <1>7 DEF FileType
  <1>9. s0 \in Spots(g) /\ FreeAt(g, s0) = pg
    <2>1. 1 \in DOMAIN g.trunk /\ n + 1 \in Nat /\ n + 1 <= Len(g.trunk[1].leaves) /\ n + 1 # 0
      BY <1>2, <1>3, <1>4, <1>6, <1>7, <1>8
    <2> QED BY <1>4, <1>6, <1>7, <1>8, <2>1, SpotMade DEF FreeAt, Listed
  <1>10. ASSUME NEW s \in Spots(f) PROVE s \in Spots(g) /\ s # s0 /\ FreeAt(g, s) = FreeAt(f, s)
    <2>1. s = <<s[1], s[2]>> /\ s[1] \in DOMAIN f.trunk /\ s[2] \in Nat /\ s[2] <= Len(f.trunk[s[1]].leaves)
      BY SpotIs
    <2>2. CASE s[1] # 1
      <3>1. g.trunk[s[1]] = f.trunk[s[1]] /\ s[1] \in DOMAIN g.trunk /\ s # s0
        BY <1>7, <1>8, <2>1, <2>2
      <3>2. s \in Spots(g)
        BY <2>1, <3>1, SpotIs
      <3> QED BY <3>1, <3>2 DEF FreeAt
    <2>3. CASE s[1] = 1
      <3>1. s[2] <= n /\ s[2] \in Nat
        BY <2>1, <2>3 DEF n, leaves
      <3>2. s[2] <= n + 1 /\ s[2] # n + 1 /\ (s[2] # 0 => s[2] \in 1 .. n)
        BY <1>3, <3>1
      <3>3. g.trunk[s[1]].leaves = more /\ g.trunk[s[1]].pg = f.trunk[1].pg /\ s[1] \in DOMAIN g.trunk
        BY <1>6, <1>7, <1>8, <2>1, <2>3
      <3>4. s \in Spots(g)
        BY <1>4, <2>1, <3>2, <3>3, SpotIs
      <3>5. s # s0
        BY <3>2
      <3>6. FreeAt(g, s) = FreeAt(f, s)
        <4>1. s[2] # 0 => more[s[2]] = leaves[s[2]]
          BY <1>4, <3>2
        <4> QED BY <2>3, <3>3, <4>1 DEF FreeAt, Listed, leaves
      <3> QED BY <3>4, <3>5, <3>6
    <2> QED BY <2>2, <2>3
  <1>11. ASSUME NEW v \in Spots(g) \ {s0} PROVE v \in Spots(f)
    <2>1. v = <<v[1], v[2]>> /\ v[1] \in DOMAIN g.trunk /\ v[2] \in Nat /\ v[2] <= Len(g.trunk[v[1]].leaves)
      BY SpotIs
    <2>2. CASE v[1] # 1
      <3>1. g.trunk[v[1]] = f.trunk[v[1]] /\ v[1] \in DOMAIN f.trunk
        BY <1>7, <1>8, <2>1, <2>2
      <3> QED BY <2>1, <3>1, SpotIs
    <2>3. CASE v[1] = 1
      <3>1. v[2] <= n + 1 /\ v[2] # n + 1
        BY <1>4, <1>6, <1>7, <1>8, <2>1, <2>3
      <3>2. v[2] <= Len(f.trunk[1].leaves)
        BY <1>3, <2>1, <3>1 DEF n, leaves
      <3> QED BY <1>2, <2>1, <2>3, <3>2, SpotIs
    <2> QED BY <2>2, <2>3
  <1> HIDE DEF s0
  <1>12. Freeing(f, FreeAt(g, s0), g)
    <2>1. to \in [Spots(f) -> Spots(g) \ {s0}] /\ \A s \in Spots(f) : FreeAt(g, to[s]) = FreeAt(f, s)
      BY <1>10
    <2>2. \A v \in Spots(g) \ {s0} : \E s \in Spots(f) : to[s] = v
      BY <1>11
    <2> HIDE DEF to
    <2> QED BY <1>8, <1>9, <2>1, <2>2, SpotNew
  <1> QED BY <1>9, <1>12 DEF g

\* A page freed as a new trunk page is on the free list, once.
LEMMA TrunkListed ==
    ASSUME NEW f, FileOK(f), NEW pg \in Used(f)
    PROVE  Freeing(f, pg, [f EXCEPT !.trunk = <<[pg |-> pg, leaves |-> << >>]>> \o @])
  <1> DEFINE t == [pg |-> pg, leaves |-> << >>]
             trunk == <<t>> \o f.trunk
             g == [f EXCEPT !.trunk = trunk]
             s0 == <<1, 0>>
             to == [s \in Spots(f) |-> <<s[1] + 1, s[2]>>]
             n == Len(f.trunk)
  <1>1. /\ f \in FileType /\ f.trunk \in Seq(TrunkType) /\ n \in Nat /\ pg \in Nat
        /\ f.nPage \in Nat
    BY DEF FileOK, FileType, Used
  <1>2. t \in TrunkType /\ t.leaves = << >> /\ t.pg = pg
    BY <1>1 DEF TrunkType
  <1> HIDE DEF t
  <1>3. /\ trunk \in Seq(TrunkType) /\ Len(trunk) = n + 1 /\ trunk[1] = t
        /\ \A i \in 1 .. n : trunk[i + 1] = f.trunk[i]
    BY <1>1, <1>2
  <1> HIDE DEF trunk
  <1>4. g \in FileType /\ g.nPage = f.nPage /\ g.trunk = trunk
    BY <1>1, <1>3 DEF FileType
  <1>5. DOMAIN f.trunk = 1 .. n /\ DOMAIN g.trunk = 1 .. n + 1
    BY <1>1, <1>3, <1>4
  <1> HIDE DEF g, n
  <1>6. Len(<< >>) = 0
    OBVIOUS
  <1>7. s0 \in Spots(g) /\ FreeAt(g, s0) = pg
    <2>1. 1 \in DOMAIN g.trunk /\ 0 \in Nat /\ 0 <= Len(g.trunk[1].leaves)
      BY <1>1, <1>2, <1>3, <1>4, <1>5, <1>6
    <2> QED BY <1>2, <1>3, <1>4, <2>1, SpotMade DEF FreeAt, Listed
  <1>8. ASSUME NEW s \in Spots(f)
        PROVE  <<s[1] + 1, s[2]>> \in Spots(g) /\ s[1] + 1 # 1
               /\ FreeAt(g, <<s[1] + 1, s[2]>>) = FreeAt(f, s)
    <2>1. s = <<s[1], s[2]>> /\ s[1] \in 1 .. n /\ s[2] \in Nat /\ s[2] <= Len(f.trunk[s[1]].leaves)
      BY <1>5, SpotIs
    <2>2. s[1] + 1 \in 1 .. n + 1 /\ s[1] + 1 # 1
      BY <1>1, <2>1
    <2>3. g.trunk[s[1] + 1] = f.trunk[s[1]]
      BY <1>3, <1>4, <2>1
    <2> QED BY <1>5, <2>1, <2>2, <2>3, SpotMade DEF FreeAt
  <1>9. ASSUME NEW v \in Spots(g) \ {s0} PROVE \E s \in Spots(f) : to[s] = v
    <2>1. v = <<v[1], v[2]>> /\ v[1] \in 1 .. n + 1 /\ v[2] \in Nat /\ v[2] <= Len(g.trunk[v[1]].leaves)
      BY <1>5, SpotIs
    <2>2. v[1] # 1
      <3>1. SUFFICES ASSUME v[1] = 1 PROVE FALSE
        OBVIOUS
      <3>2. v[2] <= 0
        BY <1>2, <1>3, <1>4, <1>6, <2>1, <3>1
      <3> QED BY <2>1, <3>1, <3>2
    <2>3. v[1] - 1 \in 1 .. n /\ (v[1] - 1) + 1 = v[1]
      BY <1>1, <2>1, <2>2
    <2>4. g.trunk[v[1]] = f.trunk[v[1] - 1]
      BY <1>3, <1>4, <2>3
    <2>5. <<v[1] - 1, v[2]>> \in Spots(f)
      BY <1>5, <2>1, <2>3, <2>4, SpotMade
    <2>6. to[<<v[1] - 1, v[2]>>] = v
      BY <2>1, <2>3, <2>5
    <2> QED BY <2>5, <2>6
  <1>10. to \in [Spots(f) -> Spots(g) \ {s0}] /\ \A s \in Spots(f) : FreeAt(g, to[s]) = FreeAt(f, s)
    BY <1>8
  <1> HIDE DEF to, s0
  <1>11. Freeing(f, FreeAt(g, s0), g)
    BY <1>4, <1>7, <1>9, <1>10, SpotNew
  <1> QED BY <1>7, <1>11 DEF g, trunk, t

\* freePage2 frees a page that is in use, and no other.
LEMMA PageFreed ==
    ASSUME NEW f, FileOK(f), NEW pg \in Used(f)
    PROVE  Freeing(f, pg, freePage2(f, pg))
  BY PageListed, TrunkListed DEF freePage2

\* Pages taken one after the other: in a file, distinct, free or new before and
\* in use after.
Taken1(f, m, n) ==
    /\ FileOK(m.file) /\ m.pgs \in Seq(Nat) /\ Len(m.pgs) = n
    /\ \A i \in 1 .. n : m.pgs[i] >= 3 /\ m.pgs[i] \notin Used(f)
    /\ \A i, j \in 1 .. n : m.pgs[i] = m.pgs[j] => i = j
    /\ Used(m.file) = Used(f) \cup {m.pgs[i] : i \in 1 .. n}

\* One more page after n pages were taken.
LEMMA OneMoreTaken ==
    ASSUME NEW f, FileOK(f), NEW n \in Nat, NEW m, Taken1(f, m, n), NEW nearby \in Nat
    PROVE  LET a == allocateBtreePage(m.file, nearby) IN
           Taken1(f, [pgs |-> Append(m.pgs, a.pg), file |-> a.file], n + 1)
  <1> DEFINE a == allocateBtreePage(m.file, nearby)
             pgs == Append(m.pgs, a.pg)
  <1>1. /\ FileOK(m.file) /\ m.pgs \in Seq(Nat) /\ Len(m.pgs) = n
        /\ \A i \in 1 .. n : m.pgs[i] >= 3 /\ m.pgs[i] \notin Used(f)
        /\ \A i, j \in 1 .. n : m.pgs[i] = m.pgs[j] => i = j
        /\ Used(m.file) = Used(f) \cup {m.pgs[i] : i \in 1 .. n}
    BY DEF Taken1
  <1>2. Taking(m.file, a)
    BY <1>1, PageTaken
  <1> HIDE DEF a
  <1>3. /\ FileOK(a.file) /\ a.pg \in Nat /\ a.pg >= 3
        /\ a.pg \notin Used(m.file) /\ Used(a.file) = Used(m.file) \cup {a.pg}
    BY <1>2 DEF Taking
  <1>4. /\ pgs \in Seq(Nat) /\ Len(pgs) = n + 1 /\ pgs[n + 1] = a.pg
        /\ \A i \in 1 .. n : pgs[i] = m.pgs[i]
    BY <1>1, <1>3
  <1> HIDE DEF pgs
  <1>5. \A i \in 1 .. n + 1 : i \in 1 .. n \/ i = n + 1
    OBVIOUS
  <1>6. \A i \in 1 .. n : m.pgs[i] \in Used(m.file)
    BY <1>1
  <1>7. \A i \in 1 .. n + 1 : pgs[i] >= 3 /\ pgs[i] \notin Used(f)
    BY <1>1, <1>3, <1>4, <1>5
  <1>8. \A i, j \in 1 .. n + 1 : pgs[i] = pgs[j] => i = j
    <2>1. \A i \in 1 .. n : pgs[i] # a.pg
      BY <1>3, <1>4, <1>6
    <2>2. \A i, j \in 1 .. n : pgs[i] = pgs[j] => i = j
      BY <1>1, <1>4
    <2> QED BY <1>4, <1>5, <2>1, <2>2
  <1>9. Used(a.file) = Used(f) \cup {pgs[i] : i \in 1 .. n + 1}
    <2>1. {pgs[i] : i \in 1 .. n + 1} = {m.pgs[i] : i \in 1 .. n} \cup {a.pg}
      <3>1. n + 1 \in 1 .. n + 1 /\ \A i \in 1 .. n : i \in 1 .. n + 1
        OBVIOUS
      <3> QED BY <1>4, <1>5, <3>1
    <2> QED BY <1>1, <1>3, <2>1
  <1>10. Taken1(f, [pgs |-> pgs, file |-> a.file], n + 1)
    <2> DEFINE r == [pgs |-> pgs, file |-> a.file]
    <2>1. r.pgs = pgs /\ r.file = a.file
      OBVIOUS
    <2> HIDE DEF r
    <2>2. Taken1(f, r, n + 1)
      BY <1>3, <1>4, <1>7, <1>8, <1>9, <2>1 DEF Taken1
    <2> QED BY <2>2 DEF r
  <1> QED BY <1>10 DEF a, pgs

\* The equation that the pages taken one after the other solve.
TakenOf(f, nearby, N, got) ==
    [i \in 0 .. N |->
       IF i = 0 THEN [pgs |-> << >>, file |-> f]
       ELSE LET before == got[i - 1]
                a == allocateBtreePage(before.file, IF i = 1 THEN nearby ELSE Last(before.pgs))
            IN [pgs |-> Append(before.pgs, a.pg), file |-> a.file]]

\* The pages that AllocateMany takes exist.
LEMMA TakenExists ==
    ASSUME NEW f, FileOK(f), NEW nearby \in Nat, NEW N \in Nat
    PROVE  \E got : got = TakenOf(f, nearby, N, got)
  <1> DEFINE D == 0 .. N
             S == [pgs : Seq(Nat), file : {g \in FileType : FileOK(g)}]
             h == [i \in D |-> i]
             base == [pgs |-> << >>, file |-> f]
             next(i, b) == LET a == allocateBtreePage(b.file, IF i = 1 THEN nearby ELSE Last(b.pgs))
                           IN [pgs |-> Append(b.pgs, a.pg), file |-> a.file]
             stops(i, b) == i # 1 /\ b.pgs = << >>
             G == [i \in D |-> [s \in [D -> S] |->
                     IF i = 0 THEN base ELSE IF stops(i, s[i - 1]) THEN base ELSE next(i, s[i - 1])]]
  <1>1. base \in S
    BY DEF FileOK
  <1>2. ASSUME NEW i \in 1 .. N, NEW b \in S, ~stops(i, b) PROVE next(i, b) \in S
    <2> DEFINE near == IF i = 1 THEN nearby ELSE Last(b.pgs)
    <2>1. near \in Nat
      <3>1. CASE i = 1
        BY <3>1
      <3>2. CASE i # 1
        <4>1. b.pgs \in Seq(Nat) /\ b.pgs # << >>
          BY <1>2, <3>2
        <4> QED BY <3>2, <4>1 DEF Last
      <3> QED BY <3>1, <3>2
    <2>2. FileOK(b.file)
      OBVIOUS
    <2>3. Taking(b.file, allocateBtreePage(b.file, near))
      <3> HIDE DEF near
      <3> QED BY <2>1, <2>2, PageTaken
    <2> DEFINE a == allocateBtreePage(b.file, near)
    <2>4. FileOK(a.file) /\ a.pg \in Nat
      BY <2>3 DEF Taking
    <2> HIDE DEF a
    <2>5. a.file \in FileType /\ Append(b.pgs, a.pg) \in Seq(Nat)
      BY <2>4 DEF FileOK
    <2> QED BY <2>4, <2>5 DEF a
  <1> HIDE DEF next, stops, base
  <1>3. h \in [D -> 0 .. N]
    OBVIOUS
  <1>4. G \in [D -> [[D -> S] -> S]]
    <2>1. ASSUME NEW i \in D, NEW s \in [D -> S], i # 0 PROVE i \in 1 .. N /\ s[i - 1] \in S
      BY <2>1
    <2> HIDE DEF S
    <2> QED BY <1>1, <1>2, <2>1
  <1>5. \A p \in D : \A g1, g2 \in [D -> S] :
           (\A q \in D : h[q] < h[p] => g1[q] = g2[q]) => G[p][g1] = G[p][g2]
    <2> HIDE DEF S
    <2>1. \A p \in D : p # 0 => p - 1 \in D /\ h[p - 1] < h[p]
      OBVIOUS
    <2> QED BY <2>1
  <1>6. Recursive(D, S, N, h, G)
    <2> HIDE DEF S, G, h, D
    <2> QED BY <1>1, <1>3, <1>4, <1>5 DEF Recursive
  <1>7. PICK got : Solves(D, S, G, got)
    <2> HIDE DEF D, h, G, S
    <2> QED BY <1>6, RecursionExists
  <1>8. got \in [D -> S] /\ \A p \in D : got[p] = G[p][got]
    BY <1>7 DEF Solves
  <1>9. \A i \in D : got[i] = IF i = 0 THEN base ELSE IF stops(i, got[i - 1]) THEN base
                              ELSE next(i, got[i - 1])
    <2> HIDE DEF S
    <2> QED BY <1>8
  <1> DEFINE T == {i \in 1 .. N : got[i].pgs = << >>}
  <1>10. T = {}
    <2>1. SUFFICES ASSUME T # {} PROVE FALSE
      OBVIOUS
    <2>2. PICK i \in T : \A j \in T : i <= j
      <3>1. T \subseteq Nat
        OBVIOUS
      <3> HIDE DEF T
      <3> QED BY <2>1, <3>1, LeastOf
    <2>3. i \in 1 .. N /\ i \in D /\ i - 1 \in D /\ i # 0 /\ i \in Nat
      BY <2>2
    <2>4. ~stops(i, got[i - 1])
      <3>1. CASE i = 1
        BY <3>1 DEF stops
      <3>2. CASE i # 1
        <4>1. i - 1 \in 1 .. N /\ ~(i <= i - 1)
          BY <2>3, <3>2
        <4>2. i - 1 \notin T
          <5> HIDE DEF T
          <5> QED BY <2>2, <4>1
        <4>3. got[i - 1].pgs # << >>
          BY <4>1, <4>2
        <4> QED BY <4>3 DEF stops
      <3> QED BY <3>1, <3>2
    <2>5. got[i] = next(i, got[i - 1])
      BY <1>9, <2>3, <2>4
    <2>6. got[i - 1].pgs \in Seq(Nat)
      BY <1>8, <2>3
    <2>7. got[i].pgs # << >>
      BY <2>5, <2>6 DEF next
    <2> QED BY <2>2, <2>7
  <1>11. \A i \in D : i # 0 => ~stops(i, got[i - 1])
    <2>1. ASSUME NEW i \in D, i # 0, i # 1 PROVE got[i - 1].pgs # << >>
      <3>1. i - 1 \in 1 .. N
        BY <2>1
      <3> QED BY <1>10, <3>1
    <2> QED BY <2>1 DEF stops
  <1>12. \A i \in D : got[i] = IF i = 0 THEN base ELSE next(i, got[i - 1])
    BY <1>9, <1>11
  <1>13. got = [i \in D |-> IF i = 0 THEN base ELSE next(i, got[i - 1])]
    <2> HIDE DEF S
    <2> QED BY <1>8, <1>12
  <1>14. got = TakenOf(f, nearby, N, got)
    <2> HIDE DEF S, T
    <2> QED BY <1>13 DEF TakenOf, next, base
  <1> QED BY <1>14

\* AllocateMany takes n different pages that were not in use.
LEMMA ManyTaken ==
    ASSUME NEW f, FileOK(f), NEW nearby \in Nat, NEW n \in Int
    PROVE  LET N == Max({0, n}) IN N \in Nat /\ (n >= 0 => N = n) /\ (n < 0 => N = 0)
                                   /\ Taken1(f, AllocateMany(f, nearby, n), N)
  <1> DEFINE N == Max({0, n})
  <1>1. N \in Nat /\ (n >= 0 => N = n) /\ (n < 0 => N = 0)
    <2>1. N \in {0, n} /\ \A y \in {0, n} : y <= N
      <3> DEFINE T == {0, n}
                 b == IF n > 0 THEN n ELSE 0
      <3>1. T \subseteq Int /\ T # {} /\ b \in Int /\ \A x \in T : x <= b
        OBVIOUS
      <3> HIDE DEF T, b
      <3> QED BY <3>1, MaxIs DEF T
    <2> QED BY <2>1
  <1> HIDE DEF N
  <1> DEFINE got == CHOOSE g : g = TakenOf(f, nearby, N, g)
  <1>2. AllocateMany(f, nearby, n) = got[N]
    BY DEF AllocateMany, TakenOf, N
  <1>3. got = TakenOf(f, nearby, N, got)
    BY <1>1, TakenExists
  <1> HIDE DEF got
  <1>4. \A i \in 0 .. N : got[i] =
           IF i = 0 THEN [pgs |-> << >>, file |-> f]
           ELSE LET before == got[i - 1]
                    a == allocateBtreePage(before.file, IF i = 1 THEN nearby ELSE Last(before.pgs))
                IN [pgs |-> Append(before.pgs, a.pg), file |-> a.file]
    BY <1>3 DEF TakenOf
  <1> DEFINE T == {i \in 0 .. N : ~Taken1(f, got[i], i)}
  <1>5. T = {}
    <2>1. SUFFICES ASSUME T # {} PROVE FALSE
      OBVIOUS
    <2>2. PICK i \in T : \A j \in T : i <= j
      <3>1. T \subseteq Nat
        OBVIOUS
      <3> HIDE DEF T
      <3> QED BY <2>1, <3>1, LeastOf
    <2>3. i \in 0 .. N /\ ~Taken1(f, got[i], i) /\ i \in Nat
      BY <2>2
    <2>4. CASE i = 0
      <3>1. got[0] = [pgs |-> << >>, file |-> f]
        <4>1. 0 \in 0 .. N
          BY <1>1
        <4> QED BY <1>4, <4>1
      <3>2. Taken1(f, [pgs |-> << >>, file |-> f], 0)
        <4>1. (1 .. 0) = {}
          OBVIOUS
        <4> QED BY <4>1 DEF Taken1
      <3> QED BY <2>3, <2>4, <3>1, <3>2
    <2>5. CASE i # 0
      <3> DEFINE m == got[i - 1]
                 near == IF i = 1 THEN nearby ELSE Last(m.pgs)
                 a == allocateBtreePage(m.file, near)
      <3>1. i - 1 \in 0 .. N /\ i - 1 \in Nat /\ (i - 1) + 1 = i /\ ~(i <= i - 1)
        BY <1>1, <2>3, <2>5
      <3>2. Taken1(f, m, i - 1)
        <4>1. i - 1 \notin T
          <5> HIDE DEF T
          <5> QED BY <2>2, <3>1
        <4> QED BY <3>1, <4>1
      <3>3. near \in Nat
        <4>1. m.pgs \in Seq(Nat) /\ Len(m.pgs) = i - 1
          BY <3>2 DEF Taken1
        <4>2. i # 1 => Last(m.pgs) = m.pgs[i - 1] /\ i - 1 \in 1 .. i - 1
          BY <3>1, <4>1 DEF Last
        <4> HIDE DEF m
        <4> QED BY <4>1, <4>2
      <3>4. got[i] = [pgs |-> Append(m.pgs, a.pg), file |-> a.file]
        BY <1>4, <2>3, <2>5
      <3> HIDE DEF near, m
      <3>5. Taken1(f, [pgs |-> Append(m.pgs, a.pg), file |-> a.file], (i - 1) + 1)
        BY <3>1, <3>2, <3>3, OneMoreTaken
      <3> QED BY <2>3, <3>1, <3>4, <3>5
    <2> QED BY <2>4, <2>5
  <1>6. Taken1(f, got[N], N)
    <2>1. N \in 0 .. N
      BY <1>1
    <2> QED BY <1>5, <2>1
  <1> QED BY <1>1, <1>2, <1>6 DEF N

\* Pages that are in use, each named once.
AreUsed(f, pgs) ==
    /\ pgs \in Seq(Nat)
    /\ \A i \in 1 .. Len(pgs) : pgs[i] \in Used(f)
    /\ \A i, j \in 1 .. Len(pgs) : pgs[i] = pgs[j] => i = j

\* The equation that the file solves as the pages are freed one after the other.
FreedOf(f, pgs, freed) ==
    [i \in 0 .. Len(pgs) |-> IF i = 0 THEN f ELSE freePage2(freed[i - 1], pgs[i])]

\* freePage2 keeps the type of the free list.
LEMMA FreePageType ==
    ASSUME NEW f \in FileType, NEW pg \in Nat
    PROVE  freePage2(f, pg) \in FileType
  <1>1. f.trunk \in Seq(TrunkType) /\ f.nPage \in Nat
    BY DEF FileType
  <1>2. CASE f.trunk # << >> /\ Len(Head(f.trunk).leaves) < TRUNK
    <2> DEFINE t1 == [f.trunk[1] EXCEPT !.leaves = Append(@, pg)]
               trunk == [f.trunk EXCEPT ![1] = t1]
    <2>1. freePage2(f, pg) = [f EXCEPT !.trunk[1].leaves = Append(@, pg)]
      BY <1>2 DEF freePage2
    <2>2. f.trunk[1] \in TrunkType /\ 1 \in DOMAIN f.trunk
      BY <1>1, <1>2
    <2>3. t1 \in TrunkType
      <3> DEFINE t == f.trunk[1]
                 more == Append(t.leaves, pg)
      <3>1. t \in TrunkType
        BY <2>2
      <3> HIDE DEF t
      <3>2. more \in Seq(Nat)
        BY <3>1 DEF TrunkType
      <3> HIDE DEF more
      <3>3. [t EXCEPT !.leaves = more] \in TrunkType
        BY <3>1, <3>2 DEF TrunkType
      <3> QED BY <3>3 DEF t, more
    <2>4. freePage2(f, pg) = [f EXCEPT !.trunk = trunk]
      BY <2>1, <2>2 DEF FileType
    <2> HIDE DEF t1
    <2>5. trunk \in Seq(TrunkType)
      BY <1>1, <2>2, <2>3
    <2> HIDE DEF trunk
    <2> QED BY <2>4, <2>5 DEF FileType
  <1>3. CASE ~(f.trunk # << >> /\ Len(Head(f.trunk).leaves) < TRUNK)
    <2> DEFINE t == [pg |-> pg, leaves |-> << >>]
    <2>1. freePage2(f, pg) = [f EXCEPT !.trunk = <<t>> \o @]
      BY <1>3 DEF freePage2
    <2>2. t \in TrunkType
      BY DEF TrunkType
    <2> HIDE DEF t
    <2>3. <<t>> \o f.trunk \in Seq(TrunkType)
      BY <1>1, <2>2
    <2> QED BY <2>1, <2>3 DEF FileType
  <1> QED BY <1>2, <1>3

\* The free lists that FreeMany goes through exist.
LEMMA FreedExists ==
    ASSUME NEW f \in FileType, NEW pgs \in Seq(Nat)
    PROVE  \E freed : freed = FreedOf(f, pgs, freed)
  <1> DEFINE N == Len(pgs)
             D == 0 .. N
             h == [i \in D |-> i]
             G == [i \in D |-> [s \in [D -> FileType] |->
                     IF i = 0 THEN f ELSE freePage2(s[i - 1], pgs[i])]]
  <1>1. N \in Nat /\ \A i \in D : i # 0 => i - 1 \in D /\ i \in 1 .. N /\ pgs[i] \in Nat
    OBVIOUS
  <1>2. h \in [D -> 0 .. N]
    OBVIOUS
  <1>3. G \in [D -> [[D -> FileType] -> FileType]]
    <2> HIDE DEF D
    <2> QED BY <1>1, FreePageType
  <1>4. \A p \in D : \A g1, g2 \in [D -> FileType] :
           (\A q \in D : h[q] < h[p] => g1[q] = g2[q]) => G[p][g1] = G[p][g2]
    <2>1. \A p \in D : p # 0 => p - 1 \in D /\ h[p - 1] < h[p]
      OBVIOUS
    <2> QED BY <2>1
  <1>5. Recursive(D, FileType, N, h, G)
    <2> HIDE DEF G, h, D, N
    <2> QED BY <1>1, <1>2, <1>3, <1>4 DEF Recursive
  <1>6. PICK freed : Solves(D, FileType, G, freed)
    <2> HIDE DEF D, h, G, N
    <2> QED BY <1>5, RecursionExists
  <1>7. freed = FreedOf(f, pgs, freed)
    BY <1>6 DEF Solves, FreedOf
  <1> QED BY <1>7

\* All of them are listed, and no other page is.
LEMMA ManyFreed ==
    ASSUME NEW f, FileOK(f), NEW pgs, AreUsed(f, pgs)
    PROVE  /\ FileOK(FreeMany(f, pgs))
           /\ Used(FreeMany(f, pgs)) = Used(f) \ {pgs[i] : i \in 1 .. Len(pgs)}
  <1> DEFINE N == Len(pgs)
             freed == CHOOSE g : g = FreedOf(f, pgs, g)
             Done(i) == FileOK(freed[i]) /\ Used(freed[i]) = Used(f) \ {pgs[j] : j \in 1 .. i}
             T == {i \in 0 .. N : ~Done(i)}
  <1>1. /\ pgs \in Seq(Nat) /\ N \in Nat
        /\ \A i \in 1 .. N : pgs[i] \in Used(f)
        /\ \A i, j \in 1 .. N : pgs[i] = pgs[j] => i = j
    BY DEF AreUsed
  <1>2. FreeMany(f, pgs) = freed[N]
    BY DEF FreeMany, FreedOf
  <1>3. freed = FreedOf(f, pgs, freed)
    <2>1. f \in FileType
      BY DEF FileOK
    <2> QED BY <1>1, <2>1, FreedExists
  <1> HIDE DEF freed
  <1>4. \A i \in 0 .. N : freed[i] = IF i = 0 THEN f ELSE freePage2(freed[i - 1], pgs[i])
    BY <1>3 DEF FreedOf
  <1> HIDE DEF N
  <1>5. T = {}
    <2>1. SUFFICES ASSUME T # {} PROVE FALSE
      OBVIOUS
    <2>2. PICK i \in T : \A j \in T : i <= j
      <3>1. T \subseteq Nat
        OBVIOUS
      <3> HIDE DEF T
      <3> QED BY <2>1, <3>1, LeastOf
    <2>3. i \in 0 .. N /\ ~Done(i) /\ i \in Nat
      BY <2>2
    <2>4. CASE i = 0
      <3>1. freed[0] = f
        BY <1>1, <1>4
      <3>2. (1 .. 0) = {}
        OBVIOUS
      <3> QED BY <2>3, <2>4, <3>1, <3>2
    <2>5. CASE i # 0
      <3>1. i - 1 \in 0 .. N /\ i \in 1 .. N /\ ~(i <= i - 1)
            /\ \A j \in 1 .. i - 1 : j \in 1 .. N /\ j # i
            /\ (\A e \in 1 .. i : (e \in 1 .. i - 1 \/ e = i))
            /\ i \in 1 .. i
        BY <1>1, <2>3, <2>5
      <3>2. Done(i - 1)
        <4>1. i - 1 \notin T
          <5> HIDE DEF T
          <5> QED BY <2>2, <3>1
        <4> HIDE DEF Done
        <4> QED BY <3>1, <4>1
      <3>3. pgs[i] \in Used(freed[i - 1])
        <4>1. pgs[i] \in Used(f)
          BY <1>1, <3>1
        <4>2. \A j \in 1 .. i - 1 : pgs[j] # pgs[i]
          BY <1>1, <3>1
        <4> QED BY <3>2, <4>1, <4>2
      <3>4. freed[i] = freePage2(freed[i - 1], pgs[i])
        BY <1>4, <2>3, <2>5
      <3>5. Freeing(freed[i - 1], pgs[i], freed[i])
        BY <3>2, <3>3, <3>4, PageFreed
      <3>6. FileOK(freed[i]) /\ Used(freed[i]) = Used(freed[i - 1]) \ {pgs[i]}
        BY <3>5 DEF Freeing
      <3>7. {pgs[j] : j \in 1 .. i} = {pgs[j] : j \in 1 .. i - 1} \cup {pgs[i]}
        <4>1. \A j \in 1 .. i - 1 : j \in 1 .. i
          BY <2>3
        <4> QED BY <3>1, <4>1
      <3> QED BY <2>3, <3>2, <3>6, <3>7
    <2> QED BY <2>4, <2>5
  <1>6. Done(N)
    <2>1. N \in 0 .. N
      BY <1>1
    <2> HIDE DEF Done
    <2> QED BY <1>5, <2>1
  <1> QED BY <1>2, <1>6 DEF N

NodeType == [leaf : BOOLEAN, cell : Seq(CellType), right : Nat]
Turns(n) == 1 .. Len(n.cell) + 1

Nodes(nd) == nd \in [DOMAIN nd -> NodeType] /\ DOMAIN nd \subseteq Nat /\ ROOT \in DOMAIN nd

\* A page's height: leaves have none, a page is one above all its children.
Levels(nd, h, N) ==
    /\ N \in Nat /\ h \in [DOMAIN nd -> 0 .. N]
    /\ \A p \in DOMAIN nd : nd[p].leaf <=> h[p] = 0
    /\ \A p \in DOMAIN nd : ~nd[p].leaf =>
          \A j \in Turns(nd[p]) : /\ Child(nd[p], j) \in DOMAIN nd \ {ROOT}
                                  /\ h[Child(nd[p], j)] + 1 = h[p]
Levelled(nd) == \E h, N : Levels(nd, h, N)

StepType == [pg : Nat, ix : Nat]

\* From a page down, each step by the child that it names.
IsWay(nd, way, pg) ==
    /\ way \in Seq(StepType) /\ way # << >> /\ way[1].pg = pg
    /\ \A i \in 1 .. Len(way) : way[i].pg \in DOMAIN nd
    /\ \A i \in 1 .. Len(way) - 1 :
          /\ ~nd[way[i].pg].leaf
          /\ way[i].ix \in Turns(nd[way[i].pg])
          /\ Child(nd[way[i].pg], way[i].ix) = way[i + 1].pg

IsPath(nd, path) == IsWay(nd, path, ROOT)

\* The last step of a way is on a page of the tree.
LEMMA WayLast ==
    ASSUME NEW nd, NEW way, NEW pg, IsWay(nd, way, pg)
    PROVE  /\ Len(way) \in Nat \ {0} /\ Last(way) = way[Len(way)] /\ way[Len(way)] \in StepType
           /\ Last(way).pg \in DOMAIN nd /\ Last(way).ix \in Nat
           /\ pg \in DOMAIN nd
  <1>1. way \in Seq(StepType) /\ way # << >> /\ way[1].pg = pg
        /\ \A i \in 1 .. Len(way) : way[i].pg \in DOMAIN nd
    BY DEF IsWay
  <1>2. Len(way) \in Nat \ {0} /\ Last(way) = way[Len(way)] /\ way[Len(way)] \in StepType
        /\ Len(way) \in 1 .. Len(way) /\ 1 \in 1 .. Len(way)
    BY <1>1 DEF Last
  <1> QED BY <1>1, <1>2 DEF StepType

\* A way, and on from the child its last step names.
LEMMA WaysJoin ==
    ASSUME NEW nd, NEW way, NEW pg, IsWay(nd, way, pg),
           ~nd[Last(way).pg].leaf, Last(way).ix \in Turns(nd[Last(way).pg]),
           NEW down, IsWay(nd, down, Child(nd[Last(way).pg], Last(way).ix))
    PROVE  /\ IsWay(nd, way \o down, pg) /\ Last(way \o down) = Last(down)
           /\ Len(way \o down) = Len(way) + Len(down)
           /\ \A i \in 1 .. Len(way) : (way \o down)[i] = way[i]
           /\ \A i \in 1 .. Len(down) : (way \o down)[Len(way) + i] = down[i]
  <1> DEFINE m == Len(way)
             n == Len(down)
             both == way \o down
  <1>1. /\ way \in Seq(StepType) /\ way # << >> /\ way[1].pg = pg
        /\ \A i \in 1 .. m : way[i].pg \in DOMAIN nd
        /\ \A i \in 1 .. m - 1 :
              /\ ~nd[way[i].pg].leaf
              /\ way[i].ix \in Turns(nd[way[i].pg])
              /\ Child(nd[way[i].pg], way[i].ix) = way[i + 1].pg
    BY DEF IsWay
  <1>2. /\ down \in Seq(StepType) /\ down # << >>
        /\ down[1].pg = Child(nd[Last(way).pg], Last(way).ix)
        /\ \A i \in 1 .. n : down[i].pg \in DOMAIN nd
        /\ \A i \in 1 .. n - 1 :
              /\ ~nd[down[i].pg].leaf
              /\ down[i].ix \in Turns(nd[down[i].pg])
              /\ Child(nd[down[i].pg], down[i].ix) = down[i + 1].pg
    BY DEF IsWay
  <1>3. m \in Nat /\ n \in Nat /\ m >= 1 /\ n >= 1 /\ Last(way) = way[m] /\ Last(down) = down[n]
    BY <1>1, <1>2 DEF Last
  <1>4. /\ both \in Seq(StepType) /\ Len(both) = m + n
        /\ \A i \in 1 .. m : both[i] = way[i]
        /\ \A i \in 1 .. n : both[m + i] = down[i]
    BY <1>1, <1>2
  <1> HIDE DEF m, n, both
  <1>5. both # << >> /\ Last(both) = both[m + n]
    BY <1>3, <1>4 DEF Last
  <1>6. Last(both) = Last(down) /\ both[1] = way[1]
    <2>1. n \in 1 .. n /\ 1 \in 1 .. m
      BY <1>3
    <2> QED BY <1>3, <1>4, <1>5, <2>1
  <1>7. ASSUME NEW i \in 1 .. m + n PROVE both[i].pg \in DOMAIN nd
    <2>1. CASE i <= m
      BY <1>1, <1>3, <1>4, <2>1
    <2>2. CASE i > m
      <3>1. i - m \in 1 .. n /\ m + (i - m) = i
        BY <1>3, <2>2
      <3> QED BY <1>2, <1>4, <3>1
    <2> QED BY <1>3, <2>1, <2>2
  <1>8. ASSUME NEW i \in 1 .. m + n - 1
        PROVE  /\ ~nd[both[i].pg].leaf
               /\ both[i].ix \in Turns(nd[both[i].pg])
               /\ Child(nd[both[i].pg], both[i].ix) = both[i + 1].pg
    <2>1. CASE i < m
      <3>1. i \in 1 .. m - 1 /\ i \in 1 .. m /\ i + 1 \in 1 .. m
        BY <1>3, <2>1
      <3> QED BY <1>1, <1>4, <3>1
    <2>2. CASE i = m
      <3>1. m \in 1 .. m /\ 1 \in 1 .. n
        BY <1>3
      <3>2. both[i] = Last(way) /\ both[i + 1] = down[1]
        BY <1>3, <1>4, <2>2, <3>1
      <3> QED BY <1>2, <3>2
    <2>3. CASE i > m
      <3>1. i - m \in 1 .. n - 1 /\ i - m \in 1 .. n /\ m + (i - m) = i
            /\ (i - m) + 1 \in 1 .. n /\ m + ((i - m) + 1) = i + 1
        BY <1>3, <2>3
      <3>2. both[i] = down[i - m] /\ both[i + 1] = down[(i - m) + 1]
        BY <1>4, <3>1
      <3> QED BY <1>2, <3>1, <3>2
    <2> QED BY <1>3, <2>1, <2>2, <2>3
  <1>9. IsWay(nd, both, pg)
    <2>1. both \in Seq(StepType) /\ both # << >> /\ both[1].pg = pg /\ Len(both) = m + n
      BY <1>1, <1>4, <1>5, <1>6
    <2>2. \A i \in 1 .. Len(both) : both[i].pg \in DOMAIN nd
      BY <1>7, <2>1
    <2>3. \A i \in 1 .. Len(both) - 1 :
             /\ ~nd[both[i].pg].leaf
             /\ both[i].ix \in Turns(nd[both[i].pg])
             /\ Child(nd[both[i].pg], both[i].ix) = both[i + 1].pg
      <3>1. ASSUME NEW i \in 1 .. Len(both) - 1 PROVE i \in 1 .. m + n - 1
        BY <1>3, <2>1
      <3>2. \A i \in 1 .. m + n - 1 :
             /\ ~nd[both[i].pg].leaf
             /\ both[i].ix \in Turns(nd[both[i].pg])
             /\ Child(nd[both[i].pg], both[i].ix) = both[i + 1].pg
        BY <1>8, Zenon
      <3> QED BY <3>1, <3>2, Zenon
    <2> QED BY <2>1, <2>2, <2>3, Zenon DEF IsWay
  <1> QED BY <1>4, <1>6, <1>9 DEF both, m, n

\* The beginning of a way, its last step turned to another place.
LEMMA WayCut ==
    ASSUME NEW nd, NEW way, NEW pg, IsWay(nd, way, pg), NEW k \in 1 .. Len(way), NEW ix \in Nat
    PROVE  LET cut == SubSeq(way, 1, k - 1) \o <<Step(way[k].pg, ix)>> IN
           /\ IsWay(nd, cut, pg) /\ Len(cut) = k /\ Last(cut) = Step(way[k].pg, ix)
           /\ \A i \in 1 .. k - 1 : cut[i] = way[i]
  <1> DEFINE m == Len(way)
             x == SubSeq(way, 1, k - 1)
             s == Step(way[k].pg, ix)
             cut == x \o <<s>>
  <1>1. /\ way \in Seq(StepType) /\ way # << >> /\ way[1].pg = pg /\ m \in Nat
        /\ \A i \in 1 .. m : way[i].pg \in DOMAIN nd /\ way[i] \in StepType
        /\ \A i \in 1 .. m - 1 :
              /\ ~nd[way[i].pg].leaf
              /\ way[i].ix \in Turns(nd[way[i].pg])
              /\ Child(nd[way[i].pg], way[i].ix) = way[i + 1].pg
    BY DEF IsWay
  <1>2. x \in Seq(StepType) /\ Len(x) = k - 1 /\ \A i \in 1 .. k - 1 : x[i] = way[i]
    <2>1. 0 \in 0 .. m /\ k - 1 \in 0 .. m /\ 0 <= k - 1 /\ 0 + 1 = 1 /\ (k - 1) - 0 = k - 1
          /\ \A i \in 1 .. k - 1 : 0 + i = i
      BY <1>1
    <2>2. LET t == SubSeq(way, 0 + 1, k - 1) IN
          t \in Seq(StepType) /\ Len(t) = (k - 1) - 0 /\ \A j \in 1 .. (k - 1) - 0 : t[j] = way[0 + j]
      BY <1>1, <2>1, PartOfCells
    <2> QED BY <2>1, <2>2
  <1>3. s \in StepType /\ s.pg = way[k].pg
    BY <1>1 DEF Step, StepType
  <1> HIDE DEF x, s, m
  <1>4. k \in Nat /\ k >= 1 /\ k - 1 \in Nat
    OBVIOUS
  <1>5. /\ cut \in Seq(StepType) /\ Len(cut) = k /\ cut[k] = s
        /\ \A i \in 1 .. k - 1 : cut[i] = way[i]
    BY <1>2, <1>3, <1>4
  <1> HIDE DEF cut
  <1>6. cut # << >> /\ Last(cut) = s
    BY <1>4, <1>5 DEF Last
  <1>7. \A i \in 1 .. k : cut[i].pg = way[i].pg /\ i \in 1 .. m
    <2>1. \A i \in 1 .. k : (i \in 1 .. k - 1 \/ i = k) /\ i \in 1 .. m
      BY <1>1, <1>4 DEF m
    <2> QED BY <1>3, <1>5, <2>1
  <1>8. cut[1].pg = pg
    BY <1>1, <1>4, <1>7
  <1>9. \A i \in 1 .. k - 1 : i \in 1 .. m - 1 /\ i \in 1 .. k /\ i + 1 \in 1 .. k
    BY <1>1, <1>4 DEF m
  <1>10. IsWay(nd, cut, pg)
    BY <1>1, <1>5, <1>6, <1>7, <1>8, <1>9 DEF IsWay
  <1> QED BY <1>5, <1>6, <1>10 DEF cut, x, s

\* The beginning of a way.
LEMMA WayPrefix ==
    ASSUME NEW nd, NEW way, NEW pg, IsWay(nd, way, pg), NEW k \in 1 .. Len(way)
    PROVE  LET cut == SubSeq(way, 1, k) IN
           /\ IsWay(nd, cut, pg) /\ Len(cut) = k /\ Last(cut) = way[k]
           /\ \A i \in 1 .. k : cut[i] = way[i]
  <1> DEFINE m == Len(way)
             cut == SubSeq(way, 1, k)
  <1>1. /\ way \in Seq(StepType) /\ way # << >> /\ way[1].pg = pg /\ m \in Nat
        /\ \A i \in 1 .. m : way[i].pg \in DOMAIN nd /\ way[i] \in StepType
        /\ \A i \in 1 .. m - 1 :
              /\ ~nd[way[i].pg].leaf
              /\ way[i].ix \in Turns(nd[way[i].pg])
              /\ Child(nd[way[i].pg], way[i].ix) = way[i + 1].pg
    BY DEF IsWay
  <1>2. cut \in Seq(StepType) /\ Len(cut) = k /\ \A i \in 1 .. k : cut[i] = way[i]
    <2>1. 0 \in 0 .. m /\ k \in 0 .. m /\ 0 <= k /\ 0 + 1 = 1 /\ k - 0 = k
          /\ \A i \in 1 .. k : 0 + i = i
      BY <1>1
    <2>2. LET t == SubSeq(way, 0 + 1, k) IN
          t \in Seq(StepType) /\ Len(t) = k - 0 /\ \A j \in 1 .. k - 0 : t[j] = way[0 + j]
      BY <1>1, <2>1, PartOfCells
    <2> QED BY <2>1, <2>2
  <1> HIDE DEF cut
  <1>3. k \in 1 .. m /\ m \in Nat /\ k \in 1 .. k /\ 1 \in 1 .. k
    BY <1>1
  <1> HIDE DEF m
  <1>4. cut # << >> /\ Last(cut) = way[k]
    BY <1>2, <1>3 DEF Last
  <1>5. /\ \A i \in 1 .. k : i \in 1 .. m
        /\ \A i \in 1 .. k - 1 : i \in 1 .. m - 1 /\ i \in 1 .. k /\ i + 1 \in 1 .. k
    BY <1>3
  <1>6. IsWay(nd, cut, pg)
    BY <1>1, <1>2, <1>3, <1>4, <1>5 DEF IsWay
  <1> QED BY <1>2, <1>4, <1>6 DEF cut

\* The pages of a way are each one below the one before.
LEMMA WayLevels ==
    ASSUME NEW nd, NEW h, NEW N, Levels(nd, h, N), NEW way, NEW pg, IsWay(nd, way, pg)
    PROVE  \A i \in 1 .. Len(way) : h[way[i].pg] + (i - 1) = h[pg] /\ h[way[i].pg] \in Nat
  <1> DEFINE m == Len(way)
             T == {i \in 1 .. m : h[way[i].pg] + (i - 1) # h[pg]}
  <1>1. /\ way[1].pg = pg /\ m \in Nat /\ m >= 1
        /\ \A i \in 1 .. m : way[i].pg \in DOMAIN nd
        /\ \A i \in 1 .. m - 1 :
              /\ ~nd[way[i].pg].leaf
              /\ way[i].ix \in Turns(nd[way[i].pg])
              /\ Child(nd[way[i].pg], way[i].ix) = way[i + 1].pg
    BY DEF IsWay
  <1>2. /\ \A p \in DOMAIN nd : h[p] \in Nat
        /\ \A p \in DOMAIN nd : ~nd[p].leaf =>
              \A j \in Turns(nd[p]) : h[Child(nd[p], j)] + 1 = h[p]
    BY DEF Levels
  <1> HIDE DEF m
  <1>3. T = {}
    <2>1. SUFFICES ASSUME T # {} PROVE FALSE
      OBVIOUS
    <2>2. PICK i \in T : \A j \in T : i <= j
      <3>1. T \subseteq Nat
        OBVIOUS
      <3> HIDE DEF T
      <3> QED BY <2>1, <3>1, LeastOf
    <2>3. i \in 1 .. m /\ h[way[i].pg] + (i - 1) # h[pg]
      BY <2>2
    <2>4. i # 1
      <3>1. way[1].pg \in DOMAIN nd /\ h[way[1].pg] \in Nat /\ h[way[1].pg] = h[pg]
        <4>1. 1 \in 1 .. m
          BY <1>1
        <4> QED BY <1>1, <1>2, <4>1
      <3> QED BY <2>3, <3>1
    <2>5. i - 1 \in 1 .. m /\ i - 1 \in 1 .. m - 1 /\ (i - 1) + 1 = i /\ ~(i <= i - 1)
      BY <1>1, <2>3, <2>4
    <2>6. h[way[i - 1].pg] + ((i - 1) - 1) = h[pg]
      <3>1. i - 1 \notin T
        <4> HIDE DEF T
        <4> QED BY <2>2, <2>5
      <3> QED BY <2>5, <3>1
    <2>7. h[way[i].pg] + 1 = h[way[i - 1].pg]
      <3> DEFINE k == i - 1
      <3>1. k \in 1 .. m - 1 /\ k \in 1 .. m /\ k + 1 = i
        BY <2>5
      <3> HIDE DEF k
      <3>2. /\ ~nd[way[k].pg].leaf /\ way[k].pg \in DOMAIN nd
            /\ way[k].ix \in Turns(nd[way[k].pg])
            /\ Child(nd[way[k].pg], way[k].ix) = way[i].pg
        BY <1>1, <3>1
      <3>3. h[way[i].pg] + 1 = h[way[k].pg]
        BY <1>2, <3>2
      <3> QED BY <3>3 DEF k
    <2>8. h[way[i].pg] \in Nat /\ h[way[i - 1].pg] \in Nat /\ i \in Nat
      BY <1>1, <1>2, <2>3, <2>5
    <2>9. h[way[i].pg] + (i - 1) = h[pg]
      BY <2>6, <2>7, <2>8
    <2> QED BY <2>3, <2>9
  <1>4. \A i \in 1 .. m : h[way[i].pg] + (i - 1) = h[pg]
    BY <1>3
  <1> QED BY <1>1, <1>2, <1>4 DEF m

\* No page is met twice.
LEMMA WayOnce ==
    ASSUME NEW nd, Levelled(nd), NEW way, NEW pg, IsWay(nd, way, pg)
    PROVE  \A i, j \in 1 .. Len(way) : way[i].pg = way[j].pg => i = j
  <1>1. PICK h, N : Levels(nd, h, N)
    BY DEF Levelled
  <1>2. \A i \in 1 .. Len(way) : h[way[i].pg] + (i - 1) = h[pg] /\ h[way[i].pg] \in Nat
    BY <1>1, WayLevels
  <1>3. ASSUME NEW i \in 1 .. Len(way), NEW j \in 1 .. Len(way), way[i].pg = way[j].pg PROVE i = j
    <2>1. h[way[i].pg] + (i - 1) = h[way[i].pg] + (j - 1) /\ h[way[i].pg] \in Nat /\ i \in Nat /\ j \in Nat
      BY <1>2, <1>3
    <2> QED BY <2>1
  <1> QED BY <1>3

\* The equation that the ways down solve.
WaysOf(ix, ends, way) ==
    [p \in DOMAIN node |->
       <<Step(p, ix[p])>> \o (IF p \in ends THEN << >> ELSE way[Child(node[p], ix[p])])]

Leads(ix, ends) ==
    /\ Nodes(node) /\ Levelled(node)
    /\ ix \in [DOMAIN node -> Nat]
    /\ \A p \in DOMAIN node : node[p].leaf => p \in ends
    /\ \A p \in DOMAIN node : p \notin ends => ix[p] \in Turns(node[p])

\* The ways down that WayDown computes exist.
LEMMA WaysExist ==
    ASSUME NEW ix, NEW ends, Leads(ix, ends)
    PROVE  \E way : way = WaysOf(ix, ends, way)
  <1>1. PICK h, N : Levels(node, h, N)
    BY DEF Leads, Levelled
  <1> DEFINE D == DOMAIN node
             S == Seq(StepType)
             G == [p \in D |-> [s \in [D -> S] |->
                     <<Step(p, ix[p])>> \o (IF p \in ends THEN << >> ELSE s[Child(node[p], ix[p])])]]
  <1>2. /\ N \in Nat /\ h \in [D -> 0 .. N] /\ D \subseteq Nat
        /\ ix \in [D -> Nat]
        /\ \A p \in D : p \notin ends =>
              Child(node[p], ix[p]) \in D /\ h[Child(node[p], ix[p])] + 1 = h[p]
    BY <1>1 DEF Levels, Leads, Nodes
  <1>3. \A p \in D : p \notin ends => h[Child(node[p], ix[p])] < h[p]
    <2>1. \A p \in D : h[p] \in Nat
      BY <1>2
    <2> QED BY <1>2, <2>1
  <1> HIDE DEF D
  <1>4. S # {}
    <2>1. << >> \in S
      OBVIOUS
    <2> QED BY <2>1
  <1>5. G \in [D -> [[D -> S] -> S]]
    <2>1. \A p \in D : <<Step(p, ix[p])>> \in S
      BY <1>2 DEF Step, StepType
    <2>2. << >> \in S /\ \A x, y \in S : x \o y \in S
      OBVIOUS
    <2> HIDE DEF S
    <2> QED BY <1>2, <2>1, <2>2
  <1>6. \A p \in D : \A f, g \in [D -> S] :
           (\A q \in D : h[q] < h[p] => f[q] = g[q]) => G[p][f] = G[p][g]
    BY <1>2, <1>3
  <1>7. Recursive(D, S, N, h, G)
    <2> HIDE DEF G, S
    <2> QED BY <1>2, <1>4, <1>5, <1>6 DEF Recursive
  <1>8. PICK way : Solves(D, S, G, way)
    <2> HIDE DEF G, S
    <2> QED BY <1>7, RecursionExists
  <1>9. way = WaysOf(ix, ends, way)
    BY <1>8 DEF Solves, WaysOf, D
  <1> QED BY <1>9

\* WayDown goes from a page by the places it is given to one of its ends.
IsDown(way, pg, ix, ends) ==
    /\ IsWay(node, way, pg) /\ Last(way).pg \in ends
    /\ \A i \in 1 .. Len(way) : way[i].ix = ix[way[i].pg]

\* A way of one step.
LEMMA OneStep ==
    ASSUME NEW nd, NEW pg \in DOMAIN nd, pg \in Nat, NEW ix \in Nat
    PROVE  /\ IsWay(nd, <<Step(pg, ix)>>, pg) /\ Last(<<Step(pg, ix)>>) = Step(pg, ix)
           /\ Len(<<Step(pg, ix)>>) = 1 /\ <<Step(pg, ix)>>[1] = Step(pg, ix)
           /\ Step(pg, ix).pg = pg /\ Step(pg, ix).ix = ix
  <1> DEFINE s == Step(pg, ix)
             way == <<s>>
  <1>1. s \in StepType /\ s.pg = pg /\ s.ix = ix
    BY DEF Step, StepType
  <1> HIDE DEF s
  <1>2. way \in Seq(StepType) /\ Len(way) = 1 /\ way[1] = s /\ way # << >>
    BY <1>1
  <1> HIDE DEF way
  <1>3. Last(way) = s
    BY <1>2 DEF Last
  <1>4. (1 .. 1 - 1) = {} /\ \A i \in 1 .. 1 : i = 1
    OBVIOUS
  <1>5. IsWay(nd, way, pg)
    BY <1>1, <1>2, <1>4 DEF IsWay
  <1> QED BY <1>1, <1>2, <1>3, <1>5 DEF way, s

\* WayDown leads from a page to one of the ends, by the places it is given.
LEMMA WayDownIs ==
    ASSUME NEW ix, NEW ends, Leads(ix, ends), NEW pg \in DOMAIN node
    PROVE  IsDown(WayDown(pg, ix, ends), pg, ix, ends)
  <1>1. PICK h, N : Levels(node, h, N)
    BY DEF Leads, Levelled
  <1> DEFINE D == DOMAIN node
             way == CHOOSE g : g = WaysOf(ix, ends, g)
             W == {p \in D : ~IsDown(way[p], p, ix, ends)}
             T == {h[p] : p \in W}
  <1>2. /\ N \in Nat /\ h \in [D -> 0 .. N] /\ D \subseteq Nat
        /\ ix \in [D -> Nat]
        /\ \A p \in D : p \notin ends =>
              /\ ix[p] \in Turns(node[p]) /\ ~node[p].leaf
              /\ Child(node[p], ix[p]) \in D /\ h[Child(node[p], ix[p])] + 1 = h[p]
    BY <1>1 DEF Levels, Leads, Nodes
  <1>3. WayDown(pg, ix, ends) = way[pg]
    BY DEF WayDown, WaysOf
  <1>4. way = WaysOf(ix, ends, way)
    BY WaysExist
  <1> HIDE DEF way
  <1>5. \A p \in D : way[p] = <<Step(p, ix[p])>>
                                \o (IF p \in ends THEN << >> ELSE way[Child(node[p], ix[p])])
    BY <1>4 DEF WaysOf
  <1> HIDE DEF D
  <1>6. W = {}
    <2>1. SUFFICES ASSUME W # {} PROVE FALSE
      OBVIOUS
    <2>2. T \subseteq Nat /\ T # {}
      <3>1. W \subseteq D
        OBVIOUS
      <3> HIDE DEF W
      <3>2. \A p \in D : h[p] \in Nat
        BY <1>2
      <3> QED BY <2>1, <3>1, <3>2
    <2>3. PICK n \in T : \A x \in T : n <= x
      <3> HIDE DEF T
      <3> QED BY <2>2, LeastOf
    <2>4. PICK p \in W : n = h[p]
      BY <2>3
    <2>5. p \in D /\ ~IsDown(way[p], p, ix, ends) /\ ix[p] \in Nat /\ p \in Nat
      BY <1>2, <2>4
    <2> DEFINE one == <<Step(p, ix[p])>>
    <2>6. /\ IsWay(node, one, p) /\ Last(one) = Step(p, ix[p]) /\ Len(one) = 1
          /\ one[1] = Step(p, ix[p]) /\ Step(p, ix[p]).pg = p /\ Step(p, ix[p]).ix = ix[p]
      BY <2>5, OneStep DEF D
    <2>7. CASE p \in ends
      <3>1. way[p] = one
        <4>1. one \in Seq(StepType)
          BY <2>6 DEF IsWay
        <4>2. one \o << >> = one
          BY <4>1
        <4> QED BY <1>5, <2>5, <2>7, <4>2
      <3>2. IsDown(one, p, ix, ends)
        <4>1. \A i \in 1 .. 1 : i = 1
          OBVIOUS
        <4> HIDE DEF one
        <4> QED BY <2>6, <2>7, <4>1 DEF IsDown
      <3> QED BY <2>5, <3>1, <3>2
    <2>8. CASE p \notin ends
      <3> DEFINE c == Child(node[p], ix[p])
                 down == way[c]
      <3>1. c \in D /\ h[c] + 1 = h[p] /\ ix[p] \in Turns(node[p]) /\ ~node[p].leaf
        BY <1>2, <2>5, <2>8
      <3>2. IsDown(down, c, ix, ends)
        <4>1. h[c] \in Nat /\ h[p] \in Nat /\ ~(h[p] <= h[c])
          <5> HIDE DEF c
          <5>1. h[c] \in Nat /\ h[p] \in Nat
            BY <1>2, <2>5, <3>1
          <5> QED BY <3>1, <5>1
        <4>2. h[c] \notin T
          <5> HIDE DEF T, c
          <5> QED BY <2>3, <2>4, <4>1
        <4>3. c \notin W
          <5> HIDE DEF W, c
          <5> QED BY <4>2
        <4> HIDE DEF c
        <4> QED BY <3>1, <4>3
      <3>3. way[p] = one \o down
        BY <1>5, <2>5, <2>8
      <3> HIDE DEF one, down, c
      <3>4. IsWay(node, down, c) /\ Last(down).pg \in ends /\ \A i \in 1 .. Len(down) : down[i].ix = ix[down[i].pg]
        BY <3>2 DEF IsDown
      <3>5. /\ IsWay(node, one \o down, p) /\ Last(one \o down) = Last(down)
            /\ Len(one \o down) = 1 + Len(down)
            /\ \A i \in 1 .. 1 : (one \o down)[i] = one[i]
            /\ \A i \in 1 .. Len(down) : (one \o down)[1 + i] = down[i]
        <4>1. ~node[Last(one).pg].leaf /\ Last(one).ix \in Turns(node[Last(one).pg])
              /\ c = Child(node[Last(one).pg], Last(one).ix)
          BY <2>6, <3>1 DEF c
        <4>2. IsWay(node, down, Child(node[Last(one).pg], Last(one).ix))
          BY <3>4, <4>1
        <4>3. /\ IsWay(node, one \o down, p) /\ Last(one \o down) = Last(down)
              /\ Len(one \o down) = Len(one) + Len(down)
              /\ \A i \in 1 .. Len(one) : (one \o down)[i] = one[i]
              /\ \A i \in 1 .. Len(down) : (one \o down)[Len(one) + i] = down[i]
          <5>1. IsWay(node, one, p)
            BY <2>6
          <5> QED BY ONLY <4>1, <4>2, <5>1, WaysJoin
        <4>4. Len(one) = 1
          BY <2>6
        <4> QED BY ONLY <4>3, <4>4
      <3>6. ASSUME NEW i \in 1 .. 1 + Len(down)
            PROVE  (one \o down)[i].ix = ix[(one \o down)[i].pg]
        <4>0. Len(down) \in Nat
          BY <3>4, WayLast
        <4>1. CASE i = 1
          <5>1. 1 \in 1 .. 1
            OBVIOUS
          <5> QED BY <2>6, <3>5, <4>1, <5>1
        <4>2. CASE i # 1
          <5>1. i - 1 \in 1 .. Len(down) /\ 1 + (i - 1) = i
            BY <4>0, <4>2
          <5> QED BY <3>4, <3>5, <5>1
        <4> QED BY <4>1, <4>2
      <3>7. IsDown(one \o down, p, ix, ends)
        BY <3>4, <3>5, <3>6 DEF IsDown
      <3> QED BY <2>5, <3>3, <3>7
    <2> QED BY <2>7, <2>8
  <1>7. IsDown(way[pg], pg, ix, ends)
    BY <1>6 DEF D
  <1> QED BY <1>3, <1>7

\* Pages with cells, but for an empty tree's root.
Stocked == \A p \in DOMAIN node : node[p].cell = << >> => p = ROOT /\ node[p].leaf

Readable == Nodes(node) /\ Levelled(node) /\ Stocked /\ intkey \in BOOLEAN

\* An entry: in a table one on a leaf.
OnEntry(path) ==
    /\ IsPath(node, path)
    /\ Last(path).ix \in DOMAIN node[Last(path).pg].cell
    /\ intkey => node[Last(path).pg].leaf

OnLeafOf(way, pg) ==
    /\ IsWay(node, way, pg) /\ node[Last(way).pg].leaf
    /\ Last(way).ix \in DOMAIN node[Last(way).pg].cell

\* A page and its parts.
LEMMA NodeIs ==
    ASSUME NEW nd, Nodes(nd), NEW p \in DOMAIN nd
    PROVE  /\ nd[p] \in NodeType /\ nd[p].cell \in Seq(CellType) /\ nd[p].leaf \in BOOLEAN
           /\ nd[p].right \in Nat /\ Len(nd[p].cell) \in Nat
           /\ DOMAIN nd[p].cell = 1 .. Len(nd[p].cell) /\ p \in Nat
           /\ (nd[p].cell = << >> <=> Len(nd[p].cell) = 0)
  <1>1. nd[p] \in NodeType /\ p \in Nat
    BY DEF Nodes
  <1>2. nd[p].cell \in Seq(CellType) /\ nd[p].leaf \in BOOLEAN /\ nd[p].right \in Nat
    BY <1>1 DEF NodeType
  <1> QED BY <1>1, <1>2

\* A way ends where it began or on a child.
LEMMA WayEnd ==
    ASSUME NEW nd, Levelled(nd), NEW way, NEW pg, IsWay(nd, way, pg)
    PROVE  (Len(way) = 1 /\ Last(way).pg = pg) \/ (Len(way) > 1 /\ Last(way).pg # ROOT)
  <1>1. PICK h, N : Levels(nd, h, N)
    BY DEF Levelled
  <1>2. /\ way[1].pg = pg /\ Len(way) \in Nat \ {0} /\ Last(way) = way[Len(way)]
        /\ \A i \in 1 .. Len(way) : way[i].pg \in DOMAIN nd
        /\ \A i \in 1 .. Len(way) - 1 :
              /\ ~nd[way[i].pg].leaf
              /\ way[i].ix \in Turns(nd[way[i].pg])
              /\ Child(nd[way[i].pg], way[i].ix) = way[i + 1].pg
    <2>1. Len(way) \in Nat \ {0} /\ Last(way) = way[Len(way)]
      BY WayLast
    <2> QED BY <2>1 DEF IsWay
  <1>3. CASE Len(way) = 1
    BY <1>2, <1>3
  <1>4. CASE Len(way) # 1
    <2> DEFINE k == Len(way) - 1
    <2>0. Len(way) \in Nat \ {0}
      BY <1>2
    <2>1. k \in 1 .. Len(way) - 1 /\ k \in 1 .. Len(way) /\ k + 1 = Len(way) /\ Len(way) > 1
      <3>1. \A n \in Nat \ {0} : n # 1 => /\ n - 1 \in 1 .. n - 1 /\ n - 1 \in 1 .. n
                                            /\ (n - 1) + 1 = n /\ n > 1
        OBVIOUS
      <3> QED BY <1>4, <2>0, <3>1
    <2> HIDE DEF k
    <2>2. /\ ~nd[way[k].pg].leaf /\ way[k].ix \in Turns(nd[way[k].pg]) /\ way[k].pg \in DOMAIN nd
          /\ Child(nd[way[k].pg], way[k].ix) = way[k + 1].pg
      BY <1>2, <2>1
    <2>3. Child(nd[way[k].pg], way[k].ix) # ROOT
      BY <1>1, <2>2 DEF Levels
    <2> QED BY <1>2, <2>1, <2>2, <2>3
  <1> QED BY <1>3, <1>4

\* The left- and the rightmost leaf below a page.
LEMMA LeftmostIs ==
    ASSUME Readable, NEW pg \in DOMAIN node, pg # ROOT \/ node[ROOT].cell # << >>
    PROVE  OnLeafOf(moveToLeftmost(pg), pg) /\ Last(moveToLeftmost(pg)).ix = 1
  <1> DEFINE ix == [p \in DOMAIN node |-> 1]
             way == moveToLeftmost(pg)
  <1>1. \A p \in DOMAIN node : 1 \in Turns(node[p])
    <2>1. \A p \in DOMAIN node : Len(node[p].cell) \in Nat
      BY NodeIs DEF Readable
    <2> QED BY <2>1 DEF Turns
  <1>2. Leads(ix, Leaves)
    <2>1. Nodes(node) /\ Levelled(node)
      BY DEF Readable
    <2>2. ix \in [DOMAIN node -> Nat] /\ \A p \in DOMAIN node : ix[p] = 1
      OBVIOUS
    <2>3. \A p \in DOMAIN node : node[p].leaf => p \in Leaves
      BY DEF Leaves
    <2> HIDE DEF ix
    <2> QED BY <1>1, <2>1, <2>2, <2>3 DEF Leads
  <1>3. IsDown(way, pg, ix, Leaves)
    <2> HIDE DEF ix
    <2>1. IsDown(WayDown(pg, ix, Leaves), pg, ix, Leaves)
      BY <1>2, WayDownIs
    <2> QED BY <2>1 DEF moveToLeftmost, ix
  <1> HIDE DEF way
  <1>4. /\ IsWay(node, way, pg) /\ Last(way).pg \in Leaves
        /\ \A i \in 1 .. Len(way) : way[i].ix = ix[way[i].pg]
    BY <1>3 DEF IsDown
  <1>5. Len(way) \in 1 .. Len(way) /\ Last(way) = way[Len(way)] /\ Last(way).pg \in DOMAIN node
    BY <1>4, WayLast
  <1>6. Last(way).ix = 1
    BY <1>4, <1>5
  <1>7. node[Last(way).pg].cell # << >>
    BY <1>4, <1>5, WayEnd DEF Readable, Stocked
  <1>8. 1 \in DOMAIN node[Last(way).pg].cell
    BY <1>5, <1>7, NodeIs DEF Readable
  <1> QED BY <1>4, <1>6, <1>8 DEF OnLeafOf, Leaves, way

\* moveToRightmost ends after the last cell of a leaf.
LEMMA RightmostIs ==
    ASSUME Readable, NEW pg \in DOMAIN node, pg # ROOT \/ node[ROOT].cell # << >>
    PROVE  /\ OnLeafOf(moveToRightmost(pg), pg)
           /\ Last(moveToRightmost(pg)).ix = Len(node[Last(moveToRightmost(pg)).pg].cell)
  <1> DEFINE ix == [p \in DOMAIN node |-> Len(node[p].cell) + (IF node[p].leaf THEN 0 ELSE 1)]
             way == moveToRightmost(pg)
  <1>0. \A p \in DOMAIN node : Len(node[p].cell) \in Nat
    BY NodeIs DEF Readable
  <1>1. ASSUME NEW p \in DOMAIN node
        PROVE  /\ ix[p] \in Nat /\ (~node[p].leaf => ix[p] \in Turns(node[p]))
               /\ node[p].leaf => ix[p] = Len(node[p].cell)
    <2> DEFINE n == Len(node[p].cell)
    <2>1. ix[p] = n + (IF node[p].leaf THEN 0 ELSE 1) /\ n \in Nat
      BY <1>0
    <2> HIDE DEF n, ix
    <2>2. ix[p] \in Nat /\ (~node[p].leaf => ix[p] \in 1 .. n + 1) /\ (node[p].leaf => ix[p] = n)
      BY ONLY <2>1
    <2> QED BY <2>2 DEF Turns, n
  <1>2. Leads(ix, Leaves)
    <2>1. Nodes(node) /\ Levelled(node)
      BY DEF Readable
    <2>2. ix \in [DOMAIN node -> Nat]
      <3>1. ix = [p \in DOMAIN node |-> ix[p]]
        OBVIOUS
      <3> HIDE DEF ix
      <3>2. \A p \in DOMAIN node : ix[p] \in Nat
        BY <1>1
      <3> QED BY <3>1, <3>2
    <2>3. \A p \in DOMAIN node : node[p].leaf <=> p \in Leaves
      BY DEF Leaves
    <2> HIDE DEF ix
    <2> QED BY <1>1, <2>1, <2>2, <2>3 DEF Leads
  <1>3. IsDown(way, pg, ix, Leaves)
    <2> HIDE DEF ix
    <2>1. IsDown(WayDown(pg, ix, Leaves), pg, ix, Leaves)
      BY <1>2, WayDownIs
    <2> QED BY <2>1 DEF moveToRightmost, ix
  <1> HIDE DEF way
  <1>4. /\ IsWay(node, way, pg) /\ Last(way).pg \in Leaves
        /\ \A i \in 1 .. Len(way) : way[i].ix = ix[way[i].pg]
    BY <1>3 DEF IsDown
  <1>5. Len(way) \in 1 .. Len(way) /\ Last(way) = way[Len(way)] /\ Last(way).pg \in DOMAIN node
    BY <1>4, WayLast
  <1>6. node[Last(way).pg].leaf
    BY <1>4 DEF Leaves
  <1>7. Last(way).ix = Len(node[Last(way).pg].cell)
    <2> HIDE DEF ix
    <2> QED BY <1>1, <1>4, <1>5, <1>6
  <1>8. node[Last(way).pg].cell # << >>
    BY <1>4, <1>5, WayEnd DEF Readable, Stocked
  <1>9. Last(way).ix \in DOMAIN node[Last(way).pg].cell
    BY <1>5, <1>7, <1>8, NodeIs DEF Readable
  <1> QED BY <1>4, <1>6, <1>7, <1>9 DEF OnLeafOf, way

\* On from a place on an interior page.
LEMMA ChildIs ==
    ASSUME Readable, NEW p \in DOMAIN node, ~node[p].leaf, NEW j \in Turns(node[p])
    PROVE  Child(node[p], j) \in DOMAIN node /\ Child(node[p], j) # ROOT
  <1>1. PICK h, N : Levels(node, h, N)
    BY DEF Readable, Levelled
  <1> QED BY <1>1 DEF Levels

\* From a place on an interior page on to a leaf.
LEMMA BelowIsEntry ==
    ASSUME Readable, NEW path, IsPath(node, path), ~node[Last(path).pg].leaf,
           Last(path).ix \in Turns(node[Last(path).pg]),
           NEW down, OnLeafOf(down, Child(node[Last(path).pg], Last(path).ix))
    PROVE  OnEntry(path \o down) /\ Last(path \o down) = Last(down)
  <1>1. IsWay(node, down, Child(node[Last(path).pg], Last(path).ix))
    BY DEF OnLeafOf
  <1>2. IsWay(node, path, ROOT)
    BY DEF IsPath
  <1>3. IsWay(node, path \o down, ROOT) /\ Last(path \o down) = Last(down)
    BY <1>1, <1>2, WaysJoin
  <1> QED BY <1>3 DEF OnEntry, OnLeafOf, IsPath

\* From a cell of an interior page to the first entry after it.
LEMMA NextChildIs ==
    ASSUME Readable, NEW path, IsPath(node, path), ~node[Last(path).pg].leaf,
           Last(path).ix \in DOMAIN node[Last(path).pg].cell
    PROVE  OnEntry(NextChild(path)) /\ node[Last(NextChild(path)).pg].leaf
  <1> DEFINE here == Last(path)
             ix == here.ix + 1
             cut == SubSeq(path, 1, Len(path) - 1) \o <<Step(here.pg, ix)>>
             down == moveToLeftmost(Child(node[here.pg], ix))
  <1>1. /\ Len(path) \in 1 .. Len(path) /\ here = path[Len(path)]
        /\ here.pg \in DOMAIN node /\ here.ix \in Nat
    BY WayLast DEF IsPath
  <1>2. Len(node[here.pg].cell) \in Nat /\ here.ix \in 1 .. Len(node[here.pg].cell)
    BY <1>1, NodeIs DEF Readable
  <1>3. ix \in Turns(node[here.pg]) /\ ix \in Nat
    BY <1>2 DEF Turns
  <1> HIDE DEF ix
  <1>4. IsPath(node, cut) /\ Last(cut) = Step(here.pg, ix)
    BY <1>1, <1>3, WayCut DEF IsPath
  <1>5. Last(cut).pg = here.pg /\ Last(cut).ix = ix
    BY <1>4 DEF Step
  <1> HIDE DEF cut, here
  <1>6. OnLeafOf(down, Child(node[here.pg], ix))
    <2>1. Child(node[here.pg], ix) \in DOMAIN node /\ Child(node[here.pg], ix) # ROOT
      BY <1>1, <1>3, ChildIs DEF here
    <2> QED BY <2>1, LeftmostIs
  <1> HIDE DEF down
  <1>7. OnEntry(cut \o down) /\ Last(cut \o down) = Last(down)
    BY <1>3, <1>4, <1>5, <1>6, BelowIsEntry DEF here
  <1>8. NextChild(path) = cut \o down
    BY DEF NextChild, Front, cut, down, here, ix
  <1> QED BY <1>6, <1>7, <1>8 DEF OnLeafOf

\* From a cell of an interior page to the last entry before it.
LEMMA LastBeforeIs ==
    ASSUME Readable, NEW path, IsPath(node, path), ~node[Last(path).pg].leaf,
           Last(path).ix \in DOMAIN node[Last(path).pg].cell
    PROVE  /\ OnEntry(LastBefore(path)) /\ node[Last(LastBefore(path)).pg].leaf
           /\ Last(LastBefore(path)).ix = Len(node[Last(LastBefore(path)).pg].cell)
  <1> DEFINE here == Last(path)
             down == moveToRightmost(Child(node[here.pg], here.ix))
  <1>1. here.pg \in DOMAIN node
    BY WayLast DEF IsPath
  <1>2. here.ix \in Turns(node[here.pg])
    <2>1. Len(node[here.pg].cell) \in Nat /\ here.ix \in 1 .. Len(node[here.pg].cell)
      BY <1>1, NodeIs DEF Readable
    <2> QED BY <2>1 DEF Turns
  <1>3. OnLeafOf(down, Child(node[here.pg], here.ix)) /\ Last(down).ix = Len(node[Last(down).pg].cell)
    <2>1. Child(node[here.pg], here.ix) \in DOMAIN node /\ Child(node[here.pg], here.ix) # ROOT
      BY <1>1, <1>2, ChildIs
    <2> QED BY <2>1, RightmostIs
  <1> HIDE DEF down
  <1>4. OnEntry(path \o down) /\ Last(path \o down) = Last(down)
    BY <1>2, <1>3, BelowIsEntry
  <1>5. LastBefore(path) = path \o down
    BY DEF LastBefore, down
  <1> QED BY <1>3, <1>4, <1>5 DEF OnLeafOf

\* A longest beginning of a path is a path.
LEMMA BackToIs ==
    ASSUME NEW nd, NEW path, IsPath(nd, path), NEW I, I \subseteq 1 .. Len(path), I # {}
    PROVE  \E k \in I : /\ BackTo(path, I) = SubSeq(path, 1, k)
                        /\ IsPath(nd, BackTo(path, I)) /\ Last(BackTo(path, I)) = path[k]
                        /\ Len(BackTo(path, I)) = k
  <1>1. Len(path) \in Nat
    BY WayLast DEF IsPath
  <1>2. Max(I) \in I
    <2>1. I \subseteq Int /\ Len(path) \in Int /\ \A x \in I : x <= Len(path)
      BY <1>1
    <2> QED BY <2>1, MaxIs
  <1> DEFINE k == Max(I)
  <1>3. k \in 1 .. Len(path)
    BY <1>2
  <1>4. BackTo(path, I) = SubSeq(path, 1, k)
    BY DEF BackTo
  <1>5. k \in I
    BY <1>2
  <1> HIDE DEF k
  <1>6. /\ IsWay(nd, SubSeq(path, 1, k), ROOT) /\ Len(SubSeq(path, 1, k)) = k
        /\ Last(SubSeq(path, 1, k)) = path[k]
    BY <1>3, WayPrefix DEF IsPath
  <1> QED BY <1>4, <1>5, <1>6 DEF IsPath

\* Where a path passes a page, and where it may end.
LEMMA PathAt ==
    ASSUME Readable, NEW path, IsPath(node, path), NEW k \in 1 .. Len(path)
    PROVE  /\ path[k].pg \in DOMAIN node /\ path[k].ix \in Nat
           /\ Len(node[path[k].pg].cell) \in Nat
           /\ DOMAIN node[path[k].pg].cell = 1 .. Len(node[path[k].pg].cell)
           /\ k < Len(path) => /\ ~node[path[k].pg].leaf
                               /\ path[k].ix \in 1 .. Len(node[path[k].pg].cell) + 1
  <1>1. path \in Seq(StepType) /\ path[k].pg \in DOMAIN node /\ Len(path) \in Nat
    BY DEF IsPath, IsWay
  <1>2. path[k].ix \in Nat
    <2>1. path[k] \in StepType
      BY <1>1
    <2> QED BY <2>1 DEF StepType
  <1>3. k < Len(path) => ~node[path[k].pg].leaf /\ path[k].ix \in Turns(node[path[k].pg])
    <2>1. k < Len(path) => k \in 1 .. Len(path) - 1
      BY <1>1
    <2> QED BY <2>1 DEF IsPath, IsWay
  <1> QED BY <1>1, <1>2, <1>3, NodeIs DEF Readable, Turns

\* Climbing from a page ends on a cell of an interior page, or nowhere.
LEMMA ClimbIs ==
    ASSUME Readable, NEW path, IsPath(node, path), NEW up, up = Climb(Front(path)), up # << >>
    PROVE  /\ IsPath(node, up) /\ ~node[Last(up).pg].leaf
           /\ Last(up).ix \in DOMAIN node[Last(up).pg].cell
  <1> DEFINE n == Len(path)
             f == Front(path)
             I == {i \in DOMAIN f : f[i].ix <= Len(node[f[i].pg].cell)}
  <1>1. n \in Nat \ {0}
    BY WayLast DEF IsPath
  <1>2. up = BackTo(f, I) /\ I # {}
    BY DEF Climb, BackTo
  <1>3. n # 1
    <2>1. SUFFICES ASSUME n = 1 PROVE FALSE
      OBVIOUS
    <2>2. f = << >>
      BY <2>1 DEF Front
    <2>3. I = {}
      BY <2>2
    <2> QED BY <1>2, <2>3
  <1>4. n - 1 \in 1 .. n /\ f = SubSeq(path, 1, n - 1)
    <2>1. f = SubSeq(path, 1, n - 1)
      BY DEF Front
    <2> HIDE DEF n, f
    <2>2. n - 1 \in 1 .. n
      BY <1>1, <1>3
    <2> QED BY <2>1, <2>2
  <1>5. IsPath(node, f) /\ Len(f) = n - 1 /\ \A i \in 1 .. n - 1 : f[i] = path[i]
    BY <1>4, WayPrefix DEF IsPath
  <1> HIDE DEF f, n
  <1>6. I \subseteq 1 .. Len(f)
    BY <1>5 DEF IsPath, IsWay
  <1>7. PICK k \in I : IsPath(node, up) /\ Last(up) = f[k]
    <2> HIDE DEF I
    <2> QED BY <1>2, <1>5, <1>6, BackToIs, ZenonT(30)
  <1>8. k \in 1 .. n - 1 /\ f[k] = path[k] /\ path[k].ix <= Len(node[path[k].pg].cell)
    BY <1>5, <1>6, <1>7
  <1>9. k \in 1 .. n /\ k < n
    BY <1>1, <1>8
  <1>10. /\ ~node[path[k].pg].leaf /\ path[k].ix \in 1 .. Len(node[path[k].pg].cell) + 1
         /\ Len(node[path[k].pg].cell) \in Nat
         /\ DOMAIN node[path[k].pg].cell = 1 .. Len(node[path[k].pg].cell)
    BY <1>9, PathAt DEF n
  <1> QED BY <1>7, <1>8, <1>10

\* The next entry is an entry, or there is none.
LEMMA NextIsEntry ==
    ASSUME Readable, NEW path, OnEntry(path)
    PROVE  btreeNext(path) = << >> \/ OnEntry(btreeNext(path))
  <1> DEFINE here == Last(path)
             up == Climb(Front(path))
             n == Len(path)
  <1>1. /\ IsPath(node, path) /\ here.ix \in DOMAIN node[here.pg].cell
        /\ (intkey => node[here.pg].leaf)
    BY DEF OnEntry
  <1>2. /\ n \in 1 .. n /\ n \in Nat /\ here = path[n] /\ here.pg \in DOMAIN node /\ here.ix \in Nat
    BY <1>1, WayLast DEF IsPath
  <1>3. Len(node[here.pg].cell) \in Nat /\ DOMAIN node[here.pg].cell = 1 .. Len(node[here.pg].cell)
    BY <1>2, NodeIs DEF Readable
  <1>4. CASE ~node[here.pg].leaf
    <2>1. btreeNext(path) = NextChild(path)
      BY <1>4 DEF btreeNext
    <2> QED BY <1>1, <1>4, <2>1, NextChildIs
  <1>5. CASE node[here.pg].leaf /\ here.ix < Len(node[here.pg].cell)
    <2> DEFINE ix == here.ix + 1
               cut == SubSeq(path, 1, n - 1) \o <<Step(here.pg, ix)>>
    <2>1. btreeNext(path) = cut
      BY <1>5 DEF btreeNext, Front
    <2>2. ix \in Nat /\ ix \in DOMAIN node[here.pg].cell
      BY <1>2, <1>3, <1>5
    <2> HIDE DEF ix
    <2>3. IsPath(node, cut) /\ Last(cut) = Step(here.pg, ix)
      BY <1>1, <1>2, <2>2, WayCut DEF IsPath
    <2> HIDE DEF cut
    <2>4. Last(cut).pg = here.pg /\ Last(cut).ix = ix
      BY <2>3 DEF Step
    <2> HIDE DEF here
    <2> QED BY <1>5, <2>1, <2>2, <2>3, <2>4 DEF OnEntry
  <1>6. CASE node[here.pg].leaf /\ ~(here.ix < Len(node[here.pg].cell)) /\ up # << >>
    <2>1. /\ IsPath(node, up) /\ ~node[Last(up).pg].leaf
          /\ Last(up).ix \in DOMAIN node[Last(up).pg].cell
      BY <1>1, <1>6, ClimbIs
    <2>2. btreeNext(path) = IF intkey THEN NextChild(up) ELSE up
      BY <1>6 DEF btreeNext
    <2> HIDE DEF up
    <2>3. CASE intkey
      BY <2>1, <2>2, <2>3, NextChildIs
    <2>4. CASE ~intkey
      BY <2>1, <2>2, <2>4 DEF OnEntry
    <2> QED BY <2>3, <2>4
  <1>7. CASE node[here.pg].leaf /\ ~(here.ix < Len(node[here.pg].cell)) /\ up = << >>
    BY <1>7 DEF btreeNext
  <1> QED BY <1>4, <1>5, <1>6, <1>7

\* So is the one before, which in a table is on a leaf.
LEMMA PreviousIsEntry ==
    ASSUME Readable, NEW path, OnEntry(path)
    PROVE  btreePrevious(path) = << >> \/ OnEntry(btreePrevious(path))
  <1> DEFINE n == Len(path)
             I == {i \in DOMAIN path : path[i].ix > 1}
             back == BackTo(path, I)
             to == Front(back) \o <<[Last(back) EXCEPT !.ix = @ - 1]>>
  <1>1. /\ IsPath(node, path) /\ Last(path).ix \in DOMAIN node[Last(path).pg].cell
        /\ (intkey => node[Last(path).pg].leaf)
    BY DEF OnEntry
  <1>2. n \in 1 .. n /\ n \in Nat /\ Last(path) = path[n] /\ path \in Seq(StepType)
    <2>1. n \in Nat \ {0} /\ Last(path) = path[n]
      BY <1>1, WayLast DEF IsPath
    <2>2. path \in Seq(StepType)
      BY <1>1 DEF IsPath, IsWay
    <2> QED BY <2>1, <2>2
  <1>3. CASE ~node[Last(path).pg].leaf
    <2>1. btreePrevious(path) = LastBefore(path)
      BY <1>3 DEF btreePrevious
    <2> QED BY <1>1, <1>3, <2>1, LastBeforeIs
  <1>4. CASE node[Last(path).pg].leaf /\ back = << >>
    BY <1>4 DEF btreePrevious
  <1>5. CASE node[Last(path).pg].leaf /\ back # << >>
    <2>1. I # {} /\ I \subseteq 1 .. n
      BY <1>2, <1>5 DEF BackTo
    <2>2. PICK k \in I : /\ back = SubSeq(path, 1, k) /\ IsPath(node, back) /\ Last(back) = path[k]
                         /\ Len(back) = k
      <3> HIDE DEF I
      <3> QED BY <1>1, <2>1, BackToIs
    <2>3. k \in 1 .. n /\ path[k].ix > 1
      BY <2>1, <2>2
    <2> HIDE DEF I, back
    <2>4. /\ path[k].pg \in DOMAIN node /\ path[k].ix \in Nat
          /\ Len(node[path[k].pg].cell) \in Nat
          /\ DOMAIN node[path[k].pg].cell = 1 .. Len(node[path[k].pg].cell)
          /\ k < n => /\ ~node[path[k].pg].leaf
                      /\ path[k].ix \in 1 .. Len(node[path[k].pg].cell) + 1
      BY <1>1, <2>3, PathAt
    <2> DEFINE ix == path[k].ix - 1
    <2>5. ix \in Nat /\ ix \in DOMAIN node[path[k].pg].cell
      <3>1. path[k].ix \in 1 .. Len(node[path[k].pg].cell) + 1
        <4>1. CASE k = n
          BY <1>1, <1>2, <2>4, <4>1
        <4>2. CASE k # n
          BY <1>2, <2>3, <2>4, <4>2
        <4> QED BY <4>1, <4>2
      <3> QED BY <2>3, <2>4, <3>1
    <2>6. to = SubSeq(path, 1, k - 1) \o <<Step(path[k].pg, ix)>>
      <3>1. [path[k] EXCEPT !.ix = @ - 1] = Step(path[k].pg, ix)
        <4>1. path[k] \in StepType
          BY <1>2, <2>3
        <4> QED BY <4>1 DEF Step, StepType
      <3>2. Front(back) = SubSeq(path, 1, k - 1)
        <4>1. Front(back) = SubSeq(back, 1, k - 1)
          BY <2>2 DEF Front
        <4>2. SubSeq(SubSeq(path, 1, k), 1, k - 1) = SubSeq(path, 1, k - 1)
          BY <1>2, <2>3
        <4> QED BY <2>2, <4>1, <4>2
      <3> QED BY <2>2, <3>1, <3>2
    <2> HIDE DEF to, ix
    <2>7. IsPath(node, to) /\ Last(to) = Step(path[k].pg, ix)
      BY <1>1, <2>3, <2>5, <2>6, WayCut DEF IsPath
    <2>8. Last(to).pg = path[k].pg /\ Last(to).ix = ix
      BY <2>7 DEF Step
    <2>9. btreePrevious(path) = IF intkey /\ ~node[Last(to).pg].leaf THEN LastBefore(to) ELSE to
      BY <1>5 DEF btreePrevious, to, back, I
    <2>10. CASE intkey /\ ~node[Last(to).pg].leaf
      BY <2>5, <2>7, <2>8, <2>9, <2>10, LastBeforeIs
    <2>11. CASE ~(intkey /\ ~node[Last(to).pg].leaf)
      BY <2>5, <2>7, <2>8, <2>9, <2>11 DEF OnEntry
    <2> QED BY <2>10, <2>11
  <1> QED BY <1>3, <1>4, <1>5

\* A comparison leaves the search between the first entry and the last.
SearchType(len) ==
    [lwr : 1 .. len + 1, upr : 0 .. len, ix : IF len = 0 THEN {0} ELSE 1 .. len, res : {-1, 0, 1}]

\* One probe of the binary search keeps its bounds in the page.
LEMMA CompareIs ==
    ASSUME NEW cells \in Seq(CellType), NEW k \in Nat, NEW at \in SearchType(Len(cells)), Len(cells) # 0
    PROVE  Compare(cells, k, at) \in SearchType(Len(cells))
  <1> DEFINE len == Len(cells)
             found == cells[at.ix].key
             lwr == IF found > k THEN at.lwr ELSE at.ix + 1
             upr == IF found < k THEN at.upr ELSE at.ix - 1
             ix == IF lwr > upr THEN at.ix ELSE (lwr + upr) \div 2
             res == IF found = k THEN 0 ELSE IF found < k THEN -1 ELSE 1
  <1>1. len \in Nat /\ len # 0
    OBVIOUS
  <1>2. at.lwr \in 1 .. len + 1 /\ at.upr \in 0 .. len /\ at.ix \in 1 .. len
    BY DEF SearchType
  <1>3. Compare(cells, k, at) = [lwr |-> lwr, upr |-> upr, ix |-> ix, res |-> res]
    BY DEF Compare
  <1>4. res \in {-1, 0, 1}
    OBVIOUS
  <1> HIDE DEF found, len, res
  <1>5. lwr \in 1 .. len + 1 /\ upr \in 0 .. len
    BY <1>1, <1>2
  <1> HIDE DEF lwr, upr
  <1>6. ix \in 1 .. len
    <2>1. CASE lwr > upr
      BY <1>2, <2>1
    <2>2. CASE ~(lwr > upr)
      <3>1. lwr \in Nat /\ upr \in Nat /\ lwr <= upr /\ 1 <= lwr /\ upr <= len
        BY <1>1, <1>5, <2>2
      <3>2. (lwr + upr) \div 2 \in Nat /\ (lwr + upr) \div 2 >= lwr /\ (lwr + upr) \div 2 <= upr
        BY <3>1
      <3> QED BY <1>1, <2>2, <3>1, <3>2
    <2> QED BY <2>1, <2>2
  <1> HIDE DEF ix
  <1> QED BY <1>1, <1>3, <1>4, <1>5, <1>6 DEF SearchType, len

SearchFrom(cells, biasRight) ==
    [lwr |-> 1, upr |-> Len(cells), ix |-> IF biasRight THEN Len(cells) ELSE (1 + Len(cells)) \div 2,
     res |-> 0]
SearchOf(cells, k, biasRight, at) ==
    [i \in 0 .. Len(cells) |->
       IF i = 0 THEN SearchFrom(cells, biasRight)
       ELSE IF at[i - 1].lwr > at[i - 1].upr THEN at[i - 1] ELSE Compare(cells, k, at[i - 1])]

\* The binary search starts within the page.
LEMMA SearchStarts ==
    ASSUME NEW cells \in Seq(CellType), NEW biasRight
    PROVE  SearchFrom(cells, biasRight) \in SearchType(Len(cells))
  <1> DEFINE n == Len(cells)
  <1>1. n \in Nat
    OBVIOUS
  <1>2. (1 + n) \div 2 \in Nat /\ (n = 0 => (1 + n) \div 2 = 0)
        /\ (n # 0 => (1 + n) \div 2 \in 1 .. n /\ n \in 1 .. n)
        /\ 1 \in 1 .. n + 1 /\ n \in 0 .. n
    BY <1>1
  <1> HIDE DEF n
  <1> QED BY <1>1, <1>2 DEF SearchFrom, SearchType, n

\* The comparisons of a binary search, and where the last one leaves it.
SearchRun(cells, k, biasRight, f) ==
    /\ f \in [0 .. Len(cells) -> SearchType(Len(cells))]
    /\ f[0] = SearchFrom(cells, biasRight)
    /\ \A i \in 1 .. Len(cells) :
          f[i] = IF f[i - 1].lwr > f[i - 1].upr THEN f[i - 1] ELSE Compare(cells, k, f[i - 1])
    /\ BinarySearch(cells, k, biasRight) = f[Len(cells)]
LEMMA SearchRuns ==
    ASSUME NEW cells \in Seq(CellType), NEW k \in Nat, NEW biasRight
    PROVE  \E f : SearchRun(cells, k, biasRight, f)
  <1> DEFINE N == Len(cells)
             S == SearchType(N)
             D == 0 .. N
             first == SearchFrom(cells, biasRight)
             next(b) == IF b.lwr > b.upr THEN b ELSE Compare(cells, k, b)
             h == [i \in D |-> i]
             G == [i \in D |-> [s \in [D -> S] |-> IF i = 0 THEN first ELSE next(s[i - 1])]]
             at == CHOOSE g : g = SearchOf(cells, k, biasRight, g)
  <1>1. N \in Nat /\ (N = 0 <=> cells = << >>)
    OBVIOUS
  <1>2. first \in S /\ \A i \in D : i # 0 => i - 1 \in D /\ N # 0
    <2>1. first \in S
      BY SearchStarts
    <2> QED BY <1>1, <2>1
  <1>3. N # 0 => \A b \in S : next(b) \in S
    <2>1. ASSUME N # 0, NEW b \in S PROVE Compare(cells, k, b) \in S
      BY <2>1, CompareIs
    <2> QED BY <2>1
  <1>4. h \in [D -> 0 .. N]
    OBVIOUS
  <1> HIDE DEF first, S, next
  <1>5. G \in [D -> [[D -> S] -> S]]
    <2> HIDE DEF D
    <2> QED BY <1>2, <1>3
  <1>6. \A p \in D : \A g1, g2 \in [D -> S] :
           (\A q \in D : h[q] < h[p] => g1[q] = g2[q]) => G[p][g1] = G[p][g2]
    <2>1. \A p \in D : p # 0 => p - 1 \in D /\ h[p - 1] < h[p]
      OBVIOUS
    <2> QED BY <2>1
  <1>7. Recursive(D, S, N, h, G)
    <2> HIDE DEF G, h, D, N
    <2> QED BY <1>1, <1>2, <1>4, <1>5, <1>6 DEF Recursive
  <1>8. PICK f : Solves(D, S, G, f)
    <2> HIDE DEF D, h, G, N
    <2> QED BY <1>7, RecursionExists
  <1>9. f \in [D -> S] /\ \A i \in D : f[i] = IF i = 0 THEN first ELSE next(f[i - 1])
    BY <1>8 DEF Solves
  <1>10. f = SearchOf(cells, k, biasRight, f)
    BY <1>9 DEF SearchOf, first, next
  <1>11. at = SearchOf(cells, k, biasRight, at)
    <2> HIDE DEF N, D, G
    <2> QED BY <1>10
  <1>12. BinarySearch(cells, k, biasRight) = at[N]
    BY DEF BinarySearch, SearchOf, SearchFrom
  <1> HIDE DEF at
  <1>13. \A i \in D : at[i] = IF i = 0 THEN first ELSE next(at[i - 1])
    BY <1>11 DEF SearchOf, first, next
  <1>14. \A i \in D : at[i] = f[i]
    <2>1. ASSUME NEW i \in D, \A j \in D : h[j] < h[i] => at[j] = f[j] PROVE at[i] = f[i]
      <3>1. i # 0 => i - 1 \in D /\ h[i - 1] < h[i]
        OBVIOUS
      <3> QED BY <1>9, <1>13, <2>1, <3>1
    <2>2. h \in [D -> Nat]
      OBVIOUS
    <2> HIDE DEF D, h, G
    <2>3. Alike(D, h, at, f)
      BY <2>1, <2>2 DEF Alike
    <2> QED BY <2>3, SameByLevels
  <1>15. at[N] = f[N] /\ 0 \in D /\ \A i \in 1 .. N : i \in D /\ i # 0
    <2>1. N \in D /\ 0 \in D /\ \A i \in 1 .. N : i \in D /\ i # 0
      BY <1>1
    <2> HIDE DEF D
    <2> QED BY <1>14, <2>1
  <1>16. f[0] = first /\ \A i \in 1 .. N : f[i] = next(f[i - 1])
    <2> HIDE DEF D
    <2> QED BY <1>9, <1>15
  <1> QED BY <1>9, <1>12, <1>15, <1>16 DEF SearchRun, S, first, next

\* The binary search ends on a cell of the page: sqlite3BtreeMovetoUnpacked.
LEMMA SearchIs ==
    ASSUME NEW cells \in Seq(CellType), NEW k \in Nat, NEW biasRight
    PROVE  /\ BinarySearch(cells, k, biasRight).ix \in Nat
           /\ BinarySearch(cells, k, biasRight).res \in {-1, 0, 1}
           /\ cells # << >> => BinarySearch(cells, k, biasRight).ix \in 1 .. Len(cells)
  <1>1. PICK f : SearchRun(cells, k, biasRight, f)
    BY SearchRuns
  <1>2. Len(cells) \in 0 .. Len(cells) /\ (cells # << >> => Len(cells) # 0)
    OBVIOUS
  <1>3. BinarySearch(cells, k, biasRight) \in SearchType(Len(cells))
    BY <1>1, <1>2 DEF SearchRun
  <1> QED BY <1>2, <1>3 DEF SearchType

\* An interior page leads on by one of its places.
LEMMA TurnIs ==
    ASSUME NEW cells \in Seq(CellType), NEW k \in Nat
    PROVE  Min({i \in DOMAIN cells : cells[i].key >= k} \cup {Len(cells) + 1}) \in 1 .. Len(cells) + 1
  <1> DEFINE T == {i \in DOMAIN cells : cells[i].key >= k} \cup {Len(cells) + 1}
  <1>1. T \subseteq 1 .. Len(cells) + 1 /\ T # {} /\ Len(cells) \in Nat
    OBVIOUS
  <1>2. T \subseteq Nat
    BY <1>1
  <1> HIDE DEF T
  <1>3. Min(T) \in T
    BY <1>1, <1>2, MinIs
  <1> QED BY <1>1, <1>3 DEF T

\* The way a seek goes down, and where it ends.
TurnFor(n, k) == Min({i \in DOMAIN n.cell : n.cell[i].key >= k} \cup {Len(n.cell) + 1})
FoundAbove(n, k) == ~intkey /\ TurnFor(n, k) \in DOMAIN n.cell /\ n.cell[TurnFor(n, k)].key = k
PlaceFor(n, k, biasRight) == IF n.leaf THEN BinarySearch(n.cell, k, biasRight).ix ELSE TurnFor(n, k)
Descent(d, k, biasRight) ==
    LET end == node[Last(d.path).pg] IN
    /\ IsPath(node, d.path)
    /\ \A i \in 1 .. Len(d.path) : d.path[i].ix = PlaceFor(node[d.path[i].pg], k, biasRight)
    /\ end.leaf \/ FoundAbove(end, k)
    /\ d.res = IF end.leaf THEN BinarySearch(end.cell, k, biasRight).res ELSE 0
LEMMA DescentIs ==
    ASSUME Readable, NEW k \in Nat, NEW biasRight
    PROVE  Descent(Descend(k, biasRight), k, biasRight)
  <1> DEFINE D == DOMAIN node
             turn(n) == Min({i \in DOMAIN n.cell : n.cell[i].key >= k} \cup {Len(n.cell) + 1})
             search(n) == BinarySearch(n.cell, k, biasRight)
             found(n) == ~intkey /\ turn(n) \in DOMAIN n.cell /\ n.cell[turn(n)].key = k
             ix == [pg \in D |-> IF node[pg].leaf THEN search(node[pg]).ix ELSE turn(node[pg])]
             ends == {pg \in D : node[pg].leaf \/ found(node[pg])}
             path == WayDown(ROOT, ix, ends)
             end == node[Last(path).pg]
             res == IF end.leaf THEN search(end).res ELSE 0
  <1>1. Descend(k, biasRight) = [path |-> path, res |-> res]
    BY DEF Descend
  <1>2. ASSUME NEW p \in D
        PROVE  /\ turn(node[p]) \in Turns(node[p]) /\ turn(node[p]) \in Nat
               /\ search(node[p]).ix \in Nat /\ search(node[p]).res \in {-1, 0, 1}
               /\ node[p].cell # << >> => search(node[p]).ix \in DOMAIN node[p].cell
    <2>1. node[p].cell \in Seq(CellType) /\ DOMAIN node[p].cell = 1 .. Len(node[p].cell)
      BY NodeIs DEF Readable
    <2>2. turn(node[p]) \in 1 .. Len(node[p].cell) + 1
      BY <2>1, TurnIs
    <2>3. /\ search(node[p]).ix \in Nat /\ search(node[p]).res \in {-1, 0, 1}
          /\ node[p].cell # << >> => search(node[p]).ix \in 1 .. Len(node[p].cell)
      BY <2>1, SearchIs
    <2> HIDE DEF turn, search
    <2> QED BY <2>1, <2>2, <2>3 DEF Turns
  <1> HIDE DEF turn, search
  <1>3. Leads(ix, ends)
    <2>1. Nodes(node) /\ Levelled(node)
      BY DEF Readable
    <2>2. ix \in [DOMAIN node -> Nat]
      BY <1>2
    <2>3. \A p \in DOMAIN node : node[p].leaf => p \in ends
      OBVIOUS
    <2>4. \A p \in DOMAIN node : p \notin ends => ix[p] \in Turns(node[p])
      BY <1>2
    <2> HIDE DEF ix, ends
    <2> QED BY <2>1, <2>2, <2>3, <2>4 DEF Leads
  <1>4. IsDown(path, ROOT, ix, ends)
    <2>1. ROOT \in DOMAIN node
      BY DEF Readable, Nodes
    <2> HIDE DEF ix, ends
    <2> QED BY <1>3, <2>1, WayDownIs
  <1> HIDE DEF path
  <1>5. /\ IsWay(node, path, ROOT) /\ Last(path).pg \in ends
        /\ \A i \in 1 .. Len(path) : path[i].ix = ix[path[i].pg]
    <2> HIDE DEF ix, ends
    <2> QED BY <1>4 DEF IsDown
  <1>6. Len(path) \in 1 .. Len(path) /\ Last(path).pg \in D /\ \A i \in 1 .. Len(path) : path[i].pg \in D
    BY <1>5, WayLast DEF IsWay
  <1>7. \A i \in 1 .. Len(path) : path[i].ix = PlaceFor(node[path[i].pg], k, biasRight)
    BY <1>5, <1>6 DEF PlaceFor, TurnFor, turn, search
  <1>8. node[Last(path).pg].leaf \/ FoundAbove(node[Last(path).pg], k)
    BY <1>5 DEF FoundAbove, TurnFor, turn
  <1>9. res = IF end.leaf THEN BinarySearch(end.cell, k, biasRight).res ELSE 0
    BY DEF search
  <1> HIDE DEF ix, ends, res
  <1> QED BY <1>1, <1>5, <1>7, <1>8, <1>9 DEF Descent, IsPath

\* A seek ends on an entry, on a leaf unless it found the key.
LEMMA DescendIs ==
    ASSUME Readable, NEW k \in Nat, NEW biasRight, node[ROOT].cell # << >>
    PROVE  LET d == Descend(k, biasRight) IN
           /\ OnEntry(d.path) /\ d.res \in {-1, 0, 1}
           /\ d.res # 0 => node[Last(d.path).pg].leaf
  <1> DEFINE d == Descend(k, biasRight)
             pg == Last(d.path).pg
             n == node[pg]
  <1>1. Descent(d, k, biasRight)
    BY DescentIs
  <1> HIDE DEF d
  <1>2. /\ IsPath(node, d.path)
        /\ n.leaf \/ FoundAbove(n, k)
        /\ d.res = IF n.leaf THEN BinarySearch(n.cell, k, biasRight).res ELSE 0
    BY <1>1 DEF Descent
  <1>3. Last(d.path).ix = PlaceFor(n, k, biasRight)
    <2>1. Len(d.path) \in 1 .. Len(d.path) /\ Last(d.path) = d.path[Len(d.path)]
      BY <1>2, WayLast DEF IsPath
    <2> QED BY <1>1, <2>1 DEF Descent
  <1>4. Nodes(node) /\ Levelled(node) /\ pg \in DOMAIN node
    BY <1>2, WayLast DEF IsPath, Readable
  <1>5. n.cell # << >>
    BY <1>2, <1>4, WayEnd DEF IsPath, Readable, Stocked
  <1>6. /\ BinarySearch(n.cell, k, biasRight).res \in {-1, 0, 1}
        /\ BinarySearch(n.cell, k, biasRight).ix \in DOMAIN n.cell
    BY <1>4, <1>5, NodeIs, SearchIs
  <1>7. OnEntry(d.path)
    <2>1. CASE n.leaf
      <3>1. Last(d.path).ix \in DOMAIN n.cell
        BY <1>3, <1>6, <2>1 DEF PlaceFor
      <3> QED BY <1>2, <2>1, <3>1 DEF OnEntry
    <2>2. CASE ~n.leaf
      <3>1. Last(d.path).ix \in DOMAIN n.cell /\ ~intkey
        BY <1>2, <1>3, <2>2 DEF PlaceFor, FoundAbove
      <3> QED BY <1>2, <3>1 DEF OnEntry
    <2> QED BY <2>1, <2>2
  <1>8. d.res \in {-1, 0, 1} /\ (d.res # 0 => n.leaf)
    BY <1>2, <1>6
  <1> QED BY <1>7, <1>8 DEF d

CursorType == [state : {"INVALID", "VALID", "SKIPNEXT", "REQUIRESEEK"}, path : Seq(StepType),
               skip : {-1, 0, 1}, key : Nat, valid : BOOLEAN, last : BOOLEAN]

\* What a cursor keeps of itself.
Kept(c) ==
    /\ c \in CursorType
    /\ c.state = "REQUIRESEEK" \/ c.valid => c.key \in Keys
    /\ c.valid => c.state \in {"VALID", "SKIPNEXT"} /\ intkey
    /\ c.state \in {"INVALID", "REQUIRESEEK"} => c.path = << >>

\* One that is at an entry.
OnTree(c) == c.state \in {"VALID", "SKIPNEXT"} => OnEntry(c.path)

Sound(c) == Kept(c) /\ OnTree(c)

\* Keys are naturals without 0.
LEMMA KeysAre == Keys \subseteq Nat /\ 0 \notin Keys
  BY BtreeAssumption

\* An entry's cell and key.
LEMMA EntryIs ==
    ASSUME Nodes(node), NEW path, OnEntry(path)
    PROVE  /\ path \in Seq(StepType) /\ path # << >> /\ CellAt(path) \in CellType
           /\ CellAt(path).key \in Keys
  <1>1. IsPath(node, path) /\ Last(path).ix \in DOMAIN node[Last(path).pg].cell
    BY DEF OnEntry
  <1>2. path \in Seq(StepType) /\ path # << >> /\ Last(path).pg \in DOMAIN node
    BY <1>1, WayLast DEF IsPath, IsWay
  <1>3. node[Last(path).pg].cell \in Seq(CellType)
    BY <1>2, NodeIs
  <1>4. CellAt(path) \in CellType
    BY <1>1, <1>3 DEF CellAt
  <1> QED BY <1>2, <1>4 DEF CellType

\* A cursor that is nowhere is sound.
LEMMA NowhereIs == Sound(Nowhere) /\ Nowhere.state = "INVALID" /\ Nowhere.path = << >>
                   /\ Nowhere.skip = 0 /\ ~Nowhere.valid
  <1>1. << >> \in Seq(StepType)
    OBVIOUS
  <1> QED BY <1>1 DEF Sound, Kept, OnTree, Nowhere, CursorType

\* A cursor at a path, field by field.
LEMMA AtIs ==
    ASSUME NEW path \in Seq(StepType)
    PROVE  LET a == At(path) IN
           /\ a \in CursorType /\ a.state = "VALID" /\ a.path = path
           /\ a.skip = 0 /\ a.key = 0 /\ a.valid = FALSE /\ a.last = FALSE
  <1>1. << >> \in Seq(StepType)
    OBVIOUS
  <1>2. /\ Nowhere \in CursorType /\ Nowhere.skip = 0 /\ Nowhere.key = 0
        /\ Nowhere.valid = FALSE /\ Nowhere.last = FALSE
    BY <1>1 DEF Nowhere, CursorType
  <1> QED BY <1>2 DEF At, CursorType

\* A cursor on an entry is sound, with or without its key cached.
LEMMA AtEntryIs ==
    ASSUME Nodes(node), NEW path, OnEntry(path)
    PROVE  /\ Sound(At(path)) /\ At(path).state = "VALID" /\ At(path).path = path
           /\ At(path).skip = 0 /\ ~At(path).valid
           /\ Sound([At(path) EXCEPT !.last = TRUE])
           /\ \A k \in Keys : intkey => Sound([At(path) EXCEPT !.valid = TRUE, !.key = k])
  <1> DEFINE a == At(path)
             b == [a EXCEPT !.last = TRUE]
  <1>1. path \in Seq(StepType)
    BY EntryIs
  <1>2. /\ a \in CursorType /\ a.state = "VALID" /\ a.path = path
        /\ a.skip = 0 /\ a.key = 0 /\ a.valid = FALSE /\ a.last = FALSE
    BY <1>1, AtIs
  <1> HIDE DEF a
  <1>3. b \in CursorType /\ b.state = "VALID" /\ b.path = path /\ b.valid = FALSE
    BY <1>2 DEF CursorType
  <1> HIDE DEF b
  <1>4. Sound(a)
    BY <1>2 DEF Sound, Kept, OnTree
  <1>5. Sound(b)
    BY <1>3 DEF Sound, Kept, OnTree
  <1>6. ASSUME NEW k \in Keys, intkey PROVE Sound([a EXCEPT !.valid = TRUE, !.key = k])
    <2> DEFINE d == [a EXCEPT !.valid = TRUE, !.key = k]
    <2>1. k \in Nat
      BY KeysAre
    <2>2. d \in CursorType /\ d.state = "VALID" /\ d.path = path /\ d.key = k
      BY <1>2, <2>1 DEF CursorType
    <2> HIDE DEF d
    <2>3. Sound(d)
      BY <1>6, <2>2 DEF Sound, Kept, OnTree
    <2> QED BY <2>3 DEF d
  <1> QED BY <1>2, <1>4, <1>5, <1>6 DEF a, b

\* A cursor that has saved its key is sound.
LEMMA SavedIs ==
    ASSUME NEW k \in Keys, NEW skip \in {-1, 0, 1}
    PROVE  Sound(Saved(k, skip)) /\ Saved(k, skip).state = "REQUIRESEEK" /\ Saved(k, skip).path = << >>
           /\ Saved(k, skip).skip = skip /\ ~Saved(k, skip).valid
  <1> DEFINE s == Saved(k, skip)
  <1>1. << >> \in Seq(StepType) /\ k \in Nat
    BY KeysAre
  <1>2. /\ Nowhere \in CursorType /\ Nowhere.path = << >> /\ Nowhere.valid = FALSE
    BY <1>1 DEF Nowhere, CursorType
  <1>3. /\ s \in CursorType /\ s.state = "REQUIRESEEK" /\ s.path = << >> /\ s.key = k
        /\ s.skip = skip /\ s.valid = FALSE
    BY <1>1, <1>2 DEF Saved, CursorType
  <1> HIDE DEF s
  <1>4. Sound(s)
    BY <1>3 DEF Sound, Kept, OnTree
  <1> QED BY <1>3, <1>4 DEF s

\* A saved cursor is off the tree.
LEMMA SaveIs ==
    ASSUME Nodes(node), NEW c, Sound(c)
    PROVE  LET s == saveCursorPosition(c) IN
           /\ Sound(s) /\ s.state \in {"INVALID", "REQUIRESEEK"} /\ s.path = << >>
  <1>1. c \in CursorType
    BY DEF Sound, Kept
  <1>2. CASE c.state \in {"VALID", "SKIPNEXT"}
    <2>1. KeyOf(c) \in Keys
      BY <1>2, EntryIs DEF Sound, OnTree, KeyOf
    <2>2. c.skip \in {-1, 0, 1}
      BY <1>1 DEF CursorType
    <2>3. saveCursorPosition(c) = Saved(KeyOf(c), IF c.state = "VALID" THEN 0 ELSE c.skip)
      BY <1>2 DEF saveCursorPosition
    <2> HIDE DEF KeyOf
    <2> QED BY <2>1, <2>2, <2>3, SavedIs
  <1>3. CASE c.state \in {"INVALID", "REQUIRESEEK"}
    <2>1. saveCursorPosition(c) = c
      BY <1>3 DEF saveCursorPosition
    <2> QED BY <1>3, <2>1 DEF Sound, Kept
  <1> QED BY <1>1, <1>2, <1>3 DEF CursorType

\* A seek leaves a cursor at an entry; only in an empty tree there is none.
LEMMA MovetoIs ==
    ASSUME Readable, NEW c, Sound(c), NEW k \in Keys, NEW bias
    PROVE  LET m == MovetoUnpacked(c, k, bias) IN
           /\ Sound(m.cur) /\ m.res \in {-1, 0, 1}
           /\ \/ m.cur = Nowhere /\ m.res = -1 /\ node[ROOT].cell = << >>
              \/ /\ m.cur.state = "VALID" /\ OnEntry(m.cur.path)
                 /\ m.res # 0 => node[Last(m.cur.path).pg].leaf
                 /\ m.cur.skip \in {0, c.skip}
  <1> DEFINE cached == c.state = "VALID" /\ c.valid
             d == Descend(k, bias)
             m == MovetoUnpacked(c, k, bias)
  <1>0. Nodes(node) /\ k \in Nat /\ intkey \in BOOLEAN
    BY KeysAre DEF Readable
  <1>1. CASE cached /\ c.key = k
    <2>1. m = [cur |-> c, res |-> 0]
      BY <1>1 DEF MovetoUnpacked
    <2> HIDE DEF m
    <2> QED BY <1>1, <2>1 DEF Sound, OnTree, m
  <1>2. CASE cached /\ c.key # k /\ c.key < k /\ c.last
    <2>1. m = [cur |-> c, res |-> -1]
      BY <1>2 DEF MovetoUnpacked
    <2>2. OnEntry(c.path) /\ intkey
      BY <1>2 DEF Sound, OnTree, Kept
    <2> HIDE DEF m
    <2> QED BY <1>2, <2>1, <2>2 DEF OnEntry, m
  <1>3. CASE ~(cached /\ c.key = k) /\ ~(cached /\ c.key < k /\ c.last) /\ node[ROOT].cell = << >>
    <2>1. m = [cur |-> Nowhere, res |-> -1]
      BY <1>3 DEF MovetoUnpacked
    <2> HIDE DEF m
    <2> QED BY <1>3, <2>1, NowhereIs DEF m
  <1>4. CASE ~(cached /\ c.key = k) /\ ~(cached /\ c.key < k /\ c.last) /\ node[ROOT].cell # << >>
    <2>1. OnEntry(d.path) /\ d.res \in {-1, 0, 1} /\ (d.res # 0 => node[Last(d.path).pg].leaf)
      BY <1>0, <1>4, DescendIs
    <2>2. m = IF d.res = 0 /\ intkey
              THEN [cur |-> [At(d.path) EXCEPT !.valid = TRUE, !.key = k], res |-> 0]
              ELSE [cur |-> At(d.path), res |-> d.res]
      BY <1>4 DEF MovetoUnpacked
    <2> HIDE DEF d, m
    <2> DEFINE path == d.path
    <2>3. path \in Seq(StepType)
      BY <1>0, <2>1, EntryIs
    <2>4. At(path).state = "VALID" /\ At(path).path = path /\ At(path).skip = 0
      BY <2>3, AtIs
    <2>5. Sound(At(path)) /\ (intkey => Sound([At(path) EXCEPT !.valid = TRUE, !.key = k]))
      BY <1>0, <2>1, AtEntryIs
    <2>6. CASE d.res = 0 /\ intkey
      <3> DEFINE a == [At(path) EXCEPT !.valid = TRUE, !.key = k]
      <3>1. m = [cur |-> a, res |-> 0]
        BY <2>2, <2>6
      <3>2. a.state = "VALID" /\ a.path = path /\ a.skip = 0
        <4> DEFINE b == At(path)
        <4>1. b \in CursorType /\ b.state = "VALID" /\ b.path = path /\ b.skip = 0
          BY <2>3, AtIs
        <4> HIDE DEF b
        <4>2. LET x == [b EXCEPT !.valid = TRUE, !.key = k] IN
              x.state = "VALID" /\ x.path = path /\ x.skip = 0
          BY <4>1 DEF CursorType
        <4> QED BY <4>2 DEF b
      <3>3. Sound(a)
        BY <2>5, <2>6
      <3> HIDE DEF a
      <3> QED BY <2>1, <2>6, <3>1, <3>2, <3>3 DEF m
    <2>7. CASE ~(d.res = 0 /\ intkey)
      <3>1. m = [cur |-> At(path), res |-> d.res]
        BY <2>2, <2>7
      <3> QED BY <2>1, <2>4, <2>5, <3>1 DEF m
    <2> QED BY <2>6, <2>7
  <1> QED BY <1>1, <1>2, <1>3, <1>4

\* A cursor's skip after it was restored is -1, 0 or 1.
LEMMA OrBitsIs ==
    ASSUME NEW x \in {-1, 0, 1}, NEW y \in {-1, 0, 1}
    PROVE  OrBits(x, y) \in {-1, 0, 1}
  BY DEF OrBits

\* A restored cursor is at an entry or nowhere.
LEMMA RestoreIs ==
    ASSUME Readable, NEW c, Sound(c)
    PROVE  LET r == restoreCursorPosition(c) IN
           Sound(r) /\ (c.state = "REQUIRESEEK" => r.state \in {"INVALID", "VALID", "SKIPNEXT"})
  <1> DEFINE m == MovetoUnpacked(Nowhere, c.key, FALSE)
             skip == OrBits(c.skip, m.res)
             r == restoreCursorPosition(c)
  <1>1. CASE c.state # "REQUIRESEEK"
    <2>1. r = c
      BY <1>1 DEF restoreCursorPosition
    <2> QED BY <1>1, <2>1
  <1>2. CASE c.state = "REQUIRESEEK"
    <2>1. c.key \in Keys /\ c \in CursorType /\ c.skip \in {-1, 0, 1}
      BY <1>2 DEF Sound, Kept, CursorType
    <2>2. /\ Sound(m.cur) /\ m.res \in {-1, 0, 1}
          /\ \/ m.cur = Nowhere /\ m.res = -1 /\ node[ROOT].cell = << >>
             \/ m.cur.state = "VALID" /\ OnEntry(m.cur.path)
      BY <2>1, NowhereIs, MovetoIs
    <2> HIDE DEF m
    <2>3. skip \in {-1, 0, 1}
      BY <2>1, <2>2, OrBitsIs
    <2>4. r = IF m.cur.state = "INVALID" THEN Nowhere ELSE IF skip = 0 THEN m.cur ELSE Skipping(m.cur, skip)
      BY <1>2 DEF restoreCursorPosition, m
    <2> HIDE DEF skip, r
    <2>5. CASE m.cur.state = "INVALID"
      BY <2>4, <2>5, NowhereIs DEF r
    <2>6. CASE m.cur.state # "INVALID" /\ skip = 0
      BY <2>2, <2>4, <2>6, NowhereIs DEF r
    <2>7. CASE m.cur.state # "INVALID" /\ skip # 0
      <3>1. r = [m.cur EXCEPT !.state = "SKIPNEXT", !.skip = skip]
        BY <2>4, <2>7 DEF Skipping
      <3>2. m.cur.state = "VALID" /\ OnEntry(m.cur.path)
        BY <2>2, <2>7, NowhereIs
      <3> DEFINE a == m.cur
      <3>3. a \in CursorType /\ (a.valid => a.key \in Keys /\ intkey)
        BY <2>2 DEF Sound, Kept
      <3> HIDE DEF a
      <3>4. /\ [a EXCEPT !.state = "SKIPNEXT", !.skip = skip] \in CursorType
            /\ [a EXCEPT !.state = "SKIPNEXT", !.skip = skip].state = "SKIPNEXT"
            /\ [a EXCEPT !.state = "SKIPNEXT", !.skip = skip].path = a.path
            /\ [a EXCEPT !.state = "SKIPNEXT", !.skip = skip].valid = a.valid
            /\ [a EXCEPT !.state = "SKIPNEXT", !.skip = skip].key = a.key
        BY <2>3, <3>3 DEF CursorType
      <3>5. /\ r \in CursorType /\ r.state = "SKIPNEXT" /\ r.path = a.path /\ r.valid = a.valid
            /\ r.key = a.key
        BY <3>1, <3>4 DEF a
      <3>6. Sound(r)
        BY <3>2, <3>3, <3>5 DEF Sound, Kept, OnTree, a
      <3> QED BY <3>5, <3>6 DEF r
    <2> QED BY <2>5, <2>6, <2>7
  <1> QED BY <1>1, <1>2

\* What a cursor forgets, and the entry it moves to, leave it sound.
LEMMA ForgetIs ==
    ASSUME NEW c, Sound(c), c.state # "REQUIRESEEK"
    PROVE  /\ Sound(Forget(c)) /\ Forget(c).state = c.state /\ Forget(c).path = c.path
           /\ Forget(c).skip = c.skip /\ ~Forget(c).valid
  <1> DEFINE f == Forget(c)
  <1>1. c \in CursorType
    BY DEF Sound, Kept
  <1>2. /\ f \in CursorType /\ f.state = c.state /\ f.path = c.path /\ f.skip = c.skip
        /\ f.valid = FALSE /\ f.key = 0
    BY <1>1 DEF Forget, CursorType
  <1> HIDE DEF f
  <1>3. c.state # "REQUIRESEEK" => Sound(f)
    BY <1>2 DEF Sound, Kept, OnTree
  <1> QED BY <1>2, <1>3 DEF f

\* A cursor that moves on to an entry, or off the end, is sound.
LEMMA MoveOnIs ==
    ASSUME Nodes(node), NEW c, Sound(c), c.state \in {"VALID", "SKIPNEXT"},
           NEW path, path = << >> \/ OnEntry(path)
    PROVE  Sound(MoveOn(c, path))
  <1> DEFINE same == Len(path) = Len(c.path) /\ Last(path).pg = Last(c.path).pg
             from == IF same THEN c ELSE Forget(c)
             to == [from EXCEPT !.state = "VALID", !.path = path, !.skip = 0]
  <1>1. CASE path = << >>
    BY <1>1, NowhereIs DEF MoveOn
  <1>2. CASE path # << >>
    <2>1. OnEntry(path) /\ path \in Seq(StepType)
      BY <1>2, EntryIs
    <2>2. MoveOn(c, path) = to
      BY <1>2 DEF MoveOn
    <2>3. from \in CursorType /\ (from.valid => from.key \in Keys /\ intkey)
      <3>1. Sound(c) /\ Sound(Forget(c))
        BY <1>2, ForgetIs
      <3>2. Sound(from)
        BY <3>1
      <3> HIDE DEF from
      <3> QED BY <3>2 DEF Sound, Kept
    <2> HIDE DEF from
    <2>4. /\ to \in CursorType /\ to.state = "VALID" /\ to.path = path
          /\ to.valid = from.valid /\ to.key = from.key
      BY <2>1, <2>3 DEF CursorType
    <2> HIDE DEF to
    <2> QED BY <2>1, <2>2, <2>3, <2>4 DEF Sound, Kept, OnTree
  <1> QED BY <1>1, <1>2

\* A restored cursor is sound and on an entry, or nowhere: btreeRestoreCursorPosition.
LEMMA RestoredIs ==
    ASSUME Readable, NEW c, Sound(cur[c])
    PROVE  /\ Sound(Restored(c)) /\ Restored(c).state \in {"INVALID", "VALID", "SKIPNEXT"}
           /\ Restored(c).state # "INVALID" => OnEntry(Restored(c).path)
  <1>1. cur[c].state \in {"INVALID", "VALID", "SKIPNEXT", "REQUIRESEEK"}
    BY DEF Sound, Kept, CursorType
  <1>2. /\ Sound(Restored(c)) /\ Restored(c).state \in {"INVALID", "VALID", "SKIPNEXT"}
    <2>1. CASE cur[c].state = "REQUIRESEEK"
      BY <2>1, RestoreIs DEF Restored
    <2>2. CASE cur[c].state # "REQUIRESEEK"
      BY <1>1, <2>2, ForgetIs DEF Restored
    <2> QED BY <2>1, <2>2
  <1> QED BY <1>2 DEF Sound, OnTree

\* sqlite3BtreeNext leaves a sound cursor.
LEMMA NextOfIs ==
    ASSUME Readable, NEW c, Sound(cur[c])
    PROVE  Sound(NextOf(c))
  <1> DEFINE r == Restored(c)
             path == IF r.skip > 0 THEN r.path ELSE btreeNext(r.path)
  <1>1. /\ Sound(r) /\ r.state \in {"INVALID", "VALID", "SKIPNEXT"}
        /\ r.state # "INVALID" => OnEntry(r.path)
    BY RestoredIs
  <1>2. NextOf(c) = IF r.state = "INVALID" THEN r ELSE MoveOn(r, path)
    BY DEF NextOf
  <1> HIDE DEF r
  <1>3. CASE r.state = "INVALID"
    BY <1>1, <1>2, <1>3
  <1>4. CASE r.state # "INVALID"
    <2>1. path = << >> \/ OnEntry(path)
      BY <1>1, <1>4, NextIsEntry
    <2> HIDE DEF path
    <2> QED BY <1>1, <1>2, <1>4, <2>1, MoveOnIs DEF Readable
  <1> QED BY <1>3, <1>4

\* sqlite3BtreePrevious leaves a sound cursor.
LEMMA PreviousOfIs ==
    ASSUME Readable, NEW c, Sound(cur[c])
    PROVE  LET r == [Restored(c) EXCEPT !.last = FALSE] IN
           Sound(IF r.state = "INVALID" THEN r
                 ELSE MoveOn(r, IF r.skip < 0 THEN r.path ELSE btreePrevious(r.path)))
  <1> DEFINE q == Restored(c)
             r == [q EXCEPT !.last = FALSE]
             path == IF r.skip < 0 THEN r.path ELSE btreePrevious(r.path)
  <1>1. /\ Sound(q) /\ q.state \in {"INVALID", "VALID", "SKIPNEXT"}
        /\ q.state # "INVALID" => OnEntry(q.path)
    BY RestoredIs
  <1> HIDE DEF q
  <1>2. /\ r \in CursorType /\ r.state = q.state /\ r.path = q.path /\ r.valid = q.valid
        /\ r.key = q.key /\ q \in CursorType
    BY <1>1 DEF Sound, Kept, CursorType
  <1> HIDE DEF r
  <1>3. Sound(r)
    BY <1>1, <1>2 DEF Sound, Kept, OnTree
  <1>4. Sound(IF r.state = "INVALID" THEN r ELSE MoveOn(r, path))
    <2>1. CASE r.state = "INVALID"
      BY <1>3, <2>1
    <2>2. CASE r.state # "INVALID"
      <3>1. path = << >> \/ OnEntry(path)
        BY <1>1, <1>2, <2>2, PreviousIsEntry
      <3> HIDE DEF path
      <3>2. r.state \in {"VALID", "SKIPNEXT"}
        BY <1>1, <1>2, <2>2
      <3> QED BY <1>3, <2>2, <3>1, <3>2, MoveOnIs DEF Readable
    <2> QED BY <2>1, <2>2
  <1> QED BY <1>4 DEF r, q

\* A cursor that moves stays sound.
LEMMA ReadIs ==
    ASSUME Readable, cur \in [Cursors -> CursorType], \A c \in Cursors : Sound(cur[c]),
           scene.keys \subseteq Keys, Read
    PROVE  /\ op = Idle /\ UNCHANGED <<scene, writes, node, file, op>>
           /\ \E c \in Cursors : \E to : Sound(to) /\ cur' = [cur EXCEPT ![c] = to]
  <1>0. Nodes(node) /\ ROOT \in DOMAIN node /\ intkey \in BOOLEAN
    BY DEF Readable, Nodes
  <1>1. PICK c \in Cursors :
           \/ sqlite3BtreeFirst(c) \/ sqlite3BtreeLast(c)
           \/ sqlite3BtreeNext(c) \/ sqlite3BtreePrevious(c)
           \/ sqlite3BtreeIntegerKey(c) \/ sqlite3BtreeCursorRestore(c)
           \/ \E k \in scene.keys : sqlite3BtreeMoveto(c, k)
    BY DEF Read
  <1>2. Sound(cur[c])
    BY <1>1
  <1>3. \E to : Sound(to) /\ Move(c, to)
    <2>1. CASE sqlite3BtreeFirst(c)
      <3> DEFINE to == IF node[ROOT].cell = << >> THEN Nowhere ELSE At(moveToLeftmost(ROOT))
      <3>1. node[ROOT].cell # << >> => OnEntry(moveToLeftmost(ROOT))
        BY <1>0, LeftmostIs DEF OnLeafOf, OnEntry, IsPath
      <3>2. Sound(to)
        BY <1>0, <3>1, AtEntryIs, NowhereIs
      <3>3. Move(c, to)
        BY <2>1 DEF sqlite3BtreeFirst
      <3> QED BY <3>2, <3>3
    <2>2. CASE sqlite3BtreeLast(c)
      <3> DEFINE to == IF node[ROOT].cell = << >> THEN Nowhere
                       ELSE [At(moveToRightmost(ROOT)) EXCEPT !.last = TRUE]
      <3>1. node[ROOT].cell # << >> => OnEntry(moveToRightmost(ROOT))
        BY <1>0, RightmostIs DEF OnLeafOf, OnEntry, IsPath
      <3>2. Sound(to)
        BY <1>0, <3>1, AtEntryIs, NowhereIs
      <3>3. Move(c, to)
        BY <2>2 DEF sqlite3BtreeLast
      <3> QED BY <3>2, <3>3
    <2>3. CASE sqlite3BtreeNext(c)
      BY <1>2, <2>3, NextOfIs DEF sqlite3BtreeNext
    <2>4. CASE sqlite3BtreePrevious(c)
      <3> DEFINE r == [Restored(c) EXCEPT !.last = FALSE]
                 to == IF r.state = "INVALID" THEN r
                       ELSE MoveOn(r, IF r.skip < 0 THEN r.path ELSE btreePrevious(r.path))
      <3>1. Sound(to)
        BY <1>2, PreviousOfIs
      <3>2. Move(c, to)
        BY <2>4 DEF sqlite3BtreePrevious
      <3> QED BY <3>1, <3>2
    <2>5. CASE sqlite3BtreeIntegerKey(c)
      <3> DEFINE a == cur[c]
                 to == [a EXCEPT !.valid = TRUE, !.key = KeyOf(a)]
      <3>1. intkey /\ a.state = "VALID" /\ Move(c, to)
        BY <2>5 DEF sqlite3BtreeIntegerKey
      <3>2. OnEntry(a.path) /\ a \in CursorType
        BY <1>2, <3>1 DEF Sound, OnTree, Kept
      <3>3. KeyOf(a) \in Keys /\ KeyOf(a) \in Nat
        BY <1>0, <3>2, EntryIs, KeysAre DEF KeyOf
      <3> HIDE DEF a
      <3>4. to \in CursorType /\ to.state = "VALID" /\ to.path = a.path /\ to.key = KeyOf(a)
        BY <3>1, <3>2, <3>3 DEF CursorType
      <3> HIDE DEF to
      <3>5. Sound(to)
        BY <3>1, <3>2, <3>3, <3>4 DEF Sound, Kept, OnTree
      <3> QED BY <3>1, <3>5
    <2>6. CASE sqlite3BtreeCursorRestore(c)
      BY <1>2, <2>6, RestoreIs DEF sqlite3BtreeCursorRestore
    <2>7. CASE \E k \in scene.keys : sqlite3BtreeMoveto(c, k)
      <3>1. PICK k \in scene.keys : sqlite3BtreeMoveto(c, k)
        BY <2>7
      <3>2. Move(c, MovetoUnpacked(cur[c], k, FALSE).cur)
        BY <3>1 DEF sqlite3BtreeMoveto
      <3>3. Sound(MovetoUnpacked(cur[c], k, FALSE).cur)
        <4>1. k \in Keys
          BY <3>1
        <4> QED BY <1>2, <4>1, MovetoIs
      <3> QED BY <3>2, <3>3
    <2> QED BY <1>1, <2>1, <2>2, <2>3, <2>4, <2>5, <2>6, <2>7
  <1>4. PICK to : Sound(to) /\ Move(c, to)
    BY <1>3
  <1> QED BY <1>4 DEF Move

\* The cells of a tree and the overflow pages of each.
CellSpots(nd) == {s \in (DOMAIN nd) \X Nat : s[2] \in 1 .. Len(nd[s[1]].cell)}
OvfAt(nd, s) == nd[s[1]].cell[s[2]].ovf
OvfOf(nd, S) == {x \in Nat : \E s \in S : \E a \in 1 .. Len(OvfAt(nd, s)) : x = OvfAt(nd, s)[a]}
OvfPages(nd) == OvfOf(nd, CellSpots(nd))

\* No overflow page is named twice by some cells.
OnceIn(nd, S) ==
    \A s, v \in S : \A a \in 1 .. Len(OvfAt(nd, s)), b \in 1 .. Len(OvfAt(nd, v)) :
       OvfAt(nd, s)[a] = OvfAt(nd, v)[b] => s = v /\ a = b
OneChain(nd) == OnceIn(nd, CellSpots(nd))

\* The pages of the tree and the overflow pages are the used ones of the file.
Owned(nd, f) ==
    /\ FileOK(f) /\ OneChain(nd)
    /\ DOMAIN nd \cap OvfPages(nd) = {}
    /\ Used(f) = (DOMAIN nd \ {ROOT}) \cup OvfPages(nd)

\* A cell's place is a page and a number on it.
LEMMA CellSpotIs ==
    ASSUME NEW nd, NEW s
    PROVE  s \in CellSpots(nd) <=> /\ s = <<s[1], s[2]>> /\ s[1] \in DOMAIN nd /\ s[2] \in Nat
                                   /\ s[2] \in 1 .. Len(nd[s[1]].cell)
  BY DEF CellSpots

\* Every cell of a page has a place.
LEMMA CellSpotMade ==
    ASSUME NEW nd, NEW p \in DOMAIN nd, NEW j \in 1 .. Len(nd[p].cell)
    PROVE  <<p, j>> \in CellSpots(nd) /\ OvfAt(nd, <<p, j>>) = nd[p].cell[j].ovf
  <1>1. j \in Nat
    OBVIOUS
  <1> QED BY <1>1 DEF CellSpots, OvfAt

\* The cell at a place.
LEMMA CellSpotType ==
    ASSUME NEW nd, Nodes(nd), NEW s \in CellSpots(nd)
    PROVE  nd[s[1]].cell[s[2]] \in CellType /\ OvfAt(nd, s) \in Seq(Nat)
  <1>1. s[1] \in DOMAIN nd /\ s[2] \in 1 .. Len(nd[s[1]].cell)
    BY CellSpotIs
  <1>2. nd[s[1]].cell \in Seq(CellType)
    BY <1>1, NodeIs
  <1>3. nd[s[1]].cell[s[2]] \in CellType
    BY <1>1, <1>2
  <1> QED BY <1>3 DEF CellType, OvfAt

\* The cells V of one tree are the cells S of another, with the same overflow
\* pages: `at' says which.
Moves(nd, S, g, V, at) ==
    /\ \A v \in V : at[v] \in S /\ OvfAt(nd, at[v]) = OvfAt(g, v)
    /\ \A u, v \in V : at[u] = at[v] => u = v
    /\ \A s \in S : \E v \in V : at[v] = s

\* When cells move, their overflow chains are the same ones.
LEMMA ChainsMove ==
    ASSUME NEW nd, NEW S, NEW g, NEW V, NEW at, Moves(nd, S, g, V, at), OnceIn(nd, S)
    PROVE  OnceIn(g, V) /\ OvfOf(g, V) = OvfOf(nd, S)
  <1>1. /\ \A v \in V : at[v] \in S /\ OvfAt(nd, at[v]) = OvfAt(g, v)
        /\ \A u, v \in V : at[u] = at[v] => u = v
        /\ \A s \in S : \E v \in V : at[v] = s
    BY DEF Moves
  <1>2. OnceIn(g, V)
    <2>1. ASSUME NEW u \in V, NEW v \in V,
                 NEW a \in 1 .. Len(OvfAt(g, u)), NEW b \in 1 .. Len(OvfAt(g, v)),
                 OvfAt(g, u)[a] = OvfAt(g, v)[b]
          PROVE  u = v /\ a = b
      <3>1. /\ at[u] \in S /\ OvfAt(nd, at[u]) = OvfAt(g, u)
            /\ at[v] \in S /\ OvfAt(nd, at[v]) = OvfAt(g, v)
        BY <1>1
      <3>2. at[u] = at[v] /\ a = b
        BY <2>1, <3>1 DEF OnceIn
      <3> QED BY <1>1, <3>2
    <2> QED BY <2>1 DEF OnceIn
  <1>3. ASSUME NEW x \in OvfOf(g, V) PROVE x \in OvfOf(nd, S)
    <2>1. PICK v \in V : \E a \in 1 .. Len(OvfAt(g, v)) : x = OvfAt(g, v)[a]
      BY DEF OvfOf
    <2>2. x \in Nat /\ at[v] \in S /\ OvfAt(nd, at[v]) = OvfAt(g, v)
      BY <1>1 DEF OvfOf
    <2> QED BY <2>1, <2>2 DEF OvfOf
  <1>4. ASSUME NEW x \in OvfOf(nd, S) PROVE x \in OvfOf(g, V)
    <2>1. PICK s \in S : \E a \in 1 .. Len(OvfAt(nd, s)) : x = OvfAt(nd, s)[a]
      BY DEF OvfOf
    <2>2. PICK v \in V : at[v] = s
      BY <1>1
    <2>3. x \in Nat /\ OvfAt(g, v) = OvfAt(nd, s)
      BY <1>1, <2>2 DEF OvfOf
    <2> QED BY <2>1, <2>3 DEF OvfOf
  <1> QED BY <1>2, <1>3, <1>4

\* Cells that have no overflow pages do not matter.
Full(nd) == {s \in CellSpots(nd) : OvfAt(nd, s) # << >>}

\* Cells without overflow pages do not matter for the chains.
LEMMA FullOnly ==
    ASSUME NEW nd, Nodes(nd)
    PROVE  OvfPages(nd) = OvfOf(nd, Full(nd)) /\ (OneChain(nd) <=> OnceIn(nd, Full(nd)))
  <1>1. ASSUME NEW s \in CellSpots(nd), NEW a \in 1 .. Len(OvfAt(nd, s)) PROVE s \in Full(nd)
    <2>1. OvfAt(nd, s) \in Seq(Nat)
      BY CellSpotType
    <2>2. OvfAt(nd, s) # << >>
      BY <2>1
    <2> QED BY <2>2 DEF Full
  <1>2. Full(nd) \subseteq CellSpots(nd)
    BY DEF Full
  <1>3. OvfPages(nd) = OvfOf(nd, Full(nd))
    BY <1>1, <1>2 DEF OvfPages, OvfOf
  <1>4. OneChain(nd) => OnceIn(nd, Full(nd))
    BY <1>2 DEF OneChain, OnceIn
  <1>5. OnceIn(nd, Full(nd)) => OneChain(nd)
    BY <1>1 DEF OneChain, OnceIn
  <1> QED BY <1>3, <1>4, <1>5

\* The children, each from its place.
KidSpots(nd) == {s \in (DOMAIN nd) \X Nat : ~nd[s[1]].leaf /\ s[2] \in Turns(nd[s[1]])}
KidAt(nd, s) == Child(nd[s[1]], s[2])

\* Every page but the root is the child of one place.
OneParent(nd) ==
    /\ \A s, v \in KidSpots(nd) : KidAt(nd, s) = KidAt(nd, v) => s = v
    /\ \A p \in DOMAIN nd : p # ROOT => \E s \in KidSpots(nd) : KidAt(nd, s) = p

\* A child's place is an interior page and a turn there.
LEMMA KidSpotIs ==
    ASSUME NEW nd, NEW s
    PROVE  s \in KidSpots(nd) <=> /\ s = <<s[1], s[2]>> /\ s[1] \in DOMAIN nd /\ s[2] \in Nat
                                  /\ ~nd[s[1]].leaf /\ s[2] \in 1 .. Len(nd[s[1]].cell) + 1
  BY DEF KidSpots, Turns

\* Every turn of an interior page has a child.
LEMMA KidSpotMade ==
    ASSUME NEW nd, NEW p \in DOMAIN nd, ~nd[p].leaf, NEW j \in 1 .. Len(nd[p].cell) + 1
    PROVE  <<p, j>> \in KidSpots(nd) /\ KidAt(nd, <<p, j>>) = Child(nd[p], j)
  <1>1. j \in Nat
    OBVIOUS
  <1> QED BY <1>1 DEF KidSpots, KidAt, Turns

\* Two trees with the same pages and children.
SameShape(nd, g) ==
    /\ DOMAIN g = DOMAIN nd
    /\ \A p \in DOMAIN nd : g[p].leaf = nd[p].leaf
    /\ \A p \in DOMAIN nd : ~nd[p].leaf =>
          /\ Turns(g[p]) = Turns(nd[p])
          /\ \A j \in Turns(nd[p]) : Child(g[p], j) = Child(nd[p], j)

\* Trees of the same shape have the same levels, parents and ways.
LEMMA SameTree ==
    ASSUME NEW nd, NEW g, SameShape(nd, g)
    PROVE  /\ Levelled(nd) => Levelled(g)
           /\ OneParent(nd) => OneParent(g)
           /\ \A way, pg : IsWay(nd, way, pg) => IsWay(g, way, pg)
  <1>1. /\ DOMAIN g = DOMAIN nd
        /\ \A p \in DOMAIN nd : g[p].leaf = nd[p].leaf
        /\ \A p \in DOMAIN nd : ~nd[p].leaf =>
              /\ Turns(g[p]) = Turns(nd[p])
              /\ \A j \in Turns(nd[p]) : Child(g[p], j) = Child(nd[p], j)
    BY DEF SameShape
  <1>2. ASSUME Levelled(nd) PROVE Levelled(g)
    <2>1. PICK h, N : Levels(nd, h, N)
      BY <1>2 DEF Levelled
    <2>2. Levels(g, h, N)
      BY <1>1, <2>1 DEF Levels
    <2> QED BY <2>2 DEF Levelled
  <1>3. KidSpots(g) = KidSpots(nd) /\ \A s \in KidSpots(nd) : KidAt(g, s) = KidAt(nd, s)
    BY <1>1 DEF KidSpots, KidAt
  <1>4. OneParent(nd) => OneParent(g)
    BY <1>1, <1>3 DEF OneParent
  <1>5. ASSUME NEW way, NEW pg, IsWay(nd, way, pg) PROVE IsWay(g, way, pg)
    <2>1. /\ way \in Seq(StepType) /\ way # << >> /\ way[1].pg = pg
          /\ \A i \in 1 .. Len(way) : way[i].pg \in DOMAIN nd
          /\ \A i \in 1 .. Len(way) - 1 :
                /\ ~nd[way[i].pg].leaf
                /\ way[i].ix \in Turns(nd[way[i].pg])
                /\ Child(nd[way[i].pg], way[i].ix) = way[i + 1].pg
      BY <1>5 DEF IsWay
    <2>2. ASSUME NEW i \in 1 .. Len(way) - 1
          PROVE  /\ ~g[way[i].pg].leaf
                 /\ way[i].ix \in Turns(g[way[i].pg])
                 /\ Child(g[way[i].pg], way[i].ix) = way[i + 1].pg
      <3>1. way[i].pg \in DOMAIN nd
        <4>1. way \in Seq(StepType)
          BY <2>1
        <4>2. i \in 1 .. Len(way)
          BY <4>1
        <4> QED BY <2>1, <4>2
      <3> QED BY <1>1, <2>1, <3>1
    <2>3. \A i \in 1 .. Len(way) : way[i].pg \in DOMAIN g
      BY <1>1, <2>1
    <2> QED BY <2>1, <2>2, <2>3 DEF IsWay
  <1> QED BY <1>2, <1>4, <1>5

\* Where pages start in the cells that are laid out on them.
Stairs(st, k) ==
    /\ k \in Nat \ {0} /\ st \in [1 .. k + 1 -> Nat] /\ st[1] = 0
    /\ \A i \in 1 .. k : st[i] <= st[i + 1]

OnStair(st, i, c) == st[i] < c /\ c <= st[i + 1]

\* Stairs rise.
LEMMA StairsRise ==
    ASSUME NEW st, NEW k, Stairs(st, k)
    PROVE  \A i, j \in 1 .. k + 1 : i <= j => st[i] <= st[j]
  <1> DEFINE T == {d \in Nat : \E i, j \in 1 .. k + 1 : j = i + d /\ ~(st[i] <= st[j])}
  <1>1. /\ k \in Nat \ {0} /\ st \in [1 .. k + 1 -> Nat]
        /\ \A i \in 1 .. k : st[i] <= st[i + 1]
    BY DEF Stairs
  <1>2. T = {}
    <2>1. SUFFICES ASSUME T # {} PROVE FALSE
      OBVIOUS
    <2>2. PICK d \in T : \A e \in T : d <= e
      <3>1. T \subseteq Nat
        OBVIOUS
      <3> HIDE DEF T
      <3> QED BY <2>1, <3>1, LeastOf
    <2>3. PICK i \in 1 .. k + 1, j \in 1 .. k + 1 : j = i + d /\ ~(st[i] <= st[j])
      BY <2>2
    <2>4. d \in Nat /\ st[i] \in Nat /\ st[j] \in Nat
      BY <1>1, <2>2
    <2>5. d # 0
      BY <2>3, <2>4
    <2>6. j - 1 \in 1 .. k + 1 /\ j - 1 \in 1 .. k /\ (j - 1) + 1 = j /\ d - 1 \in Nat /\ j - 1 = i + (d - 1)
          /\ ~(d <= d - 1)
      BY <1>1, <2>3, <2>4, <2>5
    <2>7. d - 1 \notin T
      <3> HIDE DEF T
      <3> QED BY <2>2, <2>6
    <2>8. st[i] <= st[j - 1]
      BY <2>6, <2>7
    <2>9. st[j - 1] <= st[j] /\ st[j - 1] \in Nat
      BY <1>1, <2>6
    <2> QED BY <2>3, <2>4, <2>8, <2>9
  <1>3. ASSUME NEW i \in 1 .. k + 1, NEW j \in 1 .. k + 1, i <= j PROVE st[i] <= st[j]
    <2>1. j - i \in Nat /\ j = i + (j - i)
      BY <1>3
    <2> QED BY <1>2, <2>1
  <1> QED BY <1>3

\* Every cell has its page, and only one.
LEMMA StairIs ==
    ASSUME NEW st, NEW k, Stairs(st, k), NEW c \in 1 .. st[k + 1]
    PROVE  \E i \in 1 .. k : OnStair(st, i, c)
  <1> DEFINE T == {i \in 1 .. k : c <= st[i + 1]}
  <1>1. /\ k \in Nat \ {0} /\ st \in [1 .. k + 1 -> Nat] /\ st[1] = 0
    BY DEF Stairs
  <1>2. k \in T /\ T \subseteq Nat
    BY <1>1
  <1>3. PICK i \in T : \A j \in T : i <= j
    <2> HIDE DEF T
    <2> QED BY <1>2, LeastOf
  <1>4. i \in 1 .. k /\ c <= st[i + 1]
    BY <1>3
  <1>5. st[i] < c
    <2>1. CASE i = 1
      BY <1>1, <2>1
    <2>2. CASE i # 1
      <3>1. i - 1 \in 1 .. k /\ (i - 1) + 1 = i /\ ~(i <= i - 1)
        BY <1>1, <1>4, <2>2
      <3>2. i - 1 \notin T
        <4> HIDE DEF T
        <4> QED BY <1>3, <3>1
      <3>3. ~(c <= st[i])
        BY <3>1, <3>2
      <3>4. st[i] \in Nat /\ c \in Nat
        BY <1>1, <1>4
      <3> QED BY <3>3, <3>4
    <2> QED BY <2>1, <2>2
  <1> QED BY <1>4, <1>5 DEF OnStair

\* A number is on one stair only.
LEMMA StairOnce ==
    ASSUME NEW st, NEW k, Stairs(st, k), NEW c \in Nat, NEW i \in 1 .. k, NEW j \in 1 .. k,
           OnStair(st, i, c), OnStair(st, j, c)
    PROVE  i = j
  <1>1. k \in Nat \ {0} /\ st \in [1 .. k + 1 -> Nat]
    BY DEF Stairs
  <1>2. i \in 1 .. k + 1 /\ j \in 1 .. k + 1 /\ i + 1 \in 1 .. k + 1 /\ j + 1 \in 1 .. k + 1
    BY <1>1
  <1>3. st[i] \in Nat /\ st[j] \in Nat /\ st[i + 1] \in Nat /\ st[j + 1] \in Nat
    BY <1>1, <1>2
  <1>4. st[i] < c /\ c <= st[i + 1] /\ st[j] < c /\ c <= st[j + 1]
    BY DEF OnStair
  <1>5. ~(i + 1 <= j)
    <2>1. i + 1 <= j => st[i + 1] <= st[j]
      BY <1>2, StairsRise
    <2> QED BY <1>3, <1>4, <2>1
  <1>6. ~(j + 1 <= i)
    <2>1. j + 1 <= i => st[j + 1] <= st[i]
      BY <1>2, StairsRise
    <2> QED BY <1>3, <1>4, <2>1
  <1> QED BY <1>5, <1>6

StairOf(st, k, c) == CHOOSE i \in 1 .. k : OnStair(st, i, c)

\* Every number up to the top is on the stair that StairOf finds.
LEMMA StairOfIs ==
    ASSUME NEW st, NEW k, Stairs(st, k), NEW c \in 1 .. st[k + 1]
    PROVE  StairOf(st, k, c) \in 1 .. k /\ OnStair(st, StairOf(st, k, c), c)
  BY StairIs DEF StairOf

\* StairOf finds the stair that a number is on.
LEMMA StairOfOnly ==
    ASSUME NEW st, NEW k, Stairs(st, k), NEW c \in 1 .. st[k + 1], NEW i \in 1 .. k, OnStair(st, i, c)
    PROVE  StairOf(st, k, c) = i
  <1>1. c \in Nat
    BY DEF Stairs
  <1> DEFINE j == StairOf(st, k, c)
  <1>2. j \in 1 .. k /\ OnStair(st, j, c)
    BY StairOfIs
  <1> HIDE DEF j
  <1>3. i = j
    BY <1>1, <1>2, StairOnce
  <1> QED BY <1>3 DEF j

--------------------------------------------------------------------------------
\* What balance_nonroot leaves alone and what it lays out anew: the other pages,
\* the parent P, its cells before and after, and the cells of the siblings.
AssemblyType(A) ==
    /\ A.P \in Nat /\ A.leaf \in BOOLEAN /\ A.skip \in 0 .. 1 /\ (A.skip = 0 => A.leaf)
    /\ A.others \in [DOMAIN A.others -> NodeType] /\ DOMAIN A.others \subseteq Nat
    /\ A.P \notin DOMAIN A.others /\ ROOT \in DOMAIN A.others \cup {A.P}
    /\ A.lo \in Seq(CellType) /\ A.hi \in Seq(CellType) /\ A.cells \in Seq(CellType)
    /\ A.top \in Nat /\ A.right \in Nat

\* A tree in which the cells are laid out on the pages `pgs', k of them, which
\* start after the cells st.
Assembled(nd, A, k, pgs, st) ==
    /\ Nodes(nd) /\ k \in Nat \ {0} /\ pgs \in [1 .. k -> Nat]
    /\ \A i, j \in 1 .. k : pgs[i] = pgs[j] => i = j
    /\ \A i \in 1 .. k : pgs[i] # A.P /\ pgs[i] \notin DOMAIN A.others
    /\ DOMAIN nd = DOMAIN A.others \cup {A.P} \cup {pgs[i] : i \in 1 .. k}
    /\ \A p \in DOMAIN A.others : nd[p] = A.others[p]

LaidOut(nd, A, k, pgs, st) ==
    /\ st \in [1 .. k + 1 -> Nat] /\ st[1] = 0 /\ st[k + 1] = Len(A.cells) + A.skip
    /\ \A i \in 1 .. k :
          /\ st[i + 1] = st[i] + Len(nd[pgs[i]].cell) + A.skip
          /\ nd[pgs[i]].leaf = A.leaf
          /\ \A x \in 1 .. Len(nd[pgs[i]].cell) : nd[pgs[i]].cell[x] = A.cells[st[i] + x]
          /\ ~A.leaf => nd[pgs[i]].right = IF i = k THEN A.right ELSE A.cells[st[i + 1]].left

\* The parent's children after those.
AfterKid(A, x) == IF x < Len(A.hi) THEN A.hi[x + 1].left ELSE A.top

Above1(nd, A, k, pgs, st) ==
    LET n == nd[A.P]
        d == Len(A.lo) IN
    /\ ~n.leaf /\ Len(n.cell) = d + (k - 1) + Len(A.hi)
    /\ \A x \in 1 .. d : n.cell[x] = A.lo[x]
    /\ \A x \in 1 .. Len(A.hi) : n.cell[d + (k - 1) + x].ovf = A.hi[x].ovf
    /\ \A i \in 1 .. k - 1 :
          n.cell[d + i].ovf = IF A.skip = 1 THEN A.cells[st[i + 1]].ovf ELSE << >>
    /\ \A i \in 1 .. k : Child(n, d + i) = pgs[i]
    /\ \A x \in 1 .. Len(A.hi) : Child(n, d + k + x) = AfterKid(A, x)

Assembly(nd, A, k, pgs, st) ==
    AssemblyType(A) /\ Assembled(nd, A, k, pgs, st) /\ LaidOut(nd, A, k, pgs, st)
    /\ Above1(nd, A, k, pgs, st)

\* The i-th page of an assembly and the cells it starts and ends with.
LEMMA PageOut ==
    ASSUME NEW nd, NEW A, NEW k, NEW pgs, NEW st, Assembly(nd, A, k, pgs, st), NEW i \in 1 .. k
    PROVE  /\ k \in Nat \ {0} /\ i \in 1 .. k + 1 /\ i + 1 \in 1 .. k + 1
           /\ pgs[i] \in DOMAIN nd /\ pgs[i] # A.P /\ pgs[i] \notin DOMAIN A.others
           /\ Len(nd[pgs[i]].cell) \in Nat /\ A.skip \in 0 .. 1 /\ Len(A.cells) \in Nat
           /\ st[i] \in Nat /\ st[i + 1] \in Nat
           /\ st[i + 1] = st[i] + Len(nd[pgs[i]].cell) + A.skip
           /\ st[i + 1] <= Len(A.cells) + A.skip
           /\ Stairs(st, k) /\ st[k + 1] = Len(A.cells) + A.skip
  <1>1. /\ k \in Nat \ {0} /\ pgs[i] \in DOMAIN nd /\ pgs[i] # A.P /\ pgs[i] \notin DOMAIN A.others
        /\ Nodes(nd) /\ \A j \in 1 .. k : pgs[j] \in DOMAIN nd
    BY DEF Assembly, Assembled
  <1>2. i \in 1 .. k + 1 /\ i + 1 \in 1 .. k + 1 /\ k + 1 \in 1 .. k + 1 /\ i + 1 <= k + 1
        /\ \A j \in 1 .. k : j \in 1 .. k + 1 /\ j + 1 \in 1 .. k + 1
    BY <1>1
  <1>3. \A j \in 1 .. k : Len(nd[pgs[j]].cell) \in Nat
    BY <1>1, NodeIs
  <1>4. A.skip \in 0 .. 1 /\ A.cells \in Seq(CellType) /\ Len(A.cells) \in Nat
    BY DEF Assembly, AssemblyType
  <1>5. /\ st \in [1 .. k + 1 -> Nat] /\ st[1] = 0 /\ st[k + 1] = Len(A.cells) + A.skip
        /\ \A j \in 1 .. k : st[j + 1] = st[j] + Len(nd[pgs[j]].cell) + A.skip
    BY DEF Assembly, LaidOut
  <1>6. \A j \in 1 .. k : st[j] <= st[j + 1]
    <2>1. ASSUME NEW j \in 1 .. k PROVE st[j] <= st[j + 1]
      <3>1. st[j] \in Nat /\ st[j + 1] = st[j] + Len(nd[pgs[j]].cell) + A.skip
            /\ Len(nd[pgs[j]].cell) \in Nat /\ A.skip \in Nat
        BY <1>2, <1>3, <1>4, <1>5, SMTT(30)
      <3> QED BY <3>1
    <2> QED BY <2>1
  <1>7. Stairs(st, k)
    BY <1>1, <1>5, <1>6 DEF Stairs
  <1>8. st[i + 1] <= st[k + 1]
    BY <1>2, <1>7, StairsRise
  <1> QED BY <1>1, <1>2, <1>3, <1>4, <1>5, <1>7, <1>8

\* The cells of an assembly by names that do not depend on the layout: those of
\* the other pages, those of the parent before and after, and the laid out ones.
CellNames(A) ==
    {n \in (0 .. 3) \X Nat \X Nat :
       /\ n[1] = 0 => n[2] \in DOMAIN A.others /\ n[3] \in 1 .. Len(A.others[n[2]].cell)
       /\ n[1] # 0 => n[2] = 0
       /\ n[1] = 1 => n[3] \in 1 .. Len(A.lo)
       /\ n[1] = 2 => n[3] \in 1 .. Len(A.hi)
       /\ n[1] = 3 => n[3] \in 1 .. Len(A.cells)}

ChainOf(A, n) ==
    IF n[1] = 0 THEN A.others[n[2]].cell[n[3]].ovf
    ELSE IF n[1] = 1 THEN A.lo[n[3]].ovf
    ELSE IF n[1] = 2 THEN A.hi[n[3]].ovf
    ELSE A.cells[n[3]].ovf

ChainNames(A) == {n \in CellNames(A) : ChainOf(A, n) # << >>}

\* Where the cell of a name is.
CellSpot(nd, A, k, pgs, st, n) ==
    LET i == StairOf(st, k, n[3])
        x == n[3] - st[i]
    IN IF n[1] = 0 THEN <<n[2], n[3]>>
       ELSE IF n[1] = 1 THEN <<A.P, n[3]>>
       ELSE IF n[1] = 2 THEN <<A.P, Len(A.lo) + (k - 1) + n[3]>>
       ELSE IF x <= Len(nd[pgs[i]].cell) THEN <<pgs[i], x>> ELSE <<A.P, Len(A.lo) + i>>

PageIx(k, pgs, p) == CHOOSE i \in 1 .. k : pgs[i] = p

CellName(nd, A, k, pgs, st, s) ==
    LET d == Len(A.lo) IN
    IF s[1] \in DOMAIN A.others THEN <<0, s[1], s[2]>>
    ELSE IF s[1] = A.P /\ s[2] <= d THEN <<1, 0, s[2]>>
    ELSE IF s[1] = A.P /\ s[2] > d + (k - 1) THEN <<2, 0, s[2] - (d + (k - 1))>>
    ELSE IF s[1] = A.P THEN <<3, 0, st[(s[2] - d) + 1]>>
    ELSE <<3, 0, st[PageIx(k, pgs, s[1])] + s[2]>>

\* The parent's cells.
LEMMA ParentOut ==
    ASSUME NEW nd, NEW A, NEW k, NEW pgs, NEW st, Assembly(nd, A, k, pgs, st)
    PROVE  /\ k \in Nat \ {0} /\ A.P \in DOMAIN nd /\ A.P \in Nat /\ ~nd[A.P].leaf
           /\ A.P \notin DOMAIN A.others /\ DOMAIN A.others \subseteq Nat /\ Nodes(nd)
           /\ Len(A.lo) \in Nat /\ Len(A.hi) \in Nat /\ Len(A.cells) \in Nat
           /\ Len(nd[A.P].cell) = Len(A.lo) + (k - 1) + Len(A.hi)
           /\ A.skip \in 0 .. 1 /\ (A.skip = 0 => A.leaf) /\ A.leaf \in BOOLEAN
           /\ Stairs(st, k) /\ st[k + 1] = Len(A.cells) + A.skip
           /\ \A p \in DOMAIN A.others : p \in DOMAIN nd /\ nd[p] = A.others[p]
  <1>1. k \in Nat \ {0} /\ 1 \in 1 .. k
    BY DEF Assembly, Assembled
  <1>2. Stairs(st, k) /\ st[k + 1] = Len(A.cells) + A.skip
    <2>1. \A i \in 1 .. k : Stairs(st, k) /\ st[k + 1] = Len(A.cells) + A.skip
      BY PageOut
    <2> QED BY <1>1, <2>1
  <1>3. Assembled(nd, A, k, pgs, st) /\ AssemblyType(A) /\ Above1(nd, A, k, pgs, st)
    BY DEF Assembly
  <1>4. /\ A.P \in DOMAIN nd /\ Nodes(nd)
        /\ \A p \in DOMAIN A.others : p \in DOMAIN nd /\ nd[p] = A.others[p]
    BY <1>3 DEF Assembled
  <1>5. /\ A.P \in Nat /\ A.P \notin DOMAIN A.others /\ DOMAIN A.others \subseteq Nat
        /\ A.skip \in 0 .. 1 /\ (A.skip = 0 => A.leaf) /\ A.leaf \in BOOLEAN
        /\ Len(A.lo) \in Nat /\ Len(A.hi) \in Nat /\ Len(A.cells) \in Nat
    BY <1>3 DEF AssemblyType
  <1>6. ~nd[A.P].leaf /\ Len(nd[A.P].cell) = Len(A.lo) + (k - 1) + Len(A.hi)
    BY <1>3 DEF Above1
  <1> QED BY <1>1, <1>2, <1>4, <1>5, <1>6

\* The number of a page of an assembly.
LEMMA PageIxIs ==
    ASSUME NEW nd, NEW A, NEW k, NEW pgs, NEW st, Assembly(nd, A, k, pgs, st)
    PROVE  /\ \A i \in 1 .. k : PageIx(k, pgs, pgs[i]) = i
           /\ \A p \in DOMAIN nd : p \notin DOMAIN A.others /\ p # A.P =>
                 PageIx(k, pgs, p) \in 1 .. k /\ pgs[PageIx(k, pgs, p)] = p
  <1>1. /\ \A i, j \in 1 .. k : pgs[i] = pgs[j] => i = j
        /\ DOMAIN nd = DOMAIN A.others \cup {A.P} \cup {pgs[i] : i \in 1 .. k}
    BY DEF Assembly, Assembled
  <1> QED BY <1>1 DEF PageIx

\* A number past a page's cells is that of the divider after it.
LEMMA PastPage ==
    ASSUME NEW c \in Nat, NEW a \in Nat, NEW b \in Nat, NEW len \in Nat, NEW skip \in 0 .. 1,
           b = a + len + skip, c <= b, ~(c - a <= len)
    PROVE  skip = 1 /\ c = b
  OBVIOUS

\* The name of a cell leads to the cell.
LEMMA NamedCell ==
    ASSUME NEW nd, NEW A, NEW k, NEW pgs, NEW st, Assembly(nd, A, k, pgs, st), NEW n \in CellNames(A)
    PROVE  LET s == CellSpot(nd, A, k, pgs, st, n) IN
           /\ s \in CellSpots(nd) /\ OvfAt(nd, s) = ChainOf(A, n)
           /\ CellName(nd, A, k, pgs, st, s) = n
  <1> DEFINE s == CellSpot(nd, A, k, pgs, st, n)
             d == Len(A.lo)
             e == Len(A.hi)
             m == Len(A.cells)
  <1>1. /\ k \in Nat \ {0} /\ A.P \in DOMAIN nd /\ A.P \in Nat
        /\ A.P \notin DOMAIN A.others /\ d \in Nat /\ e \in Nat /\ m \in Nat
        /\ Len(nd[A.P].cell) = d + (k - 1) + e
        /\ \A p \in DOMAIN A.others : p \in DOMAIN nd /\ nd[p] = A.others[p]
    BY ParentOut DEF d, e, m
  <1>2. /\ n = <<n[1], n[2], n[3]>> /\ n[1] \in 0 .. 3 /\ n[3] \in Nat
        /\ n[1] = 0 => n[2] \in DOMAIN A.others /\ n[3] \in 1 .. Len(A.others[n[2]].cell)
        /\ n[1] # 0 => n[2] = 0
        /\ n[1] = 1 => n[3] \in 1 .. d
        /\ n[1] = 2 => n[3] \in 1 .. e
        /\ n[1] = 3 => n[3] \in 1 .. m
    BY DEF CellNames, d, e, m
  <1> HIDE DEF d, e, m
  <1>3. CASE n[1] = 0
    <2>1. s = <<n[2], n[3]>>
      BY <1>3 DEF CellSpot, d
    <2>2. n[2] \in DOMAIN nd /\ nd[n[2]] = A.others[n[2]] /\ n[3] \in 1 .. Len(nd[n[2]].cell)
      BY <1>1, <1>2, <1>3
    <2>3. s \in CellSpots(nd) /\ OvfAt(nd, s) = nd[n[2]].cell[n[3]].ovf
      BY <2>1, <2>2, CellSpotMade
    <2>4. ChainOf(A, n) = A.others[n[2]].cell[n[3]].ovf
      BY <1>3 DEF ChainOf
    <2>5. CellName(nd, A, k, pgs, st, s) = <<0, n[2], n[3]>>
      BY <1>2, <1>3, <2>1 DEF CellName, d
    <2> QED BY <1>2, <1>3, <2>2, <2>3, <2>4, <2>5
  <1>4. CASE n[1] = 1
    <2>1. s = <<A.P, n[3]>>
      BY <1>4 DEF CellSpot, d
    <2>2. n[3] \in 1 .. Len(nd[A.P].cell) /\ n[3] <= d /\ n[3] \in 1 .. d
      BY <1>1, <1>2, <1>4
    <2>3. s \in CellSpots(nd) /\ OvfAt(nd, s) = nd[A.P].cell[n[3]].ovf
      <3>1. A.P \in DOMAIN nd
        BY <1>1
      <3> QED BY <2>1, <2>2, <3>1, CellSpotMade
    <2>4. ChainOf(A, n) = A.lo[n[3]].ovf
      BY <1>4 DEF ChainOf
    <2>5. nd[A.P].cell[n[3]] = A.lo[n[3]]
      BY <2>2 DEF Assembly, Above1, d
    <2>6. CellName(nd, A, k, pgs, st, s) = <<1, 0, n[3]>>
      BY <1>1, <2>1, <2>2 DEF CellName, d
    <2> QED BY <1>2, <1>4, <2>3, <2>4, <2>5, <2>6
  <1>5. CASE n[1] = 2
    <2>1. s = <<A.P, d + (k - 1) + n[3]>>
      BY <1>5 DEF CellSpot, d
    <2>2. /\ d + (k - 1) + n[3] \in 1 .. Len(nd[A.P].cell) /\ ~(d + (k - 1) + n[3] <= d)
          /\ d + (k - 1) + n[3] > d + (k - 1) /\ (d + (k - 1) + n[3]) - (d + (k - 1)) = n[3]
      BY <1>1, <1>2, <1>5
    <2>3. s \in CellSpots(nd) /\ OvfAt(nd, s) = nd[A.P].cell[d + (k - 1) + n[3]].ovf
      <3>1. A.P \in DOMAIN nd /\ d + (k - 1) + n[3] \in 1 .. Len(nd[A.P].cell)
        BY <1>1, <2>2
      <3> QED BY <2>1, <3>1, CellSpotMade
    <2>4. ChainOf(A, n) = A.hi[n[3]].ovf
      BY <1>5 DEF ChainOf
    <2>5. nd[A.P].cell[d + (k - 1) + n[3]].ovf = A.hi[n[3]].ovf
      BY <1>2, <1>5 DEF Assembly, Above1, d, e
    <2>6. CellName(nd, A, k, pgs, st, s) = <<2, 0, n[3]>>
      BY <1>1, <2>1, <2>2 DEF CellName, d
    <2> QED BY <1>2, <1>5, <2>3, <2>4, <2>5, <2>6
  <1>6. CASE n[1] = 3
    <2> DEFINE i == StairOf(st, k, n[3])
               x == n[3] - st[i]
    <2>1. Stairs(st, k) /\ st[k + 1] = m + A.skip /\ A.skip \in 0 .. 1
      BY ParentOut DEF m
    <2>2. n[3] \in 1 .. m
      BY <1>2, <1>6
    <2>3. n[3] \in 1 .. st[k + 1]
      BY <1>1, <2>1, <2>2
    <2>4. i \in 1 .. k /\ st[i] < n[3] /\ n[3] <= st[i + 1]
      BY <2>1, <2>3, StairOfIs DEF OnStair
    <2> HIDE DEF i
    <2>5. /\ i \in 1 .. k + 1 /\ pgs[i] \in DOMAIN nd /\ pgs[i] # A.P /\ pgs[i] \notin DOMAIN A.others
          /\ Len(nd[pgs[i]].cell) \in Nat /\ st[i] \in Nat /\ st[i + 1] \in Nat
          /\ st[i + 1] = st[i] + Len(nd[pgs[i]].cell) + A.skip
      BY <2>4, PageOut
    <2>6. ChainOf(A, n) = A.cells[n[3]].ovf
      BY <1>6 DEF ChainOf
    <2>7. s = IF x <= Len(nd[pgs[i]].cell) THEN <<pgs[i], x>> ELSE <<A.P, d + i>>
      BY <1>6 DEF CellSpot, i, d
    <2>8. CASE x <= Len(nd[pgs[i]].cell)
      <3>1. s = <<pgs[i], x>> /\ x \in 1 .. Len(nd[pgs[i]].cell) /\ st[i] + x = n[3]
        BY <1>2, <2>4, <2>5, <2>7, <2>8
      <3>2. s \in CellSpots(nd) /\ OvfAt(nd, s) = nd[pgs[i]].cell[x].ovf
        BY <2>5, <3>1, CellSpotMade
      <3>3. nd[pgs[i]].cell[x] = A.cells[st[i] + x]
        <4> HIDE DEF x
        <4> QED BY <2>4, <3>1 DEF Assembly, LaidOut
      <3>4. PageIx(k, pgs, pgs[i]) = i
        BY <2>4, PageIxIs
      <3>5. CellName(nd, A, k, pgs, st, s) = <<3, 0, st[i] + x>>
        <4> HIDE DEF x
        <4>1. s[1] = pgs[i] /\ s[2] = x
          BY <3>1
        <4> HIDE DEF s
        <4> QED BY <2>5, <3>4, <4>1 DEF CellName, d
      <3> QED BY <1>2, <1>6, <2>6, <3>1, <3>2, <3>3, <3>5
    <2>9. CASE ~(x <= Len(nd[pgs[i]].cell))
      <3>1. s = <<A.P, d + i>> /\ A.skip = 1 /\ n[3] = st[i + 1]
        <4>1. A.skip \in 0 .. 1 /\ n[3] \in Nat
          BY <1>2, <2>1
        <4>2. A.skip = 1 /\ n[3] = st[i + 1]
          BY <2>4, <2>5, <2>9, <4>1, PastPage
        <4> QED BY <2>7, <2>9, <4>2
      <3>2. i # k
        <4>1. i = k => n[3] = m + 1
          BY <2>1, <3>1
        <4>2. m \in Nat
          BY <1>1
        <4> QED BY <2>2, <4>1, <4>2
      <3>3. /\ d + i \in 1 .. Len(nd[A.P].cell)
            /\ i \in 1 .. k - 1
            /\ ~(d + i <= d)
            /\ ~(d + i > d + (k - 1))
            /\ (d + i) - d = i
        <4>1. /\ d \in Nat /\ e \in Nat /\ k \in Nat \ {0} /\ i \in 1 .. k /\ i # k
              /\ Len(nd[A.P].cell) = d + (k - 1) + e
          BY <1>1, <2>4, <3>2
        <4>2. i \in Nat /\ i >= 1 /\ i <= k - 1
          BY ONLY <4>1
        <4>3. d + i \in 1 .. Len(nd[A.P].cell)
          <5>1. d + i \in Nat /\ d + i >= 1
            BY ONLY <4>1, <4>2
          <5>2. d + i <= d + (k - 1) + e
            BY ONLY <4>1, <4>2
          <5>3. d + (k - 1) + e \in Nat
            BY ONLY <4>1
          <5> QED BY ONLY <4>1, <5>1, <5>2, <5>3
        <4>4. i \in 1 .. k - 1 /\ ~(d + i <= d)
          BY ONLY <4>1
        <4>5. ~(d + i > d + (k - 1)) /\ (d + i) - d = i
          BY ONLY <4>1
        <4> QED BY <4>3, <4>4, <4>5
      <3>4. s \in CellSpots(nd) /\ OvfAt(nd, s) = nd[A.P].cell[d + i].ovf
        <4>1. A.P \in DOMAIN nd /\ d + i \in 1 .. Len(nd[A.P].cell)
          BY <1>1, <3>3
        <4> QED BY <3>1, <4>1, CellSpotMade
      <3>5. nd[A.P].cell[d + i].ovf = A.cells[st[i + 1]].ovf
        BY <3>1, <3>3 DEF Assembly, Above1, d
      <3>6. CellName(nd, A, k, pgs, st, s) = <<3, 0, st[i + 1]>>
        <4>1. s[1] = A.P /\ s[2] = d + i
          BY <3>1
        <4> HIDE DEF s
        <4> QED BY <1>1, <3>3, <4>1 DEF CellName, d
      <3> QED BY <1>2, <1>6, <2>6, <3>1, <3>4, <3>5, <3>6
    <2> QED BY <2>8, <2>9
  <1> QED BY <1>2, <1>3, <1>4, <1>5, <1>6

LoN(A) == Len(A.lo)
HiN(A) == Len(A.hi)
CellN(A) == Len(A.cells)

\* Every cell with overflow pages has a name.
LEMMA CellNamed ==
    ASSUME NEW nd, NEW A, NEW k, NEW pgs, NEW st, Assembly(nd, A, k, pgs, st),
           NEW s \in CellSpots(nd), OvfAt(nd, s) # << >>
    PROVE  LET n == CellName(nd, A, k, pgs, st, s) IN
           n \in CellNames(A) /\ CellSpot(nd, A, k, pgs, st, n) = s
  <1> DEFINE n == CellName(nd, A, k, pgs, st, s)
             d == LoN(A)
             e == HiN(A)
             m == CellN(A)
  <1>1. /\ k \in Nat \ {0} /\ A.P \notin DOMAIN A.others /\ d \in Nat /\ e \in Nat /\ m \in Nat
        /\ Len(nd[A.P].cell) = d + (k - 1) + e /\ Stairs(st, k) /\ st[k + 1] = m + A.skip
        /\ A.skip \in 0 .. 1
        /\ \A p \in DOMAIN A.others : p \in DOMAIN nd /\ nd[p] = A.others[p]
    BY ParentOut DEF LoN, HiN, CellN
  <1>10. m \in Nat /\ A.skip \in 0 .. 1
    BY <1>1
  <1>2. /\ s = <<s[1], s[2]>> /\ s[1] \in DOMAIN nd /\ s[2] \in Nat /\ s[2] \in 1 .. Len(nd[s[1]].cell)
    BY CellSpotIs
  <1>3. DOMAIN nd \subseteq Nat
    BY ParentOut DEF Nodes
  <1>4. CASE s[1] \in DOMAIN A.others
    <2>1. n = <<0, s[1], s[2]>>
      BY <1>4 DEF CellName
    <2>2. s[2] \in 1 .. Len(A.others[s[1]].cell) /\ s[1] \in Nat
      BY <1>1, <1>2, <1>3, <1>4
    <2>3. n \in CellNames(A)
      BY <1>2, <1>4, <2>1, <2>2 DEF CellNames
    <2>4. CellSpot(nd, A, k, pgs, st, n) = <<s[1], s[2]>>
      BY <2>1 DEF CellSpot
    <2> QED BY <1>2, <2>3, <2>4
  <1>5. CASE s[1] = A.P /\ s[2] <= d
    <2>1. n = <<1, 0, s[2]>>
      BY <1>1, <1>5 DEF CellName, LoN
    <2>2. s[2] \in 1 .. d
      BY <1>1, <1>2, <1>5
    <2>3. n \in CellNames(A)
      BY <1>2, <2>1, <2>2 DEF CellNames, LoN
    <2>4. CellSpot(nd, A, k, pgs, st, n) = <<A.P, s[2]>>
      BY <2>1 DEF CellSpot
    <2> QED BY <1>2, <1>5, <2>3, <2>4
  <1>6. CASE s[1] = A.P /\ ~(s[2] <= d) /\ s[2] > d + (k - 1)
    <2>1. n = <<2, 0, s[2] - (d + (k - 1))>>
      BY <1>1, <1>6 DEF CellName, LoN
    <2>2. s[2] - (d + (k - 1)) \in 1 .. e /\ d + (k - 1) + (s[2] - (d + (k - 1))) = s[2]
      <3>1. s[2] \in Nat /\ s[2] <= d + (k - 1) + e
        BY <1>1, <1>2, <1>6
      <3> QED BY <1>1, <1>6, <3>1
    <2>3. s[2] - (d + (k - 1)) \in Nat
      BY <2>2
    <2>4. n \in CellNames(A)
      <3>1. <<2, 0, s[2] - (d + (k - 1))>> \in (0 .. 3) \X Nat \X Nat
        BY <2>3
      <3> QED BY <2>1, <2>2, <3>1 DEF CellNames, HiN
    <2>5. CellSpot(nd, A, k, pgs, st, n) = <<A.P, d + (k - 1) + (s[2] - (d + (k - 1)))>>
      BY <2>1 DEF CellSpot, LoN
    <2> QED BY <1>2, <1>6, <2>2, <2>4, <2>5
  <1>7. CASE s[1] = A.P /\ ~(s[2] <= d) /\ ~(s[2] > d + (k - 1))
    <2> DEFINE i == s[2] - d
               c == st[i + 1]
    <2>1. n = <<3, 0, c>>
      BY <1>1, <1>7 DEF CellName, LoN
    <2>2. i \in 1 .. k - 1 /\ i \in 1 .. k /\ d + i = s[2] /\ i + 1 \in 1 .. k
      BY <1>1, <1>2, <1>7, SMTT(30)
    <2> HIDE DEF i
    <2>3. nd[A.P].cell[d + i].ovf = IF A.skip = 1 THEN A.cells[c].ovf ELSE << >>
      BY <2>2 DEF Assembly, Above1, LoN
    <2>4. A.skip = 1
      BY <1>1, <1>2, <1>7, <2>2, <2>3 DEF OvfAt
    <2>5. /\ pgs[i] \notin DOMAIN A.others /\ Len(nd[pgs[i]].cell) \in Nat
          /\ st[i] \in Nat /\ c \in Nat /\ c = st[i] + Len(nd[pgs[i]].cell) + A.skip
      BY <2>2, PageOut
    <2>6. c + 1 <= m + 1
      <3>1. /\ st[(i + 1) + 1] \in Nat /\ st[(i + 1) + 1] <= Len(A.cells) + A.skip
            /\ Len(nd[pgs[i + 1]].cell) \in Nat
            /\ st[(i + 1) + 1] = st[i + 1] + Len(nd[pgs[i + 1]].cell) + A.skip
        BY <2>2, PageOut
      <3>2. st[(i + 1) + 1] <= m + 1
        BY <2>4, <3>1 DEF CellN
      <3>3. st[(i + 1) + 1] = c + Len(nd[pgs[i + 1]].cell) + 1 /\ c \in Nat
        BY <2>4, <2>5, <3>1
      <3> HIDE DEF c
      <3> QED BY ONLY <1>10, <3>1, <3>2, <3>3
    <2>7. c \in 1 .. m /\ c \in Nat
      <3>1. c \in Nat /\ c = st[i] + Len(nd[pgs[i]].cell) + 1 /\ st[i] \in Nat /\ Len(nd[pgs[i]].cell) \in Nat
        BY <2>4, <2>5
      <3> HIDE DEF c
      <3> QED BY ONLY <1>10, <2>6, <3>1
    <2>8. n \in CellNames(A)
      <3>1. <<3, 0, c>> \in (0 .. 3) \X Nat \X Nat
        BY <2>7
      <3> QED BY <2>1, <2>7, <3>1 DEF CellNames, CellN
    <2>9. StairOf(st, k, c) = i
      <3>1. OnStair(st, i, c)
        BY <2>4, <2>5 DEF OnStair
      <3>2. c \in 1 .. st[k + 1]
        BY <1>1, <2>4, <2>7
      <3> QED BY <1>1, <2>2, <3>1, <3>2, StairOfOnly
    <2>10. ~(c - st[i] <= Len(nd[pgs[i]].cell))
      BY <2>4, <2>5
    <2>11. CellSpot(nd, A, k, pgs, st, n) = <<A.P, d + i>>
      <3> HIDE DEF c
      <3> QED BY <2>1, <2>9, <2>10 DEF CellSpot, LoN
    <2> QED BY <1>2, <1>7, <2>2, <2>8, <2>11
  <1>8. CASE s[1] \notin DOMAIN A.others /\ s[1] # A.P
    <2> DEFINE i == PageIx(k, pgs, s[1])
               c == st[i] + s[2]
    <2>1. n = <<3, 0, c>>
      BY <1>8 DEF CellName
    <2>2. i \in 1 .. k /\ pgs[i] = s[1]
      BY <1>2, <1>8, PageIxIs
    <2> HIDE DEF i
    <2>3. /\ Len(nd[pgs[i]].cell) \in Nat
          /\ st[i] \in Nat /\ st[i + 1] \in Nat /\ st[i + 1] = st[i] + Len(nd[pgs[i]].cell) + A.skip
      BY <2>2, PageOut
    <2>4. st[i + 1] <= m + A.skip
      BY <2>2, PageOut DEF CellN
    <2>5. s[2] \in Nat /\ 1 <= s[2] /\ s[2] <= Len(nd[pgs[i]].cell)
      BY <1>2, <2>2, <2>3
    <2>6. c \in 1 .. m /\ c \in Nat /\ c - st[i] = s[2] /\ st[i] < c /\ c <= st[i + 1]
      <3> DEFINE a == st[i]
                 b == st[i + 1]
                 x == s[2]
                 len == Len(nd[pgs[i]].cell)
                 sk == A.skip
      <3>1. /\ a \in Nat /\ b \in Nat /\ x \in Nat /\ len \in Nat /\ sk \in 0 .. 1 /\ m \in Nat
            /\ b = a + len + sk /\ b <= m + sk /\ 1 <= x /\ x <= len /\ c = a + x
        BY <1>10, <2>3, <2>4, <2>5
      <3> HIDE DEF a, b, x, len, sk, c, m
      <3>2. c \in Nat /\ c - a = x /\ a < c /\ c <= b /\ c <= m /\ c \in 1 .. m
        BY ONLY <3>1
      <3> QED BY <3>2 DEF a, b, x
    <2>7. n \in CellNames(A)
      <3>1. <<3, 0, c>> \in (0 .. 3) \X Nat \X Nat
        BY <2>6
      <3> HIDE DEF c
      <3> QED BY <2>1, <2>6, <3>1 DEF CellNames, CellN
    <2>8. StairOf(st, k, c) = i
      <3>1. OnStair(st, i, c)
        BY <2>6 DEF OnStair
      <3>2. c \in 1 .. st[k + 1]
        BY <1>1, <2>6
      <3> HIDE DEF c
      <3> QED BY <1>1, <2>2, <3>1, <3>2, StairOfOnly
    <2>9. CellSpot(nd, A, k, pgs, st, n) = <<pgs[i], s[2]>>
      <3>1. c - st[i] <= Len(nd[pgs[i]].cell)
        BY <2>5, <2>6
      <3>2. c - st[i] = s[2]
        BY <2>6
      <3> HIDE DEF c
      <3> QED BY <2>1, <2>8, <3>1, <3>2 DEF CellSpot
    <2> QED BY <1>2, <2>2, <2>7, <2>9
  <1>9. s[2] <= d \/ ~(s[2] <= d)
    OBVIOUS
  <1> QED BY <1>4, <1>5, <1>6, <1>7, <1>8, <1>9

\* Whether the chains of an assembly are apart, and the pages they take.
ChainsOnce(A) ==
    \A n, v \in ChainNames(A) : \A a \in 1 .. Len(ChainOf(A, n)), b \in 1 .. Len(ChainOf(A, v)) :
       ChainOf(A, n)[a] = ChainOf(A, v)[b] => n = v /\ a = b
ChainPages(A) == {x \in Nat : \E n \in ChainNames(A) : \E a \in 1 .. Len(ChainOf(A, n)) : x = ChainOf(A, n)[a]}

\* The overflow chains of an assembly are those of its parts.
LEMMA AssemblyChains ==
    ASSUME NEW nd, NEW A, NEW k, NEW pgs, NEW st, Assembly(nd, A, k, pgs, st)
    PROVE  OvfPages(nd) = ChainPages(A) /\ (OneChain(nd) <=> ChainsOnce(A))
  <1> DEFINE at(n) == CellSpot(nd, A, k, pgs, st, n)
             name(s) == CellName(nd, A, k, pgs, st, s)
  <1>1. Nodes(nd)
    BY ParentOut
  <1>2. OvfPages(nd) = OvfOf(nd, Full(nd)) /\ (OneChain(nd) <=> OnceIn(nd, Full(nd)))
    BY <1>1, FullOnly
  <1>3. \A n \in ChainNames(A) : at(n) \in Full(nd) /\ OvfAt(nd, at(n)) = ChainOf(A, n) /\ name(at(n)) = n
    <2>1. ASSUME NEW n \in ChainNames(A)
          PROVE  at(n) \in Full(nd) /\ OvfAt(nd, at(n)) = ChainOf(A, n) /\ name(at(n)) = n
      <3>1. n \in CellNames(A) /\ ChainOf(A, n) # << >>
        BY DEF ChainNames
      <3>2. at(n) \in CellSpots(nd) /\ OvfAt(nd, at(n)) = ChainOf(A, n) /\ name(at(n)) = n
        BY <3>1, NamedCell
      <3> HIDE DEF at, name
      <3> QED BY <3>1, <3>2 DEF Full
    <2> QED BY <2>1
  <1>4. \A s \in Full(nd) : name(s) \in ChainNames(A) /\ at(name(s)) = s
    <2>1. ASSUME NEW s \in Full(nd) PROVE name(s) \in ChainNames(A) /\ at(name(s)) = s
      <3>1. s \in CellSpots(nd) /\ OvfAt(nd, s) # << >>
        BY DEF Full
      <3>2. name(s) \in CellNames(A) /\ at(name(s)) = s
        BY <3>1, CellNamed
      <3>3. OvfAt(nd, at(name(s))) = ChainOf(A, name(s))
        <4> HIDE DEF name
        <4> QED BY <3>2, NamedCell
      <3> HIDE DEF at, name
      <3> QED BY <3>1, <3>2, <3>3 DEF ChainNames
    <2> QED BY <2>1
  <1> HIDE DEF at, name
  <1>5. OvfOf(nd, Full(nd)) = ChainPages(A)
    <2>1. ASSUME NEW x \in OvfOf(nd, Full(nd)) PROVE x \in ChainPages(A)
      <3>1. PICK s \in Full(nd) : \E a \in 1 .. Len(OvfAt(nd, s)) : x = OvfAt(nd, s)[a]
        BY DEF OvfOf
      <3>2. name(s) \in ChainNames(A) /\ OvfAt(nd, s) = ChainOf(A, name(s)) /\ x \in Nat
        BY <1>3, <1>4 DEF OvfOf
      <3> QED BY <3>1, <3>2 DEF ChainPages
    <2>2. ASSUME NEW x \in ChainPages(A) PROVE x \in OvfOf(nd, Full(nd))
      <3>1. PICK n \in ChainNames(A) : \E a \in 1 .. Len(ChainOf(A, n)) : x = ChainOf(A, n)[a]
        BY DEF ChainPages
      <3>2. at(n) \in Full(nd) /\ OvfAt(nd, at(n)) = ChainOf(A, n) /\ x \in Nat
        BY <1>3 DEF ChainPages
      <3> QED BY <3>1, <3>2 DEF OvfOf
    <2> QED BY <2>1, <2>2
  <1>6. ASSUME OnceIn(nd, Full(nd)) PROVE ChainsOnce(A)
    <2>1. ASSUME NEW n \in ChainNames(A), NEW v \in ChainNames(A),
                 NEW a \in 1 .. Len(ChainOf(A, n)), NEW b \in 1 .. Len(ChainOf(A, v)),
                 ChainOf(A, n)[a] = ChainOf(A, v)[b]
          PROVE  n = v /\ a = b
      <3>1. /\ at(n) \in Full(nd) /\ OvfAt(nd, at(n)) = ChainOf(A, n) /\ name(at(n)) = n
            /\ at(v) \in Full(nd) /\ OvfAt(nd, at(v)) = ChainOf(A, v) /\ name(at(v)) = v
        BY <1>3
      <3>2. at(n) = at(v) /\ a = b
        BY <1>6, <2>1, <3>1 DEF OnceIn
      <3> QED BY <3>1, <3>2
    <2> QED BY <2>1 DEF ChainsOnce
  <1>7. ASSUME ChainsOnce(A) PROVE OnceIn(nd, Full(nd))
    <2>1. ASSUME NEW s \in Full(nd), NEW v \in Full(nd),
                 NEW a \in 1 .. Len(OvfAt(nd, s)), NEW b \in 1 .. Len(OvfAt(nd, v)),
                 OvfAt(nd, s)[a] = OvfAt(nd, v)[b]
          PROVE  s = v /\ a = b
      <3>1. /\ name(s) \in ChainNames(A) /\ at(name(s)) = s /\ OvfAt(nd, s) = ChainOf(A, name(s))
            /\ name(v) \in ChainNames(A) /\ at(name(v)) = v /\ OvfAt(nd, v) = ChainOf(A, name(v))
        BY <1>3, <1>4
      <3>2. name(s) = name(v) /\ a = b
        BY <1>7, <2>1, <3>1 DEF ChainsOnce
      <3> QED BY <3>1, <3>2
    <2> QED BY <2>1 DEF OnceIn
  <1> QED BY <1>2, <1>5, <1>6, <1>7

\* The children of an assembly but for the pages laid out, by names that do not
\* depend on the layout either.
KidNames(A) ==
    {n \in (0 .. 3) \X Nat \X Nat :
       /\ n[1] = 0 => /\ n[2] \in DOMAIN A.others /\ ~A.others[n[2]].leaf
                      /\ n[3] \in 1 .. Len(A.others[n[2]].cell) + 1
       /\ n[1] # 0 => n[2] = 0
       /\ n[1] = 1 => n[3] \in 1 .. LoN(A)
       /\ n[1] = 2 => n[3] \in 1 .. HiN(A)
       /\ n[1] = 3 => ~A.leaf /\ n[3] \in 1 .. CellN(A) + 1}

KidOf(A, n) ==
    IF n[1] = 0 THEN Child(A.others[n[2]], n[3])
    ELSE IF n[1] = 1 THEN A.lo[n[3]].left
    ELSE IF n[1] = 2 THEN AfterKid(A, n[3])
    ELSE IF n[3] <= CellN(A) THEN A.cells[n[3]].left ELSE A.right

KidSpot(A, k, pgs, st, n) ==
    LET i == StairOf(st, k, n[3])
    IN IF n[1] = 0 THEN <<n[2], n[3]>>
       ELSE IF n[1] = 1 THEN <<A.P, n[3]>>
       ELSE IF n[1] = 2 THEN <<A.P, LoN(A) + k + n[3]>>
       ELSE <<pgs[i], n[3] - st[i]>>

KidName(A, k, pgs, st, s) ==
    IF s[1] \in DOMAIN A.others THEN <<0, s[1], s[2]>>
    ELSE IF s[1] = A.P /\ s[2] <= LoN(A) THEN <<1, 0, s[2]>>
    ELSE IF s[1] = A.P THEN <<2, 0, s[2] - (LoN(A) + k)>>
    ELSE <<3, 0, st[PageIx(k, pgs, s[1])] + s[2]>>

\* The place of a page that is laid out.
PageSpot(A, i) == <<A.P, LoN(A) + i>>

\* The numbers of an assembly.
LEMMA NumbersOut ==
    ASSUME NEW nd, NEW A, NEW k, NEW pgs, NEW st, Assembly(nd, A, k, pgs, st)
    PROVE  /\ k \in Nat \ {0} /\ LoN(A) \in Nat /\ HiN(A) \in Nat /\ CellN(A) \in Nat /\ A.skip \in 0 .. 1
           /\ Len(nd[A.P].cell) = LoN(A) + (k - 1) + HiN(A) /\ st[k + 1] = CellN(A) + A.skip
  BY ParentOut DEF LoN, HiN, CellN

\* The numbers of the i-th page of an assembly.
LEMMA PageNumbers ==
    ASSUME NEW nd, NEW A, NEW k, NEW pgs, NEW st, Assembly(nd, A, k, pgs, st), NEW i \in 1 .. k
    PROVE  /\ Len(nd[pgs[i]].cell) \in Nat /\ st[i] \in Nat /\ st[i + 1] \in Nat
           /\ st[i + 1] = st[i] + Len(nd[pgs[i]].cell) + A.skip /\ st[i + 1] <= CellN(A) + A.skip
           /\ pgs[i] \in DOMAIN nd /\ pgs[i] # A.P /\ pgs[i] \notin DOMAIN A.others
           /\ nd[pgs[i]].leaf = A.leaf
  <1>1. nd[pgs[i]].leaf = A.leaf
    BY DEF Assembly, LaidOut
  <1> QED BY <1>1, PageOut DEF CellN

\* A number of an assembly's cells as a place on a page.
LEMMA PlaceOnPage ==
    ASSUME NEW a \in Nat, NEW b \in Nat, NEW len \in Nat, NEW m \in Nat, NEW c \in Nat,
           b = a + len + 1, b <= m + 1, a < c, c <= b
    PROVE  /\ c - a \in 1 .. len + 1 /\ c - a \in Nat /\ a + (c - a) = c
           /\ (c - a <= len => c <= m)
           /\ (~(c - a <= len) => c = b)
  OBVIOUS

\* The name of a child leads to its place.
LEMMA NamedKid ==
    ASSUME NEW nd, NEW A, NEW k, NEW pgs, NEW st, Assembly(nd, A, k, pgs, st), NEW n \in KidNames(A)
    PROVE  LET s == KidSpot(A, k, pgs, st, n) IN
           /\ s \in KidSpots(nd) /\ KidAt(nd, s) = KidOf(A, n)
           /\ KidName(A, k, pgs, st, s) = n
           /\ \A i \in 1 .. k : s # PageSpot(A, i)
  <1> DEFINE s == KidSpot(A, k, pgs, st, n)
             d == LoN(A)
             e == HiN(A)
             m == CellN(A)
  <1>1. /\ k \in Nat \ {0} /\ d \in Nat /\ e \in Nat /\ m \in Nat
        /\ Len(nd[A.P].cell) = d + (k - 1) + e
    BY NumbersOut
  <1>2. /\ A.P \in DOMAIN nd /\ ~nd[A.P].leaf /\ A.P \notin DOMAIN A.others /\ A.leaf \in BOOLEAN
        /\ A.skip = 0 => A.leaf
        /\ \A p \in DOMAIN A.others : p \in DOMAIN nd /\ nd[p] = A.others[p]
    BY ParentOut
  <1>3. /\ n = <<n[1], n[2], n[3]>> /\ n[1] \in 0 .. 3 /\ n[3] \in Nat
        /\ n[1] = 0 => /\ n[2] \in DOMAIN A.others /\ ~A.others[n[2]].leaf
                       /\ n[3] \in 1 .. Len(A.others[n[2]].cell) + 1
        /\ n[1] # 0 => n[2] = 0
        /\ n[1] = 1 => n[3] \in 1 .. d
        /\ n[1] = 2 => n[3] \in 1 .. e
        /\ n[1] = 3 => ~A.leaf /\ n[3] \in 1 .. m + 1
    BY DEF KidNames
  <1>4. CASE n[1] = 0
    <2>1. s = <<n[2], n[3]>>
      BY <1>4 DEF KidSpot
    <2>2. /\ n[2] \in DOMAIN nd /\ nd[n[2]] = A.others[n[2]] /\ ~nd[n[2]].leaf
          /\ n[3] \in 1 .. Len(nd[n[2]].cell) + 1
      BY <1>2, <1>3, <1>4
    <2>3. s \in KidSpots(nd) /\ KidAt(nd, s) = Child(nd[n[2]], n[3])
      BY <2>1, <2>2, KidSpotMade
    <2>4. KidOf(A, n) = Child(A.others[n[2]], n[3])
      BY <1>4 DEF KidOf
    <2>5. KidName(A, k, pgs, st, s) = <<0, n[2], n[3]>>
      BY <1>3, <1>4, <2>1 DEF KidName
    <2>6. \A i \in 1 .. k : s # PageSpot(A, i)
      BY <1>2, <1>3, <1>4, <2>1 DEF PageSpot
    <2> QED BY <1>3, <1>4, <2>2, <2>3, <2>4, <2>5, <2>6
  <1>5. CASE n[1] = 1
    <2>1. s = <<A.P, n[3]>>
      BY <1>5 DEF KidSpot
    <2>2. n[3] \in 1 .. Len(nd[A.P].cell) + 1 /\ n[3] <= d /\ n[3] \in 1 .. d /\ n[3] <= Len(nd[A.P].cell)
      <3> DEFINE x == n[3]
      <3>1. x \in 1 .. d
        BY <1>3, <1>5
      <3> HIDE DEF d, e, x
      <3>2. x \in 1 .. (d + (k - 1) + e) + 1 /\ x <= d /\ x <= d + (k - 1) + e
        BY <1>1, <3>1
      <3> QED BY <1>1, <3>1, <3>2 DEF x
    <2>3. s \in KidSpots(nd) /\ KidAt(nd, s) = Child(nd[A.P], n[3])
      BY <1>2, <2>1, <2>2, KidSpotMade
    <2>4. KidOf(A, n) = A.lo[n[3]].left
      BY <1>5 DEF KidOf
    <2>5. nd[A.P].cell[n[3]] = A.lo[n[3]]
      BY <2>2 DEF Assembly, Above1, LoN
    <2>6. Child(nd[A.P], n[3]) = A.lo[n[3]].left
      BY <2>2, <2>5 DEF Child
    <2>7. KidName(A, k, pgs, st, s) = <<1, 0, n[3]>>
      BY <1>2, <2>1, <2>2 DEF KidName
    <2>8. \A i \in 1 .. k : s # PageSpot(A, i)
      <3>1. ASSUME NEW i \in 1 .. k PROVE n[3] # d + i
        BY <1>1, <2>2
      <3> HIDE DEF d
      <3> QED BY <2>1, <3>1 DEF PageSpot, d
    <2> QED BY <1>3, <1>5, <2>3, <2>4, <2>6, <2>7, <2>8
  <1>6. CASE n[1] = 2
    <2>1. s = <<A.P, d + k + n[3]>>
      BY <1>6 DEF KidSpot
    <2>2. /\ d + k + n[3] \in 1 .. Len(nd[A.P].cell) + 1 /\ ~(d + k + n[3] <= d)
          /\ (d + k + n[3]) - (d + k) = n[3] /\ \A i \in 1 .. k : d + k + n[3] # d + i
      <3> DEFINE x == n[3]
      <3>1. x \in 1 .. e
        BY <1>3, <1>6
      <3> HIDE DEF d, e, x
      <3>2. d + k + x \in 1 .. (d + (k - 1) + e) + 1 /\ ~(d + k + x <= d) /\ (d + k + x) - (d + k) = x
            /\ \A i \in 1 .. k : d + k + x # d + i
        BY <1>1, <3>1
      <3> QED BY <1>1, <3>2 DEF x
    <2>3. s \in KidSpots(nd) /\ KidAt(nd, s) = Child(nd[A.P], d + k + n[3])
      <3> HIDE DEF d
      <3> QED BY <1>2, <2>1, <2>2, KidSpotMade
    <2>4. KidOf(A, n) = AfterKid(A, n[3])
      BY <1>6 DEF KidOf
    <2>5. Child(nd[A.P], d + k + n[3]) = AfterKid(A, n[3])
      BY <1>3, <1>6 DEF Assembly, Above1, LoN, HiN
    <2>6. KidName(A, k, pgs, st, s) = <<2, 0, n[3]>>
      BY <1>2, <2>1, <2>2 DEF KidName
    <2>7. \A i \in 1 .. k : s # PageSpot(A, i)
      BY <2>1, <2>2 DEF PageSpot
    <2> QED BY <1>3, <1>6, <2>3, <2>4, <2>5, <2>6, <2>7
  <1>7. CASE n[1] = 3
    <2> DEFINE i == StairOf(st, k, n[3])
               x == n[3] - st[i]
               c == n[3]
    <2>1. Stairs(st, k) /\ st[k + 1] = m + A.skip /\ A.skip = 1 /\ ~A.leaf
      <3>1. A.skip \in 0 .. 1 /\ st[k + 1] = m + A.skip
        BY NumbersOut
      <3> QED BY <1>2, <1>3, <1>7, <3>1, ParentOut
    <2>2. c \in 1 .. st[k + 1] /\ c \in Nat
      BY <1>3, <1>7, <2>1
    <2>3. i \in 1 .. k /\ st[i] < c /\ c <= st[i + 1]
      BY <2>1, <2>2, StairOfIs DEF OnStair
    <2>4. s = <<pgs[i], x>>
      BY <1>7 DEF KidSpot
    <2> HIDE DEF i, c
    <2>5. /\ Len(nd[pgs[i]].cell) \in Nat /\ st[i] \in Nat /\ st[i + 1] \in Nat
          /\ st[i + 1] = st[i] + Len(nd[pgs[i]].cell) + 1 /\ st[i + 1] <= m + 1
          /\ pgs[i] \in DOMAIN nd /\ pgs[i] # A.P /\ pgs[i] \notin DOMAIN A.others
          /\ ~nd[pgs[i]].leaf
      BY <2>1, <2>3, PageNumbers
    <2>6. /\ x \in 1 .. Len(nd[pgs[i]].cell) + 1 /\ x \in Nat /\ st[i] + x = c
          /\ (x <= Len(nd[pgs[i]].cell) => c <= m)
          /\ (~(x <= Len(nd[pgs[i]].cell)) => c = st[i + 1])
      <3> DEFINE a == st[i]
                 b == st[i + 1]
                 len == Len(nd[pgs[i]].cell)
      <3>1. /\ a \in Nat /\ b \in Nat /\ len \in Nat /\ m \in Nat /\ c \in Nat
            /\ b = a + len + 1 /\ b <= m + 1 /\ a < c /\ c <= b /\ x = c - a
        BY <1>1, <2>2, <2>3, <2>5 DEF c
      <3> HIDE DEF a, b, len, m, x
      <3>2. /\ x \in 1 .. len + 1 /\ x \in Nat /\ a + x = c
            /\ (x <= len => c <= m) /\ (~(x <= len) => c = b)
        BY <3>1
      <3> QED BY <3>2 DEF a, b, len
    <2> HIDE DEF x
    <2>7. s \in KidSpots(nd) /\ KidAt(nd, s) = Child(nd[pgs[i]], x)
      BY <2>4, <2>5, <2>6, KidSpotMade, SMTT(30)
    <2>8. KidOf(A, n) = IF c <= m THEN A.cells[c].left ELSE A.right
      BY <1>7 DEF KidOf, c
    <2>9. Child(nd[pgs[i]], x) = IF c <= m THEN A.cells[c].left ELSE A.right
      <3>1. CASE x <= Len(nd[pgs[i]].cell)
        <4>1. x \in 1 .. Len(nd[pgs[i]].cell)
          BY <2>5, <2>6, <3>1
        <4>2. nd[pgs[i]].cell[x] = A.cells[st[i] + x]
          BY <2>3, <4>1 DEF Assembly, LaidOut
        <4> QED BY <2>6, <3>1, <4>2 DEF Child
      <3>2. CASE ~(x <= Len(nd[pgs[i]].cell))
        <4>1. nd[pgs[i]].right = IF i = k THEN A.right ELSE A.cells[st[i + 1]].left
          BY <2>1, <2>3 DEF Assembly, LaidOut
        <4>2. c = st[i + 1]
          BY <2>6, <3>2
        <4>3. CASE i = k
          <5>1. ~(c <= m)
            BY <1>1, <2>1, <4>2, <4>3
          <5> QED BY <3>2, <4>1, <4>3, <5>1 DEF Child
        <4>4. CASE i # k
          <5>1. i + 1 \in 1 .. k
            BY <1>1, <2>3, <4>4
          <5>2. /\ Len(nd[pgs[i + 1]].cell) \in Nat /\ st[(i + 1) + 1] \in Nat
                /\ st[(i + 1) + 1] = st[i + 1] + Len(nd[pgs[i + 1]].cell) + 1 /\ st[(i + 1) + 1] <= m + 1
            BY <2>1, <5>1, PageNumbers
          <5>3. c <= m
            <6> HIDE DEF m
            <6> QED BY <1>1, <2>5, <4>2, <5>2, SMTT(30)
          <5> QED BY <3>2, <4>1, <4>2, <4>4, <5>3 DEF Child
        <4> QED BY <4>3, <4>4
      <3> QED BY <3>1, <3>2
    <2>10. KidName(A, k, pgs, st, s) = <<3, 0, c>>
      <3>1. PageIx(k, pgs, pgs[i]) = i
        BY <2>3, PageIxIs
      <3>2. s[1] = pgs[i] /\ s[2] = x
        BY <2>4
      <3> HIDE DEF s
      <3> QED BY <2>5, <2>6, <3>1, <3>2 DEF KidName
    <2>11. \A j \in 1 .. k : s # PageSpot(A, j)
      BY <2>4, <2>5 DEF PageSpot
    <2>12. n = <<3, 0, c>>
      BY <1>3, <1>7 DEF c
    <2> QED BY <2>7, <2>8, <2>9, <2>10, <2>11, <2>12
  <1> QED BY <1>3, <1>4, <1>5, <1>6, <1>7

\* The places of the pages laid out.
LEMMA PageSpotIs ==
    ASSUME NEW nd, NEW A, NEW k, NEW pgs, NEW st, Assembly(nd, A, k, pgs, st), NEW i \in 1 .. k
    PROVE  PageSpot(A, i) \in KidSpots(nd) /\ KidAt(nd, PageSpot(A, i)) = pgs[i]
  <1> DEFINE d == LoN(A)
             e == HiN(A)
  <1>1. k \in Nat \ {0} /\ d \in Nat /\ e \in Nat /\ Len(nd[A.P].cell) = d + (k - 1) + e
    BY NumbersOut
  <1>2. A.P \in DOMAIN nd /\ ~nd[A.P].leaf
    BY ParentOut
  <1>3. d + i \in 1 .. Len(nd[A.P].cell) + 1
    <2> HIDE DEF d, e
    <2>1. d + i \in 1 .. (d + (k - 1) + e) + 1
      BY <1>1
    <2> QED BY <1>1, <2>1
  <1>4. PageSpot(A, i) = <<A.P, d + i>>
    BY DEF PageSpot
  <1>5. Child(nd[A.P], d + i) = pgs[i]
    BY DEF Assembly, Above1, LoN
  <1> HIDE DEF d
  <1> QED BY <1>2, <1>3, <1>4, <1>5, KidSpotMade

\* The other children have names.
LEMMA KidNamed ==
    ASSUME NEW nd, NEW A, NEW k, NEW pgs, NEW st, Assembly(nd, A, k, pgs, st),
           NEW s \in KidSpots(nd), \A i \in 1 .. k : s # PageSpot(A, i)
    PROVE  LET n == KidName(A, k, pgs, st, s) IN
           n \in KidNames(A) /\ KidSpot(A, k, pgs, st, n) = s
  <1> DEFINE n == KidName(A, k, pgs, st, s)
             d == LoN(A)
             e == HiN(A)
             m == CellN(A)
             x == s[2]
  <1>1. /\ k \in Nat \ {0} /\ d \in Nat /\ e \in Nat /\ m \in Nat
        /\ Len(nd[A.P].cell) = d + (k - 1) + e
    BY NumbersOut
  <1>2. /\ A.P \notin DOMAIN A.others /\ A.leaf \in BOOLEAN /\ DOMAIN nd \subseteq Nat
        /\ A.skip = 0 => A.leaf
        /\ \A p \in DOMAIN A.others : p \in DOMAIN nd /\ nd[p] = A.others[p]
    BY ParentOut DEF Nodes
  <1>3. /\ s = <<s[1], x>> /\ s[1] \in DOMAIN nd /\ x \in Nat /\ ~nd[s[1]].leaf
        /\ x \in 1 .. Len(nd[s[1]].cell) + 1
    BY KidSpotIs
  <1>4. CASE s[1] \in DOMAIN A.others
    <2>1. n = <<0, s[1], x>>
      BY <1>4 DEF KidName
    <2>2. x \in 1 .. Len(A.others[s[1]].cell) + 1 /\ s[1] \in Nat /\ ~A.others[s[1]].leaf
      BY <1>2, <1>3, <1>4
    <2>3. n \in KidNames(A)
      BY <1>3, <1>4, <2>1, <2>2 DEF KidNames
    <2>4. KidSpot(A, k, pgs, st, n) = <<s[1], x>>
      BY <2>1 DEF KidSpot
    <2> QED BY <1>3, <2>3, <2>4
  <1>5. CASE s[1] = A.P /\ x <= d
    <2>1. n = <<1, 0, x>>
      BY <1>2, <1>5 DEF KidName
    <2>2. x \in 1 .. d
      <3> HIDE DEF x, d
      <3> QED BY <1>1, <1>3, <1>5
    <2>3. n \in KidNames(A)
      BY <1>3, <2>1, <2>2 DEF KidNames
    <2>4. KidSpot(A, k, pgs, st, n) = <<A.P, x>>
      BY <2>1 DEF KidSpot
    <2> QED BY <1>3, <1>5, <2>3, <2>4
  <1>6. CASE s[1] = A.P /\ ~(x <= d)
    <2> DEFINE y == x - (d + k)
    <2>1. n = <<2, 0, y>>
      BY <1>2, <1>6 DEF KidName
    <2>2. \A i \in 1 .. k : x # d + i
      BY <1>3, <1>6 DEF PageSpot
    <2>3. y \in 1 .. e /\ y \in Nat /\ d + k + y = x
      <3> HIDE DEF x, d, e
      <3>1. x \in Nat /\ x <= (d + (k - 1) + e) + 1 /\ ~(x <= d)
        BY <1>1, <1>3, <1>6
      <3>2. ~(x - d \in 1 .. k)
        <4>1. x - d \in 1 .. k => x = d + (x - d)
          BY <1>1, <3>1
        <4> HIDE DEF x
        <4> QED BY <2>2, <4>1
      <3>3. x - d > k
        BY <1>1, <3>1, <3>2
      <3> QED BY <1>1, <3>1, <3>3
    <2> HIDE DEF y
    <2>4. n \in KidNames(A)
      <3>1. <<2, 0, y>> \in (0 .. 3) \X Nat \X Nat
        BY <2>3
      <3> QED BY <2>1, <2>3, <3>1 DEF KidNames
    <2>5. KidSpot(A, k, pgs, st, n) = <<A.P, d + k + y>>
      BY <2>1 DEF KidSpot
    <2> QED BY <1>3, <1>6, <2>3, <2>4, <2>5
  <1>7. CASE s[1] \notin DOMAIN A.others /\ s[1] # A.P
    <2> DEFINE i == PageIx(k, pgs, s[1])
               c == st[i] + x
    <2>1. n = <<3, 0, c>>
      BY <1>7 DEF KidName
    <2>2. i \in 1 .. k /\ pgs[i] = s[1]
      BY <1>3, <1>7, PageIxIs
    <2> HIDE DEF i
    <2>3. /\ Len(nd[pgs[i]].cell) \in Nat
          /\ st[i] \in Nat /\ st[i + 1] \in Nat /\ st[i + 1] = st[i] + Len(nd[pgs[i]].cell) + A.skip
          /\ st[i + 1] <= m + A.skip /\ nd[pgs[i]].leaf = A.leaf
      BY <2>2, PageNumbers
    <2>4. ~A.leaf /\ A.skip = 1
      BY <1>2, <1>3, <2>2, <2>3, NumbersOut, SMTT(30)
    <2>5. /\ c \in Nat /\ c - st[i] = x /\ st[i] < c /\ c <= st[i + 1] /\ c \in 1 .. m + 1
      <3> DEFINE a == st[i]
                 b == st[i + 1]
                 len == Len(nd[pgs[i]].cell)
      <3>1. /\ a \in Nat /\ b \in Nat /\ x \in 1 .. len + 1 /\ len \in Nat /\ m \in Nat
            /\ b = a + len + 1 /\ b <= m + 1 /\ c = a + x
        BY <1>1, <1>3, <2>2, <2>3, <2>4
      <3> HIDE DEF a, b, x, len, c, m
      <3>2. c \in Nat /\ c - a = x /\ a < c /\ c <= b /\ c \in 1 .. m + 1
        BY ONLY <3>1
      <3> QED BY <3>2 DEF a, b
    <2> HIDE DEF c
    <2>6. n \in KidNames(A)
      <3>1. <<3, 0, c>> \in (0 .. 3) \X Nat \X Nat
        BY <2>5
      <3> QED BY <2>1, <2>4, <2>5, <3>1 DEF KidNames
    <2>7. StairOf(st, k, c) = i
      <3>1. OnStair(st, i, c)
        BY <2>5 DEF OnStair
      <3>2. Stairs(st, k) /\ c \in 1 .. st[k + 1]
        BY <2>4, <2>5, ParentOut, NumbersOut
      <3> QED BY <2>2, <3>1, <3>2, StairOfOnly
    <2>8. KidSpot(A, k, pgs, st, n) = <<pgs[i], x>>
      BY <2>1, <2>5, <2>7 DEF KidSpot
    <2> QED BY <1>3, <2>2, <2>6, <2>8
  <1> QED BY <1>4, <1>5, <1>6, <1>7

\* The children that have names are the pages that are not laid out, each once.
Kept1(A) == DOMAIN A.others \cup {A.P}
KidsOnce(A) ==
    /\ \A n, v \in KidNames(A) : KidOf(A, n) = KidOf(A, v) => n = v
    /\ \A n \in KidNames(A) : KidOf(A, n) \in Kept1(A) \ {ROOT}
    /\ \A p \in Kept1(A) \ {ROOT} : \E n \in KidNames(A) : KidOf(A, n) = p

\* They lie one level below.
OwnLevel(A, h, n) ==
    IF n[1] = 0 THEN h[n[2]] ELSE IF n[1] = 3 THEN h[A.P] - 1 ELSE h[A.P]
KidLevels(A, h, N) ==
    /\ N \in Nat /\ h \in [Kept1(A) -> 0 .. N]
    /\ h[A.P] # 0 /\ (A.leaf <=> h[A.P] = 1)
    /\ \A p \in DOMAIN A.others : A.others[p].leaf <=> h[p] = 0
    /\ \A n \in KidNames(A) : h[KidOf(A, n)] + 1 = OwnLevel(A, h, n)

\* The pages of an assembly are the kept ones and the laid out ones.
LEMMA OnlyPages ==
    ASSUME NEW nd, NEW A, NEW k, NEW pgs, NEW st, Assembly(nd, A, k, pgs, st), NEW p \in DOMAIN nd
    PROVE  p \in Kept1(A) \/ \E i \in 1 .. k : p = pgs[i]
  BY DEF Assembly, Assembled, Kept1

\* If each page of a laid out tree has one parent, each child of the parts is named once.
LEMMA TreeKids ==
    ASSUME NEW nd, NEW A, NEW k, NEW pgs, NEW st, Assembly(nd, A, k, pgs, st),
           OneParent(nd), Levelled(nd)
    PROVE  KidsOnce(A)
  <1> DEFINE at(n) == KidSpot(A, k, pgs, st, n)
             name(s) == KidName(A, k, pgs, st, s)
  <1>1. \A n \in KidNames(A) : /\ at(n) \in KidSpots(nd) /\ KidAt(nd, at(n)) = KidOf(A, n) /\ name(at(n)) = n
                               /\ \A i \in 1 .. k : at(n) # PageSpot(A, i)
    BY NamedKid
  <1>2. \A i \in 1 .. k : PageSpot(A, i) \in KidSpots(nd) /\ KidAt(nd, PageSpot(A, i)) = pgs[i]
    BY PageSpotIs
  <1>3. /\ \A s, v \in KidSpots(nd) : KidAt(nd, s) = KidAt(nd, v) => s = v
        /\ \A p \in DOMAIN nd : p # ROOT => \E s \in KidSpots(nd) : KidAt(nd, s) = p
    BY DEF OneParent
  <1>4. \A s \in KidSpots(nd) : KidAt(nd, s) \in DOMAIN nd \ {ROOT}
    BY DEF Levelled, Levels, KidSpots, KidAt
  <1>5. \A s \in KidSpots(nd) : (\A i \in 1 .. k : s # PageSpot(A, i)) => name(s) \in KidNames(A) /\ at(name(s)) = s
    BY KidNamed
  <1>6. \A i \in 1 .. k : pgs[i] \notin Kept1(A)
    BY PageNumbers DEF Kept1
  <1>7. \A p \in Kept1(A) : p \in DOMAIN nd
    BY ParentOut DEF Kept1
  <1> HIDE DEF at, name
  <1>8. \A n, v \in KidNames(A) : KidOf(A, n) = KidOf(A, v) => n = v
    BY <1>1, <1>3
  <1>9. ASSUME NEW n \in KidNames(A) PROVE KidOf(A, n) \in Kept1(A) \ {ROOT}
    <2>1. KidOf(A, n) \in DOMAIN nd \ {ROOT}
      BY <1>1, <1>4
    <2>2. \A i \in 1 .. k : KidOf(A, n) # pgs[i]
      BY <1>1, <1>2, <1>3
    <2> QED BY <2>1, <2>2, OnlyPages
  <1>10. ASSUME NEW p \in Kept1(A) \ {ROOT} PROVE \E n \in KidNames(A) : KidOf(A, n) = p
    <2>1. PICK s \in KidSpots(nd) : KidAt(nd, s) = p
      BY <1>3, <1>7
    <2>2. \A i \in 1 .. k : s # PageSpot(A, i)
      BY <1>2, <1>6, <2>1
    <2>3. name(s) \in KidNames(A) /\ at(name(s)) = s
      BY <1>5, <2>2
    <2> QED BY <1>1, <2>1, <2>3
  <1> QED BY <1>8, <1>9, <1>10 DEF KidsOnce

\* The page a named child hangs from.
LEMMA OwnerIs ==
    ASSUME NEW nd, NEW A, NEW k, NEW pgs, NEW st, Assembly(nd, A, k, pgs, st), NEW n \in KidNames(A),
           NEW s, s = KidSpot(A, k, pgs, st, n)
    PROVE  /\ n[1] = 0 => s[1] = n[2] /\ n[2] \in DOMAIN A.others
           /\ n[1] \in {1, 2} => s[1] = A.P
           /\ n[1] = 3 => \E i \in 1 .. k : s[1] = pgs[i]
           /\ n[1] \in {0, 1, 2, 3}
  <1>1. n[1] = 0 => s[1] = n[2]
    BY DEF KidSpot
  <1>2. n[1] \in {1, 2} => s[1] = A.P
    BY DEF KidSpot
  <1>3. n[1] \in {0, 1, 2, 3} /\ (n[1] = 0 => n[2] \in DOMAIN A.others)
    BY DEF KidNames
  <1>4. ASSUME n[1] = 3 PROVE \E i \in 1 .. k : s[1] = pgs[i]
    <2>1. s \in KidSpots(nd) /\ KidName(A, k, pgs, st, s) = n
      BY NamedKid
    <2>2. s[1] \in DOMAIN nd
      BY <2>1, KidSpotIs
    <2>3. s[1] \notin DOMAIN A.others /\ s[1] # A.P
      BY <1>4, <2>1 DEF KidName
    <2> QED BY <2>2, <2>3, OnlyPages DEF Kept1
  <1> QED BY <1>1, <1>2, <1>3, <1>4

\* The children named by the parts of a levelled tree are one level down.
LEMMA TreeKidLevels ==
    ASSUME NEW nd, NEW A, NEW k, NEW pgs, NEW st, Assembly(nd, A, k, pgs, st),
           KidsOnce(A), NEW h, NEW N, Levels(nd, h, N)
    PROVE  KidLevels(A, [p \in Kept1(A) |-> h[p]], N)
  <1>1. /\ N \in Nat /\ h \in [DOMAIN nd -> 0 .. N]
        /\ \A p \in DOMAIN nd : nd[p].leaf <=> h[p] = 0
        /\ \A p \in DOMAIN nd : ~nd[p].leaf => \A j \in Turns(nd[p]) : h[Child(nd[p], j)] + 1 = h[p]
    BY DEF Levels
  <1>2. \A s \in KidSpots(nd) : h[KidAt(nd, s)] + 1 = h[s[1]] /\ s[1] \in DOMAIN nd
    BY <1>1 DEF KidSpots, KidAt
  <1>3. /\ k \in Nat \ {0} /\ A.P \in DOMAIN nd /\ ~nd[A.P].leaf
        /\ \A p \in DOMAIN A.others : p \in DOMAIN nd /\ nd[p] = A.others[p]
    BY ParentOut
  <1>4. \A p \in Kept1(A) : p \in DOMAIN nd
    BY <1>3 DEF Kept1
  <1>5. \A i \in 1 .. k : h[pgs[i]] + 1 = h[A.P] /\ pgs[i] \in DOMAIN nd /\ nd[pgs[i]].leaf = A.leaf
    <2>1. ASSUME NEW i \in 1 .. k PROVE h[pgs[i]] + 1 = h[A.P]
      <3>1. PageSpot(A, i) \in KidSpots(nd) /\ KidAt(nd, PageSpot(A, i)) = pgs[i]
        BY PageSpotIs
      <3>2. PageSpot(A, i)[1] = A.P
        BY DEF PageSpot
      <3> QED BY <1>2, <3>1, <3>2
    <2> QED BY <2>1, PageNumbers
  <1> DEFINE H == [p \in Kept1(A) |-> h[p]]
  <1>6. A.P \in Kept1(A) /\ \A p \in DOMAIN A.others : p \in Kept1(A)
    BY DEF Kept1
  <1>7. N \in Nat /\ H \in [Kept1(A) -> 0 .. N] /\ \A p \in Kept1(A) : H[p] = h[p]
    BY <1>1, <1>4
  <1>8. h[A.P] \in Nat /\ \A i \in 1 .. k : h[pgs[i]] \in Nat
    BY <1>1, <1>3, <1>5
  <1>9. H[A.P] # 0 /\ (A.leaf <=> H[A.P] = 1)
    <2>1. 1 \in 1 .. k
      BY <1>3
    <2>2. A.leaf <=> h[pgs[1]] = 0
      BY <1>1, <1>5, <2>1
    <2>3. h[pgs[1]] + 1 = h[A.P] /\ h[pgs[1]] \in Nat
      BY <1>5, <1>8, <2>1
    <2>4. H[A.P] = h[A.P]
      BY <1>6, <1>7
    <2> HIDE DEF H
    <2> QED BY <2>2, <2>3, <2>4
  <1>10. \A p \in DOMAIN A.others : A.others[p].leaf <=> H[p] = 0
    BY <1>1, <1>3, <1>6, <1>7
  <1>11. ASSUME NEW n \in KidNames(A) PROVE H[KidOf(A, n)] + 1 = OwnLevel(A, H, n)
    <2> DEFINE s == KidSpot(A, k, pgs, st, n)
    <2>1. s \in KidSpots(nd) /\ KidAt(nd, s) = KidOf(A, n)
      BY NamedKid
    <2>2. h[KidOf(A, n)] + 1 = h[s[1]] /\ KidOf(A, n) \in Kept1(A)
      BY <1>2, <2>1 DEF KidsOnce
    <2>3. /\ n[1] = 0 => s[1] = n[2] /\ n[2] \in DOMAIN A.others
          /\ n[1] \in {1, 2} => s[1] = A.P
          /\ n[1] = 3 => \E i \in 1 .. k : s[1] = pgs[i]
          /\ n[1] \in {0, 1, 2, 3}
      BY OwnerIs
    <2> HIDE DEF s, H
    <2>4. H[KidOf(A, n)] = h[KidOf(A, n)] /\ H[A.P] = h[A.P]
      BY <1>6, <1>7, <2>2
    <2>5. CASE n[1] = 0
      BY <1>6, <1>7, <2>2, <2>3, <2>4, <2>5 DEF OwnLevel
    <2>6. CASE n[1] \in {1, 2}
      BY <2>2, <2>3, <2>4, <2>6 DEF OwnLevel
    <2>7. CASE n[1] = 3
      <3>1. PICK i \in 1 .. k : s[1] = pgs[i]
        BY <2>3, <2>7
      <3>2. h[s[1]] + 1 = h[A.P] /\ h[s[1]] \in Nat
        BY <1>5, <1>8, <3>1
      <3>3. h[A.P] - 1 = h[s[1]]
        BY <3>2
      <3>4. OwnLevel(A, H, n) = h[A.P] - 1
        BY <2>4, <2>7 DEF OwnLevel
      <3> QED BY <2>2, <2>4, <3>3, <3>4
    <2> QED BY <2>3, <2>5, <2>6, <2>7
  <1> HIDE DEF H
  <1> QED BY <1>7, <1>9, <1>10, <1>11 DEF KidLevels, H

\* A layout of kids that are known once, at their levels, is a tree.
LEMMA KidsTree ==
    ASSUME NEW g, NEW A, NEW k, NEW pgs, NEW st, Assembly(g, A, k, pgs, st),
           KidsOnce(A), NEW h, NEW N, KidLevels(A, h, N)
    PROVE  OneParent(g) /\ Levelled(g)
  <1> DEFINE at(n) == KidSpot(A, k, pgs, st, n)
             name(s) == KidName(A, k, pgs, st, s)
  <1>1. \A n \in KidNames(A) : at(n) \in KidSpots(g) /\ KidAt(g, at(n)) = KidOf(A, n) /\ name(at(n)) = n
    BY NamedKid
  <1>2. \A i \in 1 .. k : PageSpot(A, i) \in KidSpots(g) /\ KidAt(g, PageSpot(A, i)) = pgs[i]
    BY PageSpotIs
  <1>3. /\ \A n, v \in KidNames(A) : KidOf(A, n) = KidOf(A, v) => n = v
        /\ \A n \in KidNames(A) : KidOf(A, n) \in Kept1(A) \ {ROOT}
        /\ \A p \in Kept1(A) \ {ROOT} : \E n \in KidNames(A) : KidOf(A, n) = p
    BY DEF KidsOnce
  <1>5. \A s \in KidSpots(g) : (\A i \in 1 .. k : s # PageSpot(A, i)) => name(s) \in KidNames(A) /\ at(name(s)) = s
    BY KidNamed
  <1>6. \A i \in 1 .. k : pgs[i] \notin Kept1(A) /\ pgs[i] \in DOMAIN g /\ g[pgs[i]].leaf = A.leaf
    BY PageNumbers DEF Kept1
  <1>7. /\ \A p \in Kept1(A) : p \in DOMAIN g
        /\ A.P \in Kept1(A) /\ ~g[A.P].leaf
        /\ \A p \in DOMAIN A.others : p \in DOMAIN g /\ g[p] = A.others[p] /\ p \in Kept1(A)
    BY ParentOut DEF Kept1
  <1>8. ROOT \in Kept1(A)
    BY DEF Kept1, Assembly, AssemblyType
  <1>9. \A i, j \in 1 .. k : pgs[i] = pgs[j] => i = j
    BY DEF Assembly, Assembled
  <1>10. /\ N \in Nat /\ h \in [Kept1(A) -> 0 .. N]
         /\ h[A.P] # 0 /\ (A.leaf <=> h[A.P] = 1)
         /\ \A p \in DOMAIN A.others : A.others[p].leaf <=> h[p] = 0
         /\ \A n \in KidNames(A) : h[KidOf(A, n)] + 1 = OwnLevel(A, h, n)
    BY DEF KidLevels
  <1>11. \A n \in KidNames(A) :
            /\ n[1] = 0 => at(n)[1] = n[2] /\ n[2] \in DOMAIN A.others
            /\ n[1] \in {1, 2} => at(n)[1] = A.P
            /\ n[1] = 3 => \E i \in 1 .. k : at(n)[1] = pgs[i]
            /\ n[1] \in {0, 1, 2, 3}
    BY OwnerIs
  <1> HIDE DEF at, name
  <1>12. ASSUME NEW s \in KidSpots(g)
         PROVE  \/ \E i \in 1 .. k : s = PageSpot(A, i) /\ KidAt(g, s) = pgs[i]
                \/ \E n \in KidNames(A) : s = at(n) /\ KidAt(g, s) = KidOf(A, n)
    BY <1>1, <1>2, <1>5
  <1>13. ASSUME NEW s \in KidSpots(g), NEW v \in KidSpots(g), KidAt(g, s) = KidAt(g, v) PROVE s = v
    <2>1. CASE \E i \in 1 .. k : s = PageSpot(A, i) /\ KidAt(g, s) = pgs[i]
      BY <1>3, <1>6, <1>9, <1>12, <1>13, <2>1
    <2>2. CASE \E n \in KidNames(A) : s = at(n) /\ KidAt(g, s) = KidOf(A, n)
      <3>1. PICK n \in KidNames(A) : s = at(n) /\ KidAt(g, s) = KidOf(A, n)
        BY <2>2
      <3>2. KidOf(A, n) \in Kept1(A)
        BY <1>3
      <3>3. \A i \in 1 .. k : KidAt(g, v) # pgs[i]
        BY <1>6, <1>13, <3>1, <3>2
      <3>4. PICK m \in KidNames(A) : v = at(m) /\ KidAt(g, v) = KidOf(A, m)
        BY <1>12, <3>3
      <3> QED BY <1>3, <1>13, <3>1, <3>4
    <2> QED BY <1>12, <2>1, <2>2
  <1>14. ASSUME NEW p \in DOMAIN g, p # ROOT PROVE \E s \in KidSpots(g) : KidAt(g, s) = p
    <2>1. CASE p \in Kept1(A)
      BY <1>1, <1>3, <1>14, <2>1
    <2>2. CASE \E i \in 1 .. k : p = pgs[i]
      BY <1>2, <2>2
    <2> QED BY <2>1, <2>2, OnlyPages
  <1>15. OneParent(g)
    BY <1>13, <1>14 DEF OneParent
  <1> DEFINE H == [p \in DOMAIN g |-> IF p \in Kept1(A) THEN h[p] ELSE h[A.P] - 1]
  <1>16. /\ \A p \in Kept1(A) : H[p] = h[p]
         /\ \A i \in 1 .. k : H[pgs[i]] = h[A.P] - 1
    BY <1>6, <1>7
  <1>17. h[A.P] \in 0 .. N /\ h[A.P] - 1 \in 0 .. N
    BY <1>7, <1>10
  <1>18. N \in Nat /\ H \in [DOMAIN g -> 0 .. N]
    BY <1>10, <1>17
  <1> HIDE DEF H
  <1>19. \A p \in DOMAIN g : g[p].leaf <=> H[p] = 0
    <2>1. ASSUME NEW p \in DOMAIN g PROVE g[p].leaf <=> H[p] = 0
      <3>1. CASE p \in DOMAIN A.others
        BY <1>7, <1>10, <1>16, <3>1
      <3>2. CASE p = A.P
        BY <1>7, <1>10, <1>16, <3>2
      <3>3. CASE \E i \in 1 .. k : p = pgs[i]
        <4>1. (g[p].leaf <=> A.leaf) /\ H[p] = h[A.P] - 1
          BY <1>6, <1>16, <3>3
        <4>2. h[A.P] = 1 <=> h[A.P] - 1 = 0
          BY <1>10, <1>17
        <4> QED BY <1>10, <4>1, <4>2
      <3> QED BY <3>1, <3>2, <3>3, OnlyPages DEF Kept1
    <2> QED BY <2>1
  <1>20. ASSUME NEW s \in KidSpots(g)
         PROVE  KidAt(g, s) \in DOMAIN g \ {ROOT} /\ H[KidAt(g, s)] + 1 = H[s[1]]
    <2>1. CASE \E i \in 1 .. k : s = PageSpot(A, i) /\ KidAt(g, s) = pgs[i]
      <3>1. PICK i \in 1 .. k : s = PageSpot(A, i) /\ KidAt(g, s) = pgs[i]
        BY <2>1
      <3>2. s[1] = A.P
        BY <3>1 DEF PageSpot
      <3>3. H[pgs[i]] = h[A.P] - 1 /\ H[A.P] = h[A.P] /\ pgs[i] \in DOMAIN g /\ pgs[i] # ROOT
        BY <1>6, <1>7, <1>8, <1>16
      <3> QED BY <1>17, <3>1, <3>2, <3>3
    <2>2. CASE \E n \in KidNames(A) : s = at(n) /\ KidAt(g, s) = KidOf(A, n)
      <3>1. PICK n \in KidNames(A) : s = at(n) /\ KidAt(g, s) = KidOf(A, n)
        BY <2>2
      <3>2. KidOf(A, n) \in Kept1(A) \ {ROOT} /\ h[KidOf(A, n)] + 1 = OwnLevel(A, h, n)
        BY <1>3, <1>10
      <3>3. /\ n[1] = 0 => s[1] = n[2] /\ n[2] \in DOMAIN A.others
            /\ n[1] \in {1, 2} => s[1] = A.P
            /\ n[1] = 3 => \E i \in 1 .. k : s[1] = pgs[i]
            /\ n[1] \in {0, 1, 2, 3}
        BY <1>11, <3>1
      <3>4. OwnLevel(A, h, n) = H[s[1]]
        <4>1. CASE n[1] = 0
          BY <1>7, <1>16, <3>3, <4>1 DEF OwnLevel
        <4>2. CASE n[1] \in {1, 2}
          BY <1>7, <1>16, <3>3, <4>2 DEF OwnLevel
        <4>3. CASE n[1] = 3
          BY <1>16, <3>3, <4>3 DEF OwnLevel
        <4> QED BY <3>3, <4>1, <4>2, <4>3
      <3>5. H[KidOf(A, n)] = h[KidOf(A, n)] /\ KidOf(A, n) \in DOMAIN g \ {ROOT}
        BY <1>7, <1>16, <3>2
      <3> QED BY <3>1, <3>2, <3>4, <3>5
    <2> QED BY <1>12, <2>1, <2>2
  <1>21. ASSUME NEW p \in DOMAIN g, ~g[p].leaf, NEW j \in Turns(g[p])
         PROVE  Child(g[p], j) \in DOMAIN g \ {ROOT} /\ H[Child(g[p], j)] + 1 = H[p]
    <2>1. j \in 1 .. Len(g[p].cell) + 1
      BY DEF Turns
    <2>2. <<p, j>> \in KidSpots(g) /\ KidAt(g, <<p, j>>) = Child(g[p], j)
      BY <1>21, <2>1, KidSpotMade
    <2>3. <<p, j>>[1] = p
      OBVIOUS
    <2> QED BY <1>20, <2>2, <2>3
  <1>22. Levels(g, H, N)
    BY <1>18, <1>19, <1>21 DEF Levels
  <1> QED BY <1>15, <1>22 DEF Levelled

\* A tree that is laid out anew is a tree with the same chains.
LEMMA LaidOutAnew ==
    ASSUME NEW nd, NEW A, NEW k, NEW pgs, NEW st, Assembly(nd, A, k, pgs, st),
           OneParent(nd), Levelled(nd),
           NEW g, NEW k1, NEW pgs1, NEW st1, Assembly(g, A, k1, pgs1, st1)
    PROVE  /\ OneParent(g) /\ Levelled(g)
           /\ OvfPages(g) = OvfPages(nd) /\ (OneChain(nd) => OneChain(g))
  <1>1. KidsOnce(A)
    BY TreeKids
  <1>2. PICK h, N : Levels(nd, h, N)
    BY DEF Levelled
  <1>3. KidLevels(A, [p \in Kept1(A) |-> h[p]], N)
    BY <1>1, <1>2, TreeKidLevels
  <1>4. OneParent(g) /\ Levelled(g)
    BY <1>1, <1>3, KidsTree
  <1>5. OvfPages(nd) = ChainPages(A) /\ (OneChain(nd) <=> ChainsOnce(A))
    BY AssemblyChains
  <1>6. OvfPages(g) = ChainPages(A) /\ (OneChain(g) <=> ChainsOnce(A))
    BY AssemblyChains
  <1> QED BY <1>4, <1>5, <1>6

\* A tree whose root has moved to the page q below it.
Deepened(nd, g, q) ==
    /\ Nodes(nd) /\ Nodes(g) /\ q \notin DOMAIN nd /\ DOMAIN g = DOMAIN nd \cup {q}
    /\ g[q] = nd[ROOT] /\ \A p \in DOMAIN nd : p # ROOT => g[p] = nd[p]
    /\ ~g[ROOT].leaf /\ g[ROOT].cell = << >> /\ g[ROOT].right = q

UpFrom(q, s) == <<IF s[1] = q THEN ROOT ELSE s[1], s[2]>>
DownTo(q, s) == <<IF s[1] = ROOT THEN q ELSE s[1], s[2]>>

\* The cells of a deepened tree are those it had before.
LEMMA DeepCells ==
    ASSUME NEW nd, NEW g, NEW q, Deepened(nd, g, q)
    PROVE  /\ \A s \in CellSpots(nd) : /\ DownTo(q, s) \in CellSpots(g) /\ UpFrom(q, DownTo(q, s)) = s
                                       /\ OvfAt(g, DownTo(q, s)) = OvfAt(nd, s)
           /\ \A v \in CellSpots(g) : /\ UpFrom(q, v) \in CellSpots(nd) /\ DownTo(q, UpFrom(q, v)) = v
                                      /\ OvfAt(nd, UpFrom(q, v)) = OvfAt(g, v)
  <1>1. /\ q \notin DOMAIN nd /\ DOMAIN g = DOMAIN nd \cup {q} /\ ROOT \in DOMAIN nd
        /\ g[q] = nd[ROOT] /\ \A p \in DOMAIN nd : p # ROOT => g[p] = nd[p]
        /\ g[ROOT].cell = << >> /\ q # ROOT
    BY DEF Deepened, Nodes
  <1>2. ASSUME NEW s \in CellSpots(nd)
        PROVE  /\ DownTo(q, s) \in CellSpots(g) /\ UpFrom(q, DownTo(q, s)) = s
               /\ OvfAt(g, DownTo(q, s)) = OvfAt(nd, s)
    <2>1. /\ s = <<s[1], s[2]>> /\ s[1] \in DOMAIN nd /\ s[2] \in 1 .. Len(nd[s[1]].cell)
      BY CellSpotIs
    <2>2. CASE s[1] = ROOT
      <3>1. DownTo(q, s) = <<q, s[2]>>
        BY <2>2 DEF DownTo
      <3>2. UpFrom(q, DownTo(q, s)) = <<ROOT, s[2]>>
        BY <3>1 DEF UpFrom
      <3>3. q \in DOMAIN g /\ s[2] \in 1 .. Len(g[q].cell)
        BY <1>1, <2>1, <2>2
      <3>4. DownTo(q, s) \in CellSpots(g) /\ OvfAt(g, DownTo(q, s)) = g[q].cell[s[2]].ovf
        BY <3>1, <3>3, CellSpotMade
      <3> QED BY <1>1, <2>1, <2>2, <3>2, <3>4 DEF OvfAt
    <2>3. CASE s[1] # ROOT
      <3>1. DownTo(q, s) = <<s[1], s[2]>> /\ s[1] # q
        BY <1>1, <2>1, <2>3 DEF DownTo
      <3>2. UpFrom(q, DownTo(q, s)) = <<s[1], s[2]>>
        BY <3>1 DEF UpFrom
      <3>3. s[1] \in DOMAIN g /\ s[2] \in 1 .. Len(g[s[1]].cell) /\ g[s[1]] = nd[s[1]]
        BY <1>1, <2>1, <2>3
      <3>4. DownTo(q, s) \in CellSpots(g) /\ OvfAt(g, DownTo(q, s)) = g[s[1]].cell[s[2]].ovf
        BY <3>1, <3>3, CellSpotMade
      <3> QED BY <2>1, <3>2, <3>3, <3>4 DEF OvfAt
    <2> QED BY <2>2, <2>3
  <1>3. ASSUME NEW v \in CellSpots(g)
        PROVE  /\ UpFrom(q, v) \in CellSpots(nd) /\ DownTo(q, UpFrom(q, v)) = v
               /\ OvfAt(nd, UpFrom(q, v)) = OvfAt(g, v)
    <2>1. /\ v = <<v[1], v[2]>> /\ v[1] \in DOMAIN g /\ v[2] \in 1 .. Len(g[v[1]].cell)
      BY CellSpotIs
    <2>2. v[1] # ROOT
      BY <1>1, <2>1
    <2>3. CASE v[1] = q
      <3>1. UpFrom(q, v) = <<ROOT, v[2]>>
        BY <2>3 DEF UpFrom
      <3>2. DownTo(q, UpFrom(q, v)) = <<q, v[2]>>
        BY <3>1 DEF DownTo
      <3>3. v[2] \in 1 .. Len(nd[ROOT].cell)
        BY <1>1, <2>1, <2>3
      <3>4. UpFrom(q, v) \in CellSpots(nd) /\ OvfAt(nd, UpFrom(q, v)) = nd[ROOT].cell[v[2]].ovf
        BY <1>1, <3>1, <3>3, CellSpotMade
      <3> QED BY <1>1, <2>1, <2>3, <3>2, <3>4 DEF OvfAt
    <2>4. CASE v[1] # q
      <3>1. UpFrom(q, v) = <<v[1], v[2]>>
        BY <2>4 DEF UpFrom
      <3>2. DownTo(q, UpFrom(q, v)) = <<v[1], v[2]>>
        BY <2>2, <3>1 DEF DownTo
      <3>3. v[1] \in DOMAIN nd /\ v[2] \in 1 .. Len(nd[v[1]].cell) /\ g[v[1]] = nd[v[1]]
        BY <1>1, <2>1, <2>2, <2>4
      <3>4. UpFrom(q, v) \in CellSpots(nd) /\ OvfAt(nd, UpFrom(q, v)) = nd[v[1]].cell[v[2]].ovf
        BY <3>1, <3>3, CellSpotMade
      <3> QED BY <2>1, <3>2, <3>3, <3>4 DEF OvfAt
    <2> QED BY <2>3, <2>4
  <1> QED BY <1>2, <1>3

\* The overflow pages are the same.
LEMMA DeepChains ==
    ASSUME NEW nd, NEW g, NEW q, Deepened(nd, g, q)
    PROVE  OvfPages(g) = OvfPages(nd) /\ (OneChain(nd) <=> OneChain(g))
  <1>1. /\ \A s \in CellSpots(nd) : /\ DownTo(q, s) \in CellSpots(g) /\ UpFrom(q, DownTo(q, s)) = s
                                    /\ OvfAt(g, DownTo(q, s)) = OvfAt(nd, s)
        /\ \A v \in CellSpots(g) : /\ UpFrom(q, v) \in CellSpots(nd) /\ DownTo(q, UpFrom(q, v)) = v
                                   /\ OvfAt(nd, UpFrom(q, v)) = OvfAt(g, v)
    BY DeepCells
  <1> DEFINE up == [v \in CellSpots(g) |-> UpFrom(q, v)]
             down == [s \in CellSpots(nd) |-> DownTo(q, s)]
  <1>2. Moves(nd, CellSpots(nd), g, CellSpots(g), up)
    <2>1. \A v \in CellSpots(g) : up[v] = UpFrom(q, v)
      OBVIOUS
    <2> HIDE DEF up
    <2> QED BY <1>1, <2>1 DEF Moves
  <1>3. Moves(g, CellSpots(g), nd, CellSpots(nd), down)
    <2>1. \A s \in CellSpots(nd) : down[s] = DownTo(q, s)
      OBVIOUS
    <2> HIDE DEF down
    <2> QED BY <1>1, <2>1 DEF Moves
  <1> HIDE DEF up, down
  <1>4. OneChain(nd) => OneChain(g)
    BY <1>2, ChainsMove DEF OneChain
  <1>5. OneChain(g) => OneChain(nd)
    BY <1>3, ChainsMove DEF OneChain
  <1>6. OvfPages(g) = OvfPages(nd)
    <2>1. ASSUME NEW x \in OvfPages(g) PROVE x \in OvfPages(nd)
      BY <1>1 DEF OvfPages, OvfOf
    <2>2. ASSUME NEW x \in OvfPages(nd) PROVE x \in OvfPages(g)
      BY <1>1 DEF OvfPages, OvfOf
    <2> QED BY <2>1, <2>2
  <1> QED BY <1>4, <1>5, <1>6

\* The children of a deepened tree are those it had before and the new page.
LEMMA DeepKids ==
    ASSUME NEW nd, NEW g, NEW q, Deepened(nd, g, q)
    PROVE  /\ \A s \in KidSpots(nd) : /\ DownTo(q, s) \in KidSpots(g) /\ UpFrom(q, DownTo(q, s)) = s
                                      /\ KidAt(g, DownTo(q, s)) = KidAt(nd, s) /\ DownTo(q, s) # <<ROOT, 1>>
           /\ \A v \in KidSpots(g) : v # <<ROOT, 1>> =>
                 /\ UpFrom(q, v) \in KidSpots(nd) /\ DownTo(q, UpFrom(q, v)) = v
                 /\ KidAt(nd, UpFrom(q, v)) = KidAt(g, v)
           /\ <<ROOT, 1>> \in KidSpots(g) /\ KidAt(g, <<ROOT, 1>>) = q
  <1>1. /\ q \notin DOMAIN nd /\ DOMAIN g = DOMAIN nd \cup {q} /\ ROOT \in DOMAIN nd
        /\ g[q] = nd[ROOT] /\ \A p \in DOMAIN nd : p # ROOT => g[p] = nd[p]
        /\ ~g[ROOT].leaf /\ g[ROOT].cell = << >> /\ q # ROOT /\ g[ROOT].right = q
    BY DEF Deepened, Nodes
  <1>2. ASSUME NEW s \in KidSpots(nd)
        PROVE  /\ DownTo(q, s) \in KidSpots(g) /\ UpFrom(q, DownTo(q, s)) = s
               /\ KidAt(g, DownTo(q, s)) = KidAt(nd, s) /\ DownTo(q, s) # <<ROOT, 1>>
    <2>1. /\ s = <<s[1], s[2]>> /\ s[1] \in DOMAIN nd /\ ~nd[s[1]].leaf /\ s[2] \in 1 .. Len(nd[s[1]].cell) + 1
      BY KidSpotIs
    <2>2. CASE s[1] = ROOT
      <3>1. DownTo(q, s) = <<q, s[2]>>
        BY <2>2 DEF DownTo
      <3>2. UpFrom(q, DownTo(q, s)) = <<ROOT, s[2]>>
        BY <3>1 DEF UpFrom
      <3>3. q \in DOMAIN g /\ ~g[q].leaf /\ s[2] \in 1 .. Len(g[q].cell) + 1
        BY <1>1, <2>1, <2>2
      <3>4. DownTo(q, s) \in KidSpots(g) /\ KidAt(g, DownTo(q, s)) = Child(g[q], s[2])
        BY <3>1, <3>3, KidSpotMade
      <3> QED BY <1>1, <2>1, <2>2, <3>1, <3>2, <3>4 DEF KidAt
    <2>3. CASE s[1] # ROOT
      <3>1. DownTo(q, s) = <<s[1], s[2]>> /\ s[1] # q
        BY <1>1, <2>1, <2>3 DEF DownTo
      <3>2. UpFrom(q, DownTo(q, s)) = <<s[1], s[2]>>
        BY <3>1 DEF UpFrom
      <3>3. s[1] \in DOMAIN g /\ ~g[s[1]].leaf /\ s[2] \in 1 .. Len(g[s[1]].cell) + 1 /\ g[s[1]] = nd[s[1]]
        BY <1>1, <2>1, <2>3
      <3>4. DownTo(q, s) \in KidSpots(g) /\ KidAt(g, DownTo(q, s)) = Child(g[s[1]], s[2])
        BY <3>1, <3>3, KidSpotMade
      <3> QED BY <2>1, <2>3, <3>1, <3>2, <3>3, <3>4 DEF KidAt
    <2> QED BY <2>2, <2>3
  <1>3. ASSUME NEW v \in KidSpots(g), v # <<ROOT, 1>>
        PROVE  /\ UpFrom(q, v) \in KidSpots(nd) /\ DownTo(q, UpFrom(q, v)) = v
               /\ KidAt(nd, UpFrom(q, v)) = KidAt(g, v)
    <2>1. /\ v = <<v[1], v[2]>> /\ v[1] \in DOMAIN g /\ ~g[v[1]].leaf /\ v[2] \in 1 .. Len(g[v[1]].cell) + 1
      BY KidSpotIs
    <2>2. v[1] # ROOT
      <3>1. v[1] = ROOT => v[2] \in 1 .. 1
        BY <1>1, <2>1
      <3> QED BY <1>3, <2>1, <3>1
    <2>3. CASE v[1] = q
      <3>1. UpFrom(q, v) = <<ROOT, v[2]>>
        BY <2>3 DEF UpFrom
      <3>2. DownTo(q, UpFrom(q, v)) = <<q, v[2]>>
        BY <3>1 DEF DownTo
      <3>3. ~nd[ROOT].leaf /\ v[2] \in 1 .. Len(nd[ROOT].cell) + 1
        BY <1>1, <2>1, <2>3
      <3>4. UpFrom(q, v) \in KidSpots(nd) /\ KidAt(nd, UpFrom(q, v)) = Child(nd[ROOT], v[2])
        BY <1>1, <3>1, <3>3, KidSpotMade
      <3> QED BY <1>1, <2>1, <2>3, <3>2, <3>4 DEF KidAt
    <2>4. CASE v[1] # q
      <3>1. UpFrom(q, v) = <<v[1], v[2]>>
        BY <2>4 DEF UpFrom
      <3>2. DownTo(q, UpFrom(q, v)) = <<v[1], v[2]>>
        BY <2>2, <3>1 DEF DownTo
      <3>3. v[1] \in DOMAIN nd /\ ~nd[v[1]].leaf /\ v[2] \in 1 .. Len(nd[v[1]].cell) + 1 /\ g[v[1]] = nd[v[1]]
        BY <1>1, <2>1, <2>2, <2>4
      <3>4. UpFrom(q, v) \in KidSpots(nd) /\ KidAt(nd, UpFrom(q, v)) = Child(nd[v[1]], v[2])
        BY <3>1, <3>3, KidSpotMade
      <3> QED BY <2>1, <3>2, <3>3, <3>4 DEF KidAt
    <2> QED BY <2>3, <2>4
  <1>4. <<ROOT, 1>> \in KidSpots(g) /\ KidAt(g, <<ROOT, 1>>) = q
    <2>1. ROOT \in DOMAIN g /\ 1 \in 1 .. Len(g[ROOT].cell) + 1 /\ ~(1 <= Len(g[ROOT].cell))
      BY <1>1
    <2>2. Child(g[ROOT], 1) = q
      BY <1>1, <2>1 DEF Child
    <2> QED BY <1>1, <2>1, <2>2, KidSpotMade
  <1> QED BY <1>2, <1>3, <1>4

\* The root moves down.
LEMMA TreeDeepened ==
    ASSUME NEW nd, NEW g, NEW q, Deepened(nd, g, q), OneParent(nd), Levelled(nd)
    PROVE  OneParent(g) /\ Levelled(g)
  <1>1. /\ q \notin DOMAIN nd /\ DOMAIN g = DOMAIN nd \cup {q} /\ ROOT \in DOMAIN nd
        /\ g[q] = nd[ROOT] /\ \A p \in DOMAIN nd : p # ROOT => g[p] = nd[p]
        /\ ~g[ROOT].leaf /\ q # ROOT
    BY DEF Deepened, Nodes
  <1>2. /\ \A s \in KidSpots(nd) : /\ DownTo(q, s) \in KidSpots(g) /\ UpFrom(q, DownTo(q, s)) = s
                                   /\ KidAt(g, DownTo(q, s)) = KidAt(nd, s) /\ DownTo(q, s) # <<ROOT, 1>>
        /\ \A v \in KidSpots(g) : v # <<ROOT, 1>> =>
              /\ UpFrom(q, v) \in KidSpots(nd) /\ DownTo(q, UpFrom(q, v)) = v
              /\ KidAt(nd, UpFrom(q, v)) = KidAt(g, v)
        /\ <<ROOT, 1>> \in KidSpots(g) /\ KidAt(g, <<ROOT, 1>>) = q
    BY DeepKids
  <1>3. PICK h, N : Levels(nd, h, N)
    BY DEF Levelled
  <1>4. /\ N \in Nat /\ h \in [DOMAIN nd -> 0 .. N]
        /\ \A p \in DOMAIN nd : nd[p].leaf <=> h[p] = 0
    BY <1>3 DEF Levels
  <1>5. \A s \in KidSpots(nd) : KidAt(nd, s) \in DOMAIN nd \ {ROOT} /\ h[KidAt(nd, s)] + 1 = h[s[1]]
    BY <1>3 DEF Levels, KidSpots, KidAt
  <1>6. /\ \A s, v \in KidSpots(nd) : KidAt(nd, s) = KidAt(nd, v) => s = v
        /\ \A p \in DOMAIN nd : p # ROOT => \E s \in KidSpots(nd) : KidAt(nd, s) = p
    BY DEF OneParent
  <1>7. OneParent(g)
    <2>1. ASSUME NEW s \in KidSpots(g), NEW v \in KidSpots(g), KidAt(g, s) = KidAt(g, v) PROVE s = v
      BY <1>1, <1>2, <1>5, <1>6, <2>1
    <2>2. ASSUME NEW p \in DOMAIN g, p # ROOT PROVE \E s \in KidSpots(g) : KidAt(g, s) = p
      BY <1>1, <1>2, <1>6, <2>2
    <2> QED BY <2>1, <2>2 DEF OneParent
  <1> DEFINE H == [p \in DOMAIN g |-> IF p = ROOT THEN h[ROOT] + 1 ELSE IF p = q THEN h[ROOT] ELSE h[p]]
  <1>8. /\ H[ROOT] = h[ROOT] + 1 /\ H[q] = h[ROOT] /\ \A p \in DOMAIN nd : p # ROOT => H[p] = h[p]
    BY <1>1
  <1>9. h[ROOT] \in 0 .. N
    BY <1>1, <1>4
  <1>10. N + 1 \in Nat /\ H \in [DOMAIN g -> 0 .. N + 1]
    <2>1. ASSUME NEW p \in DOMAIN g PROVE H[p] \in 0 .. N + 1
      <3>1. CASE p \in DOMAIN nd /\ p # ROOT
        <4>1. H[p] = h[p] /\ h[p] \in 0 .. N
          BY <1>4, <1>8, <3>1
        <4> HIDE DEF H
        <4> QED BY <1>4, <4>1
      <3>2. CASE p \in {ROOT, q}
        <4> HIDE DEF H
        <4> QED BY <1>4, <1>8, <1>9, <3>2
      <3> QED BY <1>1, <3>1, <3>2
    <2> QED BY <1>4, <2>1
  <1> HIDE DEF H
  <1>11. ASSUME NEW p \in DOMAIN g PROVE g[p].leaf <=> H[p] = 0
    <2>1. CASE p \in DOMAIN nd /\ p # ROOT
      BY <1>1, <1>4, <1>8, <2>1
    <2>2. CASE p = q
      BY <1>1, <1>4, <1>8, <2>2
    <2>3. CASE p = ROOT
      BY <1>1, <1>8, <1>9, <2>3
    <2> QED BY <1>1, <2>1, <2>2, <2>3
  <1>12. ASSUME NEW v \in KidSpots(g)
         PROVE  KidAt(g, v) \in DOMAIN g \ {ROOT} /\ H[KidAt(g, v)] + 1 = H[v[1]]
    <2>1. CASE v = <<ROOT, 1>>
      BY <1>1, <1>2, <1>8, <2>1
    <2>2. CASE v # <<ROOT, 1>>
      <3> DEFINE s == UpFrom(q, v)
      <3>1. s \in KidSpots(nd) /\ DownTo(q, s) = v /\ KidAt(nd, s) = KidAt(g, v)
        BY <1>2, <2>2
      <3>2. KidAt(nd, s) \in DOMAIN nd \ {ROOT} /\ h[KidAt(nd, s)] + 1 = h[s[1]] /\ s[1] \in DOMAIN nd
        BY <1>5, <3>1, KidSpotIs
      <3>3. v[1] = IF s[1] = ROOT THEN q ELSE s[1]
        <4>1. DownTo(q, s)[1] = IF s[1] = ROOT THEN q ELSE s[1]
          BY DEF DownTo
        <4> QED BY <3>1, <4>1
      <3>4. H[v[1]] = h[s[1]]
        BY <1>8, <3>2, <3>3
      <3> HIDE DEF s
      <3>5. KidAt(g, v) \in DOMAIN g \ {ROOT}
        BY <1>1, <3>1, <3>2
      <3>6. H[KidAt(g, v)] = h[KidAt(nd, s)]
        BY <1>8, <3>1, <3>2
      <3> QED BY <3>2, <3>4, <3>5, <3>6
    <2> QED BY <2>1, <2>2
  <1>13. ASSUME NEW p \in DOMAIN g, ~g[p].leaf, NEW j \in Turns(g[p])
         PROVE  Child(g[p], j) \in DOMAIN g \ {ROOT} /\ H[Child(g[p], j)] + 1 = H[p]
    <2>1. j \in 1 .. Len(g[p].cell) + 1
      BY DEF Turns
    <2>2. <<p, j>> \in KidSpots(g) /\ KidAt(g, <<p, j>>) = Child(g[p], j)
      BY <1>13, <2>1, KidSpotMade
    <2>3. <<p, j>>[1] = p
      OBVIOUS
    <2> QED BY <1>12, <2>2, <2>3
  <1>14. Levels(g, H, N + 1)
    BY <1>10, <1>11, <1>13 DEF Levels
  <1> QED BY <1>7, <1>14 DEF Levelled

\* The only child of an empty root moves up.
LEMMA TreeRaised ==
    ASSUME NEW nd, NEW g, NEW q, Deepened(nd, g, q), OneParent(g), Levelled(g)
    PROVE  OneParent(nd) /\ Levelled(nd)
  <1>1. /\ q \notin DOMAIN nd /\ DOMAIN g = DOMAIN nd \cup {q} /\ ROOT \in DOMAIN nd
        /\ g[q] = nd[ROOT] /\ \A p \in DOMAIN nd : p # ROOT => g[p] = nd[p]
        /\ ~g[ROOT].leaf /\ q # ROOT
    BY DEF Deepened, Nodes
  <1>2. /\ \A s \in KidSpots(nd) : /\ DownTo(q, s) \in KidSpots(g) /\ UpFrom(q, DownTo(q, s)) = s
                                   /\ KidAt(g, DownTo(q, s)) = KidAt(nd, s) /\ DownTo(q, s) # <<ROOT, 1>>
        /\ \A v \in KidSpots(g) : v # <<ROOT, 1>> =>
              /\ UpFrom(q, v) \in KidSpots(nd) /\ DownTo(q, UpFrom(q, v)) = v
              /\ KidAt(nd, UpFrom(q, v)) = KidAt(g, v)
        /\ <<ROOT, 1>> \in KidSpots(g) /\ KidAt(g, <<ROOT, 1>>) = q
    BY DeepKids
  <1>3. PICK h, N : Levels(g, h, N)
    BY DEF Levelled
  <1>4. /\ N \in Nat /\ h \in [DOMAIN g -> 0 .. N]
        /\ \A p \in DOMAIN g : g[p].leaf <=> h[p] = 0
    BY <1>3 DEF Levels
  <1>5. \A s \in KidSpots(g) : KidAt(g, s) \in DOMAIN g \ {ROOT} /\ h[KidAt(g, s)] + 1 = h[s[1]]
    BY <1>3 DEF Levels, KidSpots, KidAt
  <1>6. /\ \A s, v \in KidSpots(g) : KidAt(g, s) = KidAt(g, v) => s = v
        /\ \A p \in DOMAIN g : p # ROOT => \E s \in KidSpots(g) : KidAt(g, s) = p
    BY DEF OneParent
  <1>7. OneParent(nd)
    <2>1. ASSUME NEW s \in KidSpots(nd), NEW v \in KidSpots(nd), KidAt(nd, s) = KidAt(nd, v) PROVE s = v
      BY <1>2, <1>6, <2>1
    <2>2. ASSUME NEW p \in DOMAIN nd, p # ROOT PROVE \E s \in KidSpots(nd) : KidAt(nd, s) = p
      BY <1>1, <1>2, <1>6, <2>2
    <2> QED BY <2>1, <2>2 DEF OneParent
  <1> DEFINE H == [p \in DOMAIN nd |-> IF p = ROOT THEN h[q] ELSE h[p]]
  <1>8. /\ H[ROOT] = h[q] /\ \A p \in DOMAIN nd : p # ROOT => H[p] = h[p]
    BY <1>1
  <1>9. H \in [DOMAIN nd -> 0 .. N]
    BY <1>1, <1>4
  <1> HIDE DEF H
  <1>10. ASSUME NEW p \in DOMAIN nd PROVE nd[p].leaf <=> H[p] = 0
    BY <1>1, <1>4, <1>8
  <1>11. ASSUME NEW s \in KidSpots(nd)
         PROVE  KidAt(nd, s) \in DOMAIN nd \ {ROOT} /\ H[KidAt(nd, s)] + 1 = H[s[1]]
    <2> DEFINE v == DownTo(q, s)
    <2>1. v \in KidSpots(g) /\ KidAt(g, v) = KidAt(nd, s) /\ v # <<ROOT, 1>>
      BY <1>2
    <2>2. KidAt(g, v) \in DOMAIN g \ {ROOT} /\ h[KidAt(g, v)] + 1 = h[v[1]] /\ s[1] \in DOMAIN nd
      BY <1>5, <2>1, KidSpotIs
    <2>3. v[1] = IF s[1] = ROOT THEN q ELSE s[1]
      BY DEF DownTo
    <2>4. H[s[1]] = h[v[1]]
      BY <1>8, <2>2, <2>3
    <2> HIDE DEF v
    <2>5. KidAt(g, v) # q
      BY <1>2, <1>6, <2>1
    <2>6. KidAt(nd, s) \in DOMAIN nd \ {ROOT}
      BY <1>1, <2>1, <2>2, <2>5
    <2>7. H[KidAt(nd, s)] = h[KidAt(g, v)]
      BY <1>8, <2>1, <2>6
    <2> QED BY <2>2, <2>4, <2>6, <2>7
  <1>12. ASSUME NEW p \in DOMAIN nd, ~nd[p].leaf, NEW j \in Turns(nd[p])
         PROVE  Child(nd[p], j) \in DOMAIN nd \ {ROOT} /\ H[Child(nd[p], j)] + 1 = H[p]
    <2>1. j \in 1 .. Len(nd[p].cell) + 1
      BY DEF Turns
    <2>2. <<p, j>> \in KidSpots(nd) /\ KidAt(nd, <<p, j>>) = Child(nd[p], j)
      BY <1>12, <2>1, KidSpotMade
    <2>3. <<p, j>>[1] = p
      OBVIOUS
    <2> QED BY <1>11, <2>2, <2>3
  <1>13. Levels(nd, H, N)
    BY <1>4, <1>9, <1>10, <1>12 DEF Levels
  <1> QED BY <1>7, <1>13 DEF Levelled

\* The sequence flat runs through the sequences s[1] .. s[k], the i-th of them
\* after off[i].
RunsThrough(S, s, k, flat, off) ==
    /\ flat \in Seq(S) /\ off \in [1 .. k + 1 -> Nat] /\ off[1] = 0 /\ off[k + 1] = Len(flat)
    /\ \A i \in 1 .. k : /\ s[i] \in Seq(S) /\ off[i + 1] = off[i] + Len(s[i])
                         /\ \A x \in 1 .. Len(s[i]) : flat[off[i] + x] = s[i][x]

\* One sequence more: SequencesExt's FlattenSeq appends it.
LEMMA RunsOn ==
    ASSUME NEW S, NEW s, NEW k \in Nat, NEW flat, NEW off, RunsThrough(S, s, k, flat, off),
           s[k + 1] \in Seq(S)
    PROVE  \E next : RunsThrough(S, s, k + 1, flat \o s[k + 1], next)
  <1> DEFINE next == [i \in 1 .. k + 2 |-> IF i = k + 2 THEN Len(flat) + Len(s[k + 1]) ELSE off[i]]
             long == flat \o s[k + 1]
  <1>1. /\ flat \in Seq(S) /\ off \in [1 .. k + 1 -> Nat] /\ off[1] = 0 /\ off[k + 1] = Len(flat)
        /\ \A i \in 1 .. k : /\ s[i] \in Seq(S) /\ off[i + 1] = off[i] + Len(s[i])
                             /\ \A x \in 1 .. Len(s[i]) : flat[off[i] + x] = s[i][x]
    BY DEF RunsThrough
  <1>2. /\ long \in Seq(S) /\ Len(long) = Len(flat) + Len(s[k + 1]) /\ Len(flat) \in Nat
        /\ Len(s[k + 1]) \in Nat /\ \A x \in 1 .. Len(flat) : long[x] = flat[x]
        /\ \A x \in 1 .. Len(s[k + 1]) : long[Len(flat) + x] = s[k + 1][x]
    BY <1>1
  <1> HIDE DEF long
  <1>3. /\ next \in [1 .. (k + 1) + 1 -> Nat] /\ next[k + 2] = Len(flat) + Len(s[k + 1])
        /\ \A i \in 1 .. k + 1 : next[i] = off[i]
    <2>1. \A i \in 1 .. k + 2 : i # k + 2 => i \in 1 .. k + 1
      OBVIOUS
    <2>2. Len(flat) + Len(s[k + 1]) \in Nat
      BY <1>2
    <2>3. (k + 1) + 1 = k + 2 /\ k + 2 \in 1 .. k + 2
      OBVIOUS
    <2>4. \A i \in 1 .. k + 1 : i \in 1 .. k + 2 /\ i # k + 2
      OBVIOUS
    <2> QED BY <1>1, <2>1, <2>2, <2>3, <2>4
  <1> HIDE DEF next
  <1>4. ASSUME NEW i \in 1 .. k + 1
        PROVE  /\ s[i] \in Seq(S) /\ next[i + 1] = next[i] + Len(s[i])
               /\ \A x \in 1 .. Len(s[i]) : long[next[i] + x] = s[i][x]
    <2>1. CASE i = k + 1
      <3>1. next[i] = Len(flat) /\ next[i + 1] = Len(flat) + Len(s[k + 1])
        <4>1. k + 1 \in 1 .. k + 1 /\ (k + 1) + 1 = k + 2
          OBVIOUS
        <4> QED BY <1>1, <1>3, <2>1, <4>1
      <3> QED BY <1>2, <2>1, <3>1
    <2>2. CASE i # k + 1
      <3>1. i \in 1 .. k /\ i + 1 \in 1 .. k + 1 /\ i \in 1 .. k + 1
        BY <2>2
      <3>2. s[i] \in Seq(S) /\ off[i + 1] = off[i] + Len(s[i])
        BY <1>1, <3>1
      <3>3. off[i] \in Nat /\ off[i + 1] \in Nat /\ Len(s[i]) \in Nat
        BY <1>1, <3>1, <3>2
      <3>4. off[i + 1] <= Len(flat)
        <4>1. \A j \in 1 .. k : j \in 1 .. k + 1 /\ j + 1 \in 1 .. k + 1
          OBVIOUS
        <4>2. \A j \in 1 .. k : off[j] <= off[j + 1]
          <5>1. TAKE j \in 1 .. k
          <5>2. off[j] \in Nat /\ off[j + 1] = off[j] + Len(s[j]) /\ s[j] \in Seq(S)
            BY <1>1, <4>1
          <5>3. Len(s[j]) \in Nat
            BY <5>2
          <5> QED BY <5>2, <5>3
        <4>3. k # 0
          BY <3>1
        <4>4. Stairs(off, k)
          BY <1>1, <4>2, <4>3 DEF Stairs
        <4>5. k + 1 \in 1 .. k + 1 /\ i + 1 <= k + 1
          BY <3>1
        <4>6. off[i + 1] <= off[k + 1]
          BY <3>1, <4>4, <4>5, StairsRise
        <4> QED BY <1>1, <4>6
      <3>5. ASSUME NEW x \in 1 .. Len(s[i]) PROVE long[next[i] + x] = s[i][x]
        <4>1. off[i] + x \in 1 .. Len(flat)
          BY <1>2, <3>2, <3>3, <3>4, SMTT(30)
        <4> QED BY <1>1, <1>2, <1>3, <3>1, <4>1
      <3> QED BY <1>3, <3>1, <3>2, <3>5
    <2> QED BY <2>1, <2>2
  <1>5. next[1] = 0 /\ next[(k + 1) + 1] = Len(long)
    <2>1. 1 \in 1 .. k + 1 /\ (k + 1) + 1 = k + 2
      OBVIOUS
    <2> QED BY <1>1, <1>2, <1>3, <2>1
  <1>6. RunsThrough(S, s, k + 1, long, next)
    BY <1>2, <1>3, <1>4, <1>5 DEF RunsThrough
  <1> QED BY <1>6 DEF long

\* The equation that the sequences put together one after the other solve.
FlatOf(s, e) == [i \in 1 .. Len(s) |-> IF i = 1 THEN s[i] ELSE e[i - 1] \o s[i]]

\* The flattened beginnings of a sequence of sequences exist.
LEMMA FlatExists ==
    ASSUME NEW S, NEW s \in Seq(Seq(S))
    PROVE  \E e : e = FlatOf(s, e)
  <1> DEFINE N == Len(s)
             D == 1 .. N
             h == [i \in D |-> i]
             G == [i \in D |-> [f \in [D -> Seq(S)] |-> IF i = 1 THEN s[i] ELSE f[i - 1] \o s[i]]]
  <1>1. N \in Nat /\ (\A i \in D : i # 1 => i - 1 \in D) /\ (\A i \in D : s[i] \in Seq(S))
    OBVIOUS
  <1>2. h \in [D -> 0 .. N] /\ << >> \in Seq(S)
    OBVIOUS
  <1>3. G \in [D -> [[D -> Seq(S)] -> Seq(S)]]
    <2>1. \A a, b \in Seq(S) : a \o b \in Seq(S)
      OBVIOUS
    <2> HIDE DEF D
    <2> QED BY <1>1, <2>1
  <1>4. \A p \in D : \A f, g \in [D -> Seq(S)] :
           (\A q \in D : h[q] < h[p] => f[q] = g[q]) => G[p][f] = G[p][g]
    <2>1. \A p \in D : p # 1 => p - 1 \in D /\ h[p - 1] < h[p]
      OBVIOUS
    <2> QED BY <2>1
  <1>5. Recursive(D, Seq(S), N, h, G)
    <2> HIDE DEF G, h, D, N
    <2> QED BY <1>1, <1>2, <1>3, <1>4 DEF Recursive
  <1>6. PICK e : Solves(D, Seq(S), G, e)
    <2> HIDE DEF D, h, G, N
    <2> QED BY <1>5, RecursionExists
  <1>7. e = FlatOf(s, e)
    BY <1>6 DEF Solves, FlatOf
  <1> QED BY <1>7

\* SequencesExt's FlattenSeq runs through its sequences in order.
LEMMA FlattenIs ==
    ASSUME NEW S, NEW s \in Seq(Seq(S))
    PROVE  \E off : RunsThrough(S, s, Len(s), FlattenSeq(s), off)
  <1> DEFINE N == Len(s)
             e == CHOOSE x : x = FlatOf(s, x)
             Done(i) == \E off : RunsThrough(S, s, i, e[i], off)
             T == {i \in 1 .. N : ~Done(i)}
  <1>1. N \in Nat /\ \A i \in 1 .. N : s[i] \in Seq(S)
    OBVIOUS
  <1>2. CASE N = 0
    <2>1. FlattenSeq(s) = s /\ s = << >>
      BY <1>2 DEF FlattenSeq
    <2> DEFINE off == [i \in 1 .. 0 + 1 |-> 0]
    <2>2. off \in [1 .. 0 + 1 -> Nat] /\ off[1] = 0 /\ off[0 + 1] = 0 /\ 1 .. 0 = {}
      OBVIOUS
    <2> HIDE DEF off
    <2>3. s \in Seq(S) /\ Len(s) = 0
      BY <2>1
    <2>4. RunsThrough(S, s, 0, s, off)
      BY <2>2, <2>3 DEF RunsThrough
    <2> QED BY <1>2, <2>1, <2>4
  <1>3. CASE N # 0
    <2>1. FlattenSeq(s) = e[N]
      BY <1>3 DEF FlattenSeq, FlatOf
    <2>2. e = FlatOf(s, e)
      BY FlatExists
    <2> HIDE DEF e
    <2>3. \A i \in 1 .. N : e[i] = IF i = 1 THEN s[i] ELSE e[i - 1] \o s[i]
      BY <2>2 DEF FlatOf
    <2> HIDE DEF N
    <2>4. T = {}
      <3>1. SUFFICES ASSUME T # {} PROVE FALSE
        OBVIOUS
      <3>2. PICK i \in T : \A j \in T : i <= j
        <4>1. T \subseteq Nat
          OBVIOUS
        <4> HIDE DEF T
        <4> QED BY <3>1, <4>1, LeastOf
      <3>3. i \in 1 .. N /\ ~Done(i) /\ i \in Nat
        BY <3>2
      <3>4. CASE i = 1
        <4> DEFINE off == [j \in 1 .. 1 + 1 |-> IF j = 1 THEN 0 ELSE Len(s[1])]
        <4>1. e[1] = s[1] /\ s[1] \in Seq(S)
          BY <1>1, <2>3, <3>3, <3>4
        <4>2. Len(s[1]) \in Nat
          BY <4>1
        <4>3. off \in [1 .. 1 + 1 -> Nat] /\ off[1] = 0 /\ off[1 + 1] = Len(s[1])
          BY <4>2
        <4> HIDE DEF off
        <4>4. \A j \in 1 .. 1 : j = 1
          OBVIOUS
        <4>5. \A x \in 1 .. Len(s[1]) : 0 + x = x
          OBVIOUS
        <4>6. RunsThrough(S, s, 1, s[1], off)
          BY <4>1, <4>2, <4>3, <4>4, <4>5 DEF RunsThrough
        <4> QED BY <3>3, <3>4, <4>1, <4>6
      <3>5. CASE i # 1
        <4>1. i - 1 \in 1 .. N /\ i - 1 \in Nat /\ ~(i <= i - 1) /\ (i - 1) + 1 = i
          BY <1>1, <3>3, <3>5
        <4>2. Done(i - 1)
          <5>1. i - 1 \notin T
            <6> HIDE DEF T
            <6> QED BY <3>2, <4>1
          <5> HIDE DEF Done
          <5> QED BY <4>1, <5>1
        <4>3. PICK off : RunsThrough(S, s, i - 1, e[i - 1], off)
          BY <4>2
        <4>4. s[(i - 1) + 1] \in Seq(S)
          BY <1>1, <3>3, <4>1
        <4>5. \E next : RunsThrough(S, s, (i - 1) + 1, e[i - 1] \o s[(i - 1) + 1], next)
          BY ONLY <4>1, <4>3, <4>4, RunsOn
        <4>6. e[i] = e[i - 1] \o s[i]
          BY <2>3, <3>3, <3>5
        <4> QED BY <3>3, <4>1, <4>5, <4>6
      <3> QED BY <3>4, <3>5
    <2>5. Done(N)
      <3>1. N \in 1 .. N
        BY <1>1, <1>3
      <3> HIDE DEF Done
      <3> QED BY <2>4, <3>1
    <2> QED BY <2>1, <2>5 DEF N
  <1> QED BY <1>2, <1>3

--------------------------------------------------------------------------------
(* The inductive invariant. *)

\* What a cell of a page may take: t says that the tree is a table.
CellFits(t, leaf, c) ==
    IF ~t THEN c.sz <= U \div 4 ELSE IF leaf THEN c.sz <= U ELSE c.sz = DIVIDER /\ c.ovf = << >>
Shapes(t, nd) == \A p \in DOMAIN nd : \A j \in 1 .. Len(nd[p].cell) : CellFits(t, nd[p].leaf, nd[p].cell[j])

\* The pages form one tree of equally deep leaves; each is referred to once, and
\* so is each overflow page; the file has no other pages in use.
TreeIn(t, nd, f) ==
    Nodes(nd) /\ Shapes(t, nd) /\ Levelled(nd) /\ OneParent(nd) /\ Owned(nd, f)

EntryIn(t, nd, path) ==
    /\ IsPath(nd, path)
    /\ Last(path).ix \in 1 .. Len(nd[Last(path).pg].cell)
    /\ t => nd[Last(path).pg].leaf

KeptIn(t, c) ==
    /\ c \in CursorType
    /\ c.state = "REQUIRESEEK" \/ c.valid => c.key \in Keys
    /\ c.valid => c.state \in {"VALID", "SKIPNEXT"} /\ t
    /\ c.state \in {"INVALID", "REQUIRESEEK"} => c.path = << >>
SoundIn(t, nd, c) ==
    KeptIn(t, c) /\ (c.state \in {"VALID", "SKIPNEXT"} => EntryIn(t, nd, c.path))

\* Between calls every cursor is on an entry or knows the key to seek; while
\* pages are balanced all others are saved and w has the way to a page.
CursorsIn(t, nd, cu, o) ==
    /\ cu \in [Cursors -> CursorType]
    /\ o = Idle => \A c \in Cursors : SoundIn(t, nd, cu[c])
    /\ o # Idle =>
          /\ \A c \in Cursors : c # w => KeptIn(t, cu[c]) /\ cu[c].state \in {"INVALID", "REQUIRESEEK"}
          /\ ~cu[w].valid /\ IsPath(nd, cu[w].path)

Inserts == [kind : {"insert"}, key : Keys, save : BOOLEAN, at : Nat \ {0}]
Deletes == [kind : {"delete"}, key : Keys, save : BOOLEAN, at : Nat \ {0},
            depth : Nat \ {0}, skipnext : BOOLEAN]

Fits(n) == Taken(n.cell) <= U
IdleFits(nd) == \A p \in DOMAIN nd : Fits(nd[p]) /\ (nd[p].cell = << >> => p = ROOT /\ nd[p].leaf)

PageOn(nd, path, i) == nd[path[i].pg]

\* Away from the way of w every page fits and has cells.  On it only the last
\* may be too full, and the page of a deleted entry; one above the last may be
\* empty when it is a root whose cells have just gone to the page below it.
OffWay(nd, path) ==
    \A p \in DOMAIN nd : (\A i \in 1 .. Len(path) : path[i].pg # p) => Fits(nd[p]) /\ nd[p].cell # << >>
UpWay(nd, path, o) ==
    \A i \in 1 .. Len(path) - 1 :
       /\ Fits(PageOn(nd, path, i)) \/ (o.kind = "delete" /\ i = o.depth)
       /\ PageOn(nd, path, i).cell = << >> => Len(path) = 2 /\ ~Fits(PageOn(nd, path, Len(path)))
HereFits(n, len, o) ==
    /\ len = 1 /\ ~n.leaf => n.cell # << >>
    /\ o.kind = "insert" /\ n.leaf =>
          /\ ~Fits(n) /\ o.at \in 1 .. Len(n.cell)
          /\ Taken(n.cell) - n.cell[o.at].sz <= U
    /\ o.kind = "delete" /\ n.leaf => Fits(n)
    /\ o.kind = "delete" /\ o.skipnext =>
          /\ n.leaf /\ U - Taken(n.cell) <= nMin /\ len = o.depth
          /\ o.at \in 1 .. Len(n.cell) + 1
BusyFits(nd, path, o) ==
    OffWay(nd, path) /\ UpWay(nd, path, o) /\ HereFits(PageOn(nd, path, Len(path)), Len(path), o)

BtreeInv ==
    /\ scene \in Scenes /\ writes \in 0 .. scene.writes
    /\ TreeIn(intkey, node, file)
    /\ op \in {Idle} \cup Inserts \cup Deletes
    /\ CursorsIn(intkey, node, cur, op)
    /\ IF op = Idle THEN IdleFits(node) ELSE BusyFits(node, cur[w].path, op)

--------------------------------------------------------------------------------
\* The scenes are as the constants say.
LEMMA SceneIs ==
    ASSUME scene \in Scenes
    PROVE  /\ intkey \in BOOLEAN /\ scene.keys \subseteq Keys /\ scene.writes \in Nat
           /\ \A row \in scene.rows : /\ row.sz \in 1 .. (IF intkey THEN U ELSE U \div 4)
                                      /\ row.ov \in Nat
  BY BtreeAssumption DEF intkey

\* A page and its size.
LEMMA UIs == U \in Nat /\ U >= 4 /\ nMin \in Nat /\ nMin < U /\ U \div 4 \in Nat /\ U \div 4 <= U /\ U \div 4 >= 1
  BY PagesAssumption DEF nMin

\* A cursor is sound in the sense of the reading lemmas.
LEMMA SoundInIs ==
    ASSUME Nodes(node), NEW c
    PROVE  Sound(c) <=> SoundIn(intkey, node, c)
  <1>1. Kept(c) <=> KeptIn(intkey, c)
    BY DEF Kept, KeptIn
  <1>2. ASSUME NEW path, IsPath(node, path)
        PROVE  DOMAIN node[Last(path).pg].cell = 1 .. Len(node[Last(path).pg].cell)
    <2>1. Last(path).pg \in DOMAIN node
      BY <1>2, WayLast DEF IsPath
    <2> QED BY <2>1, NodeIs
  <1>3. OnEntry(c.path) <=> EntryIn(intkey, node, c.path)
    BY <1>2 DEF OnEntry, EntryIn
  <1> QED BY <1>1, <1>3 DEF Sound, SoundIn, OnTree

\* A running insert or delete is not idle.
LEMMA OpNotIdle == \A o \in Inserts \cup Deletes : o # Idle /\ o.kind # "none"
  BY DEF Inserts, Deletes, Idle

\* Between calls the tree can be read and all cursors are sound.
LEMMA IdleIs ==
    ASSUME BtreeInv, op = Idle
    PROVE  /\ Readable /\ \A c \in Cursors : Sound(cur[c])
           /\ cur \in [Cursors -> CursorType] /\ IdleFits(node)
           /\ Nodes(node) /\ intkey \in BOOLEAN
  <1>1. scene \in Scenes /\ TreeIn(intkey, node, file) /\ CursorsIn(intkey, node, cur, op) /\ IdleFits(node)
    BY DEF BtreeInv
  <1>2. Nodes(node) /\ Levelled(node)
    BY <1>1 DEF TreeIn
  <1>3. Stocked
    BY <1>1 DEF IdleFits, Stocked
  <1>4. intkey \in BOOLEAN
    BY <1>1, SceneIs
  <1>5. cur \in [Cursors -> CursorType] /\ \A c \in Cursors : SoundIn(intkey, node, cur[c])
    BY <1>1 DEF CursorsIn
  <1> QED BY <1>1, <1>2, <1>3, <1>4, <1>5, SoundInIs DEF Readable

\* The pages of an empty tree.
LEMMA EmptyTree ==
    ASSUME NEW nd, nd = [pg \in {ROOT} |-> Leaf(<< >>)], NEW t, NEW f, FileOK(f), Used(f) = {}
    PROVE  TreeIn(t, nd, f) /\ IdleFits(nd)
  <1>1. DOMAIN nd = {ROOT} /\ nd[ROOT] = Leaf(<< >>) /\ nd = [p \in {ROOT} |-> Leaf(<< >>)]
    OBVIOUS
  <1>2. Leaf(<< >>).leaf = TRUE /\ Leaf(<< >>).cell = << >> /\ Len(Leaf(<< >>).cell) = 0
    BY DEF Leaf
  <1>3. Leaf(<< >>) \in NodeType
    <2>1. << >> \in Seq(CellType) /\ 0 \in Nat /\ TRUE \in BOOLEAN
      OBVIOUS
    <2> QED BY <2>1 DEF Leaf, NodeType
  <1>4. Nodes(nd)
    BY <1>1, <1>3 DEF Nodes, ROOT
  <1>5. Shapes(t, nd)
    BY <1>1, <1>2 DEF Shapes
  <1>6. Levelled(nd)
    <2> DEFINE h == [p \in DOMAIN nd |-> 0]
    <2>1. Levels(nd, h, 0)
      BY <1>1, <1>2 DEF Levels
    <2> QED BY <2>1 DEF Levelled
  <1>7. CellSpots(nd) = {} /\ KidSpots(nd) = {}
    BY <1>1, <1>2 DEF CellSpots, KidSpots
  <1>8. OneParent(nd)
    BY <1>1, <1>7 DEF OneParent
  <1>9. OvfPages(nd) = {} /\ OneChain(nd)
    BY <1>7 DEF OvfPages, OvfOf, OneChain, OnceIn
  <1>10. Owned(nd, f)
    BY <1>1, <1>9 DEF Owned
  <1>11. IdleFits(nd)
    <2>1. << >> \in Seq(CellType) /\ Sizes(<< >>) = << >>
      BY DEF Sizes
    <2>2. Taken(<< >>) = 0
      <3>1. 0 \in 0 .. Len(<< >>) /\ Len(<< >>) = 0
        OBVIOUS
      <3> QED BY <2>1, <3>1, TakenParts, HeldNone
    <2> QED BY <1>1, <1>2, <2>2, UIs DEF IdleFits, Fits
  <1> QED BY <1>4, <1>5, <1>6, <1>8, <1>10, <1>11 DEF TreeIn

\* A new file has no pages in use but the first two.
LEMMA EmptyFileIs == FileOK(EmptyFile) /\ Used(EmptyFile) = {}
  <1>1. EmptyFile \in FileType /\ EmptyFile.nPage = 2 /\ EmptyFile.trunk = << >>
    BY DEF EmptyFile, FileType
  <1>2. Spots(EmptyFile) = {}
    BY <1>1 DEF Spots
  <1> QED BY <1>1, <1>2 DEF FileOK, Used, FreePages

\* The invariant holds initially.
LEMMA InvInit == BtreeInit => BtreeInv
  <1> SUFFICES ASSUME BtreeInit PROVE BtreeInv
    OBVIOUS
  <1>1. /\ scene \in Scenes /\ writes = 0 /\ node = [pg \in {ROOT} |-> Leaf(<< >>)] /\ file = EmptyFile
        /\ cur = [c \in Cursors |-> Nowhere] /\ op = Idle
    BY DEF BtreeInit
  <1>2. writes \in 0 .. scene.writes
    BY <1>1, SceneIs
  <1>3. TreeIn(intkey, node, file) /\ IdleFits(node)
    BY <1>1, EmptyTree, EmptyFileIs
  <1>4. Nodes(node)
    BY <1>3 DEF TreeIn
  <1>5. Nowhere \in CursorType /\ SoundIn(intkey, node, Nowhere)
    BY <1>4, NowhereIs, SoundInIs DEF Sound, Kept
  <1>6. CursorsIn(intkey, node, cur, op)
    BY <1>1, <1>5 DEF CursorsIn
  <1> QED BY <1>1, <1>2, <1>3, <1>6 DEF BtreeInv

\* A call that only reads keeps the invariant.
LEMMA ReadKeeps ==
    ASSUME BtreeInv, Read
    PROVE  BtreeInv'
  <1>0. op = Idle
    BY DEF Read, sqlite3BtreeFirst, sqlite3BtreeLast, sqlite3BtreeNext, sqlite3BtreePrevious,
           sqlite3BtreeIntegerKey, sqlite3BtreeCursorRestore, sqlite3BtreeMoveto, Move
  <1>1. /\ Readable /\ \A c \in Cursors : Sound(cur[c])
        /\ cur \in [Cursors -> CursorType] /\ IdleFits(node) /\ Nodes(node)
    BY <1>0, IdleIs
  <1>2. scene \in Scenes /\ scene.keys \subseteq Keys
    BY SceneIs DEF BtreeInv
  <1>3. /\ UNCHANGED <<scene, writes, node, file, op>>
        /\ \E c \in Cursors : \E to : Sound(to) /\ cur' = [cur EXCEPT ![c] = to]
    BY <1>1, <1>2, ReadIs
  <1>10. PICK c \in Cursors : \E to : Sound(to) /\ cur' = [cur EXCEPT ![c] = to]
    BY <1>3
  <1>4. PICK to : Sound(to) /\ cur' = [cur EXCEPT ![c] = to]
    BY <1>10
  <1>5. to \in CursorType /\ SoundIn(intkey, node, to)
    BY <1>1, <1>4, SoundInIs DEF Sound, Kept
  <1>6. \A d \in Cursors : SoundIn(intkey, node, cur[d])
    BY <1>1, SoundInIs
  <1>7. CursorsIn(intkey, node, cur', op)
    BY <1>0, <1>1, <1>4, <1>5, <1>6 DEF CursorsIn
  <1>8. intkey' = intkey
    BY <1>3 DEF intkey
  <1> QED BY <1>0, <1>3, <1>7, <1>8 DEF BtreeInv

\* A way goes on through pages that stay as they are.
LEMMA WayKept ==
    ASSUME NEW nd, NEW g, NEW way, NEW pg, IsWay(nd, way, pg),
           \A i \in 1 .. Len(way) : way[i].pg \in DOMAIN g,
           \A i \in 1 .. Len(way) - 1 : g[way[i].pg] = nd[way[i].pg]
    PROVE  IsWay(g, way, pg)
  BY DEF IsWay

\* Nothing is freed, nothing is taken.
LEMMA FreeNone ==
    ASSUME NEW f \in FileType
    PROVE  FreeMany(f, << >>) = f
  <1> DEFINE freed == CHOOSE g : g = FreedOf(f, << >>, g)
  <1>1. FreeMany(f, << >>) = freed[0]
    BY DEF FreeMany, FreedOf
  <1>2. freed = FreedOf(f, << >>, freed)
    <2>1. << >> \in Seq(Nat)
      OBVIOUS
    <2> QED BY <2>1, FreedExists
  <1> HIDE DEF freed
  <1>3. freed[0] = FreedOf(f, << >>, freed)[0]
    BY <1>2
  <1>4. 0 \in 0 .. Len(<< >>)
    OBVIOUS
  <1> QED BY <1>1, <1>3, <1>4 DEF FreedOf

\* Taking no pages.
LEMMA TakenNone ==
    ASSUME NEW f, FileOK(f)
    PROVE  Taken1(f, [pgs |-> << >>, file |-> f], 0)
  BY DEF Taken1

\* The pages a sequence lists.
Pages(s) == {s[i] : i \in 1 .. Len(s)}

\* One cell goes with its chain, or is written with a new one.
LEMMA Rewritten ==
    ASSUME NEW nd, NEW g, Nodes(nd), Nodes(g), DOMAIN g = DOMAIN nd, NEW f, Owned(nd, f),
           NEW d, NEW e, NEW at, Moves(nd, CellSpots(nd) \ {d}, g, CellSpots(g) \ {e}, at),
           NEW old, old \in Seq(Nat),
           d \in CellSpots(nd) => old = OvfAt(nd, d), d \notin CellSpots(nd) => old = << >>,
           NEW m, NEW n \in Nat, Taken1(f, m, n),
           e \in CellSpots(g) => OvfAt(g, e) = m.pgs, e \notin CellSpots(g) => n = 0
    PROVE  Owned(g, FreeMany(m.file, old))
  <1> DEFINE S == CellSpots(nd) \ {d}
             V == CellSpots(g) \ {e}
             Q == OvfOf(nd, S)
             new == m.pgs
  <1>1. /\ FileOK(f) /\ OneChain(nd) /\ DOMAIN nd \cap OvfPages(nd) = {}
        /\ Used(f) = (DOMAIN nd \ {ROOT}) \cup OvfPages(nd)
    BY DEF Owned
  <1>2. /\ FileOK(m.file) /\ new \in Seq(Nat) /\ Len(new) = n
        /\ \A i \in 1 .. n : new[i] >= 3 /\ new[i] \notin Used(f)
        /\ \A i, j \in 1 .. n : new[i] = new[j] => i = j
        /\ Used(m.file) = Used(f) \cup Pages(new)
    BY DEF Taken1, Pages
  <1>3. \A s, v \in CellSpots(nd) : \A a \in 1 .. Len(OvfAt(nd, s)), b \in 1 .. Len(OvfAt(nd, v)) :
           OvfAt(nd, s)[a] = OvfAt(nd, v)[b] => s = v /\ a = b
    BY <1>1 DEF OneChain, OnceIn
  <1>4. OnceIn(g, V) /\ OvfOf(g, V) = Q
    <2>1. OnceIn(nd, S)
      BY <1>3 DEF OnceIn
    <2> HIDE DEF S, V
    <2> QED BY <2>1, ChainsMove DEF S, V
  <1>5. \A x : x \in Q <=> x \in Nat /\ \E s \in S : \E a \in 1 .. Len(OvfAt(nd, s)) : x = OvfAt(nd, s)[a]
    BY DEF OvfOf
  <1>6. \A x : x \in OvfPages(nd) <=> x \in Nat /\ \E s \in CellSpots(nd) :
                                          \E a \in 1 .. Len(OvfAt(nd, s)) : x = OvfAt(nd, s)[a]
    BY DEF OvfPages, OvfOf
  <1>7. \A x : x \in Pages(old) <=> \E a \in 1 .. Len(old) : x = old[a]
    BY DEF Pages
  <1>8. \A a \in 1 .. Len(old) : old[a] \in Nat /\ d \in CellSpots(nd) /\ old = OvfAt(nd, d)
    <2>1. Len(<< >>) = 0
      OBVIOUS
    <2> QED BY <2>1
  <1>9. OvfPages(nd) = Q \cup Pages(old)
    <2>1. ASSUME NEW x \in OvfPages(nd) PROVE x \in Q \cup Pages(old)
      <3>1. x \in Nat
        BY <1>6
      <3>2. PICK s \in CellSpots(nd) : \E a \in 1 .. Len(OvfAt(nd, s)) : x = OvfAt(nd, s)[a]
        BY <1>6
      <3> QED BY <1>5, <1>7, <3>1, <3>2
    <2>2. \A x \in Q : x \in OvfPages(nd)
      BY <1>5, <1>6
    <2>3. \A x \in Pages(old) : x \in OvfPages(nd)
      BY <1>6, <1>7, <1>8
    <2> HIDE DEF Q
    <2> QED BY <2>1, <2>2, <2>3
  <1>10. Q \cap Pages(old) = {}
    <2>1. SUFFICES ASSUME NEW x \in Q, x \in Pages(old) PROVE FALSE
      OBVIOUS
    <2>2. PICK s \in S : \E a \in 1 .. Len(OvfAt(nd, s)) : x = OvfAt(nd, s)[a]
      BY <1>5
    <2>3. PICK b \in 1 .. Len(old) : x = old[b]
      BY <1>7, <2>1
    <2> QED BY <1>3, <1>8, <2>2, <2>3
  <1>11. \A i, j \in 1 .. Len(old) : old[i] = old[j] => i = j
    BY <1>3, <1>8
  <1>12. \A x : x \in Pages(new) <=> \E a \in 1 .. n : x = new[a]
    BY <1>2 DEF Pages
  <1>13. \A x \in Pages(new) : x \notin Used(f) /\ x # ROOT /\ x \in Nat
    <2>1. \A i \in 1 .. n : new[i] \in Nat
      BY <1>2
    <2> QED BY <1>2, <1>12, <2>1 DEF ROOT
  <1>14. (e \in CellSpots(g) /\ OvfAt(g, e) = new) \/ (e \notin CellSpots(g) /\ Pages(new) = {})
    <2>1. n = 0 => Pages(new) = {}
      BY <1>12
    <2> QED BY <2>1
  <1>15. OvfPages(g) = Q \cup Pages(new)
    <2>1. \A x : x \in OvfPages(g) <=> x \in Nat /\ \E s \in CellSpots(g) :
                                          \E a \in 1 .. Len(OvfAt(g, s)) : x = OvfAt(g, s)[a]
      BY DEF OvfPages, OvfOf
    <2>2. \A x : x \in Q <=> x \in Nat /\ \E s \in V : \E a \in 1 .. Len(OvfAt(g, s)) : x = OvfAt(g, s)[a]
      BY <1>4 DEF OvfOf
    <2>3. \A x : x \in Pages(new) <=> \E a \in 1 .. Len(new) : x = new[a]
      BY DEF Pages
    <2> HIDE DEF Q
    <2>4. \A x \in OvfPages(g) : x \in Q \/ x \in Pages(new)
      <3>1. TAKE x \in OvfPages(g)
      <3>2. PICK s \in CellSpots(g) : \E a \in 1 .. Len(OvfAt(g, s)) : x = OvfAt(g, s)[a]
        BY <2>1
      <3>3. CASE s = e
        BY <1>14, <2>3, <3>2, <3>3
      <3>4. CASE s # e
        BY <2>1, <2>2, <3>2, <3>4
      <3> QED BY <3>3, <3>4
    <2>5. \A x \in Q : x \in OvfPages(g)
      BY <2>1, <2>2
    <2>6. \A x \in Pages(new) : x \in OvfPages(g)
      <3>1. TAKE x \in Pages(new)
      <3>2. e \in CellSpots(g) /\ OvfAt(g, e) = new
        BY <1>14
      <3> QED BY <1>13, <2>1, <2>3, <3>2
    <2> QED BY <2>4, <2>5, <2>6
  <1>16. OneChain(g)
    <2>1. SUFFICES ASSUME NEW s \in CellSpots(g), NEW v \in CellSpots(g),
                          NEW a \in 1 .. Len(OvfAt(g, s)), NEW b \in 1 .. Len(OvfAt(g, v)),
                          OvfAt(g, s)[a] = OvfAt(g, v)[b]
                   PROVE  s = v /\ a = b
      BY DEF OneChain, OnceIn
    <2>2. \A u \in CellSpots(g) : \A c \in 1 .. Len(OvfAt(g, u)) :
             /\ u # e => OvfAt(g, u)[c] \in Q
             /\ u = e => OvfAt(g, u)[c] \in Pages(new)
      <3>1. TAKE u \in CellSpots(g)
      <3>2. TAKE c \in 1 .. Len(OvfAt(g, u))
      <3>3. OvfAt(g, u) \in Seq(Nat)
        BY CellSpotType
      <3>4. OvfAt(g, u)[c] \in Nat
        BY <3>3, SMTT(30)
      <3>5. u # e => OvfAt(g, u)[c] \in OvfOf(g, V)
        BY <3>4 DEF OvfOf
      <3>6. u = e => OvfAt(g, u)[c] \in Pages(new)
        BY <1>14 DEF Pages
      <3> QED BY <1>4, <3>5, <3>6
    <2>3. Q \cap Pages(new) = {}
      BY <1>1, <1>9, <1>13
    <2>4. CASE s = e /\ v = e
      BY <1>2, <1>14, <2>1, <2>4
    <2>5. CASE s # e /\ v # e
      BY <1>4, <2>1, <2>5 DEF OnceIn
    <2>6. CASE (s = e /\ v # e) \/ (s # e /\ v = e)
      <3> HIDE DEF Q, new
      <3> QED BY <2>1, <2>2, <2>3, <2>6
    <2> QED BY <2>4, <2>5, <2>6
  <1>17. AreUsed(m.file, old)
    <2>1. \A a \in 1 .. Len(old) : old[a] \in Pages(old)
      BY <1>7
    <2>2. \A a \in 1 .. Len(old) : old[a] \in Used(m.file)
      BY <1>1, <1>2, <1>9, <2>1
    <2> QED BY <1>11, <2>2 DEF AreUsed
  <1>18. FileOK(FreeMany(m.file, old)) /\ Used(FreeMany(m.file, old)) = Used(m.file) \ Pages(old)
    BY <1>2, <1>17, ManyFreed DEF Pages
  <1>19. Pages(old) \cap DOMAIN nd = {} /\ Q \cap DOMAIN nd = {} /\ Pages(new) \cap DOMAIN nd = {}
         /\ Pages(new) \cap Pages(old) = {}
    <2>1. Pages(old) \cap DOMAIN nd = {} /\ Q \cap DOMAIN nd = {}
      BY <1>1, <1>9
    <2>2. \A x \in Pages(new) : x \notin DOMAIN nd /\ x \notin Pages(old)
      BY <1>1, <1>9, <1>13
    <2> QED BY <2>1, <2>2
  <1>20. Used(FreeMany(m.file, old)) = (DOMAIN g \ {ROOT}) \cup OvfPages(g)
    <2> HIDE DEF Q, new
    <2>1. Used(m.file) \ Pages(old) = (DOMAIN nd \ {ROOT}) \cup Q \cup Pages(new)
      BY <1>1, <1>2, <1>9, <1>10, <1>19
    <2> QED BY <1>15, <1>18, <2>1
  <1>21. DOMAIN g \cap OvfPages(g) = {}
    BY <1>15, <1>19
  <1> QED BY <1>16, <1>18, <1>20, <1>21 DEF Owned

\* g is nd with other cells on one page.
CellsOf(nd, pg, cells, g) ==
    /\ pg \in DOMAIN nd /\ cells \in Seq(CellType) /\ g = [nd EXCEPT ![pg].cell = cells]

\* Writing the cells of one page.
LEMMA CellsOfIs ==
    ASSUME NEW nd, Nodes(nd), NEW pg, NEW cells, NEW g, CellsOf(nd, pg, cells, g)
    PROVE  /\ Nodes(g) /\ DOMAIN g = DOMAIN nd /\ g[pg].cell = cells
           /\ g[pg].leaf = nd[pg].leaf /\ (g[pg].leaf <=> nd[pg].leaf) /\ g[pg].right = nd[pg].right
           /\ \A p \in DOMAIN nd : p # pg => g[p] = nd[p]
  <1>1. /\ pg \in DOMAIN nd /\ cells \in Seq(CellType) /\ g = [nd EXCEPT ![pg].cell = cells]
        /\ nd \in [DOMAIN nd -> NodeType] /\ DOMAIN nd \subseteq Nat /\ ROOT \in DOMAIN nd
    BY DEF CellsOf, Nodes
  <1>2. nd[pg] \in NodeType
    BY <1>1
  <1>3. /\ DOMAIN g = DOMAIN nd /\ g[pg] = [nd[pg] EXCEPT !.cell = cells]
        /\ \A p \in DOMAIN nd : p # pg => g[p] = nd[p]
    BY <1>1
  <1>4. /\ g[pg].cell = cells /\ g[pg].leaf = nd[pg].leaf /\ g[pg].right = nd[pg].right
        /\ g[pg] \in NodeType
    BY <1>1, <1>2, <1>3 DEF NodeType
  <1>5. \A p \in DOMAIN nd : g[p] \in NodeType
    BY <1>1, <1>3, <1>4
  <1>6. g = [p \in DOMAIN nd |-> g[p]]
    BY <1>1
  <1>7. g \in [DOMAIN g -> NodeType]
    BY <1>3, <1>5, <1>6
  <1>8. g[pg].leaf <=> nd[pg].leaf
    BY <1>4
  <1> QED BY <1>1, <1>3, <1>4, <1>7, <1>8 DEF Nodes

\* A cell is put on a leaf with the pages taken for its chain.
LEMMA CellPut ==
    ASSUME NEW t, NEW nd, NEW f, TreeIn(t, nd, f), NEW pg \in DOMAIN nd, nd[pg].leaf,
           NEW ix \in 1 .. Len(nd[pg].cell) + 1, NEW c \in CellType, CellFits(t, TRUE, c),
           NEW m, NEW n \in Nat, Taken1(f, m, n), c.ovf = m.pgs,
           NEW g, CellsOf(nd, pg, InsertAt(nd[pg].cell, ix, c), g)
    PROVE  TreeIn(t, g, m.file)
  <1> DEFINE cells == nd[pg].cell
             more == InsertAt(cells, ix, c)
             len == Len(cells)
  <1>1. Nodes(nd) /\ Shapes(t, nd) /\ Levelled(nd) /\ OneParent(nd) /\ Owned(nd, f)
    BY DEF TreeIn
  <1>2. /\ cells \in Seq(CellType) /\ len \in Nat /\ pg \in Nat
    BY <1>1, NodeIs
  <1>0. CellsOf(nd, pg, more, g)
    OBVIOUS
  <1>3. /\ Nodes(g) /\ DOMAIN g = DOMAIN nd /\ g[pg].cell = more /\ g[pg].leaf = nd[pg].leaf
        /\ \A p \in DOMAIN nd : p # pg => g[p] = nd[p]
    <2>0. Nodes(nd)
      BY <1>1
    <2> HIDE DEF more, len
    <2>1. Nodes(g)
      BY <1>0, <2>0, CellsOfIs
    <2>2. DOMAIN g = DOMAIN nd
      BY <1>0, <2>0, CellsOfIs
    <2>3. g[pg].cell = more
      BY <1>0, <2>0, CellsOfIs
    <2>4. g[pg].leaf <=> nd[pg].leaf
      BY <1>0, <2>0, CellsOfIs
    <2>6. g[pg].leaf = nd[pg].leaf
      BY <2>0, <2>1, <2>2, <2>4, NodeIs
    <2>5. \A p \in DOMAIN nd : p # pg => g[p] = nd[p]
      BY <1>0, <2>0, CellsOfIs
    <2> QED BY <2>1, <2>2, <2>3, <2>5, <2>6
  <1>4. /\ more \in Seq(CellType) /\ Len(more) = len + 1
        /\ \A j \in 1 .. len + 1 : more[j] = IF j < ix THEN cells[j] ELSE IF j = ix THEN c ELSE cells[j - 1]
    <2>1. IsInserted(more, cells, ix, c) /\ more \in Seq(CellType)
      BY <1>2, Inserted
    <2> QED BY <2>1 DEF IsInserted
  <1> HIDE DEF more
  <1>5. SameShape(nd, g)
    BY <1>3 DEF SameShape
  <1>6. Levelled(g) /\ OneParent(g)
    BY <1>1, <1>5, SameTree
  <1>7. Shapes(t, g)
    <2>1. ASSUME NEW p \in DOMAIN g, NEW j \in 1 .. Len(g[p].cell) PROVE CellFits(t, g[p].leaf, g[p].cell[j])
      <3>1. CASE p # pg
        BY <1>1, <1>3, <2>1, <3>1 DEF Shapes
      <3>2. CASE p = pg
        <4>1. j \in 1 .. len + 1 /\ g[p].leaf = TRUE /\ g[p].cell[j] = more[j]
          BY <1>1, <1>3, <1>4, <3>2, NodeIs
        <4>2. (j < ix => j \in 1 .. len) /\ (j > ix => j - 1 \in 1 .. len) /\ j \in Nat /\ ix \in Nat
          BY <1>2, <4>1
        <4>3. \A i \in 1 .. len : CellFits(t, TRUE, cells[i])
          BY <1>1, <1>3, <3>2, <4>1 DEF Shapes
        <4>4. CASE j < ix
          BY <1>4, <4>1, <4>2, <4>3, <4>4
        <4>5. CASE j = ix
          <5>1. more[ix] = c
            BY <1>2, <1>4
          <5> QED BY <4>1, <4>5, <5>1
        <4>6. CASE j > ix
          BY <1>4, <4>1, <4>2, <4>3, <4>6
        <4> QED BY <4>2, <4>4, <4>5, <4>6
      <3> QED BY <3>1, <3>2
    <2> QED BY <2>1 DEF Shapes
  <1> DEFINE e == <<pg, ix>>
             d == <<pg, 0>>
             V == CellSpots(g) \ {e}
             at == [v \in V |-> IF v[1] = pg /\ v[2] > ix THEN <<pg, v[2] - 1>> ELSE v]
  <1>8. d \notin CellSpots(nd) /\ e \in CellSpots(g) /\ OvfAt(g, e) = m.pgs
    <2>1. ix \in 1 .. Len(g[pg].cell)
      BY <1>2, <1>3, <1>4
    <2>2. e \in CellSpots(g) /\ OvfAt(g, e) = g[pg].cell[ix].ovf
      BY <1>3, <2>1, CellSpotMade
    <2>3. g[pg].cell[ix] = c
      BY <1>3, <1>4, <1>2
    <2>4. d[2] = 0
      OBVIOUS
    <2>5. d \notin CellSpots(nd)
      BY <2>4, CellSpotIs
    <2> QED BY <2>2, <2>3, <2>5
  <1>9. Moves(nd, CellSpots(nd) \ {d}, g, V, at)
    <2>1. ASSUME NEW v \in V
          PROVE  at[v] \in CellSpots(nd) /\ OvfAt(nd, at[v]) = OvfAt(g, v)
                 /\ v = (IF at[v][1] = pg /\ at[v][2] >= ix THEN <<pg, at[v][2] + 1>> ELSE at[v])
      <3>1. /\ v = <<v[1], v[2]>> /\ v[1] \in DOMAIN nd /\ v[2] \in Nat
            /\ v[2] \in 1 .. Len(g[v[1]].cell) /\ v # e /\ v \in CellSpots(g)
        BY <1>3, CellSpotIs
      <3>2. CASE v[1] = pg /\ v[2] > ix
        <4>1. at[v] = <<pg, v[2] - 1>> /\ at[v][1] = pg /\ at[v][2] = v[2] - 1
          BY <3>2
        <4>2. v[2] - 1 \in 1 .. len /\ v[2] \in 1 .. len + 1 /\ v[2] - 1 >= ix /\ (v[2] - 1) + 1 = v[2]
          BY <1>2, <1>3, <1>4, <3>1, <3>2
        <4>3. at[v] \in CellSpots(nd) /\ OvfAt(nd, at[v]) = cells[v[2] - 1].ovf
          BY <4>1, <4>2, CellSpotMade
        <4>4. OvfAt(g, v) = more[v[2]].ovf /\ more[v[2]] = cells[v[2] - 1]
          BY <1>3, <1>4, <1>2, <3>2, <4>2, SMTT(30) DEF OvfAt
        <4> QED BY <3>1, <3>2, <4>1, <4>2, <4>3, <4>4
      <3>3. CASE ~(v[1] = pg /\ v[2] > ix)
        <4>1. at[v] = v
          BY <3>3
        <4>2. CASE v[1] # pg
          <5>1. v \in CellSpots(nd) /\ OvfAt(nd, v) = OvfAt(g, v)
            <6>1. g[v[1]] = nd[v[1]]
              BY <1>3, <3>1, <4>2
            <6> QED BY <3>1, <6>1, CellSpotIs DEF OvfAt
          <5> QED BY <3>1, <4>1, <4>2, <5>1
        <4>3. CASE v[1] = pg
          <5>1. v[2] # ix
            BY <3>1, <4>3
          <5>2. v[2] < ix /\ v[2] \in 1 .. len /\ v[2] \in 1 .. len + 1
            BY <1>2, <3>1, <3>3, <4>3, <5>1
          <5>3. v \in CellSpots(nd)
            BY <3>1, <4>3, <5>2, CellSpotIs
          <5>4. more[v[2]] = cells[v[2]]
            BY <1>4, <5>2
          <5>5. OvfAt(nd, v) = OvfAt(g, v)
            BY <1>3, <4>3, <5>4 DEF OvfAt
          <5>6. ~(v[2] >= ix)
            BY <1>2, <5>2
          <5> QED BY <4>1, <4>3, <5>3, <5>5, <5>6
        <4> QED BY <4>2, <4>3
      <3> QED BY <3>2, <3>3
    <2>2. ASSUME NEW s \in CellSpots(nd) PROVE \E v \in V : at[v] = s
      <3>1. s = <<s[1], s[2]>> /\ s[1] \in DOMAIN nd /\ s[2] \in Nat /\ s[2] \in 1 .. Len(nd[s[1]].cell)
        BY CellSpotIs
      <3>2. CASE s[1] = pg /\ s[2] >= ix
        <4>1. s[2] + 1 \in 1 .. Len(g[pg].cell) /\ s[2] + 1 > ix /\ (s[2] + 1) - 1 = s[2]
          BY <1>2, <1>3, <1>4, <3>1, <3>2
        <4>2. <<pg, s[2] + 1>> \in CellSpots(g)
          BY <1>3, <4>1, CellSpotMade
        <4>3. <<pg, s[2] + 1>> \in V
          BY <4>1, <4>2
        <4>4. at[<<pg, s[2] + 1>>] = <<pg, s[2]>>
          BY <4>1, <4>3
        <4> QED BY <3>1, <3>2, <4>3, <4>4
      <3>3. CASE ~(s[1] = pg /\ s[2] >= ix)
        <4>1. s[1] \in DOMAIN g /\ s[2] \in 1 .. Len(g[s[1]].cell)
          <5>1. CASE s[1] = pg
            BY <1>2, <1>3, <1>4, <3>1, <5>1
          <5>2. CASE s[1] # pg
            BY <1>3, <3>1, <5>2
          <5> QED BY <5>1, <5>2
        <4>2. s \in CellSpots(g) /\ s # e
          BY <1>2, <3>1, <3>3, <4>1, CellSpotIs
        <4>3. s \in V /\ ~(s[1] = pg /\ s[2] > ix)
          BY <1>2, <3>1, <3>3, <4>2
        <4> QED BY <4>3
      <3> QED BY <3>2, <3>3
    <2>3. CellSpots(nd) \ {d} = CellSpots(nd)
      BY <1>8
    <2>4. \A u, v \in V : at[u] = at[v] => u = v
      BY <2>1
    <2> HIDE DEF V, at, d
    <2> QED BY <2>1, <2>2, <2>3, <2>4 DEF Moves
  <1>10. Owned(g, FreeMany(m.file, << >>))
    <2>1. << >> \in Seq(Nat)
      OBVIOUS
    <2> HIDE DEF d, e, at
    <2> QED BY <1>1, <1>3, <1>8, <1>9, <2>1, Rewritten
  <1>11. FreeMany(m.file, << >>) = m.file
    BY FreeNone DEF Taken1, FileOK
  <1> QED BY <1>3, <1>6, <1>7, <1>10, <1>11 DEF TreeIn

\* A cell is replaced by one with the same child; the old chain is freed.
LEMMA CellReplaced ==
    ASSUME NEW t, NEW nd, NEW f, TreeIn(t, nd, f), NEW pg \in DOMAIN nd,
           NEW ix \in 1 .. Len(nd[pg].cell), NEW c \in CellType, CellFits(t, nd[pg].leaf, c),
           c.left = nd[pg].cell[ix].left,
           NEW m, NEW n \in Nat, Taken1(f, m, n), c.ovf = m.pgs,
           NEW g, CellsOf(nd, pg, [nd[pg].cell EXCEPT ![ix] = c], g)
    PROVE  TreeIn(t, g, FreeMany(m.file, nd[pg].cell[ix].ovf))
  <1> DEFINE cells == nd[pg].cell
             new == [cells EXCEPT ![ix] = c]
             len == Len(cells)
             old == cells[ix].ovf
  <1>1. Nodes(nd) /\ Shapes(t, nd) /\ Levelled(nd) /\ OneParent(nd) /\ Owned(nd, f)
    BY DEF TreeIn
  <1>2. /\ cells \in Seq(CellType) /\ len \in Nat /\ pg \in Nat
    BY <1>1, NodeIs
  <1>3. /\ Nodes(g) /\ DOMAIN g = DOMAIN nd /\ g[pg].cell = new /\ g[pg].leaf = nd[pg].leaf
        /\ g[pg].right = nd[pg].right /\ \A p \in DOMAIN nd : p # pg => g[p] = nd[p]
    BY <1>1, CellsOfIs
  <1>4. /\ new \in Seq(CellType) /\ Len(new) = len
        /\ \A j \in 1 .. len : new[j] = IF j = ix THEN c ELSE cells[j]
    BY <1>2
  <1> HIDE DEF new
  <1>5. SameShape(nd, g)
    <2>1. Turns(g[pg]) = Turns(nd[pg])
      BY <1>3, <1>4 DEF Turns
    <2>2. ASSUME NEW j \in Turns(nd[pg]) PROVE Child(g[pg], j) = Child(nd[pg], j)
      <3>1. CASE j <= len
        <4>1. j \in 1 .. len
          BY <3>1, <2>2, <1>2 DEF Turns
        <4>2. new[j].left = cells[j].left
          BY <1>4, <4>1
        <4> QED BY <1>3, <1>4, <3>1, <4>2 DEF Child
      <3>2. CASE ~(j <= len)
        BY <1>3, <1>4, <3>2 DEF Child
      <3> QED BY <3>1, <3>2
    <2> QED BY <1>3, <2>1, <2>2 DEF SameShape
  <1>6. Levelled(g) /\ OneParent(g)
    BY <1>1, <1>5, SameTree
  <1>7. Shapes(t, g)
    BY <1>1, <1>3, <1>4 DEF Shapes
  <1> DEFINE e == <<pg, ix>>
             V == CellSpots(g) \ {e}
             at == [v \in V |-> v]
  <1>8. /\ CellSpots(g) = CellSpots(nd) /\ e \in CellSpots(g) /\ OvfAt(g, e) = m.pgs
        /\ OvfAt(nd, e) = old /\ old \in Seq(Nat)
    <2>1. \A p \in DOMAIN nd : Len(g[p].cell) = Len(nd[p].cell)
      BY <1>3, <1>4
    <2>2. CellSpots(g) = CellSpots(nd)
      BY <1>3, <2>1 DEF CellSpots
    <2>3. e \in CellSpots(nd) /\ OvfAt(nd, e) = old
      BY CellSpotMade
    <2>4. OvfAt(g, e) = m.pgs
      BY <1>3, <1>4 DEF OvfAt
    <2>5. old \in Seq(Nat)
      <3> HIDE DEF e, old
      <3> QED BY <1>1, <2>3, CellSpotType
    <2> QED BY <2>2, <2>3, <2>4, <2>5
  <1>9. Moves(nd, CellSpots(nd) \ {e}, g, V, at)
    <2>1. ASSUME NEW v \in V PROVE OvfAt(nd, v) = OvfAt(g, v)
      <3>1. v = <<v[1], v[2]>> /\ v[1] \in DOMAIN nd /\ v[2] \in 1 .. Len(nd[v[1]].cell) /\ v # e
        BY <1>8, CellSpotIs
      <3>2. CASE v[1] = pg
        <4>1. v[2] # ix
          BY <3>1, <3>2
        <4>2. new[v[2]] = cells[v[2]]
          BY <1>4, <3>1, <3>2, <4>1
        <4> QED BY <1>3, <3>2, <4>2 DEF OvfAt
      <3>3. CASE v[1] # pg
        BY <1>3, <3>1, <3>3 DEF OvfAt
      <3> QED BY <3>2, <3>3
    <2> QED BY <1>8, <2>1 DEF Moves
  <1>10. Owned(g, FreeMany(m.file, old))
    <2> HIDE DEF e, at, old
    <2> QED BY <1>1, <1>3, <1>8, <1>9, Rewritten
  <1> QED BY <1>3, <1>6, <1>7, <1>10 DEF TreeIn

\* The way to a page goes on when only that page's cells change.
LEMMA WayStays ==
    ASSUME NEW nd, Nodes(nd), Levelled(nd), NEW way, IsPath(nd, way),
           NEW cells, NEW g, CellsOf(nd, Last(way).pg, cells, g)
    PROVE  /\ IsPath(g, way)
           /\ \A i \in 1 .. Len(way) - 1 : g[way[i].pg] = nd[way[i].pg] /\ way[i].pg # Last(way).pg
  <1>1. Len(way) \in Nat \ {0} /\ Last(way) = way[Len(way)]
    BY WayLast DEF IsPath
  <1>2. \A i, j \in 1 .. Len(way) : way[i].pg = way[j].pg => i = j
    BY WayOnce DEF IsPath
  <1>3. DOMAIN g = DOMAIN nd /\ \A p \in DOMAIN nd : p # Last(way).pg => g[p] = nd[p]
    BY CellsOfIs
  <1>4. \A i \in 1 .. Len(way) : way[i].pg \in DOMAIN nd
    BY DEF IsPath, IsWay
  <1>5. ASSUME NEW i \in 1 .. Len(way) - 1
        PROVE  g[way[i].pg] = nd[way[i].pg] /\ way[i].pg # Last(way).pg
    <2>1. i \in 1 .. Len(way) /\ i # Len(way) /\ Len(way) \in 1 .. Len(way)
      BY <1>1
    <2> QED BY <1>1, <1>2, <1>3, <1>4, <2>1
  <1>6. IsPath(g, way)
    BY <1>3, <1>4, <1>5, WayKept DEF IsPath
  <1> QED BY <1>5, <1>6

\* Between calls the pages above a place have cells.
LEMMA UpIsStocked ==
    ASSUME NEW nd, Nodes(nd), IdleFits(nd), NEW way, IsPath(nd, way)
    PROVE  /\ \A i \in 1 .. Len(way) - 1 : Fits(nd[way[i].pg]) /\ nd[way[i].pg].cell # << >>
           /\ OffWay(nd, way)
  <1>1. Len(way) \in Nat \ {0} /\ way[1].pg = ROOT
    BY WayLast DEF IsPath, IsWay
  <1>2. \A i \in 1 .. Len(way) - 1 : way[i].pg \in DOMAIN nd /\ ~nd[way[i].pg].leaf
    <2>1. \A i \in 1 .. Len(way) - 1 : i \in 1 .. Len(way)
      BY <1>1
    <2> QED BY <2>1 DEF IsPath, IsWay
  <1>3. OffWay(nd, way)
    <2>1. 1 \in 1 .. Len(way)
      BY <1>1
    <2> QED BY <1>1, <2>1 DEF OffWay, IdleFits
  <1> QED BY <1>2, <1>3 DEF IdleFits

\* One cell of a page is new or another: either the page still fits, or its
\* balancing starts.
LEMMA Written ==
    ASSUME NEW t, NEW nd, Nodes(nd), Levelled(nd), IdleFits(nd), NEW way, IsPath(nd, way),
           NEW cells \in Seq(CellType), Last(way).ix \in 1 .. Len(cells),
           Taken(cells) - cells[Last(way).ix].sz <= U,
           t => nd[Last(way).pg].leaf,
           NEW g, CellsOf(nd, Last(way).pg, cells, g)
    PROVE  /\ EntryIn(t, g, way)
           /\ Taken(cells) <= U => IdleFits(g)
           /\ \A o : o.kind = "insert" /\ o.at = Last(way).ix /\ ~(Taken(cells) <= U) => BusyFits(g, way, o)
  <1> DEFINE pg == Last(way).pg
             ix == Last(way).ix
  <1>1. Len(way) \in Nat \ {0} /\ Last(way) = way[Len(way)] /\ pg \in DOMAIN nd
    BY WayLast DEF IsPath
  <1>2. /\ DOMAIN g = DOMAIN nd /\ g[pg].cell = cells
        /\ \A p \in DOMAIN nd : p # pg => g[p] = nd[p]
    BY CellsOfIs
  <1>3. g[pg].leaf <=> nd[pg].leaf
    BY CellsOfIs
  <1>4. cells # << >>
    BY <1>1
  <1>5. /\ IsPath(g, way)
        /\ \A i \in 1 .. Len(way) - 1 : g[way[i].pg] = nd[way[i].pg] /\ way[i].pg # pg
    BY WayStays
  <1>6. EntryIn(t, g, way)
    BY <1>2, <1>3, <1>5 DEF EntryIn
  <1>7. ASSUME Taken(cells) <= U PROVE IdleFits(g)
    BY <1>2, <1>4, <1>7 DEF IdleFits, Fits
  <1>8. ASSUME NEW o, o.kind = "insert", o.at = ix, ~(Taken(cells) <= U) PROVE BusyFits(g, way, o)
    <2>1. \A i \in 1 .. Len(way) - 1 : Fits(nd[way[i].pg]) /\ nd[way[i].pg].cell # << >>
      BY UpIsStocked
    <2>2. OffWay(g, way)
      <3>1. OffWay(nd, way)
        BY UpIsStocked
      <3>2. Len(way) \in 1 .. Len(way) /\ way[Len(way)].pg = pg
        BY <1>1
      <3>3. \A p \in DOMAIN g : (\A i \in 1 .. Len(way) : way[i].pg # p) => p \in DOMAIN nd /\ g[p] = nd[p]
        BY <1>2, <3>2
      <3> HIDE DEF pg
      <3> QED BY <3>1, <3>3 DEF OffWay
    <2>3. UpWay(g, way, o)
      BY <1>5, <2>1 DEF UpWay, PageOn
    <2>4. PageOn(g, way, Len(way)) = g[pg]
      BY <1>1 DEF PageOn
    <2>5. HereFits(g[pg], Len(way), o)
      BY <1>2, <1>4, <1>8 DEF HereFits, Fits
    <2> QED BY <2>2, <2>3, <2>4, <2>5 DEF BusyFits
  <1> QED BY <1>6, <1>7, <1>8

--------------------------------------------------------------------------------
\* Where w inserts: at the place a search ends, or first in an empty tree.
InsertPlace(m) ==
    /\ Sound(m.cur) /\ m.res \in {-1, 0, 1}
    /\ \/ /\ m.cur.state = "INVALID" /\ m.cur.path = << >> /\ m.res = -1
          /\ node[ROOT].cell = << >>
       \/ /\ m.cur.state = "VALID" /\ OnEntry(m.cur.path)
          /\ m.res # 0 => node[Last(m.cur.path).pg].leaf

\* A seek, or a cursor that is there already, gives a place to insert at.
LEMMA InsertPlaceIs ==
    ASSUME BtreeInv, op = Idle, ~Stepping, NEW k \in Keys, NEW bias
    PROVE  /\ InsertPlace(MovetoUnpacked(cur[w], k, bias))
           /\ cur[w].state = "VALID" \/ cur[w].valid => InsertPlace([cur |-> cur[w], res |-> 0])
  <1>1. Readable /\ Sound(cur[w]) /\ w \in Cursors
    BY IdleIs DEF Cursors
  <1>4. ASSUME NEW m, Sound(m.cur), m.res \in {-1, 0, 1},
               \/ m.cur = Nowhere /\ m.res = -1 /\ node[ROOT].cell = << >>
               \/ /\ m.cur.state = "VALID" /\ OnEntry(m.cur.path)
                  /\ m.res # 0 => node[Last(m.cur.path).pg].leaf
        PROVE  InsertPlace(m)
    BY <1>4, NowhereIs DEF InsertPlace
  <1>2. InsertPlace(MovetoUnpacked(cur[w], k, bias))
    BY <1>1, <1>4, MovetoIs
  <1>3. ASSUME cur[w].state = "VALID" \/ cur[w].valid
        PROVE  InsertPlace([cur |-> cur[w], res |-> 0])
    <2>1. cur[w].state = "VALID"
      BY <1>1, <1>3 DEF Sound, Kept, Stepping
    <2>2. OnEntry(cur[w].path)
      BY <1>1, <2>1 DEF Sound, OnTree
    <2> QED BY <1>1, <2>1, <2>2 DEF InsertPlace
  <1> QED BY <1>2, <1>3

\* A write saves every other cursor, and clearing a table all of them.
LEMMA OthersSaved ==
    ASSUME BtreeInv, op = Idle, NEW c \in Cursors
    PROVE  LET s == saveCursorPosition(cur[c]) IN
           /\ KeptIn(intkey, s) /\ s.state \in {"INVALID", "REQUIRESEEK"} /\ s \in CursorType
           /\ \A g : SoundIn(intkey, g, s)
  <1>1. Nodes(node) /\ Sound(cur[c])
    BY IdleIs
  <1>2. ASSUME NEW s, Sound(s), s.state \in {"INVALID", "REQUIRESEEK"}
        PROVE  /\ KeptIn(intkey, s) /\ s \in CursorType /\ \A g : SoundIn(intkey, g, s)
    <2>1. KeptIn(intkey, s)
      BY <1>1, <1>2, SoundInIs DEF SoundIn
    <2> QED BY <1>2, <2>1 DEF SoundIn, KeptIn
  <1> QED BY <1>1, <1>2, SaveIs

\* A cursor with another path.
LEMMA PathSet ==
    ASSUME NEW t, NEW c, KeptIn(t, c), c.state \in {"VALID", "SKIPNEXT"}, NEW path \in Seq(StepType)
    PROVE  LET d == [c EXCEPT !.path = path] IN
           KeptIn(t, d) /\ d \in CursorType /\ d.path = path /\ d.state = c.state /\ d.valid = c.valid
  <1> DEFINE d == [c EXCEPT !.path = path]
  <1>1. c \in CursorType
    BY DEF KeptIn
  <1>2. /\ d.path = path /\ d.state = c.state /\ d.valid = c.valid /\ d.key = c.key
        /\ d.skip = c.skip /\ d.last = c.last
    BY <1>1 DEF CursorType
  <1>3. d \in CursorType
    BY <1>1 DEF CursorType
  <1> HIDE DEF d
  <1>4. KeptIn(t, d)
    BY <1>2, <1>3 DEF KeptIn
  <1> QED BY <1>2, <1>3, <1>4 DEF d

\* The last step of a path at another place.
LEMMA StepAt ==
    ASSUME NEW nd, NEW path, IsPath(nd, path), NEW ix \in Nat
    PROVE  /\ IsPath(nd, Front(path) \o <<Step(Last(path).pg, ix)>>)
           /\ Last(Front(path) \o <<Step(Last(path).pg, ix)>>) = Step(Last(path).pg, ix)
           /\ Len(Front(path) \o <<Step(Last(path).pg, ix)>>) = Len(path)
           /\ \A i \in 1 .. Len(path) - 1 : (Front(path) \o <<Step(Last(path).pg, ix)>>)[i] = path[i]
  <1>1. Len(path) \in 1 .. Len(path) /\ Last(path) = path[Len(path)] /\ IsWay(nd, path, ROOT)
    BY WayLast DEF IsPath
  <1>2. Front(path) = SubSeq(path, 1, Len(path) - 1)
    BY DEF Front
  <1>3. ASSUME NEW k \in 1 .. Len(path)
        PROVE  LET cut == SubSeq(path, 1, k - 1) \o <<Step(path[k].pg, ix)>> IN
               /\ IsWay(nd, cut, ROOT) /\ Len(cut) = k /\ Last(cut) = Step(path[k].pg, ix)
               /\ \A i \in 1 .. k - 1 : cut[i] = path[i]
    <2>1. IsWay(nd, path, ROOT)
      BY <1>1
    <2> QED BY ONLY <2>1, WayCut, ix \in Nat, k \in 1 .. Len(path)
  <1> QED BY <1>1, <1>2, <1>3 DEF IsPath

\* The place where an insert at m puts its cell.
PlaceOfInsert(m, pg, ix, there) ==
    LET path == IF m.cur.path = << >> THEN <<Step(ROOT, 1)>> ELSE m.cur.path
    IN /\ pg = Last(path).pg
       /\ ix = IF m.res < 0 /\ node[pg].cell # << >> THEN Last(path).ix + 1 ELSE Last(path).ix
       /\ there = Front(path) \o <<Step(pg, ix)>>

\* The step of the path at which w inserts.
LEMMA InsertWay ==
    ASSUME Readable, NEW m, InsertPlace(m),
           NEW pg, NEW ix, NEW there, PlaceOfInsert(m, pg, ix, there)
    PROVE  /\ pg \in DOMAIN node /\ ix \in 1 .. Len(node[pg].cell) + 1
           /\ IsPath(node, there) /\ Last(there).pg = pg /\ Last(there).ix = ix
           /\ m.res = 0 => ix \in 1 .. Len(node[pg].cell) /\ (intkey => node[pg].leaf)
           /\ m.res # 0 => node[pg].leaf
  <1>7. PICK path : path = IF m.cur.path = << >> THEN <<Step(ROOT, 1)>> ELSE m.cur.path
    OBVIOUS
  <1>8. /\ pg = Last(path).pg /\ there = Front(path) \o <<Step(pg, ix)>>
        /\ ix = IF m.res < 0 /\ node[pg].cell # << >> THEN Last(path).ix + 1 ELSE Last(path).ix
    BY <1>7 DEF PlaceOfInsert
  <1>1. Nodes(node) /\ ROOT \in DOMAIN node /\ ROOT \in Nat
    BY DEF Readable, Nodes, ROOT
  <1>2. /\ IsPath(node, path) /\ pg \in DOMAIN node /\ ix \in 1 .. Len(node[pg].cell) + 1
        /\ m.res = 0 => ix \in 1 .. Len(node[pg].cell) /\ (intkey => node[pg].leaf)
        /\ m.res # 0 => node[pg].leaf
    <2>1. CASE m.cur.path = << >> /\ m.res = -1 /\ node[ROOT].cell = << >>
      <3>1. path = <<Step(ROOT, 1)>>
        BY <1>7, <2>1
      <3>2. IsPath(node, path) /\ Last(path).pg = ROOT /\ Last(path).ix = 1
        BY <1>1, <3>1, OneStep DEF IsPath
      <3>3. pg = ROOT /\ ix = 1 /\ node[ROOT].leaf
        BY <1>1, <1>8, <2>1, <3>2 DEF Readable, Stocked
      <3>4. Len(node[pg].cell) = 0
        BY <2>1, <3>3
      <3> QED BY <1>1, <2>1, <3>2, <3>3, <3>4
    <2>2. CASE OnEntry(m.cur.path) /\ (m.res # 0 => node[Last(m.cur.path).pg].leaf)
      <3>1. IsPath(node, m.cur.path) /\ m.cur.path # << >>
        BY <2>2 DEF OnEntry, IsPath, IsWay
      <3>2. path = m.cur.path
        BY <1>7, <3>1
      <3>3. pg \in DOMAIN node
        BY <1>8, <3>1, <3>2, WayLast DEF IsPath
      <3>4. /\ Len(node[pg].cell) \in Nat /\ node[pg].cell # << >>
            /\ Last(path).ix \in 1 .. Len(node[pg].cell)
        BY <1>1, <1>8, <2>2, <3>2, <3>3, NodeIs, SMTT(30) DEF OnEntry
      <3>5. m.res \in {-1, 0, 1}
        BY DEF InsertPlace
      <3>6. ix \in 1 .. Len(node[pg].cell) + 1 /\ (m.res = 0 => ix \in 1 .. Len(node[pg].cell))
        BY <1>8, <3>4, <3>5
      <3>7. intkey => node[pg].leaf
        BY <1>8, <2>2, <3>2 DEF OnEntry
      <3> QED BY <1>8, <2>2, <3>1, <3>2, <3>3, <3>6, <3>7
    <2> QED BY <2>1, <2>2 DEF InsertPlace
  <1>3. /\ Len(path) \in Nat \ {0} /\ path[Len(path)] = Last(path) /\ path \in Seq(StepType)
    BY <1>2, WayLast DEF IsPath, IsWay
  <1>4. ix \in Nat
    BY <1>2, <1>3
  <1>5. IsPath(node, there) /\ Last(there) = Step(pg, ix)
    BY <1>2, <1>4, <1>8, StepAt
  <1>6. Step(pg, ix).pg = pg /\ Step(pg, ix).ix = ix
    BY DEF Step
  <1> QED BY <1>2, <1>5, <1>6

\* The cell that is inserted.
LEMMA NewCell ==
    ASSUME scene \in Scenes, NEW k \in Keys, NEW row \in scene.rows, NEW pgs \in Seq(Nat), NEW left \in Nat,
           NEW leaf \in BOOLEAN, intkey => leaf
    PROVE  LET c == Cell(k, row, pgs, left) IN
           /\ c \in CellType /\ CellFits(intkey, leaf, c) /\ c.ovf = pgs /\ c.left = left
           /\ c.sz \in Nat /\ c.sz <= U
  <1>1. row.sz \in 1 .. (IF intkey THEN U ELSE U \div 4) /\ intkey \in BOOLEAN
    BY SceneIs
  <1>2. U \in Nat /\ U \div 4 \in Nat /\ U \div 4 <= U
    BY UIs
  <1>3. row.sz \in Nat \ {0} /\ row.sz <= U /\ (~intkey => row.sz <= U \div 4)
    BY <1>1, <1>2
  <1> QED BY <1>3 DEF Cell, CellType, CellFits

\* What an insert makes of a page and the file.
PageOfInsert(nd, new, k, row, res, pg, ix, cells, g, h) ==
    LET old == nd[pg].cell[ix]
    IN /\ cells = IF res = 0 THEN [nd[pg].cell EXCEPT ![ix] = Cell(k, row, new.pgs, old.left)]
                  ELSE InsertAt(nd[pg].cell, ix, Cell(k, row, new.pgs, 0))
       /\ g = [nd EXCEPT ![pg].cell = cells]
       /\ h = IF res = 0 THEN FreeMany(new.file, old.ovf) ELSE new.file

\* The cells of the page after an insert.
LEMMA CellsInserted ==
    ASSUME scene \in Scenes, NEW nd, NEW f, TreeIn(intkey, nd, f), IdleFits(nd),
           NEW k \in Keys, NEW row \in scene.rows,
           NEW res, NEW pg \in DOMAIN nd, NEW ix \in 1 .. Len(nd[pg].cell) + 1,
           res = 0 => ix \in 1 .. Len(nd[pg].cell) /\ (intkey => nd[pg].leaf),
           res # 0 => nd[pg].leaf,
           NEW new, Taken1(f, new, row.ov),
           NEW cells, NEW g, NEW h, PageOfInsert(nd, new, k, row, res, pg, ix, cells, g, h)
    PROVE  /\ cells \in Seq(CellType) /\ ix \in 1 .. Len(cells) /\ CellsOf(nd, pg, cells, g)
           /\ Taken(cells) - cells[ix].sz <= U
           /\ TreeIn(intkey, g, h)
  <1>1. Nodes(nd) /\ intkey \in BOOLEAN
    BY SceneIs DEF TreeIn
  <1>2. /\ nd[pg].cell \in Seq(CellType) /\ Len(nd[pg].cell) \in Nat /\ nd[pg].leaf \in BOOLEAN
        /\ Taken(nd[pg].cell) <= U
    BY <1>1, NodeIs DEF IdleFits, Fits
  <1>3. new.pgs \in Seq(Nat) /\ row.ov \in Nat /\ U \in Nat
    BY SceneIs, UIs DEF Taken1
  <1>4. CASE res = 0
    <2>1. ix \in 1 .. Len(nd[pg].cell) /\ (intkey => nd[pg].leaf)
      BY <1>4
    <2>12. PICK old : old = nd[pg].cell[ix]
      OBVIOUS
    <2>2. old \in CellType
      BY <1>2, <2>1, <2>12
    <2>3. old.left \in Nat /\ old.sz \in Nat
      BY <2>2 DEF CellType
    <2>4. PICK c : c = Cell(k, row, new.pgs, old.left)
      OBVIOUS
    <2>5. /\ c \in CellType /\ CellFits(intkey, nd[pg].leaf, c) /\ c.ovf = new.pgs /\ c.left = old.left
          /\ c.sz \in Nat
      BY <1>2, <1>3, <2>1, <2>3, <2>4, NewCell
    <2>6. cells = [nd[pg].cell EXCEPT ![ix] = c]
      BY <1>4, <2>4, <2>12 DEF PageOfInsert
    <2>7. /\ cells \in Seq(CellType) /\ Len(cells) = Len(nd[pg].cell) /\ cells[ix] = c
          /\ Taken(cells) = (Taken(nd[pg].cell) - old.sz) + c.sz /\ Taken(nd[pg].cell) \in Nat
      <3>1. LET t == [nd[pg].cell EXCEPT ![ix] = c] IN
            /\ t \in Seq(CellType) /\ Len(t) = Len(nd[pg].cell) /\ t[ix] = c
            /\ Taken(t) = (Taken(nd[pg].cell) - nd[pg].cell[ix].sz) + c.sz /\ Taken(nd[pg].cell) \in Nat
        BY <1>2, <2>1, <2>5, TakenReplaced
      <3> QED BY <2>6, <2>12, <3>1
    <2>8. CellsOf(nd, pg, cells, g)
      BY <2>7 DEF CellsOf, PageOfInsert
    <2>9. Taken(cells) - cells[ix].sz <= U
      BY <1>2, <1>3, <2>3, <2>5, <2>7, SMTT(30)
    <2>10. TreeIn(intkey, g, FreeMany(new.file, nd[pg].cell[ix].ovf))
      <3>1. CellsOf(nd, pg, [nd[pg].cell EXCEPT ![ix] = c], g) /\ c.left = nd[pg].cell[ix].left
        BY <2>5, <2>6, <2>8, <2>12
      <3> QED BY <1>3, <2>1, <2>5, <3>1, CellReplaced
    <2>11. h = FreeMany(new.file, nd[pg].cell[ix].ovf)
      BY <1>4 DEF PageOfInsert
    <2> QED BY <1>2, <2>1, <2>7, <2>8, <2>9, <2>10, <2>11
  <1>5. CASE res # 0
    <2>1. nd[pg].leaf
      BY <1>5
    <2>2. PICK c : c = Cell(k, row, new.pgs, 0)
      OBVIOUS
    <2>3. c \in CellType /\ CellFits(intkey, TRUE, c) /\ c.ovf = new.pgs /\ c.sz \in Nat
      <3>1. TRUE \in BOOLEAN /\ 0 \in Nat /\ (intkey => TRUE)
        OBVIOUS
      <3> QED BY <1>3, <2>2, <3>1, NewCell
    <2>4. cells = InsertAt(nd[pg].cell, ix, c)
      BY <1>5, <2>2 DEF PageOfInsert
    <2>5. cells \in Seq(CellType) /\ IsInserted(cells, nd[pg].cell, ix, c)
      <3>1. /\ InsertAt(nd[pg].cell, ix, c) \in Seq(CellType)
            /\ IsInserted(InsertAt(nd[pg].cell, ix, c), nd[pg].cell, ix, c)
        BY <1>2, <2>3, Inserted
      <3> QED BY <2>4, <3>1
    <2>6. /\ Len(cells) = Len(nd[pg].cell) + 1 /\ ix \in 1 .. Len(cells) /\ cells[ix] = c
      BY <1>2, <2>5 DEF IsInserted
    <2>7. Taken(cells) = Taken(nd[pg].cell) + c.sz /\ Taken(nd[pg].cell) \in Nat
      BY <1>2, <2>3, <2>4, TakenInserted
    <2>8. CellsOf(nd, pg, cells, g)
      BY <2>5 DEF CellsOf, PageOfInsert
    <2>9. Taken(cells) - cells[ix].sz <= U
      BY <1>2, <1>3, <2>3, <2>6, <2>7
    <2>10. TreeIn(intkey, g, new.file)
      <3>1. CellsOf(nd, pg, InsertAt(nd[pg].cell, ix, c), g)
        BY <2>4, <2>8
      <3> QED BY <1>3, <2>1, <2>3, <3>1, CellPut
    <2>11. h = new.file
      BY <1>5 DEF PageOfInsert
    <2> QED BY <2>5, <2>6, <2>8, <2>9, <2>10, <2>11
  <1> QED BY <1>4, <1>5

\* What an insert makes of the cursors.
CursorsOfInsert(m, over, there, cu) ==
    cu = [saveAllCursors EXCEPT ![w] =
            IF m.cur.state = "INVALID" /\ ~over THEN Nowhere
            ELSE [IF over THEN Forget(m.cur) ELSE m.cur EXCEPT !.path = there]]

\* The cursors after an insert, when the page fits and when it does not.
LEMMA CursorsInserted ==
    ASSUME BtreeInv, op = Idle, NEW m, InsertPlace(m), NEW there, NEW g, EntryIn(intkey, g, there),
           NEW over \in BOOLEAN, NEW o, over <=> o # Idle,
           NEW cu, CursorsOfInsert(m, over, there, cu)
    PROVE  CursorsIn(intkey, g, cu, o) /\ (over => cu[w].path = there)
  <1>1. \A c \in Cursors : LET s == saveCursorPosition(cur[c]) IN
           /\ KeptIn(intkey, s) /\ s.state \in {"INVALID", "REQUIRESEEK"} /\ s \in CursorType
           /\ SoundIn(intkey, g, s)
    BY OthersSaved
  <1>2. /\ w \in Cursors /\ cu = [c \in Cursors |-> cu[c]]
        /\ \A c \in Cursors : c # w => cu[c] = saveCursorPosition(cur[c])
        /\ cu[w] = IF m.cur.state = "INVALID" /\ ~over THEN Nowhere
                   ELSE [IF over THEN Forget(m.cur) ELSE m.cur EXCEPT !.path = there]
    BY DEF saveAllCursors, Cursors, CursorsOfInsert
  <1>3. Nodes(node) /\ Sound(m.cur) /\ m.cur.state \in {"INVALID", "VALID"}
    BY IdleIs DEF InsertPlace
  <1>4. KeptIn(intkey, m.cur)
    BY <1>3, SoundInIs DEF SoundIn
  <1>5. IsPath(g, there) /\ there \in Seq(StepType)
    BY DEF EntryIn, IsPath, IsWay
  <1>6. CASE ~over /\ m.cur.state = "INVALID"
    <2>1. cu[w] = Nowhere
      BY <1>2, <1>6
    <2>2. SoundIn(intkey, g, Nowhere) /\ Nowhere \in CursorType
      BY <1>3, NowhereIs, SoundInIs DEF SoundIn, KeptIn
    <2> QED BY <1>1, <1>2, <1>6, <2>1, <2>2 DEF CursorsIn
  <1>7. CASE ~over /\ m.cur.state = "VALID"
    <2>1. cu[w] = [m.cur EXCEPT !.path = there]
      BY <1>2, <1>7
    <2>2. /\ KeptIn(intkey, cu[w]) /\ cu[w] \in CursorType /\ cu[w].path = there /\ cu[w].state = "VALID"
      <3>1. LET d == [m.cur EXCEPT !.path = there] IN
            KeptIn(intkey, d) /\ d \in CursorType /\ d.path = there /\ d.state = m.cur.state
        BY <1>4, <1>5, <1>7, PathSet
      <3> QED BY <1>7, <2>1, <3>1
    <2>3. SoundIn(intkey, g, cu[w])
      BY <2>2 DEF SoundIn
    <2> QED BY <1>1, <1>2, <1>7, <2>2, <2>3 DEF CursorsIn
  <1>8. CASE over
    <2>1. cu[w] = [Forget(m.cur) EXCEPT !.path = there]
      BY <1>2, <1>8
    <2>2. /\ Forget(m.cur) \in CursorType /\ ~Forget(m.cur).valid
      <3>1. m.cur.state # "REQUIRESEEK"
        BY <1>3
      <3> QED BY <1>3, <3>1, ForgetIs DEF Sound, Kept
    <2>3. cu[w] \in CursorType /\ cu[w].path = there /\ ~cu[w].valid
      BY <1>5, <2>1, <2>2 DEF CursorType
    <2> QED BY <1>1, <1>2, <1>5, <1>8, <2>3 DEF CursorsIn
  <1> QED BY <1>3, <1>6, <1>7, <1>8

\* What a step has to leave for the invariant.
TreeLeft(g, h, cu, o) ==
    /\ TreeIn(intkey, g, h) /\ o \in {Idle} \cup Inserts \cup Deletes /\ CursorsIn(intkey, g, cu, o)
    /\ IF o = Idle THEN IdleFits(g) ELSE BusyFits(g, cu[w].path, o)

\* The invariant holds after a step that leaves a sound tree, file and cursors.
LEMMA InvLeft ==
    ASSUME BtreeInv, UNCHANGED scene, writes' \in 0 .. scene.writes, TreeLeft(node', file', cur', op')
    PROVE  BtreeInv'
  <1>1. intkey' = intkey
    BY DEF intkey
  <1> QED BY <1>1 DEF BtreeInv, TreeLeft

\* The cell is inserted or replaced at the place m.
LEMMA CellInserted ==
    ASSUME BtreeInv, op = Idle, NEW k \in Keys, NEW row \in scene.rows, NEW save \in BOOLEAN,
           NEW m, InsertPlace(m), NEW pg, NEW ix, NEW there, PlaceOfInsert(m, pg, ix, there),
           NEW new, new = AllocateMany(file, 0, row.ov),
           NEW cells, NEW g, NEW h, PageOfInsert(node, new, k, row, m.res, pg, ix, cells, g, h),
           NEW over \in BOOLEAN, over <=> Taken(cells) > U,
           NEW o, over => o = [kind |-> "insert", key |-> k, save |-> save, at |-> ix], ~over => o = Idle,
           NEW cu, CursorsOfInsert(m, over, there, cu)
    PROVE  TreeLeft(g, h, cu, o)
  <1>1. Readable /\ IdleFits(node) /\ Nodes(node) /\ Levelled(node)
    BY IdleIs DEF Readable
  <1>2. /\ pg \in DOMAIN node /\ ix \in 1 .. Len(node[pg].cell) + 1
        /\ IsPath(node, there) /\ Last(there).pg = pg /\ Last(there).ix = ix
        /\ m.res = 0 => ix \in 1 .. Len(node[pg].cell) /\ (intkey => node[pg].leaf)
        /\ m.res # 0 => node[pg].leaf
    BY <1>1, InsertWay
  <1>3. scene \in Scenes /\ TreeIn(intkey, node, file) /\ intkey \in BOOLEAN /\ row.ov \in Nat
    BY SceneIs DEF BtreeInv
  <1>14. Taken1(file, new, row.ov)
    <2>1. FileOK(file)
      BY <1>3 DEF TreeIn, Owned
    <2>2. LET N == Max({0, row.ov}) IN (row.ov >= 0 => N = row.ov) /\ Taken1(file, AllocateMany(file, 0, row.ov), N)
      BY <1>3, <2>1, ManyTaken
    <2> QED BY <1>3, <2>2
  <1>5. /\ cells \in Seq(CellType) /\ ix \in 1 .. Len(cells) /\ CellsOf(node, pg, cells, g)
        /\ Taken(cells) - cells[ix].sz <= U /\ TreeIn(intkey, g, h)
    <2> QED BY <1>1, <1>2, <1>3, <1>14, CellsInserted
  <1>6. Taken(cells) \in Nat /\ U \in Nat
    BY <1>5, TakenParts, UIs
  <1>7. intkey => node[pg].leaf
    BY <1>2
  <1>8. /\ EntryIn(intkey, g, there)
        /\ Taken(cells) <= U => IdleFits(g)
        /\ \A q : q.kind = "insert" /\ q.at = ix /\ ~(Taken(cells) <= U) => BusyFits(g, there, q)
    <2>1. /\ Last(there).ix \in 1 .. Len(cells) /\ Taken(cells) - cells[Last(there).ix].sz <= U
          /\ intkey => node[Last(there).pg].leaf
          /\ CellsOf(node, Last(there).pg, cells, g)
      BY <1>2, <1>5, <1>7
    <2>2. /\ EntryIn(intkey, g, there)
          /\ Taken(cells) <= U => IdleFits(g)
          /\ \A q : q.kind = "insert" /\ q.at = Last(there).ix /\ ~(Taken(cells) <= U) => BusyFits(g, there, q)
      BY <1>1, <1>2, <1>5, <2>1, Written
    <2> QED BY <1>2, <2>2
  <1>9. over \in BOOLEAN /\ (over <=> ~(Taken(cells) <= U))
    BY <1>6
  <1>10. over => /\ o \in Inserts /\ o.kind = "insert" /\ o.at = ix /\ o # Idle
    <2>1. ASSUME over PROVE o \in Inserts /\ o.kind = "insert" /\ o.at = ix
      BY <1>2, <2>1 DEF Inserts
    <2> QED BY <2>1, OpNotIdle
  <1>11. ~over => o = Idle
    OBVIOUS
  <1>12. CursorsIn(intkey, g, cu, o) /\ (over => cu[w].path = there)
    BY <1>8, <1>9, <1>10, <1>11, CursorsInserted
  <1>13. CASE over
    BY <1>5, <1>8, <1>9, <1>10, <1>12, <1>13 DEF TreeLeft
  <1>15. CASE ~over
    BY <1>5, <1>8, <1>9, <1>11, <1>12, <1>15 DEF TreeLeft
  <1> QED BY <1>9, <1>13, <1>15

\* An insert keeps the invariant, or starts to balance.
LEMMA InsertKeeps ==
    ASSUME BtreeInv, NEW k \in scene.keys, NEW row \in scene.rows, NEW flags \in Flags,
           sqlite3BtreeInsert(k, row, flags)
    PROVE  BtreeInv'
  <1> DEFINE save == flags = "SAVEPOSITION"
             known == cur[w].valid /\ cur[w].key = k
             m == IF save \/ known THEN [cur |-> cur[w], res |-> 0]
                  ELSE MovetoUnpacked(cur[w], k, flags = "APPEND")
  <1>1. /\ op = Idle /\ ~Stepping /\ writes < scene.writes /\ writes' = writes + 1
        /\ save => cur[w].state = "VALID"
        /\ insertCell(k, row, save, m) /\ UNCHANGED scene
    BY DEF sqlite3BtreeInsert
  <1>2. k \in Keys /\ save \in BOOLEAN
    BY SceneIs DEF BtreeInv
  <1>3. InsertPlace(m)
    <2>1. CASE save \/ known
      <3>1. cur[w].state = "VALID" \/ cur[w].valid
        BY <1>1, <2>1
      <3>2. InsertPlace([cur |-> cur[w], res |-> 0])
        BY <1>1, <1>2, <3>1, InsertPlaceIs
      <3> QED BY <2>1, <3>2
    <2>2. CASE ~(save \/ known)
      <3>1. InsertPlace(MovetoUnpacked(cur[w], k, flags = "APPEND"))
        BY <1>1, <1>2, InsertPlaceIs
      <3> QED BY <2>2, <3>1
    <2> QED BY <2>1, <2>2
  <1>4. ASSUME NEW at, InsertPlace(at), insertCell(k, row, save, at)
        PROVE  TreeLeft(node', file', cur', op')
    <2>1. PICK pg, ix, there : PlaceOfInsert(at, pg, ix, there)
      BY DEF PlaceOfInsert
    <2>2. PICK new : new = AllocateMany(file, 0, row.ov)
      OBVIOUS
    <2>3. PICK cells : cells = IF at.res = 0
                               THEN [node[pg].cell EXCEPT ![ix] = Cell(k, row, new.pgs, node[pg].cell[ix].left)]
                               ELSE InsertAt(node[pg].cell, ix, Cell(k, row, new.pgs, 0))
      OBVIOUS
    <2>4. PageOfInsert(node, new, k, row, at.res, pg, ix, cells, node', file')
      BY <1>4, <2>1, <2>2, <2>3 DEF insertCell, PlaceOfInsert, PageOfInsert
    <2>5. PICK much \in BOOLEAN : much <=> Taken(cells) > U
      OBVIOUS
    <2>6. CursorsOfInsert(at, much, there, cur')
      BY <1>4, <2>1, <2>2, <2>3, <2>5 DEF insertCell, PlaceOfInsert, CursorsOfInsert, Taken
    <2>7. PICK kept \in BOOLEAN : kept <=> save
      OBVIOUS
    <2>8. /\ much => op' = [kind |-> "insert", key |-> k, save |-> kept, at |-> ix]
          /\ ~much => op' = Idle
      BY <1>4, <2>1, <2>2, <2>3, <2>5, <2>7 DEF insertCell, PlaceOfInsert, Taken
    <2> QED BY <1>1, <1>2, <1>4, <2>1, <2>2, <2>4, <2>5, <2>6, <2>8, CellInserted
  <1>5. TreeLeft(node', file', cur', op')
    BY <1>1, <1>3, <1>4
  <1>6. writes' \in 0 .. scene.writes
    BY <1>1, SceneIs DEF BtreeInv
  <1> QED BY <1>1, <1>5, <1>6, InvLeft

\* A cell goes from a leaf; its chain is freed.
LEMMA CellRemoved ==
    ASSUME NEW t, NEW nd, NEW f, TreeIn(t, nd, f), NEW pg \in DOMAIN nd, nd[pg].leaf,
           NEW ix \in 1 .. Len(nd[pg].cell), NEW g, CellsOf(nd, pg, RemoveAt(nd[pg].cell, ix), g)
    PROVE  TreeIn(t, g, FreeMany(f, nd[pg].cell[ix].ovf))
  <1> DEFINE cells == nd[pg].cell
             less == RemoveAt(cells, ix)
             len == Len(cells)
             old == cells[ix].ovf
  <1>1. Nodes(nd) /\ Shapes(t, nd) /\ Levelled(nd) /\ OneParent(nd) /\ Owned(nd, f)
    BY DEF TreeIn
  <1>2. /\ cells \in Seq(CellType) /\ len \in Nat /\ pg \in Nat
    BY <1>1, NodeIs
  <1>0. CellsOf(nd, pg, less, g)
    OBVIOUS
  <1>3. /\ Nodes(g) /\ DOMAIN g = DOMAIN nd /\ g[pg].cell = less /\ (g[pg].leaf <=> nd[pg].leaf)
        /\ \A p \in DOMAIN nd : p # pg => g[p] = nd[p]
    <2> HIDE DEF less
    <2> QED BY <1>0, <1>1, CellsOfIs
  <1>4. /\ less \in Seq(CellType) /\ Len(less) = len - 1
        /\ \A j \in 1 .. len - 1 : less[j] = IF j < ix THEN cells[j] ELSE cells[j + 1]
    BY <1>2, Removed
  <1> HIDE DEF less
  <1>5. SameShape(nd, g)
    <2>1. g[pg].leaf = nd[pg].leaf
      BY <1>1, <1>3, NodeIs
    <2> QED BY <1>3, <2>1 DEF SameShape
  <1>6. Levelled(g) /\ OneParent(g)
    BY <1>1, <1>5, SameTree
  <1>7. Shapes(t, g)
    <2>1. ASSUME NEW p \in DOMAIN g, NEW j \in 1 .. Len(g[p].cell) PROVE CellFits(t, g[p].leaf, g[p].cell[j])
      <3>1. CASE p # pg
        BY <1>1, <1>3, <2>1, <3>1 DEF Shapes
      <3>2. CASE p = pg
        <4>1. j \in 1 .. len - 1 /\ g[p].leaf = nd[pg].leaf /\ g[p].cell[j] = less[j]
          BY <1>1, <1>3, <1>4, <3>2, NodeIs
        <4>2. j \in 1 .. len /\ j + 1 \in 1 .. len
          BY <1>2, <4>1
        <4>3. \A i \in 1 .. len : CellFits(t, nd[pg].leaf, cells[i])
          BY <1>1, <1>3, <3>2 DEF Shapes
        <4> QED BY <1>4, <4>1, <4>2, <4>3
      <3> QED BY <3>1, <3>2
    <2> QED BY <2>1 DEF Shapes
  <1> DEFINE d == <<pg, ix>>
             e == <<pg, 0>>
             V == CellSpots(g) \ {e}
             at == [v \in V |-> IF v[1] = pg /\ v[2] >= ix THEN <<pg, v[2] + 1>> ELSE v]
  <1>8. /\ e \notin CellSpots(g) /\ d \in CellSpots(nd) /\ OvfAt(nd, d) = old
        /\ old \in Seq(Nat)
    <2>1. e[2] = 0
      OBVIOUS
    <2>2. e \notin CellSpots(g)
      BY <2>1, CellSpotIs
    <2>3. d \in CellSpots(nd) /\ OvfAt(nd, d) = old
      BY CellSpotMade
    <2>4. old \in Seq(Nat)
      <3> HIDE DEF d, old
      <3> QED BY <1>1, <2>3, CellSpotType
    <2> QED BY <2>2, <2>3, <2>4
  <1>9. Moves(nd, CellSpots(nd) \ {d}, g, V, at)
    <2>1. ASSUME NEW v \in V
          PROVE  /\ at[v] \in CellSpots(nd) \ {d} /\ OvfAt(nd, at[v]) = OvfAt(g, v)
                 /\ v = (IF at[v][1] = pg /\ at[v][2] > ix THEN <<pg, at[v][2] - 1>> ELSE at[v])
      <3>1. /\ v = <<v[1], v[2]>> /\ v[1] \in DOMAIN nd /\ v[2] \in Nat
            /\ v[2] \in 1 .. Len(g[v[1]].cell) /\ v \in CellSpots(g)
        BY <1>3, CellSpotIs
      <3>2. CASE v[1] = pg /\ v[2] >= ix
        <4>1. at[v] = <<pg, v[2] + 1>> /\ at[v][1] = pg /\ at[v][2] = v[2] + 1
          BY <3>2
        <4>2. v[2] + 1 \in 1 .. len /\ v[2] \in 1 .. len - 1 /\ v[2] + 1 > ix /\ (v[2] + 1) - 1 = v[2]
              /\ ~(v[2] < ix)
          BY <1>2, <1>3, <1>4, <3>1, <3>2
        <4>3. at[v] \in CellSpots(nd) /\ OvfAt(nd, at[v]) = cells[v[2] + 1].ovf
          BY <4>1, <4>2, CellSpotMade
        <4>4. OvfAt(g, v) = less[v[2]].ovf /\ less[v[2]] = cells[v[2] + 1]
          BY <1>3, <1>4, <3>2, <4>2 DEF OvfAt
        <4>5. at[v] # d
          BY <4>1, <4>2
        <4> QED BY <3>1, <3>2, <4>1, <4>2, <4>3, <4>4, <4>5
      <3>3. CASE ~(v[1] = pg /\ v[2] >= ix)
        <4>1. at[v] = v
          BY <3>3
        <4>2. CASE v[1] # pg
          <5>1. v \in CellSpots(nd) /\ OvfAt(nd, v) = OvfAt(g, v)
            <6>1. g[v[1]] = nd[v[1]]
              BY <1>3, <3>1, <4>2
            <6> QED BY <3>1, <6>1, CellSpotIs DEF OvfAt
          <5>2. v # d
            BY <4>2
          <5> QED BY <3>1, <4>1, <4>2, <5>1, <5>2
        <4>3. CASE v[1] = pg
          <5>1. v[2] < ix /\ v[2] \in 1 .. len /\ v[2] \in 1 .. len - 1
            BY <1>2, <1>3, <1>4, <3>1, <3>3, <4>3
          <5>2. v \in CellSpots(nd) /\ v # d
            BY <3>1, <4>3, <5>1, CellSpotIs
          <5>3. less[v[2]] = cells[v[2]]
            BY <1>4, <5>1
          <5>4. OvfAt(nd, v) = OvfAt(g, v)
            BY <1>3, <4>3, <5>3 DEF OvfAt
          <5>5. ~(v[2] > ix)
            BY <1>2, <5>1
          <5> QED BY <4>1, <4>3, <5>2, <5>4, <5>5
        <4> QED BY <4>2, <4>3
      <3> QED BY <3>2, <3>3
    <2>2. ASSUME NEW s \in CellSpots(nd) \ {d} PROVE \E v \in V : at[v] = s
      <3>1. s = <<s[1], s[2]>> /\ s[1] \in DOMAIN nd /\ s[2] \in Nat /\ s[2] \in 1 .. Len(nd[s[1]].cell)
        BY CellSpotIs
      <3>2. CASE s[1] = pg /\ s[2] > ix
        <4>1. s[2] - 1 \in 1 .. Len(g[pg].cell) /\ s[2] - 1 >= ix /\ (s[2] - 1) + 1 = s[2] /\ s[2] - 1 # 0
          BY <1>2, <1>3, <1>4, <3>1, <3>2
        <4>2. <<pg, s[2] - 1>> \in CellSpots(g)
          BY <1>3, <4>1, CellSpotMade
        <4>3. <<pg, s[2] - 1>> \in V
          BY <4>1, <4>2
        <4>4. at[<<pg, s[2] - 1>>] = <<pg, s[2]>>
          BY <4>1, <4>3
        <4> QED BY <3>1, <3>2, <4>3, <4>4
      <3>3. CASE ~(s[1] = pg /\ s[2] > ix)
        <4>1. s[1] \in DOMAIN g /\ s[2] \in 1 .. Len(g[s[1]].cell) /\ ~(s[1] = pg /\ s[2] >= ix)
          <5>1. CASE s[1] = pg
            <6>1. s[2] # ix
              BY <2>2, <3>1, <5>1
            <6> QED BY <1>2, <1>3, <1>4, <3>1, <3>3, <5>1, <6>1
          <5>2. CASE s[1] # pg
            BY <1>3, <3>1, <5>2
          <5> QED BY <5>1, <5>2
        <4>2. s \in CellSpots(g) /\ s # e
          BY <3>1, <4>1, CellSpotIs
        <4> QED BY <4>1, <4>2
      <3> QED BY <3>2, <3>3
    <2>4. \A u, v \in V : at[u] = at[v] => u = v
      BY <2>1
    <2> HIDE DEF V, at, d
    <2> QED BY <2>1, <2>2, <2>4 DEF Moves
  <1>10. Owned(g, FreeMany(f, old))
    <2>1. Taken1(f, [pgs |-> << >>, file |-> f], 0)
      BY <1>1, TakenNone DEF Owned
    <2>2. PICK m : m = [pgs |-> << >>, file |-> f]
      OBVIOUS
    <2>3. Taken1(f, m, 0) /\ m.file = f /\ 0 \in Nat
      BY <2>1, <2>2
    <2> HIDE DEF d, e, at, old
    <2>4. Owned(g, FreeMany(m.file, old))
      BY <1>1, <1>3, <1>8, <1>9, <2>3, Rewritten
    <2> QED BY <2>3, <2>4
  <1> QED BY <1>3, <1>6, <1>7, <1>10 DEF TreeIn

\* The last cell of one page, which is a leaf, takes the place of a cell of another.
GivesWay(nd, pg, ix, from, g) ==
    g = [nd EXCEPT ![pg].cell[ix] = [Last(nd[from].cell) EXCEPT !.left = nd[pg].cell[ix].left],
                   ![from].cell = Front(@)]
Raises(nd, pg, ix, from, g) ==
    /\ pg \in DOMAIN nd /\ from \in DOMAIN nd /\ pg # from
    /\ ix \in 1 .. Len(nd[pg].cell) /\ ~nd[pg].leaf /\ nd[from].leaf /\ Len(nd[from].cell) > 0
    /\ GivesWay(nd, pg, ix, from, g)

\* Raising a leaf's last cell to an interior page, cell by cell.
LEMMA RaisesIs ==
    ASSUME NEW nd, Nodes(nd), NEW pg, NEW ix, NEW from, NEW g, Raises(nd, pg, ix, from, g)
    PROVE  LET L == Len(nd[from].cell) IN
           /\ Nodes(g) /\ DOMAIN g = DOMAIN nd
           /\ \A p \in DOMAIN nd : p # pg /\ p # from => g[p] = nd[p]
           /\ \A p \in DOMAIN nd : (g[p].leaf <=> nd[p].leaf) /\ g[p].right = nd[p].right
           /\ nd[from].cell[L] \in CellType /\ L \in Nat /\ L > 0
           /\ Len(g[pg].cell) = Len(nd[pg].cell)
           /\ \A j \in 1 .. Len(nd[pg].cell) : j # ix => g[pg].cell[j] = nd[pg].cell[j]
           /\ g[pg].cell[ix].left = nd[pg].cell[ix].left /\ g[pg].cell[ix].ovf = nd[from].cell[L].ovf
           /\ g[pg].cell[ix].sz = nd[from].cell[L].sz
           /\ Len(g[from].cell) = L - 1 /\ g[from].cell = SubSeq(nd[from].cell, 1, L - 1)
           /\ \A j \in 1 .. L - 1 : g[from].cell[j] = nd[from].cell[j]
  <1> DEFINE L == Len(nd[from].cell)
             moved == nd[from].cell[L]
             c == [moved EXCEPT !.left = nd[pg].cell[ix].left]
  <1>1. /\ pg \in DOMAIN nd /\ from \in DOMAIN nd /\ pg # from
        /\ ix \in 1 .. Len(nd[pg].cell) /\ ~nd[pg].leaf /\ nd[from].leaf /\ L > 0
        /\ g = [nd EXCEPT ![pg].cell[ix] = [Last(nd[from].cell) EXCEPT !.left = nd[pg].cell[ix].left],
                          ![from].cell = Front(@)]
    BY DEF Raises, GivesWay
  <1>2. /\ nd \in [DOMAIN nd -> NodeType] /\ DOMAIN nd \subseteq Nat /\ ROOT \in DOMAIN nd
    BY DEF Nodes
  <1>3. /\ nd[pg] \in NodeType /\ nd[from] \in NodeType /\ L \in Nat
        /\ nd[pg].cell \in Seq(CellType) /\ nd[from].cell \in Seq(CellType)
    BY <1>1, NodeIs
  <1>4. moved \in CellType /\ nd[pg].cell[ix] \in CellType
    BY <1>1, <1>3
  <1>5. c \in CellType
    BY <1>4 DEF CellType
  <1>14. c.left = nd[pg].cell[ix].left /\ c.ovf = moved.ovf /\ c.sz = moved.sz
    <2> HIDE DEF moved
    <2> QED BY <1>4 DEF CellType
  <1>6. Last(nd[from].cell) = moved /\ Front(nd[from].cell) = SubSeq(nd[from].cell, 1, L - 1)
    BY DEF Last, Front
  <1> HIDE DEF c, moved
  <1>7. /\ DOMAIN g = DOMAIN nd
        /\ g[pg] = [nd[pg] EXCEPT !.cell = [nd[pg].cell EXCEPT ![ix] = c]]
        /\ g[from] = [nd[from] EXCEPT !.cell = Front(nd[from].cell)]
        /\ \A p \in DOMAIN nd : p # pg /\ p # from => g[p] = nd[p]
    <2>1. c = [Last(nd[from].cell) EXCEPT !.left = nd[pg].cell[ix].left]
      BY <1>6 DEF c
    <2> QED BY <1>1, <2>1
  <1>8. LET t == SubSeq(nd[from].cell, 1, L - 1) IN
        t \in Seq(CellType) /\ Len(t) = L - 1 /\ \A j \in 1 .. L - 1 : t[j] = nd[from].cell[j]
    <2>1. 0 \in 0 .. Len(nd[from].cell) /\ L - 1 \in 0 .. Len(nd[from].cell) /\ 0 <= L - 1
      BY <1>1, <1>3
    <2>2. LET t == SubSeq(nd[from].cell, 0 + 1, L - 1) IN
          /\ t \in Seq(CellType) /\ Len(t) = L - 1 - 0
          /\ \A j \in 1 .. L - 1 - 0 : t[j] = nd[from].cell[0 + j]
      BY <1>3, <2>1, PartOfCells
    <2>3. 0 + 1 = 1 /\ L - 1 - 0 = L - 1 /\ \A j \in 1 .. L - 1 : 0 + j = j
      BY <1>3
    <2> QED BY <2>2, <2>3
  <1>9. /\ g[pg].cell = [nd[pg].cell EXCEPT ![ix] = c] /\ (g[pg].leaf <=> nd[pg].leaf)
        /\ g[pg].right = nd[pg].right /\ g[pg] \in NodeType
    <2>1. [nd[pg].cell EXCEPT ![ix] = c] \in Seq(CellType)
      BY <1>1, <1>3, <1>5
    <2>2. PICK t : t = [nd[pg].cell EXCEPT ![ix] = c]
      OBVIOUS
    <2>3. g[pg] = [nd[pg] EXCEPT !.cell = t] /\ t \in Seq(CellType)
      BY <1>7, <2>1, <2>2
    <2>4. g[pg].cell = t /\ g[pg] \in NodeType /\ g[pg].right = nd[pg].right /\ (g[pg].leaf <=> nd[pg].leaf)
      BY <1>3, <2>3 DEF NodeType
    <2> QED BY <2>2, <2>4
  <1>10. /\ g[from].cell = SubSeq(nd[from].cell, 1, L - 1) /\ (g[from].leaf <=> nd[from].leaf)
         /\ g[from].right = nd[from].right /\ g[from] \in NodeType
    <2>1. PICK t : t = SubSeq(nd[from].cell, 1, L - 1)
      OBVIOUS
    <2>2. t \in Seq(CellType)
      BY <1>8, <2>1
    <2>3. g[from] = [nd[from] EXCEPT !.cell = t]
      BY <1>6, <1>7, <2>1
    <2>4. g[from].cell = t /\ g[from] \in NodeType /\ g[from].right = nd[from].right /\ (g[from].leaf <=> nd[from].leaf)
      BY <1>3, <2>2, <2>3 DEF NodeType
    <2> QED BY <2>1, <2>4
  <1>11. \A p \in DOMAIN nd : g[p] \in NodeType /\ (g[p].leaf <=> nd[p].leaf) /\ g[p].right = nd[p].right
    BY <1>2, <1>7, <1>9, <1>10
  <1>12. Nodes(g)
    <2>1. g = [p \in DOMAIN nd |-> g[p]]
      BY <1>1
    <2>2. g \in [DOMAIN g -> NodeType]
      BY <1>7, <1>11, <2>1
    <2> QED BY <1>2, <1>7, <2>2 DEF Nodes
  <1>13. /\ Len(g[pg].cell) = Len(nd[pg].cell)
         /\ \A j \in 1 .. Len(nd[pg].cell) :
               /\ j # ix => g[pg].cell[j] = nd[pg].cell[j]
               /\ j = ix => g[pg].cell[j] = c
    BY <1>3, <1>9
  <1>15. /\ g[pg].cell[ix].left = nd[pg].cell[ix].left /\ g[pg].cell[ix].ovf = nd[from].cell[L].ovf
         /\ g[pg].cell[ix].sz = nd[from].cell[L].sz /\ nd[from].cell[L] \in CellType
    BY <1>1, <1>4, <1>13, <1>14 DEF moved
  <1>16. /\ Len(g[from].cell) = L - 1 /\ g[from].cell = SubSeq(nd[from].cell, 1, L - 1)
         /\ \A j \in 1 .. L - 1 : g[from].cell[j] = nd[from].cell[j]
    BY <1>8, <1>10
  <1>17. /\ Len(g[pg].cell) = Len(nd[pg].cell)
         /\ \A j \in 1 .. Len(nd[pg].cell) : j # ix => g[pg].cell[j] = nd[pg].cell[j]
    BY <1>13
  <1>18. L \in Nat /\ L > 0
    BY <1>1, <1>3
  <1>19. \A p \in DOMAIN nd : (g[p].leaf <=> nd[p].leaf) /\ g[p].right = nd[p].right
    BY <1>11
  <1>20. DOMAIN g = DOMAIN nd /\ \A p \in DOMAIN nd : p # pg /\ p # from => g[p] = nd[p]
    BY <1>7
  <1> HIDE DEF L
  <1> QED BY <1>12, <1>15, <1>16, <1>17, <1>18, <1>19, <1>20 DEF L

\* A deleted interior cell is replaced by the last one before it: the tree stays sound.
LEMMA CellRaised ==
    ASSUME NEW nd, NEW f, TreeIn(FALSE, nd, f), NEW pg, NEW ix, NEW from, NEW g, Raises(nd, pg, ix, from, g)
    PROVE  /\ TreeIn(FALSE, g, FreeMany(f, nd[pg].cell[ix].ovf))
           /\ \A way : IsPath(nd, way) => IsPath(g, way)
  <1> DEFINE L == Len(nd[from].cell)
             moved == nd[from].cell[L]
             len == Len(nd[pg].cell)
             old == nd[pg].cell[ix].ovf
  <1>1. Nodes(nd) /\ Shapes(FALSE, nd) /\ Levelled(nd) /\ OneParent(nd) /\ Owned(nd, f)
    BY DEF TreeIn
  <1>2. /\ pg \in DOMAIN nd /\ from \in DOMAIN nd /\ pg # from
        /\ ix \in 1 .. len /\ ~nd[pg].leaf /\ nd[from].leaf /\ L > 0
    BY DEF Raises
  <1>3. /\ Nodes(g) /\ DOMAIN g = DOMAIN nd
        /\ \A p \in DOMAIN nd : p # pg /\ p # from => g[p] = nd[p]
        /\ \A p \in DOMAIN nd : (g[p].leaf <=> nd[p].leaf) /\ g[p].right = nd[p].right
        /\ moved \in CellType /\ L \in Nat
        /\ Len(g[pg].cell) = len
        /\ \A j \in 1 .. len : j # ix => g[pg].cell[j] = nd[pg].cell[j]
        /\ g[pg].cell[ix].left = nd[pg].cell[ix].left /\ g[pg].cell[ix].ovf = moved.ovf
        /\ g[pg].cell[ix].sz = moved.sz
        /\ Len(g[from].cell) = L - 1
        /\ \A j \in 1 .. L - 1 : g[from].cell[j] = nd[from].cell[j]
    BY <1>1, RaisesIs
  <1>4. len \in Nat /\ pg \in Nat /\ from \in Nat /\ nd[pg].cell[ix] \in CellType
    <2>1. nd[pg].cell \in Seq(CellType)
      BY <1>1, <1>2, NodeIs
    <2> QED BY <1>1, <1>2, <2>1, NodeIs
  <1>6. SameShape(nd, g)
    <2>1. \A p \in DOMAIN nd : g[p].leaf = nd[p].leaf
      BY <1>1, <1>3, NodeIs
    <2>2. ASSUME NEW p \in DOMAIN nd, ~nd[p].leaf
          PROVE  Turns(g[p]) = Turns(nd[p]) /\ \A j \in Turns(nd[p]) : Child(g[p], j) = Child(nd[p], j)
      <3>1. CASE p # pg
        BY <1>2, <1>3, <2>2, <3>1
      <3>2. CASE p = pg
        <4>1. Turns(g[p]) = Turns(nd[p])
          BY <1>3, <3>2 DEF Turns
        <4>2. ASSUME NEW j \in Turns(nd[p]) PROVE Child(g[p], j) = Child(nd[p], j)
          <5>1. CASE j <= len
            <6>1. j \in 1 .. len
              BY <1>4, <3>2, <4>2, <5>1 DEF Turns
            <6>2. g[pg].cell[j].left = nd[pg].cell[j].left
              BY <1>3, <6>1
            <6> QED BY <1>3, <3>2, <5>1, <6>2 DEF Child
          <5>2. CASE ~(j <= len)
            BY <1>2, <1>3, <3>2, <5>2 DEF Child
          <5> QED BY <5>1, <5>2
        <4> QED BY <4>1, <4>2
      <3> QED BY <3>1, <3>2
    <2> QED BY <1>3, <2>1, <2>2 DEF SameShape
  <1>7. Levelled(g) /\ OneParent(g) /\ \A way : IsPath(nd, way) => IsPath(g, way)
    BY <1>1, <1>6, SameTree DEF IsPath
  <1>8. \A p \in DOMAIN nd : \A j \in 1 .. Len(nd[p].cell) : nd[p].cell[j].sz <= U \div 4
    BY <1>1 DEF Shapes, CellFits
  <1>9. Shapes(FALSE, g)
    <2>1. ASSUME NEW p \in DOMAIN g, NEW j \in 1 .. Len(g[p].cell) PROVE g[p].cell[j].sz <= U \div 4
      <3>1. CASE p # pg /\ p # from
        BY <1>3, <1>8, <2>1, <3>1
      <3>2. CASE p = pg
        <4>1. L \in 1 .. L
          BY <1>2, <1>3
        <4> QED BY <1>2, <1>3, <1>8, <3>2, <4>1
      <3>3. CASE p = from
        <4>1. j \in 1 .. L - 1 /\ j \in 1 .. L
          BY <1>3, <3>3
        <4> QED BY <1>2, <1>3, <1>8, <3>3, <4>1
      <3> QED BY <3>1, <3>2, <3>3
    <2> QED BY <2>1 DEF Shapes, CellFits
  <1> DEFINE d == <<pg, ix>>
             last == <<from, L>>
             e == <<pg, 0>>
             V == CellSpots(g) \ {e}
             at == [v \in V |-> IF v = d THEN last ELSE v]
  <1>10. /\ e \notin CellSpots(g) /\ d \in CellSpots(nd) /\ OvfAt(nd, d) = old /\ old \in Seq(Nat)
         /\ last \in CellSpots(nd) /\ OvfAt(nd, last) = moved.ovf
         /\ d \in CellSpots(g) /\ OvfAt(g, d) = moved.ovf /\ d # last
    <2>1. e[2] = 0
      OBVIOUS
    <2>2. e \notin CellSpots(g)
      BY <2>1, CellSpotIs
    <2>3. d \in CellSpots(nd) /\ OvfAt(nd, d) = old
      BY <1>2, CellSpotMade
    <2>4. old \in Seq(Nat)
      BY <1>4 DEF CellType
    <2>5. L \in 1 .. L
      BY <1>2, <1>3
    <2>6. last \in CellSpots(nd) /\ OvfAt(nd, last) = moved.ovf
      BY <1>2, <2>5, CellSpotMade
    <2>7. d \in CellSpots(g) /\ OvfAt(g, d) = g[pg].cell[ix].ovf
      BY <1>2, <1>3, CellSpotMade
    <2>8. d # last
      BY <1>2
    <2> QED BY <1>3, <2>2, <2>3, <2>4, <2>6, <2>7, <2>8
  <1>11. \A v : v # d => (v \in CellSpots(g) <=> v \in CellSpots(nd) /\ v # last)
    <2>1. ASSUME NEW v, v # d PROVE v \in CellSpots(g) <=> v \in CellSpots(nd) /\ v # last
      <3>1. v \in CellSpots(g) <=> /\ v = <<v[1], v[2]>> /\ v[1] \in DOMAIN nd /\ v[2] \in Nat
                                   /\ v[2] \in 1 .. Len(g[v[1]].cell)
        BY <1>3, CellSpotIs
      <3>2. v \in CellSpots(nd) <=> /\ v = <<v[1], v[2]>> /\ v[1] \in DOMAIN nd /\ v[2] \in Nat
                                    /\ v[2] \in 1 .. Len(nd[v[1]].cell)
        BY CellSpotIs
      <3>3. CASE v[1] = from
        <4>1. v[2] \in 1 .. L - 1 <=> v[2] \in 1 .. L /\ v[2] # L
          BY <1>2, <1>3
        <4>2. v = <<v[1], v[2]>> => (v = last <=> v[2] = L)
          BY <3>3
        <4> QED BY <1>2, <1>3, <3>1, <3>2, <3>3, <4>1, <4>2
      <3>4. CASE v[1] # from
        <4>1. v # last
          BY <3>4
        <4>2. v[1] \in DOMAIN nd => Len(g[v[1]].cell) = Len(nd[v[1]].cell)
          BY <1>3, <3>4
        <4> QED BY <3>1, <3>2, <4>1, <4>2
      <3> QED BY <3>3, <3>4
    <2> QED BY <2>1
  <1>12. \A v : v # d /\ v \in CellSpots(g) => OvfAt(g, v) = OvfAt(nd, v)
    <2>1. ASSUME NEW v, v # d, v \in CellSpots(g) PROVE g[v[1]].cell[v[2]] = nd[v[1]].cell[v[2]]
      <3>1. v = <<v[1], v[2]>> /\ v[1] \in DOMAIN nd /\ v[2] \in 1 .. Len(g[v[1]].cell)
        BY <1>3, <2>1, CellSpotIs
      <3>2. CASE v[1] = pg
        <4>1. v[2] # ix
          BY <2>1, <3>1, <3>2
        <4> QED BY <1>3, <3>1, <3>2, <4>1
      <3>3. CASE v[1] = from
        BY <1>3, <3>1, <3>3
      <3>4. CASE v[1] # pg /\ v[1] # from
        BY <1>3, <3>1, <3>4
      <3> QED BY <3>2, <3>3, <3>4
    <2> QED BY <2>1 DEF OvfAt
  <1>13. Moves(nd, CellSpots(nd) \ {d}, g, V, at)
    <2> HIDE DEF d, last, e, L, moved, old
    <2>1. \A v \in V : v \in CellSpots(g) /\ at[v] = (IF v = d THEN last ELSE v)
      OBVIOUS
    <2>2. V = CellSpots(g)
      BY <1>10
    <2>3. \A v \in V : at[v] \in CellSpots(nd) \ {d} /\ OvfAt(nd, at[v]) = OvfAt(g, v)
      BY <1>10, <1>11, <1>12, <2>1
    <2>4. \A u, v \in V : at[u] = at[v] => u = v
      BY <1>10, <1>11, <2>1
    <2>5. \A s \in CellSpots(nd) \ {d} : \E v \in V : at[v] = s
      <3> TAKE s \in CellSpots(nd) \ {d}
      <3>1. CASE s = last
        BY <1>10, <2>1, <2>2, <3>1
      <3>2. CASE s # last
        BY <1>11, <2>1, <2>2, <3>2
      <3> QED BY <3>1, <3>2
    <2> HIDE DEF V, at
    <2> QED BY <2>3, <2>4, <2>5 DEF Moves
  <1>14. Owned(g, FreeMany(f, old))
    <2>1. Taken1(f, [pgs |-> << >>, file |-> f], 0)
      BY <1>1, TakenNone DEF Owned
    <2>2. PICK m : m = [pgs |-> << >>, file |-> f]
      OBVIOUS
    <2>3. Taken1(f, m, 0) /\ m.file = f /\ 0 \in Nat
      BY <2>1, <2>2
    <2> HIDE DEF d, e, at, old, L, moved, last
    <2>4. Owned(g, FreeMany(m.file, old))
      BY <1>1, <1>3, <1>10, <1>13, <2>3, Rewritten
    <2> QED BY <2>3, <2>4
  <1> QED BY <1>3, <1>7, <1>9, <1>14 DEF TreeIn

\* The page and the place where a path ends.
EndsAt(path, pg, ix) == pg = Last(path).pg /\ ix = Last(path).ix

\* The pages once a cell is gone from the leaf at the end of the path.
LEMMA DeleteOnLeaf ==
    ASSUME NEW t, NEW nd, NEW f, TreeIn(t, nd, f), IdleFits(nd), NEW path, EntryIn(t, nd, path),
           NEW pg, NEW ix, EndsAt(path, pg, ix), nd[pg].leaf,
           NEW g, CellsOf(nd, pg, RemoveAt(nd[pg].cell, ix), g),
           NEW o, o.kind = "delete", o.at = ix, o.depth = Len(path),
           o.skipnext => U - Taken(nd[pg].cell) + nd[pg].cell[ix].sz <= nMin
    PROVE  /\ TreeIn(t, g, FreeMany(f, nd[pg].cell[ix].ovf))
           /\ IsPath(g, path) /\ BusyFits(g, path, o)
  <1>1. Nodes(nd) /\ Levelled(nd) /\ IsPath(nd, path) /\ ix \in 1 .. Len(nd[pg].cell)
    BY DEF TreeIn, EntryIn, EndsAt
  <1>2. pg \in DOMAIN nd /\ Last(path) = path[Len(path)] /\ Len(path) \in Nat \ {0}
        /\ pg = Last(path).pg
    BY <1>1, WayLast DEF IsPath, EndsAt
  <1>3. TreeIn(t, g, FreeMany(f, nd[pg].cell[ix].ovf))
    BY <1>1, <1>2, CellRemoved
  <1>4. /\ IsPath(g, path)
        /\ \A i \in 1 .. Len(path) - 1 : g[path[i].pg] = nd[path[i].pg] /\ path[i].pg # Last(path).pg
    BY <1>1, <1>2, WayStays
  <1>5. PICK less : less = RemoveAt(nd[pg].cell, ix)
    OBVIOUS
  <1>6. nd[pg].cell \in Seq(CellType) /\ Len(nd[pg].cell) \in Nat /\ Taken(nd[pg].cell) <= U
    BY <1>1, <1>2, NodeIs DEF IdleFits, Fits
  <1>7. /\ DOMAIN g = DOMAIN nd /\ g[pg].cell = less /\ (g[pg].leaf <=> nd[pg].leaf)
        /\ \A p \in DOMAIN nd : p # pg => g[p] = nd[p]
    BY <1>1, <1>5, CellsOfIs
  <1>8. Len(less) = Len(nd[pg].cell) - 1 /\ Taken(less) = Taken(nd[pg].cell) - nd[pg].cell[ix].sz
        /\ nd[pg].cell[ix].sz \in Nat /\ Taken(nd[pg].cell) \in Nat /\ Taken(less) \in Nat
    <2>1. Len(RemoveAt(nd[pg].cell, ix)) = Len(nd[pg].cell) - 1
      BY <1>1, <1>6, Removed
    <2>2. /\ Taken(RemoveAt(nd[pg].cell, ix)) = Taken(nd[pg].cell) - nd[pg].cell[ix].sz
          /\ Taken(RemoveAt(nd[pg].cell, ix)) \in Nat /\ Taken(nd[pg].cell) \in Nat
          /\ nd[pg].cell[ix].sz \in Nat
      BY <1>1, <1>6, TakenRemoved
    <2> QED BY <1>5, <2>1, <2>2
  <1>9. \A i \in 1 .. Len(path) - 1 : Fits(nd[path[i].pg]) /\ nd[path[i].pg].cell # << >>
    BY <1>1, UpIsStocked
  <1>10. OffWay(g, path)
    <2>1. OffWay(nd, path)
      BY <1>1, UpIsStocked
    <2>2. Len(path) \in 1 .. Len(path) /\ path[Len(path)].pg = pg
      BY <1>2
    <2>3. \A p \in DOMAIN g : (\A i \in 1 .. Len(path) : path[i].pg # p) => p \in DOMAIN nd /\ g[p] = nd[p]
      BY <1>7, <2>2
    <2> QED BY <2>1, <2>3 DEF OffWay
  <1>11. UpWay(g, path, o)
    BY <1>4, <1>9 DEF UpWay, PageOn
  <1>12. HereFits(g[pg], Len(path), o)
    <2>1. Fits(g[pg])
      <3>1. U \in Nat
        BY UIs
      <3>2. Taken(less) <= U
        BY <1>6, <1>8, <3>1
      <3> QED BY <1>7, <3>2 DEF Fits
    <2>2. o.skipnext => U - Taken(less) <= nMin
      BY <1>8, UIs, SMTT(30)
    <2>3. o.at \in 1 .. Len(less) + 1
      BY <1>1, <1>6, <1>8
    <2> QED BY <1>7, <2>1, <2>2, <2>3 DEF HereFits
  <1>13. PageOn(g, path, Len(path)) = g[pg]
    BY <1>2 DEF PageOn
  <1> QED BY <1>3, <1>4, <1>10, <1>11, <1>12, <1>13 DEF BusyFits

\* The pages once a cell of an interior page has given way to the one before it.
LEMMA DeleteAbove ==
    ASSUME NEW nd, NEW f, TreeIn(FALSE, nd, f), IdleFits(nd), NEW path, EntryIn(FALSE, nd, path),
           NEW pg, NEW ix, EndsAt(path, pg, ix), ~nd[pg].leaf,
           NEW down, IsPath(nd, down), Len(down) > Len(path), nd[Last(down).pg].leaf,
           nd[Last(down).pg].cell # << >>,
           \A i \in 1 .. Len(path) : down[i] = path[i],
           NEW from, NEW last, EndsAt(down, from, last),
           NEW g, GivesWay(nd, pg, ix, from, g),
           NEW o, o.kind = "delete", o.at = ix, o.depth = Len(path), ~o.skipnext
    PROVE  /\ TreeIn(FALSE, g, FreeMany(f, nd[pg].cell[ix].ovf))
           /\ IsPath(g, down) /\ BusyFits(g, down, o)
  <1>1. Nodes(nd) /\ Levelled(nd) /\ IsPath(nd, path) /\ ix \in 1 .. Len(nd[pg].cell)
    BY DEF TreeIn, EntryIn, EndsAt
  <1>2. pg \in DOMAIN nd /\ Last(path) = path[Len(path)] /\ Len(path) \in Nat \ {0}
        /\ pg = Last(path).pg
    BY <1>1, WayLast DEF IsPath, EndsAt
  <1>3. from \in DOMAIN nd /\ Last(down) = down[Len(down)] /\ Len(down) \in Nat \ {0}
        /\ from = Last(down).pg
    BY WayLast DEF IsPath, EndsAt
  <1>4. \A i, j \in 1 .. Len(down) : down[i].pg = down[j].pg => i = j
    BY <1>1, WayOnce DEF IsPath
  <1>5. /\ Len(path) \in 1 .. Len(down) /\ Len(down) \in 1 .. Len(down) /\ down[Len(path)].pg = pg
        /\ down[Len(down)].pg = from /\ Len(path) # Len(down)
    <2>1. Len(path) \in 1 .. Len(down) /\ Len(path) \in 1 .. Len(path) /\ Len(path) # Len(down)
      BY <1>2, <1>3
    <2> QED BY <1>2, <1>3, <2>1
  <1>6. pg # from
    BY <1>4, <1>5
  <1>7. nd[from].cell \in Seq(CellType) /\ Len(nd[from].cell) > 0 /\ Len(nd[from].cell) \in Nat
    BY <1>1, <1>3, NodeIs
  <1>8. Raises(nd, pg, ix, from, g)
    BY <1>1, <1>2, <1>3, <1>6, <1>7 DEF Raises, GivesWay
  <1>9. TreeIn(FALSE, g, FreeMany(f, nd[pg].cell[ix].ovf)) /\ IsPath(g, down)
    BY <1>8, CellRaised
  <1>10. LET L == Len(nd[from].cell) IN
         /\ DOMAIN g = DOMAIN nd
         /\ \A p \in DOMAIN nd : p # pg /\ p # from => g[p] = nd[p]
         /\ \A p \in DOMAIN nd : g[p].leaf <=> nd[p].leaf
         /\ Len(g[pg].cell) = Len(nd[pg].cell)
         /\ g[from].cell = SubSeq(nd[from].cell, 1, L - 1)
    BY <1>1, <1>8, RaisesIs
  <1>11. \A i \in 1 .. Len(down) - 1 : Fits(nd[down[i].pg]) /\ nd[down[i].pg].cell # << >>
    BY <1>1, UpIsStocked
  <1>12. OffWay(g, down)
    <2>1. OffWay(nd, down)
      BY <1>1, UpIsStocked
    <2>2. \A p \in DOMAIN g : (\A i \in 1 .. Len(down) : down[i].pg # p) => p \in DOMAIN nd /\ g[p] = nd[p]
      BY <1>5, <1>10
    <2> QED BY <2>1, <2>2 DEF OffWay
  <1>13. UpWay(g, down, o)
    <2>1. ASSUME NEW i \in 1 .. Len(down) - 1
          PROVE  (Fits(g[down[i].pg]) \/ i = o.depth) /\ g[down[i].pg].cell # << >>
      <3>1. i \in 1 .. Len(down) /\ i # Len(down) /\ down[i].pg \in DOMAIN nd
        BY <1>3 DEF IsPath, IsWay
      <3>2. down[i].pg # from
        BY <1>4, <1>5, <3>1
      <3>3. CASE i = Len(path)
        <4>1. down[i].pg = pg
          BY <1>5, <3>3
        <4>2. Len(g[pg].cell) > 0
          BY <1>1, <1>2, <1>10, NodeIs
        <4> QED BY <3>3, <4>1, <4>2
      <3>4. CASE i # Len(path)
        <4>1. down[i].pg # pg
          BY <1>4, <1>5, <3>1, <3>4
        <4> QED BY <1>10, <1>11, <3>1, <3>2, <4>1
      <3> QED BY <3>3, <3>4
    <2> QED BY <2>1 DEF UpWay, PageOn
  <1>14. Fits(g[from])
    <2>1. PICK cells : cells = nd[from].cell
      OBVIOUS
    <2>2. cells \in Seq(CellType) /\ Len(cells) \in Nat /\ Len(cells) > 0 /\ Taken(cells) <= U
      BY <1>3, <1>7, <2>1 DEF IdleFits, Fits
    <2>3. 0 \in 0 .. Len(cells) /\ Len(cells) - 1 \in 0 .. Len(cells) /\ Len(cells) \in 0 .. Len(cells)
          /\ 0 <= Len(cells) - 1 /\ 0 + 1 = 1 /\ Len(cells) - 1 <= Len(cells)
      BY <2>2
    <2>4. Taken(SubSeq(cells, 0 + 1, Len(cells) - 1)) = Held(Sizes(cells), 0, Len(cells) - 1)
      BY <2>2, <2>3, TakenOfPart
    <2>5. /\ Taken(cells) = Held(Sizes(cells), 0, Len(cells)) /\ Taken(cells) \in Nat
          /\ Held(Sizes(cells), 0, Len(cells) - 1) \in Nat /\ Held(Sizes(cells), Len(cells) - 1, Len(cells)) \in Nat
          /\ Held(Sizes(cells), 0, Len(cells) - 1) + Held(Sizes(cells), Len(cells) - 1, Len(cells))
                = Held(Sizes(cells), 0, Len(cells))
      BY <2>2, <2>3, TakenParts
    <2>6. Taken(SubSeq(cells, 1, Len(cells) - 1)) <= U
      BY <2>2, <2>3, <2>4, <2>5, UIs
    <2> QED BY <1>10, <2>1, <2>6 DEF Fits
  <1>15. HereFits(g[from], Len(down), o)
    BY <1>3, <1>10, <1>14 DEF HereFits
  <1>16. PageOn(g, down, Len(down)) = g[from]
    BY <1>3 DEF PageOn
  <1> QED BY <1>9, <1>12, <1>13, <1>15, <1>16 DEF BusyFits

\* From an interior page the entry before is the last one of a leaf below.
LEMMA PreviousBelow ==
    ASSUME Readable, NEW path, OnEntry(path), ~node[Last(path).pg].leaf,
           NEW down, down = btreePrevious(path)
    PROVE  /\ IsPath(node, down) /\ OnEntry(down) /\ Len(down) > Len(path) /\ node[Last(down).pg].leaf
           /\ node[Last(down).pg].cell # << >> /\ Last(path).ix \in 1 .. Len(node[Last(path).pg].cell)
           /\ \A i \in 1 .. Len(path) : down[i] = path[i]
           /\ down[Len(path) + 1].pg = node[Last(path).pg].cell[Last(path).ix].left
  <1>1. /\ IsPath(node, path) /\ Last(path).ix \in DOMAIN node[Last(path).pg].cell /\ Nodes(node)
    BY DEF OnEntry, Readable
  <1>2. Last(path).pg \in DOMAIN node /\ Len(path) \in Nat \ {0} /\ IsWay(node, path, ROOT)
    BY <1>1, WayLast DEF IsPath
  <1>3. /\ Last(path).ix \in 1 .. Len(node[Last(path).pg].cell) /\ Last(path).ix \in Turns(node[Last(path).pg])
        /\ Last(path).ix <= Len(node[Last(path).pg].cell)
    <2>1. Len(node[Last(path).pg].cell) \in Nat
          /\ DOMAIN node[Last(path).pg].cell = 1 .. Len(node[Last(path).pg].cell)
      BY <1>1, <1>2, NodeIs
    <2> QED BY <1>1, <2>1 DEF Turns
  <1>4. PICK kid : kid = Child(node[Last(path).pg], Last(path).ix)
    OBVIOUS
  <1>5. kid \in DOMAIN node /\ kid # ROOT
    BY <1>2, <1>3, <1>4, ChildIs
  <1>6. kid = node[Last(path).pg].cell[Last(path).ix].left
    BY <1>3, <1>4 DEF Child
  <1>7. PICK way : way = moveToRightmost(kid)
    OBVIOUS
  <1>8. /\ IsWay(node, way, kid) /\ node[Last(way).pg].leaf
        /\ Last(way).ix \in DOMAIN node[Last(way).pg].cell
    BY <1>5, <1>7, RightmostIs DEF OnLeafOf
  <1>9. Last(way).pg \in DOMAIN node /\ Len(way) \in Nat \ {0} /\ way[1].pg = kid
    BY <1>8, WayLast DEF IsWay
  <1>10. down = path \o way
    BY <1>4, <1>7 DEF btreePrevious, LastBefore
  <1>11. /\ IsWay(node, path \o way, ROOT) /\ Last(path \o way) = Last(way)
         /\ Len(path \o way) = Len(path) + Len(way)
         /\ \A i \in 1 .. Len(path) : (path \o way)[i] = path[i]
         /\ \A i \in 1 .. Len(way) : (path \o way)[Len(path) + i] = way[i]
    BY <1>2, <1>3, <1>4, <1>8, WaysJoin
  <1>12. OnEntry(down) /\ Last(down) = Last(way)
    BY <1>1, <1>3, <1>4, <1>8, <1>10, BelowIsEntry DEF OnLeafOf
  <1>13. Len(down) > Len(path)
    BY <1>2, <1>9, <1>10, <1>11
  <1>14. down[Len(path) + 1].pg = kid
    <2>1. 1 \in 1 .. Len(way)
      BY <1>9
    <2> QED BY <1>9, <1>10, <1>11, <2>1
  <1>15. node[Last(way).pg].cell # << >>
    BY <1>1, <1>8, <1>9, NodeIs
  <1> QED BY <1>3, <1>6, <1>8, <1>10, <1>11, <1>12, <1>13, <1>14, <1>15 DEF IsPath

\* The cursors while pages are balanced.
BusyCursors(way, cu) == cu = [saveAllCursors EXCEPT ![w] = At(way)]

\* Cursors when a balance starts.
LEMMA CursorsBusy ==
    ASSUME BtreeInv, op = Idle, NEW g, NEW way, IsPath(g, way), NEW o, o # Idle,
           NEW cu, BusyCursors(way, cu)
    PROVE  CursorsIn(intkey, g, cu, o) /\ cu[w].path = way
  <1>1. \A c \in Cursors : LET s == saveCursorPosition(cur[c]) IN
           KeptIn(intkey, s) /\ s.state \in {"INVALID", "REQUIRESEEK"} /\ s \in CursorType
    BY OthersSaved
  <1>2. /\ w \in Cursors /\ cu = [c \in Cursors |-> cu[c]] /\ cu[w] = At(way)
        /\ \A c \in Cursors : c # w => cu[c] = saveCursorPosition(cur[c])
    BY DEF saveAllCursors, Cursors, BusyCursors
  <1>3. cu[w] \in CursorType /\ cu[w].path = way /\ cu[w].valid = FALSE
    <2>1. way \in Seq(StepType)
      BY DEF IsPath, IsWay
    <2>2. At(way) \in CursorType /\ At(way).path = way /\ At(way).valid = FALSE
      BY <2>1, AtIs
    <2> QED BY <1>2, <2>2
  <1> QED BY <1>1, <1>2, <1>3 DEF CursorsIn

\* A delete starts to balance.
LEMMA DeleteKeeps ==
    ASSUME BtreeInv, NEW save \in BOOLEAN, sqlite3BtreeDelete(save)
    PROVE  BtreeInv'
  <1>1. PICK path : path = cur[w].path
    OBVIOUS
  <1>2. PICK pg, ix : EndsAt(path, pg, ix)
    BY DEF EndsAt
  <1>3. PICK down : down = btreePrevious(path)
    OBVIOUS
  <1>4. PICK from, last : EndsAt(down, from, last)
    BY DEF EndsAt
  <1>5. PICK o : o = op'
    OBVIOUS
  <1>6. /\ op = Idle /\ cur[w].state = "VALID" /\ writes < scene.writes
        /\ writes' = writes + 1 /\ UNCHANGED scene
    BY DEF sqlite3BtreeDelete
  <1>7. scene \in Scenes /\ TreeIn(intkey, node, file) /\ intkey \in BOOLEAN
    BY SceneIs DEF BtreeInv
  <1>8. /\ Readable /\ Sound(cur[w]) /\ IdleFits(node) /\ Nodes(node)
    BY <1>6, IdleIs DEF Cursors
  <1>9. OnEntry(path) /\ EntryIn(intkey, node, path)
    <2>1. OnEntry(path)
      BY <1>1, <1>6, <1>8 DEF Sound, OnTree
    <2>2. SoundIn(intkey, node, cur[w])
      BY <1>8, SoundInIs
    <2> QED BY <1>1, <1>6, <2>1, <2>2 DEF SoundIn
  <1>10. /\ IsPath(node, path) /\ Len(path) \in Nat \ {0} /\ pg \in DOMAIN node
         /\ ix \in 1 .. Len(node[pg].cell) /\ Last(path).pg = pg /\ Last(path).ix = ix
         /\ (intkey => node[pg].leaf)
    BY <1>2, <1>9, WayLast DEF EntryIn, EndsAt, IsPath
  <1>11. node[pg].leaf \in BOOLEAN /\ node[pg].cell \in Seq(CellType) /\ node[pg].cell[ix] \in CellType
    BY <1>8, <1>10, NodeIs
  <1>12. /\ o.kind = "delete" /\ o.at = ix /\ o.depth = Len(path)
         /\ o.skipnext <=> save /\ ~(~node[pg].leaf \/ nFree(node[pg]) + node[pg].cell[ix].sz > nMin)
         /\ o = [kind |-> "delete", key |-> KeyOf(cur[w]), save |-> save, at |-> ix,
                 depth |-> Len(path), skipnext |-> o.skipnext]
    BY <1>1, <1>2, <1>5 DEF sqlite3BtreeDelete, EndsAt
  <1>13. o \in Deletes
    <2>1. KeyOf(cur[w]) \in Keys
      BY <1>1, <1>8, <1>9, EntryIs DEF KeyOf
    <2>2. o.skipnext \in BOOLEAN
      BY <1>1, <1>2, <1>5 DEF sqlite3BtreeDelete, EndsAt
    <2>3. ix \in Nat \ {0} /\ Len(path) \in Nat \ {0}
      BY <1>10
    <2> QED BY <1>12, <2>1, <2>2, <2>3 DEF Deletes
  <1>14. o # Idle
    BY <1>13, OpNotIdle
  <1>15. file' = FreeMany(file, node[pg].cell[ix].ovf)
    BY <1>1, <1>2 DEF sqlite3BtreeDelete, EndsAt
  <1>16. \A way : IsPath(node', way) /\ BusyCursors(way, cur')
                  => CursorsIn(intkey, node', cur', o) /\ cur'[w].path = way
    BY <1>6, <1>14, CursorsBusy
  <1>17. TreeLeft(node', file', cur', op')
    <2>1. CASE node[pg].leaf
      <3>1. node' = [node EXCEPT ![pg].cell = RemoveAt(node[pg].cell, ix)]
        BY <1>1, <1>2, <2>1 DEF sqlite3BtreeDelete, EndsAt
      <3>2. RemoveAt(node[pg].cell, ix) \in Seq(CellType)
        BY <1>10, <1>11, Removed
      <3>3. CellsOf(node, pg, RemoveAt(node[pg].cell, ix), node')
        BY <1>10, <3>1, <3>2 DEF CellsOf
      <3>4. o.skipnext => U - Taken(node[pg].cell) + node[pg].cell[ix].sz <= nMin
        <4>1. Taken(node[pg].cell) \in Nat /\ node[pg].cell[ix].sz \in Nat /\ U \in Nat /\ nMin \in Nat
          BY <1>10, <1>11, TakenParts, UIs DEF CellType
        <4>2. nFree(node[pg]) = U - Taken(node[pg].cell)
          BY DEF nFree, Taken
        <4> QED BY <1>12, <4>1, <4>2
      <3>5. /\ TreeIn(intkey, node', FreeMany(file, node[pg].cell[ix].ovf))
            /\ IsPath(node', path) /\ BusyFits(node', path, o)
        BY <1>2, <1>7, <1>8, <1>9, <1>12, <2>1, <3>3, <3>4, DeleteOnLeaf
      <3>6. BusyCursors(path, cur')
        BY <1>1, <1>2, <2>1 DEF sqlite3BtreeDelete, EndsAt, BusyCursors
      <3>7. CursorsIn(intkey, node', cur', o) /\ cur'[w].path = path
        BY <1>16, <3>5, <3>6
      <3> QED BY <1>5, <1>13, <1>14, <1>15, <3>5, <3>7 DEF TreeLeft
    <2>2. CASE ~node[pg].leaf
      <3>0. intkey = FALSE
        BY <1>7, <1>10, <2>2
      <3>1. /\ IsPath(node, down) /\ Len(down) > Len(path) /\ node[Last(down).pg].leaf
            /\ node[Last(down).pg].cell # << >>
            /\ \A i \in 1 .. Len(path) : down[i] = path[i]
            /\ down[Len(path) + 1].pg = node[pg].cell[ix].left
        <4>1. ~node[Last(path).pg].leaf
          BY <1>10, <2>2
        <4> QED BY <1>3, <1>8, <1>9, <1>10, <4>1, PreviousBelow
      <3>2. GivesWay(node, pg, ix, from, node')
        <4>1. node' = [node EXCEPT ![pg].cell[ix] = [Last(node[from].cell) EXCEPT !.left = down[Len(path) + 1].pg],
                                   ![from].cell = Front(@)]
          BY <1>1, <1>2, <1>3, <1>4, <2>2 DEF sqlite3BtreeDelete, EndsAt
        <4> QED BY <3>1, <4>1 DEF GivesWay
      <3>3. ~o.skipnext
        BY <1>12, <2>2
      <3>4. /\ TreeIn(FALSE, node', FreeMany(file, node[pg].cell[ix].ovf))
            /\ IsPath(node', down) /\ BusyFits(node', down, o)
        BY <1>2, <1>4, <1>7, <1>8, <1>9, <1>12, <2>2, <3>0, <3>1, <3>2, <3>3, DeleteAbove, ZenonT(30)
      <3>5. BusyCursors(down, cur')
        BY <1>1, <1>2, <1>3, <2>2 DEF sqlite3BtreeDelete, EndsAt, BusyCursors
      <3>6. CursorsIn(intkey, node', cur', o) /\ cur'[w].path = down
        BY <1>16, <3>4, <3>5
      <3> QED BY <1>5, <1>13, <1>14, <1>15, <3>0, <3>4, <3>6 DEF TreeLeft
    <2> QED BY <2>1, <2>2
  <1>18. writes' \in 0 .. scene.writes
    BY <1>6, SceneIs DEF BtreeInv
  <1> QED BY <1>6, <1>17, <1>18, InvLeft

================================================================================
