---------------------------- MODULE ServicesProofs ----------------------------
(***************************************************************************)
(* Proofs about search in Services, for every value of the constants, and  *)
(* the types of all parts together, whose proofs are in the modules that   *)
(* this one extends.                                                       *)
(***************************************************************************)
EXTENDS ServicesSourcesProofs, ServicesBillingProofs, ServicesCommandsProofs, WellFoundedInduction

-----------------------------------------------------------------------------
(* Search (ProfileSearch).                                                 *)

LEMMA SearchCounting ==
    \A S : Search!Cardinality(S) = Cardinality(S) /\ (Search!IsFiniteSet(S) <=> IsFiniteSet(S))
  BY Zenon DEF Search!Cardinality, Cardinality, Search!IsFiniteSet, IsFiniteSet

LEMMA SearchFS_EmptySet ==
    /\ Search!IsFiniteSet({}) /\ Search!Cardinality({}) = 0
    /\ \A S : Search!IsFiniteSet(S) => (Search!Cardinality(S) = 0 <=> S = {})
  BY FS_EmptySet, SearchCounting

LEMMA SearchFS_CardinalityType ==
    ASSUME NEW S, Search!IsFiniteSet(S) PROVE Search!Cardinality(S) \in Nat
  BY FS_CardinalityType, SearchCounting

LEMMA SearchFS_AddElement ==
    ASSUME NEW S, NEW x, Search!IsFiniteSet(S)
    PROVE  /\ Search!IsFiniteSet(S \cup {x})
           /\ Search!Cardinality(S \cup {x}) = IF x \in S THEN Search!Cardinality(S) ELSE Search!Cardinality(S) + 1
  BY FS_AddElement, SearchCounting

LEMMA SearchFS_Subset ==
    ASSUME NEW S, NEW T, Search!IsFiniteSet(S), T \subseteq S
    PROVE  /\ Search!IsFiniteSet(T) /\ Search!Cardinality(T) <= Search!Cardinality(S)
           /\ Search!Cardinality(S) = Search!Cardinality(T) => S = T
  BY FS_Subset, SearchCounting

LEMMA SearchFS_Interval ==
    ASSUME NEW a \in Int, NEW b \in Int
    PROVE  Search!IsFiniteSet(a..b) /\ Search!Cardinality(a..b) = IF a > b THEN 0 ELSE b - a + 1
  BY FS_Interval, SearchCounting

SearchAssumptions == Search!SearchAssumption

-----------------------------------------------------------------------------
(* Sums.                                                                   *)

LEMMA HasLeast == ASSUME NEW S \in SUBSET Nat, S # {} PROVE \E m \in S : \A n \in S : m <= n
<1> DEFINE R == OpToRel(<, Nat)
<1>1. IsWellFoundedOn(R, Nat)
  BY NatLessThanWellFounded, Zenon
<1>2. \A x, y \in Nat : x < y => <<x, y>> \in R
  BY DEF OpToRel
<1> HIDE DEF R
<1>3. PICK x \in S : \A y \in S : ~(<<y, x>> \in R)
  BY <1>1, WFMin
<1>4. \A y \in S : ~(y < x)
  BY <1>2, <1>3
<1> QED
  BY <1>4

LEMMA AllNumbers ==
    ASSUME NEW S \in SUBSET Nat, 0 \in S, \A n \in S : n + 1 \in S
    PROVE  S = Nat
<1> SUFFICES ASSUME Nat \ S # {} PROVE FALSE
  OBVIOUS
<1>1. PICK m \in Nat \ S : \A n \in Nat \ S : m <= n
  BY HasLeast
<1>2. m - 1 \in S
  BY <1>1
<1> QED
  BY <1>1, <1>2

\* Sums of the first numbers, up to n of them.
SearchAddsUp(h, x, n) == h = [i \in 0..n |-> IF i = 0 THEN 0 ELSE h[i - 1] + x[i]]

LEMMA AddsAgree ==
    ASSUME NEW x, NEW m \in Nat, NEW n \in Nat, NEW g, NEW h, SearchAddsUp(g, x, m), SearchAddsUp(h, x, n)
    PROVE  \A k \in Nat : k <= m /\ k <= n => g[k] = h[k]
<1> DEFINE S == {k \in Nat : k <= m /\ k <= n => g[k] = h[k]}
<1>1. 0 \in S
  BY DEF SearchAddsUp
<1>2. ASSUME NEW k \in S PROVE k + 1 \in S
  <2> SUFFICES ASSUME k + 1 <= m, k + 1 <= n PROVE g[k + 1] = h[k + 1]
    OBVIOUS
  <2>1. g[k] = h[k] /\ k \in Nat
    OBVIOUS
  <2>2. k + 1 \in 0..m /\ k + 1 \in 0..n /\ k + 1 # 0 /\ (k + 1) - 1 = k
    BY <2>1
  <2>3. g[k + 1] = g[k] + x[k + 1]
    BY <2>2 DEF SearchAddsUp
  <2>4. h[k + 1] = h[k] + x[k + 1]
    BY <2>2 DEF SearchAddsUp
  <2> QED
    BY <2>1, <2>3, <2>4
<1>3. S = Nat
  <2> HIDE DEF S
  <2>1. S \in SUBSET Nat
    BY DEF S
  <2> QED
    BY <1>1, <1>2, <2>1, AllNumbers
<1> QED
  BY <1>3

LEMMA AddsExist == ASSUME NEW x PROVE \A n \in Nat : \E h : SearchAddsUp(h, x, n)
<1> DEFINE S == {n \in Nat : \E h : SearchAddsUp(h, x, n)}
<1>1. 0 \in S
  <2> DEFINE h == [i \in 0..0 |-> 0]
  <2>1. SearchAddsUp(h, x, 0)
    BY DEF SearchAddsUp
  <2> QED
    BY <2>1
<1>2. ASSUME NEW n \in S PROVE n + 1 \in S
  <2>1. PICK g : SearchAddsUp(g, x, n)
    OBVIOUS
  <2>0. n \in Nat
    OBVIOUS
  <2> DEFINE h == [i \in 0..(n + 1) |-> IF i = n + 1 THEN g[n] + x[n + 1] ELSE g[i]]
  <2>2. ASSUME NEW i \in 0..(n + 1)
        PROVE  h[i] = IF i = 0 THEN 0 ELSE h[i - 1] + x[i]
    <3>1. CASE i = n + 1
      BY <2>0, <3>1
    <3>2. CASE i # n + 1 /\ i # 0
      <4>1. i \in 0..n /\ i - 1 \in 0..(n + 1) /\ i - 1 # n + 1
        BY <2>0, <3>2
      <4>2. h[i] = g[i] /\ h[i - 1] = g[i - 1]
        BY <3>2, <4>1
      <4>3. g[i] = g[i - 1] + x[i]
        BY <2>1, <3>2, <4>1 DEF SearchAddsUp
      <4> QED
        BY <3>2, <4>2, <4>3
    <3>3. CASE i = 0
      <4>1. 0 \in 0..n /\ i # n + 1
        BY <2>0, <3>3
      <4>2. g[0] = 0
        BY <2>1, <4>1 DEF SearchAddsUp
      <4> QED
        BY <3>3, <4>1, <4>2
    <3> QED
      BY <3>1, <3>2, <3>3
  <2>3. h = [i \in 0..(n + 1) |-> h[i]]
    OBVIOUS
  <2>4. SearchAddsUp(h, x, n + 1)
    <3> HIDE DEF h
    <3> QED
      BY <2>2, <2>3 DEF SearchAddsUp
  <2> QED
    BY <2>0, <2>4
<1>3. S = Nat
  <2> HIDE DEF S
  <2>1. S \in SUBSET Nat
    BY DEF S
  <2> QED
    BY <1>1, <1>2, <2>1, AllNumbers
<1> QED
  BY <1>3

\* What Total sums up, step by step.
Sums(x) == CHOOSE sum : sum = [n \in Nat |-> IF n = 0 THEN 0 ELSE sum[n - 1] + x[n]]

LEMMA TotalSums == ASSUME NEW x PROVE Search!Total(x) = Sums(x)[Len(x)]
  BY DEF Search!Total, Sums

LEMMA SumsAreThere ==
    ASSUME NEW x
    PROVE  Sums(x) = [n \in Nat |-> IF n = 0 THEN 0 ELSE Sums(x)[n - 1] + x[n]]
<1> DEFINE h(n) == CHOOSE g : SearchAddsUp(g, x, n)
           sum == [n \in Nat |-> h(n)[n]]
<1>1. ASSUME NEW n \in Nat PROVE SearchAddsUp(h(n), x, n)
  BY AddsExist
<1> HIDE DEF h
<1>2. ASSUME NEW n \in Nat PROVE sum[n] = IF n = 0 THEN 0 ELSE sum[n - 1] + x[n]
  <2>1. CASE n = 0
    <3>1. h(0)[0] = 0
      BY <1>1 DEF SearchAddsUp
    <3> QED
      BY <2>1, <3>1
  <2>2. CASE n # 0
    <3>1. n - 1 \in Nat /\ n \in 0..n
      BY <2>2
    <3>2. h(n)[n] = h(n)[n - 1] + x[n]
      BY <1>1, <2>2, <3>1 DEF SearchAddsUp
    <3>3. h(n)[n - 1] = h(n - 1)[n - 1]
      BY <1>1, <3>1, AddsAgree
    <3>4. sum[n] = h(n)[n] /\ sum[n - 1] = h(n - 1)[n - 1]
      BY <3>1
    <3> QED
      BY <2>2, <3>2, <3>3, <3>4
  <2> QED
    BY <2>1, <2>2
<1>3. sum = [n \in Nat |-> sum[n]]
  OBVIOUS
<1> HIDE DEF sum
<1>4. sum = [n \in Nat |-> IF n = 0 THEN 0 ELSE sum[n - 1] + x[n]]
  BY <1>2, <1>3
<1> QED
  BY <1>4, Zenon DEF Sums

LEMMA SumsSteps ==
    ASSUME NEW x
    PROVE  Sums(x)[0] = 0 /\ \A n \in Nat : Sums(x)[n + 1] = Sums(x)[n] + x[n + 1]
<1> DEFINE s == Sums(x)
<1>1. s = [n \in Nat |-> IF n = 0 THEN 0 ELSE s[n - 1] + x[n]]
  BY SumsAreThere
<1> HIDE DEF s
<1>2. s[0] = 0
  BY <1>1
<1>3. ASSUME NEW n \in Nat PROVE s[n + 1] = s[n] + x[n + 1]
  <2>1. n + 1 \in Nat /\ n + 1 # 0 /\ (n + 1) - 1 = n
    OBVIOUS
  <2>2. s[n + 1] = IF n + 1 = 0 THEN 0 ELSE s[(n + 1) - 1] + x[n + 1]
    BY <1>1, <2>1
  <2> QED
    BY <2>1, <2>2
<1> QED
  BY <1>2, <1>3 DEF s

LEMMA SumsAbove ==
    ASSUME NEW n \in Nat, NEW x, NEW y, \A i \in 1..n : x[i] \in Nat /\ y[i] \in Nat /\ x[i] >= y[i]
    PROVE  Sums(x)[n] \in Nat /\ Sums(y)[n] \in Nat /\ Sums(x)[n] >= Sums(y)[n]
<1> DEFINE Good(k) == Sums(x)[k] \in Nat /\ Sums(y)[k] \in Nat /\ Sums(x)[k] >= Sums(y)[k]
           S == {k \in Nat : k <= n => Good(k)}
<1>1. 0 \in S
  BY SumsSteps
<1>2. ASSUME NEW k \in S PROVE k + 1 \in S
  <2> SUFFICES ASSUME k + 1 <= n PROVE Good(k + 1)
    OBVIOUS
  <2>1. k \in Nat /\ Good(k) /\ k + 1 \in 1..n
    OBVIOUS
  <2>2. x[k + 1] \in Nat /\ y[k + 1] \in Nat /\ x[k + 1] >= y[k + 1]
    BY <2>1
  <2>3. Sums(x)[k + 1] = Sums(x)[k] + x[k + 1] /\ Sums(y)[k + 1] = Sums(y)[k] + y[k + 1]
    BY <2>1, SumsSteps
  <2> QED
    BY <2>1, <2>2, <2>3
<1>3. S = Nat
  <2> HIDE DEF S
  <2>1. S \in SUBSET Nat
    BY DEF S
  <2> QED
    BY <1>1, <1>2, <2>1, AllNumbers
<1> QED
  BY <1>3

-----------------------------------------------------------------------------
(* Shares of a list.                                                       *)

LEMMA ShareFalls ==
    ASSUME NEW i \in Nat, NEW j \in Nat, i <= j
    PROVE  Search!Share(i) \in Nat /\ Search!Share(j) \in Nat /\ Search!Share(j) <= Search!Share(i)
<1> DEFINE a == Search!K + i
           b == Search!K + j
           p == Search!Whole \div a
           q == Search!Whole \div b
<1>1. Search!Whole \in Nat
  BY DEF Search!Whole
<1>2. a \in Nat \ {0} /\ b \in Nat \ {0} /\ a <= b
  BY DEF Search!K
<1> HIDE DEF a, b
<1>3. p \in Nat /\ Search!Whole < a * (p + 1)
  BY <1>1, <1>2
<1>4. q \in Nat /\ b * q <= Search!Whole
  BY <1>1, <1>2
<1> HIDE DEF p, q
<1>5. q <= p
  <2> SUFFICES ASSUME p + 1 <= q PROVE FALSE
    BY <1>3, <1>4
  <2>1. a * (p + 1) <= a * q
    BY <1>2, <1>3, <1>4
  <2>2. a * q <= b * q
    BY <1>2, <1>4
  <2>3. a * (p + 1) \in Nat /\ a * q \in Nat /\ b * q \in Nat
    BY <1>2, <1>3, <1>4
  <2> QED
    BY <1>1, <1>3, <1>4, <2>1, <2>2, <2>3
<1> QED
  BY <1>3, <1>4, <1>5 DEF Search!Share, a, b, p, q

\* How often a profile is among the first of a list, and what that is worth.
Hits(list, n, p) == Search!Cardinality({i \in 1..n : list[i] = p})
Worth(list, p) == [i \in DOMAIN list |-> IF list[i] = p THEN Search!Share(i) ELSE 0]

LEMMA HitsStep ==
    ASSUME NEW list, NEW p, NEW n \in Nat
    PROVE  /\ Hits(list, n, p) \in Nat
           /\ Hits(list, 0, p) = 0
           /\ Hits(list, n + 1, p) = Hits(list, n, p) + (IF list[n + 1] = p THEN 1 ELSE 0)
<1> DEFINE at(m) == {i \in 1..m : list[i] = p}
<1>1. Search!IsFiniteSet(at(n)) /\ Search!Cardinality(at(n)) \in Nat
  <2>1. Search!IsFiniteSet(1..n)
    BY SearchFS_Interval
  <2>2. at(n) \subseteq 1..n
    OBVIOUS
  <2> HIDE DEF at
  <2>3. Search!IsFiniteSet(at(n))
    BY <2>1, <2>2, SearchFS_Subset
  <2> QED
    BY <2>3, SearchFS_CardinalityType
<1>2. at(0) = {}
  OBVIOUS
<1>3. at(n + 1) = IF list[n + 1] = p THEN at(n) \cup {n + 1} ELSE at(n)
  OBVIOUS
<1>4. n + 1 \notin at(n)
  OBVIOUS
<1> HIDE DEF at
<1>5. Search!Cardinality(at(n) \cup {n + 1}) = Search!Cardinality(at(n)) + 1
  BY <1>1, <1>4, SearchFS_AddElement
<1>6. Search!Cardinality(at(0)) = 0
  BY <1>2, SearchFS_EmptySet
<1>7. Search!Cardinality(at(n + 1)) = Search!Cardinality(at(n)) + (IF list[n + 1] = p THEN 1 ELSE 0)
  BY <1>1, <1>3, <1>5
<1> QED
  BY <1>1, <1>6, <1>7 DEF at, Hits

\* Products, one by one.
LEMMA Scaled ==
    ASSUME NEW c \in Nat, NEW a \in Nat, NEW b \in Nat, b <= a PROVE c * b <= c * a /\ c * b \in Nat /\ c * a \in Nat
  OBVIOUS

\* Who is among the first at least as often, all the way, is worth as much: what it
\* has more of, it has where a share is at least what it is here.
LEMMA WorthAsMuch ==
    ASSUME NEW list, Len(list) \in Nat, DOMAIN list = 1..Len(list), NEW p, NEW q,
           \A n \in DOMAIN list : Hits(list, n, p) >= Hits(list, n, q)
    PROVE  /\ Search!Total(Worth(list, p)) \in Nat /\ Search!Total(Worth(list, q)) \in Nat
           /\ Search!Total(Worth(list, p)) >= Search!Total(Worth(list, q))
<1> DEFINE x == Worth(list, p)
           y == Worth(list, q)
           more(n) == Hits(list, n, p) - Hits(list, n, q)
           Good(n) == /\ Sums(x)[n] \in Nat /\ Sums(y)[n] \in Nat
                      /\ Sums(x)[n] - Sums(y)[n] >= more(n) * Search!Share(n)
           S == {n \in Nat : n <= Len(list) => Good(n)}
<1>0. \A n \in Nat : Search!Share(n) \in Nat
  BY ShareFalls
<1>1. \A n \in 0..Len(list) : more(n) \in Nat
  <2> SUFFICES ASSUME NEW n \in 0..Len(list) PROVE more(n) \in Nat
    OBVIOUS
  <2>1. Hits(list, n, p) \in Nat /\ Hits(list, n, q) \in Nat /\ Hits(list, 0, p) = 0 /\ Hits(list, 0, q) = 0
    BY HitsStep
  <2>2. Hits(list, n, p) >= Hits(list, n, q)
    BY <2>1
  <2> QED
    BY <2>1, <2>2
<1>2. 0 \in S
  <2>1. more(0) = 0 /\ Sums(x)[0] = 0 /\ Sums(y)[0] = 0 /\ Search!Share(0) \in Nat
    BY <1>0, SumsSteps, HitsStep
  <2> HIDE DEF more
  <2>2. more(0) * Search!Share(0) = 0
    BY <2>1
  <2> QED
    BY <2>1, <2>2
<1>3. ASSUME NEW n \in S PROVE n + 1 \in S
  <2> SUFFICES ASSUME n + 1 <= Len(list) PROVE Good(n + 1)
    OBVIOUS
  <2>1. n \in Nat /\ Good(n) /\ n + 1 \in 1..Len(list) /\ n \in 0..Len(list)
    OBVIOUS
  <2>2. x[n + 1] = (IF list[n + 1] = p THEN Search!Share(n + 1) ELSE 0)
        /\ y[n + 1] = (IF list[n + 1] = q THEN Search!Share(n + 1) ELSE 0)
    BY <2>1 DEF Worth
  <2>3. Sums(x)[n + 1] = Sums(x)[n] + x[n + 1] /\ Sums(y)[n + 1] = Sums(y)[n] + y[n + 1]
    BY <2>1, SumsSteps
  <2> DEFINE e == (IF list[n + 1] = p THEN 1 ELSE 0) - (IF list[n + 1] = q THEN 1 ELSE 0)
             h == Search!Share(n + 1)
             m == more(n)
             g == Search!Share(n)
             a == Sums(x)[n]
             b == Sums(y)[n]
  <2>4. more(n + 1) = m + e
    <3>1. Hits(list, n, p) \in Nat /\ Hits(list, n, q) \in Nat
      BY <2>1, HitsStep
    <3>2. /\ Hits(list, n + 1, p) = Hits(list, n, p) + (IF list[n + 1] = p THEN 1 ELSE 0)
          /\ Hits(list, n + 1, q) = Hits(list, n, q) + (IF list[n + 1] = q THEN 1 ELSE 0)
      BY <2>1, HitsStep
    <3> DEFINE hp == Hits(list, n, p)
               hq == Hits(list, n, q)
               ep == IF list[n + 1] = p THEN 1 ELSE 0
               eq == IF list[n + 1] = q THEN 1 ELSE 0
    <3>3. more(n + 1) = (hp + ep) - (hq + eq) /\ m = hp - hq /\ e = ep - eq
      BY <3>2
    <3>4. hp \in Nat /\ hq \in Nat /\ ep \in Nat /\ eq \in Nat
      BY <3>1
    <3> HIDE DEF more, hp, hq, ep, eq, m, e
    <3> QED
      BY <3>3, <3>4
  <2>5. h \in Nat /\ g \in Nat /\ h <= g /\ m \in Nat /\ a \in Nat /\ b \in Nat /\ a - b >= m * g
    BY <1>1, <2>1, ShareFalls
  <2>6. x[n + 1] - y[n + 1] = e * h /\ x[n + 1] \in Nat /\ y[n + 1] \in Nat /\ e \in Int
    <3>1. h \in Nat
      BY <2>5
    <3> HIDE DEF h
    <3>2. /\ x[n + 1] = (IF list[n + 1] = p THEN h ELSE 0)
          /\ y[n + 1] = (IF list[n + 1] = q THEN h ELSE 0)
      BY <2>2 DEF h
    <3> QED
      BY <3>1, <3>2
  <2>7. m + e \in Nat
    BY <1>1, <2>1, <2>4
  <2> HIDE DEF e, h, m, g, a, b
  <2>8. m * h <= m * g /\ m * h \in Nat /\ m * g \in Nat
    BY <2>5, Scaled
  <2>9. (m + e) * h = m * h + e * h
    BY <2>5, <2>6
  <2>10. e * h \in Int
    BY <2>5, <2>6
  <2> DEFINE eh == e * h
             mh == m * h
             mg == m * g
  <2>11. (a + x[n + 1]) - (b + y[n + 1]) >= (m + e) * h
    <3>1. eh \in Int /\ mh \in Nat /\ mg \in Nat /\ mh <= mg /\ (m + e) * h = mh + eh /\ a - b >= mg
          /\ x[n + 1] - y[n + 1] = eh
      BY <2>5, <2>6, <2>8, <2>9, <2>10
    <3> HIDE DEF eh, mh, mg
    <3> QED
      BY <2>5, <2>6, <3>1
  <2>12. a + x[n + 1] \in Nat /\ b + y[n + 1] \in Nat
    BY <2>5, <2>6, SMTT(40)
  <2>13. Sums(x)[n + 1] = a + x[n + 1] /\ Sums(y)[n + 1] = b + y[n + 1] /\ more(n + 1) * Search!Share(n + 1) = (m + e) * h
    BY <2>3, <2>4 DEF a, b, h
  <2> HIDE DEF more, x, y
  <2> QED
    BY <2>11, <2>12, <2>13
<1>4. S = Nat
  <2> HIDE DEF S
  <2>1. S \in SUBSET Nat
    BY DEF S
  <2> QED
    BY <1>2, <1>3, <2>1, AllNumbers
<1> DEFINE n == Len(list)
<1>5. Good(n) /\ more(n) \in Nat /\ Search!Share(n) \in Nat
  <2>1. n \in S
    BY <1>4
  <2>2. n <= Len(list) /\ n \in Nat /\ n \in 0..Len(list)
    OBVIOUS
  <2>3. Good(n)
    <3> HIDE DEF Good
    <3> QED
      BY <2>1, <2>2
  <2>4. more(n) \in Nat /\ Search!Share(n) \in Nat
    BY <1>0, <1>1, <2>2
  <2> HIDE DEF Good, more
  <2> QED
    BY <2>3, <2>4
<1>6. Len(x) = n /\ Len(y) = n
  BY DEF Worth
<1>7. Search!Total(x) = Sums(x)[n] /\ Search!Total(y) = Sums(y)[n]
  BY <1>6, TotalSums
<1> HIDE DEF x, y, more, n
<1>8. more(n) * Search!Share(n) \in Nat
  <2> DEFINE a == more(n)
             b == Search!Share(n)
  <2>1. a \in Nat /\ b \in Nat
    BY <1>5
  <2> HIDE DEF a, b
  <2>2. a * b \in Nat
    BY <2>1
  <2> QED
    BY <2>2 DEF a, b
<1> QED
  BY <1>5, <1>7, <1>8 DEF x, y

-----------------------------------------------------------------------------
(* Fusion.                                                                 *)

Ranks(lists, p, q) ==
    \A l \in DOMAIN lists : \A n \in DOMAIN lists[l] : Hits(lists[l], n, p) >= Hits(lists[l], n, q)

LEMMA ScoredAsHigh ==
    ASSUME NEW lists \in Seq(Seq(Profiles)), NEW p, NEW q, Ranks(lists, p, q)
    PROVE  /\ Search!RrfScore(lists, p) \in Nat /\ Search!RrfScore(lists, q) \in Nat
           /\ Search!RrfScore(lists, p) >= Search!RrfScore(lists, q)
<1> DEFINE x == [l \in DOMAIN lists |-> Search!Total(Worth(lists[l], p))]
           y == [l \in DOMAIN lists |-> Search!Total(Worth(lists[l], q))]
           n == Len(lists)
<1>1. n \in Nat /\ DOMAIN lists = 1..n
  OBVIOUS
<1>2. Len(x) = n /\ Len(y) = n
  BY <1>1
<1>3. Search!RrfScore(lists, p) = Search!Total(x) /\ Search!RrfScore(lists, q) = Search!Total(y)
  BY Zenon DEF Search!RrfScore, Worth
<1>4. ASSUME NEW l \in 1..n PROVE x[l] \in Nat /\ y[l] \in Nat /\ x[l] >= y[l]
  <2>1. lists[l] \in Seq(Profiles)
    BY <1>1
  <2>2. Len(lists[l]) \in Nat /\ DOMAIN lists[l] = 1..Len(lists[l])
    BY <2>1
  <2>3. \A k \in DOMAIN lists[l] : Hits(lists[l], k, p) >= Hits(lists[l], k, q)
    BY <1>1 DEF Ranks
  <2>4. /\ Search!Total(Worth(lists[l], p)) \in Nat /\ Search!Total(Worth(lists[l], q)) \in Nat
        /\ Search!Total(Worth(lists[l], p)) >= Search!Total(Worth(lists[l], q))
    BY <2>2, <2>3, WorthAsMuch
  <2>5. x[l] = Search!Total(Worth(lists[l], p)) /\ y[l] = Search!Total(Worth(lists[l], q))
    BY <1>1
  <2> QED
    BY <2>4, <2>5
<1> HIDE DEF x, y, n
<1>5. Sums(x)[n] \in Nat /\ Sums(y)[n] \in Nat /\ Sums(x)[n] >= Sums(y)[n]
  BY <1>1, <1>4, SumsAbove
<1>6. Search!Total(x) = Sums(x)[n] /\ Search!Total(y) = Sums(y)[n]
  BY <1>2, TotalSums
<1> QED
  BY <1>3, <1>5, <1>6

\* Who is ranked as high and as often everywhere is named first.
LEMMA NotNamedFirst ==
    ASSUME NEW lists \in Seq(Seq(Profiles)), NEW p, NEW q, Ranks(lists, p, q)
    PROVE  ~Search!NamedFirst(lists, q, p)
<1> SUFFICES ASSUME Search!NamedFirst(lists, q, p) PROVE FALSE
  OBVIOUS
<1>1. PICK l \in DOMAIN lists :
        \E i \in DOMAIN lists[l] : lists[l][i] = q /\ \A j \in 1..i : lists[l][j] # p
  BY DEF Search!NamedFirst
<1>2. PICK i \in DOMAIN lists[l] : lists[l][i] = q /\ \A j \in 1..i : lists[l][j] # p
  BY <1>1
<1>3. i \in Nat \ {0}
  <2>1. lists[l] \in Seq(Profiles)
    BY <1>1
  <2> QED
    BY <1>2, <2>1
<1>4. Hits(lists[l], i, p) = 0
  <2>1. {k \in 1..i : lists[l][k] = p} = {}
    BY <1>2
  <2> QED
    BY <2>1, SearchFS_EmptySet DEF Hits
<1>5. Hits(lists[l], i, q) >= 1
  <2>1. (i - 1) + 1 = i /\ i - 1 \in Nat
    BY <1>3
  <2>2. /\ Hits(lists[l], i - 1, q) \in Nat
        /\ Hits(lists[l], (i - 1) + 1, q) = Hits(lists[l], i - 1, q)
                                            + (IF lists[l][(i - 1) + 1] = q THEN 1 ELSE 0)
    BY <2>1, HitsStep
  <2>3. Hits(lists[l], i, q) = Hits(lists[l], i - 1, q) + (IF lists[l][i] = q THEN 1 ELSE 0)
    BY <2>1, <2>2
  <2> QED
    BY <1>2, <2>2, <2>3
<1>6. Hits(lists[l], i, p) >= Hits(lists[l], i, q)
  BY <1>1, <1>2 DEF Ranks
<1>7. Hits(lists[l], i, q) \in Nat
  BY <1>3, HitsStep
<1> QED
  BY <1>4, <1>5, <1>6, <1>7

LEMMA NeverAbove ==
    ASSUME NEW lists \in Seq(Seq(Profiles)), NEW p, NEW q, Ranks(lists, p, q)
    PROVE  ~Search!Above(lists, q, p)
<1>1. /\ Search!RrfScore(lists, p) \in Nat /\ Search!RrfScore(lists, q) \in Nat
      /\ Search!RrfScore(lists, p) >= Search!RrfScore(lists, q)
  BY ScoredAsHigh
<1>2. ~Search!NamedFirst(lists, q, p)
  BY NotNamedFirst
<1> QED
  BY <1>1, <1>2 DEF Search!Above

-----------------------------------------------------------------------------
(* Parts of sequences.                                                     *)

LEMMA TakeFirst ==
    ASSUME NEW S, NEW s \in Seq(S), NEW n \in Nat
    PROVE  /\ Search!Take(s, n) \in Seq(S) /\ Len(Search!Take(s, n)) <= n
           /\ Len(Search!Take(s, n)) \in Nat /\ Len(Search!Take(s, n)) <= Len(s)
           /\ \A i \in 1..Len(Search!Take(s, n)) : Search!Take(s, n)[i] = s[i]
<1> DEFINE m == IF n < Len(s) THEN n ELSE Len(s)
<1>1. m \in Nat /\ m <= Len(s) /\ m <= n
  OBVIOUS
<1>2. Search!Take(s, n) = SubSeq(s, 1, m)
  BY DEF Search!Take
<1> HIDE DEF m
<1>3. SubSeq(s, 1, m) \in Seq(S) /\ Len(SubSeq(s, 1, m)) = m /\ \A i \in 1..m : SubSeq(s, 1, m)[i] = s[i]
  BY <1>1
<1> QED
  BY <1>1, <1>2, <1>3

\* A part of a sequence: its members, in order.
PartOf(t, s) ==
    \E at \in [1..Len(t) -> 1..Len(s)] :
      /\ \A k \in 1..Len(t) : t[k] = s[at[k]]
      /\ \A k, n \in 1..Len(t) : k < n => at[k] < at[n]

LEMMA OnlyPart ==
    ASSUME NEW T, NEW s \in Seq(T), NEW S, NEW t \in Search!Only(s, S)
    PROVE  t \in Seq(S) /\ Len(t) \in Nat /\ Len(t) <= Len(s) /\ PartOf(t, s)
<1> DEFINE D == {i \in DOMAIN s : s[i] \in S}
           m == Search!Cardinality(D)
<1>1. m \in Nat /\ m <= Len(s) /\ D \subseteq 1..Len(s) /\ \A i \in D : s[i] \in S
  <2> DEFINE n == Len(s)
  <2>0. n \in Nat /\ D \subseteq 1..n
    OBVIOUS
  <2> HIDE DEF n
  <2>1. Search!IsFiniteSet(1..n) /\ Search!Cardinality(1..n) = n /\ D \subseteq 1..n
    BY <2>0, SearchFS_Interval
  <2> HIDE DEF D
  <2>2. Search!IsFiniteSet(D) /\ m <= n
    BY <2>1, SearchFS_Subset
  <2>3. m \in Nat
    BY <2>2, SearchFS_CardinalityType
  <2> QED
    BY <2>1, <2>2, <2>3 DEF D, n
<1>2. PICK at \in Search!SetToSeqs(D) : /\ t = [k \in DOMAIN at |-> s[at[k]]]
                                        /\ \A k, n \in DOMAIN at : k < n => at[k] < at[n]
  BY DEF Search!Only
<1>3. at \in [1..m -> D]
  BY DEF Search!SetToSeqs
<1> HIDE DEF D, m
<1>4. DOMAIN at = 1..m /\ \A k \in 1..m : t[k] = s[at[k]] /\ at[k] \in D
  BY <1>2, <1>3
<1>5. t = [k \in 1..m |-> s[at[k]]]
  BY <1>2, <1>4
<1>6. t \in [1..m -> S]
  BY <1>1, <1>4, <1>5
<1>7. t \in Seq(S) /\ Len(t) = m
  BY <1>1, <1>6
<1>8. at \in [1..Len(t) -> 1..Len(s)]
  BY <1>1, <1>3, <1>7
<1>9. PartOf(t, s)
  BY <1>2, <1>4, <1>7, <1>8 DEF PartOf
<1> QED
  BY <1>1, <1>7, <1>9

LEMMA OrderedSet ==
    ASSUME NEW S, Search!IsFiniteSet(S), NEW s \in Search!SetToSeqs(S)
    PROVE  s \in Seq(S) /\ Search!IsInjective(s)
<1> DEFINE m == Search!Cardinality(S)
<1>1. m \in Nat
  BY SearchFS_CardinalityType
<1>2. s \in [1..m -> S] /\ \A i, j \in 1..m : i # j => s[i] # s[j]
  BY DEF Search!SetToSeqs
<1> HIDE DEF m
<1> QED
  BY <1>1, <1>2 DEF Search!IsInjective

LEMMA OrdersTyped ==
    ASSUME NEW S, Search!IsFiniteSet(S), NEW n \in Nat, NEW hits \in Search!Orders(S, n)
    PROVE  hits \in Seq(S)
<1>1. PICK found \in SUBSET S : \E s \in Search!SetToSeqs(found) : hits = Search!Take(s, n)
  BY DEF Search!Orders
<1>2. PICK s \in Search!SetToSeqs(found) : hits = Search!Take(s, n)
  BY <1>1
<1>3. s \in Seq(found)
  BY SearchFS_Subset, OrderedSet
<1>4. hits \in Seq(found)
  BY <1>2, <1>3, TakeFirst
<1> QED
  BY <1>4

\* A part of a sequence without duplicates has none, and keeps its order.
LEMMA PartInjective ==
    ASSUME NEW S, NEW s \in Seq(S), NEW t \in Seq(S), PartOf(t, s), Search!IsInjective(s)
    PROVE  Search!IsInjective(t)
<1> DEFINE m == Len(t)
           n == Len(s)
<1>1. m \in Nat /\ n \in Nat /\ DOMAIN t = 1..m /\ DOMAIN s = 1..n
  OBVIOUS
<1>2. PICK at \in [1..m -> 1..n] : /\ \A k \in 1..m : t[k] = s[at[k]]
                                   /\ \A k, l \in 1..m : k < l => at[k] < at[l]
  BY DEF PartOf
<1> HIDE DEF m, n
<1> SUFFICES ASSUME NEW a \in 1..m, NEW b \in 1..m, t[a] = t[b] PROVE a = b
  BY <1>1, Zenon DEF Search!IsInjective
<1>3. at[a] \in 1..n /\ at[b] \in 1..n /\ s[at[a]] = s[at[b]]
  BY <1>2
<1>4. at[a] = at[b]
  BY <1>1, <1>3, Zenon DEF Search!IsInjective
<1>5. ~(a < b) /\ ~(b < a)
  BY <1>1, <1>2, <1>3, <1>4
<1> QED
  BY <1>1, <1>5

Falls(lists, s) == \A i, j \in DOMAIN s : i < j => Search!Above(lists, s[i], s[j])

LEMMA PartFalls ==
    ASSUME NEW S, NEW s \in Seq(S), NEW t \in Seq(S), PartOf(t, s), NEW lists, Falls(lists, s)
    PROVE  Falls(lists, t)
<1> DEFINE m == Len(t)
           n == Len(s)
<1>1. m \in Nat /\ n \in Nat /\ DOMAIN t = 1..m /\ DOMAIN s = 1..n
  OBVIOUS
<1>2. PICK at \in [1..m -> 1..n] : /\ \A k \in 1..m : t[k] = s[at[k]]
                                   /\ \A k, l \in 1..m : k < l => at[k] < at[l]
  BY DEF PartOf
<1> HIDE DEF m, n
<1> SUFFICES ASSUME NEW i \in 1..m, NEW j \in 1..m, i < j PROVE Search!Above(lists, t[i], t[j])
  BY <1>1, Zenon DEF Falls
<1>3. at[i] \in 1..n /\ at[j] \in 1..n /\ at[i] < at[j] /\ t[i] = s[at[i]] /\ t[j] = s[at[j]]
  BY <1>2
<1>4. Search!Above(lists, s[at[i]], s[at[j]])
  BY <1>1, <1>3 DEF Falls
<1> QED
  BY <1>3, <1>4

LEMMA TakePart ==
    ASSUME NEW S, NEW s \in Seq(S), NEW n \in Nat
    PROVE  PartOf(Search!Take(s, n), s)
<1> DEFINE t == Search!Take(s, n)
           m == Len(t)
           l == Len(s)
           at == [k \in 1..m |-> k]
<1>1. m \in Nat /\ m <= l /\ l \in Nat /\ \A k \in 1..m : t[k] = s[k]
  BY TakeFirst
<1> HIDE DEF t, m, l
<1>2. /\ at \in [1..m -> 1..l]
      /\ \A k \in 1..m : t[k] = s[at[k]]
      /\ \A k, j \in 1..m : k < j => at[k] < at[j]
  BY <1>1
<1> HIDE DEF at
<1> QED
  BY <1>2 DEF PartOf, m, l, t

-----------------------------------------------------------------------------
(* The search.                                                             *)

Phases == {"idle", "vector", "opensearch", "keyword", "fuse", "rerank", "fetch", "done"}
SearchRecord ==
    [pc : Phases, filter : SUBSET Search!Conditions, limit : Nat, rerank : BOOLEAN,
     lists : Seq(Seq(Profiles)), fused : Seq(Profiles), result : Seq(Profiles)]

ListsIn(pc) ==
    IF pc \in {"idle", "vector"} THEN 0..0
    ELSE IF pc = "opensearch" THEN 1..1
    ELSE IF pc = "keyword" THEN 1..2 ELSE 0..3

SearchInv(q) ==
    /\ q \in SearchRecord
    /\ Len(q.lists) \in ListsIn(q.pc)
    /\ Search!IsInjective(q.fused) /\ Search!IsInjective(q.result)
    /\ Len(q.result) <= q.limit
    /\ q.pc = "rerank" => q.rerank
    /\ ~q.rerank /\ q.pc \in {"fetch", "done"} => Falls(q.lists, q.result)

StoreInv ==
    /\ points \in Seq(Profiles \cup {None})
    /\ DOMAIN cohesive \subseteq Profiles /\ DOMAIN ranking \subseteq Profiles
    /\ ranker # Search!Nobody => ranker.of \in Profiles

SearchState == SearchInv(search) /\ StoreInv

LEMMA NothingInOrder ==
    /\ <<>> \in Seq(Profiles) /\ <<>> \in Seq(Seq(Profiles)) /\ Len(<<>>) = 0
    /\ Search!IsInjective(<<>>)
<1>1. <<>> \in Seq(Profiles) /\ <<>> \in Seq(Seq(Profiles)) /\ Len(<<>>) = 0
  OBVIOUS
<1>2. Search!IsInjective(<<>>)
  BY DEF Search!IsInjective
<1> QED
  BY <1>1, <1>2

LEMMA RequestKeeps ==
    ASSUME SearchAssumptions, SearchState,
           NEW f \in Filters, NEW n \in Limits, NEW again \in BOOLEAN, Search!Request(f, n, again)
    PROVE  SearchInv(search')
<1>1. /\ search'.pc = "vector" /\ search'.limit = n /\ search'.lists = <<>>
      /\ search'.fused = <<>> /\ search'.result = <<>>
      /\ search' = [pc |-> "vector", filter |-> f, limit |-> n, rerank |-> again,
                    lists |-> <<>>, fused |-> <<>>, result |-> <<>>]
  BY DEF Search!Request, Search!NoSearch
<1>2. f \in SUBSET Search!Conditions /\ n \in Nat
  BY DEF SearchAssumptions, Search!SearchAssumption
<1>3. search' \in SearchRecord
  BY <1>1, <1>2, NothingInOrder DEF SearchRecord, Phases
<1>4. Len(search'.lists) \in ListsIn(search'.pc)
  BY <1>1, NothingInOrder DEF ListsIn
<1>5. Len(search'.result) <= search'.limit
  BY <1>1, <1>2, NothingInOrder
<1> QED
  BY <1>1, <1>3, <1>4, <1>5, NothingInOrder DEF SearchInv

LEMMA Appended ==
    ASSUME NEW S, NEW s \in Seq(S), NEW e \in S
    PROVE  Append(s, e) \in Seq(S) /\ Len(Append(s, e)) = Len(s) + 1
OBVIOUS

LEMMA Joined ==
    ASSUME NEW S, NEW s \in Seq(S), NEW t \in Seq(S)
    PROVE  s \o t \in Seq(S) /\ Len(s \o t) = Len(s) + Len(t)
OBVIOUS

LEMMA Products == ASSUME NEW a \in Nat, NEW b \in Nat PROVE a * b \in Nat
OBVIOUS

LEMMA VectorSearchKeeps ==
    ASSUME SearchAssumptions, SearchState, Search!VectorSearch
    PROVE  SearchInv(search')
<1> DEFINE wanted == {None} \cup {p \in Profiles : Search!Passes("vector", p)}
           n == search.limit * VectorFactor
<1>1. search \in SearchRecord /\ points \in Seq(Profiles \cup {None}) /\ n \in Nat
  <2>1. search \in SearchRecord /\ points \in Seq(Profiles \cup {None})
    BY DEF SearchState, SearchInv, StoreInv
  <2>2. search.limit \in Nat /\ VectorFactor \in Nat
    BY <2>1 DEF SearchRecord, SearchAssumptions, Search!SearchAssumption
  <2> QED
    BY <2>1, <2>2, Products
<1>2. PICK matching \in Search!Only(points, wanted) :
        \E hits \in Search!Only(Search!Take(matching, n), Profiles) :
          search' = [search EXCEPT !.pc = "opensearch", !.lists = <<hits>>]
  BY DEF Search!VectorSearch
<1>3. PICK hits \in Search!Only(Search!Take(matching, n), Profiles) :
        search' = [search EXCEPT !.pc = "opensearch", !.lists = <<hits>>]
  BY <1>2
<1> HIDE DEF wanted, n
<1>4. matching \in Seq(wanted)
  BY <1>1, <1>2, OnlyPart
<1>5. Search!Take(matching, n) \in Seq(wanted)
  BY <1>1, <1>4, TakeFirst
<1>6. hits \in Seq(Profiles)
  BY <1>3, <1>5, OnlyPart
<1>7. <<hits>> \in Seq(Seq(Profiles)) /\ Len(<<hits>>) = 1
  BY <1>6
<1> QED
  <2>1. /\ search'.pc = "opensearch" /\ search'.lists = <<hits>> /\ search'.limit = search.limit
        /\ search'.fused = search.fused /\ search'.result = search.result
        /\ search' \in SearchRecord
    BY <1>1, <1>3, <1>7 DEF SearchRecord, Phases
  <2>2. Len(search'.lists) \in ListsIn(search'.pc)
    BY <1>7, <2>1 DEF ListsIn
  <2> QED
    BY <2>1, <2>2 DEF SearchState, SearchInv

LEMMA OpenSearchSearchKeeps ==
    ASSUME SearchAssumptions, SearchState, Search!OpenSearchSearch
    PROVE  SearchInv(search')
<1> DEFINE n == search.limit * KeywordFactor
           wanted == {p \in Profiles : Search!Passes("opensearch", p)}
           lists == search.lists
<1>1. search \in SearchRecord /\ n \in Nat /\ lists \in Seq(Seq(Profiles)) /\ Len(lists) = 1
  <2>1. search \in SearchRecord /\ search.pc = "opensearch" /\ Len(lists) \in ListsIn("opensearch")
    BY DEF SearchState, SearchInv, Search!OpenSearchSearch
  <2>2. search.limit \in Nat /\ KeywordFactor \in Nat /\ lists \in Seq(Seq(Profiles))
    BY <2>1 DEF SearchRecord, SearchAssumptions, Search!SearchAssumption
  <2>3. Len(lists) = 1
    BY <2>1 DEF ListsIn
  <2> QED
    BY <2>1, <2>2, <2>3, Products
<1>2. PICK hits \in Search!Orders(wanted, n) :
        search' = [search EXCEPT !.pc = "keyword",
                     !.lists = IF hits = <<>> THEN @ ELSE Append(@, hits)]
  BY DEF Search!OpenSearchSearch
<1>3. Search!IsFiniteSet(wanted) /\ wanted \subseteq Profiles
  <2>1. wanted \subseteq Profiles
    OBVIOUS
  <2> HIDE DEF wanted
  <2> QED
    BY <2>1, SearchFS_Subset DEF SearchAssumptions, Search!SearchAssumption
<1> HIDE DEF wanted, n
<1>4. hits \in Seq(Profiles)
  <2>1. hits \in Seq(wanted)
    BY <1>1, <1>2, <1>3, OrdersTyped
  <2> QED
    BY <1>3, <2>1
<1> DEFINE more == IF hits = <<>> THEN lists ELSE Append(lists, hits)
<1>5. more \in Seq(Seq(Profiles)) /\ Len(more) \in 1..2
  <2> HIDE DEF lists
  <2>1. CASE hits = <<>>
    BY <1>1, <2>1
  <2>2. CASE hits # <<>>
    <3>1. Append(lists, hits) \in Seq(Seq(Profiles)) /\ Len(Append(lists, hits)) = Len(lists) + 1
      BY <1>1, <1>4, Appended
    <3>2. more = Append(lists, hits)
      BY <2>2
    <3> HIDE DEF more
    <3> QED
      BY <1>1, <3>1, <3>2
  <2> QED
    BY <2>1, <2>2
<1>6. search' = [search EXCEPT !.pc = "keyword", !.lists = more]
  BY <1>2
<1> HIDE DEF more
<1>7. /\ search'.pc = "keyword" /\ search'.lists = more /\ search'.limit = search.limit
      /\ search'.fused = search.fused /\ search'.result = search.result
      /\ search' \in SearchRecord
  BY <1>1, <1>5, <1>6 DEF SearchRecord, Phases
<1>8. Len(search'.lists) \in ListsIn(search'.pc)
  BY <1>5, <1>7 DEF ListsIn
<1> QED
  BY <1>7, <1>8 DEF SearchState, SearchInv

LEMMA SecondOfLists ==
    ASSUME NEW S, NEW s \in Seq(S), Len(s) \in 1..2, NEW e \in S
    PROVE  Search!InsertAt(s, 2, e) \in Seq(S) /\ Len(Search!InsertAt(s, 2, e)) \in 0..3
<1> DEFINE n == Len(s)
           a == SubSeq(s, 1, 1)
           b == SubSeq(s, 2, n)
<1>1. n \in 1..2 /\ s \in Seq(S) /\ \A i \in 1..n : s[i] \in S
  OBVIOUS
<1>2. a \in Seq(S) /\ Len(a) = 1
  <2> HIDE DEF n
  <2>1. \A i \in 1..1 : s[i] \in S
    BY <1>1
  <2> QED
    BY <2>1
<1>3. b \in Seq(S) /\ Len(b) = n - 1
  <2> HIDE DEF n
  <2>1. CASE n = 1
    BY <1>1, <2>1
  <2>2. CASE n = 2
    <3>1. \A i \in 2..2 : s[i] \in S
      BY <1>1, <2>2
    <3>2. b = SubSeq(s, 2, 2)
      BY <2>2
    <3> HIDE DEF b
    <3> QED
      BY <2>2, <3>1, <3>2
  <2> QED
    BY <1>1, <2>1, <2>2
<1>4. <<e>> \in Seq(S) /\ Len(<<e>>) = 1
  OBVIOUS
<1>5. Search!InsertAt(s, 2, e) = (a \o <<e>>) \o b
  BY DEF Search!InsertAt
<1> HIDE DEF n, a, b
<1>6. a \o <<e>> \in Seq(S) /\ Len(a \o <<e>>) = 2
  BY <1>2, <1>4, SMTT(40)
<1> DEFINE c == a \o <<e>>
<1> HIDE DEF c
<1>7. c \in Seq(S) /\ Len(c) = 2
  BY <1>6 DEF c
<1>8. c \o b \in Seq(S) /\ Len(c \o b) = 2 + (n - 1)
  BY <1>3, <1>7, Joined
<1>9. Search!InsertAt(s, 2, e) = c \o b
  BY <1>5 DEF c
<1>10. 2 + (n - 1) \in 0..3
  BY <1>1
<1> QED
  BY <1>8, <1>9, <1>10

LEMMA KeywordSearchKeeps ==
    ASSUME SearchAssumptions, SearchState, Search!KeywordSearch
    PROVE  SearchInv(search')
<1> DEFINE n == search.limit * KeywordFactor
           wanted == {p \in DOMAIN cohesive : Search!Passes("keyword", p)}
           lists == search.lists
<1>1. search \in SearchRecord /\ n \in Nat /\ lists \in Seq(Seq(Profiles)) /\ Len(lists) \in 1..2
  <2>1. search \in SearchRecord /\ search.pc = "keyword" /\ Len(lists) \in ListsIn("keyword")
    BY DEF SearchState, SearchInv, Search!KeywordSearch
  <2>2. search.limit \in Nat /\ KeywordFactor \in Nat /\ lists \in Seq(Seq(Profiles))
    BY <2>1 DEF SearchRecord, SearchAssumptions, Search!SearchAssumption
  <2>3. Len(lists) \in 1..2
    BY <2>1 DEF ListsIn
  <2> QED
    BY <2>1, <2>2, <2>3, Products
<1>2. PICK hits \in Search!Orders(wanted, n) :
        search' = [search EXCEPT !.pc = "fuse", !.lists = Search!InsertAt(@, 2, hits)]
  BY DEF Search!KeywordSearch
<1>3. Search!IsFiniteSet(wanted) /\ wanted \subseteq Profiles
  <2>1. wanted \subseteq Profiles
    BY DEF SearchState, StoreInv
  <2> HIDE DEF wanted
  <2> QED
    BY <2>1, SearchFS_Subset DEF SearchAssumptions, Search!SearchAssumption
<1> HIDE DEF wanted, n
<1>4. hits \in Seq(Profiles)
  <2>1. hits \in Seq(wanted)
    BY <1>1, <1>2, <1>3, OrdersTyped
  <2> QED
    BY <1>3, <2>1
<1> DEFINE more == Search!InsertAt(lists, 2, hits)
<1>5. more \in Seq(Seq(Profiles)) /\ Len(more) \in 0..3
  BY <1>1, <1>4, SecondOfLists
<1>6. search' = [search EXCEPT !.pc = "fuse", !.lists = more]
  BY <1>2
<1> HIDE DEF more
<1>7. /\ search'.pc = "fuse" /\ search'.lists = more /\ search'.limit = search.limit
      /\ search'.fused = search.fused /\ search'.result = search.result
      /\ search' \in SearchRecord
  BY <1>1, <1>5, <1>6 DEF SearchRecord, Phases
<1>8. Len(search'.lists) \in ListsIn(search'.pc)
  BY <1>5, <1>7 DEF ListsIn
<1> QED
  BY <1>7, <1>8 DEF SearchState, SearchInv

LEMMA FuseKeeps ==
    ASSUME SearchAssumptions, SearchState, Search!Fuse
    PROVE  SearchInv(search')
<1> DEFINE named == UNION {Search!ToSet(search.lists[l]) : l \in DOMAIN search.lists}
<1>1. search \in SearchRecord /\ Len(search.lists) \in 0..3
  BY DEF SearchState, SearchInv, ListsIn, Search!Fuse
<1>2. PICK fused \in Search!ReciprocalRankFusion(search.lists) :
         search' = [search EXCEPT !.pc = IF fused = <<>> THEN "done"
                                         ELSE IF search.rerank THEN "rerank" ELSE "fetch",
                                  !.fused = fused,
                                  !.result = Search!Take(fused, search.limit)]
  BY DEF Search!Fuse
<1>3. Search!IsFiniteSet(named) /\ named \subseteq Profiles
  <2>1. search.lists \in Seq(Seq(Profiles))
    BY <1>1 DEF SearchRecord
  <2>2. \A l \in DOMAIN search.lists : search.lists[l] \in Seq(Profiles)
    BY <2>1
  <2>3. named \subseteq Profiles
    BY <2>2 DEF Search!ToSet
  <2> HIDE DEF named
  <2> QED
    BY <2>3, SearchFS_Subset DEF SearchAssumptions, Search!SearchAssumption
<1>4. fused \in Search!SetToSeqs(named) /\ Falls(search.lists, fused)
  BY <1>2 DEF Search!ReciprocalRankFusion, Falls
<1> HIDE DEF named
<1>5. fused \in Seq(Profiles) /\ Search!IsInjective(fused)
  <2>1. fused \in Seq(named) /\ Search!IsInjective(fused)
    BY <1>3, <1>4, OrderedSet
  <2> QED
    BY <1>3, <2>1
<1> DEFINE first == Search!Take(fused, search.limit)
<1>6. first \in Seq(Profiles) /\ Len(first) <= search.limit /\ PartOf(first, fused)
  BY <1>1, <1>5, TakeFirst, TakePart DEF SearchRecord
<1>7. search' = [search EXCEPT !.pc = IF fused = <<>> THEN "done"
                                      ELSE IF search.rerank THEN "rerank" ELSE "fetch",
                               !.fused = fused, !.result = first]
  BY <1>2
<1> HIDE DEF first
<1>8. Search!IsInjective(first) /\ Falls(search.lists, first)
  BY <1>4, <1>5, <1>6, PartInjective, PartFalls
<1>9. /\ search'.pc \in {"done", "rerank", "fetch"}
      /\ search'.pc = "rerank" => search.rerank
      /\ search'.rerank = search.rerank
      /\ search'.lists = search.lists /\ search'.limit = search.limit
      /\ search'.fused = fused /\ search'.result = first
      /\ search' \in SearchRecord
  BY <1>1, <1>5, <1>6, <1>7 DEF SearchRecord, Phases
<1>10. Len(search'.lists) \in ListsIn(search'.pc)
  BY <1>1, <1>9 DEF ListsIn
<1> QED
  BY <1>5, <1>6, <1>8, <1>9, <1>10 DEF SearchInv

LEMMA RerankKeeps ==
    ASSUME SearchAssumptions, SearchState, Search!Rerank
    PROVE  SearchInv(search')
<1> DEFINE best == Search!ToSet(Search!Take(search.fused, RerankTop))
<1>1. /\ search \in SearchRecord /\ Len(search.lists) \in 0..3 /\ search.rerank
      /\ search.fused \in Seq(Profiles) /\ search.limit \in Nat /\ RerankTop \in Nat
      /\ Search!IsInjective(search.fused)
  BY
     DEF SearchState, SearchInv, ListsIn, Search!Rerank, SearchRecord, SearchAssumptions,
         Search!SearchAssumption
<1>2. PICK order \in Search!SetToSeqs(best) :
        search' = [search EXCEPT !.pc = "fetch", !.result = Search!Take(order, search.limit)]
  BY DEF Search!Rerank
<1>3. Search!IsFiniteSet(best) /\ best \subseteq Profiles
  <2>1. Search!Take(search.fused, RerankTop) \in Seq(Profiles)
    BY <1>1, TakeFirst
  <2>2. best \subseteq Profiles
    BY <2>1 DEF Search!ToSet
  <2> HIDE DEF best
  <2> QED
    BY <2>2, SearchFS_Subset DEF SearchAssumptions, Search!SearchAssumption
<1> HIDE DEF best
<1>4. order \in Seq(Profiles) /\ Search!IsInjective(order)
  <2>1. order \in Seq(best) /\ Search!IsInjective(order)
    BY <1>2, <1>3, OrderedSet
  <2> QED
    BY <1>3, <2>1
<1> DEFINE first == Search!Take(order, search.limit)
<1>5. first \in Seq(Profiles) /\ Len(first) <= search.limit /\ PartOf(first, order)
  BY <1>1, <1>4, TakeFirst, TakePart
<1>6. search' = [search EXCEPT !.pc = "fetch", !.result = first]
  BY <1>2
<1> HIDE DEF first
<1>7. Search!IsInjective(first)
  BY <1>4, <1>5, PartInjective
<1>8. /\ search'.pc = "fetch" /\ search'.rerank = search.rerank
      /\ search'.lists = search.lists /\ search'.limit = search.limit
      /\ search'.fused = search.fused /\ search'.result = first
      /\ search' \in SearchRecord
  BY <1>1, <1>5, <1>6 DEF SearchRecord, Phases
<1>9. Len(search'.lists) \in ListsIn(search'.pc)
  BY <1>1, <1>8 DEF ListsIn
<1> QED
  BY <1>1, <1>5, <1>7, <1>8, <1>9 DEF SearchInv

LEMMA SearchFetchKeeps ==
    ASSUME SearchAssumptions, SearchState, Search!Fetch
    PROVE  SearchInv(search')
<1>1. /\ search \in SearchRecord /\ Len(search.lists) \in 0..3
      /\ search.result \in Seq(Profiles) /\ search.limit \in Nat
      /\ Search!IsInjective(search.result) /\ Len(search.result) <= search.limit
      /\ ~search.rerank => Falls(search.lists, search.result)
      /\ Search!IsInjective(search.fused)
      /\ DOMAIN cohesive \subseteq Profiles
  BY DEF SearchState, SearchInv, StoreInv, ListsIn, Search!Fetch, SearchRecord
<1>2. PICK found \in Search!Only(search.result, DOMAIN cohesive) :
        search' = [search EXCEPT !.pc = "done", !.result = found]
  BY DEF Search!Fetch
<1>3. /\ found \in Seq(DOMAIN cohesive) /\ Len(found) \in Nat /\ Len(found) <= Len(search.result)
      /\ PartOf(found, search.result)
  BY <1>1, <1>2, OnlyPart
<1>4. found \in Seq(Profiles) /\ Len(found) <= search.limit
  BY <1>1, <1>3
<1>5. ~search.rerank => Falls(search.lists, found)
  BY <1>1, <1>3, <1>4, PartFalls
<1>6. /\ search'.pc = "done" /\ search'.rerank = search.rerank
      /\ search'.lists = search.lists /\ search'.limit = search.limit
      /\ search'.fused = search.fused /\ search'.result = found
      /\ search' \in SearchRecord
  BY <1>1, <1>2, <1>4 DEF SearchRecord, Phases
<1>7. Len(search'.lists) \in ListsIn(search'.pc)
  BY <1>1, <1>6 DEF ListsIn
<1>8. Search!IsInjective(found)
  BY <1>1, <1>3, <1>4, PartInjective
<1> QED
  BY <1>1, <1>4, <1>5, <1>6, <1>7, <1>8 DEF SearchInv

-----------------------------------------------------------------------------
(* The rows, the rankings, and the invariant.                              *)

LEMMA StoreKeeps ==
    ASSUME SearchAssumptions, SearchState, [Search!Next]_Search!searchVars
    PROVE  StoreInv'
<1> USE DEF SearchState, StoreInv
<1>1. ASSUME NEW f \in Filters, NEW n \in Limits, NEW again \in BOOLEAN, Search!Request(f, n, again)
      PROVE  StoreInv'
  BY <1>1 DEF Search!Request
<1>2. CASE Search!VectorSearch
  BY <1>2 DEF Search!VectorSearch
<1>3. CASE Search!OpenSearchSearch
  BY <1>3 DEF Search!OpenSearchSearch
<1>4. CASE Search!KeywordSearch
  BY <1>4 DEF Search!KeywordSearch
<1>5. CASE Search!Fuse
  BY <1>5 DEF Search!Fuse
<1>6. CASE Search!Rerank
  BY <1>6 DEF Search!Rerank
<1>7. CASE Search!Fetch
  BY <1>7 DEF Search!Fetch
<1>8. ASSUME NEW p \in Profiles, Search!MergedAway(p) PROVE StoreInv'
  BY <1>8 DEF Search!MergedAway
<1>9. ASSUME NEW p \in Profiles, NEW r \in Search!RowsThereAre, Search!Rebuilt(p, r) PROVE StoreInv'
  BY <1>9 DEF Search!Rebuilt
<1>10. ASSUME NEW w \in Weights, Search!RankAll(w) PROVE StoreInv'
  BY <1>10 DEF Search!RankAll
<1>11. ASSUME NEW w \in Weights, NEW p \in Profiles, Search!GetRanking(p, w) PROVE StoreInv'
  BY <1>11 DEF Search!GetRanking
<1>12. CASE Search!StoreRanking
  BY <1>12 DEF Search!StoreRanking
<1>13. CASE UNCHANGED Search!searchVars
  BY <1>13 DEF Search!searchVars
<1> QED
  BY <1>1, <1>2, <1>3, <1>4, <1>5, <1>6, <1>7, <1>8, <1>9, <1>10, <1>11, <1>12, <1>13 DEF Search!Next

LEMMA SearchKeeps ==
    ASSUME SearchAssumptions, SearchState, [Search!Next]_Search!searchVars
    PROVE  SearchInv(search')
<1>1. SearchInv(search)
  BY DEF SearchState
<1>2. ASSUME search' = search PROVE SearchInv(search')
  BY <1>1, <1>2
<1>3. CASE Search!VectorSearch \/ Search!OpenSearchSearch \/ Search!KeywordSearch \/ Search!Fuse \/ Search!Rerank \/ Search!Fetch
  BY <1>3, VectorSearchKeeps, OpenSearchSearchKeeps, KeywordSearchKeeps, FuseKeeps, RerankKeeps,
     SearchFetchKeeps
<1>4. ASSUME NEW f \in Filters, NEW n \in Limits, NEW again \in BOOLEAN, Search!Request(f, n, again)
      PROVE  SearchInv(search')
  BY <1>4, RequestKeeps
<1>5. ASSUME NEW p \in Profiles, Search!MergedAway(p) PROVE search' = search
  BY <1>5 DEF Search!MergedAway
<1>6. ASSUME NEW p \in Profiles, NEW r \in Search!RowsThereAre, Search!Rebuilt(p, r) PROVE search' = search
  BY <1>6 DEF Search!Rebuilt
<1>7. ASSUME NEW w \in Weights, Search!RankAll(w) PROVE search' = search
  BY <1>7 DEF Search!RankAll
<1>8. ASSUME NEW w \in Weights, NEW p \in Profiles, Search!GetRanking(p, w) PROVE search' = search
  BY <1>8 DEF Search!GetRanking
<1>9. Search!StoreRanking => search' = search
  BY DEF Search!StoreRanking
<1>10. UNCHANGED Search!searchVars => search' = search
  BY DEF Search!searchVars
<1> QED
  BY <1>2, <1>3, <1>4, <1>5, <1>6, <1>7, <1>8, <1>9, <1>10 DEF Search!Next

LEMMA SearchStarts == ASSUME SearchAssumptions, Search!Init PROVE SearchState
<1>1. search = [pc |-> "idle", filter |-> {}, limit |-> 0, rerank |-> FALSE,
                lists |-> <<>>, fused |-> <<>>, result |-> <<>>]
  BY DEF Search!Init, Search!NoSearch
<1>2. search \in SearchRecord
  BY <1>1, NothingInOrder DEF SearchRecord, Phases
<1>3. Len(search.lists) \in ListsIn(search.pc)
  BY <1>1, NothingInOrder DEF ListsIn
<1>4. Len(search.result) <= search.limit
  BY <1>1, NothingInOrder
<1>5. SearchInv(search)
  BY <1>1, <1>2, <1>3, <1>4, NothingInOrder DEF SearchInv
<1>6. StoreInv
  BY DEF Search!Init, StoreInv, SearchAssumptions, Search!SearchAssumption
<1> QED
  BY <1>5, <1>6 DEF SearchState

LEMMA SearchTyped == ASSUME SearchState PROVE Search!TypeOK
<1>1. search \in SearchRecord /\ Len(search.lists) \in ListsIn(search.pc)
  BY DEF SearchState, SearchInv
<1>2. search.pc \in Phases
  BY <1>1 DEF SearchRecord
<1>3. Len(search.lists) <= 3
  BY <1>1, <1>2 DEF ListsIn
<1> QED
  BY <1>2, <1>3 DEF SearchState, SearchInv, StoreInv, Search!TypeOK, Phases

LEMMA SearchOrdered == ASSUME SearchState PROVE Search!FusionKeepsOrder
<1> SUFFICES ASSUME ~search.rerank, search.pc = "done",
                    NEW i \in DOMAIN search.result, NEW j \in DOMAIN search.result, i < j,
                    Ranks(search.lists, search.result[j], search.result[i])
             PROVE  FALSE
  BY Zenon DEF Search!FusionKeepsOrder, Ranks, Hits
<1>1. Search!Above(search.lists, search.result[i], search.result[j])
  BY DEF SearchState, SearchInv, Falls
<1>2. search.lists \in Seq(Seq(Profiles))
  BY DEF SearchState, SearchInv, SearchRecord
<1> QED
  BY <1>1, <1>2, NeverAbove

\* Every list the searches return holds profiles, no profile is shown twice and
\* no more than were asked for; and a profile that every search puts at least
\* as high, and as often, as another never follows it, for any profiles, any
\* index, any filters and limits (fusion.py and profile_search_service.py).
THEOREM SearchSafe ==
    SearchAssumptions =>
      (Search!Spec => [](Search!TypeOK /\ Search!FusionKeepsOrder))
<1> SUFFICES ASSUME SearchAssumptions PROVE Search!Spec => [](Search!TypeOK /\ Search!FusionKeepsOrder)
  OBVIOUS
<1>1. Search!Init => SearchState
  BY SearchStarts
<1>2. SearchState /\ [Search!Next]_Search!searchVars => SearchState'
  <2> SUFFICES ASSUME SearchState, [Search!Next]_Search!searchVars PROVE SearchState'
    OBVIOUS
  <2>1. SearchInv(search')
    BY SearchKeeps
  <2>2. StoreInv'
    BY StoreKeeps
  <2> QED
    BY <2>1, <2>2 DEF SearchState
<1>3. SearchState => Search!TypeOK /\ Search!FusionKeepsOrder
  BY SearchTyped, SearchOrdered
<1> HIDE DEF SearchState, Search!Init, Search!Next, Search!TypeOK, Search!FusionKeepsOrder
<1> QED
  BY <1>1, <1>2, <1>3, PTL DEF Search!Spec

-----------------------------------------------------------------------------
(* The part in the system.                                                  *)

\* A behaviour of the system is this part's, or leaves it alone.
LEMMA SearchAlone ==
    /\ Init /\ part = "search" => Search!Init
    /\ [Next]_vars /\ part = "search" => (part = "search")' /\ [Search!Next]_(Search!searchVars)
    /\ [Next]_vars /\ ~(part = "search") => (~(part = "search"))'
<1> USE DEF ClientsNext, LinkedInNext, IndexNext, ScheduleNext, BillingNext, SearchNext, CommandsNext
<1>1. Init /\ part = "search" => Search!Init
  BY DEF Init
<1>2. Next => part' = part
  BY DEF Next
<1>3. Next /\ part = "search" => Search!Next
  BY DEF Next
<1>4. UNCHANGED vars => part' = part /\ UNCHANGED Search!searchVars
  BY DEF vars, searchVars, Search!searchVars
<1> QED
  BY <1>1, <1>2, <1>3, <1>4

WholeSearch ==
    Search!TypeOK /\ Search!FusionKeepsOrder

LEMMA SearchAlwaysHold == SearchAssumptions => (Spec => [](part = "search" => WholeSearch))
<1> SUFFICES ASSUME SearchAssumptions PROVE Spec => [](part = "search" => WholeSearch)
  OBVIOUS
<1>1. Search!Spec => []WholeSearch
  BY SearchSafe DEF WholeSearch
<1>2. Init /\ part = "search" => Search!Init
  BY SearchAlone
<1>3. [Next]_vars /\ part = "search" => (part = "search")' /\ [Search!Next]_(Search!searchVars)
  BY SearchAlone
<1>4. [Next]_vars /\ ~(part = "search") => (~(part = "search"))'
  BY SearchAlone
<1> HIDE DEF WholeSearch, Init, Next, Search!Init, Search!Next
<1> QED
  BY <1>1, <1>2, <1>3, <1>4, PTL DEF Spec, Search!Spec

\* Fusion never shows a profile below one that every search ranks behind it, for any
\* profiles and any index (fusion.py, profile_search_service.py).
THEOREM FusionIsFair == SearchAssumptions => (Spec => []FusionKeepsOrder)
<1>1. (part = "search" => WholeSearch) => FusionKeepsOrder
  BY DEF WholeSearch, FusionKeepsOrder
<1> HIDE DEF WholeSearch, FusionKeepsOrder
<1> QED
  BY <1>1, SearchAlwaysHold, PTL

-----------------------------------------------------------------------------
(* The system.                                                             *)

PartsAssumptions ==
    /\ ClientsAssumptions
    /\ LinkedInAssumptions
    /\ IndexAssumptions
    /\ ScheduleAssumptions
    /\ Billing!BillingAssumption
    /\ SearchAssumptions
    /\ CommandsAssumptions

\* Whichever part is at work, its variables have their types, for any constants: the
\* rows, requests, workers and counts of seven parts of the code.
THEOREM TypesHold == PartsAssumptions => (Spec => []TypeOK)
<1> SUFFICES ASSUME PartsAssumptions PROVE Spec => []TypeOK
  OBVIOUS
<1> USE DEF PartsAssumptions
<1>1. Spec => [](part = "clients" => WholeClients)
  BY ClientsAlwaysHold
<1>2. Spec => [](part = "linkedin" => WholeLinkedIn)
  BY LinkedInAlwaysHold
<1>3. Spec => [](part = "index" => WholeIndex)
  BY IndexAlwaysHold
<1>4. Spec => [](part = "schedule" => WholeSchedule)
  BY ScheduleAlwaysHold
<1>5. Spec => [](part = "billing" => WholeBilling)
  BY BillingAlwaysHold
<1>6. Spec => [](part = "search" => WholeSearch)
  BY SearchAlwaysHold
<1>7. Spec => [](part = "commands" => WholeCommands)
  BY CommandsAlwaysHold
<1> DEFINE Each ==
             /\ part = "clients" => WholeClients
             /\ part = "linkedin" => WholeLinkedIn
             /\ part = "index" => WholeIndex
             /\ part = "schedule" => WholeSchedule
             /\ part = "billing" => WholeBilling
             /\ part = "search" => WholeSearch
             /\ part = "commands" => WholeCommands
<1>8. Each => TypeOK
  BY
     DEF TypeOK, WholeClients, WholeLinkedIn, WholeIndex, WholeSchedule, WholeBilling, WholeSearch,
         WholeCommands
<1> HIDE DEF TypeOK, PartsAssumptions, WholeClients, WholeLinkedIn, WholeIndex, WholeSchedule, WholeBilling, WholeSearch, WholeCommands
<1> QED
  BY <1>1, <1>2, <1>3, <1>4, <1>5, <1>6, <1>7, <1>8, PTL

===============================================================================
