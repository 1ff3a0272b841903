--------------------------- MODULE KernelHeapProofs ---------------------------
(* Proofs about KernelHeap and the page manager under it, for any number of  *)
(* pages, of units in a page and of blocks, and any sizes of requests that   *)
(* KernelHeapConstants allows.                                               *)
EXTENDS KernelHeap, FiniteSetTheorems, WellFoundedInduction, TLAPS

-----------------------------------------------------------------------------
(* Numbers.                                                                *)

\* A set of numbers has a least one, and Min finds it.
LEMMA NatMin ==
    ASSUME NEW S \in SUBSET Nat, S # {}
    PROVE  Min(S) \in S /\ \A x \in S : Min(S) <= x
<1> DEFINE R == OpToRel(<, Nat)
<1>1. \A x, y \in Nat : x < y => <<x, y>> \in R
  BY DEF OpToRel
<1>2. IsWellFoundedOn(R, Nat)
  BY NatLessThanWellFounded, Zenon
<1> HIDE DEF R
<1>3. PICK x \in S : \A y \in S : ~ (<<y, x>> \in R)
  BY <1>2, WFMin
<1>4. \A y \in S : x <= y
  <2>1. ASSUME NEW y \in S PROVE x <= y
    <3>1. x \in Nat /\ y \in Nat
      OBVIOUS
    <3>2. ~(y < x)
      BY <1>1, <1>3, <3>1
    <3> QED
      BY <3>1, <3>2
  <2> QED
    BY <2>1
<1> QED
  BY <1>4 DEF Min

\* A bounded set of integers has a greatest one, and Max finds it.
LEMMA IntMax ==
    ASSUME NEW M \in Int, NEW S \in SUBSET Int, S # {}, \A x \in S : x <= M
    PROVE  Max(S) \in S /\ \A x \in S : x <= Max(S)
<1> DEFINE T == {M - x : x \in S}
<1>1. T \in SUBSET Nat /\ T # {}
  <2>1. \A x \in S : x \in Int /\ M - x \in Nat
    OBVIOUS
  <2> QED
    BY <2>1
<1>2. PICK t \in T : \A u \in T : t <= u
  BY <1>1, NatMin
<1>3. PICK x \in S : t = M - x
  BY <1>2
<1>4. ASSUME NEW y \in S PROVE y <= x
  <2>1. t <= M - y
    BY <1>2
  <2> QED
    BY <1>3, <2>1
<1> QED
  BY <1>4 DEF Max

-----------------------------------------------------------------------------
(* The page manager.                                                       *)

Free == ToSet(free_list)
Block(b, n) == b..(b + n - 1)

\* free_list is in address order.
Ascending(s) == \A i, j \in 1..Len(s) : i < j => s[i] < s[j]
ListOK ==
    /\ free_list \in Seq(Pages)
    /\ Ascending(free_list)
    /\ nr_free = Len(free_list)
\* Of each run of pages of F the first has the length of the run, the others 0.
Runs(F, f) ==
    \A p \in F :
        IF p - 1 \in F THEN f[p] = 0
        ELSE /\ f[p] > 0
             /\ Block(p, f[p]) \subseteq F
             /\ p + f[p] \notin F
RunsOK == property \in [Pages -> Nat] /\ Runs(Free, property)
FirstFitOK == ListOK /\ RunsOK

\* The pages b.. that are taken have 0, but for the first.
Inner(b, n) == \A q \in Block(b, n) : q # b => property[q] = 0

\* The elements of a sequence that is made of two.
LEMMA Joint ==
    ASSUME NEW S, NEW a \in Seq(S), NEW b \in Seq(S)
    PROVE  /\ a \o b \in Seq(S) /\ Len(a \o b) = Len(a) + Len(b)
           /\ Len(a) \in Nat /\ Len(b) \in Nat
           /\ \A i \in 1..Len(a) : (a \o b)[i] = a[i]
           /\ \A i \in 1..Len(b) : (a \o b)[Len(a) + i] = b[i]
<1>1. /\ a \o b \in Seq(S) /\ Len(a \o b) = Len(a) + Len(b)
      /\ Len(a) \in Nat /\ Len(b) \in Nat
      /\ \A i \in 1..Len(a) : (a \o b)[i] = a[i]
      /\ \A i \in Len(a) + 1..Len(a) + Len(b) : (a \o b)[i] = b[i - Len(a)]
  OBVIOUS
<1>2. ASSUME NEW i \in 1..Len(b) PROVE (a \o b)[Len(a) + i] = b[i]
  <2>1. PICK k \in Len(a) + 1..Len(a) + Len(b) : k = Len(a) + i /\ k - Len(a) = i
    BY <1>1
  <2> QED
    BY ONLY <1>1, <2>1
<1> QED
  BY <1>1, <1>2

\* A part of a sequence, and its elements.
LEMMA Part ==
    ASSUME NEW S, NEW s \in Seq(S), NEW i \in Nat \ {0}, NEW k \in Nat, k <= Len(s), i <= k + 1
    PROVE  /\ SubSeq(s, i, k) \in Seq(S) /\ Len(SubSeq(s, i, k)) = k - i + 1
           /\ \A j \in 1..(k - i + 1) : SubSeq(s, i, k)[j] = s[i + j - 1]
  OBVIOUS

\* Some elements are cut out of a sequence, or put into it.
Cut3(r, a, b) == r = a \o b

\* The elements that are left have moved up.
LEMMA CutOut ==
    ASSUME NEW S, NEW s \in Seq(S), NEW i \in 1..Len(s), NEW n \in Nat, i + n - 1 <= Len(s),
           NEW r, Cut3(r, SubSeq(s, 1, i - 1), SubSeq(s, i + n, Len(s)))
    PROVE  /\ r \in Seq(S) /\ Len(r) = Len(s) - n
           /\ \A j \in 1..Len(r) : r[j] = IF j < i THEN s[j] ELSE s[j + n]
<1>0. PICK x \in Nat, y \in Nat \ {0}, z \in Nat :
         /\ x = i - 1 /\ y = i + n /\ z = Len(s) /\ 1 \in Nat \ {0}
         /\ x <= z /\ 1 <= x + 1 /\ y <= z + 1 /\ z <= z /\ x <= Len(s) /\ z <= Len(s)
  OBVIOUS
<1>1. PICK a \in Seq(S) : /\ a = SubSeq(s, 1, x) /\ Len(a) = x
                          /\ \A j \in 1..x : a[j] = s[j]
  <2>1. /\ SubSeq(s, 1, x) \in Seq(S) /\ Len(SubSeq(s, 1, x)) = x - 1 + 1
        /\ \A j \in 1..(x - 1 + 1) : SubSeq(s, 1, x)[j] = s[1 + j - 1]
    BY ONLY <1>0, Part, s \in Seq(S)
  <2>2. x - 1 + 1 = x /\ \A j \in 1..x : 1 + j - 1 = j
    BY <1>0
  <2> QED
    BY ONLY <2>1, <2>2
<1>2. PICK b \in Seq(S) : /\ b = SubSeq(s, y, z) /\ Len(b) = z - y + 1
                          /\ \A j \in 1..(z - y + 1) : b[j] = s[y + j - 1]
  <2>1. /\ SubSeq(s, y, z) \in Seq(S) /\ Len(SubSeq(s, y, z)) = z - y + 1
        /\ \A j \in 1..(z - y + 1) : SubSeq(s, y, z)[j] = s[y + j - 1]
    BY ONLY <1>0, Part, s \in Seq(S)
  <2> QED
    BY ONLY <2>1
<1>3. /\ r \in Seq(S) /\ Len(r) = Len(a) + Len(b)
      /\ \A j \in 1..Len(a) : r[j] = a[j]
      /\ \A j \in 1..Len(b) : r[Len(a) + j] = b[j]
  <2>1. r = a \o b
    BY <1>0, <1>1, <1>2 DEF Cut3
  <2> QED
    BY ONLY <2>1, Joint, a \in Seq(S), b \in Seq(S)
<1>5. Len(r) = Len(s) - n
  BY <1>0, <1>1, <1>2, <1>3
<1>4. ASSUME NEW j \in 1..Len(r) PROVE r[j] = IF j < i THEN s[j] ELSE s[j + n]
  <2>1. CASE j < i
    <3>1. j \in 1..x /\ j \in 1..Len(a)
      BY <1>0, <1>1, <2>1
    <3> QED
      BY <1>1, <1>3, <2>1, <3>1
  <2>2. CASE ~(j < i)
    <3>1. j - x \in 1..(z - y + 1)
      BY <1>0, <1>5, <2>2
    <3>2. PICK k \in 1..(z - y + 1) : k = j - x
      BY ONLY <3>1
    <3>3. Len(a) + k = j /\ y + k - 1 = j + n
      BY <1>0, <1>1, <3>2
    <3> QED
      BY <1>2, <1>3, <2>2, <3>2, <3>3
  <2> QED
    BY <2>1, <2>2
<1> QED
  BY <1>3, <1>4, <1>5

Put3(r, a, t, b) == r = a \o t \o b

\* The elements behind the place have moved down.
LEMMA PutIn ==
    ASSUME NEW S, NEW s \in Seq(S), NEW i \in 1..(Len(s) + 1), NEW t \in Seq(S),
           NEW r, Put3(r, SubSeq(s, 1, i - 1), t, SubSeq(s, i, Len(s)))
    PROVE  /\ r \in Seq(S) /\ Len(r) = Len(s) + Len(t)
           /\ \A j \in 1..Len(r) : r[j] = IF j < i THEN s[j]
                                          ELSE IF j < i + Len(t) THEN t[j - i + 1]
                                          ELSE s[j - Len(t)]
<1>0. PICK x \in Nat, y \in Nat \ {0}, z \in Nat :
         /\ x = i - 1 /\ y = i /\ z = Len(s) /\ 1 \in Nat \ {0} /\ Len(t) \in Nat
         /\ x <= z /\ 1 <= x + 1 /\ y <= z + 1 /\ z <= z /\ x <= Len(s) /\ z <= Len(s)
  <2>1. Len(s) \in Nat /\ Len(t) \in Nat
    OBVIOUS
  <2>2. /\ i - 1 \in Nat /\ i \in Nat \ {0} /\ i - 1 <= Len(s) /\ 1 <= i - 1 + 1
        /\ i <= Len(s) + 1 /\ 1 \in Nat \ {0}
    BY <2>1
  <2> WITNESS i - 1 \in Nat, i \in Nat \ {0}, Len(s) \in Nat
  <2> QED
    BY <2>1, <2>2
<1>1. PICK a \in Seq(S) : /\ a = SubSeq(s, 1, x) /\ Len(a) = x
                          /\ \A j \in 1..x : a[j] = s[j]
  <2>1. /\ SubSeq(s, 1, x) \in Seq(S) /\ Len(SubSeq(s, 1, x)) = x - 1 + 1
        /\ \A j \in 1..(x - 1 + 1) : SubSeq(s, 1, x)[j] = s[1 + j - 1]
    BY ONLY <1>0, Part, s \in Seq(S)
  <2>2. x - 1 + 1 = x /\ \A j \in 1..x : 1 + j - 1 = j
    BY <1>0
  <2> QED
    BY ONLY <2>1, <2>2
<1>2. PICK b \in Seq(S) : /\ b = SubSeq(s, y, z) /\ Len(b) = z - y + 1
                          /\ \A j \in 1..(z - y + 1) : b[j] = s[y + j - 1]
  <2>1. /\ SubSeq(s, y, z) \in Seq(S) /\ Len(SubSeq(s, y, z)) = z - y + 1
        /\ \A j \in 1..(z - y + 1) : SubSeq(s, y, z)[j] = s[y + j - 1]
    BY ONLY <1>0, Part, s \in Seq(S)
  <2> QED
    BY ONLY <2>1
<1>3. PICK c \in Seq(S) : /\ c = a \o t /\ Len(c) = Len(a) + Len(t)
                          /\ \A j \in 1..Len(a) : c[j] = a[j]
                          /\ \A j \in 1..Len(t) : c[Len(a) + j] = t[j]
  <2>1. PICK c : c = a \o t
    OBVIOUS
  <2>2. /\ c \in Seq(S) /\ Len(c) = Len(a) + Len(t)
        /\ \A j \in 1..Len(a) : c[j] = a[j]
        /\ \A j \in 1..Len(t) : c[Len(a) + j] = t[j]
    BY ONLY Joint, a \in Seq(S), t \in Seq(S), <2>1
  <2> QED
    BY ONLY <2>1, <2>2
<1>4. /\ r \in Seq(S) /\ Len(r) = Len(c) + Len(b)
      /\ \A j \in 1..Len(c) : r[j] = c[j]
      /\ \A j \in 1..Len(b) : r[Len(c) + j] = b[j]
  <2>1. r = c \o b
    BY <1>0, <1>1, <1>2, <1>3 DEF Put3
  <2> QED
    BY ONLY <2>1, Joint, b \in Seq(S), c \in Seq(S)
<1>5. Len(r) = Len(s) + Len(t)
  BY <1>0, <1>1, <1>2, <1>3, <1>4
<1>6. ASSUME NEW j \in 1..Len(r)
      PROVE  r[j] = IF j < i THEN s[j] ELSE IF j < i + Len(t) THEN t[j - i + 1] ELSE s[j - Len(t)]
  <2>1. CASE j < i
    <3>1. j \in 1..Len(a) /\ j \in 1..Len(c) /\ j \in 1..x
      BY <1>0, <1>1, <1>3, <2>1
    <3> QED
      BY <1>1, <1>3, <1>4, <2>1, <3>1
  <2>2. CASE ~(j < i) /\ j < i + Len(t)
    <3>1. PICK k \in 1..Len(t) : k = j - i + 1
      BY <1>0, <2>2
    <3>2. Len(a) + k = j /\ j \in 1..Len(c)
      BY <1>0, <1>1, <1>3, <3>1
    <3>3. r[j] = c[j] /\ c[j] = t[k]
      BY ONLY <1>3, <1>4, <3>1, <3>2
    <3> QED
      BY ONLY <2>2, <3>1, <3>3
  <2>3. CASE ~(j < i + Len(t))
    <3>1. j - (x + Len(t)) \in 1..(z - y + 1)
      BY <1>0, <1>5, <2>3
    <3>2. PICK k \in 1..(z - y + 1) : k = j - (x + Len(t))
      BY ONLY <3>1
    <3>3. Len(c) + k = j /\ y + k - 1 = j - Len(t) /\ ~(j < i)
      <4>1. Len(c) = x + Len(t) /\ Len(t) \in Nat
        BY ONLY <1>0, <1>1, <1>3
      <4>2. ~(j < i) /\ j \in Nat
        BY <1>0, <2>3
      <4> QED
        BY ONLY <4>1, <4>2, <1>0, <3>2, i \in 1..(Len(s) + 1)
    <3> QED
      BY <1>2, <1>4, <2>3, <3>2, <3>3
  <2> QED
    BY <2>1, <2>2, <2>3
<1> QED
  BY <1>4, <1>5, <1>6

\* A page is free when it has a place in the list.
LEMMA FreeIndex ==
    ASSUME ListOK
    PROVE  /\ Free \subseteq Pages
           /\ \A p : p \in Free <=> \E i \in 1..Len(free_list) : free_list[i] = p
           /\ \A i, j \in 1..Len(free_list) : (free_list[i] < free_list[j]) <=> (i < j)
           /\ \A i, j \in 1..Len(free_list) : free_list[i] = free_list[j] => i = j
<1>1. DOMAIN free_list = 1..Len(free_list) /\ \A i \in 1..Len(free_list) : free_list[i] \in Pages
  BY DEF ListOK
<1>2. Pages \subseteq Nat
  BY FirstFitConstants DEF Pages
<1>3. \A p : p \in Free <=> \E i \in 1..Len(free_list) : free_list[i] = p
  BY <1>1 DEF Free, ToSet
<1>4. \A i, j \in 1..Len(free_list) : i < j => free_list[i] < free_list[j]
  BY DEF ListOK, Ascending
<1>5. \A i \in 1..Len(free_list) : free_list[i] \in Nat
  BY <1>1, <1>2
<1>6. Len(free_list) \in Nat
  BY DEF ListOK
<1>7. \A i, j \in 1..Len(free_list) : i < j \/ i = j \/ j < i
  BY <1>6
<1> QED
  BY <1>1, <1>3, <1>4, <1>5, <1>6, <1>7

\* Free pages that are neighbours are neighbours in the list.
LEMMA Contiguous ==
    ASSUME ListOK, NEW i \in 1..Len(free_list), NEW n \in Nat,
           \A k \in Nat : k < n => free_list[i] + k \in Free
    PROVE  \A k \in Nat : k < n => i + k <= Len(free_list) /\ free_list[i + k] = free_list[i] + k
<1>a. PICK p : p = free_list[i]
  OBVIOUS
<1> DEFINE Bad == {k \in Nat : k < n /\ ~(i + k <= Len(free_list) /\ free_list[i + k] = p + k)}
<1> SUFFICES ASSUME Bad # {} PROVE FALSE
  BY <1>a
<1>1. PICK k \in Bad : \A m \in Bad : k <= m
  BY NatMin
<1>2. p \in Nat /\ Len(free_list) \in Nat /\ \A j \in 1..Len(free_list) : free_list[j] \in Nat
  <2>1. Pages \subseteq Nat
    BY FirstFitConstants DEF Pages
  <2>2. free_list \in Seq(Pages)
    BY DEF ListOK
  <2>3. Len(free_list) \in Nat /\ \A j \in 1..Len(free_list) : free_list[j] \in Pages
    BY <2>2
  <2> QED
    BY <1>a, <2>1, <2>3
<1>3. k # 0
  BY <1>a, <1>1, <1>2
<1>4. k - 1 \in Nat /\ k - 1 < n /\ k - 1 \notin Bad
  BY <1>1, <1>3
<1>5. i + k - 1 \in 1..Len(free_list) /\ free_list[i + k - 1] = p + k - 1
  BY <1>1, <1>2, <1>4
<1>6. PICK j \in 1..Len(free_list) : free_list[j] = p + k
  BY <1>a, <1>1, FreeIndex
<1>7. i + k - 1 < j
  <2>1. free_list[i + k - 1] < free_list[j]
    BY <1>1, <1>2, <1>5, <1>6
  <2> QED
    BY <1>5, <2>1, FreeIndex
<1>8. i + k \in 1..Len(free_list) /\ i + k <= j
  BY <1>1, <1>2, <1>7
<1>9. free_list[i + k] > p + k - 1 /\ free_list[i + k] <= p + k
  <2>1. i + k - 1 < i + k
    BY <1>1
  <2>2. free_list[i + k - 1] < free_list[i + k]
    BY <1>5, <1>8, <2>1, FreeIndex
  <2>3. i + k = j \/ i + k < j
    BY <1>1, <1>8
  <2> QED
    BY <1>2, <1>5, <1>6, <1>8, <2>2, <2>3, FreeIndex
<1>10. free_list[i + k] = p + k
  <2>1. PICK m \in Nat : m = free_list[i + k]
    BY <1>2, <1>8
  <2> QED
    <3>1. k \in Nat /\ m > p + k - 1 /\ m <= p + k
      BY <1>1, <1>9, <2>1
    <3>2. p \in Nat
      BY <1>2
    <3>3. m = p + k
      BY ONLY <3>1, <3>2, m \in Nat
    <3> QED
      BY ONLY <2>1, <3>3
<1> QED
  BY <1>1, <1>8, <1>10

\* Every free page is in a run that has a first page.
LEMMA RunHead ==
    ASSUME ListOK, NEW b \in Free
    PROVE  \E p \in Free : p <= b /\ p - 1 \notin Free /\ p..b \subseteq Free
<1> DEFINE S == {q \in Nat : q <= b /\ q..b \subseteq Free}
<1>0. Free \subseteq Nat
  BY FreeIndex, FirstFitConstants DEF Pages
<1>1. b \in S
  BY <1>0
<1>2. PICK p \in S : \A q \in S : p <= q
  BY <1>1, NatMin
<1>3. p \in Free
  BY <1>0, <1>2
<1>4. p - 1 \notin Free
  <2> SUFFICES ASSUME p - 1 \in Free PROVE FALSE
    OBVIOUS
  <2>1. p - 1 \in Nat /\ p - 1 <= b
    BY <1>0, <1>2
  <2>2. (p - 1)..b \subseteq Free
    <3>1. \A x \in (p - 1)..b : x = p - 1 \/ x \in p..b
      BY <1>0, <1>2
    <3> QED
      BY <1>2, <3>1
  <2> QED
    BY <1>0, <1>2, <2>1, <2>2
<1> QED
  BY <1>2, <1>3, <1>4

\* What RunsOK says of the first page of a run.
LEMMA RunFacts ==
    ASSUME FirstFitOK, NEW p \in Free
    PROVE  /\ p \in Nat /\ p \in Pages /\ property[p] \in Nat
           /\ (p - 1 \in Free) <=> (property[p] = 0)
           /\ \A x \in Int : p <= x /\ x < p + property[p] => x \in Free
           /\ property[p] > 0 => p + property[p] \notin Free
<1>1. p \in Pages /\ Pages \subseteq Nat
  BY FreeIndex, FirstFitConstants DEF FirstFitOK, Pages
<1>2. property[p] \in Nat
  BY <1>1 DEF FirstFitOK, RunsOK
<1>3. ASSUME p - 1 \notin Free
      PROVE  /\ property[p] > 0 /\ p + property[p] \notin Free
             /\ \A x \in Int : p <= x /\ x < p + property[p] => x \in Free
  BY <1>1, <1>2, <1>3 DEF FirstFitOK, RunsOK, Runs, Block
<1>4. p - 1 \in Free => property[p] = 0
  BY DEF FirstFitOK, RunsOK, Runs
<1> QED
  BY <1>1, <1>2, <1>3, <1>4

\* A run that starts at p and goes on to x has a length that shows it.
LEMMA RunLength ==
    ASSUME FirstFitOK, NEW p \in Free, p - 1 \notin Free, NEW x \in Int, p <= x, p..x \subseteq Free
    PROVE  x < p + property[p]
<1>1. p \in Nat /\ property[p] \in Nat /\ property[p] > 0 /\ p + property[p] \notin Free
  BY RunFacts
<1> SUFFICES ASSUME p + property[p] <= x PROVE FALSE
  BY <1>1
<1>2. p + property[p] \in p..x
  BY <1>1
<1> QED
  BY <1>1, <1>2

\* Which requests can be granted is what the first pages of the runs say.
LEMMA HeadsFit ==
    ASSUME FirstFitOK, NEW n \in Nat \ {0}, NEW b \in Free, Block(b, n) \subseteq Free
    PROVE  Heads(n) # {} /\ n <= nr_free
<1>0. ListOK /\ b \in Nat /\ Len(free_list) \in Nat /\ DOMAIN free_list = 1..Len(free_list)
  BY RunFacts DEF FirstFitOK, ListOK
<1>1. PICK p \in Free : p <= b /\ p - 1 \notin Free /\ p..b \subseteq Free
  BY <1>0, RunHead
<1>2. p \in Nat /\ property[p] \in Nat
  BY RunFacts
<1>3. p..(b + n - 1) \subseteq Free
  <2>1. \A x \in p..(b + n - 1) : x \in p..b \/ x \in b..(b + n - 1)
    BY <1>0, <1>2
  <2> QED
    BY <1>1, <2>1 DEF Block
<1>4. b + n - 1 < p + property[p]
  BY <1>0, <1>1, <1>2, <1>3, RunLength
<1>5. property[p] >= n
  BY <1>0, <1>1, <1>2, <1>4
<1>6. PICK i \in 1..Len(free_list) : free_list[i] = p
  BY <1>0, FreeIndex
<1>7. i \in Heads(n)
  BY <1>0, <1>5, <1>6 DEF Heads
<1>8. \A k \in Nat : k < n => free_list[i] + k \in Free
  BY <1>2, <1>5, <1>6, RunFacts
<1>9. n - 1 \in Nat /\ n - 1 < n
  OBVIOUS
<1>10. i + (n - 1) <= Len(free_list)
  BY <1>0, <1>8, <1>9, Contiguous
<1> QED
  BY <1>0, <1>7, <1>10 DEF ListOK

\* The run that AllocPages finds, and its pages in the list.
LEMMA FoundRun ==
    ASSUME FirstFitOK, NEW n \in Nat \ {0}, Heads(n) # {}
    PROVE  \E i \in 1..Len(free_list) : \E p \in Free :
              /\ i = Min(Heads(n)) /\ free_list[i] = p
              /\ property[p] >= n /\ p - 1 \notin Free
              /\ \A k \in Nat : k < property[p] =>
                    i + k <= Len(free_list) /\ free_list[i + k] = p + k
<1>0. ListOK /\ Len(free_list) \in Nat /\ DOMAIN free_list = 1..Len(free_list)
  BY DEF FirstFitOK, ListOK
<1>1. Heads(n) \subseteq Nat
  BY <1>0 DEF Heads
<1>2. PICK i \in 1..Len(free_list) : i = Min(Heads(n)) /\ property[free_list[i]] >= n
  BY <1>0, <1>1, NatMin DEF Heads
<1>3. PICK p \in Free : p = free_list[i]
  BY <1>0, FreeIndex
<1>4. p \in Nat /\ property[p] \in Nat /\ p - 1 \notin Free
  BY <1>2, <1>3, RunFacts
<1>5. \A k \in Nat : k < property[p] => free_list[i] + k \in Free
  BY <1>3, <1>4, RunFacts
<1>6. \A k \in Nat : k < property[p] => i + k <= Len(free_list) /\ free_list[i + k] = p + k
  BY <1>0, <1>3, <1>4, <1>5, Contiguous
<1> QED
  BY <1>2, <1>3, <1>4, <1>6

\* The first pages of a run are taken.
TakenFrom(f, p, n) == IF f[p] > n THEN [f EXCEPT ![p + n] = f[p] - n] ELSE f
TakesRun(F, f, p, n) ==
    /\ F \in SUBSET Pages /\ f \in [Pages -> Nat] /\ Runs(F, f)
    /\ n \in Nat \ {0} /\ p \in F /\ p - 1 \notin F /\ n <= f[p]
SameBut(F, f, p, n, g) == \A q \in Pages : q # p + n \/ q \notin F => g[q] = f[q]

\* Taking the first pages of a run (default_alloc_pages) leaves runs with right lengths.
LEMMA RunsTake ==
    ASSUME NEW F, NEW f, NEW p, NEW n, TakesRun(F, f, p, n)
    PROVE  /\ TakenFrom(f, p, n) \in [Pages -> Nat]
           /\ Runs(F \ Block(p, n), TakenFrom(f, p, n))
           /\ Block(p, n) \subseteq F
           /\ SameBut(F, f, p, n, TakenFrom(f, p, n))
<1> USE DEF TakesRun
<1>0. Pages \subseteq Nat /\ p \in Pages /\ p \in Nat /\ f[p] \in Nat
  BY FirstFitConstants DEF Pages
<1>1. f[p] > 0 /\ p + f[p] \notin F /\ \A x \in Int : p <= x /\ x < p + f[p] => x \in F
  BY <1>0 DEF Runs, Block
<1>2. p + n \in F <=> f[p] > n
  BY <1>0, <1>1
<1> DEFINE g == TakenFrom(f, p, n)
<1>3. /\ g \in [Pages -> Nat]
      /\ \A q \in Pages : g[q] = IF q = p + n /\ f[p] > n THEN f[p] - n ELSE f[q]
  BY <1>0, <1>2 DEF TakenFrom
<1>4. Block(p, n) \subseteq F
  BY <1>0, <1>1 DEF Block
<1> HIDE DEF g
<1>5. ASSUME NEW q \in F, q \notin Block(p, n)
      PROVE  IF q - 1 \in F \ Block(p, n) THEN g[q] = 0
             ELSE /\ g[q] > 0
                  /\ Block(q, g[q]) \subseteq F \ Block(p, n)
                  /\ q + g[q] \notin F \ Block(p, n)
  <2>0. q \in Nat /\ q \in Pages /\ f[q] \in Nat /\ (q < p \/ q >= p + n)
    BY <1>0, <1>5 DEF Block
  <2>1. CASE q = p + n
    <3>1. q - 1 \in Block(p, n) /\ f[p] > n /\ g[q] = f[p] - n
      BY <1>0, <1>2, <1>3, <1>5, <2>0, <2>1 DEF Block
    <3>2. q + g[q] = p + f[p]
      BY <1>0, <2>1, <3>1
    <3>3. Block(q, g[q]) \subseteq F \ Block(p, n)
      <4>1. ASSUME NEW x \in Block(q, g[q]) PROVE x \in F \ Block(p, n)
        <5>1. x \in Int /\ x >= p + n /\ x < p + f[p]
          BY <1>0, <2>0, <2>1, <3>1, <4>1 DEF Block
        <5>2. x \in F
          BY <1>0, <1>1, <5>1
        <5>3. x \notin Block(p, n)
          BY <1>0, <5>1 DEF Block
        <5> QED
          BY <5>2, <5>3
      <4> QED
        BY <4>1
    <3> QED
      BY <1>0, <1>1, <3>1, <3>2, <3>3
  <2>2. CASE q # p + n
    <3>1. g[q] = f[q] /\ q - 1 \notin Block(p, n)
      BY <1>0, <1>3, <2>0, <2>2 DEF Block
    <3>2. CASE q - 1 \in F
      BY <3>1, <3>2 DEF Runs
    <3>3. CASE q - 1 \notin F
      <4>1. f[q] > 0 /\ Block(q, f[q]) \subseteq F /\ q + f[q] \notin F
        BY <3>3 DEF Runs
      <4>2. q < p => q + f[q] < p
        <5> SUFFICES ASSUME q < p, p <= q + f[q] PROVE FALSE
          BY <1>0, <2>0
        <5>1. p - 1 \in Block(q, f[q])
          BY <1>0, <2>0 DEF Block
        <5> QED
          BY <4>1, <5>1
      <4>3. Block(q, f[q]) \intersect Block(p, n) = {}
        <5>1. ASSUME NEW x \in Block(q, f[q]), x \in Block(p, n) PROVE FALSE
          BY <1>0, <2>0, <4>2, <5>1 DEF Block
        <5> QED
          BY <5>1
      <4> QED
        BY <3>1, <3>3, <4>1, <4>3
    <3> QED
      BY <3>2, <3>3
  <2> QED
    BY <2>1, <2>2
<1>6. Runs(F \ Block(p, n), g)
  BY <1>5 DEF Runs
<1> QED
  BY <1>2, <1>3, <1>4, <1>6 DEF g, SameBut

\* A block of pages is freed, and joined to the runs below and above it.
GivenTo(F, f, b, n, h) ==
    LET long == n + IF b + n \in F THEN f[b + n] ELSE 0
    IN [p \in Pages |->
          CASE b + n \in F /\ p = b + n -> 0
            [] p = b                    -> IF b - 1 \in F THEN 0 ELSE long
            [] b - 1 \in F /\ p = h     -> f[p] + long
            [] OTHER                    -> f[p]]
GivesRun(F, f, b, n, h) ==
    /\ F \in SUBSET Pages /\ f \in [Pages -> Nat] /\ Runs(F, f)
    /\ n \in Nat \ {0} /\ b \in Pages /\ Block(b, n) \subseteq Pages \ F
    /\ \A q \in Block(b, n) : q # b => f[q] = 0
    /\ b - 1 \in F => h \in F /\ h < b /\ h - 1 \notin F /\ h..(b - 1) \subseteq F

\* Giving a block back (default_free_pages) leaves runs with right lengths, joined or not.
LEMMA RunsGive ==
    ASSUME NEW F, NEW f, NEW b, NEW n, NEW h, GivesRun(F, f, b, n, h)
    PROVE  /\ GivenTo(F, f, b, n, h) \in [Pages -> Nat]
           /\ Runs(F \union Block(b, n), GivenTo(F, f, b, n, h))
           /\ \A q \in Pages : q \notin F \union Block(b, n) => GivenTo(F, f, b, n, h)[q] = f[q]
<1> USE DEF GivesRun
<1>0. Pages \subseteq Nat /\ b \in Nat /\ b \in Block(b, n) /\ b \notin F
  BY FirstFitConstants DEF Pages, Block
<1>1. PICK long \in Nat : long = n + IF b + n \in F THEN f[b + n] ELSE 0
  BY <1>0
<1>2. PICK e \in Nat : e = b + long /\ e > b
  BY <1>0, <1>1
<1> DEFINE G == F \union Block(b, n)
           g == GivenTo(F, f, b, n, h)
<1>3. /\ g \in [Pages -> Nat]
      /\ b + n \in F => g[b + n] = 0
      /\ g[b] = IF b - 1 \in F THEN 0 ELSE long
      /\ b - 1 \in F => g[h] = f[h] + long
      /\ \A q \in Pages : q # b /\ (b + n \in F => q # b + n) /\ (b - 1 \in F => q # h) => g[q] = f[q]
  <2>1. \A q \in Pages : g[q] =
          CASE b + n \in F /\ q = b + n -> 0
            [] q = b                    -> IF b - 1 \in F THEN 0 ELSE long
            [] b - 1 \in F /\ q = h     -> f[q] + long
            [] OTHER                    -> f[q]
    BY <1>1 DEF GivenTo
  <2>2. b + n # b /\ (b - 1 \in F => h # b /\ h # b + n /\ h \in Pages)
    <3>1. ASSUME b - 1 \in F PROVE h # b /\ h # b + n /\ h \in Pages
      <4>1. h \in Pages /\ h \in Nat /\ h < b
        BY <1>0, <3>1
      <4> QED
        BY <1>0, <4>1
    <3> QED
      BY <1>0, <3>1
  <2>3. \A q \in Pages : g[q] \in Nat
    BY <1>1, <2>1, <2>2
  <2>4. DOMAIN g = Pages /\ g = [q \in Pages |-> g[q]]
    BY DEF GivenTo
  <2> HIDE DEF g
  <2>5. g \in [Pages -> Nat]
    BY <2>3, <2>4
  <2> QED
    BY <1>0, <2>1, <2>2, <2>5
<1>4. b..(e - 1) \subseteq G /\ e \notin G
  <2>1. CASE b + n \in F
    <3>1. b + n - 1 \notin F
      BY <1>0 DEF Block
    <3>2. (b + n) - 1 = b + n - 1
      BY <1>0
    <3>3. Block(b + n, f[b + n]) \subseteq F /\ b + n + f[b + n] \notin F /\ f[b + n] \in Nat
      BY <1>0, <2>1, <3>1, <3>2 DEF Runs
    <3>4. e = b + n + f[b + n]
      BY <1>0, <1>1, <1>2, <2>1, <3>3
    <3>5. \A x \in b..(e - 1) : x \in Block(b, n) \/ x \in Block(b + n, f[b + n])
      BY <1>0, <3>3, <3>4 DEF Block
    <3>6. e \notin Block(b, n)
      BY <1>0, <3>3, <3>4 DEF Block
    <3> QED
      BY <3>3, <3>4, <3>5, <3>6
  <2>2. CASE b + n \notin F
    <3>1. e = b + n
      BY <1>1, <1>2, <2>2
    <3> QED
      BY <1>0, <2>2, <3>1 DEF Block
  <2> QED
    BY <2>1, <2>2
<1> HIDE DEF g
<1>5. ASSUME NEW q \in G
      PROVE  IF q - 1 \in G THEN g[q] = 0
             ELSE g[q] > 0 /\ Block(q, g[q]) \subseteq G /\ q + g[q] \notin G
  <2>0. q \in Nat /\ q \in Pages /\ f[q] \in Nat
    BY <1>0
  <2>1. CASE q = b
    <3>1. q - 1 \notin Block(b, n)
      BY <1>0, <2>1 DEF Block
    <3>2. CASE q - 1 \in F
      BY <1>3, <2>1, <3>2
    <3>3. CASE q - 1 \notin F
      <4>1. g[q] = long /\ Block(q, g[q]) = b..(e - 1) /\ q + g[q] = e /\ g[q] > 0
        BY <1>0, <1>1, <1>2, <1>3, <2>1, <3>3 DEF Block
      <4> QED
        BY <1>4, <3>1, <3>3, <4>1
    <3> QED
      BY <3>2, <3>3
  <2>2. CASE q # b /\ q \in Block(b, n)
    <3>1. q - 1 \in Block(b, n) /\ q \notin F
      BY <1>0, <2>2 DEF Block
    <3>2. f[q] = 0 /\ g[q] = f[q]
      <4>1. b - 1 \in F => q # h
        BY <3>1
      <4>2. b + n \in F => q # b + n
        BY <3>1
      <4> QED
        BY <1>3, <2>0, <2>2, <4>1, <4>2
    <3> QED
      BY <3>1, <3>2
  <2>3. CASE q = b + n /\ q \in F
    <3>1. q - 1 \in Block(b, n)
      BY <1>0, <2>3 DEF Block
    <3> QED
      BY <1>3, <2>3, <3>1
  <2>4. CASE b - 1 \in F /\ q = h
    <3>1. q - 1 \notin G
      BY <1>0, <2>4 DEF Block
    <3>2. f[h] > 0 /\ Block(h, f[h]) \subseteq F /\ h + f[h] \notin F /\ h \in Nat /\ f[h] \in Nat
      BY <1>0, <2>4 DEF Runs
    <3>3. h + f[h] = b
      <4>1. \A x \in Int : h <= x /\ x < h + f[h] => x \in F
        BY <3>2 DEF Block
      <4>2. b >= h + f[h]
        <5>1. h < b /\ b \notin F
          BY <1>0, <2>4
        <5> QED
          BY <1>0, <3>2, <4>1, <5>1
      <4>3. \A x \in Int : h <= x /\ x < b => x \in F
        BY <1>0, <2>4
      <4>4. b <= h + f[h]
        BY <1>0, <3>2, <4>3
      <4> QED
        BY <1>0, <3>2, <4>2, <4>4
    <3>4. g[q] = f[h] + long /\ q + g[q] = e /\ g[q] > 0
      BY <1>0, <1>1, <1>2, <1>3, <2>4, <3>2, <3>3
    <3>5. \A x \in Block(q, g[q]) : x \in h..(b - 1) \/ x \in b..(e - 1)
      BY <1>0, <1>2, <2>4, <3>2, <3>4 DEF Block
    <3> QED
      BY <1>4, <2>4, <3>1, <3>4, <3>5
  <2>5. CASE q \in F /\ q # b + n /\ (b - 1 \in F => q # h)
    <3>1. q # b /\ g[q] = f[q] /\ q - 1 \notin Block(b, n)
      BY <1>0, <1>3, <2>0, <2>5 DEF Block
    <3>2. CASE q - 1 \in F
      BY <3>1, <3>2, <2>5 DEF Runs
    <3>3. CASE q - 1 \notin F
      <4>1. f[q] > 0 /\ Block(q, f[q]) \subseteq F /\ q + f[q] \notin F
        BY <3>3, <2>5 DEF Runs
      <4>2. q + f[q] \notin Block(b, n)
        <5> SUFFICES ASSUME q + f[q] \in Block(b, n) PROVE FALSE
          OBVIOUS
        <5>1. q + f[q] - 1 \in F
          BY <2>0, <4>1 DEF Block
        <5>2. q + f[q] = b
          <6> SUFFICES ASSUME q + f[q] # b PROVE FALSE
            OBVIOUS
          <6>1. q + f[q] - 1 \in Block(b, n)
            BY <1>0, <2>0 DEF Block
          <6> QED
            BY <5>1, <6>1
        <5>3. b - 1 \in F /\ q <= b - 1
          BY <1>0, <2>0, <4>1, <5>1, <5>2
        <5>4. h \in Nat /\ q # h
          BY <1>0, <2>5, <5>3
        <5>5. ~ (q < h)
          <6> SUFFICES ASSUME q < h PROVE FALSE
            OBVIOUS
          <6>1. h - 1 \in Block(q, f[q])
            BY <1>0, <2>0, <5>2, <5>3, <5>4 DEF Block
          <6> QED
            BY <4>1, <5>3, <6>1
        <5>6. ~ (h < q)
          <6> SUFFICES ASSUME h < q PROVE FALSE
            OBVIOUS
          <6>1. q - 1 \in h..(b - 1)
            BY <1>0, <2>0, <5>3, <5>4
          <6> QED
            BY <3>3, <5>3, <6>1
        <5> QED
          BY <2>0, <5>4, <5>5, <5>6
      <4> QED
        BY <3>1, <3>3, <4>1, <4>2
    <3> QED
      BY <3>2, <3>3
  <2> QED
    BY <2>1, <2>2, <2>3, <2>4, <2>5
<1>6. Runs(G, g)
  BY <1>5 DEF Runs
<1>7. \A q \in Pages : q \notin G => g[q] = f[q]
  BY <1>0, <1>3
<1> QED
  BY <1>3, <1>6, <1>7 DEF g

\* The elements of an ascending sequence.
LEMMA Elements ==
    ASSUME NEW s \in Seq(Pages)
    PROVE  /\ Len(s) \in Nat /\ DOMAIN s = 1..Len(s)
           /\ \A i \in 1..Len(s) : s[i] \in Pages /\ s[i] \in Nat
           /\ \A x : x \in ToSet(s) <=> \E i \in 1..Len(s) : s[i] = x
<1>1. Pages \subseteq Nat
  BY FirstFitConstants DEF Pages
<1>2. /\ Len(s) \in Nat /\ DOMAIN s = 1..Len(s)
      /\ \A i \in 1..Len(s) : s[i] \in Pages /\ s[i] \in Nat
  <2>1. /\ Len(s) \in Nat /\ DOMAIN s = 1..Len(s)
        /\ \A i \in 1..Len(s) : s[i] \in Pages
    OBVIOUS
  <2> QED
    BY ONLY <1>1, <2>1
<1>3. \A x : x \in ToSet(s) <=> \E i \in 1..Len(s) : s[i] = x
  BY <1>2 DEF ToSet
<1> QED
  BY <1>2, <1>3

\* Pages that follow one another are taken out of the list.
TakesPages(s, i, p, n, r) ==
    /\ s \in Seq(Pages) /\ Ascending(s) /\ i \in 1..Len(s) /\ p = s[i] /\ n \in Nat \ {0}
    /\ \A k \in Nat : k < n => i + k <= Len(s) /\ s[i + k] = p + k
    /\ Cut3(r, SubSeq(s, 1, i - 1), SubSeq(s, i + n, Len(s)))

\* The list without the pages that are taken is still in address order.
LEMMA ListTake ==
    ASSUME NEW s, NEW i, NEW p, NEW n, NEW r, TakesPages(s, i, p, n, r)
    PROVE  /\ r \in Seq(Pages) /\ Ascending(r) /\ Len(r) = Len(s) - n
           /\ ToSet(r) = ToSet(s) \ Block(p, n)
<1> USE DEF TakesPages
<1>0. /\ Len(s) \in Nat /\ p \in Nat
      /\ \A j \in 1..Len(s) : s[j] \in Pages /\ s[j] \in Nat
  BY Elements
<1>1. i + n - 1 <= Len(s) /\ i + n - 1 \in 1..Len(s) /\ s[i + n - 1] = p + n - 1
  <2>1. n - 1 \in Nat /\ n - 1 < n
    OBVIOUS
  <2>2. i + (n - 1) <= Len(s) /\ s[i + (n - 1)] = p + (n - 1)
    BY <2>1
  <2>3. i + (n - 1) = i + n - 1 /\ p + (n - 1) = p + n - 1
    BY <1>0
  <2> QED
    BY <1>0, <2>2, <2>3
<1>2. /\ r \in Seq(Pages) /\ Len(r) = Len(s) - n
      /\ \A j \in 1..Len(r) : r[j] = IF j < i THEN s[j] ELSE s[j + n]
  BY <1>1, CutOut
<1>3. Len(r) \in Nat /\ \A x : x \in ToSet(r) <=> \E j \in 1..Len(r) : r[j] = x
  BY <1>2, Elements
<1>4. Ascending(r)
  <2> SUFFICES ASSUME NEW j \in 1..Len(r), NEW k \in 1..Len(r), j < k PROVE r[j] < r[k]
    BY DEF Ascending
  <2>1. PICK x \in 1..Len(s) : x = IF j < i THEN j ELSE j + n
    BY <1>0, <1>1, <1>2
  <2>2. PICK y \in 1..Len(s) : y = IF k < i THEN k ELSE k + n
    BY <1>0, <1>1, <1>2
  <2>3. x < y
    BY <1>3, <2>1, <2>2
  <2>4. r[j] = s[x] /\ r[k] = s[y]
    BY <1>2, <2>1, <2>2
  <2> QED
    BY <2>3, <2>4 DEF Ascending
<1>5. ASSUME NEW x \in ToSet(r) PROVE x \in ToSet(s) \ Block(p, n)
  <2>1. PICK j \in 1..Len(r) : r[j] = x
    BY <1>3
  <2>2. CASE j < i
    <3>1. j \in 1..Len(s) /\ x = s[j]
      BY <1>0, <1>2, <2>1, <2>2
    <3>2. s[j] < p
      BY <2>2, <3>1 DEF Ascending
    <3>3. x \notin Block(p, n)
      BY <1>0, <3>1, <3>2 DEF Block
    <3> QED
      BY <3>1, <3>3, Elements
  <2>3. CASE ~(j < i)
    <3>1. PICK k \in 1..Len(s) : k = j + n /\ x = s[k]
      BY <1>0, <1>2, <2>1, <2>3
    <3>2. i + n - 1 < k
      BY <1>3, <2>3, <3>1
    <3>3. s[i + n - 1] < s[k]
      BY <1>1, <3>2 DEF Ascending
    <3>4. x \notin Block(p, n)
      BY <1>0, <1>1, <3>1, <3>3 DEF Block
    <3> QED
      BY <3>1, <3>4, Elements
  <2> QED
    BY <2>2, <2>3
<1>6. ASSUME NEW x \in ToSet(s), x \notin Block(p, n) PROVE x \in ToSet(r)
  <2>1. PICK j \in 1..Len(s) : s[j] = x
    BY Elements
  <2>2. CASE j < i
    <3>1. j \in 1..Len(r) /\ r[j] = x
      BY <1>0, <1>1, <1>2, <2>1, <2>2
    <3> QED
      BY <1>3, <3>1
  <2>3. CASE j >= i /\ j < i + n
    <3>1. PICK k \in Nat : k = j - i /\ k < n /\ i + k = j
      BY <2>3
    <3>2. s[j] = p + k
      BY <3>1
    <3> QED
      BY <1>0, <1>6, <2>1, <3>1, <3>2 DEF Block
  <2>4. CASE j >= i + n
    <3>1. PICK k \in 1..Len(r) : k = j - n /\ k + n = j /\ ~(k < i)
      BY <1>0, <1>1, <1>2, <2>4
    <3>2. r[k] = s[k + n]
      BY <1>2, <3>1
    <3> QED
      BY <1>3, <2>1, <3>1, <3>2
  <2> QED
    BY <1>0, <2>2, <2>3, <2>4
<1> QED
  BY <1>2, <1>4, <1>5, <1>6

\* A block of pages is put into the list where it belongs.
PutsPages(s, i, b, n, r) ==
    /\ s \in Seq(Pages) /\ Ascending(s) /\ i \in 1..(Len(s) + 1) /\ b \in Pages
    /\ n \in Nat \ {0} /\ Block(b, n) \subseteq Pages \ ToSet(s)
    /\ \A j \in 1..Len(s) : IF j < i THEN s[j] < b ELSE s[j] > b
    /\ Put3(r, SubSeq(s, 1, i - 1), [k \in 1..n |-> b + k - 1], SubSeq(s, i, Len(s)))

\* The list with the pages that are given back is still in address order.
LEMMA ListPut ==
    ASSUME NEW s, NEW i, NEW b, NEW n, NEW r, PutsPages(s, i, b, n, r)
    PROVE  /\ r \in Seq(Pages) /\ Ascending(r) /\ Len(r) = Len(s) + n
           /\ ToSet(r) = ToSet(s) \union Block(b, n)
<1> USE DEF PutsPages
<1>0. /\ Len(s) \in Nat /\ b \in Nat
      /\ \A j \in 1..Len(s) : s[j] \in Pages /\ s[j] \in Nat
  BY Elements, FirstFitConstants DEF Pages
<1>1. PICK t : t = [k \in 1..n |-> b + k - 1]
  OBVIOUS
<1>2. /\ \A k \in 1..n : t[k] = b + k - 1 /\ t[k] \in Pages /\ t[k] \in Block(b, n)
      /\ t \in Seq(Pages) /\ Len(t) = n
  <2>1. \A k \in 1..n : b + k - 1 \in Block(b, n) /\ b + k - 1 \in Pages
    BY <1>0 DEF Block
  <2>2. \A k \in 1..n : t[k] = b + k - 1
    BY <1>1
  <2>3. t \in [1..n -> Pages]
    BY <1>1, <2>1
  <2> QED
    BY <2>1, <2>2, <2>3
<1>3. /\ r \in Seq(Pages) /\ Len(r) = Len(s) + n
      /\ \A j \in 1..Len(r) : r[j] = IF j < i THEN s[j] ELSE IF j < i + n THEN t[j - i + 1]
                                      ELSE s[j - n]
  <2>1. Put3(r, SubSeq(s, 1, i - 1), t, SubSeq(s, i, Len(s)))
    BY <1>1
  <2>2. /\ r \in Seq(Pages) /\ Len(r) = Len(s) + Len(t)
        /\ \A j \in 1..Len(r) : r[j] = IF j < i THEN s[j]
                                         ELSE IF j < i + Len(t) THEN t[j - i + 1]
                                         ELSE s[j - Len(t)]
    <3>1. s \in Seq(Pages) /\ t \in Seq(Pages) /\ i \in 1..(Len(s) + 1)
      BY <1>2
    <3> QED
      BY ONLY <2>1, <3>1, PutIn
  <2> QED
    BY ONLY <1>2, <2>2
<1>4. Len(r) \in Nat /\ \A x : x \in ToSet(r) <=> \E j \in 1..Len(r) : r[j] = x
  BY <1>3, Elements
<1>5. \A j \in 1..Len(s) : ~(j < i) => s[j] >= b + n
  <2>1. ASSUME NEW j \in 1..Len(s), ~(j < i) PROVE s[j] >= b + n
    <3>1. s[j] > b /\ s[j] \in ToSet(s)
      BY <2>1, Elements
    <3>2. s[j] \notin Block(b, n)
      BY <3>1
    <3> QED
      BY <1>0, <3>1, <3>2 DEF Block
  <2> QED
    BY <2>1
<1>6. ASSUME NEW j \in 1..Len(r)
      PROVE  \/ j < i /\ j \in 1..Len(s) /\ r[j] = s[j] /\ r[j] < b
             \/ j >= i /\ j < i + n /\ r[j] = b + (j - i)
             \/ j >= i + n /\ j - n \in 1..Len(s) /\ r[j] = s[j - n] /\ r[j] >= b + n
  <2>1. CASE j < i
    BY <1>0, <1>3, <2>1
  <2>2. CASE j >= i /\ j < i + n
    <3>1. PICK k \in 1..n : k = j - i + 1
      BY <2>2
    <3>2. r[j] = t[k] /\ t[k] = b + k - 1
      BY <1>2, <1>3, <2>2, <3>1
    <3> QED
      BY <1>0, <2>2, <3>1, <3>2
  <2>3. CASE j >= i + n
    <3>1. PICK k \in 1..Len(s) : k = j - n /\ ~(k < i)
      BY <1>0, <1>3, <2>3
    <3>2. r[j] = s[k] /\ s[k] >= b + n
      BY <1>3, <1>5, <2>3, <3>1
    <3> QED
      BY <2>3, <3>1, <3>2
  <2> QED
    BY <1>4, <2>1, <2>2, <2>3
<1>7. Ascending(r)
  <2> SUFFICES ASSUME NEW j \in 1..Len(r), NEW k \in 1..Len(r), j < k PROVE r[j] < r[k]
    BY DEF Ascending
  <2>1. CASE k < i
    <3>1. j \in 1..Len(s) /\ k \in 1..Len(s) /\ r[j] = s[j] /\ r[k] = s[k]
      BY <1>0, <1>3, <2>1
    <3> QED
      BY <3>1 DEF Ascending
  <2>2. CASE j < i /\ k >= i
    <3>1. j \in 1..Len(s) /\ r[j] = s[j] /\ r[j] < b
      BY <1>4, <1>6, <2>2
    <3>2. r[k] \in Nat /\ r[k] >= b
      <4>1. k >= i /\ k < i + n /\ r[k] = b + (k - i) => r[k] \in Nat /\ r[k] >= b
        BY <1>0, <1>4
      <4>2. k >= i + n /\ k - n \in 1..Len(s) /\ r[k] = s[k - n] /\ r[k] >= b + n
              => r[k] \in Nat /\ r[k] >= b
        BY <1>0, <1>4
      <4> QED
        BY <1>6, <2>2, <4>1, <4>2
    <3>3. r[j] \in Nat
      BY <1>0, <3>1
    <3> QED
      BY <1>0, <3>1, <3>2, <3>3
  <2>3. CASE j >= i /\ k < i + n
    <3>1. j < i + n /\ k >= i
      BY <1>4, <2>3
    <3>2. r[j] = b + (j - i) /\ r[k] = b + (k - i)
      BY <1>6, <2>3, <3>1
    <3> QED
      BY <1>0, <3>2
  <2>4. CASE j >= i /\ j < i + n /\ k >= i + n
    <3>1. r[j] = b + (j - i) /\ r[k] >= b + n /\ k - n \in 1..Len(s) /\ r[k] = s[k - n]
      BY <1>6, <2>4
    <3>2. PICK y \in Nat : y = r[k]
      BY <1>0, <3>1
    <3> QED
      BY <1>0, <2>4, <3>1, <3>2
  <2>5. CASE j >= i + n
    <3>1. PICK x \in 1..Len(s), y \in 1..Len(s) : x = j - n /\ y = k - n /\ r[j] = s[x] /\ r[k] = s[y]
      BY <1>4, <1>6, <2>5
    <3>2. x < y
      BY <3>1
    <3> QED
      BY <3>1, <3>2 DEF Ascending
  <2> QED
    BY <1>4, <2>1, <2>2, <2>3, <2>4, <2>5
<1>8. ASSUME NEW x \in ToSet(r) PROVE x \in ToSet(s) \union Block(b, n)
  <2>1. PICK j \in 1..Len(r) : r[j] = x
    BY <1>4
  <2>2. \/ \E k \in 1..Len(s) : x = s[k]
        \/ j >= i /\ j < i + n /\ x = b + (j - i)
    BY <1>6, <2>1
  <2>3. j >= i /\ j < i + n /\ x = b + (j - i) => x \in Block(b, n)
    BY <1>0 DEF Block
  <2> QED
    BY <2>2, <2>3, Elements
<1>9. ASSUME NEW x \in ToSet(s) PROVE x \in ToSet(r)
  <2>1. PICK j \in 1..Len(s) : s[j] = x
    BY Elements
  <2>2. CASE j < i
    <3>1. j \in 1..Len(r)
      BY <1>0, <1>3
    <3> QED
      BY <1>3, <1>4, <2>1, <2>2, <3>1
  <2>3. CASE ~(j < i)
    <3>1. PICK k \in 1..Len(r) : k = j + n /\ k - n = j /\ ~(k < i) /\ ~(k < i + n)
      BY <1>0, <1>3, <2>3
    <3> QED
      BY <1>3, <1>4, <2>1, <3>1
  <2> QED
    BY <2>2, <2>3
<1>10. ASSUME NEW x \in Block(b, n) PROVE x \in ToSet(r)
  <2>1. PICK k \in Nat : x = b + k /\ k < n
    BY <1>0 DEF Block
  <2>2. PICK j \in 1..Len(r) : j = i + k /\ ~(j < i) /\ j < i + n
    BY <1>0, <1>3, <2>1
  <2>3. r[j] = b + (j - i)
    BY <1>6, <2>2
  <2> QED
    BY <1>0, <1>4, <2>1, <2>2, <2>3
<1> QED
  BY <1>3, <1>7, <1>8, <1>9, <1>10

\* What default_alloc_pages does: n pages next to each other are taken, or there are none.
Granted(n, p) ==
    /\ got' = [n |-> n, at |-> p]
    /\ Block(p, n) \subseteq Free /\ Free' = Free \ Block(p, n)
    /\ Inner(p, n)'
    /\ \A q \in Pages \ Free : property'[q] = property[q]
Refused(n) ==
    /\ got' = [n |-> n, at |-> None]
    /\ \A b \in Free : ~(Block(b, n) \subseteq Free)
    /\ UNCHANGED <<free_list, property, nr_free>>

\* default_alloc_pages keeps list, lengths and count right, and takes pages or finds no run.
LEMMA Alloc ==
    ASSUME FirstFitOK, NEW n \in Nat \ {0}, AllocPages(n)
    PROVE  FirstFitOK' /\ (Refused(n) \/ \E p \in Free : Granted(n, p))
<1>1. CASE n > nr_free \/ Heads(n) = {}
  <2>1. got' = [n |-> n, at |-> None] /\ UNCHANGED <<free_list, property, nr_free>>
    BY <1>1 DEF AllocPages
  <2>2. \A b \in Free : ~(Block(b, n) \subseteq Free)
    <3>1. nr_free \in Nat
      BY DEF FirstFitOK, ListOK
    <3> QED
      BY <1>1, <3>1, HeadsFit
  <2>3. FirstFitOK'
    BY <2>1 DEF FirstFitOK, ListOK, RunsOK, Free
  <2> QED
    BY <2>1, <2>2, <2>3 DEF Refused
<1>2. CASE ~(n > nr_free \/ Heads(n) = {})
  <2>1. PICK i \in 1..Len(free_list), p \in Free :
              /\ i = Min(Heads(n)) /\ free_list[i] = p
              /\ property[p] >= n /\ p - 1 \notin Free
              /\ \A k \in Nat : k < property[p] =>
                    i + k <= Len(free_list) /\ free_list[i + k] = p + k
    BY <1>2, FoundRun
  <2>2. PICK s, f, F, r, g : /\ s = free_list /\ f = property /\ F = Free
                             /\ r = free_list' /\ g = property'
    OBVIOUS
  <2>3. /\ s \in Seq(Pages) /\ Ascending(s) /\ F = ToSet(s) /\ F \subseteq Pages
        /\ f \in [Pages -> Nat] /\ Runs(F, f) /\ nr_free = Len(s) /\ Len(s) \in Nat
    BY <2>2, FreeIndex DEF FirstFitOK, ListOK, RunsOK, Free
  <2>4. /\ i \in 1..Len(s) /\ p = s[i] /\ p \in F /\ p \in Pages /\ p \in Nat
        /\ f[p] >= n /\ f[p] \in Nat /\ p - 1 \notin F
        /\ \A k \in Nat : k < f[p] => i + k <= Len(s) /\ s[i + k] = p + k
    BY <2>1, <2>2, <2>3, RunFacts
  <2>5. /\ free_list' = SubSeq(free_list, 1, i - 1) \o SubSeq(free_list, i + n, Len(free_list))
        /\ property' = Shrunk(p, i, n) /\ nr_free' = nr_free - n
        /\ got' = [n |-> n, at |-> p]
    BY <1>2, <2>1 DEF AllocPages
  <2>6. /\ r \in Seq(Pages) /\ Ascending(r) /\ Len(r) = Len(s) - n
        /\ ToSet(r) = F \ Block(p, n)
    <3>1. Cut3(r, SubSeq(s, 1, i - 1), SubSeq(s, i + n, Len(s)))
      BY <2>2, <2>5 DEF Cut3
    <3>2. \A k \in Nat : k < n => i + k <= Len(s) /\ s[i + k] = p + k
      BY <2>4
    <3>3. s \in Seq(Pages) /\ i \in 1..Len(s) /\ n \in Nat \ {0} /\ p = s[i] /\ Ascending(s)
      BY <2>3, <2>4
    <3>4. ToSet(r) = ToSet(s) \ Block(p, n) /\ r \in Seq(Pages) /\ Ascending(r) /\ Len(r) = Len(s) - n
      <4>1. TakesPages(s, i, p, n, r)
        BY ONLY <3>1, <3>2, <3>3 DEF TakesPages
      <4> QED
        BY <4>1, ListTake
    <3> QED
      BY <2>3, <3>4
  <2>7. g = TakenFrom(f, p, n)
    <3>1. g = IF f[p] > n THEN [f EXCEPT ![s[i + n]] = f[p] - n] ELSE f
      BY <2>2, <2>5 DEF Shrunk
    <3>2. f[p] > n => s[i + n] = p + n
      BY <2>4
    <3> QED
      BY <3>1, <3>2 DEF TakenFrom
  <2>8. /\ g \in [Pages -> Nat] /\ Runs(F \ Block(p, n), g) /\ Block(p, n) \subseteq F
        /\ \A q \in Pages : q # p + n \/ q \notin F => g[q] = f[q]
    <3>1. TakesRun(F, f, p, n)
      BY <2>3, <2>4 DEF TakesRun
    <3>2. /\ TakenFrom(f, p, n) \in [Pages -> Nat]
          /\ Runs(F \ Block(p, n), TakenFrom(f, p, n))
          /\ Block(p, n) \subseteq F
          /\ SameBut(F, f, p, n, TakenFrom(f, p, n))
      BY ONLY <3>1, RunsTake
    <3> QED
      BY ONLY <2>7, <3>2 DEF SameBut
  <2>9. /\ ToSet(free_list') = F \ Block(p, n) /\ property' \in [Pages -> Nat]
        /\ Runs(F \ Block(p, n), property')
    BY <2>2, <2>6, <2>8
  <2>10. FirstFitOK'
    <3>1. ListOK'
      BY <2>2, <2>3, <2>5, <2>6 DEF ListOK
    <3>2. RunsOK'
      BY <2>9 DEF RunsOK, Free
    <3> QED
      BY <3>1, <3>2 DEF FirstFitOK
  <2>11. Inner(p, n)'
    <3>1. ASSUME NEW q \in Block(p, n), q # p PROVE property'[q] = 0
      <4>0. q - 1 \in Block(p, n) /\ q # p + n
        BY <2>4, <3>1 DEF Block
      <4>1. q \in F /\ q # p + n /\ q - 1 \in F
        BY <2>8, <3>1, <4>0
      <4>2. g[q] = f[q] /\ f[q] = 0
        BY <2>3, <2>8, <4>1 DEF Runs
      <4> QED
        BY <2>2, <4>2
    <3> QED
      BY <3>1 DEF Inner
  <2>12. Granted(n, p)
    BY <2>2, <2>5, <2>8, <2>9, <2>11 DEF Granted, Free
  <2> QED
    BY <2>1, <2>10, <2>12
<1> QED
  BY <1>1, <1>2

\* What default_free_pages does with pages that are not free.
Given(b, n) ==
    /\ got' = None
    /\ Free' = Free \union Block(b, n)
    /\ \A q \in Pages \ Free : q \notin Block(b, n) => property'[q] = property[q]

\* default_free_pages keeps list, lengths and count right, and adds exactly the block.
LEMMA Release ==
    ASSUME FirstFitOK, NEW n \in Nat \ {0}, NEW b \in Pages, Block(b, n) \subseteq Pages \ Free,
           Inner(b, n), FreePages(b, n)
    PROVE  FirstFitOK' /\ Given(b, n)
<1>0. PICK s, f, F, r, g : /\ s = free_list /\ f = property /\ F = Free
                           /\ r = free_list' /\ g = property'
  OBVIOUS
<1>1. /\ s \in Seq(Pages) /\ Ascending(s) /\ F = ToSet(s) /\ F \subseteq Pages
      /\ f \in [Pages -> Nat] /\ Runs(F, f) /\ nr_free = Len(s) /\ Len(s) \in Nat
      /\ DOMAIN s = 1..Len(s) /\ \A j \in 1..Len(s) : s[j] \in Pages /\ s[j] \in Nat /\ s[j] \in F
      /\ \A x \in F : \E j \in 1..Len(s) : s[j] = x
  <2>1. /\ s \in Seq(Pages) /\ Ascending(s) /\ F = ToSet(s) /\ F \subseteq Pages
        /\ f \in [Pages -> Nat] /\ Runs(F, f) /\ nr_free = Len(s)
    BY <1>0, FreeIndex DEF FirstFitOK, ListOK, RunsOK, Free
  <2> QED
    BY <2>1, Elements
<1>2. b \in Nat /\ b \in Block(b, n) /\ b \notin F /\ Block(b, n) \subseteq Pages \ F
  BY <1>0, FirstFitConstants DEF Pages, Block
<1>3. PICK i : i = LET higher == {j \in DOMAIN s : s[j] > b}
                   IN IF higher = {} THEN Len(s) + 1 ELSE Min(higher)
  OBVIOUS
<1>4. /\ i \in 1..(Len(s) + 1)
      /\ \A j \in 1..Len(s) : IF j < i THEN s[j] < b ELSE s[j] > b
  <2> DEFINE higher == {j \in DOMAIN s : s[j] > b}
  <2>1. CASE higher = {}
    <3>1. \A j \in 1..Len(s) : s[j] # b /\ ~(s[j] > b)
      BY <1>1, <1>2, <2>1
    <3>2. i = Len(s) + 1
      BY <1>3, <2>1
    <3> QED
      BY <1>1, <1>2, <3>1, <3>2
  <2>2. CASE higher # {}
    <3>1. higher \in SUBSET Nat
      BY <1>1
    <3>2. i \in higher /\ \A j \in higher : i <= j
      <4>1. i = Min(higher)
        BY <1>3, <2>2
      <4> HIDE DEF higher
      <4> QED
        BY <2>2, <3>1, <4>1, NatMin
    <3>3. ASSUME NEW j \in 1..Len(s), j < i PROVE s[j] < b
      <4>0. i \in 1..Len(s)
        BY <1>1, <3>2
      <4>1. j \notin higher /\ s[j] # b
        <5>1. ~(i <= j)
          BY <3>3, <4>0
        <5>2. j \notin higher
          BY <3>2, <5>1
        <5> QED
          BY <1>1, <1>2, <5>2
      <4> QED
        BY <1>1, <1>2, <4>1
    <3>4. ASSUME NEW j \in 1..Len(s), ~(j < i) PROVE s[j] > b
      <4>1. i \in 1..Len(s) /\ s[i] > b /\ (i = j \/ i < j)
        BY <1>1, <3>2, <3>4
      <4>2. i < j => s[i] < s[j]
        BY <1>1, <4>1 DEF Ascending
      <4> QED
        BY <1>1, <1>2, <4>1, <4>2
    <3> QED
      BY <1>1, <3>2, <3>3, <3>4
  <2> QED
    BY <2>1, <2>2
<1>5. /\ free_list' = SubSeq(s, 1, i - 1) \o [k \in 1..n |-> b + k - 1] \o SubSeq(s, i, Len(s))
      /\ property' = Joined(b, n, i) /\ nr_free' = nr_free + n /\ got' = None
  BY <1>0, <1>3 DEF FreePages
<1>6. /\ r \in Seq(Pages) /\ Ascending(r) /\ Len(r) = Len(s) + n
      /\ ToSet(r) = F \union Block(b, n)
  <2>1. Put3(r, SubSeq(s, 1, i - 1), [k \in 1..n |-> b + k - 1], SubSeq(s, i, Len(s)))
    BY <1>0, <1>5 DEF Put3
  <2>2. /\ s \in Seq(Pages) /\ Ascending(s) /\ b \in Pages /\ n \in Nat \ {0}
        /\ Block(b, n) \subseteq Pages \ ToSet(s)
    BY <1>0, <1>1
  <2>3. r \in Seq(Pages) /\ Ascending(r) /\ Len(r) = Len(s) + n /\ ToSet(r) = ToSet(s) \union Block(b, n)
    <3>1. PutsPages(s, i, b, n, r)
      BY ONLY <1>4, <2>1, <2>2 DEF PutsPages
    <3> QED
      BY <3>1, ListPut
  <2> QED
    BY <1>1, <2>3
<1> DEFINE S == {j \in 1..(i - 1) : f[s[j]] # 0}
<1>7. PICK h : h = s[Max(S)]
  OBVIOUS
<1>8. b - 1 \in F => h \in F /\ h < b /\ h - 1 \notin F /\ h..(b - 1) \subseteq F
  <2> SUFFICES ASSUME b - 1 \in F
               PROVE  h \in F /\ h < b /\ h - 1 \notin F /\ h..(b - 1) \subseteq F
    OBVIOUS
  <2>1. PICK c \in F : c <= b - 1 /\ c - 1 \notin F /\ c..(b - 1) \subseteq F
    BY <1>0, RunHead DEF FirstFitOK
  <2>2. c \in Nat /\ f[c] \in Nat /\ f[c] # 0
    BY <1>0, <2>1, RunFacts
  <2>3. PICK m \in 1..Len(s) : s[m] = c
    BY <1>1
  <2>4. m \in S
    <3>1. m < i
      <4> SUFFICES ASSUME ~(m < i) PROVE FALSE
        OBVIOUS
      <4>1. c > b
        BY <1>4, <2>3
      <4> QED
        BY <1>2, <2>1, <2>2, <4>1
    <3> QED
      BY <1>4, <2>2, <2>3, <3>1
  <2>5. \A j \in S : j <= m
    <3> SUFFICES ASSUME NEW j \in S, m < j PROVE FALSE
      BY <1>4
    <3>1. j \in 1..Len(s) /\ j < i /\ f[s[j]] # 0
      BY <1>1, <1>4
    <3>2. s[m] < s[j] /\ s[j] < b /\ s[j] \in F /\ s[j] \in Nat
      BY <1>1, <1>4, <3>1 DEF Ascending
    <3>3. s[j] - 1 \in c..(b - 1)
      BY <1>2, <2>2, <2>3, <3>2
    <3>4. f[s[j]] = 0
      BY <1>1, <2>1, <3>2, <3>3 DEF Runs
    <3> QED
      BY <3>1, <3>4
  <2>6. Max(S) = m
    <3>1. S \in SUBSET Int /\ m \in Int
      BY <1>1
    <3> HIDE DEF S
    <3>2. Max(S) \in S /\ \A x \in S : x <= Max(S)
      BY <2>4, <2>5, <3>1, IntMax
    <3>3. Max(S) <= m /\ m <= Max(S) /\ Max(S) \in Int
      BY <2>4, <2>5, <3>1, <3>2
    <3> QED
      BY ONLY <3>1, <3>3
  <2>7. h = c /\ c < b
    BY <1>2, <1>7, <2>1, <2>2, <2>3, <2>6
  <2> QED
    BY <2>1, <2>7
<1>9. g = GivenTo(F, f, b, n, h)
  <2>1. (i <= Len(s) /\ s[i] = b + n) <=> b + n \in F
    <3>1. i <= Len(s) /\ s[i] = b + n => b + n \in F
      BY <1>1, <1>4
    <3>2. ASSUME b + n \in F PROVE i <= Len(s) /\ s[i] = b + n
      <4>1. PICK j \in 1..Len(s) : s[j] = b + n
        BY <1>1, <3>2
      <4>2. ~(j < i)
        BY <1>2, <1>4, <4>1
      <4>3. i \in 1..Len(s) /\ s[i] > b /\ s[i] \in F /\ s[i] \in Nat
        BY <1>1, <1>4, <4>2
      <4>4. s[i] <= b + n
        <5>1. i = j \/ i < j
          BY <1>4, <4>2
        <5> QED
          BY <1>1, <1>2, <4>1, <4>3, <5>1 DEF Ascending
      <4>5. ~(s[i] < b + n)
        BY <1>2, <4>3 DEF Block
      <4> QED
        BY <1>2, <4>3, <4>4, <4>5
    <3> QED
      BY <3>1, <3>2
  <2>2. (i > 1 /\ s[i - 1] = b - 1) <=> b - 1 \in F
    <3>1. i > 1 /\ s[i - 1] = b - 1 => b - 1 \in F
      BY <1>1, <1>4
    <3>2. ASSUME b - 1 \in F PROVE i > 1 /\ s[i - 1] = b - 1
      <4>1. PICK j \in 1..Len(s) : s[j] = b - 1
        BY <1>1, <3>2
      <4>2. j < i
        BY <1>2, <1>4, <4>1
      <4>3. i - 1 \in 1..Len(s) /\ s[i - 1] < b /\ s[i - 1] \in Nat
        BY <1>1, <1>4, <4>2
      <4>4. j = i - 1 \/ j < i - 1
        BY <1>4, <4>2
      <4>5. s[i - 1] >= b - 1
        BY <1>1, <1>2, <4>1, <4>3, <4>4 DEF Ascending
      <4> QED
        BY <1>2, <1>4, <4>2, <4>3, <4>5
    <3> QED
      BY <3>1, <3>2
  <2>3. Max({j \in 1..(i - 1) : property[free_list[j]] # 0}) = Max(S)
    BY <1>0
  <2>4. PICK long : long = n + IF b + n \in F THEN f[b + n] ELSE 0
    OBVIOUS
  <2>5. \A p \in Pages : g[p] = CASE b + n \in F /\ p = b + n -> 0
                                 [] p = b                    -> IF b - 1 \in F THEN 0 ELSE long
                                 [] b - 1 \in F /\ p = h     -> f[p] + long
                                 [] OTHER                    -> f[p]
    <3>1. g = Joined(b, n, i)
      BY <1>0, <1>5
    <3>2. property = f /\ free_list = s
      BY <1>0
    <3>3. h = s[Max({j \in 1..(i - 1) : f[s[j]] # 0})]
      BY <1>7
    <3> QED
      BY ONLY <2>1, <2>2, <2>4, <3>1, <3>2, <3>3 DEF Joined
  <2>6. DOMAIN g = Pages /\ g = [p \in Pages |-> g[p]]
    BY <1>0, <1>5 DEF Joined
  <2>7. g = [p \in Pages |->
               CASE b + n \in F /\ p = b + n -> 0
                 [] p = b                    -> IF b - 1 \in F THEN 0 ELSE long
                 [] b - 1 \in F /\ p = h     -> f[p] + long
                 [] OTHER                    -> f[p]]
    BY ONLY <2>5, <2>6
  <2> QED
    BY ONLY <2>4, <2>7 DEF GivenTo
<1>10. /\ g \in [Pages -> Nat] /\ Runs(F \union Block(b, n), g)
       /\ \A q \in Pages : q \notin F \union Block(b, n) => g[q] = f[q]
  <2>1. \A q \in Block(b, n) : q # b => f[q] = 0
    BY <1>0 DEF Inner
  <2>2. GivesRun(F, f, b, n, h)
    BY <1>1, <1>2, <1>8, <2>1 DEF GivesRun
  <2> QED
    BY ONLY <1>9, <2>2, RunsGive
<1>11. FirstFitOK'
  <2>1. ListOK'
    BY <1>0, <1>1, <1>5, <1>6 DEF ListOK
  <2>2. RunsOK'
    BY <1>0, <1>6, <1>10 DEF RunsOK, Free
  <2> QED
    BY <2>1, <2>2 DEF FirstFitOK
<1> QED
  BY <1>0, <1>5, <1>6, <1>10, <1>11 DEF Given, Free

-----------------------------------------------------------------------------
(* Units, bytes and orders.                                                *)

U == UnitsPerPage

\* Quotient and remainder.
LEMMA Division ==
    ASSUME NEW k \in Nat, NEW m \in Nat \ {0}
    PROVE  /\ (k * m) \div m = k /\ (k * m) % m = 0
           /\ k \div m \in Nat /\ k % m \in 0..(m - 1) /\ k = m * (k \div m) + (k % m)
  OBVIOUS

\* A page is a whole number of units.
LEMMA UnitsInPage ==
    /\ UNIT \in Nat \ {0} /\ PAGE \in Nat \ {0} /\ BIGBLOCK \in Nat \ {0}
    /\ U \in Nat \ {0} /\ PAGE = UNIT * U
<1>1. UNIT \in Nat \ {0} /\ PAGE \in Nat \ {0} /\ BIGBLOCK \in Nat \ {0} /\ PAGE % UNIT = 0
  BY KernelHeapConstants
<1>2. PAGE \div UNIT \in Nat /\ PAGE = UNIT * (PAGE \div UNIT) + (PAGE % UNIT)
  BY <1>1, Division
<1>3. PICK q \in Nat : q = PAGE \div UNIT
  BY <1>2
<1>4. PAGE = UNIT * q
  BY <1>1, <1>2, <1>3
<1>5. q # 0
  BY <1>1, <1>4
<1> QED
  BY <1>1, <1>3, <1>4, <1>5 DEF U, UnitsPerPage

\* What is asked for in bytes, rounded up to units.
LEMMA Rounded ==
    ASSUME NEW size \in Nat \ {0}
    PROVE  /\ SLOB_UNITS(size) \in Nat \ {0} /\ SLOB_UNITS(size) * UNIT >= size
           /\ size > UNIT => SLOB_UNITS(size) >= 2
           /\ size + UNIT < PAGE => SLOB_UNITS(size) <= U
<1>1. UNIT \in Nat \ {0} /\ PAGE \in Nat \ {0} /\ U \in Nat \ {0} /\ PAGE = UNIT * U
  BY UnitsInPage
<1>2. size + UNIT - 1 \in Nat
  BY <1>1
<1>3. PICK q \in Nat, r \in 0..(UNIT - 1) : q = SLOB_UNITS(size) /\ size + UNIT - 1 = UNIT * q + r
  BY <1>1, <1>2, Division DEF SLOB_UNITS
<1>4. q * UNIT = UNIT * q
  BY <1>1
<1>5. UNIT * q >= size
  BY <1>1, <1>3
<1>6. q # 0
  BY <1>1, <1>5
<1>7. ASSUME size > UNIT PROVE q # 1
  BY <1>1, <1>5, <1>7
<1>8. ASSUME size + UNIT < PAGE PROVE q <= U
  <2> SUFFICES ASSUME q >= U + 1 PROVE FALSE
    BY <1>1
  <2>1. UNIT * q >= UNIT * (U + 1)
    BY <1>1
  <2>2. UNIT * (U + 1) = UNIT * U + UNIT
    BY <1>1
  <2> QED
    BY <1>1, <1>3, <1>8, <2>1, <2>2
<1> QED
  BY <1>1, <1>3, <1>4, <1>5, <1>6, <1>7, <1>8

\* find_order halves the size until it is at most a page: up to two pages that is
\* once, and of four whole pages no byte is lost.
LEMMA OrderOf ==
    ASSUME NEW size \in Sizes
    PROVE  /\ Order(size) \in 0..2 /\ 2 ^ Order(size) \in {1, 2, 4}
           /\ 2 ^ Order(size) * PAGE >= size
<1>0. size \in Nat \ {0} /\ PAGE \in Nat \ {0} /\ (size <= 2 * PAGE \/ size = 4 * PAGE)
  BY KernelHeapConstants
<1> DEFINE Body(h) == [s \in 0..size |-> IF s <= PAGE THEN 0 ELSE 1 + h[s \div 2]]
           w == [s \in 0..size |-> IF s <= PAGE THEN 0 ELSE IF s <= 2 * PAGE + 1 THEN 1 ELSE 2]
<1>1. w = Body(w)
  <2>1. ASSUME NEW s \in 0..size, ~(s <= PAGE)
        PROVE  1 + w[s \div 2] = IF s <= 2 * PAGE + 1 THEN 1 ELSE 2
    <3>1. s \div 2 \in 0..size
      BY <1>0
    <3>2. CASE s <= 2 * PAGE + 1
      <4>1. s \div 2 <= PAGE
        BY <1>0, <3>2
      <4> QED
        BY <3>1, <3>2, <4>1
    <3>3. CASE ~(s <= 2 * PAGE + 1)
      <4>1. ~(s \div 2 <= PAGE) /\ s \div 2 <= 2 * PAGE + 1
        BY <1>0, <3>3
      <4> QED
        BY <3>1, <3>3, <4>1
    <3> QED
      BY <3>2, <3>3
  <2>2. \A s \in 0..size : w[s] = IF s <= PAGE THEN 0 ELSE 1 + w[s \div 2]
    BY <2>1
  <2>3. w = [s \in 0..size |-> w[s]]
    OBVIOUS
  <2> HIDE DEF w
  <2> QED
    BY <2>2, <2>3
<1> HIDE DEF w
<1>2. PICK h : h = CHOOSE u : u = Body(u)
  OBVIOUS
<1>3. Order(size) = h[size]
  BY <1>2, Zenon DEF Order
<1> HIDE DEF Body
<1>4. h = Body(h)
  BY <1>1, <1>2, Zenon
<1> USE DEF Body
<1>5. \A s \in 0..size : h[s] = IF s <= PAGE THEN 0 ELSE 1 + h[s \div 2]
  BY <1>4
<1>6. ASSUME NEW s \in 0..size, s <= 2 * PAGE PROVE h[s] = IF s <= PAGE THEN 0 ELSE 1
  <2>1. s \div 2 \in 0..size /\ s \div 2 <= PAGE
    BY <1>0, <1>6
  <2> QED
    BY <1>5, <2>1
<1>7. size \in 0..size
  BY <1>0
<1>8. 2 ^ 0 = 1 /\ 2 ^ 1 = 2 /\ 2 ^ 2 = 4
  OBVIOUS
<1>9. CASE size <= 2 * PAGE
  <2>1. h[size] = IF size <= PAGE THEN 0 ELSE 1
    BY <1>6, <1>7, <1>9
  <2>2. \/ h[size] = 0 /\ 2 ^ h[size] = 1 /\ size <= PAGE
        \/ h[size] = 1 /\ 2 ^ h[size] = 2
    BY <1>8, <2>1
  <2> QED
    BY <1>0, <1>3, <1>9, <2>2
<1>10. CASE size = 4 * PAGE
  <2>1. size \div 2 \in 0..size /\ size \div 2 = 2 * PAGE /\ ~(size <= PAGE)
    BY <1>0, <1>10
  <2>2. h[2 * PAGE] = 1
    BY <1>0, <1>6, <2>1
  <2>3. h[size] = 2
    BY <1>5, <1>7, <2>1, <2>2
  <2> QED
    BY <1>0, <1>3, <1>8, <1>10, <2>3
<1> QED
  BY <1>0, <1>9, <1>10

-----------------------------------------------------------------------------
(* Pages that are given out.                                               *)

\* A block of pages that somebody has.
Lent(b, n) == b \in Pages /\ n \in Nat \ {0} /\ Block(b, n) \subseteq Pages \ Free /\ Inner(b, n)
Apart(b, n, c, m) == Block(b, n) \intersect Block(c, m) = {}
Size(r) == 2 ^ r.order

BigType == [bb : Nat, order : 0..2, page : Pages]

PagesOK ==
    /\ taken \subseteq Pages \X (Nat \ {0})
    /\ bigblocks \in Seq(BigType)
    /\ \A t \in taken : Lent(t[1], t[2])
    /\ \A i \in 1..Len(bigblocks) : Lent(bigblocks[i].page, Size(bigblocks[i]))
    /\ \A t, u \in taken : t # u => Apart(t[1], t[2], u[1], u[2])
    /\ \A i, j \in 1..Len(bigblocks) : i # j =>
          Apart(bigblocks[i].page, Size(bigblocks[i]), bigblocks[j].page, Size(bigblocks[j]))
    /\ \A t \in taken : \A i \in 1..Len(bigblocks) :
          Apart(t[1], t[2], bigblocks[i].page, Size(bigblocks[i]))

\* Calls, and how many pages they may ask for.
CallOK ==
    \/ call = Idle \/ call = Halted
    \/ \E size \in Sizes :
          call = [op |-> IF Small(size) THEN "small" ELSE "big", size |-> size,
                  units |-> SLOB_UNITS(IF Small(size) THEN size + UNIT ELSE BIGBLOCK)]
    \/ \E size \in Sizes, bb \in Nat :
          ~Small(size) /\ call = [op |-> "pages", size |-> size, bb |-> bb]

\* An element is added in front of a sequence, or one is removed.
LEMMA Consed ==
    ASSUME NEW S, NEW s \in Seq(S), NEW e \in S, NEW r, r = <<e>> \o s
    PROVE  /\ r \in Seq(S) /\ Len(r) = Len(s) + 1 /\ r[1] = e /\ Len(s) \in Nat
           /\ \A j \in 1..Len(r) : j = 1 \/ (j - 1 \in 1..Len(s) /\ r[j] = s[j - 1])
           /\ \A j \in 1..Len(s) : j + 1 \in 1..Len(r) /\ r[j + 1] = s[j]
<1>0. <<e>> \in Seq(S) /\ Len(<<e>>) = 1 /\ <<e>>[1] = e
  BY ONLY e \in S
<1>1. PICK a \in Seq(S) : a = <<e>> /\ Len(a) = 1 /\ a[1] = e
  BY ONLY <1>0
<1>2. /\ r \in Seq(S) /\ Len(r) = Len(a) + Len(s) /\ Len(s) \in Nat
      /\ \A i \in 1..Len(a) : r[i] = a[i]
      /\ \A i \in 1..Len(s) : r[Len(a) + i] = s[i]
  <2>1. r = a \o s
    BY <1>1
  <2> QED
    BY ONLY <2>1, Joint, a \in Seq(S), s \in Seq(S)
<1>3. ASSUME NEW j \in 1..Len(r), j # 1 PROVE j - 1 \in 1..Len(s) /\ r[j] = s[j - 1]
  <2>1. PICK k \in 1..Len(s) : k = j - 1 /\ j = Len(a) + k
    BY <1>1, <1>2, <1>3
  <2> QED
    BY <1>2, <2>1
<1>4. ASSUME NEW j \in 1..Len(s) PROVE j + 1 \in 1..Len(r) /\ r[j + 1] = s[j]
  <2>1. Len(a) + j = j + 1 /\ j + 1 \in 1..Len(r)
    BY <1>1, <1>2
  <2> QED
    BY <1>2, <2>1
<1> QED
  BY <1>1, <1>2, <1>3, <1>4

From(j, i) == IF j < i THEN j ELSE j + 1
WithoutAt(r, s, i) ==
    /\ Len(r) = Len(s) - 1 /\ Len(s) \in Nat
    /\ \A j \in 1..Len(r) : From(j, i) \in 1..Len(s) /\ From(j, i) # i /\ r[j] = s[From(j, i)]
    /\ \A j, k \in 1..Len(r) : j # k => From(j, i) # From(k, i)
    /\ \A k \in 1..Len(s) : k # i => \E j \in 1..Len(r) : From(j, i) = k

\* RemoveAt keeps the other elements, in order.
LEMMA Removed ==
    ASSUME NEW S, NEW s \in Seq(S), NEW i \in 1..Len(s), NEW r, r = RemoveAt(s, i)
    PROVE  r \in Seq(S) /\ WithoutAt(r, s, i)
<1>1. Len(s) \in Nat /\ i \in Nat
  OBVIOUS
<1>2. r \in Seq(S) /\ Len(r) = Len(s) - 1 /\ \A j \in 1..Len(r) : r[j] = IF j < i THEN s[j] ELSE s[j + 1]
  <2>1. PICK n \in Nat : n = 1
    OBVIOUS
  <2>2. i + n - 1 <= Len(s) /\ Cut3(r, SubSeq(s, 1, i - 1), SubSeq(s, i + n, Len(s)))
    BY <1>1, <2>1 DEF RemoveAt, Cut3
  <2>3. /\ r \in Seq(S) /\ Len(r) = Len(s) - n
        /\ \A j \in 1..Len(r) : r[j] = IF j < i THEN s[j] ELSE s[j + n]
    <3>1. s \in Seq(S) /\ i \in 1..Len(s)
      OBVIOUS
    <3> QED
      BY ONLY <2>1, <2>2, <3>1, CutOut
  <2> QED
    BY <2>1, <2>3
<1>3. ASSUME NEW k \in 1..Len(s), k # i PROVE \E j \in 1..Len(r) : From(j, i) = k
  <2>1. CASE k < i
    <3>1. k \in 1..Len(r)
      BY <1>1, <1>2, <2>1
    <3> QED
      BY <2>1, <3>1 DEF From
  <2>2. CASE k > i
    <3>1. k - 1 \in 1..Len(r) /\ From(k - 1, i) = k
      BY <1>1, <1>2, <2>2 DEF From
    <3> QED
      BY <3>1
  <2> QED
    BY <1>1, <1>3, <2>1, <2>2
<1> QED
  BY <1>1, <1>2, <1>3 DEF From, WithoutAt

\* The blocks that are given out when the page manager changes.
LEMMA LentGranted ==
    ASSUME NEW n \in Nat \ {0}, NEW p \in Free, Free \subseteq Pages, Granted(n, p)
    PROVE  /\ Lent(p, n)'
           /\ \A b, m : Lent(b, m) => Lent(b, m)' /\ Apart(b, m, p, n)
<1>1. ASSUME NEW b, NEW m, Lent(b, m) PROVE Lent(b, m)' /\ Apart(b, m, p, n)
  BY <1>1 DEF Lent, Granted, Inner, Apart
<1>2. Lent(p, n)'
  BY DEF Lent, Granted
<1> QED
  BY <1>1, <1>2

\* A block that is given back leaves the other blocks lent.
LEMMA LentGiven ==
    ASSUME NEW n, NEW p, Given(p, n)
    PROVE  \A b, m : Lent(b, m) /\ Apart(b, m, p, n) => Lent(b, m)'
<1>1. ASSUME NEW b, NEW m, Lent(b, m), Apart(b, m, p, n) PROVE Lent(b, m)'
  BY <1>1 DEF Lent, Given, Inner, Apart
<1> QED
  BY <1>1

\* Blocks stay lent while list and lengths stay.
LEMMA LentSame ==
    ASSUME UNCHANGED <<free_list, property>>
    PROVE  Free' = Free /\ \A b, m : Lent(b, m)' <=> Lent(b, m)
  BY DEF Lent, Inner, Free

\* Nothing is taken or given back by the heap.
LEMMA PagesKept ==
    ASSUME PagesOK, UNCHANGED <<taken, bigblocks>>,
           \A b, m : Lent(b, m) => Lent(b, m)'
    PROVE  PagesOK'
<1>1. PICK s, t : s = bigblocks /\ t = taken /\ s = bigblocks' /\ t = taken'
  OBVIOUS
<1>2. \A x \in t : Lent(x[1], x[2])'
  BY <1>1 DEF PagesOK
<1>3. \A i \in 1..Len(s) : Lent(s[i].page, Size(s[i]))'
  BY <1>1 DEF PagesOK
<1> QED
  BY <1>1, <1>2, <1>3 DEF PagesOK

\* Another user takes a block that touches nobody's.
LEMMA PagesTaken ==
    ASSUME PagesOK, UNCHANGED bigblocks, NEW n \in Nat \ {0}, NEW p \in Pages,
           taken' = taken \union {<<p, n>>}, Lent(p, n)',
           \A b, m : Lent(b, m) => Lent(b, m)' /\ Apart(b, m, p, n)
    PROVE  PagesOK'
<1>1. PICK s, t : s = bigblocks /\ t = taken /\ s = bigblocks' /\ taken' = t \union {<<p, n>>}
  OBVIOUS
<1>2. \A x \in t : Lent(x[1], x[2])' /\ Apart(x[1], x[2], p, n)
  BY <1>1 DEF PagesOK
<1>3. \A i \in 1..Len(s) : Lent(s[i].page, Size(s[i]))' /\ Apart(s[i].page, Size(s[i]), p, n)
  BY <1>1 DEF PagesOK
<1>a. PICK e : e = <<p, n>>
  OBVIOUS
<1>4. e = <<p, n>> /\ e[1] = p /\ e[2] = n /\ e \in Pages \X (Nat \ {0})
  BY <1>a
<1>5. taken' = t \union {e}
  BY <1>1, <1>4
<1>6. taken' \subseteq Pages \X (Nat \ {0}) /\ s \in Seq(BigType)
  BY <1>1, <1>4, <1>5 DEF PagesOK
<1>7. \A x \in taken' : Lent(x[1], x[2])'
  BY <1>2, <1>4, <1>5
<1>8. \A x, y \in taken' : x # y => Apart(x[1], x[2], y[1], y[2])
  <2> SUFFICES ASSUME NEW x \in taken', NEW y \in taken', x # y PROVE Apart(x[1], x[2], y[1], y[2])
    OBVIOUS
  <2>1. CASE x \in t /\ y \in t
    BY <1>1, <2>1 DEF PagesOK
  <2>2. CASE x \in t /\ y = e
    BY <1>2, <1>4, <2>2
  <2>3. CASE x = e /\ y \in t
    BY <1>2, <1>4, <2>3 DEF Apart
  <2> QED
    BY <1>5, <2>1, <2>2, <2>3
<1>9. \A x \in taken' : \A i \in 1..Len(s) : Apart(x[1], x[2], s[i].page, Size(s[i]))
  <2> SUFFICES ASSUME NEW x \in taken', NEW i \in 1..Len(s)
               PROVE  Apart(x[1], x[2], s[i].page, Size(s[i]))
    OBVIOUS
  <2>1. CASE x \in t
    BY <1>1, <2>1 DEF PagesOK
  <2>2. CASE x = e
    BY <1>3, <1>4, <2>2 DEF Apart
  <2> QED
    BY <1>5, <2>1, <2>2
<1> QED
  BY <1>1, <1>3, <1>6, <1>7, <1>8, <1>9 DEF PagesOK

\* A big block takes pages that touch nobody's.
LEMMA PagesBig ==
    ASSUME PagesOK, UNCHANGED taken, NEW e \in BigType, bigblocks' = <<e>> \o bigblocks,
           Lent(e.page, Size(e))',
           \A b, m : Lent(b, m) => Lent(b, m)' /\ Apart(b, m, e.page, Size(e))
    PROVE  PagesOK'
<1>1. PICK s, t, r : s = bigblocks /\ t = taken /\ t = taken' /\ r = bigblocks' /\ r = <<e>> \o s
  OBVIOUS
<1>0. s \in Seq(BigType)
  BY <1>1 DEF PagesOK
<1>2. \A x \in t : Lent(x[1], x[2])' /\ Apart(x[1], x[2], e.page, Size(e))
  BY <1>1 DEF PagesOK
<1>3. \A i \in 1..Len(s) : Lent(s[i].page, Size(s[i]))' /\ Apart(s[i].page, Size(s[i]), e.page, Size(e))
  BY <1>1 DEF PagesOK
<1>4. /\ r \in Seq(BigType) /\ Len(r) = Len(s) + 1 /\ r[1] = e /\ Len(s) \in Nat
      /\ \A j \in 1..Len(r) : j = 1 \/ (j - 1 \in 1..Len(s) /\ r[j] = s[j - 1])
  BY ONLY <1>0, <1>1, Consed, e \in BigType
<1>5. \A i \in 1..Len(r) : Lent(r[i].page, Size(r[i]))'
  <2> SUFFICES ASSUME NEW i \in 1..Len(r) PROVE Lent(r[i].page, Size(r[i]))'
    OBVIOUS
  <2>1. i = 1 \/ \E k \in 1..Len(s) : r[i] = s[k]
    BY <1>4
  <2> QED
    BY <1>3, <1>4, <2>1
<1>6. \A i, j \in 1..Len(r) : i # j => Apart(r[i].page, Size(r[i]), r[j].page, Size(r[j]))
  <2> SUFFICES ASSUME NEW i \in 1..Len(r), NEW j \in 1..Len(r), i # j
               PROVE  Apart(r[i].page, Size(r[i]), r[j].page, Size(r[j]))
    OBVIOUS
  <2>1. CASE i = 1
    <3>1. PICK k \in 1..Len(s) : r[j] = s[k]
      BY <1>4, <2>1
    <3> QED
      BY <1>3, <1>4, <2>1, <3>1 DEF Apart
  <2>2. CASE j = 1
    <3>1. PICK k \in 1..Len(s) : r[i] = s[k]
      BY <1>4, <2>2
    <3> QED
      BY <1>3, <1>4, <2>2, <3>1 DEF Apart
  <2>3. CASE i # 1 /\ j # 1
    <3>1. PICK k \in 1..Len(s), m \in 1..Len(s) : k # m /\ r[i] = s[k] /\ r[j] = s[m]
      BY <1>4, <2>3
    <3> QED
      BY <1>1, <3>1 DEF PagesOK
  <2> QED
    BY <2>1, <2>2, <2>3
<1>7. \A x \in t : \A i \in 1..Len(r) : Apart(x[1], x[2], r[i].page, Size(r[i]))
  <2> SUFFICES ASSUME NEW x \in t, NEW i \in 1..Len(r)
               PROVE  Apart(x[1], x[2], r[i].page, Size(r[i]))
    OBVIOUS
  <2>1. i = 1 \/ \E k \in 1..Len(s) : r[i] = s[k]
    BY <1>4
  <2>2. \A k \in 1..Len(s) : Apart(x[1], x[2], s[k].page, Size(s[k]))
    BY <1>1 DEF PagesOK
  <2> QED
    BY <1>2, <1>4, <2>1, <2>2
<1>8. /\ t \subseteq Pages \X (Nat \ {0})
      /\ \A x, y \in t : x # y => Apart(x[1], x[2], y[1], y[2])
  BY <1>1 DEF PagesOK
<1> QED
  BY <1>1, <1>2, <1>4, <1>5, <1>6, <1>7, <1>8 DEF PagesOK

\* Another user returns its block.
LEMMA PagesReturned ==
    ASSUME PagesOK, UNCHANGED bigblocks, NEW b, NEW n, <<b, n>> \in taken,
           taken' = taken \ {<<b, n>>},
           \A c, m : Lent(c, m) /\ Apart(c, m, b, n) => Lent(c, m)'
    PROVE  PagesOK'
<1>1. PICK s, t : s = bigblocks /\ t = taken /\ s = bigblocks' /\ taken' = t \ {<<b, n>>}
  OBVIOUS
<1>2. PICK e \in t : e = <<b, n>> /\ e[1] = b /\ e[2] = n
  BY <1>1
<1>3. taken' = t \ {e}
  BY <1>1, <1>2
<1>4. \A x \in taken' : Lent(x[1], x[2])'
  <2> SUFFICES ASSUME NEW x \in t, x # e PROVE Lent(x[1], x[2])'
    BY <1>3
  <2>1. Apart(x[1], x[2], b, n) /\ Lent(x[1], x[2])
    BY <1>1, <1>2 DEF PagesOK
  <2> QED
    BY <2>1
<1>5. \A i \in 1..Len(s) : Lent(s[i].page, Size(s[i]))'
  <2> SUFFICES ASSUME NEW i \in 1..Len(s) PROVE Lent(s[i].page, Size(s[i]))'
    OBVIOUS
  <2>1. Apart(e[1], e[2], s[i].page, Size(s[i])) /\ Lent(s[i].page, Size(s[i]))
    BY <1>1 DEF PagesOK
  <2>2. Apart(s[i].page, Size(s[i]), b, n)
    BY <1>2, <2>1 DEF Apart
  <2> QED
    BY <2>1, <2>2
<1> QED
  BY <1>1, <1>3, <1>4, <1>5 DEF PagesOK

\* A big block's pages are returned.
LEMMA PagesFreed ==
    ASSUME PagesOK, UNCHANGED taken, NEW i \in 1..Len(bigblocks),
           bigblocks' = RemoveAt(bigblocks, i),
           \A c, m : Lent(c, m) /\ Apart(c, m, bigblocks[i].page, Size(bigblocks[i])) => Lent(c, m)'
    PROVE  PagesOK'
<1>1. PICK s, t, r : s = bigblocks /\ t = taken /\ t = taken' /\ r = bigblocks' /\ r = RemoveAt(s, i)
  OBVIOUS
<1>2. s \in Seq(BigType) /\ i \in 1..Len(s)
  BY <1>1 DEF PagesOK
<1>3. /\ r \in Seq(BigType)
      /\ \A j \in 1..Len(r) : From(j, i) \in 1..Len(s) /\ From(j, i) # i /\ r[j] = s[From(j, i)]
      /\ \A j, k \in 1..Len(r) : j # k => From(j, i) # From(k, i)
  <2>1. r \in Seq(BigType) /\ WithoutAt(r, s, i)
    BY ONLY <1>1, <1>2, Removed
  <2> QED
    BY <2>1 DEF WithoutAt
<1>4. \A x \in t : Lent(x[1], x[2])'
  <2> SUFFICES ASSUME NEW x \in t PROVE Lent(x[1], x[2])'
    OBVIOUS
  <2>1. Apart(x[1], x[2], s[i].page, Size(s[i])) /\ Lent(x[1], x[2])
    BY <1>1 DEF PagesOK
  <2> QED
    BY <1>1, <2>1
<1>5. \A k \in 1..Len(s) : k # i => Lent(s[k].page, Size(s[k]))'
  <2> SUFFICES ASSUME NEW k \in 1..Len(s), k # i PROVE Lent(s[k].page, Size(s[k]))'
    OBVIOUS
  <2>1. Apart(s[k].page, Size(s[k]), s[i].page, Size(s[i])) /\ Lent(s[k].page, Size(s[k]))
    BY <1>1 DEF PagesOK
  <2> QED
    BY <1>1, <2>1
<1>6. \A j \in 1..Len(r) : Lent(r[j].page, Size(r[j]))'
  <2> SUFFICES ASSUME NEW j \in 1..Len(r) PROVE Lent(r[j].page, Size(r[j]))'
    OBVIOUS
  <2>1. PICK k \in 1..Len(s) : k = From(j, i) /\ k # i /\ r[j] = s[k]
    BY <1>3
  <2> QED
    BY <1>5, <2>1
<1>7. \A j, k \in 1..Len(r) : j # k => Apart(r[j].page, Size(r[j]), r[k].page, Size(r[k]))
  <2> SUFFICES ASSUME NEW j \in 1..Len(r), NEW k \in 1..Len(r), j # k
               PROVE  Apart(r[j].page, Size(r[j]), r[k].page, Size(r[k]))
    OBVIOUS
  <2>1. PICK x \in 1..Len(s), y \in 1..Len(s) : x # y /\ r[j] = s[x] /\ r[k] = s[y]
    BY <1>3
  <2> QED
    BY <1>1, <2>1 DEF PagesOK
<1>8. \A x \in t : \A j \in 1..Len(r) : Apart(x[1], x[2], r[j].page, Size(r[j]))
  <2> SUFFICES ASSUME NEW x \in t, NEW j \in 1..Len(r)
               PROVE  Apart(x[1], x[2], r[j].page, Size(r[j]))
    OBVIOUS
  <2>1. PICK k \in 1..Len(s) : r[j] = s[k]
    BY <1>3
  <2> QED
    BY <1>1, <2>1 DEF PagesOK
<1>9. /\ t \subseteq Pages \X (Nat \ {0})
      /\ \A x, y \in t : x # y => Apart(x[1], x[2], y[1], y[2])
  BY <1>1 DEF PagesOK
<1> QED
  BY <1>1, <1>3, <1>4, <1>6, <1>7, <1>8, <1>9 DEF PagesOK

-----------------------------------------------------------------------------
(* The page manager's part of every step.                                  *)

PageInv == FirstFitOK /\ PagesOK /\ CallOK

\* How one step of the kernel may use the page manager.
Still    == UNCHANGED <<free_list, property, nr_free, got>>
Asks(n)  == n \in Nat \ {0} /\ (Refused(n) \/ \E p \in Free : Granted(n, p))
Gives(b, n) == Lent(b, n) /\ Given(b, n)
PageStep == Still \/ (\E n \in Nat : Asks(n)) \/ (\E b, n \in Nat : Gives(b, n))

\* The page manager does nothing.
LEMMA StillSame ==
    ASSUME FirstFitOK, UNCHANGED <<free_list, property, nr_free>>
    PROVE  FirstFitOK'
  BY DEF FirstFitOK, ListOK, RunsOK, Free

\* What AllocPages does to the blocks that are given out.
LEMMA Asking ==
    ASSUME FirstFitOK, PagesOK, NEW n \in Nat \ {0}, AllocPages(n)
    PROVE  /\ FirstFitOK' /\ Asks(n)
           /\ \/ got'.at = None /\ Free' = Free /\ UNCHANGED <<free_list, property>>
                 /\ \A b, m : Lent(b, m) => Lent(b, m)'
              \/ \E p \in Free : /\ got'.at = p /\ p # None /\ p \in Pages /\ Granted(n, p)
                                 /\ Lent(p, n)'
                                 /\ \A b, m : Lent(b, m) => Lent(b, m)' /\ Apart(b, m, p, n)
<1>1. FirstFitOK' /\ (Refused(n) \/ \E p \in Free : Granted(n, p))
  BY Alloc
<1>2. ASSUME Refused(n)
      PROVE  /\ got'.at = None /\ Free' = Free /\ UNCHANGED <<free_list, property>>
             /\ \A b, m : Lent(b, m) => Lent(b, m)'
  <2>1. got' = [n |-> n, at |-> None] /\ UNCHANGED <<free_list, property>>
    BY <1>2 DEF Refused
  <2>2. got'.at = None
    BY <2>1
  <2> QED
    BY <2>1, <2>2, LentSame
<1>3. ASSUME NEW p \in Free, Granted(n, p)
      PROVE  /\ got'.at = p /\ p # None /\ p \in Pages /\ Lent(p, n)'
             /\ \A b, m : Lent(b, m) => Lent(b, m)' /\ Apart(b, m, p, n)
  <2>1. Free \subseteq Pages
    BY FreeIndex DEF FirstFitOK
  <2>2. p \in Pages /\ Pages \subseteq Int /\ p # None
    BY <2>1, FirstFitConstants DEF Pages
  <2>3. got' = [n |-> n, at |-> p]
    BY <1>3 DEF Granted
  <2>4. got'.at = p
    BY <2>3
  <2> QED
    BY <1>3, <2>1, <2>2, <2>4, LentGranted
<1>4. Asks(n)
  BY <1>1 DEF Asks
<1> QED
  BY <1>1, <1>2, <1>3, <1>4

\* The ring's new page is asked for.
LEMMA PageGrow ==
    ASSUME PageInv, Grow
    PROVE  FirstFitOK' /\ PagesOK' /\ Asks(1)
<1>1. FirstFitOK /\ PagesOK /\ AllocPages(1) /\ UNCHANGED <<taken, bigblocks>> /\ 1 \in Nat \ {0}
  BY DEF PageInv, Grow
<1>2. FirstFitOK' /\ Asks(1) /\ \A b, m : Lent(b, m) => Lent(b, m)'
  BY <1>1, Asking
<1> QED
  BY <1>1, <1>2, PagesKept

\* Pages of another user are asked for.
LEMMA PageTake ==
    ASSUME PageInv, NEW n \in UserBlocks, TakePages(n)
    PROVE  FirstFitOK' /\ PagesOK' /\ Asks(n)
<1>1. /\ FirstFitOK /\ PagesOK /\ AllocPages(n) /\ UNCHANGED bigblocks /\ n \in Nat \ {0}
      /\ taken' = IF got'.at = None THEN taken ELSE taken \union {<<got'.at, n>>}
  BY KernelHeapConstants DEF PageInv, TakePages, heapVars
<1>2. /\ FirstFitOK' /\ Asks(n)
      /\ \/ got'.at = None /\ \A b, m : Lent(b, m) => Lent(b, m)'
         \/ \E p \in Pages : /\ got'.at = p /\ p # None /\ Lent(p, n)'
                             /\ \A b, m : Lent(b, m) => Lent(b, m)' /\ Apart(b, m, p, n)
  BY <1>1, Asking
<1>3. CASE got'.at = None /\ \A b, m : Lent(b, m) => Lent(b, m)'
  BY <1>1, <1>2, <1>3, PagesKept
<1>4. CASE \E p \in Pages : /\ got'.at = p /\ p # None /\ Lent(p, n)'
                            /\ \A b, m : Lent(b, m) => Lent(b, m)' /\ Apart(b, m, p, n)
  <2>1. PICK p \in Pages : /\ got'.at = p /\ p # None /\ Lent(p, n)'
                           /\ \A b, m : Lent(b, m) => Lent(b, m)' /\ Apart(b, m, p, n)
    BY <1>4
  <2>2. taken' = taken \union {<<p, n>>}
    BY <1>1, <2>1
  <2> QED
    BY <1>1, <1>2, <2>1, <2>2, PagesTaken
<1> QED
  BY <1>2, <1>3, <1>4

\* Pages of another user are given back.
LEMMA PageReturn ==
    ASSUME PageInv, NEW b \in Pages, NEW n \in UserBlocks, ReturnPages(b, n)
    PROVE  FirstFitOK' /\ PagesOK' /\ Gives(b, n)
<1>1. /\ FirstFitOK /\ PagesOK /\ FreePages(b, n) /\ UNCHANGED bigblocks /\ n \in Nat \ {0}
      /\ <<b, n>> \in taken /\ taken' = taken \ {<<b, n>>}
  BY KernelHeapConstants DEF PageInv, ReturnPages, heapVars
<1>2. Lent(b, n)
  <2>1. PICK t \in taken : t[1] = b /\ t[2] = n
    BY <1>1
  <2> QED
    BY <1>1, <2>1 DEF PagesOK
<1>3. FirstFitOK' /\ Given(b, n)
  BY <1>1, <1>2, Release DEF Lent
<1>4. \A c, m : Lent(c, m) /\ Apart(c, m, b, n) => Lent(c, m)'
  BY <1>3, LentGiven
<1> QED
  BY <1>1, <1>2, <1>3, <1>4, PagesReturned DEF Gives

\* The pages of a big block are asked for.
LEMMA PageBig ==
    ASSUME PageInv, BigPages
    PROVE  FirstFitOK' /\ PagesOK' /\ \E n \in Nat : Asks(n)
<1>1. PICK size \in Sizes, bb \in Nat :
         /\ call = [op |-> "pages", size |-> size, bb |-> bb]
         /\ call.size = size /\ call.bb = bb
  <2>1. call.op = "pages"
    BY DEF BigPages
  <2>2. call # Idle /\ call # Halted
    BY <2>1 DEF Idle, Halted
  <2>3. \A size : call # [op |-> IF Small(size) THEN "small" ELSE "big", size |-> size,
                         units |-> SLOB_UNITS(IF Small(size) THEN size + UNIT ELSE BIGBLOCK)]
    BY <2>1
  <2> QED
    BY <2>2, <2>3 DEF PageInv, CallOK
<1>2. PICK k, n : k = Order(size) /\ n = 2 ^ k
  OBVIOUS
<1>3. k \in 0..2 /\ n \in Nat \ {0}
  BY <1>2, OrderOf
<1>4. /\ FirstFitOK /\ PagesOK /\ AllocPages(n) /\ UNCHANGED taken
      /\ \/ /\ got'.at # None
            /\ bigblocks' = <<[bb |-> bb, order |-> k, page |-> got'.at]>> \o bigblocks
         \/ got'.at = None /\ UNCHANGED bigblocks
  BY <1>1, <1>2 DEF PageInv, BigPages, heapVars
<1>5. /\ FirstFitOK' /\ Asks(n)
      /\ \/ got'.at = None /\ \A b, m : Lent(b, m) => Lent(b, m)'
         \/ \E p \in Pages : /\ got'.at = p /\ p # None /\ Lent(p, n)'
                             /\ \A b, m : Lent(b, m) => Lent(b, m)' /\ Apart(b, m, p, n)
  BY <1>3, <1>4, Asking
<1>6. CASE got'.at = None /\ \A b, m : Lent(b, m) => Lent(b, m)'
  BY <1>3, <1>4, <1>5, <1>6, PagesKept
<1>7. CASE \E p \in Pages : /\ got'.at = p /\ p # None /\ Lent(p, n)'
                            /\ \A b, m : Lent(b, m) => Lent(b, m)' /\ Apart(b, m, p, n)
  <2>1. PICK p \in Pages : /\ got'.at = p /\ p # None /\ Lent(p, n)'
                           /\ \A b, m : Lent(b, m) => Lent(b, m)' /\ Apart(b, m, p, n)
    BY <1>7
  <2>2. PICK e : e = [bb |-> bb, order |-> k, page |-> p]
    OBVIOUS
  <2>3. e \in BigType /\ e.page = p /\ Size(e) = n
    BY <1>2, <1>3, <2>2 DEF BigType, Size
  <2>4. bigblocks' = <<e>> \o bigblocks
    BY <1>4, <2>1, <2>2
  <2> QED
    BY <1>3, <1>4, <1>5, <2>1, <2>3, <2>4, PagesBig
<1> QED
  BY <1>5, <1>6, <1>7

\* kfree gives back the pages of a big block.
LEMMA BigGiven ==
    ASSUME PageInv, NEW b, NEW i \in Big(b), FreePages(b.at \div PAGE, 2 ^ bigblocks[i].order)
    PROVE  /\ i \in 1..Len(bigblocks) /\ bigblocks[i].page * PAGE = b.at
           /\ LET p == bigblocks[i].page
                  n == Size(bigblocks[i])
              IN p \in Nat /\ n \in Nat /\ Lent(p, n) /\ FirstFitOK' /\ Given(p, n)
<1>1. FirstFitOK /\ PagesOK
  BY DEF PageInv
<1>2. i \in 1..Len(bigblocks) /\ bigblocks[i].page * PAGE = b.at
  <2>1. bigblocks \in Seq(BigType)
    BY <1>1 DEF PagesOK
  <2> QED
    BY <2>1 DEF Big
<1>3. PICK p, n : p = bigblocks[i].page /\ n = Size(bigblocks[i])
  OBVIOUS
<1>4. Lent(p, n)
  BY <1>1, <1>2, <1>3 DEF PagesOK
<1>5. p \in Nat /\ n \in Nat \ {0} /\ p \in Pages /\ Block(p, n) \subseteq Pages \ Free /\ Inner(p, n)
  BY <1>4, FirstFitConstants DEF Lent, Pages
<1>6. b.at \div PAGE = p
  <2>1. (p * PAGE) \div PAGE = p
    BY <1>5, UnitsInPage, Division
  <2> QED
    BY <1>2, <1>3, <2>1
<1>7. FreePages(p, n)
  BY <1>3, <1>6 DEF Size
<1>8. FirstFitOK' /\ Given(p, n)
  BY <1>1, <1>5, <1>7, Release
<1> QED
  BY <1>2, <1>3, <1>4, <1>5, <1>8

\* The pages of a big block are given back.
LEMMA PageFree ==
    ASSUME PageInv, NEW b, KfreeBig(b)
    PROVE  FirstFitOK' /\ PagesOK' /\ \E p, n \in Nat : Gives(p, n)
<1>1. PICK i \in Big(b) : /\ bigblocks' = RemoveAt(bigblocks, i)
                          /\ FreePages(b.at \div PAGE, 2 ^ bigblocks[i].order)
  BY DEF KfreeBig
<1>2. PICK p, n : p = bigblocks[i].page /\ n = Size(bigblocks[i])
  OBVIOUS
<1>3. /\ i \in 1..Len(bigblocks) /\ p \in Nat /\ n \in Nat
      /\ Lent(p, n) /\ FirstFitOK' /\ Given(p, n)
  BY <1>1, <1>2, BigGiven
<1>4. \A c, m : Lent(c, m) /\ Apart(c, m, bigblocks[i].page, Size(bigblocks[i])) => Lent(c, m)'
  BY <1>2, <1>3, LentGiven
<1>5. PagesOK'
  BY <1>1, <1>3, <1>4, PagesFreed DEF PageInv, KfreeBig
<1> QED
  BY <1>3, <1>5 DEF Gives

\* Calls.
LEMMA CallKept ==
    ASSUME CallOK, call' = call \/ call' = Idle \/ call' = Halted
    PROVE  CallOK'
  BY DEF CallOK

\* A step without the page manager keeps its invariant.
LEMMA PageStill ==
    ASSUME PageInv, UNCHANGED <<pageVars, taken, bigblocks>>
    PROVE  FirstFitOK' /\ PagesOK' /\ PageStep
<1>1. /\ FirstFitOK /\ PagesOK /\ UNCHANGED <<taken, bigblocks>>
      /\ UNCHANGED <<free_list, property, nr_free>> /\ UNCHANGED <<free_list, property>> /\ Still
  BY DEF PageInv, pageVars, Still
<1>2. \A b, m : Lent(b, m) => Lent(b, m)'
  BY <1>1, LentSame
<1> QED
  BY <1>1, <1>2, StillSame, PagesKept DEF PageStep

\* Every step keeps the page manager's invariant, by one use of it at most.
LEMMA PageNext ==
    ASSUME PageInv, [Next]_vars
    PROVE  FirstFitOK' /\ PagesOK' /\ PageStep
<1>1. CASE SmallReturn
  BY <1>1, PageStill DEF SmallReturn, pageVars
<1>2. CASE Grow
  BY <1>2, PageGrow DEF PageStep
<1>3. CASE BigBlock
  BY <1>3, PageStill DEF BigBlock, pageVars
<1>4. CASE BigPages
  BY <1>4, PageBig DEF PageStep
<1>5. CASE \E size \in Sizes : Kmalloc(size)
  BY <1>5, PageStill DEF Kmalloc, pageVars, heapVars
<1>6. CASE \E b \in held : KfreeBig(b)
  BY <1>6, PageFree DEF PageStep
<1>7. CASE \E b \in held : KfreeSmall(b)
  BY <1>7, PageStill DEF KfreeSmall, pageVars
<1>8. CASE \E n \in UserBlocks : TakePages(n)
  <2>1. PICK n \in UserBlocks : TakePages(n)
    BY <1>8
  <2>2. n \in Nat
    BY KernelHeapConstants
  <2> QED
    BY <2>1, <2>2, PageTake DEF PageStep
<1>9. CASE \E n \in UserBlocks : \E b \in Pages : ReturnPages(b, n)
  <2>1. PICK n \in UserBlocks, b \in Pages : ReturnPages(b, n)
    BY <1>9
  <2>2. n \in Nat /\ b \in Nat
    BY KernelHeapConstants, FirstFitConstants DEF Pages
  <2> QED
    BY <2>1, <2>2, PageReturn DEF PageStep
<1>10. CASE UNCHANGED vars
  BY <1>10, PageStill DEF vars, pageVars, heapVars
<1> QED
  BY <1>1, <1>2, <1>3, <1>4, <1>5, <1>6, <1>7, <1>8, <1>9, <1>10, Zenon DEF Next, Running

\* A step of the page manager is one of the abstract allocator.
LEMMA PageRefines ==
    ASSUME PageInv, PageStep
    PROVE  [PA!Next]_(PA!vars)
<1>0. PA!vars = <<Free, got>> /\ PA!vars' = <<Free', got'>> /\ \A b, n : PA!Block(b, n) = Block(b, n)
  BY DEF PA!vars, Free, PA!Block, Block
<1>1. CASE Still
  BY <1>1, <1>0 DEF Still, Free
<1>2. CASE \E n \in Nat : Asks(n)
  <2>1. PICK n \in Nat \ {0} : Refused(n) \/ \E p \in Free : Granted(n, p)
    BY <1>2 DEF Asks
  <2>2. \A p \in Pages : p \in Int
    BY FirstFitConstants DEF Pages
  <2>3. Free \subseteq Pages
    BY FreeIndex DEF PageInv, FirstFitOK
  <2>4. CASE Refused(n)
    <3>1. got' = [n |-> n, at |-> None] /\ got' \in [n : Nat, at : Int \union {None}]
      BY <2>4 DEF Refused
    <3>2. got' # None /\ got'.n = n
      BY <3>1, FirstFitConstants
    <3>3. PA!Refuse(got'.n)
      BY <1>0, <2>4, <3>1, <3>2 DEF Refused, PA!Refuse, PA!Fits, Free
    <3> QED
      BY <3>2, <3>3 DEF PA!Next
  <2>5. CASE \E p \in Free : Granted(n, p)
    <3>0. PICK p \in Free : Granted(n, p)
      BY <2>5
    <3>1. got' = [n |-> n, at |-> p] /\ got' \in [n : Nat, at : Int \union {None}]
      BY <2>2, <2>3, <3>0 DEF Granted
    <3>2. got' # None /\ got'.n = n
      BY <3>1, FirstFitConstants
    <3>3. PA!Grant(got'.n)
      BY <1>0, <3>0, <3>1, <3>2 DEF Granted, PA!Grant, PA!Fits, Free
    <3> QED
      BY <3>2, <3>3 DEF PA!Next
  <2> QED
    BY <2>1, <2>4, <2>5
<1>3. CASE \E b, n \in Nat : Gives(b, n)
  <2>1. PICK b \in Nat, n \in Nat : Lent(b, n) /\ Given(b, n)
    BY <1>3 DEF Gives
  <2>2. n # 0 /\ b \in Block(b, n) /\ b + n - 1 \in Block(b, n) /\ Block(b, n) \subseteq Pages
    BY <2>1 DEF Lent, Block
  <2>3. PICK e \in Pages : b \in Pages /\ b <= e /\ e - b + 1 = n
    <3>1. b + n - 1 \in Pages /\ b \in Pages /\ b <= b + n - 1 /\ (b + n - 1) - b + 1 = n
      BY <2>1, <2>2
    <3> QED
      BY <3>1
  <2>4. PA!Free(b, n)
    BY <1>0, <2>1 DEF PA!Free, Lent, Given, Free
  <2> QED
    BY <2>3, <2>4 DEF PA!Next
<1> QED
  BY <1>1, <1>2, <1>3 DEF PageStep

\* The page manager starts with one run of all its pages.
LEMMA PageInit ==
    ASSUME Init
    PROVE  FirstFitOK /\ PagesOK /\ CallOK /\ Free = Pages
<1>0. NPages \in Nat \ {0} /\ Pages = 0..(NPages - 1)
  BY FirstFitConstants DEF Pages
<1>1. PICK s : s = free_list /\ s = [i \in 1..NPages |-> i - 1]
  BY DEF Init, FirstFitInit
<1>2. s \in Seq(Pages) /\ Len(s) = NPages /\ \A i \in 1..NPages : s[i] = i - 1
  <2>1. s \in [1..NPages -> Pages]
    BY <1>0, <1>1
  <2> QED
    BY <1>0, <1>1, <2>1
<1>3. ListOK
  BY <1>0, <1>1, <1>2 DEF Init, FirstFitInit, ListOK, Ascending
<1>4. Free = Pages
  <2>1. ASSUME NEW p \in Pages PROVE p \in Free
    <3>1. p + 1 \in 1..NPages /\ s[p + 1] = p
      BY <1>0, <1>2
    <3> QED
      BY <1>1, <1>2, <1>3, <3>1, FreeIndex
  <2> QED
    BY <1>3, <2>1, FreeIndex
<1>5. RunsOK
  <2>1. PICK f : f = property /\ f = [p \in Pages |-> IF p = 0 THEN NPages ELSE 0]
    BY DEF Init, FirstFitInit
  <2>2. f \in [Pages -> Nat] /\ \A p \in Pages : f[p] = IF p = 0 THEN NPages ELSE 0
    BY <1>0, <2>1
  <2>3. Runs(Pages, f)
    <3> SUFFICES ASSUME NEW p \in Pages
                 PROVE  IF p - 1 \in Pages THEN f[p] = 0
                        ELSE f[p] > 0 /\ Block(p, f[p]) \subseteq Pages /\ p + f[p] \notin Pages
      BY DEF Runs
    <3>1. CASE p = 0
      BY <1>0, <2>2, <3>1 DEF Block
    <3>2. CASE p # 0
      BY <1>0, <2>2, <3>2
    <3> QED
      BY <3>1, <3>2
  <2> QED
    BY <1>4, <2>1, <2>2, <2>3 DEF RunsOK
<1>6. PagesOK
  <2>1. taken = {} /\ bigblocks = << >> /\ Len(bigblocks) = 0 /\ bigblocks \in Seq(BigType)
    BY DEF Init
  <2> QED
    BY <2>1 DEF PagesOK
<1>7. CallOK
  BY DEF Init, CallOK
<1> QED
  BY <1>3, <1>4, <1>5, <1>6, <1>7 DEF FirstFitOK

-----------------------------------------------------------------------------
(* The ring of free blocks.                                                *)

FreeOf(H) == {a \in DOMAIN H : H[a].next # None}
End(H, a) == a + H[a].units

\* The next free block is the least one above, or Arena, the lowest of all.
NextOK(H, a) ==
    /\ H[a].next \in FreeOf(H)
    /\ \/ a < H[a].next /\ \A f \in FreeOf(H) : f <= a \/ H[a].next <= f
       \/ H[a].next = Arena /\ \A f \in FreeOf(H) : f <= a

\* Blocks do not overlap.
Tiled(H) == \A a, c \in DOMAIN H : a < c => End(H, a) <= c

Shape(H) ==
    /\ IsFiniteSet(DOMAIN H) /\ H = [a \in DOMAIN H |-> H[a]]
    /\ \A a \in DOMAIN H : /\ a = Arena \/ a \in Nat
                           /\ H[a] = [units |-> H[a].units, next |-> H[a].next]
                           /\ H[a].units \in Nat \ {0}
    /\ Arena \in FreeOf(H) /\ H[Arena].units = 1
    /\ \A a \in FreeOf(H) : NextOK(H, a)
    /\ Tiled(H)

\* The units of the blocks but for the arena.
Cover(H) == {x \in Nat : \E a \in DOMAIN H : a # Arena /\ a <= x /\ x < End(H, a)}

\* Facts about the blocks of a ring that are needed everywhere.
LEMMA ShapeFacts ==
    ASSUME NEW H, Shape(H)
    PROVE  /\ \A a \in DOMAIN H : a \in Int /\ (a # Arena => a \in Nat) /\ Arena <= a
                                  /\ H[a].units \in Nat \ {0} /\ End(H, a) \in Int /\ a < End(H, a)
           /\ Arena \in DOMAIN H /\ End(H, Arena) = -1
           /\ \A a \in FreeOf(H) : H[a].next \in FreeOf(H) /\ a \in DOMAIN H
  BY DEF Shape, FreeOf, End, Arena, NextOK

\* Two neighbours in the ring that touch are joined.
Merged(H, a) ==
    LET n == H[a].next
    IN [x \in DOMAIN H \ {n} |->
          IF x = a THEN [units |-> H[a].units + H[n].units, next |-> H[n].next] ELSE H[x]]

MergeOK(H, a, n, G) ==
    /\ Shape(G) /\ Cover(G) = Cover(H) /\ a # n
    /\ FreeOf(G) = FreeOf(H) \ {n} /\ DOMAIN G = DOMAIN H \ {n}
    /\ G[a].next = H[n].next /\ G[a].units = H[a].units + H[n].units
    /\ \A x \in DOMAIN H \ {a, n} : G[x] = H[x]

\* Joining two neighbours keeps the ring's shape and what it covers.
LEMMA Merge ==
    ASSUME NEW H, Shape(H), NEW a, a \in FreeOf(H), NEW n, n = H[a].next, End(H, a) = n,
           NEW G, G = Merged(H, a)
    PROVE  MergeOK(H, a, n, G)
<1>0. n = H[a].next /\ G = Merged(H, a)
  OBVIOUS
<1>1. /\ n \in FreeOf(H) /\ a \in DOMAIN H /\ n \in DOMAIN H /\ End(H, a) = n /\ a < n
      /\ a \in Int /\ n \in Nat /\ a # Arena
  <2>1. n \in FreeOf(H) /\ a \in DOMAIN H /\ n \in DOMAIN H /\ End(H, a) = n /\ a < n /\ a \in Int
    BY <1>0, ShapeFacts DEF FreeOf
  <2>2. a # Arena
    <3>1. End(H, Arena) = -1 /\ -1 # Arena /\ -1 \notin Nat
      BY ShapeFacts DEF Arena
    <3> QED
      BY <2>1, <3>1, ShapeFacts
  <2> QED
    BY <2>1, <2>2, ShapeFacts DEF Arena
<1>2. /\ G = [x \in DOMAIN H \ {n} |->
                IF x = a THEN [units |-> H[a].units + H[n].units, next |-> H[n].next] ELSE H[x]]
      /\ DOMAIN G = DOMAIN H \ {n} /\ a \in DOMAIN G
  BY <1>0, <1>1 DEF Merged
<1>3. G[a].units = H[a].units + H[n].units /\ G[a].next = H[n].next
      /\ G[a] = [units |-> G[a].units, next |-> G[a].next]
  BY <1>2
<1>4. \A x \in DOMAIN G : x # a => G[x] = H[x]
  BY <1>2
<1>5. H[n].next # None
  BY <1>1 DEF FreeOf
<1>6. FreeOf(G) = FreeOf(H) \ {n}
  BY <1>1, <1>2, <1>3, <1>4, <1>5 DEF FreeOf
<1>7. End(G, a) = End(H, n) /\ \A x \in DOMAIN G : x # a => End(G, x) = End(H, x)
  <2>1. H[a].units \in Nat /\ H[n].units \in Nat /\ n = a + H[a].units
    BY <1>1, ShapeFacts DEF End
  <2> QED
    BY <1>1, <1>3, <1>4, <2>1 DEF End
<1>8. Tiled(G)
  <2> SUFFICES ASSUME NEW x \in DOMAIN G, NEW y \in DOMAIN G, x < y PROVE End(G, x) <= y
    BY DEF Tiled
  <2>1. x \in DOMAIN H /\ y \in DOMAIN H /\ x \in Int /\ y \in Int /\ y # n
    BY <1>2, ShapeFacts
  <2>2. CASE x # a
    BY <1>7, <2>1, <2>2 DEF Shape, Tiled
  <2>3. CASE x = a
    <3>1. n <= y
      BY <1>1, <2>1, <2>3 DEF Shape, Tiled
    <3>2. n < y
      BY <1>1, <2>1, <3>1
    <3>3. End(H, n) <= y
      BY <1>1, <2>1, <3>2 DEF Shape, Tiled
    <3> QED
      BY <1>7, <2>3, <3>3
  <2> QED
    BY <2>2, <2>3
<1>9. \A x \in FreeOf(G) : NextOK(G, x)
  <2> SUFFICES ASSUME NEW x \in FreeOf(G) PROVE NextOK(G, x)
    OBVIOUS
  <2>0. /\ x \in FreeOf(H) /\ x # n /\ NextOK(H, x) /\ NextOK(H, n) /\ NextOK(H, a)
        /\ x \in Int /\ \A f \in FreeOf(H) : f \in Int
    BY <1>1, <1>6, ShapeFacts DEF Shape
  <2>1. CASE x = a
    <3>1. G[x].next = H[n].next
      BY <1>3, <2>1
    <3>2. H[n].next # n
      BY <1>1, <2>0 DEF NextOK, Arena
    <3>3. CASE n < H[n].next /\ \A f \in FreeOf(H) : f <= n \/ H[n].next <= f
      <4>1. \A f \in FreeOf(G) : f <= a \/ H[n].next <= f
        <5> SUFFICES ASSUME NEW f \in FreeOf(G), ~(f <= a) PROVE H[n].next <= f
          OBVIOUS
        <5>1. f \in FreeOf(H) /\ f # n /\ f \in Int
          BY <1>6, <2>0
        <5>2. n <= f
          BY <1>0, <1>1, <2>0, <5>1 DEF NextOK, Arena
        <5> QED
          BY <1>1, <3>3, <5>1, <5>2
      <4>2. H[n].next \in FreeOf(G) /\ a < H[n].next
        BY <1>1, <1>6, <2>0, <3>2, <3>3 DEF NextOK
      <4> QED
        BY <2>1, <3>1, <4>1, <4>2 DEF NextOK
    <3>4. CASE H[n].next = Arena /\ \A f \in FreeOf(H) : f <= n
      <4>1. \A f \in FreeOf(G) : f <= a
        <5> SUFFICES ASSUME NEW f \in FreeOf(G), ~(f <= a) PROVE FALSE
          OBVIOUS
        <5>1. f \in FreeOf(H) /\ f # n /\ f \in Int
          BY <1>6, <2>0
        <5>2. n <= f
          BY <1>0, <1>1, <2>0, <5>1 DEF NextOK, Arena
        <5> QED
          BY <1>1, <3>4, <5>1, <5>2
      <4>2. H[n].next \in FreeOf(G)
        BY <1>6, <2>0, <3>2 DEF NextOK
      <4> QED
        BY <2>1, <3>1, <3>4, <4>1, <4>2 DEF NextOK
    <3> QED
      BY <2>0, <3>3, <3>4 DEF NextOK
  <2>2. CASE x # a
    <3>1. G[x].next = H[x].next
      BY <1>4, <1>6, <2>2 DEF FreeOf
    <3>2. H[x].next # n
      <4> SUFFICES ASSUME H[x].next = n PROVE FALSE
        OBVIOUS
      <4>1. x < n /\ \A f \in FreeOf(H) : f <= x \/ n <= f
        BY <1>1, <2>0 DEF NextOK, Arena
      <4>2. a <= x
        BY <1>1, <2>0, <4>1
      <4>3. x <= a \/ n <= x
        BY <1>0, <1>1, <2>0 DEF NextOK, Arena
      <4> QED
        BY <1>1, <2>0, <2>2, <4>1, <4>2, <4>3
    <3> QED
      BY <1>6, <2>0, <3>1, <3>2 DEF NextOK
  <2> QED
    BY <2>1, <2>2
<1>10. Cover(G) = Cover(H)
  <2>1. ASSUME NEW x \in Cover(G) PROVE x \in Cover(H)
    <3>1. PICK y \in DOMAIN G : y # Arena /\ y <= x /\ x < End(G, y) /\ x \in Nat
      BY <2>1 DEF Cover
    <3>2. CASE y # a
      BY <1>2, <1>7, <3>1, <3>2 DEF Cover
    <3>3. CASE y = a
      <4>1. x < End(H, a) \/ n <= x
        BY <1>1, <3>1
      <4> QED
        BY <1>1, <1>7, <3>1, <3>3, <4>1 DEF Cover, Arena
    <3> QED
      BY <3>2, <3>3
  <2>2. ASSUME NEW x \in Cover(H) PROVE x \in Cover(G)
    <3>1. PICK y \in DOMAIN H : y # Arena /\ y <= x /\ x < End(H, y) /\ x \in Nat
      BY <2>2 DEF Cover
    <3>2. CASE y # a /\ y # n
      BY <1>2, <1>7, <3>1, <3>2 DEF Cover
    <3>3. CASE y = a \/ y = n
      <4>1. a <= x /\ x < End(H, n)
        <5>1. End(H, n) \in Int /\ n < End(H, n)
          BY <1>1, ShapeFacts
        <5> QED
          BY <1>1, <3>1, <3>3, <5>1
      <4> QED
        BY <1>1, <1>2, <1>7, <3>1, <4>1 DEF Cover
    <3> QED
      BY <3>2, <3>3
  <2> QED
    BY <2>1, <2>2
<1>11. Shape(G)
  <2>1. IsFiniteSet(DOMAIN G)
    BY <1>2, FS_Subset DEF Shape
  <2>2. G = [x \in DOMAIN G |-> G[x]]
    BY <1>2
  <2>3. ASSUME NEW x \in DOMAIN G
        PROVE  /\ x = Arena \/ x \in Nat
               /\ G[x] = [units |-> G[x].units, next |-> G[x].next]
               /\ G[x].units \in Nat \ {0}
    <3>1. CASE x = a
      BY <1>1, <1>3, <3>1, ShapeFacts
    <3>2. CASE x # a
      BY <1>2, <1>4, <3>2 DEF Shape
    <3> QED
      BY <3>1, <3>2
  <2>4. Arena \in FreeOf(G) /\ G[Arena].units = 1
    <3>1. Arena \in FreeOf(H) /\ Arena # n /\ Arena # a /\ H[Arena].units = 1
      BY <1>1 DEF Shape, Arena
    <3>2. Arena \in DOMAIN G
      BY <1>2, <3>1 DEF FreeOf
    <3> QED
      BY <1>4, <1>6, <3>1, <3>2
  <2> QED
    BY <1>8, <1>9, <2>1, <2>2, <2>3, <2>4 DEF Shape
<1> QED
  BY <1>0, <1>1, <1>2, <1>3, <1>4, <1>6, <1>10, <1>11 DEF MergeOK

\* A block that is in use leaves the heap.
Dropped(H, b) == [x \in DOMAIN H \ {b} |-> H[x]]

DropOK(H, b, e, G) ==
    /\ Shape(G) /\ FreeOf(G) = FreeOf(H) /\ DOMAIN G = DOMAIN H \ {b} /\ b \in Nat
    /\ \A x \in DOMAIN H \ {b} : G[x] = H[x]
    /\ Cover(H) = Cover(G) \union b..(e - 1)

\* A block in use can be taken out of the heap.
LEMMA Drop ==
    ASSUME NEW H, Shape(H), NEW b, b \in DOMAIN H, b \notin FreeOf(H), NEW G, G = Dropped(H, b),
           NEW e, e = End(H, b)
    PROVE  DropOK(H, b, e, G)
<1>0. G = Dropped(H, b)
  OBVIOUS
<1>1. DOMAIN G = DOMAIN H \ {b} /\ \A x \in DOMAIN G : G[x] = H[x]
  BY <1>0 DEF Dropped
<1>2. b # Arena /\ b \in Nat
  BY ShapeFacts DEF Shape
<1>3. FreeOf(G) = FreeOf(H)
  BY <1>1 DEF FreeOf
<1>4. \A x \in DOMAIN G : End(G, x) = End(H, x)
  BY <1>1 DEF End
<1>5. \A x \in FreeOf(G) : NextOK(G, x)
  BY <1>1, <1>3 DEF Shape, NextOK, FreeOf
<1>6. Tiled(G)
  BY <1>1, <1>4 DEF Shape, Tiled
<1>8. Shape(G)
  <2>1. IsFiniteSet(DOMAIN G) /\ G = [x \in DOMAIN G |-> G[x]]
    BY <1>0, <1>1, FS_Subset DEF Shape, Dropped
  <2>2. Arena \in FreeOf(G) /\ G[Arena].units = 1
    BY <1>1, <1>2, <1>3 DEF Shape, FreeOf
  <2> QED
    BY <1>1, <1>5, <1>6, <2>1, <2>2 DEF Shape
<1>9. Cover(H) = Cover(G) \union b..(End(H, b) - 1)
  <2>1. ASSUME NEW x \in Cover(H) PROVE x \in Cover(G) \union b..(End(H, b) - 1)
    <3>1. PICK y \in DOMAIN H : y # Arena /\ y <= x /\ x < End(H, y) /\ x \in Nat
      BY <2>1 DEF Cover
    <3>2. CASE y # b
      BY <1>1, <1>4, <3>1, <3>2 DEF Cover
    <3>3. CASE y = b
      BY <1>2, <3>1, <3>3, ShapeFacts
    <3> QED
      BY <3>2, <3>3
  <2>2. ASSUME NEW x \in Cover(G) PROVE x \in Cover(H)
    BY <1>1, <1>4, <2>2 DEF Cover
  <2>3. ASSUME NEW x \in b..(End(H, b) - 1) PROVE x \in Cover(H)
    BY <1>2, <2>3, ShapeFacts DEF Cover
  <2> QED
    BY <2>1, <2>2, <2>3
<1> QED
  BY <1>0, <1>1, <1>2, <1>3, <1>8, <1>9 DEF DropOK

\* A free block is put into the ring behind cur.
Inserted(H, cur, b, u) ==
    [x \in DOMAIN H \union {b} |->
        IF x = b THEN [units |-> u, next |-> H[cur].next]
        ELSE IF x = cur THEN [units |-> H[cur].units, next |-> b] ELSE H[x]]

\* cur is the last free block below b.
Before(H, cur, b) == cur \in FreeOf(H) /\ cur < b /\ \A f \in FreeOf(H) : f <= cur \/ b < f

Inserts(H, cur, b, u) ==
    /\ Shape(H) /\ b \in Nat /\ u \in Nat \ {0} /\ b \notin DOMAIN H
    /\ \A x \in DOMAIN H : End(H, x) <= b \/ b + u <= x
    /\ Before(H, cur, b)

InsertOK(H, cur, b, u, G) ==
    /\ Shape(G) /\ FreeOf(G) = FreeOf(H) \union {b}
    /\ DOMAIN G = DOMAIN H \union {b}
    /\ G[b] = [units |-> u, next |-> H[cur].next]
    /\ G[cur] = [units |-> H[cur].units, next |-> b]
    /\ \A x \in DOMAIN H \ {cur} : G[x] = H[x]
    /\ Cover(G) = Cover(H) \union b..(b + u - 1)

\* A block can be put in behind the free block before it.
LEMMA Insert ==
    ASSUME NEW H, NEW cur, NEW b, NEW u, Inserts(H, cur, b, u),
           NEW G, G = Inserted(H, cur, b, u)
    PROVE  InsertOK(H, cur, b, u, G)
<1>1. /\ Shape(H) /\ b \in Nat /\ u \in Nat \ {0} /\ b \notin DOMAIN H
      /\ \A x \in DOMAIN H : End(H, x) <= b \/ b + u <= x
      /\ cur \in FreeOf(H) /\ cur < b /\ \A f \in FreeOf(H) : f <= cur \/ b < f
      /\ cur \in DOMAIN H /\ cur # b /\ cur \in Int /\ b # Arena
  BY ShapeFacts DEF Inserts, Before, FreeOf, Arena
<1>2. /\ DOMAIN G = DOMAIN H \union {b}
      /\ G[b] = [units |-> u, next |-> H[cur].next]
      /\ G[cur] = [units |-> H[cur].units, next |-> b]
      /\ \A x \in DOMAIN H \ {cur} : G[x] = H[x]
      /\ G = [x \in DOMAIN G |-> G[x]]
  BY <1>1 DEF Inserted
<1>3. /\ G[b].units = u /\ G[b].next = H[cur].next /\ G[cur].units = H[cur].units
      /\ G[cur].next = b /\ H[cur].next \in FreeOf(H) /\ H[cur].next # None /\ b # None
      /\ NextOK(H, cur)
  BY <1>1, <1>2, FirstFitConstants DEF Shape, NextOK, FreeOf
<1>4. FreeOf(G) = FreeOf(H) \union {b}
  BY <1>1, <1>2, <1>3 DEF FreeOf
<1>5. End(G, b) = b + u /\ \A x \in DOMAIN H : End(G, x) = End(H, x)
  BY <1>1, <1>2, <1>3 DEF End
<1>6. Tiled(G)
  <2> SUFFICES ASSUME NEW x \in DOMAIN G, NEW y \in DOMAIN G, x < y PROVE End(G, x) <= y
    BY DEF Tiled
  <2>1. CASE x = b
    <3>1. y \in DOMAIN H /\ y \in Int /\ y < End(H, y) /\ End(H, y) \in Int
      BY <1>1, <1>2, <2>1, ShapeFacts
    <3>2. ~(End(H, y) <= b)
      BY <1>1, <2>1, <3>1
    <3> QED
      BY <1>1, <1>5, <2>1, <3>1, <3>2
  <2>2. CASE x # b /\ y = b
    <3>1. x \in DOMAIN H /\ x \in Int
      BY <1>1, <1>2, <2>2, ShapeFacts
    <3>2. ~(b + u <= x)
      BY <1>1, <2>2, <3>1
    <3> QED
      BY <1>1, <1>5, <2>2, <3>1, <3>2
  <2>3. CASE x # b /\ y # b
    BY <1>1, <1>2, <1>5, <2>3 DEF Shape, Tiled
  <2> QED
    BY <2>1, <2>2, <2>3
<1>7. \A x \in FreeOf(G) : NextOK(G, x)
  <2> SUFFICES ASSUME NEW x \in FreeOf(G) PROVE NextOK(G, x)
    OBVIOUS
  <2>0. \A f \in FreeOf(H) : f \in Int /\ f \in DOMAIN H
    BY <1>1, ShapeFacts DEF FreeOf
  <2>1. CASE x = b
    <3>1. G[x].next = H[cur].next /\ H[cur].next \in FreeOf(G)
      BY <1>3, <1>4, <2>1
    <3>2. CASE cur < H[cur].next /\ \A f \in FreeOf(H) : f <= cur \/ H[cur].next <= f
      <4>1. b < H[cur].next
        BY <1>1, <1>3, <2>0, <3>2
      <4>2. \A f \in FreeOf(G) : f <= b \/ H[cur].next <= f
        BY <1>1, <1>4, <2>0, <3>2
      <4> QED
        BY <2>1, <3>1, <4>1, <4>2 DEF NextOK
    <3>3. CASE H[cur].next = Arena /\ \A f \in FreeOf(H) : f <= cur
      <4>1. \A f \in FreeOf(G) : f <= b
        BY <1>1, <1>4, <2>0, <3>3
      <4> QED
        BY <2>1, <3>1, <3>3, <4>1 DEF NextOK
    <3> QED
      BY <1>3, <3>2, <3>3 DEF NextOK
  <2>2. CASE x = cur
    <3>1. G[x].next = b /\ b \in FreeOf(G) /\ x < b
      BY <1>1, <1>3, <1>4, <2>2
    <3>2. \A f \in FreeOf(G) : f <= x \/ b <= f
      BY <1>1, <1>4, <2>0, <2>2
    <3> QED
      BY <3>1, <3>2 DEF NextOK
  <2>3. CASE x # b /\ x # cur
    <3>1. x \in FreeOf(H) /\ G[x].next = H[x].next /\ NextOK(H, x) /\ x \in Int
      BY <1>1, <1>2, <1>4, <2>0, <2>3 DEF Shape
    <3>2. H[x].next \in FreeOf(G)
      BY <1>4, <3>1 DEF NextOK
    <3>3. CASE x < H[x].next /\ \A f \in FreeOf(H) : f <= x \/ H[x].next <= f
      <4>1. b <= x \/ H[x].next <= b
        <5>1. cur <= x \/ H[x].next <= cur
          BY <1>1, <3>3
        <5>2. cur < x => b < x
          BY <1>1, <2>0, <3>1
        <5>3. H[x].next \in Int
          BY <2>0, <3>1 DEF NextOK
        <5> QED
          BY <1>1, <2>3, <3>1, <5>1, <5>2, <5>3
      <4>2. \A f \in FreeOf(G) : f <= x \/ H[x].next <= f
        BY <1>4, <3>3, <4>1
      <4> QED
        BY <3>1, <3>2, <3>3, <4>2 DEF NextOK
    <3>4. CASE H[x].next = Arena /\ \A f \in FreeOf(H) : f <= x
      <4>1. cur <= x /\ b < x
        BY <1>1, <2>0, <2>3, <3>1, <3>4
      <4>2. \A f \in FreeOf(G) : f <= x
        BY <1>1, <1>4, <3>1, <3>4, <4>1
      <4> QED
        BY <3>1, <3>2, <3>4, <4>2 DEF NextOK
    <3> QED
      BY <3>1, <3>3, <3>4 DEF NextOK
  <2> QED
    BY <2>1, <2>2, <2>3
<1>8. Cover(G) = Cover(H) \union b..(b + u - 1)
  <2>1. ASSUME NEW x \in Cover(G) PROVE x \in Cover(H) \union b..(b + u - 1)
    <3>1. PICK y \in DOMAIN G : y # Arena /\ y <= x /\ x < End(G, y) /\ x \in Nat
      BY <2>1 DEF Cover
    <3>2. CASE y = b
      BY <1>1, <1>5, <3>1, <3>2
    <3>3. CASE y # b
      BY <1>2, <1>5, <3>1, <3>3 DEF Cover
    <3> QED
      BY <3>2, <3>3
  <2>2. ASSUME NEW x \in Cover(H) PROVE x \in Cover(G)
    BY <1>2, <1>5, <2>2 DEF Cover
  <2>3. ASSUME NEW x \in b..(b + u - 1) PROVE x \in Cover(G)
    <3>1. x \in Nat /\ b <= x /\ x < b + u
      BY <1>1, <2>3
    <3> QED
      BY <1>1, <1>2, <1>5, <3>1 DEF Cover
  <2> QED
    BY <2>1, <2>2, <2>3
<1>9. Shape(G)
  <2>1. IsFiniteSet(DOMAIN G)
    BY <1>1, <1>2, FS_AddElement DEF Shape
  <2>2. ASSUME NEW x \in DOMAIN G
        PROVE  /\ x = Arena \/ x \in Nat
               /\ G[x] = [units |-> G[x].units, next |-> G[x].next]
               /\ G[x].units \in Nat \ {0}
    <3>1. CASE x = b
      BY <1>1, <1>2, <1>3, <3>1
    <3>2. CASE x = cur
      BY <1>1, <1>2, <1>3, <3>2, ShapeFacts
    <3>3. CASE x # b /\ x # cur
      BY <1>1, <1>2, <3>3 DEF Shape
    <3> QED
      BY <3>1, <3>2, <3>3
  <2>3. Arena \in FreeOf(G) /\ G[Arena].units = 1
    <3>1. Arena \in FreeOf(H) /\ H[Arena].units = 1 /\ Arena \in DOMAIN H
      BY <1>1 DEF Shape, FreeOf
    <3> QED
      BY <1>2, <1>3, <1>4, <3>1
  <2> QED
    BY <1>2, <1>6, <1>7, <2>1, <2>2, <2>3 DEF Shape
<1> QED
  BY <1>2, <1>4, <1>8, <1>9 DEF InsertOK

\* Functions are equal when they agree everywhere.
LEMMA SameFunction ==
    ASSUME NEW F, NEW G, F = [x \in DOMAIN F |-> F[x]], G = [x \in DOMAIN G |-> G[x]],
           DOMAIN F = DOMAIN G, \A x \in DOMAIN F : F[x] = G[x]
    PROVE  F = G
  OBVIOUS

\* What slob_free makes of the heap when b goes behind cur.
Freed(H, cur, b, u) ==
    LET next  == H[cur].next
        above == b + u = next
        below == cur + H[cur].units = b
        block == IF above THEN [units |-> u + H[next].units, next |-> H[next].next]
                          ELSE [units |-> u, next |-> next]
        kept  == DOMAIN H \ IF above THEN {b, next} ELSE {b}
    IN IF below
       THEN [a \in kept |-> IF a = cur THEN [units |-> H[cur].units + block.units,
                                             next |-> block.next]
                            ELSE H[a]]
       ELSE [a \in kept \union {b} |->
               CASE a = b   -> block
                 [] a = cur -> [H[cur] EXCEPT !.next = b]
                 [] OTHER   -> H[a]]

\* b is a block in use, or one that is new.
Frees(H, cur, b, u) ==
    /\ Shape(H) /\ b \in Nat /\ u \in Nat \ {0} /\ b \notin FreeOf(H)
    /\ \A x \in DOMAIN H \ {b} : End(H, x) <= b \/ b + u <= x
    /\ Before(H, cur, b)

\* slob_free drops the block's header, puts the block in and joins it above and below.
LEMMA FreedIs ==
    ASSUME NEW H, NEW cur, NEW b, NEW u, Frees(H, cur, b, u), NEW G, G = Freed(H, cur, b, u),
           NEW K, K = IF b \in DOMAIN H THEN Dropped(H, b) ELSE H,
           NEW I, I = Inserted(K, cur, b, u),
           NEW J, J = IF b + u = H[cur].next THEN Merged(I, b) ELSE I
    PROVE  G = IF End(H, cur) = b THEN Merged(J, cur) ELSE J
<1>0. /\ Shape(H) /\ b \in Nat /\ u \in Nat \ {0} /\ b \notin FreeOf(H)
      /\ cur \in FreeOf(H) /\ cur < b /\ cur \in DOMAIN H /\ cur # b /\ cur \in Int
  BY ShapeFacts DEF Frees, Before, FreeOf
<1>a. PICK n : n = H[cur].next
  OBVIOUS
<1>1. n = H[cur].next /\ n \in FreeOf(H) /\ n \in DOMAIN H /\ n # b /\ n \in Int
  <2>1. n \in FreeOf(H)
    BY <1>0, <1>a, ShapeFacts
  <2> QED
    BY <1>0, <1>a, <2>1, ShapeFacts DEF FreeOf
<1>2. /\ K = [x \in DOMAIN K |-> K[x]] /\ DOMAIN K = DOMAIN H \ {b}
      /\ \A x \in DOMAIN K : K[x] = H[x]
  BY <1>0 DEF Dropped, Shape
<1>3. /\ I = [x \in DOMAIN I |-> I[x]] /\ DOMAIN I = DOMAIN H \union {b}
      /\ I[b] = [units |-> u, next |-> n] /\ I[cur] = [units |-> H[cur].units, next |-> b]
      /\ \A x \in DOMAIN H : x # b /\ x # cur => I[x] = H[x]
  BY <1>0, <1>1, <1>2 DEF Inserted
<1>4. H[cur] = [units |-> H[cur].units, next |-> n]
  BY <1>0, <1>1 DEF Shape
<1>5. CASE b + u = n
  <2>0. n # cur
    BY <1>0, <1>1, <1>5
  <2>1. /\ J = [x \in DOMAIN J |-> J[x]] /\ DOMAIN J = (DOMAIN H \union {b}) \ {n}
        /\ J[b] = [units |-> u + H[n].units, next |-> H[n].next]
        /\ J[cur] = [units |-> H[cur].units, next |-> b]
        /\ \A x \in DOMAIN H : x # b /\ x # cur /\ x # n => J[x] = H[x]
    <3>1. J = Merged(I, b) /\ I[b].next = n /\ I[b].units = u /\ I[n] = H[n]
      BY <1>1, <1>3, <1>5, <2>0
    <3>2. J = [x \in DOMAIN I \ {n} |->
                 IF x = b THEN [units |-> u + H[n].units, next |-> H[n].next] ELSE I[x]]
      BY <3>1 DEF Merged
    <3> QED
      BY <1>0, <1>1, <1>3, <2>0, <3>2
  <2>2. CASE End(H, cur) = b
    <3>1. PICK M : M = Merged(J, cur)
      OBVIOUS
    <3>2. M = [x \in DOMAIN J \ {b} |->
                 IF x = cur THEN [units |-> H[cur].units + (u + H[n].units), next |-> H[n].next]
                 ELSE J[x]]
      <4>1. J[cur].next = b /\ J[cur].units = H[cur].units /\ J[b].units = u + H[n].units
            /\ J[b].next = H[n].next
        BY <2>1
      <4> QED
        BY <3>1, <4>1 DEF Merged
    <3>3. G = [x \in DOMAIN H \ {b, n} |->
                 IF x = cur THEN [units |-> H[cur].units + (u + H[n].units), next |-> H[n].next]
                 ELSE H[x]]
      BY <1>1, <1>5, <2>2 DEF Freed, End
    <3>4. DOMAIN J \ {b} = DOMAIN H \ {b, n}
      BY <2>1
    <3>5. G = M
      BY <2>1, <3>2, <3>3, <3>4
    <3> QED
      BY <2>2, <3>1, <3>5
  <2>3. CASE End(H, cur) # b
    <3>1. G = [x \in (DOMAIN H \ {b, n}) \union {b} |->
                 CASE x = b   -> [units |-> u + H[n].units, next |-> H[n].next]
                   [] x = cur -> [H[cur] EXCEPT !.next = b]
                   [] OTHER   -> H[x]]
      BY <1>1, <1>5, <2>3 DEF Freed, End
    <3>2. [H[cur] EXCEPT !.next = b] = [units |-> H[cur].units, next |-> b]
      BY <1>4
    <3>3. (DOMAIN H \ {b, n}) \union {b} = DOMAIN J
      BY <1>1, <2>1
    <3>4. /\ DOMAIN G = DOMAIN J /\ G = [x \in DOMAIN G |-> G[x]]
          /\ \A x \in DOMAIN J : G[x] = J[x]
      BY <1>0, <2>1, <3>1, <3>2, <3>3
    <3>5. G = J
      BY <2>1, <3>4, SameFunction
    <3> QED
      BY <2>3, <3>5
  <2> QED
    BY <2>2, <2>3
<1>6. CASE b + u # n
  <2>1. J = I
    BY <1>1, <1>6
  <2>2. CASE End(H, cur) = b
    <3>1. PICK M : M = Merged(J, cur)
      OBVIOUS
    <3>2. M = [x \in DOMAIN I \ {b} |->
                 IF x = cur THEN [units |-> H[cur].units + u, next |-> n] ELSE I[x]]
      <4>1. I[cur].next = b /\ I[cur].units = H[cur].units /\ I[b].units = u /\ I[b].next = n
        BY <1>3
      <4> QED
        BY <2>1, <3>1, <4>1 DEF Merged
    <3>3. G = [x \in DOMAIN H \ {b} |->
                 IF x = cur THEN [units |-> H[cur].units + u, next |-> n] ELSE H[x]]
      BY <1>1, <1>6, <2>2 DEF Freed, End
    <3>4. DOMAIN I \ {b} = DOMAIN H \ {b}
      BY <1>3
    <3>5. G = M
      BY <1>3, <3>2, <3>3, <3>4
    <3> QED
      BY <2>2, <3>1, <3>5
  <2>3. CASE End(H, cur) # b
    <3>1. G = [x \in (DOMAIN H \ {b}) \union {b} |->
                 CASE x = b   -> [units |-> u, next |-> n]
                   [] x = cur -> [H[cur] EXCEPT !.next = b]
                   [] OTHER   -> H[x]]
      BY <1>1, <1>6, <2>3 DEF Freed, End
    <3>2. [H[cur] EXCEPT !.next = b] = [units |-> H[cur].units, next |-> b]
      BY <1>4
    <3>3. (DOMAIN H \ {b}) \union {b} = DOMAIN I
      BY <1>3
    <3>4. /\ DOMAIN G = DOMAIN I /\ G = [x \in DOMAIN G |-> G[x]]
          /\ \A x \in DOMAIN I : G[x] = I[x]
      BY <1>0, <1>3, <3>1, <3>2, <3>3
    <3>5. G = I
      BY <1>3, <3>4, SameFunction
    <3> QED
      BY <2>1, <2>3, <3>5
  <2> QED
    BY <2>2, <2>3
<1> QED
  BY <1>5, <1>6

InUse(H) == DOMAIN H \ FreeOf(H)

\* What slob_free leaves: the units of the block are free, and all else is as it was.
FreedOK(H, cur, b, u, G) ==
    /\ Shape(G) /\ Cover(G) = Cover(H) \union b..(b + u - 1)
    /\ InUse(G) = InUse(H) \ {b} /\ \A x \in InUse(G) : G[x] = H[x]
    /\ cur \in FreeOf(G)
    /\ \E c \in FreeOf(G) : c # Arena /\ G[c].units >= u

\* slob_free keeps the ring's shape and adds exactly the block to the free ones.
LEMMA Freeing ==
    ASSUME NEW H, NEW cur, NEW b, NEW u, Frees(H, cur, b, u), b \in DOMAIN H => H[b].units = u,
           NEW G, G = Freed(H, cur, b, u)
    PROVE  FreedOK(H, cur, b, u, G)
<1>0. /\ Shape(H) /\ b \in Nat /\ u \in Nat \ {0} /\ b \notin FreeOf(H) /\ b # Arena
      /\ \A x \in DOMAIN H \ {b} : End(H, x) <= b \/ b + u <= x
      /\ cur \in FreeOf(H) /\ cur < b /\ cur \in DOMAIN H /\ cur # b /\ cur \in Int
      /\ \A f \in FreeOf(H) : f <= cur \/ b < f
  BY ShapeFacts DEF Frees, Before, FreeOf, Arena
<1>1. PICK K : K = IF b \in DOMAIN H THEN Dropped(H, b) ELSE H
  OBVIOUS
<1>2. /\ Shape(K) /\ FreeOf(K) = FreeOf(H) /\ DOMAIN K = DOMAIN H \ {b}
      /\ \A x \in DOMAIN K : K[x] = H[x]
      /\ Cover(K) \union b..(b + u - 1) = Cover(H) \union b..(b + u - 1)
  <2>1. CASE b \in DOMAIN H
    <3>1. K = Dropped(H, b) /\ b + u = End(H, b)
      BY <1>1, <2>1 DEF End
    <3>2. Shape(H) /\ b \notin FreeOf(H)
      BY <1>0
    <3>3. DropOK(H, b, b + u, K)
      BY ONLY <2>1, <3>1, <3>2, Drop
    <3>4. /\ Shape(K) /\ FreeOf(K) = FreeOf(H) /\ DOMAIN K = DOMAIN H \ {b}
          /\ \A x \in DOMAIN H \ {b} : K[x] = H[x]
          /\ Cover(H) = Cover(K) \union b..((b + u) - 1)
      BY ONLY <3>3 DEF DropOK
    <3>5. Cover(K) \union b..(b + u - 1) = Cover(H) \union b..(b + u - 1)
      <4>1. b \in Nat /\ u \in Nat
        BY <1>0
      <4> QED
        BY ONLY <3>4, <4>1
    <3> QED
      BY ONLY <3>4, <3>5
  <2>2. CASE b \notin DOMAIN H
    BY <1>0, <1>1, <2>2
  <2> QED
    BY <2>1, <2>2
<1>3. Inserts(K, cur, b, u)
  <2>1. \A x \in DOMAIN K : End(K, x) <= b \/ b + u <= x
    BY <1>0, <1>2 DEF End
  <2> QED
    BY <1>0, <1>2, <2>1 DEF Inserts, Before
<1>4. PICK I : I = Inserted(K, cur, b, u)
  OBVIOUS
<1>5. /\ Shape(I) /\ FreeOf(I) = FreeOf(H) \union {b}
      /\ DOMAIN I = DOMAIN H \union {b}
      /\ I[b] = [units |-> u, next |-> H[cur].next]
      /\ I[cur] = [units |-> H[cur].units, next |-> b]
      /\ \A x \in DOMAIN H \ {cur, b} : I[x] = H[x]
      /\ Cover(I) = Cover(H) \union b..(b + u - 1)
  <2>1. /\ Shape(I) /\ FreeOf(I) = FreeOf(K) \union {b}
        /\ DOMAIN I = DOMAIN K \union {b}
        /\ I[b] = [units |-> u, next |-> K[cur].next]
        /\ I[cur] = [units |-> K[cur].units, next |-> b]
        /\ \A x \in DOMAIN K \ {cur} : I[x] = K[x]
        /\ Cover(I) = Cover(K) \union b..(b + u - 1)
    <3>1. InsertOK(K, cur, b, u, I)
      BY ONLY <1>3, <1>4, Insert
    <3> QED
      BY <3>1 DEF InsertOK
  <2>2. K[cur] = H[cur] /\ cur \in DOMAIN K
    BY <1>0, <1>2
  <2> QED
    BY <1>0, <1>2, <2>1, <2>2
<1>6. PICK J : J = IF b + u = H[cur].next THEN Merged(I, b) ELSE I
  OBVIOUS
<1>7. /\ Shape(J) /\ FreeOf(J) \subseteq FreeOf(I) /\ b \in FreeOf(J) /\ cur \in FreeOf(J)
      /\ DOMAIN I \ DOMAIN J \subseteq FreeOf(I) /\ DOMAIN I \ DOMAIN J = FreeOf(I) \ FreeOf(J)
      /\ DOMAIN J \subseteq DOMAIN I
      /\ J[b].units >= u /\ J[cur] = I[cur] /\ J[b].units \in Nat
      /\ \A x \in DOMAIN J \ {b} : J[x] = I[x]
      /\ Cover(J) = Cover(I)
  <2>0. I[b].units = u /\ I[b].next = H[cur].next /\ b \in FreeOf(I) /\ b \in DOMAIN I
    BY <1>5
  <2>1. CASE b + u = H[cur].next
    <3>1. PICK n : n = H[cur].next
      OBVIOUS
    <3>2. n = I[b].next /\ End(I, b) = n /\ n # cur /\ J = Merged(I, b)
      BY <1>0, <1>6, <2>0, <2>1, <3>1 DEF End
    <3>3. /\ Shape(J) /\ Cover(J) = Cover(I) /\ FreeOf(J) = FreeOf(I) \ {n}
          /\ DOMAIN J = DOMAIN I \ {n} /\ b # n
          /\ J[b].units = I[b].units + I[n].units
          /\ \A x \in DOMAIN I \ {b, n} : J[x] = I[x]
      <4>1. Shape(I) /\ b \in FreeOf(I)
        BY <1>5, <2>0
      <4>2. MergeOK(I, b, n, J)
        BY ONLY <3>2, <4>1, Merge
      <4> QED
        BY ONLY <4>2 DEF MergeOK
    <3>4. n \in FreeOf(I) /\ n \in DOMAIN I /\ I[n].units \in Nat
      BY <1>5, <2>0, <3>2, ShapeFacts
    <3>5. cur \in FreeOf(J) /\ J[cur] = I[cur]
      BY <1>0, <1>5, <3>2, <3>3
    <3>6. b \in FreeOf(J) /\ J[b].units >= u /\ J[b].units \in Nat
      BY <1>0, <2>0, <3>3, <3>4
    <3> QED
      BY <3>3, <3>4, <3>5, <3>6
  <2>2. CASE b + u # H[cur].next
    <3>1. J = I
      BY <1>6, <2>2
    <3> QED
      BY <1>0, <1>5, <2>0, <3>1 DEF FreeOf
  <2> QED
    BY <2>1, <2>2
<1>8. G = IF End(H, cur) = b THEN Merged(J, cur) ELSE J
  BY <1>1, <1>4, <1>6, FreedIs
<1>9. /\ Shape(G) /\ FreeOf(G) \subseteq FreeOf(I) /\ cur \in FreeOf(G)
      /\ DOMAIN I \ DOMAIN G = FreeOf(I) \ FreeOf(G)
      /\ DOMAIN G \subseteq DOMAIN I
      /\ \A x \in DOMAIN G \ {b, cur} : G[x] = I[x]
      /\ Cover(G) = Cover(I)
      /\ \E c \in FreeOf(G) : c # Arena /\ G[c].units >= u
  <2>1. CASE End(H, cur) = b
    <3>1. J[cur].next = b /\ J[cur].units = H[cur].units /\ G = Merged(J, cur)
      BY <1>5, <1>7, <1>8, <2>1
    <3>2. End(J, cur) = J[cur].next
      BY <2>1, <3>1 DEF End
    <3>3. /\ Shape(G) /\ Cover(G) = Cover(J) /\ FreeOf(G) = FreeOf(J) \ {b}
          /\ DOMAIN G = DOMAIN J \ {b} /\ cur # b
          /\ G[cur].units = J[cur].units + J[b].units
          /\ \A x \in DOMAIN J \ {cur, b} : G[x] = J[x]
      <4>1. Shape(J) /\ cur \in FreeOf(J) /\ b = J[cur].next /\ End(J, cur) = b
        BY <1>7, <3>1, <3>2
      <4>2. MergeOK(J, cur, b, G)
        BY ONLY <3>1, <4>1, Merge
      <4> QED
        BY ONLY <4>2 DEF MergeOK
    <3>4. cur # Arena /\ G[cur].units >= u
      <4>1. End(H, Arena) # b
        BY <1>0, ShapeFacts
      <4>2. J[cur].units \in Nat
        BY <1>0, <3>1, ShapeFacts
      <4> QED
        BY <1>0, <1>7, <2>1, <3>3, <4>1, <4>2
    <3>5. cur \in FreeOf(G)
      BY <1>7, <3>3
    <3>6. DOMAIN I \ DOMAIN G = FreeOf(I) \ FreeOf(G)
      <4>1. b \in FreeOf(I) /\ b \in DOMAIN I
        BY <1>5
      <4> QED
        BY <1>7, <3>3, <4>1
    <3> QED
      BY <1>7, <3>3, <3>4, <3>5, <3>6
  <2>2. CASE End(H, cur) # b
    BY <1>0, <1>7, <1>8, <2>2
  <2> QED
    BY <2>1, <2>2
<1>10. InUse(G) = InUse(H) \ {b}
  <2>1. FreeOf(G) \subseteq DOMAIN G /\ FreeOf(H) \subseteq DOMAIN H /\ FreeOf(I) \subseteq DOMAIN I
    BY DEF FreeOf
  <2> QED
    BY <1>5, <1>9, <2>1 DEF InUse
<1>11. \A x \in InUse(G) : G[x] = H[x]
  <2> SUFFICES ASSUME NEW x \in InUse(G) PROVE G[x] = H[x]
    OBVIOUS
  <2>1. x \in DOMAIN H /\ x \notin FreeOf(H) /\ x # b /\ x # cur /\ x \in DOMAIN G
    BY <1>0, <1>10 DEF InUse
  <2> QED
    BY <1>5, <1>9, <2>1
<1> QED
  BY <1>5, <1>9, <1>10, <1>11 DEF FreedOK

\* A free block gives up its last units.
Shortened(H, a, u) == [x \in DOMAIN H |-> IF x = a THEN [units |-> u, next |-> H[a].next] ELSE H[x]]
ShortenOK(H, a, u, G, r, e) ==
    /\ Shape(G) /\ DOMAIN G = DOMAIN H /\ FreeOf(G) = FreeOf(H)
    /\ G[a] = [units |-> u, next |-> H[a].next]
    /\ \A x \in DOMAIN H \ {a} : G[x] = H[x]
    /\ Cover(H) = Cover(G) \union r..(e - 1)
    /\ r \in Nat /\ r \notin DOMAIN H
    /\ \A x \in DOMAIN H : End(G, x) <= r \/ e <= x
    /\ Before(G, a, r)

\* A free block is made shorter; a block of the rest fits behind it.
LEMMA Shorten ==
    ASSUME NEW H, Shape(H), NEW a, a \in FreeOf(H), a # Arena,
           NEW u, u \in Nat \ {0}, u < H[a].units, NEW G, G = Shortened(H, a, u),
           NEW r, r = a + u, NEW e, e = End(H, a)
    PROVE  ShortenOK(H, a, u, G, r, e)
<1>1. /\ a \in DOMAIN H /\ a \in Nat /\ H[a].units \in Nat /\ H[a].next # None
      /\ End(H, a) = a + H[a].units
  BY ShapeFacts DEF FreeOf, End
<1>2. /\ DOMAIN G = DOMAIN H /\ G[a] = [units |-> u, next |-> H[a].next]
      /\ \A x \in DOMAIN H \ {a} : G[x] = H[x]
      /\ G = [x \in DOMAIN G |-> G[x]]
      /\ G[a].units = u /\ G[a].next = H[a].next
  BY <1>1 DEF Shortened
<1>3. FreeOf(G) = FreeOf(H) /\ \A x \in FreeOf(G) : G[x].next = H[x].next
  BY <1>1, <1>2 DEF FreeOf
<1>4. End(G, a) = a + u /\ a + u < End(H, a) /\ \A x \in DOMAIN H \ {a} : End(G, x) = End(H, x)
  BY <1>1, <1>2 DEF End
<1>5. \A x \in FreeOf(G) : NextOK(G, x)
  BY <1>3 DEF Shape, NextOK
<1>6. ASSUME NEW x \in DOMAIN H, x # a
      PROVE  x \in Int /\ End(H, x) \in Int /\ (x < a => End(H, x) <= a) /\ (a < x => End(H, a) <= x)
  BY <1>1, <1>6, ShapeFacts DEF Shape, Tiled
<1>7. Tiled(G)
  <2> SUFFICES ASSUME NEW x \in DOMAIN G, NEW y \in DOMAIN G, x < y PROVE End(G, x) <= y
    BY DEF Tiled
  <2>1. CASE x = a
    BY <1>1, <1>2, <1>4, <1>6, <2>1
  <2>2. CASE x # a
    BY <1>2, <1>4, <2>2 DEF Shape, Tiled
  <2> QED
    BY <2>1, <2>2
<1>8. Shape(G)
  <2>1. ASSUME NEW x \in DOMAIN G
        PROVE  /\ x = Arena \/ x \in Nat
               /\ G[x] = [units |-> G[x].units, next |-> G[x].next]
               /\ G[x].units \in Nat \ {0}
    BY <1>2 DEF Shape
  <2>2. Arena \in FreeOf(G) /\ G[Arena].units = 1
    BY <1>2, <1>3 DEF Shape, FreeOf
  <2>3. G = [x \in DOMAIN G |-> G[x]]
    BY DEF Shortened
  <2>4. IsFiniteSet(DOMAIN G)
    BY <1>2 DEF Shape
  <2> QED
    BY <1>5, <1>7, <2>1, <2>2, <2>3, <2>4 DEF Shape
<1>9. Cover(H) = Cover(G) \union (a + u)..(End(H, a) - 1)
  <2>1. ASSUME NEW x \in Cover(H) PROVE x \in Cover(G) \union (a + u)..(End(H, a) - 1)
    <3>1. PICK y \in DOMAIN H : y # Arena /\ y <= x /\ x < End(H, y) /\ x \in Nat
      BY <2>1 DEF Cover
    <3>2. CASE y # a
      BY <1>2, <1>4, <3>1, <3>2 DEF Cover
    <3>3. CASE y = a
      <4>1. x < a + u \/ x \in (a + u)..(End(H, a) - 1)
        BY <1>1, <3>1, <3>3
      <4> QED
        BY <1>2, <1>4, <3>1, <3>3, <4>1 DEF Cover
    <3> QED
      BY <3>2, <3>3
  <2>2. ASSUME NEW x \in Cover(G) PROVE x \in Cover(H)
    <3>1. PICK y \in DOMAIN G : y # Arena /\ y <= x /\ x < End(G, y) /\ x \in Nat
      BY <2>2 DEF Cover
    <3>2. x < End(H, y)
      BY <1>1, <1>2, <1>4, <3>1
    <3> QED
      BY <1>2, <3>1, <3>2 DEF Cover
  <2>3. ASSUME NEW x \in (a + u)..(End(H, a) - 1) PROVE x \in Cover(H)
    BY <1>1, <2>3 DEF Cover
  <2> QED
    BY <2>1, <2>2, <2>3
<1>10. a + u \notin DOMAIN H
  BY <1>1, <1>4, <1>6
<1>11. \A x \in DOMAIN H : End(G, x) <= a + u \/ End(H, a) <= x
  <2> SUFFICES ASSUME NEW x \in DOMAIN H PROVE End(G, x) <= a + u \/ End(H, a) <= x
    OBVIOUS
  <2>1. CASE x = a
    BY <1>1, <1>4, <2>1
  <2>2. CASE x # a
    BY <1>1, <1>4, <1>6, <2>2
  <2> QED
    BY <2>1, <2>2
<1>12. Before(H, a, a + u)
  <2>1. \A f \in FreeOf(H) : f <= a \/ a + u < f
    <3> SUFFICES ASSUME NEW f \in FreeOf(H), ~(f <= a) PROVE a + u < f
      OBVIOUS
    <3>1. f \in DOMAIN H /\ f # a
      BY <1>1 DEF FreeOf
    <3> QED
      BY <1>1, <1>4, <1>6, <3>1
  <2> QED
    BY <1>1, <2>1 DEF Before
<1> QED
  <2>1. Before(G, a, a + u) /\ a + u \in Nat
    BY <1>1, <1>3, <1>12 DEF Before
  <2> QED
    BY <1>1, <1>2, <1>3, <1>8, <1>9, <1>10, <1>11, <2>1 DEF ShortenOK

\* The block behind p leaves the ring and is in use.
Unlinked(H, p, c) ==
    [x \in DOMAIN H |-> IF x = c THEN [units |-> H[c].units, next |-> None]
                        ELSE IF x = p THEN [units |-> H[p].units, next |-> H[c].next] ELSE H[x]]
UnlinkOK(H, p, c, G) ==
    /\ Shape(G) /\ DOMAIN G = DOMAIN H /\ FreeOf(G) = FreeOf(H) \ {c} /\ c # p
    /\ G[c] = [units |-> H[c].units, next |-> None]
    /\ G[p] = [units |-> H[p].units, next |-> H[c].next]
    /\ \A x \in DOMAIN H \ {c, p} : G[x] = H[x]
    /\ Cover(G) = Cover(H)

\* A free block is taken out of the ring and stays in the heap.
LEMMA Unlink ==
    ASSUME NEW H, Shape(H), NEW p, p \in FreeOf(H), NEW c, c = H[p].next, c # Arena,
           NEW G, G = Unlinked(H, p, c)
    PROVE  UnlinkOK(H, p, c, G)
<1>1. /\ p \in DOMAIN H /\ c \in FreeOf(H) /\ c \in DOMAIN H /\ p < c /\ p \in Int /\ c \in Nat
      /\ \A f \in FreeOf(H) : f <= p \/ c <= f
      /\ \A f \in FreeOf(H) : f \in Int /\ f \in DOMAIN H /\ NextOK(H, f)
      /\ H[c].next # None /\ H[p].units \in Nat \ {0} /\ H[c].units \in Nat \ {0}
  <2>1. \A f \in FreeOf(H) : f \in Int /\ f \in DOMAIN H /\ NextOK(H, f)
    BY ShapeFacts DEF FreeOf, Shape
  <2>2. p < c /\ c \in FreeOf(H) /\ \A f \in FreeOf(H) : f <= p \/ c <= f
    BY <2>1 DEF NextOK
  <2> QED
    BY <2>1, <2>2, ShapeFacts DEF FreeOf
<1>2. /\ DOMAIN G = DOMAIN H /\ G = [x \in DOMAIN G |-> G[x]] /\ c # p
      /\ G[c] = [units |-> H[c].units, next |-> None]
      /\ G[p] = [units |-> H[p].units, next |-> H[c].next]
      /\ \A x \in DOMAIN H \ {c, p} : G[x] = H[x]
  BY <1>1 DEF Unlinked
<1>3. G[c].next = None /\ G[p].next = H[c].next /\ \A x \in DOMAIN H : G[x].units = H[x].units
  BY <1>2
<1>4. FreeOf(G) = FreeOf(H) \ {c}
  BY <1>1, <1>2, <1>3 DEF FreeOf
<1>5. \A x \in DOMAIN H : End(G, x) = End(H, x)
  BY <1>3 DEF End
<1>6. Tiled(G) /\ Cover(G) = Cover(H)
  BY <1>2, <1>5 DEF Shape, Tiled, Cover
<1>7. H[c].next # c
  BY <1>1 DEF NextOK
<1>8. \A x \in FreeOf(G) : NextOK(G, x)
  <2> SUFFICES ASSUME NEW x \in FreeOf(G) PROVE NextOK(G, x)
    OBVIOUS
  <2>1. CASE x = p
    <3>1. H[c].next \in FreeOf(G)
      BY <1>1, <1>4, <1>7 DEF NextOK
    <3>2. CASE c < H[c].next /\ \A f \in FreeOf(H) : f <= c \/ H[c].next <= f
      <4>1. p < H[c].next
        BY <1>1, <1>4, <3>1, <3>2
      <4>2. \A f \in FreeOf(G) : f <= p \/ H[c].next <= f
        <5> SUFFICES ASSUME NEW f \in FreeOf(G), ~(f <= p) PROVE H[c].next <= f
          OBVIOUS
        <5>1. f \in FreeOf(H) /\ f # c /\ f \in Int /\ c <= f
          BY <1>1, <1>4
        <5> QED
          BY <1>1, <3>2, <5>1
      <4> QED
        BY <1>3, <2>1, <3>1, <4>1, <4>2 DEF NextOK
    <3>3. CASE H[c].next = Arena /\ \A f \in FreeOf(H) : f <= c
      <4>1. \A f \in FreeOf(G) : f <= p
        <5> SUFFICES ASSUME NEW f \in FreeOf(G), ~(f <= p) PROVE FALSE
          OBVIOUS
        <5>1. f \in FreeOf(H) /\ f # c /\ f \in Int /\ c <= f
          BY <1>1, <1>4
        <5> QED
          BY <1>1, <3>3, <5>1
      <4> QED
        BY <1>3, <2>1, <3>1, <3>3, <4>1 DEF NextOK
    <3> QED
      BY <1>1, <3>2, <3>3 DEF NextOK
  <2>2. CASE x # p
    <3>1. x \in FreeOf(H) /\ x # c /\ G[x].next = H[x].next
      BY <1>1, <1>2, <1>4, <2>2
    <3>2. H[x].next # c
      <4> SUFFICES ASSUME H[x].next = c PROVE FALSE
        OBVIOUS
      <4>1. x < c /\ \A f \in FreeOf(H) : f <= x \/ c <= f
        BY <1>1, <3>1 DEF NextOK
      <4> QED
        BY <1>1, <2>2, <3>1, <4>1
    <3> QED
      BY <1>1, <1>4, <3>1, <3>2 DEF NextOK
  <2> QED
    BY <2>1, <2>2
<1>9. Shape(G)
  <2>1. ASSUME NEW x \in DOMAIN G
        PROVE  /\ x = Arena \/ x \in Nat
               /\ G[x] = [units |-> G[x].units, next |-> G[x].next]
               /\ G[x].units \in Nat \ {0}
    <3>1. CASE x \in {c, p}
      BY <1>1, <1>2, <1>3, <3>1, ShapeFacts
    <3>2. CASE x \notin {c, p}
      BY <1>2, <3>2 DEF Shape
    <3> QED
      BY <3>1, <3>2
  <2>2. Arena \in FreeOf(G) /\ G[Arena].units = 1
    <3>1. Arena \in FreeOf(H) /\ H[Arena].units = 1 /\ Arena \in DOMAIN H
      BY DEF Shape, FreeOf
    <3> QED
      BY <1>3, <1>4, <3>1
  <2>3. IsFiniteSet(DOMAIN G)
    BY <1>2 DEF Shape
  <2> QED
    BY <1>2, <1>6, <1>8, <2>1, <2>2, <2>3 DEF Shape
<1> QED
  BY <1>2, <1>4, <1>6, <1>9 DEF UnlinkOK

\* What slob_alloc makes of the heap when it takes cur, or a part of it.
CutFrom(H, cur, prev, u) ==
    LET rest == cur + u
        exact == H[cur].units = u
        next == IF exact THEN H[cur].next ELSE rest
    IN [a \in DOMAIN H \union (IF exact THEN {} ELSE {rest}) |->
          CASE a = cur            -> [units |-> u, next |-> None]
            [] a = prev           -> [H[prev] EXCEPT !.next = next]
            [] a = rest /\ ~exact -> [units |-> H[cur].units - u, next |-> H[cur].next]
            [] OTHER              -> H[a]]

Takes(H, cur, prev, u) ==
    /\ Shape(H) /\ prev \in FreeOf(H) /\ H[prev].next = cur /\ cur # Arena
    /\ u \in Nat \ {0} /\ H[cur].units >= u

TookOK(H, cur, prev, u, G) ==
    /\ Shape(G) /\ Cover(G) = Cover(H)
    /\ InUse(G) = InUse(H) \union {cur} /\ cur \notin InUse(H) /\ cur \in Nat
    /\ G[cur].units = u /\ \A x \in InUse(H) : G[x] = H[x]
    /\ prev \in FreeOf(G)

\* slob_alloc takes a block that fits exactly.
LEMMA TakeWhole ==
    ASSUME NEW H, NEW cur, NEW prev, NEW u, Takes(H, cur, prev, u), H[cur].units = u,
           NEW G, G = CutFrom(H, cur, prev, u)
    PROVE  TookOK(H, cur, prev, u, G)
<1>1. /\ Shape(H) /\ prev \in FreeOf(H) /\ cur = H[prev].next /\ cur # Arena
      /\ cur \in FreeOf(H) /\ cur \in DOMAIN H /\ prev \in DOMAIN H /\ cur \in Nat
  BY ShapeFacts DEF Takes, FreeOf
<1>2. PICK K : K = Unlinked(H, prev, cur)
  OBVIOUS
<1>3. /\ Shape(K) /\ DOMAIN K = DOMAIN H /\ FreeOf(K) = FreeOf(H) \ {cur} /\ cur # prev
      /\ K[cur] = [units |-> H[cur].units, next |-> None]
      /\ K[prev] = [units |-> H[prev].units, next |-> H[cur].next]
      /\ \A x \in DOMAIN H \ {cur, prev} : K[x] = H[x]
      /\ Cover(K) = Cover(H)
  <2>1. UnlinkOK(H, prev, cur, K)
    BY ONLY <1>1, <1>2, Unlink
  <2> QED
    BY ONLY <2>1 DEF UnlinkOK
<1>4. G = K
  <2>1. G = [a \in DOMAIN H \union {} |->
               CASE a = cur            -> [units |-> u, next |-> None]
                 [] a = prev           -> [H[prev] EXCEPT !.next = H[cur].next]
                 [] a = cur + u /\ FALSE -> [units |-> H[cur].units - u, next |-> H[cur].next]
                 [] OTHER              -> H[a]]
    BY DEF CutFrom
  <2>2. [H[prev] EXCEPT !.next = H[cur].next] = [units |-> H[prev].units, next |-> H[cur].next]
    <3>1. H[prev] = [units |-> H[prev].units, next |-> H[prev].next]
      BY <1>1 DEF Shape
    <3> QED
      BY <3>1
  <2>3. DOMAIN G = DOMAIN H /\ G = [x \in DOMAIN G |-> G[x]] /\ K = [x \in DOMAIN K |-> K[x]]
    BY <1>2, <2>1 DEF Unlinked
  <2>4. \A x \in DOMAIN H : G[x] = K[x]
    BY <1>3, <2>1, <2>2
  <2> QED
    BY <1>3, <2>3, <2>4, SameFunction
<1>5. InUse(G) = InUse(H) \union {cur} /\ cur \notin InUse(H) /\ \A x \in InUse(H) : G[x] = H[x]
  BY <1>1, <1>3, <1>4 DEF InUse
<1>6. G[cur].units = u /\ prev \in FreeOf(G)
  BY <1>1, <1>3, <1>4
<1> QED
  BY <1>1, <1>3, <1>4, <1>5, <1>6 DEF TookOK

\* slob_alloc splits a block that is larger.
LEMMA TakePart ==
    ASSUME NEW H, NEW cur, NEW prev, NEW u, Takes(H, cur, prev, u), H[cur].units # u,
           NEW G, G = CutFrom(H, cur, prev, u)
    PROVE  TookOK(H, cur, prev, u, G)
<1>0. PICK m : m = H[cur].units - u
  OBVIOUS
<1>1. /\ Shape(H) /\ prev \in FreeOf(H) /\ cur = H[prev].next /\ cur # Arena
      /\ cur \in FreeOf(H) /\ cur \in DOMAIN H /\ prev \in DOMAIN H /\ cur \in Nat /\ cur # prev
      /\ u \in Nat \ {0} /\ u < H[cur].units /\ m \in Nat \ {0} /\ H[cur].units \in Nat
      /\ End(H, cur) = (cur + u) + m
  <2>1. /\ Shape(H) /\ prev \in FreeOf(H) /\ cur = H[prev].next /\ cur # Arena
        /\ cur \in FreeOf(H) /\ cur \in DOMAIN H /\ prev \in DOMAIN H /\ cur \in Nat
        /\ H[cur].units \in Nat /\ u \in Nat \ {0} /\ H[cur].units >= u
    BY ShapeFacts DEF Takes, FreeOf
  <2>2. cur # prev
    BY <2>1, ShapeFacts DEF Shape, NextOK
  <2> QED
    BY <1>0, <2>1, <2>2 DEF End
<1>2. PICK S, r : S = Shortened(H, cur, u) /\ r = cur + u
  OBVIOUS
<1>3. /\ Shape(S) /\ DOMAIN S = DOMAIN H /\ FreeOf(S) = FreeOf(H)
      /\ S[cur] = [units |-> u, next |-> H[cur].next]
      /\ \A x \in DOMAIN H \ {cur} : S[x] = H[x]
      /\ Cover(H) = Cover(S) \union r..(r + m - 1)
      /\ r \in Nat /\ r \notin DOMAIN H
      /\ \A x \in DOMAIN H : End(S, x) <= r \/ r + m <= x
      /\ Before(S, cur, r)
  <2>1. PICK e : e = r + m /\ e = End(H, cur)
    BY <1>1, <1>2
  <2>2. ShortenOK(H, cur, u, S, r, e)
    BY ONLY <1>1, <1>2, <2>1, Shorten
  <2>3. /\ Shape(S) /\ DOMAIN S = DOMAIN H /\ FreeOf(S) = FreeOf(H)
        /\ S[cur] = [units |-> u, next |-> H[cur].next]
        /\ \A x \in DOMAIN H \ {cur} : S[x] = H[x]
        /\ Cover(H) = Cover(S) \union r..(e - 1)
        /\ r \in Nat /\ r \notin DOMAIN H
        /\ \A x \in DOMAIN H : End(S, x) <= r \/ e <= x
        /\ Before(S, cur, r)
    BY ONLY <2>2 DEF ShortenOK
  <2>4. e = r + m /\ m \in Nat /\ r \in Nat
    BY <1>1, <2>1, <2>3
  <2> QED
    BY ONLY <2>3, <2>4
<1>4. Inserts(S, cur, r, m)
  BY <1>1, <1>3 DEF Inserts
<1>5. PICK I : I = Inserted(S, cur, r, m)
  OBVIOUS
<1>6. /\ Shape(I) /\ FreeOf(I) = FreeOf(S) \union {r}
      /\ DOMAIN I = DOMAIN S \union {r}
      /\ I[r] = [units |-> m, next |-> S[cur].next]
      /\ I[cur] = [units |-> S[cur].units, next |-> r]
      /\ \A x \in DOMAIN S \ {cur} : I[x] = S[x]
      /\ Cover(I) = Cover(S) \union r..(r + m - 1)
  <2>1. InsertOK(S, cur, r, m, I)
    BY ONLY <1>4, <1>5, Insert
  <2> QED
    BY <2>1 DEF InsertOK
<1>7. /\ DOMAIN I = DOMAIN H \union {r} /\ FreeOf(I) = FreeOf(H) \union {r}
      /\ I[r] = [units |-> m, next |-> H[cur].next]
      /\ I[cur] = [units |-> u, next |-> r] /\ I[cur].units = u /\ I[cur].next = r
      /\ \A x \in DOMAIN H \ {cur} : I[x] = H[x]
      /\ Cover(I) = Cover(H) /\ I[prev] = H[prev] /\ I[prev].next = cur
  BY <1>1, <1>3, <1>6
<1>8. PICK K : K = Unlinked(I, prev, cur)
  OBVIOUS
<1>9. /\ Shape(K) /\ DOMAIN K = DOMAIN I /\ FreeOf(K) = FreeOf(I) \ {cur}
      /\ K[cur] = [units |-> I[cur].units, next |-> None]
      /\ K[prev] = [units |-> I[prev].units, next |-> I[cur].next]
      /\ \A x \in DOMAIN I \ {cur, prev} : K[x] = I[x]
      /\ Cover(K) = Cover(I)
  <2>1. prev \in FreeOf(I) /\ cur = I[prev].next /\ cur # Arena /\ Shape(I)
    BY <1>1, <1>6, <1>7
  <2> QED
    <3>1. UnlinkOK(I, prev, cur, K)
      BY ONLY <2>1, <1>8, Unlink
    <3> QED
      BY ONLY <3>1 DEF UnlinkOK
<1>10. G = K
  <2>1. G = [a \in DOMAIN H \union {r} |->
               CASE a = cur  -> [units |-> u, next |-> None]
                 [] a = prev -> [H[prev] EXCEPT !.next = r]
                 [] a = r /\ ~FALSE -> [units |-> m, next |-> H[cur].next]
                 [] OTHER    -> H[a]]
    BY <1>0, <1>2 DEF CutFrom
  <2>4. r # cur /\ r # prev
    BY <1>1, <1>3
  <2>a. ASSUME NEW a \in DOMAIN H \union {r}
        PROVE  /\ a = cur => G[a] = [units |-> u, next |-> None]
               /\ a # cur /\ a = prev => G[a] = [H[prev] EXCEPT !.next = r]
               /\ a # cur /\ a # prev /\ a = r => G[a] = [units |-> m, next |-> H[cur].next]
               /\ a # cur /\ a # prev /\ a # r => G[a] = H[a]
    <3>1. G[a] = CASE a = cur  -> [units |-> u, next |-> None]
                   [] a = prev -> [H[prev] EXCEPT !.next = r]
                   [] a = r /\ ~FALSE -> [units |-> m, next |-> H[cur].next]
                   [] OTHER    -> H[a]
      BY <2>1
    <3>2. CASE a = cur
      BY <1>1, <2>4, <3>1, <3>2
    <3>3. CASE a # cur /\ a = prev
      BY <2>4, <3>1, <3>3
    <3>4. CASE a # cur /\ a # prev /\ a = r
      BY <3>1, <3>4
    <3>5. CASE a # cur /\ a # prev /\ a # r
      BY <3>1, <3>5
    <3> QED
      BY <3>2, <3>3, <3>4, <3>5
  <2>2. [H[prev] EXCEPT !.next = r] = [units |-> H[prev].units, next |-> r]
    <3>1. H[prev] = [units |-> H[prev].units, next |-> H[prev].next]
      BY <1>1 DEF Shape
    <3> QED
      BY <3>1
  <2>3. /\ DOMAIN G = DOMAIN K /\ G = [x \in DOMAIN G |-> G[x]]
        /\ K = [x \in DOMAIN K |-> K[x]]
    BY <1>7, <1>8, <1>9, <2>1 DEF Unlinked
  <2>5. \A x \in DOMAIN G : G[x] = K[x]
    <3> SUFFICES ASSUME NEW x \in DOMAIN H \union {r} PROVE G[x] = K[x]
      BY <2>1
    <3>1. CASE x = cur
      BY <1>7, <1>9, <2>a, <3>1
    <3>2. CASE x = prev
      BY <1>1, <1>7, <1>9, <2>a, <2>2, <3>2
    <3>3. CASE x = r
      BY <1>7, <1>9, <2>a, <2>4, <3>3
    <3>4. CASE x \notin {cur, prev, r}
      BY <1>7, <1>9, <2>a, <3>4
    <3> QED
      BY <3>1, <3>2, <3>3, <3>4
  <2> QED
    BY <2>3, <2>5, SameFunction
<1>11. InUse(G) = InUse(H) \union {cur} /\ cur \notin InUse(H) /\ \A x \in InUse(H) : G[x] = H[x]
  <2>1. r \notin DOMAIN H /\ FreeOf(H) \subseteq DOMAIN H
    BY <1>3 DEF FreeOf
  <2> QED
    BY <1>1, <1>7, <1>9, <1>10, <2>1 DEF InUse
<1>12. G[cur].units = u /\ prev \in FreeOf(G)
  BY <1>1, <1>7, <1>9, <1>10
<1> QED
  BY <1>1, <1>7, <1>9, <1>10, <1>11, <1>12 DEF TookOK

\* slob_alloc keeps the ring's shape and takes exactly the block.
LEMMA Taking ==
    ASSUME NEW H, NEW cur, NEW prev, NEW u, Takes(H, cur, prev, u),
           NEW G, G = CutFrom(H, cur, prev, u)
    PROVE  TookOK(H, cur, prev, u, G)
  BY TakeWhole, TakePart

-----------------------------------------------------------------------------
(* The search round the ring.                                              *)

RingOf(H, s, n) == LET walk[k \in 0..n] == IF k = 0 THEN s ELSE H[walk[k - 1]].next
                   IN walk

\* w goes from s through n more free blocks, each the next of the one before.
WalkOK(H, s, n, w) ==
    /\ w \in [0..n -> FreeOf(H)] /\ w[0] = s
    /\ \A k \in 1..n : w[k] = H[w[k - 1]].next

\* There is a walk of any length ...
LEMMA WalkExists ==
    ASSUME NEW H, Shape(H), NEW s \in FreeOf(H), NEW n \in Nat
    PROVE  \E w : WalkOK(H, s, n, w)
<1> DEFINE Bad == {k \in Nat : ~\E w : WalkOK(H, s, k, w)}
<1> SUFFICES ASSUME Bad # {} PROVE FALSE
  OBVIOUS
<1>1. PICK k \in Bad : \A m \in Bad : k <= m
  BY NatMin
<1>2. \A f \in FreeOf(H) : H[f].next \in FreeOf(H)
  BY ShapeFacts
<1>3. k # 0
  <2> DEFINE w == [i \in 0..0 |-> s]
  <2>1. WalkOK(H, s, 0, w)
    BY DEF WalkOK
  <2> QED
    BY <2>1
<1>4. k - 1 \in Nat /\ k - 1 \notin Bad
  BY <1>1, <1>3
<1>5. PICK w : WalkOK(H, s, k - 1, w)
  BY <1>4
<1> DEFINE v == [i \in 0..k |-> IF i = k THEN H[w[k - 1]].next ELSE w[i]]
<1>6. WalkOK(H, s, k, v)
  <2>1. w[k - 1] \in FreeOf(H) /\ \A i \in 0..k : i # k => w[i] \in FreeOf(H)
    <3>1. w \in [0..k - 1 -> FreeOf(H)] /\ k - 1 \in 0..k - 1
      BY <1>4, <1>5 DEF WalkOK
    <3>2. \A i \in 0..k : i # k => i \in 0..k - 1
      BY <1>4
    <3> QED
      BY <3>1, <3>2
  <2>2. v \in [0..k -> FreeOf(H)]
    BY <1>2, <2>1
  <2>3. v[0] = s
    BY <1>3, <1>5 DEF WalkOK
  <2>4. \A i \in 1..k : v[i] = H[v[i - 1]].next
    <3> TAKE i \in 1..k
    <3>1. i - 1 \in 0..k /\ i - 1 # k
      OBVIOUS
    <3>2. i # k => w[i] = H[w[i - 1]].next
      BY <1>5, <1>4 DEF WalkOK
    <3> QED
      BY <3>1, <3>2
  <2> QED
    BY <2>2, <2>3, <2>4 DEF WalkOK
<1> QED
  BY <1>6

\* ... so the function that Ring chooses is one.
LEMMA RingWalks ==
    ASSUME NEW H, Shape(H), NEW s \in FreeOf(H), NEW n \in Nat, NEW u, u = RingOf(H, s, n)
    PROVE  WalkOK(H, s, n, u)
<1> DEFINE Body(w) == [k \in 0..n |-> IF k = 0 THEN s ELSE H[w[k - 1]].next]
<1>1. PICK w : WalkOK(H, s, n, w)
  BY WalkExists
<1>2. w = Body(w)
  <2>1. w = [k \in 0..n |-> w[k]]
    BY <1>1 DEF WalkOK
  <2>2. \A k \in 0..n : w[k] = IF k = 0 THEN s ELSE H[w[k - 1]].next
    <3> TAKE k \in 0..n
    <3>1. k = 0 \/ k \in 1..n
      OBVIOUS
    <3> QED
      BY <3>1, <1>1 DEF WalkOK
  <2> QED
    BY <2>1, <2>2, Zenon
<1>3. u = CHOOSE f : f = Body(f)
  BY Zenon DEF RingOf
<1> HIDE DEF Body
<1>4. u = Body(u)
  BY <1>2, <1>3, Zenon
<1> USE DEF Body
<1>5. u = [k \in 0..n |-> IF k = 0 THEN s ELSE H[u[k - 1]].next]
  BY <1>4, Zenon
<1> HIDE DEF Body
<1>6. u[0] = s /\ \A k \in 1..n : u[k] = H[u[k - 1]].next
  <2>1. 0 \in 0..n /\ \A k \in 1..n : k \in 0..n /\ k # 0
    OBVIOUS
  <2>2. \A k \in 0..n : u[k] = IF k = 0 THEN s ELSE H[u[k - 1]].next
    BY ONLY <1>5
  <2> QED
    BY ONLY <2>1, <2>2
<1>7. ASSUME NEW k \in 0..n PROVE u[k] \in FreeOf(H)
  <2> DEFINE Bad == {m \in 0..n : u[m] \notin FreeOf(H)}
  <2> SUFFICES ASSUME Bad # {} PROVE FALSE
    OBVIOUS
  <2>0. Bad \in SUBSET Nat
    OBVIOUS
  <2>1. PICK m \in Bad : \A i \in Bad : m <= i
    BY NatMin, <2>0
  <2>2. m # 0
    BY <1>6
  <2>3. m \in 1..n /\ m - 1 \in 0..n /\ m - 1 \notin Bad
    BY <2>1, <2>2
  <2> QED
    BY <2>3, <1>6, ShapeFacts
<1>8. u \in [0..n -> FreeOf(H)]
  BY <1>5, <1>7
<1> QED
  BY <1>6, <1>8 DEF WalkOK

\* Two free blocks have different next ones.
LEMMA NextDiffers ==
    ASSUME NEW H, Shape(H), NEW a \in FreeOf(H), NEW b \in FreeOf(H), H[a].next = H[b].next
    PROVE  a = b
  BY ShapeFacts DEF Shape, NextOK

\* A part of the ring that nothing leads out of is the whole ring.
LEMMA Closed ==
    ASSUME NEW H, Shape(H), NEW S \in SUBSET FreeOf(H), S # {}, \A a \in S : H[a].next \in S
    PROVE  S = FreeOf(H)
<1>0. /\ \A f \in FreeOf(H) : f \in Int /\ f \in DOMAIN H /\ NextOK(H, f) /\ (f # Arena => f \in Nat)
      /\ IsFiniteSet(FreeOf(H)) /\ Arena \in Int
  <2>1. IsFiniteSet(DOMAIN H) /\ FreeOf(H) \subseteq DOMAIN H
    BY DEF Shape, FreeOf
  <2>2. IsFiniteSet(FreeOf(H))
    BY <2>1, FS_Subset
  <2> QED
    BY <2>2, ShapeFacts DEF Shape, FreeOf, Arena
<1>1. Arena \in S
  <2> SUFFICES ASSUME Arena \notin S PROVE FALSE
    OBVIOUS
  <2>1. S \in SUBSET Nat
    BY <1>0
  <2>2. PICK m \in S : \A a \in S : m <= a
    BY <2>1, NatMin
  <2>3. PICK T : T = S \ {m}
    OBVIOUS
  <2>4. IsFiniteSet(S) /\ IsFiniteSet(T) /\ Cardinality(T) < Cardinality(S)
    <3>1. IsFiniteSet(S)
      BY <1>0, FS_Subset
    <3>2. IsFiniteSet(T) /\ Cardinality(T) = Cardinality(S) - 1 /\ Cardinality(S) \in Nat
      BY <2>3, <3>1, FS_RemoveElement, FS_CardinalityType
    <3> QED
      BY <3>1, <3>2
  <2>5. PICK f : f = [a \in S |-> H[a].next]
    OBVIOUS
  <2>6. f \in [S -> T]
    <3>1. \A a \in S : H[a].next \in T
      <4> TAKE a \in S
      <4>1. a < H[a].next
        BY <1>0 DEF NextOK
      <4> QED
        BY <2>1, <2>2, <2>3, <4>1
    <3> QED
      BY <2>5, <3>1
  <2>7. PICK x \in S, y \in S : x # y /\ f[x] = f[y]
    BY ONLY <2>4, <2>6, FS_PigeonHole
  <2> QED
    BY <2>5, <2>7, NextDiffers
<1>2. ASSUME NEW m \in FreeOf(H), m \notin S PROVE FALSE
  <2>1. PICK L : L = {a \in S : a < m}
    OBVIOUS
  <2>2. Arena \in L
    BY <1>0, <1>1, <1>2, <2>1 DEF Arena
  <2>3. L \in SUBSET Int /\ m \in Int /\ \A a \in L : a <= m
    BY <1>0, <2>1
  <2>4. PICK t \in L : \A a \in L : a <= t
    BY <2>2, <2>3, IntMax
  <2>5. t \in S /\ t < m /\ H[t].next \in S /\ NextOK(H, t)
    BY <1>0, <2>1
  <2>6. CASE t < H[t].next /\ \A f \in FreeOf(H) : f <= t \/ H[t].next <= f
    <3>1. H[t].next <= m /\ H[t].next # m
      BY <1>0, <1>2, <2>3, <2>5, <2>6
    <3>2. H[t].next \in L
      <4>1. H[t].next \in Int /\ H[t].next \in S
        BY <1>0, <2>5
      <4>2. H[t].next < m
        BY ONLY <2>3, <3>1, <4>1
      <4> QED
        BY ONLY <2>1, <4>1, <4>2
    <3> QED
      BY <1>0, <2>3, <2>4, <2>5, <2>6, <3>2
  <2>7. CASE H[t].next = Arena /\ \A f \in FreeOf(H) : f <= t
    BY <1>0, <2>3, <2>5, <2>7
  <2> QED
    BY <2>5, <2>6, <2>7 DEF NextOK
<1> QED
  BY <1>2

\* As many steps as there are free blocks come to every one of them.
LEMMA RingAll ==
    ASSUME NEW H, Shape(H), NEW s, NEW n, n = Cardinality(FreeOf(H)), NEW w, WalkOK(H, s, n, w)
    PROVE  \A f \in FreeOf(H) : \E k \in 1..n : w[k] = f
<1>1. IsFiniteSet(FreeOf(H)) /\ n \in Nat
  <2>1. IsFiniteSet(DOMAIN H) /\ FreeOf(H) \subseteq DOMAIN H
    BY DEF Shape, FreeOf
  <2> QED
    BY <2>1, FS_Subset, FS_CardinalityType
<1>2. IsFiniteSet(0..n) /\ Cardinality(0..n) = n + 1
  BY <1>1, FS_Interval
<1>3. PICK x \in 0..n, y \in 0..n : x # y /\ w[x] = w[y]
  <2>1. w \in [0..n -> FreeOf(H)] /\ Cardinality(FreeOf(H)) < Cardinality(0..n)
    BY <1>1, <1>2 DEF WalkOK
  <2> QED
    BY ONLY <1>1, <1>2, <2>1, FS_PigeonHole
<1>4. PICK i \in 0..n, j \in 0..n : i < j /\ w[i] = w[j]
  <2>1. x < y \/ y < x
    BY <1>1, <1>3
  <2> QED
    BY <1>3, <2>1
<1>5. PICK S : S = {w[k] : k \in (i + 1)..j}
  OBVIOUS
<1>6. S \in SUBSET FreeOf(H)
  BY <1>1, <1>5 DEF WalkOK
<1>7. S # {}
  BY <1>1, <1>4, <1>5
<1>8. ASSUME NEW a \in S PROVE H[a].next \in S
  <2>1. PICK k \in (i + 1)..j : a = w[k]
    BY <1>5
  <2>2. CASE k = j
    <3>1. i + 1 \in 1..n /\ i + 1 \in (i + 1)..j /\ (i + 1) - 1 = i
      BY <1>1, <1>4
    <3>2. w[i + 1] = H[w[i]].next
      BY <3>1 DEF WalkOK
    <3> QED
      BY <1>4, <1>5, <2>1, <2>2, <3>1, <3>2
  <2>3. CASE k # j
    <3>1. k + 1 \in 1..n /\ k + 1 \in (i + 1)..j /\ (k + 1) - 1 = k
      BY <1>1, <1>4, <2>3
    <3>2. w[k + 1] = H[w[k]].next
      BY <3>1 DEF WalkOK
    <3> QED
      BY <1>5, <2>1, <3>1, <3>2
  <2> QED
    BY <2>2, <2>3
<1>9. S = FreeOf(H)
  BY <1>6, <1>7, <1>8, Closed
<1>10. \A k \in (i + 1)..j : k \in 1..n
  BY <1>1, <1>4
<1> QED
  BY <1>5, <1>9, <1>10

\* Where slob_free puts b.
SpotOf(H, w, b) ==
    LET Behind(cur) == LET next == H[cur].next
                       IN \/ b > cur /\ b < next
                          \/ cur >= next /\ (b > cur \/ b < next)
    IN w[Min({k \in DOMAIN w : Behind(w[k])})]

\* The search of slob_free ends at the free block before the one that is freed.
LEMMA Spots ==
    ASSUME NEW H, Shape(H), NEW s, NEW n, n = Cardinality(FreeOf(H)), NEW w, WalkOK(H, s, n, w),
           NEW b \in Nat, b \notin FreeOf(H), NEW c, c = SpotOf(H, w, b)
    PROVE  Before(H, c, b)
<1> DEFINE Behind(cur) == \/ b > cur /\ b < H[cur].next
                          \/ cur >= H[cur].next /\ (b > cur \/ b < H[cur].next)
<1>0. /\ \A f \in FreeOf(H) : f \in Int /\ NextOK(H, f) /\ H[f].next \in Int
      /\ Arena \in FreeOf(H) /\ Arena < b /\ n \in Nat
  <2>1. IsFiniteSet(DOMAIN H) /\ FreeOf(H) \subseteq DOMAIN H
    BY DEF Shape, FreeOf
  <2>2. n \in Nat
    BY <2>1, FS_Subset, FS_CardinalityType
  <2>3. ASSUME NEW f \in FreeOf(H) PROVE f \in Int /\ NextOK(H, f) /\ H[f].next \in Int
    <3>1. f \in DOMAIN H /\ H[f].next \in FreeOf(H) /\ H[f].next \in DOMAIN H
      BY ShapeFacts
    <3> QED
      BY <3>1, ShapeFacts DEF Shape
  <2>4. Arena \in FreeOf(H) /\ Arena < b
    BY DEF Shape, Arena
  <2> QED
    BY <2>2, <2>3, <2>4
<1>1. \A f \in FreeOf(H) : Behind(f) => Before(H, f, b)
  <2> SUFFICES ASSUME NEW f \in FreeOf(H), Behind(f) PROVE Before(H, f, b)
    OBVIOUS
  <2>1. CASE f < H[f].next /\ \A g \in FreeOf(H) : g <= f \/ H[f].next <= g
    BY <1>0, <2>1 DEF Before
  <2>2. CASE H[f].next = Arena /\ \A g \in FreeOf(H) : g <= f
    BY <1>0, <2>2 DEF Before
  <2> QED
    BY <1>0, <2>1, <2>2 DEF NextOK
<1>2. PICK t \in FreeOf(H) : t < b /\ \A f \in FreeOf(H) : f < b => f <= t
  <2>1. PICK L : L = {a \in FreeOf(H) : a < b}
    OBVIOUS
  <2>2. L \in SUBSET Int /\ L # {} /\ b \in Int /\ \A a \in L : a <= b
    BY <1>0, <2>1
  <2> QED
    BY <2>1, <2>2, IntMax
<1>3. Behind(t)
  <2>1. CASE t < H[t].next
    <3>1. H[t].next \in FreeOf(H)
      BY ShapeFacts
    <3> QED
      BY <1>0, <1>2, <2>1, <3>1
  <2>2. CASE ~(t < H[t].next)
    BY <1>0, <1>2, <2>2
  <2> QED
    BY <2>1, <2>2
<1>4. PICK K : K = {k \in DOMAIN w : Behind(w[k])}
  OBVIOUS
<1>5. DOMAIN w = 0..n /\ \A k \in DOMAIN w : w[k] \in FreeOf(H)
  BY DEF WalkOK
<1>6. K \in SUBSET Nat /\ K # {}
  <2>1. PICK k \in 1..n : w[k] = t
    BY RingAll
  <2>2. k \in DOMAIN w
    BY <1>0, <1>5
  <2>3. K \subseteq DOMAIN w
    BY <1>4
  <2> QED
    BY <1>0, <1>3, <1>4, <1>5, <2>1, <2>2, <2>3
<1>7. PICK m : m = Min(K) /\ m \in K
  BY <1>6, NatMin
<1>8. c = w[m]
  BY <1>4, <1>7, Zenon DEF SpotOf
<1> QED
  BY <1>1, <1>4, <1>5, <1>7, <1>8

\* The free blocks that have room, by their place in the walk.
FitOf(H, w, u) == {k \in DOMAIN w : k > 0 /\ H[w[k]].units >= u}

\* The search finds one if there is one.
LEMMA FitFinds ==
    ASSUME NEW H, Shape(H), NEW s, NEW n, n = Cardinality(FreeOf(H)), NEW w, WalkOK(H, s, n, w),
           NEW u, NEW c \in FreeOf(H), H[c].units >= u
    PROVE  FitOf(H, w, u) # {}
<1>1. n \in Nat
  <2>1. IsFiniteSet(DOMAIN H) /\ FreeOf(H) \subseteq DOMAIN H
    BY DEF Shape, FreeOf
  <2> QED
    BY <2>1, FS_Subset, FS_CardinalityType
<1>2. PICK k \in 1..n : w[k] = c
  BY RingAll
<1>3. k \in DOMAIN w /\ k > 0
  BY <1>1 DEF WalkOK
<1> QED
  BY <1>2, <1>3 DEF FitOf

\* The search of slob_alloc ends at a block with room, behind its predecessor.
LEMMA Fits ==
    ASSUME NEW H, Shape(H), NEW s, NEW n \in Nat, NEW w, WalkOK(H, s, n, w),
           NEW u \in Nat, u > 1, FitOf(H, w, u) # {}, NEW k, k = Min(FitOf(H, w, u))
    PROVE  Takes(H, w[k], w[k - 1], u)
<1>1. DOMAIN w = 0..n /\ \A i \in 0..n : w[i] \in FreeOf(H)
  BY DEF WalkOK
<1>2. PICK K : K = FitOf(H, w, u) /\ K \in SUBSET Nat /\ K # {}
  <2>1. FitOf(H, w, u) \subseteq 0..n
    BY ONLY <1>1 DEF FitOf
  <2> QED
    BY <2>1
<1>3. k \in K
  BY <1>2, NatMin
<1>4. k \in 1..n /\ k - 1 \in 0..n /\ k \in 0..n /\ H[w[k]].units >= u
  BY <1>1, <1>2, <1>3 DEF FitOf
<1>5. w[k] = H[w[k - 1]].next /\ w[k - 1] \in FreeOf(H)
  BY <1>1, <1>4 DEF WalkOK
<1>6. w[k] # Arena
  BY <1>4 DEF Shape
<1> QED
  BY <1>4, <1>5, <1>6 DEF Takes

-----------------------------------------------------------------------------
(* slob_free and slob_alloc.                                               *)

RingOK == Shape(heap) /\ slobfree \in FreeOf(heap)

\* The ring of the state is the walk over its free blocks.
LEMMA RingIs ==
    ASSUME RingOK, NEW H, H = heap, NEW n, n = Cardinality(FreeOf(H))
    PROVE  /\ FreeBlocks = FreeOf(H) /\ n \in Nat
           /\ Ring = RingOf(H, slobfree, n) /\ WalkOK(H, slobfree, n, Ring)
<1>1. FreeBlocks = FreeOf(H) /\ FreeBlocks = FreeOf(heap)
  BY DEF FreeBlocks, IsFree, FreeOf
<1>2. n \in Nat
  <2>1. IsFiniteSet(DOMAIN H) /\ FreeOf(H) \subseteq DOMAIN H
    BY DEF RingOK, Shape, FreeOf
  <2> QED
    BY <2>1, FS_Subset, FS_CardinalityType
<1>3. Ring = RingOf(H, slobfree, n)
  BY <1>1, Zenon DEF Ring, RingOf
<1>4. WalkOK(H, slobfree, n, Ring)
  <2>1. Shape(H) /\ slobfree \in FreeOf(H)
    BY DEF RingOK
  <2> QED
    BY ONLY <1>2, <1>3, <2>1, RingWalks
<1> QED
  BY <1>1, <1>2, <1>3, <1>4

\* slob_free finds the place of the block.
LEMMA SlobFreeIs ==
    ASSUME RingOK, NEW b \in Nat, b \notin FreeOf(heap), NEW u, SlobFree(b, u)
    PROVE  \E cur : Before(heap, cur, b) /\ heap' = Freed(heap, cur, b, u) /\ slobfree' = cur
<1>1. PICK H, n, w : H = heap /\ n = Cardinality(FreeOf(H)) /\ w = Ring
  OBVIOUS
<1>2. Shape(H) /\ WalkOK(H, slobfree, n, w) /\ b \notin FreeOf(H)
  BY <1>1, RingIs DEF RingOK
<1>3. PICK s : s = slobfree
  OBVIOUS
<1>4. PICK cur : cur = Spot(b) /\ cur = SpotOf(H, w, b)
  BY <1>1, Zenon DEF Spot, SpotOf
<1>5. Before(H, cur, b)
  BY <1>1, <1>2, <1>3, <1>4, Spots
<1>6. heap' = Freed(heap, cur, b, u) /\ slobfree' = cur
  <2>1. heap' = Freed(heap, Spot(b), b, u) /\ slobfree' = Spot(b)
    BY DEF SlobFree, JoinsAbove, Freed
  <2> QED
    BY ONLY <1>4, <2>1
<1> QED
  BY <1>1, <1>5, <1>6

\* slob_free, in a step.
LEMMA SlobFrees ==
    ASSUME RingOK, NEW b \in Nat, NEW u \in Nat \ {0}, b \notin FreeOf(heap), SlobFree(b, u),
           \A x \in DOMAIN heap \ {b} : End(heap, x) <= b \/ b + u <= x,
           b \in DOMAIN heap => heap[b].units = u
    PROVE  RingOK' /\ \E cur : FreedOK(heap, cur, b, u, heap')
<1>1. PICK cur : Before(heap, cur, b) /\ heap' = Freed(heap, cur, b, u) /\ slobfree' = cur
  BY SlobFreeIs
<1>2. PICK H, G : H = heap /\ G = heap'
  OBVIOUS
<1>3. Frees(H, cur, b, u)
  BY <1>1, <1>2 DEF Frees, RingOK
<1>4. FreedOK(H, cur, b, u, G)
  BY <1>1, <1>2, <1>3, Freeing
<1>5. Shape(G) /\ cur \in FreeOf(G)
  BY <1>4 DEF FreedOK
<1> QED
  BY <1>1, <1>2, <1>4, <1>5 DEF RingOK

\* slob_alloc takes the first block with room.
LEMMA SlobTakes ==
    ASSUME RingOK, NEW cur, NEW u \in Nat, u > 1, Fitting(u) # {}, SlobTake(cur, u)
    PROVE  RingOK' /\ \E prev : TookOK(heap, cur, prev, u, heap')
<1>1. PICK H, n, w, G : H = heap /\ n = Cardinality(FreeOf(H)) /\ w = Ring /\ G = heap'
  OBVIOUS
<1>2. PICK s : s = slobfree
  OBVIOUS
<1>3. Shape(H) /\ WalkOK(H, s, n, w) /\ n \in Nat
  BY <1>1, <1>2, RingIs DEF RingOK
<1>4. Fitting(u) = FitOf(H, w, u)
  BY <1>1 DEF Fitting, FitOf
<1>5. PICK k : k = Min(FitOf(H, w, u))
  OBVIOUS
<1>6. Takes(H, w[k], w[k - 1], u)
  BY <1>3, <1>4, <1>5, Fits
<1>7. cur = w[k] /\ Cut(cur, w[k - 1], u) /\ slobfree' = w[k - 1]
  BY <1>1, <1>4, <1>5 DEF SlobTake
<1>8. PICK prev : prev = w[k - 1]
  OBVIOUS
<1>9. G = CutFrom(H, cur, prev, u)
  <2>1. heap' = CutFrom(heap, cur, w[k - 1], u)
    BY <1>7 DEF Cut, CutFrom
  <2> QED
    BY ONLY <1>1, <1>8, <2>1
<1>10. TookOK(H, cur, prev, u, G)
  BY <1>6, <1>7, <1>8, <1>9, Taking
<1>11. Shape(G) /\ prev \in FreeOf(G)
  BY <1>10 DEF TookOK
<1> QED
  BY <1>1, <1>7, <1>8, <1>10, <1>11 DEF RingOK

-----------------------------------------------------------------------------
(* The heap and what is made of it.                                        *)

\* The pages that are the heap's: not free, and nobody else's.
TakenPages == UNION {Block(t[1], t[2]) : t \in taken}
OnesOf(s) == UNION {Block(s[i].page, Size(s[i])) : i \in 1..Len(s)}
BigOnes == OnesOf(bigblocks)
SlobPages == Pages \ (Free \union TakenPages \union BigOnes)

UnitsIn(P) == {x \in Nat : \E p \in P : p * U <= x /\ x < p * U + U}
CoverOK == Cover(heap) = UnitsIn(SlobPages)

\* The blocks that hold a bigblock_t, of the list or of the call that runs.
BoxUnits == SLOB_UNITS(BIGBLOCK)
Boxes == {bigblocks[i].bb : i \in 1..Len(bigblocks)}
            \union IF call.op = "pages" THEN {call.bb} ELSE {}
BoxesOK ==
    /\ \A x \in Boxes : x \in InUse(heap) /\ heap[x].units = BoxUnits
    /\ \A i, j \in 1..Len(bigblocks) : i # j => bigblocks[i].bb # bigblocks[j].bb
    /\ call.op = "pages" => \A i \in 1..Len(bigblocks) : bigblocks[i].bb # call.bb

\* c is the body of the block h, or the pages of the big block r.
SmallOf(H, h, c) ==
    h \in InUse(H) /\ c.at = (h + 1) * UNIT /\ (H[h].units - 1) * UNIT >= c.size
BigOf(r, c) == c.at = r.page * PAGE /\ Size(r) * PAGE >= c.size

HeldOK ==
    /\ held \subseteq [at : Nat, size : Sizes]
    /\ \A c, d \in held : c.at = d.at => c = d
    /\ \A c \in held : \/ \E i \in 1..Len(bigblocks) : BigOf(bigblocks[i], c)
                       \/ \E h \in InUse(heap) \ Boxes : SmallOf(heap, h, c)

\* No block in use is lost, unless the kernel has stopped.
UsedOK == call # Halted => \A h \in InUse(heap) :
              h \in Boxes \/ \E c \in held : SmallOf(heap, h, c)

HeapInv == RingOK /\ CoverOK /\ BoxesOK /\ HeldOK /\ UsedOK

\* Multiples of k are k apart.
LEMMA Spread ==
    ASSUME NEW k \in Nat, NEW p \in Nat, NEW q \in Nat, p < q
    PROVE  p * k + k <= q * k
<1>1. PICK d \in Nat : q = p + 1 + d
  <2>1. q - p - 1 \in Nat /\ q = p + 1 + (q - p - 1)
    OBVIOUS
  <2> QED
    BY <2>1
<1>2. q * k = p * k + k + d * k /\ d * k \in Nat
  BY <1>1
<1> QED
  BY <1>2

\* A factor can be cancelled.
LEMMA Cancel ==
    ASSUME NEW k \in Nat \ {0}, NEW p \in Nat, NEW q \in Nat, p * k = q * k
    PROVE  p = q
<1>0. p * k \in Nat /\ q * k \in Nat
  OBVIOUS
<1>1. CASE p < q
  <2>1. p * k + k <= q * k
    BY <1>1, Spread
  <2> QED
    BY <1>0, <2>1
<1>2. CASE q < p
  <2>1. q * k + k <= p * k
    BY <1>2, Spread
  <2> QED
    BY <1>0, <2>1
<1> QED
  BY <1>1, <1>2

\* A unit is in one page.
LEMMA OnePage ==
    ASSUME NEW p \in Nat, NEW q \in Nat, NEW x \in Nat,
           p * U <= x, x < p * U + U, q * U <= x, x < q * U + U
    PROVE  p = q
<1>0. U \in Nat /\ p * U \in Nat /\ q * U \in Nat
  BY UnitsInPage
<1>1. CASE p < q
  <2>1. p * U + U <= q * U
    BY <1>0, <1>1, Spread
  <2> QED
    BY <1>0, <2>1
<1>2. CASE q < p
  <2>1. q * U + U <= p * U
    BY <1>0, <1>2, Spread
  <2> QED
    BY <1>0, <2>1
<1> QED
  BY <1>1, <1>2

\* The heap's pages are pages, and numbers.
LEMMA SlobPagesType == SlobPages \in SUBSET Pages /\ Pages \in SUBSET Nat
  BY FirstFitConstants DEF SlobPages, Pages

\* One page more is its units more.
LEMMA UnitsMore ==
    ASSUME NEW P \in SUBSET Nat, NEW p \in Nat
    PROVE  UnitsIn(P \union {p}) = UnitsIn(P) \union (p * U)..(p * U + U - 1)
<1>1. U \in Nat \ {0} /\ p * U \in Nat
  BY UnitsInPage
<1>2. PICK b \in Nat : b = p * U
  BY <1>1
<1>3. \A x : x \in b..(b + U - 1) <=> x \in Nat /\ b <= x /\ x < b + U
  BY <1>1
<1> QED
  BY <1>2, <1>3 DEF UnitsIn

\* No block of the heap touches a page that is not the heap's.
LEMMA OffHeap ==
    ASSUME NEW H, Shape(H), NEW P \in SUBSET Nat, Cover(H) = UnitsIn(P),
           NEW p \in Nat, p \notin P, NEW b, b = p * U
    PROVE  /\ b \in Nat /\ b \notin DOMAIN H
           /\ \A x \in DOMAIN H : End(H, x) <= b \/ b + U <= x
           /\ \A x \in Cover(H) : ~(b <= x /\ x < b + U)
<1>1. U \in Nat \ {0} /\ b \in Nat /\ p \in Nat
  BY UnitsInPage
<1>2. ASSUME NEW x \in Cover(H), b <= x, x < b + U PROVE FALSE
  <2>1. x \in Nat /\ x \in UnitsIn(P)
    BY DEF Cover
  <2>2. PICK q \in P : q * U <= x /\ x < q * U + U
    BY <2>1 DEF UnitsIn
  <2>3. q \in Nat
    OBVIOUS
  <2>4. p = q
    BY <1>1, <1>2, <2>1, <2>2, <2>3, OnePage
  <2> QED
    BY <2>2, <2>4
<1>3. ASSUME NEW x \in DOMAIN H, ~(End(H, x) <= b), ~(b + U <= x) PROVE FALSE
  <2>1. x \in Int /\ (x # Arena => x \in Nat) /\ End(H, x) \in Int /\ x < End(H, x)
        /\ End(H, Arena) = -1
    BY ShapeFacts
  <2>2. x # Arena /\ x \in Nat
    BY <1>1, <1>3, <2>1
  <2>3. PICK y \in Nat : y = IF x < b THEN b ELSE x
    BY <1>1, <2>2
  <2>4. x <= y /\ y < End(H, x) /\ b <= y /\ y < b + U
    <3>1. CASE x < b
      BY <1>1, <1>3, <2>1, <2>2, <2>3, <3>1
    <3>2. CASE ~(x < b)
      BY <1>1, <1>3, <2>1, <2>2, <2>3, <3>2
    <3> QED
      BY <3>1, <3>2
  <2>5. y \in Cover(H)
    BY <2>2, <2>4 DEF Cover
  <2> QED
    BY <1>2, <2>4, <2>5
<1>4. b \notin DOMAIN H
  <2> SUFFICES ASSUME b \in DOMAIN H PROVE FALSE
    OBVIOUS
  <2>1. b < End(H, b) /\ End(H, b) \in Int
    BY ShapeFacts
  <2>2. ~(End(H, b) <= b) /\ ~(b + U <= b)
    BY <1>1, <2>1
  <2> QED
    BY <1>3, <2>2
<1> QED
  BY <1>1, <1>2, <1>3, <1>4

\* The body of a block in use is at no page of another's.
LEMMA Body ==
    ASSUME NEW H, Shape(H), NEW P \in SUBSET Nat, Cover(H) = UnitsIn(P),
           NEW p \in Nat, p \notin P, NEW h \in InUse(H), H[h].units >= 2
    PROVE  (h + 1) * UNIT # p * PAGE
<1>1. h \in DOMAIN H /\ h # Arena /\ h \in Nat /\ H[h].units \in Nat /\ End(H, h) = h + H[h].units
  <2>1. h \in DOMAIN H /\ h \notin FreeOf(H) /\ Arena \in FreeOf(H)
    BY DEF InUse, Shape
  <2> QED
    BY <2>1, ShapeFacts DEF End
<1>2. h + 1 \in Cover(H)
  BY <1>1 DEF Cover
<1>3. p \in Nat /\ U \in Nat \ {0} /\ UNIT \in Nat \ {0} /\ PAGE = UNIT * U
  BY UnitsInPage
<1>4. PICK b \in Nat : b = p * U
  BY <1>3
<1>5. h + 1 # b
  BY <1>2, <1>3, <1>4, OffHeap
<1>6. p * PAGE = b * UNIT
  BY <1>3, <1>4
<1>7. h + 1 \in Nat
  BY <1>1
<1> QED
  BY <1>3, <1>4, <1>5, <1>6, <1>7, Cancel

\* The pages of big blocks, one by one.
LEMMA OnesAre ==
    ASSUME NEW s, NEW q
    PROVE  q \in OnesOf(s) <=> \E i \in 1..Len(s) : q \in Block(s[i].page, Size(s[i]))
  BY Zenon DEF OnesOf

\* The heap's pages change when the ring grows, and only then.
LEMMA SlobSame ==
    ASSUME Free' = Free, UNCHANGED <<taken, bigblocks>>
    PROVE  SlobPages' = SlobPages
  BY DEF SlobPages, TakenPages, BigOnes

\* The page that the ring asks for becomes the heap's.
LEMMA SlobGrow ==
    ASSUME FirstFitOK, PagesOK, NEW p \in Free, Granted(1, p), UNCHANGED <<taken, bigblocks>>
    PROVE  SlobPages' = SlobPages \union {p} /\ p \notin SlobPages /\ p \in Pages
<1>1. Free' = Free \ {p}
  <2>1. \A q \in Free : q \in Int
    BY FreeIndex, FirstFitConstants DEF FirstFitOK, Pages
  <2>2. Block(p, 1) = {p}
    BY <2>1 DEF Block
  <2> QED
    BY <2>2 DEF Granted
<1>2. p \in Pages
  BY FreeIndex DEF FirstFitOK
<1>3. p \notin TakenPages
  BY DEF PagesOK, Lent, TakenPages
<1>4. p \notin BigOnes
  BY OnesAre DEF PagesOK, Lent, BigOnes
<1>5. TakenPages' = TakenPages /\ BigOnes' = BigOnes
  BY DEF TakenPages, BigOnes
<1> QED
  BY <1>1, <1>2, <1>3, <1>4, <1>5 DEF SlobPages

\* Pages for another user do not come from the heap.
LEMMA SlobTaken ==
    ASSUME NEW p, NEW n, Free' = Free \ Block(p, n), Block(p, n) \subseteq Free,
           taken' = taken \union {<<p, n>>}, UNCHANGED bigblocks
    PROVE  SlobPages' = SlobPages
<1>1. TakenPages' = TakenPages \union Block(p, n) /\ BigOnes' = BigOnes
  <2>a. PICK e : e = <<p, n>>
    OBVIOUS
  <2>1. e = <<p, n>> /\ e[1] = p /\ e[2] = n
    BY ONLY <2>a
  <2>2. taken' = taken \union {e}
    BY <2>1
  <2> QED
    BY <2>1, <2>2 DEF TakenPages, BigOnes
<1> QED
  BY <1>1 DEF SlobPages

\* Pages for a big block do not come from the heap.
LEMMA SlobBig ==
    ASSUME PagesOK, NEW e \in BigType, Free' = Free \ Block(e.page, Size(e)),
           Block(e.page, Size(e)) \subseteq Free, bigblocks' = <<e>> \o bigblocks, UNCHANGED taken
    PROVE  SlobPages' = SlobPages
<1>1. PICK s, r : s = bigblocks /\ r = bigblocks' /\ r = <<e>> \o s
  OBVIOUS
<1>2. s \in Seq(BigType)
  BY <1>1 DEF PagesOK
<1>3. /\ r \in Seq(BigType) /\ Len(r) = Len(s) + 1 /\ r[1] = e /\ Len(s) \in Nat
      /\ \A j \in 1..Len(r) : j = 1 \/ (j - 1 \in 1..Len(s) /\ r[j] = s[j - 1])
      /\ \A j \in 1..Len(s) : j + 1 \in 1..Len(r) /\ r[j + 1] = s[j]
  BY ONLY <1>1, <1>2, Consed, e \in BigType
<1>4. 1 \in 1..Len(r)
  BY <1>3
<1>5. OnesOf(r) = OnesOf(s) \union Block(e.page, Size(e))
  <2>1. ASSUME NEW q \in OnesOf(r) PROVE q \in OnesOf(s) \/ q \in Block(e.page, Size(e))
    <3>1. PICK i \in 1..Len(r) : q \in Block(r[i].page, Size(r[i]))
      BY <2>1, OnesAre
    <3>2. i = 1 \/ \E k \in 1..Len(s) : r[i] = s[k]
      BY <1>3
    <3> QED
      BY <1>3, <3>1, <3>2, OnesAre
  <2>2. ASSUME NEW q \in OnesOf(s) PROVE q \in OnesOf(r)
    <3>1. PICK i \in 1..Len(s) : q \in Block(s[i].page, Size(s[i]))
      BY <2>2, OnesAre
    <3>2. i + 1 \in 1..Len(r) /\ r[i + 1] = s[i]
      BY <1>3
    <3> QED
      BY <3>1, <3>2, OnesAre
  <2>3. ASSUME NEW q \in Block(e.page, Size(e)) PROVE q \in OnesOf(r)
    BY <1>3, <1>4, <2>3, OnesAre
  <2> QED
    BY <2>1, <2>2, <2>3
<1>6. BigOnes' = BigOnes \union Block(e.page, Size(e)) /\ TakenPages' = TakenPages
  BY <1>1, <1>5 DEF BigOnes, TakenPages
<1> QED
  BY <1>6 DEF SlobPages

\* Pages of another user do not go to the heap.
LEMMA SlobReturned ==
    ASSUME NEW p, NEW n, Free' = Free \union Block(p, n), <<p, n>> \in taken,
           taken' = taken \ {<<p, n>>}, UNCHANGED bigblocks
    PROVE  SlobPages' = SlobPages
<1>1. TakenPages = TakenPages' \union Block(p, n) /\ BigOnes' = BigOnes
  <2>a. PICK e : e = <<p, n>>
    OBVIOUS
  <2>1. e = <<p, n>> /\ e[1] = p /\ e[2] = n
    BY ONLY <2>a
  <2>2. taken' = taken \ {e} /\ e \in taken
    BY <2>1
  <2> QED
    BY <2>1, <2>2 DEF TakenPages, BigOnes
<1> QED
  BY <1>1 DEF SlobPages

\* Pages of a big block do not go to the heap.
LEMMA SlobFreed ==
    ASSUME PagesOK, NEW i \in 1..Len(bigblocks), bigblocks' = RemoveAt(bigblocks, i),
           Free' = Free \union Block(bigblocks[i].page, Size(bigblocks[i])), UNCHANGED taken
    PROVE  SlobPages' = SlobPages
<1>1. PICK s, r : s = bigblocks /\ r = bigblocks' /\ r = RemoveAt(s, i)
  OBVIOUS
<1>2. s \in Seq(BigType) /\ i \in 1..Len(s)
  BY <1>1 DEF PagesOK
<1>3. /\ \A j \in 1..Len(r) : From(j, i) \in 1..Len(s) /\ From(j, i) # i /\ r[j] = s[From(j, i)]
      /\ \A k \in 1..Len(s) : k # i => \E j \in 1..Len(r) : From(j, i) = k
  <2>1. WithoutAt(r, s, i)
    BY ONLY <1>1, <1>2, Removed
  <2> QED
    BY <2>1 DEF WithoutAt
<1>4. OnesOf(s) = OnesOf(r) \union Block(s[i].page, Size(s[i]))
  <2>1. ASSUME NEW q \in OnesOf(s) PROVE q \in OnesOf(r) \/ q \in Block(s[i].page, Size(s[i]))
    <3>1. PICK k \in 1..Len(s) : q \in Block(s[k].page, Size(s[k]))
      BY <2>1, OnesAre
    <3>2. CASE k # i
      <4>1. PICK j \in 1..Len(r) : r[j] = s[k]
        BY <1>3, <3>2
      <4> QED
        BY <3>1, <4>1, OnesAre
    <3> QED
      BY <3>1, <3>2
  <2>2. ASSUME NEW q \in OnesOf(r) PROVE q \in OnesOf(s)
    <3>1. PICK j \in 1..Len(r) : q \in Block(r[j].page, Size(r[j]))
      BY <2>2, OnesAre
    <3>2. PICK k \in 1..Len(s) : r[j] = s[k]
      BY <1>3
    <3> QED
      BY <3>1, <3>2, OnesAre
  <2>3. ASSUME NEW q \in Block(s[i].page, Size(s[i])) PROVE q \in OnesOf(s)
    BY <1>2, <2>3, OnesAre
  <2> QED
    BY <2>1, <2>2, <2>3
<1>5. BigOnes = BigOnes' \union Block(s[i].page, Size(s[i])) /\ TakenPages' = TakenPages
  BY <1>1, <1>4 DEF BigOnes, TakenPages
<1> QED
  BY <1>1, <1>5 DEF SlobPages

\* What is known of the call that runs.
SearchCall ==
    /\ call.units \in Nat /\ call.units > 1 /\ call.units <= U /\ call.size \in Sizes
    /\ call.op = "small" => (call.units - 1) * UNIT >= call.size
    /\ call.op = "big" => call.units = BoxUnits /\ ~Small(call.size)

\* What the fields of a running call are.
LEMMA Calls ==
    ASSUME CallOK
    PROVE  /\ call.op \in {"small", "big"} => SearchCall
           /\ call.op = "pages" => call.size \in Sizes /\ call.bb \in Nat
           /\ call.op = "idle" <=> call = Idle
           /\ call.op = "halted" <=> call = Halted
<1>1. CASE call = Idle \/ call = Halted
  BY <1>1 DEF Idle, Halted
<1>2. CASE \E size \in Sizes :
             call = [op |-> IF Small(size) THEN "small" ELSE "big", size |-> size,
                     units |-> SLOB_UNITS(IF Small(size) THEN size + UNIT ELSE BIGBLOCK)]
  <2>1. PICK size \in Sizes :
             call = [op |-> IF Small(size) THEN "small" ELSE "big", size |-> size,
                     units |-> SLOB_UNITS(IF Small(size) THEN size + UNIT ELSE BIGBLOCK)]
    BY <1>2
  <2>2. /\ UNIT \in Nat \ {0} /\ BIGBLOCK \in Nat \ {0} /\ BIGBLOCK > UNIT /\ BIGBLOCK + UNIT < PAGE
        /\ size \in Nat \ {0} /\ (Small(size) => size + 2 * UNIT < PAGE)
    BY KernelHeapConstants, UnitsInPage
  <2>3. call.op = (IF Small(size) THEN "small" ELSE "big") /\ call.size = size
        /\ call.units = SLOB_UNITS(IF Small(size) THEN size + UNIT ELSE BIGBLOCK)
        /\ call # Idle /\ call # Halted
    BY <2>1 DEF Idle, Halted
  <2>4. CASE Small(size)
    <3>1. PICK m, q : m \in Nat \ {0} /\ m = size + UNIT /\ q = SLOB_UNITS(m)
      BY <2>2
    <3>2. m > UNIT /\ m + UNIT < PAGE
      BY <2>2, <2>4, <3>1
    <3>3. q \in Nat \ {0} /\ q * UNIT >= m /\ q >= 2 /\ q <= U
      BY <3>1, <3>2, Rounded
    <3>4. (q - 1) * UNIT = q * UNIT - UNIT /\ q * UNIT \in Nat
      BY <2>2, <3>3
    <3>5. (q - 1) * UNIT >= size
      BY <2>2, <3>1, <3>3, <3>4
    <3>6. call.op = "small" /\ call.units = q
      BY <2>3, <2>4, <3>1
    <3> QED
      BY <2>3, <3>3, <3>5, <3>6 DEF SearchCall
  <2>5. CASE ~Small(size)
    <3>1. BoxUnits \in Nat \ {0} /\ BoxUnits >= 2 /\ BoxUnits <= U
      BY <2>2, Rounded DEF BoxUnits
    <3>2. call.op = "big" /\ call.units = BoxUnits
      BY <2>3, <2>5 DEF BoxUnits
    <3> QED
      BY <2>3, <2>5, <3>1, <3>2 DEF SearchCall
  <2> QED
    BY <2>4, <2>5
<1>3. CASE \E size \in Sizes, bb \in Nat :
             ~Small(size) /\ call = [op |-> "pages", size |-> size, bb |-> bb]
  <2>1. PICK size \in Sizes, bb \in Nat : call = [op |-> "pages", size |-> size, bb |-> bb]
    BY <1>3
  <2>2. call.op = "pages" /\ call.size = size /\ call.bb = bb
    BY <2>1
  <2> QED
    BY <2>2 DEF Idle, Halted
<1> QED
  BY <1>1, <1>2, <1>3 DEF CallOK

\* The blocks in use when slob_free or slob_alloc has run.
SameUse(S, H, G) == InUse(G) = S /\ \A x \in S : x \in InUse(H) => G[x] = H[x]

\* A block in use is freed: the heap covers the same units with one block less in use.
LEMMA HeapFrees ==
    ASSUME RingOK, NEW h \in InUse(heap), NEW u, u = heap[h].units, SlobFree(h, u)
    PROVE  RingOK' /\ Cover(heap') = Cover(heap) /\ SameUse(InUse(heap) \ {h}, heap, heap')
<1>1. /\ h \in DOMAIN heap /\ h \notin FreeOf(heap) /\ h \in Nat /\ h # Arena /\ u \in Nat \ {0}
      /\ End(heap, h) = h + u
  <2>1. h \in DOMAIN heap /\ h \notin FreeOf(heap) /\ Arena \in FreeOf(heap)
    BY DEF InUse, RingOK, Shape
  <2> QED
    BY <2>1, ShapeFacts DEF RingOK, End
<1>2. \A x \in DOMAIN heap \ {h} : End(heap, x) <= h \/ h + u <= x
  <2> SUFFICES ASSUME NEW x \in DOMAIN heap, x # h PROVE End(heap, x) <= h \/ h + u <= x
    OBVIOUS
  <2>1. x \in Int
    BY ShapeFacts DEF RingOK
  <2>2. CASE x < h
    BY <1>1, <2>2 DEF RingOK, Shape, Tiled
  <2>3. CASE h < x
    <3>1. End(heap, h) <= x
      BY <1>1, <2>3 DEF RingOK, Shape, Tiled
    <3> QED
      BY <1>1, <3>1
  <2> QED
    BY <1>1, <2>1, <2>2, <2>3
<1>3. RingOK' /\ \E cur : FreedOK(heap, cur, h, u, heap')
  BY <1>1, <1>2, SlobFrees
<1>4. /\ Cover(heap') = Cover(heap) \union h..(h + u - 1)
      /\ InUse(heap') = InUse(heap) \ {h} /\ \A x \in InUse(heap') : heap'[x] = heap[x]
  BY <1>3 DEF FreedOK
<1>5. h..(h + u - 1) \subseteq Cover(heap)
  <2> SUFFICES ASSUME NEW x \in h..(h + u - 1) PROVE x \in Cover(heap)
    OBVIOUS
  <2>1. x \in Nat /\ h <= x /\ x < End(heap, h)
    BY <1>1
  <2> QED
    BY <1>1, <2>1 DEF Cover
<1> QED
  BY <1>3, <1>4, <1>5 DEF SameUse

\* The ring grows by a page: the heap covers its units too, and a block has room for them.
LEMMA HeapGrows ==
    ASSUME RingOK, CoverOK, NEW p \in Pages, p \notin SlobPages, SlobFree(p * U, U)
    PROVE  /\ RingOK' /\ Cover(heap') = UnitsIn(SlobPages \union {p})
           /\ SameUse(InUse(heap), heap, heap')
           /\ \E c \in FreeOf(heap') : heap'[c].units >= U
<1>1. PICK b : b = p * U
  OBVIOUS
<1>2. /\ b \in Nat /\ b \notin DOMAIN heap /\ U \in Nat \ {0} /\ SlobFree(b, U)
      /\ \A x \in DOMAIN heap : End(heap, x) <= b \/ b + U <= x
  <2>1. PICK H, P : H = heap /\ P = SlobPages
    OBVIOUS
  <2>2. Shape(H) /\ P \in SUBSET Nat /\ Cover(H) = UnitsIn(P) /\ p \in Nat /\ p \notin P
    BY <2>1, SlobPagesType DEF RingOK, CoverOK
  <2>3. /\ b \in Nat /\ b \notin DOMAIN H
        /\ \A x \in DOMAIN H : End(H, x) <= b \/ b + U <= x
    BY ONLY <1>1, <2>2, OffHeap
  <2> QED
    BY <1>1, <2>1, <2>3, UnitsInPage
<1>3. b \notin FreeOf(heap)
  BY <1>2 DEF FreeOf
<1>4. RingOK' /\ \E cur : FreedOK(heap, cur, b, U, heap')
  BY <1>2, <1>3, SlobFrees
<1>5. /\ Cover(heap') = Cover(heap) \union b..(b + U - 1)
      /\ InUse(heap') = InUse(heap) \ {b} /\ \A x \in InUse(heap') : heap'[x] = heap[x]
      /\ \E c \in FreeOf(heap') : heap'[c].units >= U
  BY <1>4 DEF FreedOK
<1>6. InUse(heap) \ {b} = InUse(heap)
  BY <1>2 DEF InUse
<1>7. UnitsIn(SlobPages \union {p}) = UnitsIn(SlobPages) \union b..(b + U - 1)
  <2>1. SlobPages \in SUBSET Nat /\ p \in Nat
    BY SlobPagesType
  <2> QED
    BY <1>1, <2>1, UnitsMore
<1> QED
  BY <1>4, <1>5, <1>6, <1>7 DEF CoverOK, SameUse

\* A block is taken: the heap covers the same units with one block more in use.
LEMMA HeapTakes ==
    ASSUME RingOK, NEW cur, NEW u \in Nat, u > 1, Fitting(u) # {}, SlobTake(cur, u)
    PROVE  /\ RingOK' /\ Cover(heap') = Cover(heap)
           /\ SameUse(InUse(heap) \union {cur}, heap, heap')
           /\ cur \notin InUse(heap) /\ heap'[cur].units = u /\ cur \in Nat
<1>1. RingOK' /\ \E prev : TookOK(heap, cur, prev, u, heap')
  BY SlobTakes
<1> QED
  BY <1>1 DEF TookOK, SameUse

-----------------------------------------------------------------------------
(* The invariant of the heap, step by step.                                *)

\* The step leaves the heap and what is given out alone.
LEMMA UseKept ==
    ASSUME HeapInv, UNCHANGED <<heap, slobfree, bigblocks, held>>, SlobPages' = SlobPages,
           \/ call' = call
           \/ call'.op # "pages" /\ (call' = Halted \/ (call.op # "pages" /\ call # Halted))
    PROVE  HeapInv'
<1>1. PICK H, s, B, L : H = heap /\ s = slobfree /\ B = bigblocks /\ L = held
  OBVIOUS
<1>2. H = heap' /\ s = slobfree' /\ B = bigblocks' /\ L = held'
  BY <1>1
<1>3. RingOK' /\ CoverOK'
  BY <1>1, <1>2 DEF HeapInv, RingOK, CoverOK
<1>4. Boxes' \subseteq Boxes /\ (call' # Halted => Boxes' = Boxes /\ call # Halted)
  BY <1>1, <1>2 DEF Boxes
<1>5. BoxesOK'
  <2>1. \A x \in Boxes' : x \in InUse(H) /\ H[x].units = BoxUnits
    BY <1>1, <1>4 DEF HeapInv, BoxesOK
  <2>2. /\ \A i, j \in 1..Len(B) : i # j => B[i].bb # B[j].bb
        /\ call'.op = "pages" => \A i \in 1..Len(B) : B[i].bb # call'.bb
    BY <1>1 DEF HeapInv, BoxesOK, Halted
  <2> QED
    BY <1>2, <2>1, <2>2 DEF BoxesOK
<1>6. HeldOK'
  <2>1. /\ L \subseteq [at : Nat, size : Sizes] /\ \A c, d \in L : c.at = d.at => c = d
        /\ \A c \in L : \/ \E i \in 1..Len(B) : BigOf(B[i], c)
                        \/ \E h \in InUse(H) \ Boxes' : SmallOf(H, h, c)
    BY <1>1, <1>4 DEF HeapInv, HeldOK
  <2> QED
    BY <1>2, <2>1 DEF HeldOK
<1>7. UsedOK'
  <2>1. call' # Halted => \A h \in InUse(H) : h \in Boxes' \/ \E c \in L : SmallOf(H, h, c)
    BY <1>1, <1>4 DEF HeapInv, UsedOK
  <2> QED
    BY <1>2, <2>1 DEF UsedOK
<1> QED
  BY <1>3, <1>5, <1>6, <1>7 DEF HeapInv

\* A block that is in use before and after is as it was.
LEMMA SmallSame ==
    ASSUME NEW H, NEW G, NEW S, SameUse(S, H, G), NEW h \in S, h \in InUse(H), NEW c
    PROVE  SmallOf(H, h, c) <=> SmallOf(G, h, c)
  BY DEF SmallOf, SameUse

\* The ring grows by a page: whoever has a block keeps it.
LEMMA StepGrow ==
    ASSUME HeapInv, RingOK', SameUse(InUse(heap), heap, heap'), CoverOK',
           UNCHANGED <<bigblocks, held, call>>
    PROVE  HeapInv'
<1>1. PICK H, G, B, L : H = heap /\ G = heap' /\ B = bigblocks /\ L = held
  OBVIOUS
<1>2. B = bigblocks' /\ L = held' /\ InUse(G) = InUse(H) /\ SameUse(InUse(H), H, G)
  BY <1>1 DEF SameUse
<1>3. Boxes' = Boxes
  BY DEF Boxes
<1>4. BoxesOK'
  <2>1. \A x \in Boxes : x \in InUse(G) /\ G[x].units = BoxUnits
    BY <1>1, <1>2 DEF HeapInv, BoxesOK, SameUse
  <2> QED
    BY <1>1, <1>2, <1>3, <2>1 DEF HeapInv, BoxesOK
<1>5. \A h \in InUse(H) : \A c : SmallOf(H, h, c) <=> SmallOf(G, h, c)
  BY <1>2, SmallSame
<1>6. HeldOK'
  <2>1. /\ L \subseteq [at : Nat, size : Sizes] /\ \A c, d \in L : c.at = d.at => c = d
        /\ \A c \in L : \/ \E i \in 1..Len(B) : BigOf(B[i], c)
                        \/ \E h \in InUse(G) \ Boxes : SmallOf(G, h, c)
    BY <1>1, <1>2, <1>5 DEF HeapInv, HeldOK
  <2> QED
    BY <1>1, <1>2, <1>3, <2>1 DEF HeldOK
<1>7. UsedOK'
  <2>1. call # Halted => \A h \in InUse(G) : h \in Boxes \/ \E c \in L : SmallOf(G, h, c)
    BY <1>1, <1>2, <1>5 DEF HeapInv, UsedOK
  <2> QED
    BY <1>1, <1>2, <1>3, <2>1 DEF UsedOK
<1> QED
  BY <1>4, <1>6, <1>7 DEF HeapInv

\* The pages of big blocks are not the heap's.
LEMMA BigOff ==
    ASSUME PagesOK, NEW i \in 1..Len(bigblocks)
    PROVE  bigblocks[i].page \in Pages /\ bigblocks[i].page \notin SlobPages
<1>1. PICK r : r = bigblocks[i]
  OBVIOUS
<1>2. r.page \in Pages /\ Size(r) \in Nat \ {0} /\ r.page \in Nat
  BY <1>1, SlobPagesType DEF PagesOK, Lent
<1>3. r.page \in Block(r.page, Size(r))
  BY <1>2 DEF Block
<1> QED
  BY <1>1, <1>2, <1>3, OnesAre DEF SlobPages, BigOnes

\* The body of a block that was just taken is not what somebody has.
LEMMA BodyIsNew ==
    ASSUME HeapInv, PagesOK, RingOK', CoverOK', SlobPages' = SlobPages, NEW cur,
           SameUse(InUse(heap) \union {cur}, heap, heap'),
           cur \notin InUse(heap), heap'[cur].units \in Nat, heap'[cur].units > 1, cur \in Nat,
           NEW c \in held
    PROVE  c.at # (cur + 1) * UNIT
<1>1. CASE \E i \in 1..Len(bigblocks) : BigOf(bigblocks[i], c)
  <2>1. PICK i \in 1..Len(bigblocks) : c.at = bigblocks[i].page * PAGE
    BY <1>1 DEF BigOf
  <2>2. PICK p \in Pages : p = bigblocks[i].page /\ p \notin SlobPages
    BY BigOff
  <2>3. PICK G, P : G = heap' /\ P = SlobPages
    OBVIOUS
  <2>4. /\ cur \in InUse(G) /\ G[cur].units >= 2 /\ Shape(G)
        /\ P \in SUBSET Nat /\ Cover(G) = UnitsIn(P) /\ p \in Nat /\ p \notin P
    BY <2>2, <2>3, SlobPagesType DEF SameUse, RingOK, CoverOK
  <2>6. (cur + 1) * UNIT # p * PAGE
    BY ONLY <2>4, Body
  <2> QED
    BY <2>1, <2>2, <2>6
<1>2. CASE \E h \in InUse(heap) : SmallOf(heap, h, c)
  <2>1. PICK h \in InUse(heap) : c.at = (h + 1) * UNIT
    BY <1>2 DEF SmallOf
  <2>2. h # cur /\ h \in Nat
    <3>1. h \in DOMAIN heap /\ h \notin FreeOf(heap) /\ Arena \in FreeOf(heap)
      BY DEF InUse, HeapInv, RingOK, Shape
    <3> QED
      BY <3>1, ShapeFacts DEF HeapInv, RingOK
  <2>3. h + 1 \in Nat /\ cur + 1 \in Nat /\ h + 1 # cur + 1 /\ UNIT \in Nat \ {0}
    BY <2>2, UnitsInPage
  <2> QED
    BY <2>1, <2>3, Cancel
<1> QED
  BY <1>1, <1>2 DEF HeapInv, HeldOK

\* A small block is given out.
LEMMA StepSmall ==
    ASSUME HeapInv, PagesOK, CallOK, SmallReturn
    PROVE  HeapInv'
<1>1. PICK cur \in FreeBlocks :
         SlobTake(cur, call.units) /\ held' = held \union {[at |-> (cur + 1) * UNIT, size |-> call.size]}
  BY DEF SmallReturn
<1>2. PICK u, z : u = call.units /\ z = call.size
  OBVIOUS
<1>3. /\ u \in Nat /\ u > 1 /\ z \in Sizes /\ (u - 1) * UNIT >= z /\ Fitting(u) # {} /\ SlobTake(cur, u)
      /\ call.op = "small" /\ call # Halted /\ call' = Idle /\ UNCHANGED <<bigblocks, taken>>
      /\ Free' = Free
  BY <1>1, <1>2, Calls DEF SmallReturn, SearchCall, pageVars, Free
<1>4. /\ RingOK' /\ Cover(heap') = Cover(heap) /\ SameUse(InUse(heap) \union {cur}, heap, heap')
      /\ cur \notin InUse(heap) /\ heap'[cur].units = u /\ cur \in Nat
  BY <1>3, HeapTakes DEF HeapInv
<1>5. SlobPages' = SlobPages /\ CoverOK'
  BY <1>3, <1>4, SlobSame DEF HeapInv, CoverOK
<1>6. PICK H, G, B, L, n : /\ H = heap /\ G = heap' /\ B = bigblocks /\ L = held
                           /\ n = [at |-> (cur + 1) * UNIT, size |-> z]
  OBVIOUS
<1>7. /\ B = bigblocks' /\ held' = L \union {n} /\ SameUse(InUse(H) \union {cur}, H, G)
      /\ InUse(G) = InUse(H) \union {cur} /\ cur \notin InUse(H)
      /\ n \in [at : Nat, size : Sizes] /\ n.at = (cur + 1) * UNIT /\ n.size = z
  <2>1. (cur + 1) * UNIT \in Nat
    BY <1>4, UnitsInPage
  <2> QED
    BY <1>1, <1>2, <1>3, <1>4, <1>6, <2>1 DEF SameUse
<1>8. Boxes' = Boxes /\ Boxes \subseteq InUse(H)
  <2>1. Boxes' = Boxes
    BY <1>3 DEF Boxes, Idle
  <2> QED
    BY <1>6, <2>1 DEF HeapInv, BoxesOK
<1>9. \A h \in InUse(H) : \A c : SmallOf(H, h, c) <=> SmallOf(G, h, c)
  BY <1>7, SmallSame
<1>10. SmallOf(G, cur, n) /\ cur \in InUse(G) \ Boxes
  BY <1>3, <1>4, <1>6, <1>7, <1>8 DEF SmallOf
<1>11. BoxesOK'
  <2>1. \A x \in Boxes : x \in InUse(G) /\ G[x].units = BoxUnits
    BY <1>6, <1>7, <1>8 DEF HeapInv, BoxesOK, SameUse
  <2>2. \A i, j \in 1..Len(B) : i # j => B[i].bb # B[j].bb
    BY <1>6 DEF HeapInv, BoxesOK
  <2>3. call'.op # "pages"
    BY <1>3 DEF Idle
  <2> QED
    BY <1>6, <1>7, <1>8, <2>1, <2>2, <2>3 DEF BoxesOK
<1>12. HeldOK'
  <2>1. \A c \in L : c.at # n.at
    BY <1>3, <1>4, <1>5, <1>6, <1>7, BodyIsNew
  <2>2. L \subseteq [at : Nat, size : Sizes] /\ \A c, d \in L : c.at = d.at => c = d
    BY <1>6 DEF HeapInv, HeldOK
  <2>3. ASSUME NEW c \in L
        PROVE  \/ \E i \in 1..Len(B) : BigOf(B[i], c)
               \/ \E h \in InUse(G) \ Boxes : SmallOf(G, h, c)
    <3>1. \/ \E i \in 1..Len(B) : BigOf(B[i], c)
          \/ \E h \in InUse(H) \ Boxes : SmallOf(H, h, c)
      BY <1>6 DEF HeapInv, HeldOK
    <3> QED
      BY <1>7, <1>9, <3>1
  <2>4. \A c, d \in L \union {n} : c.at = d.at => c = d
    BY <2>1, <2>2
  <2>5. \A c \in L \union {n} : \/ \E i \in 1..Len(B) : BigOf(B[i], c)
                                \/ \E h \in InUse(G) \ Boxes : SmallOf(G, h, c)
    BY <1>10, <2>3
  <2> QED
    BY <1>6, <1>7, <1>8, <2>2, <2>4, <2>5 DEF HeldOK
<1>13. UsedOK'
  <2>1. ASSUME NEW h \in InUse(G) PROVE h \in Boxes \/ \E c \in L \union {n} : SmallOf(G, h, c)
    <3>1. CASE h = cur
      BY <1>10, <3>1
    <3>2. CASE h # cur
      <4>1. h \in Boxes \/ \E c \in L : SmallOf(H, h, c)
        BY <1>3, <1>6, <1>7, <3>2 DEF HeapInv, UsedOK
      <4> QED
        BY <1>7, <1>9, <3>2, <4>1
    <3> QED
      BY <3>1, <3>2
  <2> QED
    BY <1>6, <1>7, <1>8, <2>1 DEF UsedOK
<1> QED
  BY <1>4, <1>5, <1>11, <1>12, <1>13 DEF HeapInv

\* A block for a bigblock_t is taken.
LEMMA StepBox ==
    ASSUME HeapInv, PagesOK, CallOK, BigBlock
    PROVE  HeapInv' /\ CallOK'
<1>1. PICK cur \in FreeBlocks :
         SlobTake(cur, call.units) /\ call' = [op |-> "pages", size |-> call.size, bb |-> cur]
  BY DEF BigBlock
<1>2. PICK u, z : u = call.units /\ z = call.size
  OBVIOUS
<1>3. /\ u \in Nat /\ u > 1 /\ z \in Sizes /\ u = BoxUnits /\ ~Small(z)
      /\ Fitting(u) # {} /\ SlobTake(cur, u)
      /\ call.op = "big" /\ call # Halted /\ UNCHANGED <<bigblocks, held, taken>>
      /\ call' = [op |-> "pages", size |-> z, bb |-> cur]
      /\ Free' = Free
  BY <1>1, <1>2, Calls DEF BigBlock, SearchCall, pageVars, Free
<1>4. /\ RingOK' /\ Cover(heap') = Cover(heap) /\ SameUse(InUse(heap) \union {cur}, heap, heap')
      /\ cur \notin InUse(heap) /\ heap'[cur].units = u /\ cur \in Nat
  BY <1>3, HeapTakes DEF HeapInv
<1>5. SlobPages' = SlobPages /\ CoverOK'
  BY <1>3, <1>4, SlobSame DEF HeapInv, CoverOK
<1>6. PICK H, G, B, L : H = heap /\ G = heap' /\ B = bigblocks /\ L = held
  OBVIOUS
<1>7. /\ B = bigblocks' /\ held' = L /\ SameUse(InUse(H) \union {cur}, H, G)
      /\ InUse(G) = InUse(H) \union {cur} /\ cur \notin InUse(H) /\ G[cur].units = BoxUnits
      /\ call'.op = "pages" /\ call'.bb = cur
  BY <1>3, <1>4, <1>6 DEF SameUse
<1>8. Boxes' = Boxes \union {cur} /\ Boxes \subseteq InUse(H)
      /\ \A i \in 1..Len(B) : B[i].bb \in Boxes
  <2>1. Boxes' = Boxes \union {cur} /\ \A i \in 1..Len(B) : B[i].bb \in Boxes
    BY <1>3, <1>6, <1>7 DEF Boxes
  <2> QED
    BY <1>6, <2>1 DEF HeapInv, BoxesOK
<1>9. \A h \in InUse(H) : \A c : SmallOf(H, h, c) <=> SmallOf(G, h, c)
  BY <1>7, SmallSame
<1>11. BoxesOK'
  <2>1. \A x \in Boxes \union {cur} : x \in InUse(G) /\ G[x].units = BoxUnits
    BY <1>6, <1>7, <1>8 DEF HeapInv, BoxesOK, SameUse
  <2>2. \A i, j \in 1..Len(B) : i # j => B[i].bb # B[j].bb
    BY <1>6 DEF HeapInv, BoxesOK
  <2>3. \A i \in 1..Len(B) : B[i].bb # cur
    BY <1>7, <1>8
  <2> QED
    BY <1>6, <1>7, <1>8, <2>1, <2>2, <2>3 DEF BoxesOK
<1>12. HeldOK'
  <2>2. L \subseteq [at : Nat, size : Sizes] /\ \A c, d \in L : c.at = d.at => c = d
    BY <1>6 DEF HeapInv, HeldOK
  <2>3. ASSUME NEW c \in L
        PROVE  \/ \E i \in 1..Len(B) : BigOf(B[i], c)
               \/ \E h \in InUse(G) \ (Boxes \union {cur}) : SmallOf(G, h, c)
    <3>1. \/ \E i \in 1..Len(B) : BigOf(B[i], c)
          \/ \E h \in InUse(H) \ Boxes : SmallOf(H, h, c)
      BY <1>6 DEF HeapInv, HeldOK
    <3> QED
      BY <1>7, <1>9, <3>1
  <2> QED
    BY <1>6, <1>7, <1>8, <2>2, <2>3 DEF HeldOK
<1>13. UsedOK'
  <2>1. ASSUME NEW h \in InUse(G) PROVE h \in Boxes \union {cur} \/ \E c \in L : SmallOf(G, h, c)
    <3>1. CASE h # cur
      <4>1. h \in Boxes \/ \E c \in L : SmallOf(H, h, c)
        BY <1>3, <1>6, <1>7, <3>1 DEF HeapInv, UsedOK
      <4> QED
        BY <1>7, <1>9, <3>1, <4>1
    <3> QED
      BY <3>1
  <2> QED
    BY <1>6, <1>7, <1>8, <2>1 DEF UsedOK
<1>14. CallOK'
  BY <1>3, <1>4 DEF CallOK
<1> QED
  BY <1>4, <1>5, <1>11, <1>12, <1>13, <1>14 DEF HeapInv

\* A small block is freed.
LEMMA StepSmallFree ==
    ASSUME HeapInv, PagesOK, NEW b \in held, KfreeSmall(b)
    PROVE  HeapInv'
<1>1. PICK H, G, B, L : H = heap /\ G = heap' /\ B = bigblocks /\ L = held
  OBVIOUS
<1>2. /\ call = Idle /\ Big(b) = {} /\ held' = L \ {b} /\ UNCHANGED <<taken, call>> /\ B = bigblocks'
      /\ Free' = Free
  BY <1>1 DEF KfreeSmall, pageVars, Free
<1>3. b \in L /\ L \subseteq [at : Nat, size : Sizes] /\ \A c, d \in L : c.at = d.at => c = d
  BY <1>1 DEF HeapInv, HeldOK
<1>4. ASSUME NEW i \in 1..Len(B), BigOf(B[i], b) PROVE FALSE
  <2>1. PICK p \in Nat : p = B[i].page
    BY <1>1, BigOff, SlobPagesType
  <2>2. b.at = p * PAGE /\ (p * PAGE) % PAGE = 0
    BY <1>4, <2>1, UnitsInPage, Division DEF BigOf
  <2>3. DOMAIN B = 1..Len(B)
    BY <1>1 DEF PagesOK
  <2>4. i \in Big(b)
    BY <1>1, <2>1, <2>2, <2>3 DEF Big
  <2> QED
    BY <1>2, <2>4
<1>5. PICK h \in InUse(H) \ Boxes : SmallOf(H, h, b)
  BY <1>1, <1>3, <1>4 DEF HeapInv, HeldOK
<1>6. h \in Nat /\ b.at = (h + 1) * UNIT
  <2>1. h \in DOMAIN H /\ h \notin FreeOf(H) /\ Arena \in FreeOf(H) /\ Shape(H)
    BY <1>1, <1>5 DEF InUse, RingOK, Shape, HeapInv
  <2> QED
    BY <1>5, <2>1, ShapeFacts DEF SmallOf
<1>7. b.at \div UNIT - 1 = h
  <2>1. PICK k \in Nat : k = h + 1
    BY <1>6
  <2>2. (k * UNIT) \div UNIT = k
    BY <2>1, UnitsInPage, Division
  <2> QED
    BY <1>6, <2>1, <2>2
<1>8. SlobFree(h, heap[h].units)
  BY <1>7 DEF KfreeSmall
<1>9. RingOK' /\ Cover(G) = Cover(H) /\ SameUse(InUse(H) \ {h}, H, G)
  BY <1>1, <1>5, <1>8, HeapFrees DEF HeapInv
<1>10. CoverOK'
  BY <1>1, <1>2, <1>9, SlobSame DEF HeapInv, CoverOK
<1>11. InUse(G) = InUse(H) \ {h} /\ \A x \in InUse(G) : \A c : SmallOf(H, x, c) <=> SmallOf(G, x, c)
  BY <1>9, SmallSame DEF SameUse
<1>12. Boxes' = Boxes /\ Boxes \subseteq InUse(H) /\ h \notin Boxes
  <2>1. Boxes' = Boxes
    BY <1>1, <1>2 DEF Boxes
  <2> QED
    BY <1>1, <1>5, <2>1 DEF HeapInv, BoxesOK
<1>13. BoxesOK'
  <2>1. \A x \in Boxes : x \in InUse(G) /\ G[x].units = BoxUnits
    BY <1>1, <1>9, <1>11, <1>12 DEF HeapInv, BoxesOK, SameUse
  <2> QED
    BY <1>1, <1>2, <1>12, <2>1 DEF HeapInv, BoxesOK
<1>14. \A c \in L : SmallOf(H, h, c) => c = b
  BY <1>3, <1>6 DEF SmallOf
<1>15. HeldOK'
  <2>1. ASSUME NEW c \in L, c # b
        PROVE  \/ \E i \in 1..Len(B) : BigOf(B[i], c)
               \/ \E x \in InUse(G) \ Boxes : SmallOf(G, x, c)
    <3>1. \/ \E i \in 1..Len(B) : BigOf(B[i], c)
          \/ \E x \in InUse(H) \ Boxes : SmallOf(H, x, c)
      BY <1>1 DEF HeapInv, HeldOK
    <3> QED
      BY <1>11, <1>14, <2>1, <3>1
  <2> QED
    BY <1>1, <1>2, <1>3, <1>12, <2>1 DEF HeldOK
<1>16. UsedOK'
  <2>1. ASSUME NEW x \in InUse(G) PROVE x \in Boxes \/ \E c \in L \ {b} : SmallOf(G, x, c)
    <3>1. x \in InUse(H) /\ x # h /\ x \in DOMAIN H
      BY <1>11 DEF InUse
    <3>2. x \in Boxes \/ \E c \in L : SmallOf(H, x, c)
      BY <1>1, <1>2, <3>1 DEF HeapInv, UsedOK, Idle, Halted
    <3>3. ~SmallOf(H, x, b)
      <4>1. x \in Nat
        <5>1. x \notin FreeOf(H) /\ Arena \in FreeOf(H) /\ Shape(H)
          BY <1>1, <3>1 DEF InUse, RingOK, Shape, HeapInv
        <5> QED
          BY <3>1, <5>1, ShapeFacts
      <4>2. x + 1 \in Nat /\ h + 1 \in Nat /\ x + 1 # h + 1 /\ UNIT \in Nat \ {0}
        BY <1>6, <3>1, <4>1, UnitsInPage
      <4> QED
        BY <1>6, <4>2, Cancel DEF SmallOf
    <3> QED
      BY <1>11, <3>2, <3>3
  <2> QED
    BY <1>1, <1>2, <1>12, <2>1 DEF UsedOK
<1> QED
  BY <1>9, <1>10, <1>13, <1>15, <1>16 DEF HeapInv

\* What somebody has is not at a page that is free.
LEMMA PageIsNew ==
    ASSUME HeapInv, PagesOK, FirstFitOK, NEW p \in Free, NEW c \in held
    PROVE  c.at # p * PAGE
<1>1. p \in Nat /\ p \in Pages /\ p \notin SlobPages /\ PAGE \in Nat \ {0}
  BY FreeIndex, SlobPagesType, UnitsInPage DEF FirstFitOK, SlobPages
<1>2. CASE \E i \in 1..Len(bigblocks) : BigOf(bigblocks[i], c)
  <2>1. PICK i \in 1..Len(bigblocks) : c.at = bigblocks[i].page * PAGE
    BY <1>2 DEF BigOf
  <2>2. PICK q \in Nat, m \in Nat \ {0} : q = bigblocks[i].page /\ Lent(q, m)
    BY BigOff, SlobPagesType DEF PagesOK, Lent
  <2>3. q \in Block(q, m)
    BY <2>2 DEF Block
  <2>4. q # p
    BY <2>2, <2>3 DEF Lent
  <2> QED
    BY <1>1, <2>1, <2>2, <2>4, Cancel
<1>3. CASE \E h \in InUse(heap) : SmallOf(heap, h, c)
  <2>a. PICK h \in InUse(heap) : SmallOf(heap, h, c)
    BY <1>3
  <2>b. PICK H, P : H = heap /\ P = SlobPages
    OBVIOUS
  <2>1. h \in InUse(heap) /\ H = heap /\ P = SlobPages /\ SmallOf(heap, h, c)
    BY <2>a, <2>b
  <2>2. c.size \in Nat \ {0}
    BY KernelHeapConstants DEF HeapInv, HeldOK
  <2>3. h \in DOMAIN H /\ Shape(H) /\ UNIT \in Nat
    BY <2>1, UnitsInPage DEF InUse, HeapInv, RingOK
  <2>4. H[h].units \in Nat \ {0}
    BY <2>3, ShapeFacts
  <2>5. H[h].units >= 2
    <3>1. CASE H[h].units = 1
      <4>1. (H[h].units - 1) * UNIT = 0
        BY <2>3, <3>1
      <4> QED
        BY <2>1, <2>2, <4>1 DEF SmallOf
    <3> QED
      BY <2>4, <3>1
  <2>6. /\ Shape(H) /\ P \in SUBSET Nat /\ Cover(H) = UnitsIn(P) /\ p \in Nat /\ p \notin P
        /\ h \in InUse(H) /\ H[h].units >= 2
    BY <1>1, <2>1, <2>3, <2>5, SlobPagesType DEF HeapInv, CoverOK
  <2>7. (h + 1) * UNIT # p * PAGE
    BY ONLY <2>6, Body
  <2> QED
    BY <2>1, <2>7 DEF SmallOf
<1> QED
  BY <1>2, <1>3 DEF HeapInv, HeldOK

\* How many pages the running call asks for.
LEMMA PagesCall ==
    ASSUME CallOK, BigPages, NEW n, n = 2 ^ Order(call.size)
    PROVE  /\ call.op = "pages" /\ call.size \in Sizes /\ call.bb \in Nat
           /\ n \in Nat \ {0} /\ AllocPages(n) /\ n * PAGE >= call.size
           /\ Order(call.size) \in 0..2
<1>1. call.op = "pages" /\ AllocPages(n)
  BY DEF BigPages
<1>2. call.size \in Sizes /\ call.bb \in Nat
  BY <1>1, Calls
<1> QED
  BY <1>1, <1>2, OrderOf

\* A big block has got its pages.
LEMMA StepPagesGot ==
    ASSUME HeapInv, PagesOK, FirstFitOK, CallOK, BigPages, got'.at # None
    PROVE  HeapInv'
<1>1. PICK n, z, bb, k : n = 2 ^ Order(call.size) /\ z = call.size /\ bb = call.bb /\ k = Order(z)
  OBVIOUS
<1>2. /\ call.op = "pages" /\ z \in Sizes /\ bb \in Nat /\ n \in Nat \ {0} /\ AllocPages(n)
      /\ n * PAGE >= z /\ k \in 0..2 /\ n = 2 ^ k
  BY <1>1, PagesCall
<1>3. PICK p \in Free : got'.at = p /\ Granted(n, p) /\ p \in Pages
  BY <1>2, Asking
<1>4. PICK e, x : e = [bb |-> bb, order |-> k, page |-> p] /\ x = [at |-> p * PAGE, size |-> z]
  OBVIOUS
<1>5. /\ bigblocks' = <<e>> \o bigblocks /\ held' = held \union {x} /\ call' = Idle
      /\ UNCHANGED <<heap, slobfree, taken>>
  BY <1>1, <1>3, <1>4 DEF BigPages
<1>6. /\ e \in BigType /\ e.page = p /\ e.bb = bb /\ Size(e) = n
      /\ x.at = p * PAGE /\ x.size = z /\ x \in [at : Nat, size : Sizes]
  <2>1. p \in Nat /\ PAGE \in Nat /\ p * PAGE \in Nat
    BY <1>3, SlobPagesType, UnitsInPage
  <2> QED
    BY <1>2, <1>3, <1>4, <2>1 DEF BigType, Size
<1>7. SlobPages' = SlobPages
  <2>1. Free' = Free \ Block(e.page, Size(e)) /\ Block(e.page, Size(e)) \subseteq Free
    BY <1>3, <1>6 DEF Granted
  <2> QED
    BY <1>5, <1>6, <2>1, SlobBig
<1>8. PICK H, s, r, L : H = heap /\ s = bigblocks /\ r = bigblocks' /\ L = held /\ r = <<e>> \o s
  BY <1>5
<1>9. RingOK' /\ CoverOK'
  BY <1>5, <1>7 DEF HeapInv, RingOK, CoverOK
<1>10. /\ r \in Seq(BigType) /\ Len(r) = Len(s) + 1 /\ r[1] = e /\ Len(s) \in Nat
       /\ \A j \in 1..Len(r) : j = 1 \/ (j - 1 \in 1..Len(s) /\ r[j] = s[j - 1])
       /\ \A j \in 1..Len(s) : j + 1 \in 1..Len(r) /\ r[j + 1] = s[j]
  <2>1. s \in Seq(BigType)
    BY <1>8 DEF PagesOK
  <2> QED
    BY ONLY <1>6, <1>8, <2>1, Consed
<1>11. 1 \in 1..Len(r)
  BY <1>10
<1>12. Boxes' = Boxes
  <2>1. Boxes' = {r[i].bb : i \in 1..Len(r)} /\ Boxes = {s[i].bb : i \in 1..Len(s)} \union {bb}
    BY <1>1, <1>2, <1>5, <1>8 DEF Boxes, Idle
  <2>2. \A i \in 1..Len(r) : r[i].bb = bb \/ \E j \in 1..Len(s) : r[i].bb = s[j].bb
    BY <1>6, <1>10
  <2>3. \A j \in 1..Len(s) : \E i \in 1..Len(r) : r[i].bb = s[j].bb
    BY <1>10
  <2>4. r[1].bb = bb
    BY <1>6, <1>10
  <2> QED
    BY <1>11, <2>1, <2>2, <2>3, <2>4
<1>13. BoxesOK'
  <2>1. \A y \in Boxes : y \in InUse(H) /\ H[y].units = BoxUnits
    BY <1>8 DEF HeapInv, BoxesOK
  <2>2. \A i, j \in 1..Len(s) : i # j => s[i].bb # s[j].bb
    BY <1>8 DEF HeapInv, BoxesOK
  <2>3. \A i \in 1..Len(s) : s[i].bb # bb
    BY <1>1, <1>2, <1>8 DEF HeapInv, BoxesOK
  <2>4. ASSUME NEW i \in 1..Len(r), NEW j \in 1..Len(r), i # j PROVE r[i].bb # r[j].bb
    <3>1. CASE i = 1
      BY <1>6, <1>10, <2>3, <2>4, <3>1
    <3>2. CASE j = 1
      BY <1>6, <1>10, <2>3, <2>4, <3>2
    <3>3. CASE i # 1 /\ j # 1
      <4>1. /\ i - 1 \in 1..Len(s) /\ j - 1 \in 1..Len(s) /\ i - 1 # j - 1
            /\ r[i] = s[i - 1] /\ r[j] = s[j - 1]
        BY <1>10, <2>4, <3>3
      <4> QED
        BY <2>2, <4>1
    <3> QED
      BY <3>1, <3>2, <3>3
  <2>5. call'.op # "pages"
    BY <1>5 DEF Idle
  <2>6. heap' = H /\ bigblocks' = r
    BY <1>5, <1>8
  <2> QED
    BY <1>12, <2>1, <2>4, <2>5, <2>6 DEF BoxesOK
<1>14. HeldOK'
  <2>1. \A c \in L : c.at # x.at
    BY <1>6, <1>8, PageIsNew
  <2>2. L \subseteq [at : Nat, size : Sizes] /\ \A c, d \in L : c.at = d.at => c = d
    BY <1>8 DEF HeapInv, HeldOK
  <2>3. ASSUME NEW c \in L
        PROVE  \/ \E i \in 1..Len(r) : BigOf(r[i], c)
               \/ \E h \in InUse(H) \ Boxes : SmallOf(H, h, c)
    <3>1. \/ \E i \in 1..Len(s) : BigOf(s[i], c)
          \/ \E h \in InUse(H) \ Boxes : SmallOf(H, h, c)
      BY <1>8 DEF HeapInv, HeldOK
    <3>2. CASE \E i \in 1..Len(s) : BigOf(s[i], c)
      <4>1. PICK i \in 1..Len(s) : BigOf(s[i], c)
        BY <3>2
      <4>2. i + 1 \in 1..Len(r) /\ BigOf(r[i + 1], c)
        BY <1>10, <4>1
      <4> QED
        BY <4>2
    <3> QED
      BY <3>1, <3>2
  <2>4. BigOf(r[1], x)
    BY <1>2, <1>6, <1>10, <1>1 DEF BigOf
  <2>5. \A c, d \in L \union {x} : c.at = d.at => c = d
    BY <2>1, <2>2
  <2>6. \A c \in L \union {x} : \/ \E i \in 1..Len(r) : BigOf(r[i], c)
                                \/ \E h \in InUse(H) \ Boxes : SmallOf(H, h, c)
    BY <1>11, <2>3, <2>4
  <2> QED
    BY <1>5, <1>6, <1>8, <1>12, <2>2, <2>5, <2>6 DEF HeldOK
<1>15. UsedOK'
  <2>1. ASSUME NEW h \in InUse(H) PROVE h \in Boxes \/ \E c \in L \union {x} : SmallOf(H, h, c)
    BY <1>2, <1>8 DEF HeapInv, UsedOK, Halted
  <2> QED
    BY <1>5, <1>8, <1>12, <2>1 DEF UsedOK
<1> QED
  BY <1>9, <1>13, <1>14, <1>15 DEF HeapInv

\* A big block has not got its pages: its bigblock_t goes back, or the kernel stops.
LEMMA StepPagesNot ==
    ASSUME HeapInv, PagesOK, FirstFitOK, CallOK, BigPages, got'.at = None
    PROVE  HeapInv'
<1>1. PICK n, bb : n = 2 ^ Order(call.size) /\ bb = call.bb
  OBVIOUS
<1>2. /\ call.op = "pages" /\ bb \in Nat /\ n \in Nat \ {0} /\ AllocPages(n)
  BY <1>1, PagesCall
<1>3. /\ Free' = Free /\ UNCHANGED <<bigblocks, taken, held>>
      /\ \/ GiveBack(bb) /\ call' = Idle
         \/ call' = Halted /\ UNCHANGED <<heap, slobfree>>
  <2>1. Free' = Free
    <3>1. \A p \in Free : p \in Pages /\ p # None
      BY FreeIndex, FirstFitConstants DEF FirstFitOK, Pages
    <3> QED
      BY <1>2, <3>1, Asking
  <2> QED
    BY <1>1, <2>1 DEF BigPages, heapVars
<1>4. SlobPages' = SlobPages
  BY <1>3, SlobSame
<1>5. CASE call' = Halted /\ UNCHANGED <<heap, slobfree>>
  <2>1. call'.op # "pages"
    BY <1>5 DEF Halted
  <2> QED
    BY <1>3, <1>4, <1>5, <2>1, UseKept
<1>6. CASE GiveBack(bb) /\ call' = Idle
  <2>1. PICK H, G, B, L : H = heap /\ G = heap' /\ B = bigblocks /\ L = held
    OBVIOUS
  <2>2. B = bigblocks' /\ L = held'
    BY <1>3, <2>1
  <2>3. /\ bb \in Boxes /\ bb \in InUse(heap) /\ heap[bb].units = BoxUnits
        /\ \A i, j \in 1..Len(B) : i # j => B[i].bb # B[j].bb
        /\ \A i \in 1..Len(B) : B[i].bb # bb
    <3>1. bb \in Boxes
      BY <1>1, <1>2 DEF Boxes
    <3> QED
      BY <1>1, <1>2, <2>1, <3>1 DEF HeapInv, BoxesOK
  <2>4. SlobFree(bb, heap[bb].units)
    BY <1>6, <2>3 DEF GiveBack, BoxUnits
  <2>5. RingOK' /\ Cover(G) = Cover(H) /\ SameUse(InUse(H) \ {bb}, H, G)
    BY <2>1, <2>3, <2>4, HeapFrees DEF HeapInv
  <2>6. CoverOK'
    BY <1>4, <2>1, <2>5 DEF HeapInv, CoverOK
  <2>7. InUse(G) = InUse(H) \ {bb} /\ \A x \in InUse(G) : \A c : SmallOf(H, x, c) <=> SmallOf(G, x, c)
    BY <2>5, SmallSame DEF SameUse
  <2>8. Boxes' = Boxes \ {bb} /\ Boxes \subseteq InUse(H)
    <3>1. Boxes' = {B[i].bb : i \in 1..Len(B)} /\ Boxes = {B[i].bb : i \in 1..Len(B)} \union {bb}
      BY <1>1, <1>2, <1>6, <2>1, <2>2 DEF Boxes, Idle
    <3>2. bb \notin {B[i].bb : i \in 1..Len(B)}
      BY <2>3
    <3> QED
      BY <2>1, <3>1, <3>2 DEF HeapInv, BoxesOK
  <2>9. BoxesOK'
    <3>1. \A x \in Boxes \ {bb} : x \in InUse(G) /\ G[x].units = BoxUnits
      BY <2>1, <2>5, <2>7, <2>8 DEF HeapInv, BoxesOK, SameUse
    <3>2. call'.op # "pages"
      BY <1>6 DEF Idle
    <3> QED
      BY <2>1, <2>2, <2>3, <2>8, <3>1, <3>2 DEF BoxesOK
  <2>10. HeldOK'
    <3>1. ASSUME NEW c \in L
          PROVE  \/ \E i \in 1..Len(B) : BigOf(B[i], c)
                 \/ \E x \in InUse(G) \ (Boxes \ {bb}) : SmallOf(G, x, c)
      <4>1. \/ \E i \in 1..Len(B) : BigOf(B[i], c)
            \/ \E x \in InUse(H) \ Boxes : SmallOf(H, x, c)
        BY <2>1 DEF HeapInv, HeldOK
      <4> QED
        BY <2>3, <2>7, <4>1
    <3>2. L \subseteq [at : Nat, size : Sizes] /\ \A c, d \in L : c.at = d.at => c = d
      BY <2>1 DEF HeapInv, HeldOK
    <3> QED
      BY <2>1, <2>2, <2>8, <3>1, <3>2 DEF HeldOK
  <2>11. UsedOK'
    <3>1. ASSUME NEW x \in InUse(G) PROVE x \in Boxes \ {bb} \/ \E c \in L : SmallOf(G, x, c)
      <4>1. x \in InUse(H) /\ x # bb
        BY <2>7
      <4>2. x \in Boxes \/ \E c \in L : SmallOf(H, x, c)
        BY <1>2, <2>1, <4>1 DEF HeapInv, UsedOK, Halted
      <4> QED
        BY <2>7, <4>1, <4>2
    <3> QED
      BY <2>1, <2>2, <2>8, <3>1 DEF UsedOK
  <2> QED
    BY <2>5, <2>6, <2>9, <2>10, <2>11 DEF HeapInv
<1> QED
  BY <1>3, <1>5, <1>6

\* A big block is freed: its pages and its bigblock_t go back.
LEMMA StepBigFree ==
    ASSUME HeapInv, PageInv, NEW b \in held, KfreeBig(b)
    PROVE  HeapInv'
<1>1. PICK i \in Big(b) : /\ bigblocks' = RemoveAt(bigblocks, i)
                          /\ FreePages(b.at \div PAGE, 2 ^ bigblocks[i].order)
                          /\ SlobFree(bigblocks[i].bb, SLOB_UNITS(BIGBLOCK))
  BY DEF KfreeBig
<1>2. PICK H, G, s, r, L : H = heap /\ G = heap' /\ s = bigblocks /\ r = bigblocks' /\ L = held
  OBVIOUS
<1>3. /\ call = Idle /\ held' = L \ {b} /\ UNCHANGED <<taken, call>>
      /\ r = RemoveAt(s, i)
  BY <1>1, <1>2 DEF KfreeBig
<1>4. /\ i \in 1..Len(s) /\ b.at = s[i].page * PAGE /\ PagesOK
      /\ Free' = Free \union Block(s[i].page, Size(s[i]))
  BY <1>1, <1>2, BigGiven DEF PageInv, Given
<1>5. SlobPages' = SlobPages
  BY <1>1, <1>2, <1>3, <1>4, SlobFreed
<1>6. /\ \A j \in 1..Len(r) : From(j, i) \in 1..Len(s) /\ From(j, i) # i /\ r[j] = s[From(j, i)]
      /\ \A j, k \in 1..Len(r) : j # k => From(j, i) # From(k, i)
      /\ \A k \in 1..Len(s) : k # i => \E j \in 1..Len(r) : From(j, i) = k
  <2>1. s \in Seq(BigType) /\ i \in 1..Len(s)
    BY <1>2, <1>4 DEF PagesOK
  <2>2. WithoutAt(r, s, i)
    BY ONLY <1>3, <2>1, Removed
  <2> QED
    BY <2>2 DEF WithoutAt
<1>7. PICK h : h = s[i].bb
  OBVIOUS
<1>8. /\ Boxes = {s[k].bb : k \in 1..Len(s)} /\ Boxes' = {r[j].bb : j \in 1..Len(r)}
      /\ call.op # "pages" /\ call'.op # "pages" /\ call # Halted
  BY <1>2, <1>3 DEF Boxes, Idle, Halted
<1>9. /\ \A x \in Boxes : x \in InUse(H) /\ H[x].units = BoxUnits
      /\ \A j, k \in 1..Len(s) : j # k => s[j].bb # s[k].bb
      /\ h \in Boxes
  BY <1>2, <1>4, <1>7, <1>8 DEF HeapInv, BoxesOK
<1>10. Boxes' = Boxes \ {h}
  <2>1. \A j \in 1..Len(r) : r[j].bb # h /\ \E k \in 1..Len(s) : r[j].bb = s[k].bb
    BY <1>4, <1>6, <1>7, <1>9
  <2>2. \A k \in 1..Len(s) : s[k].bb # h => \E j \in 1..Len(r) : r[j].bb = s[k].bb
    BY <1>6, <1>7
  <2> QED
    BY <1>8, <2>1, <2>2
<1>11. SlobFree(h, heap[h].units)
  BY <1>1, <1>2, <1>7, <1>9 DEF BoxUnits
<1>12. RingOK' /\ Cover(G) = Cover(H) /\ SameUse(InUse(H) \ {h}, H, G)
  BY <1>2, <1>9, <1>11, HeapFrees DEF HeapInv
<1>13. CoverOK'
  BY <1>2, <1>5, <1>12 DEF HeapInv, CoverOK
<1>14. InUse(G) = InUse(H) \ {h} /\ \A x \in InUse(G) : \A c : SmallOf(H, x, c) <=> SmallOf(G, x, c)
  BY <1>12, SmallSame DEF SameUse
<1>15. BoxesOK'
  <2>1. \A x \in Boxes \ {h} : x \in InUse(G) /\ G[x].units = BoxUnits
    BY <1>9, <1>12, <1>14 DEF SameUse
  <2>2. \A j, k \in 1..Len(r) : j # k => r[j].bb # r[k].bb
    BY <1>6, <1>9
  <2>3. heap' = G /\ bigblocks' = r
    BY <1>2
  <2> QED
    BY <1>8, <1>10, <2>1, <2>2, <2>3 DEF BoxesOK
<1>16. HeldOK'
  <2>0. L \subseteq [at : Nat, size : Sizes] /\ b \in L /\ \A c, d \in L : c.at = d.at => c = d
    BY <1>2 DEF HeapInv, HeldOK
  <2>1. ASSUME NEW c \in L, c # b
        PROVE  \/ \E j \in 1..Len(r) : BigOf(r[j], c)
               \/ \E x \in InUse(G) \ (Boxes \ {h}) : SmallOf(G, x, c)
    <3>1. \/ \E k \in 1..Len(s) : BigOf(s[k], c)
          \/ \E x \in InUse(H) \ Boxes : SmallOf(H, x, c)
      BY <1>2 DEF HeapInv, HeldOK
    <3>2. CASE \E k \in 1..Len(s) : BigOf(s[k], c)
      <4>1. PICK k \in 1..Len(s) : BigOf(s[k], c)
        BY <3>2
      <4>2. k # i
        BY <1>4, <2>0, <2>1, <4>1 DEF BigOf
      <4>3. PICK j \in 1..Len(r) : r[j] = s[k]
        BY <1>6, <4>2
      <4> QED
        BY <4>1, <4>3
    <3>3. CASE \E x \in InUse(H) \ Boxes : SmallOf(H, x, c)
      BY <1>9, <1>14, <3>3
    <3> QED
      BY <3>1, <3>2, <3>3
  <2>2. heap' = G /\ bigblocks' = r
    BY <1>2
  <2> QED
    BY <1>3, <1>10, <2>0, <2>1, <2>2 DEF HeldOK
<1>17. UsedOK'
  <2>1. ASSUME NEW x \in InUse(G) PROVE x \in Boxes \ {h} \/ \E c \in L \ {b} : SmallOf(G, x, c)
    <3>1. x \in InUse(H) /\ x # h
      BY <1>14
    <3>2. x \in Boxes \/ \E c \in L : SmallOf(H, x, c)
      BY <1>2, <1>8, <3>1 DEF HeapInv, UsedOK
    <3>3. ~SmallOf(H, x, b)
      <4> SUFFICES ASSUME SmallOf(H, x, b) PROVE FALSE
        OBVIOUS
      <4>1. PICK p, P : p = s[i].page /\ P = SlobPages
        OBVIOUS
      <4>2. p \in Nat /\ p \notin P /\ P \in SUBSET Nat
        BY <1>2, <1>4, <4>1, BigOff, SlobPagesType
      <4>3. x \in DOMAIN H /\ Shape(H) /\ Cover(H) = UnitsIn(P) /\ UNIT \in Nat
        BY <1>2, <3>1, <4>1, UnitsInPage DEF InUse, HeapInv, RingOK, CoverOK
      <4>4. H[x].units >= 2
        <5>1. b.size \in Nat \ {0}
          BY KernelHeapConstants DEF HeapInv, HeldOK
        <5>2. H[x].units \in Nat \ {0}
          BY <4>3, ShapeFacts
        <5>3. CASE H[x].units = 1
          <6>1. (H[x].units - 1) * UNIT = 0
            BY <4>3, <5>3
          <6> QED
            BY <5>1, <6>1 DEF SmallOf
        <5> QED
          BY <5>2, <5>3
      <4>5. (x + 1) * UNIT # p * PAGE
        BY ONLY <3>1, <4>2, <4>3, <4>4, Body
      <4> QED
        BY <1>4, <4>1, <4>5 DEF SmallOf
    <3> QED
      BY <1>14, <3>1, <3>2, <3>3
  <2>2. heap' = G
    BY <1>2
  <2> QED
    BY <1>3, <1>10, <2>1, <2>2 DEF UsedOK
<1> QED
  BY <1>12, <1>13, <1>15, <1>16, <1>17 DEF HeapInv

\* The ring grows; what it grows by is enough.
LEMMA StepRing ==
    ASSUME HeapInv, PageInv, Grow
    PROVE  HeapInv' /\ (call' = call => Fitting(call.units)' # {})
<1>1. /\ FirstFitOK /\ PagesOK /\ CallOK /\ AllocPages(1) /\ UNCHANGED <<bigblocks, held, taken>>
      /\ 1 \in Nat \ {0} /\ call.op \in {"small", "big"} /\ call # Halted /\ call.op # "pages"
  BY Calls DEF PageInv, Grow, Searching, Halted
<1>2. \/ got'.at = None /\ Free' = Free
      \/ \E p \in Free : got'.at = p /\ p # None /\ p \in Pages /\ Granted(1, p)
  BY <1>1, Asking
<1>3. CASE got'.at = None /\ Free' = Free
  <2>1. call' = Halted /\ UNCHANGED <<heap, slobfree>> /\ SlobPages' = SlobPages
    BY <1>1, <1>3, SlobSame DEF Grow
  <2>2. call'.op # "pages" /\ call' # call
    BY <1>1, <2>1 DEF Halted
  <2> QED
    BY <1>1, <2>1, <2>2, UseKept
<1>4. CASE \E p \in Free : got'.at = p /\ p # None /\ p \in Pages /\ Granted(1, p)
  <2>1. PICK p \in Free : got'.at = p /\ p # None /\ p \in Pages /\ Granted(1, p)
    BY <1>4
  <2>2. SlobPages' = SlobPages \union {p} /\ p \notin SlobPages
    BY <1>1, <2>1, SlobGrow
  <2>3. SlobFree(p * U, U) /\ UNCHANGED call
    BY <2>1 DEF Grow, Addr, U
  <2>4. /\ RingOK' /\ Cover(heap') = UnitsIn(SlobPages \union {p})
        /\ SameUse(InUse(heap), heap, heap')
        /\ \E c \in FreeOf(heap') : heap'[c].units >= U
    BY <2>1, <2>2, <2>3, HeapGrows DEF HeapInv
  <2>5. CoverOK'
    BY <2>2, <2>4 DEF CoverOK
  <2>6. HeapInv'
    BY <1>1, <2>3, <2>4, <2>5, StepGrow
  <2>7. PICK G, s, n, w, u : /\ G = heap' /\ s = slobfree' /\ n = Cardinality(FreeOf(G)) /\ w = Ring'
                             /\ u = call.units
    OBVIOUS
  <2>8. u \in Nat /\ u <= U /\ U \in Nat
    BY <1>1, <2>7, Calls, UnitsInPage DEF SearchCall
  <2>9. PICK c \in FreeOf(G) : G[c].units >= u
    <3>1. PICK c \in FreeOf(G) : G[c].units >= U
      BY <2>4, <2>7
    <3>2. G[c].units \in Nat
      BY <2>4, <2>7, <3>1, ShapeFacts DEF RingOK
    <3> QED
      BY <2>8, <3>1, <3>2
  <2>10. Shape(G) /\ s \in FreeOf(G)
    BY <2>4, <2>7 DEF RingOK
  <2>11. n \in Nat
    <3>1. IsFiniteSet(DOMAIN G) /\ FreeOf(G) \subseteq DOMAIN G
      BY <2>10 DEF Shape, FreeOf
    <3> QED
      BY <2>7, <3>1, FS_Subset, FS_CardinalityType
  <2>12. w = RingOf(G, s, n)
    <3>1. FreeBlocks' = FreeOf(G)
      BY <2>7 DEF FreeBlocks, IsFree, FreeOf
    <3> QED
      BY <2>7, <3>1, Zenon DEF Ring, RingOf
  <2>13. WalkOK(G, s, n, w)
    BY ONLY <2>10, <2>11, <2>12, RingWalks
  <2>14. FitOf(G, w, u) # {}
    BY <2>7, <2>9, <2>10, <2>13, FitFinds
  <2>15. Fitting(call.units)' = FitOf(G, w, u)
    BY <2>3, <2>7 DEF Fitting, FitOf
  <2> QED
    BY <2>6, <2>14, <2>15
<1> QED
  BY <1>2, <1>3, <1>4

\* At first the heap is the arena alone.
LEMMA HeapInit ==
    ASSUME Init, Free = Pages
    PROVE  HeapInv
<1>1. PICK H : H = heap /\ H = [a \in {Arena} |-> [units |-> 1, next |-> Arena]]
  BY DEF Init
<1>2. /\ DOMAIN H = {Arena} /\ H[Arena] = [units |-> 1, next |-> Arena]
      /\ H[Arena].units = 1 /\ H[Arena].next = Arena /\ Arena # None /\ Arena \in Int
      /\ H = [a \in DOMAIN H |-> H[a]] /\ -1 \notin Nat
  BY <1>1, FirstFitConstants DEF Arena
<1>3. FreeOf(H) = {Arena}
  BY <1>2 DEF FreeOf
<1>4. Shape(H)
  <2>1. NextOK(H, Arena)
    BY <1>2, <1>3 DEF NextOK
  <2>2. IsFiniteSet(DOMAIN H)
    <3>1. DOMAIN H = {Arena}
      BY <1>2
    <3>2. IsFiniteSet({Arena})
      BY ONLY FS_Singleton
    <3> QED
      BY ONLY <3>1, <3>2
  <2>3. Tiled(H)
    BY <1>2 DEF Tiled
  <2> QED
    BY <1>2, <1>3, <2>1, <2>2, <2>3 DEF Shape
<1>5. RingOK
  BY <1>1, <1>3, <1>4 DEF RingOK, Init
<1>6. CoverOK
  BY <1>1, <1>2 DEF CoverOK, Cover, UnitsIn, SlobPages
<1>7. PICK B : B = bigblocks /\ B = << >> /\ Len(B) = 0 /\ 1..Len(B) = {}
  <2>1. bigblocks = << >> /\ Len(bigblocks) = 0
    BY DEF Init
  <2> QED
    BY <2>1
<1>8. held = {} /\ call.op # "pages" /\ InUse(H) = {} /\ Boxes = {}
  BY <1>2, <1>3, <1>7 DEF Init, Idle, InUse, Boxes
<1>9. BoxesOK /\ HeldOK /\ UsedOK
  BY <1>1, <1>7, <1>8 DEF BoxesOK, HeldOK, UsedOK
<1> QED
  BY <1>5, <1>6, <1>9 DEF HeapInv

\* A call begins: the heap stays as it was.
LEMMA StepCall ==
    ASSUME HeapInv, CallOK, NEW size \in Sizes, Kmalloc(size)
    PROVE  HeapInv' /\ CallOK'
<1>1. /\ call = Idle /\ UNCHANGED <<heap, slobfree, bigblocks, held, taken>> /\ Free' = Free
      /\ call' = [op |-> IF Small(size) THEN "small" ELSE "big", size |-> size,
                  units |-> SLOB_UNITS(IF Small(size) THEN size + UNIT ELSE BIGBLOCK)]
  BY DEF Kmalloc, pageVars, heapVars, Free
<1>2. call'.op # "pages" /\ call.op # "pages" /\ call # Halted
  BY <1>1 DEF Idle, Halted
<1>3. SlobPages' = SlobPages
  BY <1>1, SlobSame
<1> QED
  BY <1>1, <1>2, <1>3, UseKept DEF CallOK

\* Others take pages: the heap stays as it was.
LEMMA StepTake ==
    ASSUME HeapInv, PageInv, NEW n \in UserBlocks, TakePages(n)
    PROVE  HeapInv'
<1>1. /\ FirstFitOK /\ PagesOK /\ AllocPages(n) /\ n \in Nat \ {0}
      /\ taken' = (IF got'.at = None THEN taken ELSE taken \union {<<got'.at, n>>})
      /\ UNCHANGED <<heap, slobfree, bigblocks, held, call>>
  BY KernelHeapConstants DEF PageInv, TakePages, heapVars
<1>2. \/ got'.at = None /\ Free' = Free
      \/ \E p \in Free : got'.at = p /\ p # None /\ Granted(n, p)
  BY <1>1, Asking
<1>3. SlobPages' = SlobPages
  <2>1. CASE got'.at = None /\ Free' = Free
    BY <1>1, <2>1, SlobSame
  <2>2. CASE \E p \in Free : got'.at = p /\ p # None /\ Granted(n, p)
    <3>1. PICK p \in Free : got'.at = p /\ p # None /\ Granted(n, p)
      BY <2>2
    <3>2. /\ taken' = taken \union {<<p, n>>}
          /\ Free' = Free \ Block(p, n) /\ Block(p, n) \subseteq Free
      BY <1>1, <3>1 DEF Granted
    <3> QED
      BY <1>1, <3>2, SlobTaken
  <2> QED
    BY <1>2, <2>1, <2>2
<1> QED
  BY <1>1, <1>3, UseKept

\* Others return pages: the heap stays as it was.
LEMMA StepReturn ==
    ASSUME HeapInv, PageInv, NEW b \in Pages, NEW n \in UserBlocks, ReturnPages(b, n)
    PROVE  HeapInv'
<1>1. /\ <<b, n>> \in taken /\ taken' = taken \ {<<b, n>>}
      /\ UNCHANGED <<heap, slobfree, bigblocks, held, call>>
  BY DEF ReturnPages, heapVars
<1>2. Free' = Free \union Block(b, n)
  BY PageReturn DEF Gives, Given
<1>3. SlobPages' = SlobPages
  BY <1>1, <1>2, SlobReturned
<1> QED
  BY <1>1, <1>3, UseKept

\* What holds in every state of the page manager, the heap and the call that runs.
KernelHeapInv == PageInv /\ HeapInv

\* The invariant holds at first.
LEMMA InitInv ==
    ASSUME Init
    PROVE  KernelHeapInv
  BY PageInit, HeapInit DEF KernelHeapInv, PageInv

\* Every step keeps the invariant.
LEMMA NextInv ==
    ASSUME KernelHeapInv, [Next]_vars
    PROVE  KernelHeapInv'
<1>0. /\ PageInv /\ HeapInv /\ FirstFitOK /\ PagesOK /\ CallOK
      /\ FirstFitOK' /\ PagesOK'
  BY PageNext DEF KernelHeapInv, PageInv
<1>a. ASSUME HeapInv', CallOK' PROVE KernelHeapInv'
  BY <1>0, <1>a DEF KernelHeapInv, PageInv
<1>1. CASE SmallReturn
  <2>1. HeapInv'
    BY <1>0, <1>1, StepSmall
  <2>2. CallOK'
    BY <1>0, <1>1, CallKept DEF SmallReturn
  <2> QED
    BY <1>a, <2>1, <2>2
<1>2. CASE Grow
  <2>1. HeapInv'
    BY <1>0, <1>2, StepRing
  <2>2. CallOK'
    <3>1. call' = call \/ call' = Halted
      BY <1>2 DEF Grow
    <3> QED
      BY <1>0, <3>1, CallKept
  <2> QED
    BY <1>a, <2>1, <2>2
<1>3. CASE BigBlock
  BY <1>0, <1>3, <1>a, StepBox
<1>4. CASE BigPages
  <2>1. HeapInv'
    BY <1>0, <1>4, StepPagesGot, StepPagesNot
  <2>2. CallOK'
    <3>1. call' = Idle \/ call' = Halted
      BY <1>4 DEF BigPages
    <3> QED
      BY <1>0, <3>1, CallKept
  <2> QED
    BY <1>a, <2>1, <2>2
<1>5. CASE \E size \in Sizes : Kmalloc(size)
  BY <1>0, <1>5, <1>a, StepCall
<1>6. CASE \E b \in held : KfreeBig(b)
  <2>1. PICK b \in held : KfreeBig(b)
    BY <1>6
  <2>2. HeapInv'
    BY <1>0, <2>1, StepBigFree
  <2>3. CallOK'
    BY <1>0, <2>1, CallKept DEF KfreeBig
  <2> QED
    BY <1>a, <2>2, <2>3
<1>7. CASE \E b \in held : KfreeSmall(b)
  <2>1. PICK b \in held : KfreeSmall(b)
    BY <1>7
  <2>2. HeapInv'
    BY <1>0, <2>1, StepSmallFree
  <2>3. CallOK'
    BY <1>0, <2>1, CallKept DEF KfreeSmall
  <2> QED
    BY <1>a, <2>2, <2>3
<1>8. CASE \E n \in UserBlocks : TakePages(n)
  <2>1. PICK n \in UserBlocks : TakePages(n)
    BY <1>8
  <2>2. HeapInv'
    BY <1>0, <2>1, StepTake
  <2>3. CallOK'
    BY <1>0, <2>1, CallKept DEF TakePages
  <2> QED
    BY <1>a, <2>2, <2>3
<1>9. CASE \E n \in UserBlocks : \E b \in Pages : ReturnPages(b, n)
  <2>1. PICK n \in UserBlocks, b \in Pages : ReturnPages(b, n)
    BY <1>9
  <2>2. HeapInv'
    BY <1>0, <2>1, StepReturn
  <2>3. CallOK'
    BY <1>0, <2>1, CallKept DEF ReturnPages
  <2> QED
    BY <1>a, <2>2, <2>3
<1>10. CASE UNCHANGED vars
  <2>1. UNCHANGED <<heap, slobfree, bigblocks, held, taken, call>> /\ Free' = Free
    BY <1>10 DEF vars, pageVars, heapVars, Free
  <2>2. SlobPages' = SlobPages
    BY <2>1, SlobSame
  <2>3. HeapInv'
    BY <1>0, <2>1, <2>2, UseKept
  <2>4. CallOK'
    BY <1>0, <2>1, CallKept
  <2> QED
    BY <1>a, <2>3, <2>4
<1> QED
  BY <1>1, <1>2, <1>3, <1>4, <1>5, <1>6, <1>7, <1>8, <1>9, <1>10, Zenon DEF Next, Running

-----------------------------------------------------------------------------
(* What the invariant says of units, bytes and blocks.                     *)

\* A unit of page p is in a block of pages when p is.
LEMMA InPagesIs ==
    ASSUME NEW p \in Nat, NEW x \in InPages(p, 1), NEW b \in Nat, NEW n \in Nat
    PROVE  x \in InPages(b, n) <=> p \in Block(b, n)
<1>0. U \in Nat \ {0} /\ U = UnitsPerPage
  BY UnitsInPage DEF U
<1>1. PICK k \in Nat, c \in Nat, m \in Nat : k = p * U /\ c = b * U /\ m = n * U
  BY <1>0
<1>2. x \in Nat /\ k <= x /\ x < k + U
  BY <1>0, <1>1 DEF InPages, UnitsOf, Addr
<1>3. x \in InPages(b, n) <=> c <= x /\ x < c + m
  BY <1>0, <1>1, <1>2 DEF InPages, UnitsOf, Addr
<1>4. (b + n) * U = c + m
  BY <1>0, <1>1
<1>5. CASE p < b
  <2>1. k + U <= c
    BY <1>0, <1>1, <1>5, Spread
  <2> QED
    BY <1>0, <1>1, <1>2, <1>3, <1>5, <2>1 DEF Block
<1>6. CASE b <= p /\ p < b + n
  <2>1. c <= k
    <3>1. CASE b = p
      BY <1>1, <3>1
    <3>2. CASE b < p
      <4>1. c + U <= k
        BY <1>0, <1>1, <3>2, Spread
      <4> QED
        BY <1>0, <1>1, <4>1
    <3> QED
      BY <1>6, <3>1, <3>2
  <2>2. k + U <= c + m
    <3>1. b + n \in Nat /\ p < b + n
      BY <1>6
    <3>2. p * U + U <= (b + n) * U
      BY <1>0, <3>1, Spread
    <3> QED
      BY <1>1, <1>4, <3>2
  <2>3. c <= x /\ x < c + m
    BY <1>0, <1>1, <1>2, <2>1, <2>2
  <2>4. p \in Block(b, n)
    BY <1>6 DEF Block
  <2> QED
    BY <1>3, <2>3, <2>4
<1>7. CASE b + n <= p
  <2>1. c + m <= k
    <3>1. CASE b + n = p
      BY <1>1, <1>4, <3>1
    <3>2. CASE b + n < p
      <4>1. (b + n) * U + U <= p * U
        BY <1>0, <3>2, Spread
      <4> QED
        BY <1>0, <1>1, <1>4, <4>1
    <3> QED
      BY <1>7, <3>1, <3>2
  <2>2. ~(x < c + m)
    BY <1>0, <1>1, <1>2, <2>1
  <2>3. p \notin Block(b, n)
    BY <1>7 DEF Block
  <2> QED
    BY <1>3, <2>2, <2>3
<1> QED
  BY <1>5, <1>6, <1>7

\* Where a unit of page p can be: in blocks of the heap, pages of others, big blocks.
BlocksAt(x) == {c \in DOMAIN heap : c # Arena /\ x \in UnitsOf(c, heap[c].units)}
TakenAt(x) == {t \in taken : x \in InPages(t[1], t[2])}
BigsAt(x) == {j \in DOMAIN bigblocks : x \in InPages(bigblocks[j].page, 2 ^ bigblocks[j].order)}

\* A unit of the heap's pages is in one block, any other in none.
LEMMA BlocksThere ==
    ASSUME RingOK, CoverOK, NEW p \in Pages, NEW x \in InPages(p, 1)
    PROVE  /\ p \in SlobPages => \E c : BlocksAt(x) = {c}
           /\ p \notin SlobPages => BlocksAt(x) = {}
<1>0. /\ U \in Nat \ {0} /\ p \in Nat /\ p * U \in Nat /\ x \in Nat
      /\ p * U <= x /\ x < p * U + U
  <2>1. U \in Nat \ {0} /\ p \in Nat
    BY UnitsInPage, SlobPagesType
  <2>2. p * U \in Nat /\ p * UnitsPerPage = p * U /\ 1 * UnitsPerPage = U
    BY <2>1 DEF U
  <2> QED
    BY <2>1, <2>2 DEF InPages, UnitsOf, Addr
<1>1. \A a \in DOMAIN heap : a # Arena =>
        /\ a \in Nat /\ End(heap, a) \in Int
        /\ a \in BlocksAt(x) <=> a <= x /\ x < End(heap, a)
  <2> SUFFICES ASSUME NEW a \in DOMAIN heap, a # Arena
               PROVE  /\ a \in Nat /\ End(heap, a) \in Int
                      /\ a \in BlocksAt(x) <=> a <= x /\ x < End(heap, a)
    OBVIOUS
  <2>1. a \in Nat /\ heap[a].units \in Nat /\ End(heap, a) \in Int
    BY ShapeFacts DEF RingOK
  <2>2. x \in UnitsOf(a, heap[a].units) <=> a <= x /\ x < End(heap, a)
    BY <1>0, <2>1 DEF UnitsOf, End
  <2> QED
    BY <2>1, <2>2 DEF BlocksAt
<1>2. BlocksAt(x) \subseteq DOMAIN heap \ {Arena}
  BY DEF BlocksAt
<1>3. (\E a : a \in BlocksAt(x)) <=> x \in Cover(heap)
  BY <1>0, <1>1, <1>2 DEF Cover
<1>4. x \in Cover(heap) <=> p \in SlobPages
  <2>1. ASSUME x \in UnitsIn(SlobPages) PROVE p \in SlobPages
    <3>1. PICK q \in SlobPages : q * U <= x /\ x < q * U + U
      BY <2>1 DEF UnitsIn
    <3>2. q \in Nat
      BY SlobPagesType
    <3>3. p = q
      BY <1>0, <3>1, <3>2, OnePage
    <3> QED
      BY <3>1, <3>3
  <2>2. ASSUME p \in SlobPages PROVE x \in UnitsIn(SlobPages)
    BY <1>0, <2>2 DEF UnitsIn
  <2> QED
    BY <2>1, <2>2 DEF CoverOK
<1>5. ASSUME NEW a \in BlocksAt(x), NEW c \in BlocksAt(x) PROVE a = c
  <2>1. /\ a \in Nat /\ c \in Nat /\ a \in DOMAIN heap /\ c \in DOMAIN heap
        /\ a <= x /\ c <= x /\ x < End(heap, a) /\ x < End(heap, c)
        /\ End(heap, a) \in Int /\ End(heap, c) \in Int
    BY <1>1, <1>2
  <2>2. CASE a < c
    <3>1. End(heap, a) <= c
      BY <2>1, <2>2 DEF RingOK, Shape, Tiled
    <3> QED
      BY <1>0, <2>1, <3>1
  <2>3. CASE c < a
    <3>1. End(heap, c) <= a
      BY <2>1, <2>3 DEF RingOK, Shape, Tiled
    <3> QED
      BY <1>0, <2>1, <3>1
  <2> QED
    BY <2>1, <2>2, <2>3
<1>6. ASSUME p \in SlobPages PROVE \E c : BlocksAt(x) = {c}
  <2>1. PICK c : c \in BlocksAt(x)
    BY <1>3, <1>4, <1>6
  <2>2. BlocksAt(x) = {c}
    BY <1>5, <2>1
  <2> QED
    BY <2>2
<1> QED
  BY <1>3, <1>4, <1>6

\* A unit of somebody's pages is in one of his blocks, any other in none.
LEMMA PagesThere ==
    ASSUME PagesOK, NEW p \in Pages, NEW x \in InPages(p, 1)
    PROVE  /\ p \in TakenPages => p \notin BigOnes /\ \E t : TakenAt(x) = {t}
           /\ p \notin TakenPages => TakenAt(x) = {}
           /\ p \in BigOnes => \E j : BigsAt(x) = {j}
           /\ p \notin BigOnes => BigsAt(x) = {}
<1>0. p \in Nat
  BY SlobPagesType
<1>1. \A t \in taken : t \in TakenAt(x) <=> p \in Block(t[1], t[2])
  <2> SUFFICES ASSUME NEW t \in taken PROVE t \in TakenAt(x) <=> p \in Block(t[1], t[2])
    OBVIOUS
  <2>1. t[1] \in Nat /\ t[2] \in Nat
    BY SlobPagesType DEF PagesOK, Lent
  <2>2. x \in InPages(t[1], t[2]) <=> p \in Block(t[1], t[2])
    BY <1>0, <2>1, InPagesIs
  <2> QED
    BY <2>2 DEF TakenAt
<1>2. DOMAIN bigblocks = 1..Len(bigblocks)
  BY DEF PagesOK
<1>3. \A j \in 1..Len(bigblocks) :
        j \in BigsAt(x) <=> p \in Block(bigblocks[j].page, Size(bigblocks[j]))
  <2> SUFFICES ASSUME NEW j \in 1..Len(bigblocks)
               PROVE  j \in BigsAt(x) <=> p \in Block(bigblocks[j].page, Size(bigblocks[j]))
    OBVIOUS
  <2>1. PICK q \in Nat, m \in Nat : q = bigblocks[j].page /\ m = Size(bigblocks[j])
    BY SlobPagesType DEF PagesOK, Lent
  <2>2. x \in InPages(q, m) <=> p \in Block(q, m)
    BY <1>0, <2>1, InPagesIs
  <2> QED
    BY <1>2, <2>1, <2>2 DEF BigsAt, Size
<1>4. TakenAt(x) \subseteq taken /\ BigsAt(x) \subseteq 1..Len(bigblocks)
  BY <1>2 DEF TakenAt, BigsAt
<1>5. p \in TakenPages <=> \E t \in taken : p \in Block(t[1], t[2])
  BY Zenon DEF TakenPages
<1>6. p \in BigOnes <=> \E j \in 1..Len(bigblocks) : p \in Block(bigblocks[j].page, Size(bigblocks[j]))
  BY OnesAre DEF BigOnes
<1>7. ASSUME p \in TakenPages PROVE p \notin BigOnes /\ \E t : TakenAt(x) = {t}
  <2>1. PICK t \in taken : p \in Block(t[1], t[2])
    BY <1>5, <1>7
  <2>2. \A u \in TakenAt(x) : u = t
    <3> SUFFICES ASSUME NEW u \in TakenAt(x), u # t PROVE FALSE
      OBVIOUS
    <3>1. u \in taken /\ p \in Block(u[1], u[2])
      BY <1>1, <1>4
    <3> QED
      BY <2>1, <3>1 DEF PagesOK, Apart
  <2>3. TakenAt(x) = {t}
    BY <1>1, <2>1, <2>2
  <2>4. p \notin BigOnes
    BY <1>6, <2>1 DEF PagesOK, Apart
  <2> QED
    BY <2>3, <2>4
<1>8. ASSUME p \in BigOnes PROVE \E j : BigsAt(x) = {j}
  <2>1. PICK j \in 1..Len(bigblocks) : p \in Block(bigblocks[j].page, Size(bigblocks[j]))
    BY <1>6, <1>8
  <2>2. \A k \in BigsAt(x) : k = j
    <3> SUFFICES ASSUME NEW k \in BigsAt(x), k # j PROVE FALSE
      OBVIOUS
    <3>1. k \in 1..Len(bigblocks) /\ p \in Block(bigblocks[k].page, Size(bigblocks[k]))
      BY <1>3, <1>4
    <3> QED
      BY <2>1, <3>1 DEF PagesOK, Apart
  <2>3. BigsAt(x) = {j}
    BY <1>3, <2>1, <2>2
  <2> QED
    BY <2>3
<1>9. p \notin TakenPages => TakenAt(x) = {}
  BY <1>1, <1>4, <1>5
<1>10. p \notin BigOnes => BigsAt(x) = {}
  BY <1>3, <1>4, <1>6
<1> QED
  BY <1>7, <1>8, <1>9, <1>10

\* A block that is held has its body one unit behind its header, at no big block's page.
LEMMA HeldSmall ==
    ASSUME HeapInv, PagesOK, NEW c \in held, NEW h, SmallOf(heap, h, c)
    PROVE  Big(c) = {} /\ c.at \div UNIT - 1 = h
<1>0. /\ UNIT \in Nat \ {0} /\ PAGE \in Nat \ {0} /\ Shape(heap) /\ Cover(heap) = UnitsIn(SlobPages)
      /\ c.size \in Nat \ {0}
  BY UnitsInPage, KernelHeapConstants DEF HeapInv, RingOK, CoverOK, HeldOK
<1>1. PICK H : H = heap
  OBVIOUS
<1>2. h \in InUse(H) /\ c.at = (h + 1) * UNIT /\ (H[h].units - 1) * UNIT >= c.size
  BY <1>1 DEF SmallOf
<1>3. h \in Nat /\ H[h].units \in Nat
  <2>1. h \in DOMAIN H /\ h \notin FreeOf(H) /\ Arena \in FreeOf(H) /\ Shape(H)
    BY <1>0, <1>1, <1>2 DEF InUse, Shape
  <2> QED
    BY <2>1, ShapeFacts
<1>4. H[h].units >= 2
  <2>1. PICK u \in Nat : u = H[h].units
    BY <1>3
  <2>2. u # 0 /\ u # 1
    BY ONLY <1>0, <1>2, <2>1
  <2> QED
    BY ONLY <2>1, <2>2
<1>5. Big(c) = {}
  <2> SUFFICES ASSUME NEW i \in Big(c) PROVE FALSE
    OBVIOUS
  <2>1. i \in 1..Len(bigblocks) /\ bigblocks[i].page * PAGE = c.at
    BY DEF Big, PagesOK
  <2>2. PICK p : p = bigblocks[i].page
    OBVIOUS
  <2>3. p \in Pages /\ p \notin SlobPages
    BY <2>1, <2>2, BigOff
  <2>4. p \in Nat /\ SlobPages \in SUBSET Nat
    BY <2>3, SlobPagesType
  <2>5. (h + 1) * UNIT # p * PAGE
    BY <1>0, <1>1, <1>2, <1>4, <2>3, <2>4, Body
  <2> QED
    BY <1>2, <2>1, <2>2, <2>5
<1>6. c.at \div UNIT = h + 1
  <2>1. h + 1 \in Nat
    BY <1>3
  <2>2. ((h + 1) * UNIT) \div UNIT = h + 1
    BY <1>0, <2>1, Division
  <2> QED
    BY <1>2, <2>2
<1> QED
  BY <1>3, <1>5, <1>6

\* Big(c) is the place on the list of the big block that c is, if it is one.
LEMMA HeldBig ==
    ASSUME PagesOK, NEW c, NEW i \in 1..Len(bigblocks), BigOf(bigblocks[i], c)
    PROVE  Big(c) = {i}
<1>0. PAGE \in Nat \ {0} /\ DOMAIN bigblocks = 1..Len(bigblocks)
  BY UnitsInPage DEF PagesOK
<1>1. \A j \in 1..Len(bigblocks) :
          bigblocks[j].page \in Nat /\ bigblocks[j].page \in Block(bigblocks[j].page, Size(bigblocks[j]))
  <2> SUFFICES ASSUME NEW j \in 1..Len(bigblocks)
               PROVE  bigblocks[j].page \in Nat
                      /\ bigblocks[j].page \in Block(bigblocks[j].page, Size(bigblocks[j]))
    OBVIOUS
  <2>1. PICK r : r = bigblocks[j]
    OBVIOUS
  <2>2. r.page \in Nat /\ Size(r) \in Nat \ {0}
    BY <2>1, SlobPagesType DEF PagesOK, Lent
  <2> QED
    BY <2>1, <2>2 DEF Block
<1>2. PICK p \in Nat : p = bigblocks[i].page
  BY <1>1
<1>3. c.at = p * PAGE
  BY <1>2 DEF BigOf
<1>4. c.at % PAGE = 0
  BY <1>0, <1>3, Division
<1>5. i \in Big(c)
  BY <1>0, <1>2, <1>3, <1>4 DEF Big
<1>6. ASSUME NEW j \in Big(c), j # i PROVE FALSE
  <2>1. j \in 1..Len(bigblocks) /\ bigblocks[j].page * PAGE = c.at
    BY <1>0 DEF Big
  <2>2. PICK q \in Nat : q = bigblocks[j].page
    BY <1>1, <2>1
  <2>3. p = q
    BY <1>0, <1>3, <2>1, <2>2, Cancel
  <2>4. Apart(bigblocks[i].page, Size(bigblocks[i]), bigblocks[j].page, Size(bigblocks[j]))
    BY <1>6, <2>1 DEF PagesOK
  <2> QED
    BY <1>1, <1>2, <2>1, <2>2, <2>3, <2>4 DEF Apart
<1> QED
  BY <1>5, <1>6

\* The invariant implies that blocks are as large as was asked for.
LEMMA LargeEnough ==
    ASSUME HeapInv, PagesOK
    PROVE  BlocksLargeEnough
<1> SUFFICES ASSUME NEW b \in held
             PROVE  IF Big(b) # {} THEN \A i \in Big(b) : 2 ^ bigblocks[i].order * PAGE >= b.size
                    ELSE LET header == b.at \div UNIT - 1
                         IN /\ header \in DOMAIN heap /\ ~IsFree(header)
                            /\ (heap[header].units - 1) * UNIT >= b.size
  BY DEF BlocksLargeEnough
<1>1. \/ \E i \in 1..Len(bigblocks) : BigOf(bigblocks[i], b)
      \/ \E h \in InUse(heap) \ Boxes : SmallOf(heap, h, b)
  BY DEF HeapInv, HeldOK
<1>2. CASE \E i \in 1..Len(bigblocks) : BigOf(bigblocks[i], b)
  <2>1. PICK i \in 1..Len(bigblocks) : BigOf(bigblocks[i], b)
    BY <1>2
  <2>2. Big(b) = {i} /\ Size(bigblocks[i]) * PAGE >= b.size
    BY <2>1, HeldBig DEF BigOf
  <2> QED
    BY <2>2 DEF Size
<1>3. CASE \E h \in InUse(heap) \ Boxes : SmallOf(heap, h, b)
  <2>1. PICK h : h \in InUse(heap) /\ SmallOf(heap, h, b)
    BY <1>3
  <2>2. Big(b) = {} /\ b.at \div UNIT - 1 = h
    BY <2>1, HeldSmall
  <2>3. h \in DOMAIN heap /\ ~IsFree(h) /\ (heap[h].units - 1) * UNIT >= b.size
    BY <2>1 DEF InUse, FreeOf, IsFree, SmallOf
  <2> QED
    BY <2>2, <2>3
<1> QED
  BY <1>1, <1>2, <1>3

\* The places of a unit, by kind.
PlacesOf(A, B, C) == {<<"block", a>> : a \in A} \union {<<"page", t>> : t \in B}
                        \union {<<"pages", j>> : j \in C}

\* One place is one place.
LEMMA PlacesAre ==
    ASSUME NEW A, NEW B, NEW C
    PROVE  /\ A = {} /\ B = {} /\ C = {} => Cardinality(PlacesOf(A, B, C)) = 0
           /\ \A a : A = {a} /\ B = {} /\ C = {} => Cardinality(PlacesOf(A, B, C)) = 1
           /\ \A a : A = {} /\ B = {a} /\ C = {} => Cardinality(PlacesOf(A, B, C)) = 1
           /\ \A a : A = {} /\ B = {} /\ C = {a} => Cardinality(PlacesOf(A, B, C)) = 1
<1>1. ASSUME A = {} /\ B = {} /\ C = {} PROVE Cardinality(PlacesOf(A, B, C)) = 0
  <2>1. PlacesOf(A, B, C) = {}
    BY <1>1 DEF PlacesOf
  <2> QED
    BY ONLY <2>1, FS_EmptySet
<1>2. ASSUME NEW a, A = {a} /\ B = {} /\ C = {} PROVE Cardinality(PlacesOf(A, B, C)) = 1
  <2>1. PlacesOf(A, B, C) = {<<"block", a>>}
    BY <1>2 DEF PlacesOf
  <2> QED
    BY ONLY <2>1, FS_Singleton
<1>3. ASSUME NEW a, A = {} /\ B = {a} /\ C = {} PROVE Cardinality(PlacesOf(A, B, C)) = 1
  <2>1. PlacesOf(A, B, C) = {<<"page", a>>}
    BY <1>3 DEF PlacesOf
  <2> QED
    BY ONLY <2>1, FS_Singleton
<1>4. ASSUME NEW a, A = {} /\ B = {} /\ C = {a} PROVE Cardinality(PlacesOf(A, B, C)) = 1
  <2>1. PlacesOf(A, B, C) = {<<"pages", a>>}
    BY <1>4 DEF PlacesOf
  <2> QED
    BY ONLY <2>1, FS_Singleton
<1> QED
  BY <1>1, <1>2, <1>3, <1>4

\* Pages that somebody has are not free.
LEMMA NotFree ==
    ASSUME PagesOK, NEW p \in Free
    PROVE  p \notin TakenPages /\ p \notin BigOnes /\ p \notin SlobPages
<1>1. ASSUME p \in TakenPages PROVE FALSE
  <2>1. PICK t \in taken : p \in Block(t[1], t[2])
    BY <1>1, Zenon DEF TakenPages
  <2>2. Block(t[1], t[2]) \subseteq Pages \ Free
    BY <2>1 DEF PagesOK, Lent
  <2> QED
    BY <2>1, <2>2
<1>2. ASSUME p \in BigOnes PROVE FALSE
  <2>1. PICK i \in 1..Len(bigblocks) : p \in Block(bigblocks[i].page, Size(bigblocks[i]))
    BY <1>2, OnesAre DEF BigOnes
  <2>2. Block(bigblocks[i].page, Size(bigblocks[i])) \subseteq Pages \ Free
    BY <2>1 DEF PagesOK, Lent
  <2> QED
    BY <2>1, <2>2
<1> QED
  BY <1>1, <1>2 DEF SlobPages

\* The invariant implies that a unit is in one place, or in none when its page is free.
LEMMA OnePlace ==
    ASSUME HeapInv, PagesOK, NEW p \in Pages, NEW x \in InPages(p, 1)
    PROVE  Cardinality(Places(x)) = IF p \in Free THEN 0 ELSE 1
<1>1. Places(x) = PlacesOf(BlocksAt(x), TakenAt(x), BigsAt(x))
  BY Zenon DEF Places, PlacesOf, BlocksAt, TakenAt, BigsAt
<1>2. /\ p \in SlobPages => \E c : BlocksAt(x) = {c}
      /\ p \notin SlobPages => BlocksAt(x) = {}
  BY BlocksThere DEF HeapInv
<1>3. /\ p \in TakenPages => p \notin BigOnes /\ \E t : TakenAt(x) = {t}
      /\ p \notin TakenPages => TakenAt(x) = {}
      /\ p \in BigOnes => \E j : BigsAt(x) = {j}
      /\ p \notin BigOnes => BigsAt(x) = {}
  BY PagesThere
<1>4. CASE p \in Free
  <2>1. BlocksAt(x) = {} /\ TakenAt(x) = {} /\ BigsAt(x) = {}
    BY <1>2, <1>3, <1>4, NotFree
  <2> QED
    BY <1>1, <1>4, <2>1, PlacesAre
<1>5. CASE p \notin Free /\ p \in TakenPages
  <2>1. p \notin SlobPages /\ p \notin BigOnes
    BY <1>3, <1>5 DEF SlobPages
  <2>2. BlocksAt(x) = {} /\ BigsAt(x) = {} /\ \E t : TakenAt(x) = {t}
    BY <1>2, <1>3, <1>5, <2>1
  <2> QED
    BY <1>1, <1>5, <2>2, PlacesAre
<1>6. CASE p \notin Free /\ p \in BigOnes
  <2>1. p \notin SlobPages /\ p \notin TakenPages
    BY <1>3, <1>6 DEF SlobPages
  <2>2. BlocksAt(x) = {} /\ TakenAt(x) = {} /\ \E j : BigsAt(x) = {j}
    BY <1>2, <1>3, <1>6, <2>1
  <2> QED
    BY <1>1, <1>6, <2>2, PlacesAre
<1>7. CASE p \notin Free /\ p \notin TakenPages /\ p \notin BigOnes
  <2>1. p \in SlobPages
    BY <1>7 DEF SlobPages
  <2>2. TakenAt(x) = {} /\ BigsAt(x) = {} /\ \E c : BlocksAt(x) = {c}
    BY <1>2, <1>3, <1>7, <2>1
  <2> QED
    BY <1>1, <1>7, <2>2, PlacesAre
<1> QED
  BY <1>4, <1>5, <1>6, <1>7

\* The invariant implies that units and blocks are accounted for.
LEMMA Tiling ==
    ASSUME HeapInv, PagesOK
    PROVE  HeapTiled
<1>1. \A p \in Pages : \A x \in InPages(p, 1) :
        Cardinality(Places(x)) = IF p \in ToSet(free_list) THEN 0 ELSE 1
  BY OnePlace DEF Free
<1>2. ASSUME call # Halted
      PROVE  DOMAIN heap \ FreeBlocks =
          {b.at \div UNIT - 1 : b \in {c \in held : Big(c) = {}}}
          \union {bigblocks[i].bb : i \in DOMAIN bigblocks}
          \union IF call.op = "pages" THEN {call.bb} ELSE {}
  <2> DEFINE Headers == {b.at \div UNIT - 1 : b \in {c \in held : Big(c) = {}}}
  <2>1. DOMAIN heap \ FreeBlocks = InUse(heap) /\ DOMAIN bigblocks = 1..Len(bigblocks)
    BY DEF FreeBlocks, IsFree, InUse, FreeOf, PagesOK
  <2>2. ASSUME NEW h \in InUse(heap) PROVE h \in Headers \union Boxes
    <3>1. CASE h \in Boxes
      BY <3>1
    <3>2. CASE \E c \in held : SmallOf(heap, h, c)
      <4>1. PICK c \in held : SmallOf(heap, h, c)
        BY <3>2
      <4>2. Big(c) = {} /\ c.at \div UNIT - 1 = h
        BY <4>1, HeldSmall
      <4> QED
        BY <4>2
    <3> QED
      BY <1>2, <3>1, <3>2 DEF HeapInv, UsedOK
  <2>3. ASSUME NEW c \in held, Big(c) = {} PROVE c.at \div UNIT - 1 \in InUse(heap)
    <3>1. CASE \E i \in 1..Len(bigblocks) : BigOf(bigblocks[i], c)
      <4>1. PICK i \in 1..Len(bigblocks) : BigOf(bigblocks[i], c)
        BY <3>1
      <4> QED
        BY <2>3, <4>1, HeldBig
    <3>2. CASE \E h \in InUse(heap) \ Boxes : SmallOf(heap, h, c)
      <4>1. PICK h \in InUse(heap) : SmallOf(heap, h, c)
        BY <3>2
      <4> QED
        BY <4>1, HeldSmall
    <3> QED
      BY <3>1, <3>2 DEF HeapInv, HeldOK
  <2>4. Headers \subseteq InUse(heap)
    BY <2>3
  <2>5. Boxes \subseteq InUse(heap)
    BY DEF HeapInv, BoxesOK
  <2>6. InUse(heap) = Headers \union Boxes
    BY <2>2, <2>4, <2>5
  <2> HIDE DEF Headers
  <2>7. DOMAIN heap \ FreeBlocks = Headers \union Boxes
    BY <2>1, <2>6
  <2>8. Boxes = {bigblocks[i].bb : i \in DOMAIN bigblocks}
                 \union IF call.op = "pages" THEN {call.bb} ELSE {}
    BY <2>1, Zenon DEF Boxes
  <2> USE DEF Headers
  <2> QED
    BY <2>7, <2>8
<1> QED
  BY <1>1, <1>2, Zenon DEF HeapTiled

-----------------------------------------------------------------------------
(* The theorems.                                                           *)

\* The page manager's list, lengths and count agree, what it has given out is
\* lent to one holder each, the ring is a ring in address order, its blocks
\* tile its pages, and every block in use belongs to a bigblock_t or to
\* somebody, in every state of the kernel's allocation calls.
THEOREM KernelHeapInvariant == Spec => []KernelHeapInv
<1>1. Init => KernelHeapInv
  BY InitInv
<1>2. KernelHeapInv /\ [Next]_vars => KernelHeapInv'
  BY NextInv
<1> QED
  BY <1>1, <1>2, PTL DEF Spec

\* Every unit of a page that is given out is in exactly one place, and every
\* block in use was given out or holds a bigblock_t (slob_alloc, slob_free,
\* __kmalloc, kfree): nothing is given out twice and nothing leaks.
THEOREM UnitsTiled == Spec => []HeapTiled
<1>1. KernelHeapInv => HeapTiled
  BY Tiling DEF KernelHeapInv, PageInv
<1> QED
  BY <1>1, KernelHeapInvariant, PTL

\* What kmalloc returns is as large as was asked for, a small block's header
\* and body in one block in use, a big one's pages its own.
THEOREM AllocationsFit == Spec => []BlocksLargeEnough
<1>1. KernelHeapInv => BlocksLargeEnough
  BY LargeEnough DEF KernelHeapInv, PageInv
<1> QED
  BY <1>1, KernelHeapInvariant, PTL

\* After the ring has grown by a page the search finds its block, so the loop
\* of slob_alloc takes at most one page for a request.
THEOREM OnePageIsEnough == Spec => GrowSuffices
<1>1. ASSUME KernelHeapInv, [Next]_vars
      PROVE  Searching /\ call' = call /\ heap' # heap => Fitting(call.units)' # {}
  <2> SUFFICES ASSUME Searching, call' = call, heap' # heap
               PROVE  Fitting(call.units)' # {}
    OBVIOUS
  <2>0. HeapInv /\ PageInv /\ call.op # "idle" /\ call.op # "pages"
    BY <1>1 DEF KernelHeapInv, Searching
  <2>1. CASE Grow
    BY <2>0, <2>1, StepRing DEF PageInv
  <2>2. CASE SmallReturn
    BY <2>0, <2>2 DEF SmallReturn, Idle
  <2>3. CASE BigBlock
    <3>1. call'.op = "pages"
      BY <2>3 DEF BigBlock
    <3> QED
      BY <2>0, <3>1
  <2>4. CASE BigPages
    BY <2>0, <2>4 DEF BigPages
  <2>5. CASE \E size \in Sizes : Kmalloc(size)
    BY <2>0, <2>5 DEF Kmalloc, Idle
  <2>6. CASE \E b \in held : KfreeBig(b) \/ KfreeSmall(b)
    BY <2>0, <2>6 DEF KfreeBig, KfreeSmall, Idle
  <2>7. CASE \E n \in UserBlocks : TakePages(n) \/ \E b \in Pages : ReturnPages(b, n)
    BY <2>0, <2>7 DEF TakePages, ReturnPages, heapVars
  <2>8. CASE UNCHANGED vars
    BY <2>8 DEF vars, heapVars
  <2> QED
    BY <1>1, <2>1, <2>2, <2>3, <2>4, <2>5, <2>6, <2>7, <2>8, Zenon DEF Next, Running
<1>2. KernelHeapInv /\ [Next]_vars =>
         [Searching /\ call' = call /\ heap' # heap => Fitting(call.units)' # {}]_vars
  BY <1>1
<1> QED
  BY <1>2, KernelHeapInvariant, PTL DEF Spec, GrowSuffices

\* The first-fit page manager is an allocator that refuses a request only when
\* no run of free pages is long enough (default_alloc_pages,
\* default_free_pages), for the whole kernel's use of it.
THEOREM FirstFitRefinement == Spec => ImplementsPages
<1>1. Init => PA!Init
  BY PageInit DEF PA!Init, Init, FirstFitInit, Free
<1>2. KernelHeapInv /\ [Next]_vars => [PA!Next]_(PA!vars)
  BY PageNext, PageRefines DEF KernelHeapInv
<1> QED
  BY <1>1, <1>2, KernelHeapInvariant, PTL DEF Spec, ImplementsPages, PA!Spec
====
