----------------------------- MODULE FilesProofs -----------------------------
(***************************************************************************)
(* Inode counts are exact, no block is lost or used twice, a clean inode   *)
(* is on the disk and the files behave as OpenFiles promises, with any     *)
(* number of processes, descriptors and files and for a disk and a block   *)
(* map of any size: one inductive invariant, IndInv, kept call by call.    *)
(* The block maps of all files are one function from places to blocks; the *)
(* loop of sfs_truncfile changes it at one place or two in a round.        *)
(***************************************************************************)
EXTENDS Files, FiniteSetTheorems, WellFoundedInduction, TLAPS

------------------------------------------------------------------------------
(* Block maps                                                              *)

\* A set of numbers has a least one, and Min finds it.
LEMMA NatMin ==
    ASSUME NEW S \in SUBSET Nat, S # {}
    PROVE  Min(S) \in S /\ \A x \in S : Min(S) <= x
<1> DEFINE R == OpToRel(<, Nat)
<1>1. \A x, y \in Nat : x < y => <<x, y>> \in R
  BY DEF OpToRel
<1>2. IsWellFoundedOn(R, Nat)
  BY NatLessThanWellFounded, Zenon
<1> HIDE DEF R
<1>3. \E x \in S : \A y \in S : ~ (<<y, x>> \in R)
  BY <1>2, WFMin
<1>4. \E x \in S : \A y \in S : x <= y
  <2>1. PICK x \in S : \A y \in S : ~ (<<y, x>> \in R)
    BY <1>3
  <2>2. ASSUME NEW y \in S PROVE x <= y
    <3>1. x \in Nat /\ y \in Nat
      OBVIOUS
    <3>2. ~(y < x)
      BY <1>1, <2>1, <3>1
    <3> QED
      BY <3>1, <3>2
  <2> QED
    BY <2>2
<1> QED
  BY <1>4 DEF Min

\* The pointers in a block; what a block map can be.
Entries == [0..NENTRY - 1 -> Data \cup {0}]
BlockMaps == [din : DiskInodes, dirty : BOOLEAN, free : SUBSET Data,
              ent : [Data -> Entries], ok : BOOLEAN]

\* The places in the block map of one file, and what is at each: EntryIn is the
\* entry k of the indirect block a, if there is one.
Slots == ({"direct"} \X (0..NDIRECT - 1)) \cup {<<"indirect", 0>>}
         \cup ({"entry"} \X (0..NENTRY - 1))
EntryIn(e, a, k) == IF a = 0 THEN 0 ELSE e[a][k]
BlockAt(din, e, h) ==
    CASE h[1] = "direct" -> din.direct[h[2]]
      [] h[1] = "indirect" -> din.indirect
      [] h[1] = "entry" -> EntryIn(e, din.indirect, h[2])

\* The places of the whole disk and the block at each: h[q] for q \in Places.
Places == Inos \X Slots
LayoutOf(ds, e) == [q \in Places |-> BlockAt(ds[q[1]], e, q[2])]

\* A block is free and at no place, or at exactly one.
Allotted(g, f) ==
    \A b \in Data : IF b \in f THEN \A q \in Places : g[q] # b
                    ELSE \E q \in Places : g[q] = b /\ \A r \in Places : g[r] = b => r = q

\* A block that is no indirect block of a file has no entries: sfs_clear_block
\* when it is taken, and a file keeps its indirect block.
Clear(ds, e) == \A b \in Data : (\A i \in Inos : ds[i].indirect # b) => e[b] = NoEntries

\* A file with more than the direct blocks has an indirect one, and a direct
\* block only below its number of blocks.
Shaped(din) == /\ din.blocks > NDIRECT => din.indirect # 0
               /\ \A k \in 0..NDIRECT - 1 : din.direct[k] # 0 => k < din.blocks

\* What the disk may lack of a clean inode: the number of blocks.
Saved(din, old) ==
    /\ din.size = old.size /\ din.direct = old.direct /\ din.indirect = old.indirect
    /\ din.blocks >= old.blocks
    /\ din.blocks > old.blocks => din.indirect # 0 /\ old.blocks >= NDIRECT

\* The block map x of file i, in place of what ds has for i, is good.
GoodMap(ds, i, old, x) ==
    /\ x \in BlockMaps
    /\ Allotted(LayoutOf([ds EXCEPT ![i] = x.din], x.ent), x.free)
    /\ Clear([ds EXCEPT ![i] = x.din], x.ent)
    /\ Shaped(x.din)
    /\ ~x.dirty => Saved(x.din, old)

\* h differs from g at place p, where it has b.
SetAt(g, h, p, b) == \A q \in Places : h[q] = IF q = p THEN b ELSE g[q]

\* c has an inode for each file.
ForAll(c) == \A j \in Inos : c[j] \in DiskInodes

\* d differs from c at file i.
OnlyAt(c, d, i) == \A j \in Inos : j # i => d[j] = c[j]

\* A free block put where none was.
LEMMA PutIn ==
    ASSUME NEW g, NEW h, NEW f \in SUBSET Data, Allotted(g, f),
           NEW p \in Places, g[p] = 0, NEW b \in f, SetAt(g, h, p, b)
    PROVE  Allotted(h, f \ {b})
<1>1. h[p] = b /\ \A r \in Places : r # p => h[r] = g[r]
  BY DEF SetAt
<1>2. 0 \notin Data
  BY BlockMapConstants
<1> SUFFICES ASSUME NEW c \in Data
             PROVE IF c \in f \ {b} THEN \A r \in Places : h[r] # c
                   ELSE \E r \in Places : h[r] = c /\ \A s \in Places : h[s] = c => s = r
  BY DEF Allotted
<1>3. CASE c = b
  BY <1>1, <1>3 DEF Allotted
<1>4. CASE c # b /\ c \in f
  BY <1>1, <1>4 DEF Allotted
<1>5. CASE c # b /\ c \notin f
  <2>1. PICK r \in Places : g[r] = c /\ \A s \in Places : g[s] = c => s = r
    BY <1>5 DEF Allotted
  <2>2. h[r] = c /\ \A s \in Places : h[s] = c => s = r
    BY <2>1, <1>1, <1>2, <1>5
  <2> QED
    BY <2>2, <1>5
<1> QED
  BY <1>3, <1>4, <1>5

\* A block taken away from its place is free.
LEMMA TakeOut ==
    ASSUME NEW g, NEW h, NEW f \in SUBSET Data, Allotted(g, f),
           NEW p \in Places, NEW b \in Data, g[p] = b, SetAt(g, h, p, 0)
    PROVE  Allotted(h, f \cup {b}) /\ b \notin f
<1>1. h[p] = 0 /\ \A r \in Places : r # p => h[r] = g[r]
  BY DEF SetAt
<1>2. 0 \notin Data
  BY BlockMapConstants
<1>0. b \notin f
  BY DEF Allotted
<1> SUFFICES ASSUME NEW c \in Data
             PROVE IF c \in f \cup {b} THEN \A r \in Places : h[r] # c
                   ELSE \E r \in Places : h[r] = c /\ \A s \in Places : h[s] = c => s = r
  BY <1>0 DEF Allotted
<1>3. CASE c = b
  <2>1. PICK r \in Places : g[r] = c /\ \A s \in Places : g[s] = c => s = r
    BY <1>0, <1>3 DEF Allotted
  <2> QED
    BY <2>1, <1>1, <1>2, <1>3
<1>4. CASE c \in f
  BY <1>1, <1>2, <1>4 DEF Allotted
<1>5. CASE c # b /\ c \notin f
  <2>1. PICK r \in Places : g[r] = c /\ \A s \in Places : g[s] = c => s = r
    BY <1>5 DEF Allotted
  <2>2. h[r] = c /\ \A s \in Places : h[s] = c => s = r
    BY <2>1, <1>1, <1>2, <1>5
  <2> QED
    BY <2>2, <1>5
<1> QED
  BY <1>3, <1>4, <1>5

\* At a place there is a block of data or none.
LEMMA LayoutType ==
    ASSUME NEW ds \in [Inos -> DiskInodes], NEW e \in [Data -> Entries]
    PROVE  LayoutOf(ds, e) \in [Places -> Data \cup {0}]
<1> SUFFICES ASSUME NEW i \in Inos, NEW h \in Slots
             PROVE BlockAt(ds[i], e, h) \in Data \cup {0}
  BY DEF LayoutOf, Places
<1>1. CASE h \in {"direct"} \X (0..NDIRECT - 1)
  BY <1>1 DEF BlockAt, DiskInodes
<1>2. CASE h = <<"indirect", 0>>
  BY <1>2 DEF BlockAt, DiskInodes
<1>3. CASE h \in {"entry"} \X (0..NENTRY - 1)
  BY <1>3 DEF BlockAt, EntryIn, DiskInodes, Entries
<1> QED
  BY <1>1, <1>2, <1>3 DEF Slots

\* The three forms of a place.
DirectOf(j, k) == <<j, <<"direct", k>>>>
IndirectOf(j) == <<j, <<"indirect", 0>>>>
EntryOf(j, k) == <<j, <<"entry", k>>>>

\* The three forms are apart, and there is no other.
LEMMA PlaceForms ==
    /\ \A j, i, k, m : /\ DirectOf(j, k) = DirectOf(i, m) <=> j = i /\ k = m
                       /\ EntryOf(j, k) = EntryOf(i, m) <=> j = i /\ k = m
                       /\ IndirectOf(j) = IndirectOf(i) <=> j = i
                       /\ DirectOf(j, k) # EntryOf(i, m)
                       /\ DirectOf(j, k) # IndirectOf(i)
                       /\ EntryOf(j, k) # IndirectOf(i)
    /\ \A q \in Places : \E j \in Inos :
          \/ \E k \in 0..NDIRECT - 1 : q = DirectOf(j, k)
          \/ q = IndirectOf(j)
          \/ \E k \in 0..NENTRY - 1 : q = EntryOf(j, k)
<1>1. ASSUME NEW j, NEW i, NEW k, NEW m
      PROVE  /\ DirectOf(j, k) = DirectOf(i, m) <=> j = i /\ k = m
             /\ EntryOf(j, k) = EntryOf(i, m) <=> j = i /\ k = m
             /\ IndirectOf(j) = IndirectOf(i) <=> j = i
             /\ DirectOf(j, k) # EntryOf(i, m)
             /\ DirectOf(j, k) # IndirectOf(i)
             /\ EntryOf(j, k) # IndirectOf(i)
  BY DEF DirectOf, IndirectOf, EntryOf
<1>2. ASSUME NEW q \in Places
      PROVE  \E j \in Inos :
               \/ \E k \in 0..NDIRECT - 1 : q = DirectOf(j, k)
               \/ q = IndirectOf(j)
               \/ \E k \in 0..NENTRY - 1 : q = EntryOf(j, k)
  <2>1. PICK j \in Inos, h \in Slots : q = <<j, h>>
    BY DEF Places
  <2>2. CASE h \in {"direct"} \X (0..NDIRECT - 1)
    <3>1. PICK k \in 0..NDIRECT - 1 : h = <<"direct", k>>
      BY <2>2
    <3> QED
      BY <2>1, <3>1 DEF DirectOf
  <2>3. CASE h = <<"indirect", 0>>
    BY <2>1, <2>3 DEF IndirectOf
  <2>4. CASE h \in {"entry"} \X (0..NENTRY - 1)
    <3>1. PICK k \in 0..NENTRY - 1 : h = <<"entry", k>>
      BY <2>4
    <3> QED
      BY <2>1, <3>1 DEF EntryOf
  <2> QED
    BY <2>2, <2>3, <2>4 DEF Slots
<1> QED
  BY <1>1, <1>2

\* What is at a place of each form.
LEMMA LayoutAt ==
    ASSUME NEW ds, NEW e, NEW i \in Inos
    PROVE  /\ \A k \in 0..NDIRECT - 1 :
                 /\ DirectOf(i, k) \in Places
                 /\ LayoutOf(ds, e)[DirectOf(i, k)] = ds[i].direct[k]
           /\ IndirectOf(i) \in Places
           /\ LayoutOf(ds, e)[IndirectOf(i)] = ds[i].indirect
           /\ \A k \in 0..NENTRY - 1 :
                 /\ EntryOf(i, k) \in Places
                 /\ LayoutOf(ds, e)[EntryOf(i, k)] =
                       EntryIn(e, ds[i].indirect, k)
<1>1. \A h \in Slots : /\ <<i, h>> \in Places /\ LayoutOf(ds, e)[<<i, h>>] = BlockAt(ds[i], e, h)
  BY DEF LayoutOf, Places
<1>2. \A k \in 0..NDIRECT - 1 : <<"direct", k>> \in Slots
         /\ BlockAt(ds[i], e, <<"direct", k>>) = ds[i].direct[k]
  BY DEF Slots, BlockAt
<1>3. <<"indirect", 0>> \in Slots /\ BlockAt(ds[i], e, <<"indirect", 0>>) = ds[i].indirect
  BY DEF Slots, BlockAt
<1>4. \A k \in 0..NENTRY - 1 : <<"entry", k>> \in Slots
         /\ BlockAt(ds[i], e, <<"entry", k>>) = EntryIn(e, ds[i].indirect, k)
  BY DEF Slots, BlockAt
<1> QED
  BY <1>1, <1>2, <1>3, <1>4 DEF DirectOf, IndirectOf, EntryOf

\* The same, one form at a time.
LEMMA DirectAt ==
    ASSUME NEW ds, NEW e, NEW i \in Inos, NEW k \in 0..NDIRECT - 1
    PROVE  DirectOf(i, k) \in Places /\ LayoutOf(ds, e)[DirectOf(i, k)] = ds[i].direct[k]
  BY LayoutAt

LEMMA IndirectAt ==
    ASSUME NEW ds, NEW e, NEW i \in Inos
    PROVE  IndirectOf(i) \in Places /\ LayoutOf(ds, e)[IndirectOf(i)] = ds[i].indirect
  BY LayoutAt

LEMMA EntryAt ==
    ASSUME NEW ds, NEW e, NEW i \in Inos, NEW k \in 0..NENTRY - 1
    PROVE  /\ EntryOf(i, k) \in Places
           /\ LayoutOf(ds, e)[EntryOf(i, k)] = EntryIn(e, ds[i].indirect, k)
  BY LayoutAt

\* Files of c and d have the same blocks.
SameMaps(c, d) == \A j \in Inos : d[j].direct = c[j].direct /\ d[j].indirect = c[j].indirect

\* Free blocks and entries are right as long as the blocks of files stay.
LEMMA MapsKept ==
    ASSUME NEW c, NEW d, NEW e, NEW f, SameMaps(c, d), Allotted(LayoutOf(c, e), f), Clear(c, e)
    PROVE  Allotted(LayoutOf(d, e), f) /\ Clear(d, e)
<1>1. ASSUME NEW q \in Places PROVE LayoutOf(d, e)[q] = LayoutOf(c, e)[q]
  <2>1. PICK j \in Inos : \/ \E k \in 0..NDIRECT - 1 : q = DirectOf(j, k)
                          \/ q = IndirectOf(j)
                          \/ \E k \in 0..NENTRY - 1 : q = EntryOf(j, k)
    BY PlaceForms
  <2> QED
    BY <2>1, LayoutAt DEF SameMaps
<1> QED
  BY <1>1 DEF Allotted, Clear, SameMaps

\* Setting one place.
LEMMA DirectSet ==
    ASSUME NEW c, NEW d, NEW e, NEW i \in Inos, ForAll(c), OnlyAt(c, d, i),
           NEW k \in 0..NDIRECT - 1, NEW b,
           d[i].direct = [c[i].direct EXCEPT ![k] = b], d[i].indirect = c[i].indirect
    PROVE  SetAt(LayoutOf(c, e), LayoutOf(d, e), DirectOf(i, k), b)
<1> SUFFICES ASSUME NEW q \in Places
             PROVE LayoutOf(d, e)[q] = IF q = DirectOf(i, k) THEN b ELSE LayoutOf(c, e)[q]
  BY DEF SetAt
<1>1. c[i].direct \in [0..NDIRECT - 1 -> Data \cup {0}]
  BY DEF DiskInodes, ForAll
<1>2. PICK j \in Inos : \/ \E m \in 0..NDIRECT - 1 : q = DirectOf(j, m)
                        \/ q = IndirectOf(j)
                        \/ \E m \in 0..NENTRY - 1 : q = EntryOf(j, m)
  BY PlaceForms
<1>3. d[j].indirect = c[j].indirect
  BY DEF OnlyAt
<1>4. \A m \in 0..NDIRECT - 1 : d[j].direct[m] = IF j = i /\ m = k THEN b ELSE c[j].direct[m]
  BY <1>1 DEF OnlyAt
<1>5. CASE \E m \in 0..NDIRECT - 1 : q = DirectOf(j, m)
  <2>1. PICK m \in 0..NDIRECT - 1 : q = DirectOf(j, m)
    BY <1>5
  <2>2. q = DirectOf(i, k) <=> j = i /\ m = k
    BY ONLY <2>1, PlaceForms
  <2>3. LayoutOf(d, e)[q] = d[j].direct[m]
    BY ONLY <2>1, DirectAt
  <2>4. LayoutOf(c, e)[q] = c[j].direct[m]
    BY ONLY <2>1, DirectAt
  <2> QED
    BY <1>4, <2>2, <2>3, <2>4
<1>6. CASE q = IndirectOf(j)
  <2>1. q # DirectOf(i, k)
    BY ONLY <1>6, PlaceForms
  <2>2. LayoutOf(d, e)[q] = d[j].indirect
    BY ONLY <1>6, IndirectAt
  <2>3. LayoutOf(c, e)[q] = c[j].indirect
    BY ONLY <1>6, IndirectAt
  <2> QED
    BY <1>3, <2>1, <2>2, <2>3
<1>7. CASE \E m \in 0..NENTRY - 1 : q = EntryOf(j, m)
  <2>1. PICK m \in 0..NENTRY - 1 : q = EntryOf(j, m)
    BY <1>7
  <2>2. q # DirectOf(i, k)
    BY ONLY <2>1, PlaceForms
  <2>3. LayoutOf(d, e)[q] = EntryIn(e, d[j].indirect, m)
    BY ONLY <2>1, EntryAt
  <2>4. LayoutOf(c, e)[q] = EntryIn(e, c[j].indirect, m)
    BY ONLY <2>1, EntryAt
  <2> QED
    BY <1>3, <2>2, <2>3, <2>4 DEF EntryIn
<1> QED
  BY <1>2, <1>5, <1>6, <1>7

\* ... an indirect block with no entries is added to file i ...
LEMMA IndirectSet ==
    ASSUME NEW c, NEW d, NEW e, NEW i \in Inos, OnlyAt(c, d, i),
           NEW b, e[b] = NoEntries, c[i].indirect = 0,
           d[i].direct = c[i].direct, d[i].indirect = b
    PROVE  SetAt(LayoutOf(c, e), LayoutOf(d, e), IndirectOf(i), b)
<1> SUFFICES ASSUME NEW q \in Places
             PROVE LayoutOf(d, e)[q] = IF q = IndirectOf(i) THEN b ELSE LayoutOf(c, e)[q]
  BY DEF SetAt
<1>2. PICK j \in Inos : \/ \E m \in 0..NDIRECT - 1 : q = DirectOf(j, m)
                        \/ q = IndirectOf(j)
                        \/ \E m \in 0..NENTRY - 1 : q = EntryOf(j, m)
  BY PlaceForms
<1>3. d[j].direct = c[j].direct /\ d[j].indirect = IF j = i THEN b ELSE c[j].indirect
  BY DEF OnlyAt
<1>4. \A m \in 0..NENTRY - 1 : e[b][m] = 0
  BY DEF NoEntries
<1>5. CASE \E m \in 0..NDIRECT - 1 : q = DirectOf(j, m)
  <2>1. PICK m \in 0..NDIRECT - 1 : q = DirectOf(j, m)
    BY <1>5
  <2>2. q # IndirectOf(i)
    BY ONLY <2>1, PlaceForms
  <2>3. LayoutOf(d, e)[q] = d[j].direct[m]
    BY ONLY <2>1, DirectAt
  <2>4. LayoutOf(c, e)[q] = c[j].direct[m]
    BY ONLY <2>1, DirectAt
  <2> QED
    BY <1>3, <2>2, <2>3, <2>4 DEF EntryIn
<1>6. CASE q = IndirectOf(j)
  <2>1. q = IndirectOf(i) <=> j = i
    BY ONLY <1>6, PlaceForms
  <2>2. LayoutOf(d, e)[q] = d[j].indirect
    BY ONLY <1>6, IndirectAt
  <2>3. LayoutOf(c, e)[q] = c[j].indirect
    BY ONLY <1>6, IndirectAt
  <2> QED
    BY <1>3, <2>1, <2>2, <2>3
<1>7. CASE \E m \in 0..NENTRY - 1 : q = EntryOf(j, m)
  <2>1. PICK m \in 0..NENTRY - 1 : q = EntryOf(j, m)
    BY <1>7
  <2>2. q # IndirectOf(i)
    BY ONLY <2>1, PlaceForms
  <2>3. LayoutOf(d, e)[q] = EntryIn(e, d[j].indirect, m)
    BY ONLY <2>1, EntryAt
  <2>4. LayoutOf(c, e)[q] = EntryIn(e, c[j].indirect, m)
    BY ONLY <2>1, EntryAt
  <2> QED
    BY <1>3, <1>4, <2>2, <2>3, <2>4 DEF EntryIn
<1> QED
  BY <1>2, <1>5, <1>6, <1>7

\* ... an entry of the indirect block that only file i has is set.
LEMMA EntrySet ==
    ASSUME NEW c, NEW d, NEW e, NEW f, e \in [Data -> Entries],
           NEW i \in Inos, ForAll(c), OnlyAt(c, d, i), NEW a, c[i].indirect = a, a \in Data,
           d[i].direct = c[i].direct, d[i].indirect = a,
           \A j \in Inos : c[j].indirect = a => j = i,
           NEW k \in 0..NENTRY - 1, NEW b, f = [e EXCEPT ![a][k] = b]
    PROVE  SetAt(LayoutOf(c, e), LayoutOf(d, f), EntryOf(i, k), b)
<1> SUFFICES ASSUME NEW q \in Places
             PROVE LayoutOf(d, f)[q] = IF q = EntryOf(i, k) THEN b ELSE LayoutOf(c, e)[q]
  BY DEF SetAt
<1>1. \A x \in Data : \A m \in 0..NENTRY - 1 : f[x][m] = IF x = a /\ m = k THEN b ELSE e[x][m]
  BY DEF Entries
<1>2. PICK j \in Inos : \/ \E m \in 0..NDIRECT - 1 : q = DirectOf(j, m)
                        \/ q = IndirectOf(j)
                        \/ \E m \in 0..NENTRY - 1 : q = EntryOf(j, m)
  BY PlaceForms
<1>3. /\ d[j].direct = c[j].direct /\ d[j].indirect = c[j].indirect
      /\ c[j].indirect \in Data \cup {0} /\ (c[j].indirect = a => j = i)
  BY DEF OnlyAt, ForAll, DiskInodes
<1>5. CASE \E m \in 0..NDIRECT - 1 : q = DirectOf(j, m)
  <2>1. PICK m \in 0..NDIRECT - 1 : q = DirectOf(j, m)
    BY <1>5
  <2>2. q # EntryOf(i, k)
    BY ONLY <2>1, PlaceForms
  <2>3. LayoutOf(d, f)[q] = d[j].direct[m]
    BY ONLY <2>1, DirectAt
  <2>4. LayoutOf(c, e)[q] = c[j].direct[m]
    BY ONLY <2>1, DirectAt
  <2> QED
    BY <1>3, <2>2, <2>3, <2>4 DEF EntryIn
<1>6. CASE q = IndirectOf(j)
  <2>1. q # EntryOf(i, k)
    BY ONLY <1>6, PlaceForms
  <2>2. LayoutOf(d, f)[q] = d[j].indirect
    BY ONLY <1>6, IndirectAt
  <2>3. LayoutOf(c, e)[q] = c[j].indirect
    BY ONLY <1>6, IndirectAt
  <2> QED
    BY <1>3, <2>1, <2>2, <2>3
<1>7. CASE \E m \in 0..NENTRY - 1 : q = EntryOf(j, m)
  <2>1. PICK m \in 0..NENTRY - 1 : q = EntryOf(j, m)
    BY <1>7
  <2>2. q = EntryOf(i, k) <=> j = i /\ m = k
    BY ONLY <2>1, PlaceForms
  <2>3. LayoutOf(d, f)[q] = EntryIn(f, d[j].indirect, m)
    BY ONLY <2>1, EntryAt
  <2>4. LayoutOf(c, e)[q] = EntryIn(e, c[j].indirect, m)
    BY ONLY <2>1, EntryAt
  <2> QED
    BY <1>1, <1>3, BlockMapConstants, <2>2, <2>3, <2>4 DEF EntryIn
<1> QED
  BY <1>2, <1>5, <1>6, <1>7

------------------------------------------------------------------------------
(* One block added or dropped                                              *)
\* bitmap_alloc finds a free block if there is one.
LEMMA LowestFree ==
    ASSUME NEW f \in SUBSET Data
    PROVE  IF f = {} THEN Lowest(f) = 0 ELSE Lowest(f) \in f /\ Lowest(f) # 0
<1>1. Data \subseteq Nat /\ 0 \notin Data
  BY BlockMapConstants
<1> QED
  BY <1>1, NatMin DEF Lowest

\* The numbers of direct blocks, of entries and of both.
LEMMA Bounds == NDIRECT \in Nat \ {0} /\ NENTRY \in Nat \ {0} /\ MaxBlocks \in Nat
                /\ MaxBlocks = NDIRECT + NENTRY
  BY BlockMapConstants DEF MaxBlocks

\* What the failed call leaves.
LEMMA FailedGood ==
    ASSUME NEW ds, NEW i, NEW old, NEW x, GoodMap(ds, i, old, x)
    PROVE  GoodMap(ds, i, old, Failed(x)) /\ Failed(x).din = x.din /\ ~Failed(x).ok
<1>1. x \in BlockMaps
  BY DEF GoodMap
<1>2. PICK y : y = Failed(x)
  OBVIOUS
<1>3. /\ y \in BlockMaps /\ y.din = x.din /\ y.dirty = x.dirty /\ y.free = x.free /\ y.ent = x.ent
      /\ ~y.ok
  BY <1>1, <1>2 DEF Failed, BlockMaps
<1>4. GoodMap(ds, i, old, y)
  BY <1>3 DEF GoodMap
<1> QED
  BY <1>2, <1>3, <1>4

\* The inode and block map after a direct block has been added.
LEMMA DirectAdded ==
    ASSUME NEW x \in BlockMaps, x.ok, x.din.blocks < NDIRECT,
           x.din.direct[x.din.blocks] = 0, Lowest(x.free) \in x.free, Lowest(x.free) # 0
    PROVE  LET y == AddBlock(x) k == x.din.blocks IN
           /\ y \in BlockMaps /\ y.free = x.free \ {Lowest(x.free)} /\ y.ent = x.ent /\ y.dirty
           /\ y.din.size = x.din.size /\ y.din.blocks = k + 1
           /\ y.din.direct = [x.din.direct EXCEPT ![k] = Lowest(x.free)]
           /\ y.din.indirect = x.din.indirect
<1> DEFINE k == x.din.blocks
           b == Lowest(x.free)
           y == AddBlock(x)
           din == [x.din EXCEPT !.direct[k] = b, !.blocks = k + 1]
<1>1. k \in Nat /\ k \in 0..NDIRECT - 1 /\ k + 1 \in 0..MaxBlocks
  BY Bounds DEF BlockMaps, DiskInodes
<1>2. y = [x EXCEPT !.free = @ \ {b}, !.din = din, !.dirty = TRUE]
  BY <1>1 DEF AddBlock, GetDirect, BlockMaps, DiskInodes
<1>3. /\ din \in DiskInodes /\ din.size = x.din.size /\ din.blocks = k + 1
      /\ din.direct = [x.din.direct EXCEPT ![k] = b] /\ din.indirect = x.din.indirect
  BY <1>1 DEF BlockMaps, DiskInodes
<1> HIDE DEF din, y
<1>4. /\ y.din = din /\ y.free = x.free \ {b} /\ y.ent = x.ent /\ y.dirty /\ y \in BlockMaps
  BY <1>2, <1>3 DEF BlockMaps
<1> QED
  BY <1>3, <1>4 DEF y

\* Growing among the direct blocks, with and without a free block.
LEMMA AddDirect ==
    ASSUME NEW ds \in [Inos -> DiskInodes], NEW i \in Inos, NEW old, NEW x,
           GoodMap(ds, i, old, x), x.ok, x.din.blocks < NDIRECT
    PROVE  GoodMap(ds, i, old, AddBlock(x)) /\ AddBlock(x).din.size = x.din.size
<1>1. /\ x \in BlockMaps /\ x.din \in DiskInodes
      /\ x.free \in SUBSET Data /\ x.ent \in [Data -> Entries]
  BY DEF GoodMap, BlockMaps
<1>2. PICK k : k = x.din.blocks
  OBVIOUS
<1>3. k \in Nat /\ k \in 0..NDIRECT - 1
  BY <1>1, <1>2, Bounds DEF DiskInodes
<1>4. x.din.direct[k] = 0
  BY <1>2, <1>3 DEF GoodMap, Shaped
<1>5. CASE Lowest(x.free) = 0
  <2>1. AddBlock(x) = Failed(x)
    BY <1>1, <1>2, <1>3, <1>4, <1>5 DEF AddBlock, GetDirect, Failed, BlockMaps
  <2> QED
    BY <2>1, FailedGood
<1>6. CASE Lowest(x.free) # 0
  <2>1. PICK b : b = Lowest(x.free)
    OBVIOUS
  <2>2. b \in x.free /\ b # 0 /\ b \in Data
    BY <1>1, <1>6, <2>1, LowestFree
  <2>3. PICK y : y = AddBlock(x)
    OBVIOUS
  <2>4. /\ y \in BlockMaps /\ y.free = x.free \ {b} /\ y.ent = x.ent /\ y.dirty
        /\ y.din.size = x.din.size /\ y.din.blocks = k + 1
        /\ y.din.direct = [x.din.direct EXCEPT ![k] = b]
        /\ y.din.indirect = x.din.indirect
    BY <1>1, <1>2, <1>4, <2>1, <2>2, <2>3, DirectAdded
  <2>5. y.din \in DiskInodes
    BY <2>4 DEF BlockMaps
  <2>6. PICK c, d : c = [ds EXCEPT ![i] = x.din] /\ d = [ds EXCEPT ![i] = y.din]
    OBVIOUS
  <2>7. ForAll(c) /\ c[i] = x.din /\ d[i] = y.din /\ OnlyAt(c, d, i)
    BY <1>1, <2>5, <2>6 DEF OnlyAt, ForAll
  <2>0. PICK e : e = x.ent
    OBVIOUS
  <2>8. Allotted(LayoutOf(c, e), x.free) /\ Clear(c, e) /\ Shaped(x.din)
    BY <2>0, <2>6 DEF GoodMap
  <2>9. SetAt(LayoutOf(c, e), LayoutOf(d, e), DirectOf(i, k), b)
    BY <1>3, <2>4, <2>7, DirectSet
  <2>10. DirectOf(i, k) \in Places /\ LayoutOf(c, e)[DirectOf(i, k)] = 0
    <3>1. DirectOf(i, k) \in Places /\ LayoutOf(c, e)[DirectOf(i, k)] = c[i].direct[k]
      BY ONLY <1>3, DirectAt
    <3> QED
      BY <1>4, <2>7, <3>1
  <2>11. Allotted(LayoutOf(d, e), x.free \ {b})
    BY <1>1, <2>2, <2>8, <2>9, <2>10, PutIn
  <2>12. Clear(d, e)
    BY <2>4, <2>7, <2>8 DEF Clear, OnlyAt
  <2>13. Shaped(y.din)
    BY <1>1, <1>2, <1>3, <2>4, <2>8, Bounds DEF Shaped, DiskInodes
  <2> QED
    BY <2>0, <2>3, <2>4, <2>6, <2>11, <2>12, <2>13 DEF GoodMap
<1> QED
  BY <1>5, <1>6

\* Adding block b to x as entry k of the indirect block a.
AddsEntry(x, a, b, k) ==
    /\ x \in BlockMaps /\ x.ok /\ NDIRECT <= x.din.blocks /\ x.din.blocks < MaxBlocks
    /\ a = (IF x.din.indirect # 0 THEN x.din.indirect ELSE Lowest(x.free)) /\ a \in Data
    /\ b = Lowest(x.free \ {a}) /\ b # 0 /\ b \in Data
    /\ k = x.din.blocks - NDIRECT
    /\ ~(x.din.indirect # 0 /\ x.ent[x.din.indirect][k] # 0)

\* z is what comes of it.
HasEntry(x, z, a, b, k) ==
    /\ z \in BlockMaps /\ z.free = (x.free \ {a}) \ {b}
    /\ z.ent = [x.ent EXCEPT ![a][k] = b]
    /\ z.dirty = (x.dirty \/ a # x.din.indirect)
    /\ z.din.size = x.din.size /\ z.din.blocks = x.din.blocks + 1
    /\ z.din.direct = x.din.direct /\ z.din.indirect = a

\* What GetIndirect does, if there is a block for the entry.
LEMMA EntryAdded ==
    ASSUME NEW x, NEW a, NEW b, NEW k, AddsEntry(x, a, b, k)
    PROVE  HasEntry(x, AddBlock(x), a, b, k)
<1>1. /\ x.din.blocks \in Nat /\ ~(x.din.blocks < NDIRECT) /\ k \in 0..NENTRY - 1
      /\ x.din.blocks + 1 \in 0..MaxBlocks
  BY Bounds DEF AddsEntry, BlockMaps, DiskInodes
<1>0. x \in BlockMaps
  BY DEF AddsEntry
<1> DEFINE din == [x.din EXCEPT !.indirect = a, !.blocks = x.din.blocks + 1]
           e == [x.ent EXCEPT ![a][k] = b]
           y == AddBlock(x)
<1>2. GetIndirect(x, k) = [x EXCEPT !.free = (x.free \ {a}) \ {b}, !.ent = e,
                                    !.din = [x.din EXCEPT !.indirect = a],
                                    !.dirty = @ \/ a # x.din.indirect]
  BY DEF GetIndirect, BlockMaps, AddsEntry
<1>3. y = [x EXCEPT !.free = (x.free \ {a}) \ {b}, !.ent = e, !.din = din,
                    !.dirty = @ \/ a # x.din.indirect]
  BY <1>1, <1>2 DEF AddBlock, BlockMaps, DiskInodes, AddsEntry
<1>4. /\ din \in DiskInodes /\ din.size = x.din.size /\ din.blocks = x.din.blocks + 1
      /\ din.direct = x.din.direct /\ din.indirect = a
  BY <1>1 DEF BlockMaps, DiskInodes, AddsEntry
<1>5. e \in [Data -> Entries]
  BY <1>1 DEF BlockMaps, Entries, AddsEntry
<1> HIDE DEF din, y, e
<1>6. /\ y.din = din /\ y.free = (x.free \ {a}) \ {b} /\ y.ent = e
      /\ y.dirty = (x.dirty \/ a # x.din.indirect) /\ y \in BlockMaps
  BY <1>0, <1>3, <1>4, <1>5 DEF BlockMaps
<1> QED
  BY <1>4, <1>6 DEF y, e, HasEntry

\* The indirect block of a file is no other file's.
LEMMA OneIndirect ==
    ASSUME NEW c, NEW e, NEW f, Allotted(LayoutOf(c, e), f),
           NEW i \in Inos, c[i].indirect \in Data
    PROVE  c[i].indirect \notin f /\ \A j \in Inos : c[j].indirect = c[i].indirect => j = i
<1>1. PICK a : a = c[i].indirect /\ a \in Data
  OBVIOUS
<1>2. IndirectOf(i) \in Places /\ LayoutOf(c, e)[IndirectOf(i)] = a
  BY <1>1, IndirectAt
<1>3. a \notin f
  BY <1>1, <1>2 DEF Allotted
<1>4. PICK p \in Places : \A r \in Places : LayoutOf(c, e)[r] = a => r = p
  BY <1>1, <1>3 DEF Allotted
<1>5. ASSUME NEW j \in Inos, c[j].indirect = a PROVE j = i
  <2>1. IndirectOf(j) \in Places /\ LayoutOf(c, e)[IndirectOf(j)] = a
    BY <1>5, IndirectAt
  <2>2. IndirectOf(j) = IndirectOf(i)
    BY <1>2, <1>4, <2>1
  <2> QED
    BY <2>2, PlaceForms
<1> QED
  BY <1>1, <1>3, <1>5

\* Growing behind the direct blocks: nothing to add, a block for the entry in the
\* indirect block there is, a new indirect block and a block for the entry in it,
\* or no block left.
LEMMA AddIndirect ==
    ASSUME NEW ds \in [Inos -> DiskInodes], NEW i \in Inos, NEW old, NEW x,
           GoodMap(ds, i, old, x), x.ok, NDIRECT <= x.din.blocks, x.din.blocks < MaxBlocks,
           old \in DiskInodes
    PROVE  GoodMap(ds, i, old, AddBlock(x)) /\ AddBlock(x).din.size = x.din.size
<1>1. /\ x \in BlockMaps /\ x.din \in DiskInodes
      /\ x.free \in SUBSET Data /\ x.ent \in [Data -> Entries]
  BY DEF GoodMap, BlockMaps
<1>2. PICK k : k = x.din.blocks - NDIRECT
  OBVIOUS
<1>3. x.din.blocks \in Nat /\ k \in 0..NENTRY - 1 /\ ~(x.din.blocks < NDIRECT)
      /\ x.din.blocks + 1 \in 0..MaxBlocks
  BY <1>1, <1>2, Bounds DEF DiskInodes
<1>4. PICK a : a = IF x.din.indirect # 0 THEN x.din.indirect ELSE Lowest(x.free)
  OBVIOUS
<1>5. PICK b : b = Lowest(x.free \ {a})
  OBVIOUS
<1>6. PICK y : y = AddBlock(x)
  OBVIOUS
<1>7. PICK c, d : c = [ds EXCEPT ![i] = x.din] /\ d = [ds EXCEPT ![i] = y.din]
  OBVIOUS
<1>8. ForAll(c) /\ c[i] = x.din /\ d[i] = y.din /\ OnlyAt(c, d, i)
  BY <1>1, <1>7 DEF OnlyAt, ForAll
<1>9. Allotted(LayoutOf(c, x.ent), x.free) /\ Clear(c, x.ent) /\ Shaped(x.din)
      /\ (~x.dirty => Saved(x.din, old))
  BY <1>7 DEF GoodMap
<1>10. 0 \notin Data /\ x.din.indirect \in Data \cup {0}
  BY <1>1, BlockMapConstants DEF DiskInodes
<1>11. CASE x.din.indirect # 0 /\ x.ent[x.din.indirect][k] # 0
  <2>1. GetIndirect(x, k) = x
    BY <1>11 DEF GetIndirect
  <2>2. y = [x EXCEPT !.din.blocks = x.din.blocks + 1]
    BY <1>2, <1>3, <1>6, <2>1 DEF AddBlock
  <2>3. /\ y \in BlockMaps /\ y.free = x.free /\ y.ent = x.ent /\ y.dirty = x.dirty
        /\ y.din.size = x.din.size /\ y.din.blocks = x.din.blocks + 1
        /\ y.din.direct = x.din.direct /\ y.din.indirect = x.din.indirect
    BY <1>1, <1>3, <2>2 DEF BlockMaps, DiskInodes
  <2>4. SameMaps(c, d)
    BY <1>8, <2>3 DEF SameMaps, OnlyAt
  <2>5. Allotted(LayoutOf(d, y.ent), y.free) /\ Clear(d, y.ent)
    BY <1>9, <2>3, <2>4, MapsKept
  <2>6. Shaped(y.din)
    BY <1>3, <1>9, <1>11, <2>3, Bounds, <1>1 DEF Shaped, DiskInodes
  <2>7. ~y.dirty => Saved(y.din, old)
    BY <1>3, <1>9, <1>11, <2>3, Bounds DEF Saved, DiskInodes
  <2> QED
    BY <1>6, <1>7, <2>3, <2>5, <2>6, <2>7 DEF GoodMap
<1>12. CASE ~(x.din.indirect # 0 /\ x.ent[x.din.indirect][k] # 0) /\ b = 0
  <2>1. GetIndirect(x, k) = Failed(x)
    BY <1>12, <1>4, <1>5 DEF GetIndirect
  <2>2. y = Failed(x)
    BY <1>2, <1>3, <1>6, <2>1, <1>1 DEF AddBlock, Failed, BlockMaps
  <2> QED
    BY <1>6, <2>2, FailedGood
<1>13. CASE ~(x.din.indirect # 0 /\ x.ent[x.din.indirect][k] # 0) /\ b # 0
  <2>1. b \in x.free \ {a} /\ b \in Data
    BY <1>1, <1>5, <1>13, LowestFree
  <2>2. a \in Data /\ (x.din.indirect = 0 => a \in x.free)
    BY <1>1, <1>4, <1>10, <2>1, LowestFree
  <2>3. /\ y \in BlockMaps /\ y.free = (x.free \ {a}) \ {b}
        /\ y.ent = [x.ent EXCEPT ![a][k] = b]
        /\ y.dirty = (x.dirty \/ a # x.din.indirect)
        /\ y.din.size = x.din.size /\ y.din.blocks = x.din.blocks + 1
        /\ y.din.direct = x.din.direct /\ y.din.indirect = a
    <3>1. AddsEntry(x, a, b, k)
      BY <1>1, <1>2, <1>4, <1>5, <1>13, <2>1, <2>2 DEF AddsEntry
    <3>2. HasEntry(x, y, a, b, k)
      BY <1>6, <3>1, EntryAdded
    <3> QED
      BY <3>2 DEF HasEntry
  <2>4. Shaped(y.din)
    BY <1>1, <1>3, <1>9, <1>10, <2>2, <2>3, Bounds DEF Shaped, DiskInodes
  <2>5. ASSUME ~y.dirty PROVE Saved(y.din, old)
    <3>1. ~x.dirty /\ a = x.din.indirect
      BY <2>3, <2>5
    <3>2. Saved(x.din, old) /\ a # 0
      BY <1>9, <1>10, <2>2, <3>1
    <3> QED
      BY <1>3, <2>3, <3>1, <3>2, Bounds DEF Saved, DiskInodes
  <2>6. ASSUME NEW m, OnlyAt(c, m, i), ForAll(m), m[i].indirect = a, m[i].direct = x.din.direct,
               NEW f \in SUBSET Data, b \in f,
               Allotted(LayoutOf(m, x.ent), f), Clear(m, x.ent), EntryIn(x.ent, a, k) = 0
        PROVE  Allotted(LayoutOf(d, y.ent), f \ {b}) /\ Clear(d, y.ent)
    <3>1. \A j \in Inos : m[j].indirect = a => j = i
      BY <2>6, <2>2, OneIndirect
    <3>2. OnlyAt(m, d, i) /\ d[i].direct = m[i].direct /\ d[i].indirect = a
      BY <1>8, <2>3, <2>6 DEF OnlyAt
    <3>3. SetAt(LayoutOf(m, x.ent), LayoutOf(d, y.ent), EntryOf(i, k), b)
      BY <1>1, <1>3, <2>2, <2>3, <2>6, <3>1, <3>2, EntrySet
    <3>4. EntryOf(i, k) \in Places /\ LayoutOf(m, x.ent)[EntryOf(i, k)] = EntryIn(x.ent, a, k)
      <4>1. /\ EntryOf(i, k) \in Places
            /\ LayoutOf(m, x.ent)[EntryOf(i, k)] = EntryIn(x.ent, m[i].indirect, k)
        BY ONLY <1>3, EntryAt
      <4> QED
        BY <2>6, <4>1
    <3>5. Allotted(LayoutOf(d, y.ent), f \ {b})
      BY <2>6, <3>3, <3>4, PutIn
    <3>6. \A q \in Data : q # a => y.ent[q] = x.ent[q]
      BY <1>1, <2>3
    <3>7. Clear(d, y.ent)
      BY <2>6, <3>2, <3>6 DEF Clear, OnlyAt
    <3> QED
      BY <3>5, <3>7
  <2>7. Allotted(LayoutOf(d, y.ent), y.free) /\ Clear(d, y.ent)
    <3>1. CASE x.din.indirect # 0
      <4>1. a \notin x.free
        BY <1>4, <1>8, <1>9, <2>2, <3>1, OneIndirect
      <4>2. x.free \ {a} = x.free
        BY <4>1
      <4>3. /\ OnlyAt(c, c, i) /\ c[i].indirect = a
            /\ c[i].direct = x.din.direct /\ EntryIn(x.ent, a, k) = 0
        BY <1>4, <1>8, <1>10, <1>13, <3>1, <2>2 DEF OnlyAt, EntryIn
      <4> QED
        BY <1>1, <1>8, <1>9, <2>1, <2>3, <2>6, <4>2, <4>3
    <3>2. CASE x.din.indirect = 0
      <4>1. PICK m : m = [ds EXCEPT ![i] = [x.din EXCEPT !.indirect = a]]
        OBVIOUS
      <4>2. OnlyAt(c, m, i) /\ ForAll(m) /\ m[i].indirect = a /\ m[i].direct = x.din.direct
        BY <1>1, <1>7, <2>2, <4>1 DEF OnlyAt, ForAll, DiskInodes
      <4>3. x.ent[a] = NoEntries
        <5>1. \A j \in Inos : c[j].indirect # a
          <6>1. ASSUME NEW j \in Inos, c[j].indirect = a PROVE FALSE
            BY <1>9, <2>2, <3>2, <6>1, OneIndirect
          <6> QED
            BY <6>1
        <5> QED
          BY <1>9, <2>2, <5>1 DEF Clear
      <4>4. SetAt(LayoutOf(c, x.ent), LayoutOf(m, x.ent), IndirectOf(i), a)
        BY <1>8, <3>2, <4>2, <4>3, IndirectSet
      <4>5. IndirectOf(i) \in Places /\ LayoutOf(c, x.ent)[IndirectOf(i)] = 0
        BY <1>8, <3>2, IndirectAt
      <4>6. Allotted(LayoutOf(m, x.ent), x.free \ {a})
        BY <1>1, <1>9, <2>2, <3>2, <4>4, <4>5, PutIn
      <4>7. Clear(m, x.ent)
        BY <1>9, <1>8, <3>2, <1>10, <4>2 DEF Clear, OnlyAt
      <4>8. EntryIn(x.ent, a, k) = 0
        BY <1>3, <4>3 DEF EntryIn, NoEntries
      <4> QED
        BY <1>1, <2>1, <2>3, <2>6, <4>2, <4>6, <4>7, <4>8
    <3> QED
      BY <3>1, <3>2
  <2> QED
    BY <1>6, <1>7, <2>3, <2>4, <2>5, <2>7 DEF GoodMap
<1> QED
  BY <1>11, <1>12, <1>13

\* A place is emptied.
LEMMA Emptied ==
    ASSUME NEW g, NEW h, NEW f \in SUBSET Data, Allotted(g, f),
           NEW p \in Places, NEW b \in Data \cup {0}, g[p] = b, SetAt(g, h, p, 0)
    PROVE  Allotted(h, f \cup ({b} \ {0}))
<1>1. CASE b = 0
  <2>1. \A q \in Places : h[q] = g[q]
    BY <1>1 DEF SetAt
  <2>2. f \cup ({b} \ {0}) = f
    BY <1>1
  <2> QED
    BY <2>1, <2>2 DEF Allotted
<1>2. CASE b # 0
  <2>1. b \in Data /\ f \cup ({b} \ {0}) = f \cup {b}
    BY <1>2
  <2> QED
    BY <2>1, TakeOut
<1> QED
  BY <1>1, <1>2

\* z is x after its last block, a direct one, has been dropped.
LosesDirect(x, z, k) ==
    /\ z \in BlockMaps /\ z.free = x.free \cup ({x.din.direct[k]} \ {0})
    /\ z.ent = x.ent /\ z.dirty
    /\ z.din.direct = [x.din.direct EXCEPT ![k] = 0] /\ z.din.indirect = x.din.indirect
    /\ z.din.size = x.din.size /\ z.din.blocks = k

\* What DropBlock does to a direct block.
LEMMA DirectDropped ==
    ASSUME NEW x \in BlockMaps, x.din.blocks > 0, NEW k, k = x.din.blocks - 1, k < NDIRECT
    PROVE  LosesDirect(x, DropBlock(x), k)
<1>1. k \in 0..NDIRECT - 1 /\ k \in 0..MaxBlocks /\ x.din.direct[k] \in Data \cup {0}
  BY Bounds DEF BlockMaps, DiskInodes
<1> DEFINE din == [x.din EXCEPT !.blocks = k, !.direct[k] = 0]
           fr == x.free \cup ({x.din.direct[k]} \ {0})
           z == DropBlock(x)
<1>2. z = [x EXCEPT !.free = fr, !.din = din, !.dirty = TRUE]
  BY <1>1 DEF DropBlock, BlockMaps, DiskInodes
<1>3. /\ din \in DiskInodes /\ din.size = x.din.size /\ din.blocks = k
      /\ din.direct = [x.din.direct EXCEPT ![k] = 0] /\ din.indirect = x.din.indirect
  BY <1>1 DEF BlockMaps, DiskInodes
<1>4. fr \in SUBSET Data
  BY <1>1 DEF BlockMaps
<1> HIDE DEF din, z, fr
<1>5. z \in BlockMaps /\ z.din = din /\ z.free = fr /\ z.ent = x.ent /\ z.dirty
  BY <1>2, <1>3, <1>4 DEF BlockMaps
<1> QED
  BY <1>3, <1>5 DEF LosesDirect, z, fr

\* z is x after its last block, behind the direct ones, has been dropped.
LosesEntry(x, z, k) ==
    /\ z \in BlockMaps /\ z.dirty
    /\ z.free = x.free \cup ({x.ent[x.din.indirect][k]} \ {0})
    /\ z.ent = [x.ent EXCEPT ![x.din.indirect][k] = 0]
    /\ z.din.direct = x.din.direct /\ z.din.indirect = x.din.indirect
    /\ z.din.size = x.din.size /\ z.din.blocks = k + NDIRECT

\* What DropBlock does to an entry.
LEMMA EntryDropped ==
    ASSUME NEW x \in BlockMaps, x.din.blocks > NDIRECT, x.din.indirect # 0,
           NEW k, k = x.din.blocks - 1 - NDIRECT
    PROVE  LosesEntry(x, DropBlock(x), k)
<1>1. /\ k \in 0..NENTRY - 1 /\ x.din.blocks - 1 \in 0..MaxBlocks /\ ~(x.din.blocks - 1 < NDIRECT)
      /\ k + NDIRECT = x.din.blocks - 1
      /\ x.din.indirect \in Data /\ x.ent[x.din.indirect][k] \in Data \cup {0}
  BY Bounds DEF BlockMaps, DiskInodes, Entries
<1> DEFINE din == [x.din EXCEPT !.blocks = x.din.blocks - 1]
           fr == x.free \cup ({x.ent[x.din.indirect][k]} \ {0})
           e == [x.ent EXCEPT ![x.din.indirect][k] = 0]
           z == DropBlock(x)
<1>2. z = [x EXCEPT !.free = fr, !.din = din, !.dirty = TRUE, !.ent = e]
  BY <1>1 DEF DropBlock, BlockMaps, DiskInodes
<1>3. /\ din \in DiskInodes /\ din.size = x.din.size /\ din.blocks = x.din.blocks - 1
      /\ din.direct = x.din.direct /\ din.indirect = x.din.indirect
  BY <1>1 DEF BlockMaps, DiskInodes
<1>4. fr \in SUBSET Data /\ e \in [Data -> Entries]
  BY <1>1 DEF BlockMaps, Entries
<1> HIDE DEF din, z, fr, e
<1>5. z \in BlockMaps /\ z.din = din /\ z.free = fr /\ z.ent = e /\ z.dirty
  BY <1>2, <1>3, <1>4 DEF BlockMaps
<1> QED
  BY <1>1, <1>3, <1>5 DEF LosesEntry, z, fr, e

\* Shrinking by a block keeps the block map good.
LEMMA Drop ==
    ASSUME NEW ds \in [Inos -> DiskInodes], NEW i \in Inos, NEW old, NEW x,
           GoodMap(ds, i, old, x), x.din.blocks > 0
    PROVE  GoodMap(ds, i, old, DropBlock(x)) /\ DropBlock(x).din.size = x.din.size
<1>1. /\ x \in BlockMaps /\ x.din \in DiskInodes
      /\ x.free \in SUBSET Data /\ x.ent \in [Data -> Entries]
  BY DEF GoodMap, BlockMaps
<1>2. x.din.blocks \in Nat /\ x.din.blocks <= MaxBlocks
  BY <1>1, Bounds DEF DiskInodes
<1>3. PICK y : y = DropBlock(x)
  OBVIOUS
<1>4. PICK c, d : c = [ds EXCEPT ![i] = x.din] /\ d = [ds EXCEPT ![i] = y.din]
  OBVIOUS
<1>5. ForAll(c) /\ c[i] = x.din /\ d[i] = y.din /\ OnlyAt(c, d, i)
  BY <1>1, <1>4 DEF OnlyAt, ForAll
<1>6. Allotted(LayoutOf(c, x.ent), x.free) /\ Clear(c, x.ent) /\ Shaped(x.din)
  BY <1>4 DEF GoodMap
<1>7. CASE x.din.blocks <= NDIRECT
  <2>1. PICK k : k = x.din.blocks - 1
    OBVIOUS
  <2>2. k \in 0..NDIRECT - 1 /\ k < NDIRECT
    BY <1>2, <1>7, <2>1, Bounds
  <2>3. LosesDirect(x, y, k)
    BY <1>1, <1>3, <2>1, <2>2, DirectDropped
  <2>4. SetAt(LayoutOf(c, x.ent), LayoutOf(d, x.ent), DirectOf(i, k), 0)
    BY <1>5, <2>2, <2>3, DirectSet DEF LosesDirect
  <2>5. DirectOf(i, k) \in Places /\ LayoutOf(c, x.ent)[DirectOf(i, k)] = x.din.direct[k]
    <3>1. DirectOf(i, k) \in Places /\ LayoutOf(c, x.ent)[DirectOf(i, k)] = c[i].direct[k]
      BY ONLY <2>2, DirectAt
    <3> QED
      BY <1>5, <3>1
  <2>6. x.din.direct[k] \in Data \cup {0}
    BY <1>1, <2>2 DEF DiskInodes
  <2>7. Allotted(LayoutOf(d, y.ent), y.free)
    <3>1. Allotted(LayoutOf(d, x.ent), x.free \cup ({x.din.direct[k]} \ {0}))
      BY <1>1, <1>6, <2>4, <2>5, <2>6, Emptied
    <3> QED
      BY <2>3, <3>1 DEF LosesDirect
  <2>8. Clear(d, y.ent)
    BY <1>5, <1>6, <2>3 DEF Clear, OnlyAt, LosesDirect
  <2>9. Shaped(y.din)
    <3>1. \A j \in 0..NDIRECT - 1 : y.din.direct[j] = IF j = k THEN 0 ELSE x.din.direct[j]
      <4>1. PICK v, w : v = x.din.direct /\ w = y.din.direct
        OBVIOUS
      <4>2. v \in [0..NDIRECT - 1 -> Data \cup {0}] /\ w = [v EXCEPT ![k] = 0]
        BY <1>1, <2>3, <4>1 DEF LosesDirect, DiskInodes
      <4>3. \A j \in 0..NDIRECT - 1 : w[j] = IF j = k THEN 0 ELSE v[j]
        BY <4>2
      <4> QED
        BY <4>1, <4>3
    <3>2. y.din.blocks = k /\ ~(y.din.blocks > NDIRECT)
      BY <2>2, <2>3, Bounds DEF LosesDirect
    <3>3. ASSUME NEW j \in 0..NDIRECT - 1, y.din.direct[j] # 0 PROVE j < k
      <4>1. j # k /\ x.din.direct[j] # 0
        BY <3>1, <3>3
      <4>2. j < x.din.blocks
        BY <1>6, <4>1 DEF Shaped
      <4> QED
        BY <1>2, <2>1, <4>1, <4>2, Bounds
    <3> QED
      BY <3>2, <3>3 DEF Shaped
  <2> QED
    BY <1>3, <1>4, <2>3, <2>7, <2>8, <2>9 DEF GoodMap, LosesDirect
<1>8. CASE x.din.blocks > NDIRECT
  <2>1. PICK k : k = x.din.blocks - 1 - NDIRECT
    OBVIOUS
  <2>2. k \in 0..NENTRY - 1
    BY <1>2, <1>8, <2>1, Bounds
  <2>0. PICK a : a = x.din.indirect
    OBVIOUS
  <2>3. a # 0 /\ a \in Data
    BY <1>1, <1>6, <1>8, <2>0 DEF Shaped, DiskInodes
  <2>4. LosesEntry(x, y, k)
    BY <1>1, <1>3, <1>8, <2>0, <2>1, <2>3, EntryDropped
  <2>5. \A j \in Inos : c[j].indirect = a => j = i
    BY <1>5, <1>6, <2>0, <2>3, OneIndirect
  <2>6. SetAt(LayoutOf(c, x.ent), LayoutOf(d, y.ent), EntryOf(i, k), 0)
    BY <1>1, <1>5, <2>0, <2>2, <2>3, <2>4, <2>5, EntrySet DEF LosesEntry
  <2>7. EntryOf(i, k) \in Places /\ LayoutOf(c, x.ent)[EntryOf(i, k)] = x.ent[a][k]
    <3>1. /\ EntryOf(i, k) \in Places
          /\ LayoutOf(c, x.ent)[EntryOf(i, k)] = EntryIn(x.ent, c[i].indirect, k)
      BY ONLY <2>2, EntryAt
    <3> QED
      BY <1>5, <2>0, <2>3, <3>1 DEF EntryIn
  <2>8. x.ent[a][k] \in Data \cup {0}
    BY <1>1, <2>2, <2>3 DEF Entries
  <2>9. Allotted(LayoutOf(d, y.ent), y.free)
    <3>1. Allotted(LayoutOf(d, y.ent), x.free \cup ({x.ent[a][k]} \ {0}))
      BY <1>1, <1>6, <2>6, <2>7, <2>8, Emptied
    <3> QED
      BY <2>0, <2>4, <3>1 DEF LosesEntry
  <2>10. Clear(d, y.ent)
    <3>1. \A q \in Data : q # a => y.ent[q] = x.ent[q]
      BY <1>1, <2>0, <2>4 DEF LosesEntry
    <3>2. d[i].indirect = a
      BY <1>5, <2>0, <2>4 DEF LosesEntry
    <3> QED
      BY <1>5, <1>6, <2>0, <3>1, <3>2 DEF Clear, OnlyAt
  <2>11. Shaped(y.din)
    BY <1>1, <1>2, <1>6, <1>8, <2>0, <2>1, <2>2, <2>3, <2>4, Bounds DEF Shaped, LosesEntry, DiskInodes
  <2> QED
    BY <1>3, <1>4, <2>4, <2>9, <2>10, <2>11 DEF GoodMap, LosesEntry
<1> QED
  BY <1>2, <1>7, <1>8, Bounds

------------------------------------------------------------------------------
(* The loop of sfs_truncfile                                               *)
\* One round of the loop of Truncfile keeps the map.
LEMMA Step ==
    ASSUME NEW ds \in [Inos -> DiskInodes], NEW i \in Inos, NEW old \in DiskInodes, NEW x,
           GoodMap(ds, i, old, x), NEW n \in 0..MaxBlocks
    PROVE  GoodMap(ds, i, old, StepTo(x, n)) /\ StepTo(x, n).din.size = x.din.size
<1>1. x \in BlockMaps /\ x.din.blocks \in 0..MaxBlocks
  BY DEF GoodMap, BlockMaps, DiskInodes
<1>2. CASE ~x.ok \/ x.din.blocks = n
  BY <1>2 DEF StepTo
<1>3. CASE x.ok /\ x.din.blocks # n /\ x.din.blocks < n
  <2>1. StepTo(x, n) = AddBlock(x)
    BY <1>3 DEF StepTo
  <2>2. x.din.blocks < MaxBlocks
    BY <1>1, <1>3, Bounds
  <2>3. x.din.blocks < NDIRECT \/ NDIRECT <= x.din.blocks
    BY <1>1, Bounds
  <2> QED
    BY <1>3, <2>1, <2>2, <2>3, AddDirect, AddIndirect
<1>4. CASE x.ok /\ x.din.blocks # n /\ ~(x.din.blocks < n)
  <2>1. StepTo(x, n) = DropBlock(x)
    BY <1>4 DEF StepTo
  <2>2. x.din.blocks > 0
    BY <1>1, <1>4, Bounds
  <2> QED
    BY <2>1, <2>2, Drop
<1> QED
  BY <1>2, <1>3, <1>4

\* Induction over 0..m for a set.
LEMMA UpTo ==
    ASSUME NEW m \in Nat, NEW S, 0 \in S, \A k \in Nat : k < m /\ k \in S => k + 1 \in S
    PROVE  \A k \in 0..m : k \in S
<1> DEFINE B == {k \in 0..m : k \notin S}
<1> SUFFICES ASSUME B # {} PROVE FALSE
  OBVIOUS
<1>1. B \in SUBSET Nat
  OBVIOUS
<1>2. Min(B) \in B /\ \A y \in B : Min(B) <= y
  BY <1>1, NatMin
<1>3. PICK k \in B : \A y \in B : k <= y
  BY <1>2
<1>4. k \in Nat /\ k <= m /\ k # 0
  BY <1>3
<1>5. k - 1 \in Nat /\ k - 1 < m /\ k - 1 \notin B
  BY <1>3, <1>4
<1>6. k - 1 \in S
  BY <1>4, <1>5
<1>7. k \in S
  BY <1>4, <1>5, <1>6
<1> QED
  BY <1>3, <1>7

\* The values of the loop of Truncfile up to round m.
Rounds(f, x, n, m) == f = [k \in 0..m |-> IF k = 0 THEN x ELSE StepTo(f[k - 1], n)]

\* The rounds of the loop of sfs_truncfile are a function, however many.
LEMMA RoundsExist == ASSUME NEW x, NEW n, NEW m \in Nat PROVE \E f : Rounds(f, x, n, m)
<1> DEFINE S == {k \in Nat : \E f : Rounds(f, x, n, k)}
<1>1. 0 \in S
  <2>1. PICK f : f = [k \in 0..0 |-> x]
    OBVIOUS
  <2>2. f = [k \in 0..0 |-> IF k = 0 THEN x ELSE StepTo(f[k - 1], n)]
    BY <2>1
  <2> QED
    BY <2>2 DEF Rounds
<1>2. ASSUME NEW k \in Nat, k \in S PROVE k + 1 \in S
  <2>1. PICK f : Rounds(f, x, n, k)
    BY <1>2
  <2>2. PICK g : g = [j \in 0..k + 1 |-> IF j = k + 1 THEN StepTo(f[k], n) ELSE f[j]]
    OBVIOUS
  <2>3. ASSUME NEW j \in 0..k + 1
        PROVE g[j] = IF j = 0 THEN x ELSE StepTo(g[j - 1], n)
    <3>1. CASE j = k + 1
      BY <2>2, <3>1
    <3>2. CASE j # k + 1
      <4>1. j \in 0..k /\ (j # 0 => j - 1 \in 0..k + 1 /\ j - 1 # k + 1)
        BY <3>2
      <4>2. f[j] = IF j = 0 THEN x ELSE StepTo(f[j - 1], n)
        BY <2>1, <4>1 DEF Rounds
      <4> QED
        BY <2>2, <3>2, <4>1, <4>2
    <3> QED
      BY <3>1, <3>2
  <2>4. g = [j \in 0..k + 1 |-> g[j]]
    BY <2>2
  <2>5. g = [j \in 0..k + 1 |-> IF j = 0 THEN x ELSE StepTo(g[j - 1], n)]
    BY <2>3, <2>4
  <2> QED
    BY <2>5 DEF Rounds
<1> HIDE DEF S
<1>3. m \in S
  BY <1>1, <1>2, UpTo
<1> QED
  BY <1>3 DEF S

\* A size needs a number of blocks.
LEMMA QuotientNat == ASSUME NEW p \in Nat \ {0}, NEW x \in Nat PROVE x \div p \in Nat
<1>1. x \div p \in Int /\ x = p * (x \div p) + (x % p) /\ x % p \in 0..p - 1
  OBVIOUS
<1> DEFINE q == x \div p
<1>2. q < 0 => p * q <= -p
  BY <1>1, SMT
<1> QED
  BY <1>1, <1>2, SMT

\* A size asks for a number of blocks.
LEMMA BlocksForNat == ASSUME NEW len \in Nat PROVE BlocksFor(len) \in Nat
<1>1. BLKSIZE \in Nat \ {0} /\ len + BLKSIZE - 1 \in Nat
  BY BlockMapConstants
<1> QED
  BY <1>1, QuotientNat DEF BlocksFor

\* What the loop of Truncfile comes to.
Rounded(x, len) ==
    LET n == IF BlocksFor(len) <= MaxBlocks THEN BlocksFor(len) ELSE MaxBlocks
        after[k \in 0..MaxBlocks] == IF k = 0 THEN x ELSE StepTo(after[k - 1], n)
    IN after[MaxBlocks]

\* The loop of sfs_truncfile keeps the block map good, round by round.
LEMMA RoundedGood ==
    ASSUME NEW ds \in [Inos -> DiskInodes], NEW i \in Inos, NEW old \in DiskInodes, NEW x,
           GoodMap(ds, i, old, x), NEW len \in Nat
    PROVE  GoodMap(ds, i, old, Rounded(x, len)) /\ Rounded(x, len).din.size = x.din.size
<1> DEFINE n == IF BlocksFor(len) <= MaxBlocks THEN BlocksFor(len) ELSE MaxBlocks
           f == CHOOSE f : f = [k \in 0..MaxBlocks |-> IF k = 0 THEN x ELSE StepTo(f[k - 1], n)]
<1>1. n \in 0..MaxBlocks
  BY BlocksForNat, Bounds
<1>2. Rounded(x, len) = f[MaxBlocks]
  BY Zenon DEF Rounded
<1> HIDE DEF n
<1>3. f = [k \in 0..MaxBlocks |-> IF k = 0 THEN x ELSE StepTo(f[k - 1], n)]
  <2>1. \E g : g = [k \in 0..MaxBlocks |-> IF k = 0 THEN x ELSE StepTo(g[k - 1], n)]
    <3>1. PICK g : Rounds(g, x, n, MaxBlocks)
      BY RoundsExist, Bounds
    <3>2. g = [k \in 0..MaxBlocks |-> IF k = 0 THEN x ELSE StepTo(g[k - 1], n)]
      BY <3>1, Zenon DEF Rounds
    <3> QED
      BY <3>2, Zenon
  <2> QED
    BY <2>1, Zenon
<1> HIDE DEF f
<1>4. f[0] = x /\ \A k \in Nat : k < MaxBlocks => f[k + 1] = StepTo(f[k], n)
  BY <1>3, Bounds
<1> DEFINE S == {k \in Nat : k <= MaxBlocks =>
                        GoodMap(ds, i, old, f[k]) /\ f[k].din.size = x.din.size}
<1>5. 0 \in S
  BY <1>4
<1>6. ASSUME NEW k \in Nat, k < MaxBlocks, k \in S PROVE k + 1 \in S
  <2>1. GoodMap(ds, i, old, f[k]) /\ f[k].din.size = x.din.size
    BY <1>6, Bounds
  <2>2. PICK y : y = f[k]
    OBVIOUS
  <2>3. GoodMap(ds, i, old, StepTo(y, n)) /\ StepTo(y, n).din.size = y.din.size
    BY <1>1, <2>1, <2>2, Step
  <2> QED
    BY <1>4, <1>6, <2>1, <2>2, <2>3
<1> HIDE DEF S
<1>7. MaxBlocks \in S
  BY <1>5, <1>6, UpTo, Bounds
<1> QED
  BY <1>2, <1>7, Bounds DEF S

\* The size may change.
Sized(y, len) == [y EXCEPT !.din.size = len, !.dirty = TRUE]

\* The new size is noted.
LEMMA Resized ==
    ASSUME NEW ds, NEW i, NEW old, NEW y, GoodMap(ds, i, old, y), NEW len \in Nat
    PROVE  /\ GoodMap(ds, i, old, Sized(y, len)) /\ Sized(y, len).ok = y.ok
           /\ Sized(y, len).din.size = len
<1>0. PICK z : z = Sized(y, len)
  OBVIOUS
<1>1. y \in BlockMaps
  BY DEF GoodMap
<1>2. /\ z \in BlockMaps /\ z.free = y.free /\ z.ent = y.ent /\ z.dirty /\ z.ok = y.ok
      /\ z.din.size = len /\ z.din.blocks = y.din.blocks
      /\ z.din.direct = y.din.direct /\ z.din.indirect = y.din.indirect
  BY <1>0, <1>1 DEF Sized, BlockMaps, DiskInodes
<1>3. PICK c, d : c = [ds EXCEPT ![i] = y.din] /\ d = [ds EXCEPT ![i] = z.din]
  OBVIOUS
<1>4. Allotted(LayoutOf(c, y.ent), y.free) /\ Clear(c, y.ent) /\ Shaped(y.din)
  BY <1>3 DEF GoodMap
<1>5. SameMaps(c, d)
  BY <1>2, <1>3 DEF SameMaps
<1>6. Allotted(LayoutOf(d, z.ent), z.free) /\ Clear(d, z.ent)
  BY <1>2, <1>4, <1>5, MapsKept
<1>7. Shaped(z.din)
  BY <1>2, <1>4 DEF Shaped
<1> QED
  BY <1>0, <1>2, <1>3, <1>6, <1>7 DEF GoodMap

\* What it does as a whole.  The size changes unless the blocks run out.
LEMMA TruncfileGood ==
    ASSUME NEW ds \in [Inos -> DiskInodes], NEW i \in Inos, NEW old \in DiskInodes, NEW x,
           GoodMap(ds, i, old, x), x.ok, NEW len \in Nat
    PROVE  /\ GoodMap(ds, i, old, Truncfile(x, len))
           /\ Truncfile(x, len).din.size = IF Truncfile(x, len).ok THEN len ELSE x.din.size
<1>1. PICK y : y = Rounded(x, len)
  OBVIOUS
<1>2. GoodMap(ds, i, old, y) /\ y.din.size = x.din.size
  BY <1>1, RoundedGood
<1>3. Truncfile(x, len) = IF x.din.size = len THEN x
                          ELSE IF y.ok THEN Sized(y, len) ELSE y
  BY <1>1 DEF Truncfile, Rounded, Sized
<1>4. CASE x.din.size = len
  BY <1>3, <1>4
<1>5. CASE x.din.size # len /\ ~y.ok
  BY <1>2, <1>3, <1>5
<1>6. CASE x.din.size # len /\ y.ok
  <2>1. PICK z : z = Sized(y, len)
    OBVIOUS
  <2>2. GoodMap(ds, i, old, z) /\ z.din.size = len /\ z.ok = y.ok
    BY <1>2, <2>1, Resized
  <2> QED
    BY <1>3, <1>6, <2>1, <2>2
<1> QED
  BY <1>4, <1>5, <1>6

-----------------------------------------------------------------------------

------------------------------------------------------------------------------
(* The invariant                                                           *)
\* The inodes of all files, in memory or on the disk.
Disks == [i \in Inos |-> Current(i)]

\* The types of the variables.
TypeOK ==
    /\ files \in [Procs -> [FDs -> OpenFile \cup {None}] \cup {None}]
    /\ inode \in [Inos -> Inode \cup {None}] /\ disk \in [Inos -> DiskInodes]
    /\ leaked \in [Inos -> Nat]
    /\ free \in SUBSET Data /\ ent \in [Data -> Entries] /\ panic \in BOOLEAN

\* The blocks of all files.
MapsOK == /\ Allotted(LayoutOf(Disks, ent), free) /\ Clear(Disks, ent)
          /\ \A i \in Inos : Shaped(Current(i))

\* The inodes in memory that are clean.
SavedOK == \A i \in Inos : inode[i] # None /\ ~inode[i].dirty => Saved(inode[i].din, disk[i])

\* The inductive invariant.
IndInv == TypeOK /\ CountsExact /\ MapsOK /\ SavedOK

\* What is there is not None.
LEMMA NotNone ==
    /\ \A t \in [FDs -> OpenFile \cup {None}] : t # None
    /\ \A f \in OpenFile : f # None
    /\ \A n \in Inode : n # None
  BY NoneAssumption

\* Who has file i open, given the tables.
UserOf(fs, i, q) == fs[q[1]] # None /\ fs[q[1]][q[2]] # None /\ fs[q[1]][q[2]].node = i

------------------------------------------------------------------------------
(* Counting the descriptors of a file                                      *)
\* The descriptors that name file i, before and after a step; they are finite.
LEMMA OpenedSet ==
    ASSUME NEW i \in Inos
    PROVE  /\ Opened(i) = {q \in Procs \X FDs : UserOf(files, i, q)}
           /\ Opened(i)' = {q \in Procs \X FDs : UserOf(files', i, q)}
           /\ IsFiniteSet(Opened(i)) /\ Cardinality(Opened(i)) \in Nat
           /\ IsFiniteSet(Opened(i)') /\ Cardinality(Opened(i)') \in Nat
<1>1. /\ Opened(i) = {q \in Procs \X FDs : UserOf(files, i, q)}
      /\ Opened(i)' = {q \in Procs \X FDs : UserOf(files', i, q)}
  BY DEF Opened, OpenIn, IsOpen, UserOf
<1>2. IsFiniteSet(Procs \X FDs)
  BY FilesConstants, FS_Product
<1>3. \A S : S \subseteq Procs \X FDs => IsFiniteSet(S) /\ Cardinality(S) \in Nat
  BY <1>2, FS_Subset, FS_CardinalityType
<1> QED
  BY <1>1, <1>3

\* The descriptors of one process that name file i.
LEMMA UsesSet ==
    ASSUME NEW p \in Procs, NEW ds \in SUBSET FDs, NEW i \in Inos
    PROVE  /\ Uses(p, ds, i) = {d \in ds : UserOf(files, i, <<p, d>>)}
           /\ IsFiniteSet(Uses(p, ds, i)) /\ Cardinality(Uses(p, ds, i)) \in Nat
<1>1. Uses(p, ds, i) = {d \in ds : UserOf(files, i, <<p, d>>)}
  BY DEF Uses, UserOf
<1>2. IsFiniteSet(ds)
  BY FilesConstants, FS_Subset
<1>3. Uses(p, ds, i) \subseteq ds
  BY <1>1
<1> QED
  BY <1>1, <1>2, <1>3, FS_Subset, FS_CardinalityType

\* As many pairs as second elements.
LEMMA Paired ==
    ASSUME NEW q, NEW U, IsFiniteSet(U)
    PROVE  IsFiniteSet({q} \X U) /\ Cardinality({q} \X U) = Cardinality(U)
<1> DEFINE Q == {q}
<1>1. IsFiniteSet(Q) /\ Cardinality(Q) = 1
  BY FS_Singleton
<1> HIDE DEF Q
<1>2. IsFiniteSet(Q \X U) /\ Cardinality(Q \X U) = Cardinality(Q) * Cardinality(U)
  BY <1>1, FS_Product
<1>3. Cardinality(U) \in Nat
  BY FS_CardinalityType
<1> QED
  BY <1>1, <1>2, <1>3 DEF Q

\* Adding and removing users.
LEMMA CountJoined ==
    ASSUME NEW S, NEW T, IsFiniteSet(S), IsFiniteSet(T), S \cap T = {}
    PROVE  Cardinality(S \cup T) = Cardinality(S) + Cardinality(T)
<1>1. Cardinality(S \cap T) = 0
  BY FS_EmptySet
<1>2. /\ Cardinality(S \cup T) = Cardinality(S) + Cardinality(T) - Cardinality(S \cap T)
      /\ Cardinality(S) \in Nat /\ Cardinality(T) \in Nat
  BY FS_Union, FS_CardinalityType
<1> QED
  BY <1>1, <1>2

\* Cardinality of what is left.
LEMMA CountLeft ==
    ASSUME NEW S, NEW T, IsFiniteSet(S), T \subseteq S
    PROVE  /\ Cardinality(S \ T) = Cardinality(S) - Cardinality(T)
           /\ Cardinality(T) <= Cardinality(S)
<1>1. IsFiniteSet(T) /\ IsFiniteSet(S \ T)
  BY FS_Subset
<1>2. Cardinality((S \ T) \cup T) = Cardinality(S \ T) + Cardinality(T)
  BY <1>1, CountJoined
<1>3. (S \ T) \cup T = S
  OBVIOUS
<1>4. Cardinality(S) \in Nat /\ Cardinality(T) \in Nat /\ Cardinality(S \ T) \in Nat
  BY <1>1, FS_CardinalityType
<1> QED
  BY <1>2, <1>3, <1>4

\* An inode in memory with n users and l lost references.
CountOK(node, n, l) ==
    IF n + l = 0 THEN node = None ELSE node # None /\ node.open = n /\ node.ref = n + l

\* CountsExact, file by file.
LEMMA Counts ==
    /\ CountsExact <=> \A i \in Inos :
          CountOK(inode[i], Cardinality(Opened(i)), leaked[i])
    /\ CountsExact' <=> \A i \in Inos :
          CountOK(inode'[i], Cardinality(Opened(i)'), leaked'[i])
  BY DEF CountsExact, CountOK

\* Inode and disk of file i are replaced, with the same file in them.
SameFile(i, node, dsk) ==
    LET cur == IF node = None THEN dsk ELSE node.din IN
    /\ node \in Inode \cup {None} /\ dsk \in DiskInodes
    /\ cur.size = Current(i).size /\ cur.direct = Current(i).direct
    /\ cur.indirect = Current(i).indirect /\ Shaped(cur)
    /\ node # None /\ ~node.dirty => Saved(node.din, dsk)

\* There is an inode for each file.
LEMMA CurrentType == ASSUME TypeOK, NEW i \in Inos PROVE Current(i) \in DiskInodes
  BY DEF TypeOK, Current, Inode

------------------------------------------------------------------------------
(* Closing                                                                 *)
\* vfs_close of n of m descriptors: the counts are right for the others, and
\* dropping the inode loses nothing of the file but a number of blocks that is too
\* large.
LEMMA PutGood ==
    ASSUME TypeOK, MapsOK, SavedOK, NEW i \in Inos, NEW n \in Nat, NEW m \in Nat, n <= m,
           NEW l \in Nat, CountOK(inode[i], m, l)
    PROVE  /\ SameFile(i, Put(i, n).inode, Put(i, n).disk)
           /\ CountOK(Put(i, n).inode, m - n, l)
<1>1. /\ inode[i] \in Inode \cup {None} /\ disk[i] \in DiskInodes /\ Shaped(Current(i))
      /\ (inode[i] # None /\ ~inode[i].dirty => Saved(inode[i].din, disk[i]))
  BY DEF TypeOK, MapsOK, SavedOK
<1>2. CASE n = 0
  <2>1. Put(i, n).inode = inode[i] /\ Put(i, n).disk = disk[i]
    BY <1>2 DEF Put
  <2> QED
    BY <1>1, <1>2, <2>1 DEF SameFile, Current
<1>3. CASE n > 0
  <2>1. inode[i] # None /\ inode[i].open = m /\ inode[i].ref = m + l
    BY <1>3 DEF CountOK
  <2>2. PICK old : old = inode[i] /\ old \in Inode
    BY <1>1, <2>1
  <2>3. PICK node : node = [old EXCEPT !.ref = @ - n, !.open = @ - n]
    OBVIOUS
  <2>4. /\ node \in Inode /\ node.open = m - n /\ node.ref = m + l - n
        /\ node.din = old.din /\ node.dirty = old.dirty
    <3>1. old.open = m /\ old.ref = m + l /\ m - n \in Nat /\ m + l - n \in Nat
      BY <2>1, <2>2
    <3>2. /\ node.open = old.open - n /\ node.ref = old.ref - n
          /\ node.din = old.din /\ node.dirty = old.dirty
      BY <2>2, <2>3 DEF Inode
    <3>3. node = [ref |-> old.ref - n, open |-> old.open - n, din |-> old.din, dirty |-> old.dirty]
      BY <2>2, <2>3 DEF Inode
    <3>4. node \in Inode
      BY <2>2, <3>1, <3>3 DEF Inode
    <3> QED
      BY <3>1, <3>2, <3>4
  <2>5. node # None /\ Current(i) = old.din
    BY <2>1, <2>2, <2>4, NotNone DEF Current
  <2>6. CASE node.open > 0
    <3>1. Put(i, n).inode = node /\ Put(i, n).disk = disk[i]
      BY <1>3, <2>2, <2>3, <2>6 DEF Put
    <3>2. SameFile(i, node, disk[i])
      BY <1>1, <2>1, <2>2, <2>4, <2>5 DEF SameFile
    <3>3. CountOK(node, m - n, l)
      BY <2>4, <2>5, <2>6 DEF CountOK
    <3> QED
      BY <3>1, <3>2, <3>3
  <2>7. CASE node.open = 0
    <3>1. PICK d : d = IF node.dirty THEN node.din ELSE disk[i]
      OBVIOUS
    <3>2. PICK z : z = IF node.ref = 0 THEN None ELSE [node EXCEPT !.dirty = FALSE]
      OBVIOUS
    <3>3. Put(i, n).inode = z /\ Put(i, n).disk = d
      BY <1>3, <2>2, <2>3, <2>7, <3>1, <3>2 DEF Put
    <3>4. /\ d \in DiskInodes /\ d.size = old.din.size /\ d.direct = old.din.direct
          /\ d.indirect = old.din.indirect /\ Shaped(d) /\ Saved(old.din, d)
      <4>1. old.din \in DiskInodes /\ old.dirty \in BOOLEAN /\ Shaped(old.din)
        BY <1>1, <2>2, <2>5 DEF Inode
      <4>2. CASE node.dirty
        BY <2>4, <3>1, <4>1, <4>2, Bounds DEF Saved, DiskInodes
      <4>3. CASE ~node.dirty
        <5>1. d = disk[i] /\ Saved(old.din, d)
          BY <1>1, <2>1, <2>2, <2>4, <3>1, <4>3
        <5>2. Shaped(d)
          BY <1>1, <4>1, <5>1, Bounds DEF Saved, Shaped, DiskInodes
        <5> QED
          BY <1>1, <5>1, <5>2 DEF Saved
      <4> QED
        BY <4>2, <4>3
    <3>5. CASE node.ref = 0
      <4>1. z = None /\ m - n = 0 /\ l = 0
        BY <2>4, <2>7, <3>2, <3>5
      <4> QED
        BY <2>5, <3>3, <3>4, <4>1 DEF SameFile, CountOK
    <3>6. CASE node.ref # 0
      <4>1. /\ z \in Inode /\ z # None /\ z.din = old.din /\ z.dirty = FALSE
            /\ z.open = m - n /\ z.ref = m + l - n
        BY <2>4, <3>2, <3>6, NotNone DEF Inode
      <4>2. SameFile(i, z, d)
        BY <1>1, <2>2, <2>5, <3>4, <4>1 DEF SameFile
      <4>3. CountOK(z, m - n, l)
        BY <2>4, <3>6, <4>1 DEF CountOK
      <4> QED
        BY <3>3, <4>2, <4>3
    <3> QED
      BY <3>5, <3>6
  <2> QED
    BY <2>4, <2>6, <2>7
<1> QED
  BY <1>2, <1>3

\* All files are kept, with the same blocks.
LEMMA FilesKept ==
    ASSUME IndInv, inode' \in [Inos -> Inode \cup {None}], disk' \in [Inos -> DiskInodes],
           files' \in [Procs -> [FDs -> OpenFile \cup {None}] \cup {None}],
           UNCHANGED <<free, ent>>, leaked' \in [Inos -> Nat], panic' \in BOOLEAN,
           \A i \in Inos : SameFile(i, inode'[i], disk'[i])
    PROVE  TypeOK' /\ MapsOK' /\ SavedOK' /\ \A i \in Inos : Current(i)'.size = Current(i).size
<1>1. TypeOK'
  BY DEF IndInv, TypeOK
<1>2. PICK c, d : c = Disks /\ d = Disks'
  OBVIOUS
<1>3. \A i \in Inos : c[i] = Current(i) /\ d[i] = Current(i)'
  BY <1>2 DEF Disks
<1>4. \A i \in Inos : /\ Current(i)'.direct = Current(i).direct
                      /\ Current(i)'.size = Current(i).size
                      /\ Current(i)'.indirect = Current(i).indirect /\ Shaped(Current(i)')
  BY DEF SameFile, Current
<1>5. SameMaps(c, d)
  BY <1>3, <1>4 DEF SameMaps
<1>6. Allotted(LayoutOf(d, ent), free) /\ Clear(d, ent)
  BY <1>2, <1>5, MapsKept DEF IndInv, MapsOK
<1>7. MapsOK'
  BY <1>2, <1>4, <1>6 DEF MapsOK
<1>8. SavedOK'
  BY DEF SavedOK, SameFile
<1> QED
  BY <1>1, <1>4, <1>7, <1>8

\* The descriptors of p among ds are no users any more.
LEMMA CloseAllGood ==
    ASSUME IndInv, NEW p \in Procs, NEW ds \in SUBSET FDs, CloseAll(p, ds),
           files' \in [Procs -> [FDs -> OpenFile \cup {None}] \cup {None}],
           \A i \in Inos : \A q \in Procs, d \in FDs :
              UserOf(files', i, <<q, d>>) <=> UserOf(files, i, <<q, d>>) /\ ~(q = p /\ d \in ds)
    PROVE  IndInv' /\ \A i \in Inos : Current(i)'.size = Current(i).size
<1>1. /\ UNCHANGED <<free, ent, leaked, panic>>
      /\ inode' = [i \in Inos |-> Put(i, Cardinality(Uses(p, ds, i))).inode]
      /\ disk' = [i \in Inos |-> Put(i, Cardinality(Uses(p, ds, i))).disk]
  BY DEF CloseAll
<1>2. ASSUME NEW i \in Inos
      PROVE /\ SameFile(i, inode'[i], disk'[i])
            /\ CountOK(inode'[i], Cardinality(Opened(i)'), leaked'[i])
  <2>1. PICK U : U = Uses(p, ds, i)
    OBVIOUS
  <2>2. PICK n \in Nat : n = Cardinality(U)
    BY <2>1, UsesSet
  <2>3. PICK m \in Nat : m = Cardinality(Opened(i))
    BY OpenedSet
  <2>4. /\ U = {d \in ds : UserOf(files, i, <<p, d>>)}
        /\ Cardinality({p} \X U) = n
    <3>1. Uses(p, ds, i) = {d \in ds : UserOf(files, i, <<p, d>>)} /\ IsFiniteSet(Uses(p, ds, i))
      BY UsesSet
    <3>2. Cardinality({p} \X U) = Cardinality(U)
      BY <2>1, <3>1, Paired
    <3> QED
      BY <2>1, <2>2, <3>1, <3>2
  <2>5. /\ Opened(i) = {q \in Procs \X FDs : UserOf(files, i, q)}
        /\ Opened(i)' = {q \in Procs \X FDs : UserOf(files', i, q)}
        /\ IsFiniteSet(Opened(i))
    BY OpenedSet
  <2>6. {p} \X U \subseteq Opened(i)
    BY <2>4, <2>5
  <2>7. Opened(i)' = Opened(i) \ ({p} \X U)
    BY <2>4, <2>5
  <2>8. n <= m /\ Cardinality(Opened(i)') = m - n
    BY <2>3, <2>4, <2>5, <2>6, <2>7, CountLeft
  <2>9. leaked[i] \in Nat /\ CountOK(inode[i], m, leaked[i])
    BY <2>3, Counts DEF IndInv, TypeOK
  <2>10. SameFile(i, Put(i, n).inode, Put(i, n).disk) /\ CountOK(Put(i, n).inode, m - n, leaked[i])
    BY <2>8, <2>9, PutGood DEF IndInv
  <2>11. inode'[i] = Put(i, n).inode /\ disk'[i] = Put(i, n).disk /\ leaked'[i] = leaked[i]
    BY <1>1, <2>1, <2>2
  <2> QED
    BY <2>8, <2>10, <2>11
<1>3. inode' \in [Inos -> Inode \cup {None}] /\ disk' \in [Inos -> DiskInodes]
  BY <1>1, <1>2 DEF SameFile
<1>4. leaked' \in [Inos -> Nat] /\ panic' \in BOOLEAN
  BY <1>1 DEF IndInv, TypeOK
<1>5. TypeOK' /\ MapsOK' /\ SavedOK' /\ \A i \in Inos : Current(i)'.size = Current(i).size
  BY <1>1, <1>2, <1>3, <1>4, FilesKept
<1>6. CountsExact'
  BY <1>2, Counts
<1> QED
  BY <1>5, <1>6 DEF IndInv

------------------------------------------------------------------------------
(* Calls on an open file, and opening                                      *)
\* Equal users of file i ...
LEMMA UsersSame ==
    ASSUME NEW i \in Inos,
           \A q \in Procs, d \in FDs : UserOf(files', i, <<q, d>>) <=> UserOf(files, i, <<q, d>>)
    PROVE  Opened(i)' = Opened(i)
<1>1. /\ Opened(i) = {q \in Procs \X FDs : UserOf(files, i, q)}
      /\ Opened(i)' = {q \in Procs \X FDs : UserOf(files', i, q)}
  BY OpenedSet
<1>2. \A q \in Procs \X FDs : UserOf(files', i, q) <=> UserOf(files, i, q)
  OBVIOUS
<1> QED
  BY <1>1, <1>2

\* ... and one more.
LEMMA UserMore ==
    ASSUME NEW i \in Inos, NEW p \in Procs, NEW d \in FDs, ~UserOf(files, i, <<p, d>>),
           \A q \in Procs, e \in FDs :
              UserOf(files', i, <<q, e>>) <=> UserOf(files, i, <<q, e>>) \/ (q = p /\ e = d)
    PROVE  Cardinality(Opened(i)') = Cardinality(Opened(i)) + 1
<1>1. /\ Opened(i) = {q \in Procs \X FDs : UserOf(files, i, q)}
      /\ Opened(i)' = {q \in Procs \X FDs : UserOf(files', i, q)}
      /\ IsFiniteSet(Opened(i))
  BY OpenedSet
<1> DEFINE one == {<<p, d>>}
<1>2. Opened(i)' = Opened(i) \cup one /\ Opened(i) \cap one = {}
  BY <1>1
<1>3. IsFiniteSet(one) /\ Cardinality(one) = 1
  BY FS_Singleton
<1> HIDE DEF one
<1> QED
  BY <1>1, <1>2, <1>3, CountJoined

\* The block map of a file, as a call finds it.
LEMMA BlocksGood ==
    ASSUME IndInv, NEW i \in Inos, NEW node \in Inode, node.din = Current(i),
           ~node.dirty => Saved(node.din, disk[i])
    PROVE  /\ GoodMap(Disks, i, disk[i], Blocks(node))
           /\ Blocks(node).ok /\ Blocks(node).din = Current(i)
           /\ Disks \in [Inos -> DiskInodes] /\ disk[i] \in DiskInodes
<1>1. Disks \in [Inos -> DiskInodes]
  BY CurrentType DEF Disks, IndInv
<1>2. PICK x : x = Blocks(node)
  OBVIOUS
<1>3. /\ x \in BlockMaps /\ x.din = node.din /\ x.dirty = node.dirty /\ x.free = free
      /\ x.ent = ent /\ x.ok = TRUE
  BY <1>2 DEF IndInv, TypeOK, Blocks, BlockMaps, Inode
<1>4. [Disks EXCEPT ![i] = x.din] = Disks
  BY <1>3 DEF Disks
<1>5. GoodMap(Disks, i, disk[i], x)
  BY <1>3, <1>4 DEF GoodMap, IndInv, MapsOK
<1> QED
  BY <1>1, <1>2, <1>3, <1>5 DEF IndInv, TypeOK

\* One file is kept with another block map.
Changes(i, node, x) ==
    /\ node \in Inode /\ GoodMap(Disks, i, disk[i], x)
    /\ inode' = [inode EXCEPT ![i] = node] /\ x.din = node.din /\ x.dirty = node.dirty
    /\ free' = x.free /\ ent' = x.ent /\ disk' = disk
    /\ leaked' \in [Inos -> Nat] /\ panic' \in BOOLEAN
    /\ files' \in [Procs -> [FDs -> OpenFile \cup {None}] \cup {None}]

\* Then the blocks of all files are right after the step.
LEMMA OneChanged ==
    ASSUME IndInv, NEW i \in Inos, NEW node, NEW x, Changes(i, node, x)
    PROVE  /\ TypeOK' /\ MapsOK' /\ SavedOK'
           /\ \A j \in Inos : Current(j)' = IF j = i THEN x.din ELSE Current(j)
           /\ \A j \in Inos : inode'[j] = IF j = i THEN node ELSE inode[j]
<1>1. /\ TypeOK /\ x \in BlockMaps /\ Shaped(x.din) /\ (~x.dirty => Saved(x.din, disk[i]))
      /\ node # None
  BY NotNone DEF IndInv, GoodMap, Changes
<1>2. TypeOK'
  BY <1>1 DEF TypeOK, BlockMaps, Changes
<1>3. inode'[i] = node /\ \A j \in Inos : j # i => inode'[j] = inode[j]
  BY <1>1 DEF TypeOK, Changes
<1>4. \A j \in Inos : Current(j)' = IF j = i THEN x.din ELSE Current(j)
  BY <1>1, <1>3 DEF Current, Changes
<1>5. Disks' = [Disks EXCEPT ![i] = x.din]
  BY <1>4 DEF Disks
<1>6. Allotted(LayoutOf(Disks', ent'), free') /\ Clear(Disks', ent')
  BY <1>5 DEF GoodMap, Changes
<1>7. MapsOK'
  BY <1>1, <1>4, <1>6 DEF MapsOK, IndInv
<1>8. SavedOK'
  BY <1>1, <1>3 DEF SavedOK, IndInv, Changes
<1> QED
  BY <1>2, <1>3, <1>4, <1>7, <1>8

\* The descriptors of a process.
LEMMA TableFacts ==
    ASSUME TypeOK, NEW p \in Procs, files[p] # None
    PROVE  /\ files[p] \in [FDs -> OpenFile \cup {None}]
           /\ \A d \in FDs : files[p][d] # None => files[p][d] \in OpenFile
  BY DEF TypeOK

\* A file that somebody has open is in memory.
LEMMA OpenFacts ==
    ASSUME IndInv, NEW p \in Procs, NEW d \in FDs, IsOpen(p, d)
    PROVE  LET i == files[p][d].node IN
           /\ files[p][d] \in OpenFile /\ i \in Inos /\ UserOf(files, i, <<p, d>>)
           /\ inode[i] # None /\ inode[i] \in Inode /\ Current(i) = inode[i].din
           /\ inode[i].open = Cardinality(Opened(i))
           /\ inode[i].ref = Cardinality(Opened(i)) + leaked[i]
<1>1. files[p] # None /\ files[p][d] \in OpenFile
  BY TableFacts DEF IsOpen, IndInv
<1>2. PICK i \in Inos : i = files[p][d].node
  BY <1>1 DEF OpenFile
<1>3. UserOf(files, i, <<p, d>>)
  BY <1>2 DEF IsOpen, UserOf
<1>4. <<p, d>> \in Opened(i) /\ IsFiniteSet(Opened(i)) /\ Cardinality(Opened(i)) \in Nat
  BY <1>3, OpenedSet
<1>5. Cardinality(Opened(i)) # 0
  BY <1>4, FS_EmptySet
<1>6. leaked[i] \in Nat /\ CountOK(inode[i], Cardinality(Opened(i)), leaked[i])
  BY Counts DEF IndInv, TypeOK
<1>7. /\ inode[i] # None /\ inode[i].open = Cardinality(Opened(i))
      /\ inode[i].ref = Cardinality(Opened(i)) + leaked[i]
  BY <1>4, <1>5, <1>6 DEF CountOK
<1> QED
  BY <1>1, <1>2, <1>3, <1>7 DEF IndInv, TypeOK, Current

\* file_close, files_closeall and files_destroy; sizes stay.
LEMMA CloseGood ==
    ASSUME IndInv, NEW p \in Procs, NEW d \in FDs, Close(p, d)
    PROVE  IndInv' /\ \A i \in Inos : Current(i)'.size = Current(i).size
<1>0. PICK ds \in SUBSET FDs : ds = {d}
  OBVIOUS
<1>1. files[p] # None /\ CloseAll(p, ds) /\ files' = [files EXCEPT ![p][d] = None]
  BY <1>0 DEF Close, IsOpen
<1>2. files[p] \in [FDs -> OpenFile \cup {None}]
  BY <1>1, TableFacts DEF IndInv
<1>3. PICK t : t = [files[p] EXCEPT ![d] = None]
  OBVIOUS
<1>4. t \in [FDs -> OpenFile \cup {None}] /\ files' = [files EXCEPT ![p] = t]
      /\ \A e \in FDs : t[e] = IF e = d THEN None ELSE files[p][e]
  BY <1>1, <1>2, <1>3 DEF IndInv, TypeOK
<1>5. files' \in [Procs -> [FDs -> OpenFile \cup {None}] \cup {None}]
  BY <1>4 DEF IndInv, TypeOK
<1>6. t # None /\ files'[p] = t /\ \A q \in Procs : q # p => files'[q] = files[q]
  BY <1>4, NotNone DEF IndInv, TypeOK
<1>7. \A i \in Inos : \A q \in Procs, e \in FDs :
         UserOf(files', i, <<q, e>>) <=> UserOf(files, i, <<q, e>>) /\ ~(q = p /\ e \in ds)
  BY <1>0, <1>1, <1>4, <1>6 DEF UserOf
<1> QED
  BY <1>1, <1>5, <1>7, CloseAllGood

LEMMA ExecGood ==
    ASSUME IndInv, NEW p \in Procs, Exec(p)
    PROVE  IndInv' /\ \A i \in Inos : Current(i)'.size = Current(i).size
<1>1. files[p] # None /\ CloseAll(p, FDs \ Kept)
  BY DEF Exec
<1>2. files[p] \in [FDs -> OpenFile \cup {None}]
  BY <1>1, TableFacts DEF IndInv
<1>3. PICK t : t = [d \in FDs |-> IF d \in Kept THEN files[p][d] ELSE None]
  OBVIOUS
<1>4. t \in [FDs -> OpenFile \cup {None}] /\ files' = [files EXCEPT ![p] = t]
      /\ \A e \in FDs : t[e] = IF e \in Kept THEN files[p][e] ELSE None
  BY <1>1, <1>2, <1>3 DEF IndInv, TypeOK, Exec
<1>5. files' \in [Procs -> [FDs -> OpenFile \cup {None}] \cup {None}]
  BY <1>4 DEF IndInv, TypeOK
<1>6. t # None /\ files'[p] = t /\ \A q \in Procs : q # p => files'[q] = files[q]
  BY <1>4, NotNone DEF IndInv, TypeOK
<1>7. \A i \in Inos : \A q \in Procs, e \in FDs :
         UserOf(files', i, <<q, e>>) <=> UserOf(files, i, <<q, e>>) /\ ~(q = p /\ e \in FDs \ Kept)
  BY <1>1, <1>4, <1>6 DEF UserOf
<1> QED
  BY <1>1, <1>5, <1>7, CloseAllGood

LEMMA ExitGood ==
    ASSUME IndInv, NEW p \in Procs, Exit(p)
    PROVE  IndInv' /\ \A i \in Inos : Current(i)'.size = Current(i).size
<1>1. files[p] # None /\ CloseAll(p, FDs) /\ files' = [files EXCEPT ![p] = None]
  BY DEF Exit
<1>5. files' \in [Procs -> [FDs -> OpenFile \cup {None}] \cup {None}]
  BY <1>1 DEF IndInv, TypeOK
<1>6. files'[p] = None /\ \A q \in Procs : q # p => files'[q] = files[q]
  BY <1>1 DEF IndInv, TypeOK
<1>7. \A i \in Inos : \A q \in Procs, e \in FDs :
         UserOf(files', i, <<q, e>>) <=> UserOf(files, i, <<q, e>>) /\ ~(q = p /\ e \in FDs)
  BY <1>6 DEF UserOf
<1> QED
  BY <1>1, <1>5, <1>7, CloseAllGood

\* An inode with n more users.
More(old, n) == [old EXCEPT !.ref = @ + n, !.open = @ + n]

\* Its fields.
LEMMA MoreUsers ==
    ASSUME NEW old \in Inode, NEW n \in Nat
    PROVE  /\ More(old, n) \in Inode /\ More(old, n) # None
           /\ More(old, n).ref = old.ref + n /\ More(old, n).open = old.open + n
           /\ More(old, n).din = old.din /\ More(old, n).dirty = old.dirty
<1>1. PICK node : node = More(old, n)
  OBVIOUS
<1>2. node = [ref |-> old.ref + n, open |-> old.open + n, din |-> old.din, dirty |-> old.dirty]
  BY <1>1 DEF More, Inode
<1>3. node \in Inode
  BY <1>2 DEF Inode
<1> QED
  BY <1>1, <1>2, <1>3, NotNone

\* dup_files.
LEMMA ForkGood ==
    ASSUME IndInv, NEW p \in Procs, NEW c \in Procs, Fork(p, c)
    PROVE  IndInv' /\ \A i \in Inos : Current(i)'.size = Current(i).size
<1>1. /\ files[p] # None /\ files[c] = None /\ files' = [files EXCEPT ![c] = files[p]]
      /\ UNCHANGED <<disk, free, ent, leaked, panic>>
  BY DEF Fork
<1>2. files[p] \in [FDs -> OpenFile \cup {None}] /\ p # c
  BY <1>1, TableFacts DEF IndInv
<1>3. files' \in [Procs -> [FDs -> OpenFile \cup {None}] \cup {None}]
  BY <1>1, <1>2 DEF IndInv, TypeOK
<1>4. files'[c] = files[p] /\ \A q \in Procs : q # c => files'[q] = files[q]
  BY <1>1 DEF IndInv, TypeOK
<1>5. ASSUME NEW i \in Inos
      PROVE  /\ SameFile(i, inode'[i], disk'[i])
             /\ CountOK(inode'[i], Cardinality(Opened(i)'), leaked'[i])
  <2>1. PICK U : U = Uses(p, FDs, i)
    OBVIOUS
  <2>2. /\ U = {d \in FDs : UserOf(files, i, <<p, d>>)} /\ IsFiniteSet(U) /\ Cardinality(U) \in Nat
    BY <2>1, UsesSet
  <2>3. PICK n \in Nat : n = Cardinality(U)
    BY <2>2
  <2>4. IsFiniteSet({c} \X U) /\ Cardinality({c} \X U) = n
    BY <2>2, <2>3, Paired
  <2>5. PICK m \in Nat : m = Cardinality(Opened(i))
    BY OpenedSet
  <2>6. /\ Opened(i) = {q \in Procs \X FDs : UserOf(files, i, q)}
        /\ Opened(i)' = {q \in Procs \X FDs : UserOf(files', i, q)}
        /\ IsFiniteSet(Opened(i))
    BY OpenedSet
  <2>7. Opened(i) \cap ({c} \X U) = {}
    BY <1>1, <2>6 DEF UserOf
  <2>8. Opened(i)' = Opened(i) \cup ({c} \X U)
    <3>1. \A q \in Procs, d \in FDs :
             UserOf(files', i, <<q, d>>) <=> UserOf(files, i, <<q, d>>) \/ (q = c /\ d \in U)
      BY <1>1, <1>4, <2>2 DEF UserOf
    <3> QED
      BY <2>2, <2>6, <3>1
  <2>9. Cardinality(Opened(i)') = m + n
    BY <2>4, <2>5, <2>6, <2>7, <2>8, CountJoined
  <2>10. leaked[i] \in Nat /\ leaked'[i] = leaked[i] /\ disk'[i] = disk[i] /\ disk[i] \in DiskInodes
         /\ CountOK(inode[i], m, leaked[i]) /\ inode[i] \in Inode \cup {None} /\ Shaped(Current(i))
         /\ (inode[i] # None /\ ~inode[i].dirty => Saved(inode[i].din, disk[i]))
    BY <1>1, <2>5, Counts DEF IndInv, TypeOK, MapsOK, SavedOK
  <2>11. inode'[i] = IF n = 0 THEN inode[i] ELSE [inode[i] EXCEPT !.ref = @ + n, !.open = @ + n]
    BY <2>1, <2>3 DEF Fork
  <2>12. CASE n = 0
    BY <2>9, <2>10, <2>11, <2>12 DEF SameFile, Current
  <2>13. CASE n # 0
    <3>1. \E d \in FDs : UserOf(files, i, <<p, d>>)
      BY <2>2, <2>3, <2>13, FS_EmptySet
    <3>2. m # 0
      BY <2>5, <2>6, <3>1, FS_EmptySet
    <3>3. inode[i] # None /\ inode[i].open = m /\ inode[i].ref = m + leaked[i]
      BY <2>10, <3>2 DEF CountOK
    <3>4. PICK old \in Inode : old = inode[i]
      BY <2>10, <3>3
    <3>5. PICK node : node = More(old, n)
      OBVIOUS
    <3>6. /\ node \in Inode /\ node.open = m + n /\ node.ref = m + n + leaked[i]
          /\ node.din = old.din /\ node.dirty = old.dirty
      <4>1. /\ node \in Inode /\ node.open = old.open + n /\ node.ref = old.ref + n
            /\ node.din = old.din /\ node.dirty = old.dirty
        BY <3>5, MoreUsers
      <4> QED
        BY <2>10, <3>3, <3>4, <4>1
    <3>7. inode'[i] = node /\ node # None
      BY <2>11, <2>13, <3>4, <3>5, <3>6, NotNone DEF More
    <3> QED
      BY <2>9, <2>10, <3>2, <3>3, <3>4, <3>6, <3>7 DEF SameFile, Current, CountOK
  <2> QED
    BY <2>12, <2>13
<1>6. inode' \in [Inos -> Inode \cup {None}] /\ disk' \in [Inos -> DiskInodes]
      /\ leaked' \in [Inos -> Nat] /\ panic' \in BOOLEAN
  <2>1. inode' = [i \in Inos |-> inode'[i]]
    BY DEF Fork
  <2> QED
    BY <1>1, <1>5, <2>1 DEF SameFile, IndInv, TypeOK
<1>7. TypeOK' /\ MapsOK' /\ SavedOK' /\ \A i \in Inos : Current(i)'.size = Current(i).size
  BY <1>1, <1>3, <1>5, <1>6, FilesKept
<1>8. CountsExact'
  BY <1>5, Counts
<1> QED
  BY <1>7, <1>8 DEF IndInv

\* file_fsync.
LEMMA FsyncGood ==
    ASSUME IndInv, NEW p \in Procs, NEW d \in FDs, Fsync(p, d)
    PROVE  IndInv' /\ \A i \in Inos : Current(i)'.size = Current(i).size
<1>1. PICK i : i = files[p][d].node
  OBVIOUS
<1>2. /\ inode[i].dirty /\ disk' = [disk EXCEPT ![i] = inode[i].din]
      /\ inode' = [inode EXCEPT ![i].dirty = FALSE] /\ UNCHANGED <<files, free, ent, leaked, panic>>
      /\ IsOpen(p, d)
  BY <1>1 DEF Fsync
<1>3. i \in Inos /\ inode[i] # None /\ inode[i] \in Inode /\ Current(i) = inode[i].din
  BY <1>1, <1>2, OpenFacts
<1>4. PICK old \in Inode : old = inode[i]
  BY <1>3
<1>5. PICK node : node = [old EXCEPT !.dirty = FALSE]
  OBVIOUS
<1>6. /\ node \in Inode /\ node # None /\ node.din = old.din /\ node.open = old.open
      /\ node.ref = old.ref /\ node.dirty = FALSE /\ old.din \in DiskInodes
  BY <1>5, NotNone DEF Inode
<1>7. /\ inode' = [inode EXCEPT ![i] = node] /\ disk' = [disk EXCEPT ![i] = old.din]
      /\ inode' \in [Inos -> Inode \cup {None}] /\ disk' \in [Inos -> DiskInodes]
      /\ inode'[i] = node /\ disk'[i] = old.din
      /\ \A j \in Inos : j # i => inode'[j] = inode[j] /\ disk'[j] = disk[j]
  BY <1>2, <1>3, <1>4, <1>5, <1>6 DEF IndInv, TypeOK
<1>8. ASSUME NEW j \in Inos PROVE SameFile(j, inode'[j], disk'[j])
  <2>1. CASE j # i
    BY <1>7, <2>1 DEF SameFile, IndInv, TypeOK, MapsOK, SavedOK, Current
  <2>2. CASE j = i
    <3>1. Saved(old.din, old.din)
      BY <1>6, Bounds DEF Saved, DiskInodes
    <3> QED
      BY <1>3, <1>4, <1>6, <1>7, <2>2, <3>1 DEF SameFile, IndInv, MapsOK
  <2> QED
    BY <2>1, <2>2
<1>9. TypeOK' /\ MapsOK' /\ SavedOK' /\ \A j \in Inos : Current(j)'.size = Current(j).size
  BY <1>2, <1>7, <1>8, FilesKept DEF IndInv, TypeOK
<1>10. ASSUME NEW j \in Inos PROVE CountOK(inode'[j], Cardinality(Opened(j)'), leaked'[j])
  <2>1. Opened(j)' = Opened(j)
    BY <1>2, UsersSame
  <2>2. CountOK(inode[j], Cardinality(Opened(j)), leaked[j]) /\ leaked'[j] = leaked[j]
    BY <1>2, Counts DEF IndInv
  <2> QED
    BY <1>3, <1>4, <1>6, <1>7, <2>1, <2>2 DEF CountOK
<1> QED
  BY <1>9, <1>10, Counts DEF IndInv

\* file_dup.
LEMMA DupGood ==
    ASSUME IndInv, NEW p \in Procs, NEW from \in FDs, NEW to \in FDs, Dup(p, from, to)
    PROVE  IndInv' /\ \A i \in Inos : Current(i)'.size = Current(i).size
<1>1. PICK i : i = files[p][from].node
  OBVIOUS
<1>2. /\ IsOpen(p, from) /\ files[p][to] = None /\ files[p] # None
      /\ files' = [files EXCEPT ![p][to] = files[p][from]]
      /\ inode' = [inode EXCEPT ![i].ref = @ + 1, ![i].open = @ + 1]
      /\ UNCHANGED <<disk, free, ent, leaked, panic>>
  BY <1>1 DEF Dup, IsOpen
<1>3. /\ i \in Inos /\ inode[i] # None /\ inode[i] \in Inode /\ Current(i) = inode[i].din
      /\ files[p][from] \in OpenFile /\ files[p][from] # None
      /\ inode[i].open = Cardinality(Opened(i)) /\ inode[i].ref = Cardinality(Opened(i)) + leaked[i]
  BY <1>1, <1>2, OpenFacts, NotNone
<1>4. PICK old \in Inode : old = inode[i]
  BY <1>3
<1>5. PICK node : node = More(old, 1)
  OBVIOUS
<1>6. /\ node \in Inode /\ node # None /\ node.ref = old.ref + 1 /\ node.open = old.open + 1
      /\ node.din = old.din /\ node.dirty = old.dirty
  BY <1>5, MoreUsers
<1>7. inode' = [inode EXCEPT ![i] = node]
  BY <1>2, <1>3, <1>4, <1>5 DEF IndInv, TypeOK, More
<1>8. /\ inode' \in [Inos -> Inode \cup {None}] /\ disk' \in [Inos -> DiskInodes]
      /\ inode'[i] = node /\ disk' = disk
      /\ \A j \in Inos : j # i => inode'[j] = inode[j]
  BY <1>2, <1>3, <1>6, <1>7 DEF IndInv, TypeOK
<1>9. files[p] \in [FDs -> OpenFile \cup {None}]
  BY <1>2, TableFacts DEF IndInv
<1>10. PICK t : t = [files[p] EXCEPT ![to] = files[p][from]]
  OBVIOUS
<1>11. /\ t \in [FDs -> OpenFile \cup {None}] /\ t # None /\ files' = [files EXCEPT ![p] = t]
       /\ \A e \in FDs : t[e] = IF e = to THEN files[p][from] ELSE files[p][e]
  BY <1>2, <1>3, <1>9, <1>10, NotNone DEF IndInv, TypeOK
<1>12. /\ files' \in [Procs -> [FDs -> OpenFile \cup {None}] \cup {None}]
       /\ files'[p] = t /\ \A q \in Procs : q # p => files'[q] = files[q]
  BY <1>11 DEF IndInv, TypeOK
<1>13. ASSUME NEW j \in Inos PROVE SameFile(j, inode'[j], disk'[j])
  <2>1. CASE j # i
    BY <1>8, <2>1 DEF SameFile, IndInv, TypeOK, MapsOK, SavedOK, Current
  <2>2. CASE j = i
    BY <1>3, <1>4, <1>6, <1>8, <2>2 DEF SameFile, IndInv, TypeOK, MapsOK, SavedOK
  <2> QED
    BY <2>1, <2>2
<1>14. TypeOK' /\ MapsOK' /\ SavedOK' /\ \A j \in Inos : Current(j)'.size = Current(j).size
  BY <1>2, <1>8, <1>12, <1>13, FilesKept DEF IndInv, TypeOK
<1>15. ASSUME NEW j \in Inos PROVE CountOK(inode'[j], Cardinality(Opened(j)'), leaked'[j])
  <2>1. /\ CountOK(inode[j], Cardinality(Opened(j)), leaked[j]) /\ leaked'[j] = leaked[j]
        /\ leaked[j] \in Nat
    BY <1>2, Counts DEF IndInv, TypeOK
  <2>2. CASE j # i
    <3>1. \A q \in Procs, e \in FDs : UserOf(files', j, <<q, e>>) <=> UserOf(files, j, <<q, e>>)
      BY <1>1, <1>2, <1>11, <1>12, <2>2 DEF UserOf
    <3>2. Opened(j)' = Opened(j)
      BY <3>1, UsersSame
    <3> QED
      BY <1>8, <2>1, <2>2, <3>2
  <2>3. CASE j = i
    <3>1. \A q \in Procs, e \in FDs :
             UserOf(files', i, <<q, e>>) <=> UserOf(files, i, <<q, e>>) \/ (q = p /\ e = to)
      BY <1>1, <1>2, <1>3, <1>11, <1>12 DEF UserOf
    <3>2. ~UserOf(files, i, <<p, to>>)
      BY <1>2 DEF UserOf
    <3>3. Cardinality(Opened(i)') = Cardinality(Opened(i)) + 1
      BY <1>3, <3>1, <3>2, UserMore
    <3>4. Cardinality(Opened(i)) \in Nat
      BY <1>3, OpenedSet
    <3> QED
      BY <1>3, <1>4, <1>6, <1>8, <2>1, <2>3, <3>3, <3>4 DEF CountOK
  <2> QED
    BY <2>2, <2>3
<1> QED
  BY <1>14, <1>15, Counts DEF IndInv

\* Sizes as programs see them: they stay; that of file i becomes n.
SizesKept == \A j \in Inos : Current(j)'.size = Current(j).size
SizeSet(i, n) == \A j \in Inos : Current(j)'.size = IF j = i THEN n ELSE Current(j).size

\* The kernel has stopped: all else stays.
LEMMA StopGood == ASSUME IndInv, Stop PROVE IndInv' /\ SizesKept
<1>1. /\ panic' = TRUE /\ UNCHANGED <<files, inode, disk, free, ent, leaked>>
  BY DEF Stop
<1>2. TypeOK'
  BY <1>1 DEF IndInv, TypeOK
<1>3. CountsExact'
  BY <1>1 DEF IndInv, CountsExact, Opened, OpenIn, IsOpen
<1>4. \A i \in Inos : Current(i)' = Current(i)
  BY <1>1 DEF Current
<1>5. MapsOK' /\ SavedOK'
  BY <1>1, <1>4 DEF IndInv, MapsOK, SavedOK, Disks
<1> QED
  BY <1>2, <1>3, <1>4, <1>5 DEF IndInv, SizesKept

\* file_write.
LEMMA WriteGood ==
    ASSUME IndInv, NEW p \in Procs, NEW d \in FDs, Write(p, d)
    PROVE  /\ IndInv' /\ SizeSet(files[p][d].node, files[p][d].pos)
<1>1. PICK i, pos : i = files[p][d].node /\ pos = files[p][d].pos
  OBVIOUS
<1>2. /\ IsOpen(p, d)
      /\ inode' = [inode EXCEPT ![i].din.size = pos, ![i].dirty = TRUE]
      /\ UNCHANGED <<files, disk, free, ent, leaked, panic>>
  BY <1>1 DEF Write
<1>3. /\ i \in Inos /\ inode[i] # None /\ inode[i] \in Inode /\ Current(i) = inode[i].din
      /\ pos \in Nat
  BY <1>1, <1>2, OpenFacts DEF OpenFile
<1>4. PICK old \in Inode : old = inode[i]
  BY <1>3
<1>5. PICK y : y = Blocks(old)
  OBVIOUS
<1>6. GoodMap(Disks, i, disk[i], y)
  BY <1>3, <1>4, <1>5, BlocksGood DEF IndInv, SavedOK
<1>7. PICK x : x = Sized(y, pos)
  OBVIOUS
<1>8. GoodMap(Disks, i, disk[i], x) /\ x.din.size = pos
  BY <1>3, <1>6, <1>7, Resized
<1>9. x.din = [old.din EXCEPT !.size = pos] /\ x.dirty = TRUE /\ x.free = free /\ x.ent = ent
  BY <1>5, <1>7 DEF Sized, Blocks
<1>10. x.din \in DiskInodes
  BY <1>8 DEF GoodMap, BlockMaps
<1>11. PICK node : node = [old EXCEPT !.din = x.din, !.dirty = TRUE]
  OBVIOUS
<1>12. node \in Inode /\ node.din = x.din /\ node.dirty = TRUE /\ node # None
       /\ node.ref = old.ref /\ node.open = old.open
  BY <1>10, <1>11, NotNone DEF Inode
<1>13. inode' = [inode EXCEPT ![i] = node]
  BY <1>2, <1>3, <1>4, <1>9, <1>11 DEF IndInv, TypeOK, Inode
<1>14. leaked' \in [Inos -> Nat] /\ panic' \in BOOLEAN
       /\ files' \in [Procs -> [FDs -> OpenFile \cup {None}] \cup {None}]
  BY <1>2 DEF IndInv, TypeOK
<1>0. Changes(i, node, x)
  BY <1>2, <1>8, <1>9, <1>12, <1>13, <1>14 DEF Changes
<1>15. /\ TypeOK' /\ MapsOK' /\ SavedOK'
       /\ \A j \in Inos : Current(j)' = IF j = i THEN x.din ELSE Current(j)
       /\ \A j \in Inos : inode'[j] = IF j = i THEN node ELSE inode[j]
  BY <1>0, <1>3, OneChanged
<1>16. ASSUME NEW j \in Inos PROVE CountOK(inode'[j], Cardinality(Opened(j)'), leaked'[j])
  <2>1. Opened(j)' = Opened(j)
    BY <1>2, UsersSame
  <2>2. CountOK(inode[j], Cardinality(Opened(j)), leaked[j]) /\ leaked'[j] = leaked[j]
    BY <1>2, Counts DEF IndInv
  <2> QED
    BY <1>3, <1>4, <1>12, <1>15, <2>1, <2>2 DEF CountOK
<1>17. CountsExact'
  BY <1>16, Counts
<1>18. SizeSet(i, pos)
  BY <1>8, <1>15 DEF SizeSet
<1> QED
  BY <1>1, <1>15, <1>17, <1>18 DEF IndInv

\* A position moves.
LEMMA Moved ==
    ASSUME TypeOK, NEW p \in Procs, NEW d \in FDs, IsOpen(p, d), NEW pos \in Nat,
           files' = [files EXCEPT ![p][d].pos = pos]
    PROVE  /\ files' \in [Procs -> [FDs -> OpenFile \cup {None}] \cup {None}]
           /\ files' = [files EXCEPT ![p][d] = [node |-> files[p][d].node, pos |-> pos]]
           /\ \A i \in Inos : \A q \in Procs, e \in FDs :
                 UserOf(files', i, <<q, e>>) <=> UserOf(files, i, <<q, e>>)
<1>1. files[p] # None /\ files[p] \in [FDs -> OpenFile \cup {None}] /\ files[p][d] \in OpenFile
  BY TableFacts DEF IsOpen
<1>2. PICK t, f : t = [files[p] EXCEPT ![d] = f] /\ f = [node |-> files[p][d].node, pos |-> pos]
  OBVIOUS
<1>3. f \in OpenFile /\ f # None /\ f.node = files[p][d].node /\ f = [files[p][d] EXCEPT !.pos = pos]
  BY <1>1, <1>2, NotNone DEF OpenFile
<1>4. t \in [FDs -> OpenFile \cup {None}] /\ t # None /\ files' = [files EXCEPT ![p] = t]
      /\ \A e \in FDs : t[e] = IF e = d THEN f ELSE files[p][e]
  BY <1>1, <1>2, <1>3, NotNone DEF TypeOK
<1>5. /\ files' \in [Procs -> [FDs -> OpenFile \cup {None}] \cup {None}]
      /\ files'[p] = t /\ \A q \in Procs : q # p => files'[q] = files[q]
  BY <1>4 DEF TypeOK
<1>6. files' = [files EXCEPT ![p][d] = f]
  BY <1>2, <1>4 DEF TypeOK
<1>7. \A i \in Inos : \A q \in Procs, e \in FDs :
         UserOf(files', i, <<q, e>>) <=> UserOf(files, i, <<q, e>>)
  BY <1>1, <1>3, <1>4, <1>5 DEF UserOf, IsOpen
<1> QED
  BY <1>2, <1>5, <1>6, <1>7

\* An inode with the block map x.
Stored(node, x) == [node EXCEPT !.din = x.din, !.dirty = x.dirty]

\* Its fields.
LEMMA StoreNode ==
    ASSUME NEW node \in Inode, NEW x \in BlockMaps
    PROVE  /\ Stored(node, x) \in Inode /\ Stored(node, x) # None
           /\ Stored(node, x).din = x.din /\ Stored(node, x).dirty = x.dirty
           /\ Stored(node, x).ref = node.ref /\ Stored(node, x).open = node.open
<1>1. PICK m : m = Stored(node, x)
  OBVIOUS
<1>2. m \in Inode /\ m.din = x.din /\ m.dirty = x.dirty /\ m.ref = node.ref /\ m.open = node.open
  BY <1>1 DEF Stored, Inode, BlockMaps
<1> QED
  BY <1>1, <1>2, NotNone

\* file_seek: nothing happens to the tables and sizes, or what was asked for.
LEMMA SeekGood ==
    ASSUME IndInv, NEW p \in Procs, NEW d \in FDs, NEW pos \in Positions, Seek(p, d, pos)
    PROVE  /\ IndInv' /\ IsOpen(p, d)
           /\ \/ SizesKept /\ UNCHANGED files
              \/ /\ files' = [files EXCEPT ![p][d] = [node |-> files[p][d].node, pos |-> pos]]
                 /\ IF pos > Current(files[p][d].node).size THEN SizeSet(files[p][d].node, pos)
                    ELSE SizesKept
<1>1. PICK i : i = files[p][d].node
  OBVIOUS
<1>2. pos \in Nat /\ IsOpen(p, d)
  BY FilesConstants DEF Seek
<1>3. /\ i \in Inos /\ inode[i] # None /\ inode[i] \in Inode /\ Current(i) = inode[i].din
  BY <1>1, <1>2, OpenFacts
<1>4. PICK old \in Inode : old = inode[i]
  BY <1>3
<1>5. PICK y, x : y = Blocks(old) /\ x = Truncfile(y, pos)
  OBVIOUS
<1>6. /\ GoodMap(Disks, i, disk[i], y) /\ y.ok /\ y.din = Current(i)
      /\ Disks \in [Inos -> DiskInodes] /\ disk[i] \in DiskInodes
  BY <1>3, <1>4, <1>5, BlocksGood DEF IndInv, SavedOK
<1>7. /\ GoodMap(Disks, i, disk[i], x) /\ x \in BlockMaps
      /\ x.din.size = IF x.ok THEN pos ELSE Current(i).size
  <2>1. GoodMap(Disks, i, disk[i], x) /\ x.din.size = IF x.ok THEN pos ELSE y.din.size
    BY <1>2, <1>3, <1>5, <1>6, TruncfileGood
  <2> QED
    BY <1>6, <2>1 DEF GoodMap
<1>8. PICK grows : grows = (pos > Current(i).size)
  OBVIOUS
<1>9. \/ Stop
      \/ /\ grows /\ Store(i, inode[i], x) /\ UNCHANGED <<disk, leaked, panic>>
         /\ files' = IF x.ok THEN [files EXCEPT ![p][d].pos = pos] ELSE files
      \/ /\ ~grows /\ UNCHANGED <<inode, free, ent, disk, leaked, panic>>
         /\ files' = [files EXCEPT ![p][d].pos = pos]
  BY <1>1, <1>3, <1>4, <1>5, <1>8 DEF Seek
<1>10. CASE Stop
  <2>1. UNCHANGED files
    BY <1>10 DEF Stop
  <2> QED
    BY <1>2, <1>10, <2>1, StopGood
<1>11. CASE /\ ~grows /\ UNCHANGED <<inode, free, ent, disk, leaked, panic>>
            /\ files' = [files EXCEPT ![p][d].pos = pos]
  <2>1. /\ files' \in [Procs -> [FDs -> OpenFile \cup {None}] \cup {None}]
        /\ files' = [files EXCEPT ![p][d] = [node |-> files[p][d].node, pos |-> pos]]
        /\ \A j \in Inos : \A q \in Procs, e \in FDs :
              UserOf(files', j, <<q, e>>) <=> UserOf(files, j, <<q, e>>)
    BY <1>2, <1>11, Moved DEF IndInv
  <2>2. \A j \in Inos : Opened(j)' = Opened(j)
    BY <2>1, UsersSame
  <2>3. CountsExact'
    BY <1>11, <2>2 DEF IndInv, CountsExact
  <2>4. \A j \in Inos : Current(j)' = Current(j)
    BY <1>11 DEF Current
  <2>5. TypeOK'
    BY <1>11, <2>1 DEF IndInv, TypeOK
  <2>6. MapsOK' /\ SavedOK'
    BY <1>11, <2>4 DEF IndInv, MapsOK, SavedOK, Disks
  <2> QED
    BY <1>1, <1>2, <1>8, <1>11, <2>1, <2>3, <2>4, <2>5, <2>6 DEF IndInv, SizesKept
<1>12. CASE /\ grows /\ Store(i, inode[i], x) /\ UNCHANGED <<disk, leaked, panic>>
            /\ files' = IF x.ok THEN [files EXCEPT ![p][d].pos = pos] ELSE files
  <2>1. /\ files' \in [Procs -> [FDs -> OpenFile \cup {None}] \cup {None}]
        /\ x.ok => files' = [files EXCEPT ![p][d] = [node |-> files[p][d].node, pos |-> pos]]
        /\ ~x.ok => UNCHANGED files
        /\ \A j \in Inos : \A q \in Procs, e \in FDs :
              UserOf(files', j, <<q, e>>) <=> UserOf(files, j, <<q, e>>)
    <3>1. CASE x.ok
      <4>1. files' = [files EXCEPT ![p][d].pos = pos]
        BY <1>12, <3>1
      <4> QED
        BY <1>2, <3>1, <4>1, Moved DEF IndInv
    <3>2. CASE ~x.ok
      BY <1>12, <3>2 DEF IndInv, TypeOK
    <3> QED
      BY <3>1, <3>2
  <2>2. PICK node : node = Stored(old, x)
    OBVIOUS
  <2>3. /\ node \in Inode /\ node # None /\ node.din = x.din /\ node.dirty = x.dirty
        /\ node.ref = old.ref /\ node.open = old.open
    BY <1>7, <2>2, StoreNode
  <2>4. inode' = [inode EXCEPT ![i] = node] /\ free' = x.free /\ ent' = x.ent
    BY <1>4, <1>12, <2>2 DEF Store, Stored
  <2>5. Changes(i, node, x)
    BY <1>7, <1>12, <2>1, <2>3, <2>4 DEF Changes, IndInv, TypeOK
  <2>6. /\ TypeOK' /\ MapsOK' /\ SavedOK'
        /\ \A j \in Inos : Current(j)' = IF j = i THEN x.din ELSE Current(j)
        /\ \A j \in Inos : inode'[j] = IF j = i THEN node ELSE inode[j]
    BY <1>3, <2>5, OneChanged
  <2>7. ASSUME NEW j \in Inos PROVE CountOK(inode'[j], Cardinality(Opened(j)'), leaked'[j])
    <3>1. Opened(j)' = Opened(j)
      BY <2>1, UsersSame
    <3>2. CountOK(inode[j], Cardinality(Opened(j)), leaked[j]) /\ leaked'[j] = leaked[j]
      BY <1>12, Counts DEF IndInv
    <3> QED
      BY <1>3, <1>4, <2>3, <2>6, <3>1, <3>2 DEF CountOK
  <2>8. IndInv'
    BY <2>6, <2>7, Counts DEF IndInv
  <2>9. CASE x.ok
    <3>1. SizeSet(i, pos)
      BY <1>7, <2>6, <2>9 DEF SizeSet
    <3> QED
      BY <1>1, <1>2, <1>8, <1>12, <2>1, <2>8, <2>9, <3>1
  <2>10. CASE ~x.ok
    <3>1. SizesKept
      BY <1>7, <2>6, <2>10 DEF SizesKept
    <3> QED
      BY <1>2, <2>1, <2>8, <2>10, <3>1
  <2> QED
    BY <2>9, <2>10
<1> QED
  BY <1>9, <1>10, <1>11, <1>12

\* vfs_lookup adds a reference to the inode of file i.
LEMMA LookupGood ==
    ASSUME IndInv, NEW i \in Inos
    PROVE  /\ Lookup(i) \in Inode /\ Lookup(i).din = Current(i)
           /\ ~Lookup(i).dirty => Saved(Lookup(i).din, disk[i])
           /\ Lookup(i).open = Cardinality(Opened(i))
           /\ Lookup(i).ref = Cardinality(Opened(i)) + leaked[i] + 1
           /\ Cardinality(Opened(i)) \in Nat /\ leaked[i] \in Nat
<1>1. PICK n, l : n = Cardinality(Opened(i)) /\ l = leaked[i]
  OBVIOUS
<1>2. /\ n \in Nat /\ l \in Nat /\ CountOK(inode[i], n, l) /\ disk[i] \in DiskInodes
      /\ inode[i] \in Inode \cup {None}
      /\ inode[i] # None /\ ~inode[i].dirty => Saved(inode[i].din, disk[i])
  BY <1>1, OpenedSet, Counts DEF IndInv, TypeOK, SavedOK
<1>3. PICK node : node = Lookup(i)
  OBVIOUS
<1>4. CASE inode[i] = None
  <2>1. node = [ref |-> 1, open |-> 0, din |-> disk[i], dirty |-> FALSE]
    BY <1>3, <1>4 DEF Lookup
  <2>2. n = 0 /\ l = 0
    BY <1>2, <1>4 DEF CountOK
  <2>3. Saved(disk[i], disk[i])
    BY <1>2, Bounds DEF Saved, DiskInodes
  <2> QED
    BY <1>1, <1>2, <1>3, <1>4, <2>1, <2>2, <2>3 DEF Inode, Current
<1>5. CASE inode[i] # None
  <2>1. PICK old \in Inode : old = inode[i]
    BY <1>2, <1>5
  <2>2. node = [old EXCEPT !.ref = @ + 1]
    BY <1>3, <1>5, <2>1 DEF Lookup
  <2>3. node = [ref |-> old.ref + 1, open |-> old.open, din |-> old.din, dirty |-> old.dirty]
    BY <2>2 DEF Inode
  <2>4. node \in Inode
    BY <2>3 DEF Inode
  <2>5. old.open = n /\ old.ref = n + l /\ Current(i) = old.din
    BY <1>2, <1>5, <2>1 DEF CountOK, Current
  <2> QED
    BY <1>1, <1>2, <1>3, <1>5, <2>1, <2>3, <2>4, <2>5
<1> QED
  BY <1>4, <1>5

\* file_open with O_CREAT and O_EXCL.
LEMMA OpenExclusiveGood ==
    ASSUME IndInv, NEW p \in Procs, NEW i \in Inos, OpenExclusive(p, i)
    PROVE  IndInv' /\ SizesKept /\ UNCHANGED files
<1>1. /\ inode' = [inode EXCEPT ![i] = Lookup(i)] /\ leaked' = [leaked EXCEPT ![i] = @ + 1]
      /\ UNCHANGED <<files, disk, free, ent, panic>>
  BY DEF OpenExclusive
<1>2. PICK node : node = Lookup(i)
  OBVIOUS
<1>3. /\ node \in Inode /\ node.din = Current(i) /\ (~node.dirty => Saved(node.din, disk[i]))
      /\ node.open = Cardinality(Opened(i)) /\ node.ref = Cardinality(Opened(i)) + leaked[i] + 1
      /\ Cardinality(Opened(i)) \in Nat /\ leaked[i] \in Nat
  BY <1>2, LookupGood
<1>4. PICK x : x = Blocks(node)
  OBVIOUS
<1>5. GoodMap(Disks, i, disk[i], x) /\ x.din = Current(i)
  BY <1>3, <1>4, BlocksGood
<1>6. x.din = node.din /\ x.dirty = node.dirty /\ x.free = free /\ x.ent = ent
  BY <1>4 DEF Blocks
<1>7. leaked' \in [Inos -> Nat] /\ leaked'[i] = leaked[i] + 1
      /\ \A j \in Inos : j # i => leaked'[j] = leaked[j]
  BY <1>1 DEF IndInv, TypeOK
<1>8. Changes(i, node, x)
  BY <1>1, <1>2, <1>3, <1>5, <1>6, <1>7 DEF Changes, IndInv, TypeOK
<1>9. /\ TypeOK' /\ MapsOK' /\ SavedOK'
      /\ \A j \in Inos : Current(j)' = IF j = i THEN x.din ELSE Current(j)
      /\ \A j \in Inos : inode'[j] = IF j = i THEN node ELSE inode[j]
  BY <1>8, OneChanged
<1>10. ASSUME NEW j \in Inos PROVE CountOK(inode'[j], Cardinality(Opened(j)'), leaked'[j])
  <2>1. Opened(j)' = Opened(j)
    BY <1>1, UsersSame
  <2>2. CountOK(inode[j], Cardinality(Opened(j)), leaked[j])
    BY Counts DEF IndInv
  <2>3. node # None
    BY <1>3, NotNone
  <2> QED
    BY <1>3, <1>7, <1>9, <2>1, <2>2, <2>3 DEF CountOK
<1>11. SizesKept
  BY <1>5, <1>9 DEF SizesKept
<1> QED
  BY <1>1, <1>9, <1>10, <1>11, Counts DEF IndInv

\* file_open: nothing happens to the tables and sizes, or a free descriptor names
\* the file.
LEMMA OpenGood ==
    ASSUME IndInv, NEW p \in Procs, NEW i \in Inos, NEW trunc \in BOOLEAN, NEW append \in BOOLEAN,
           Open(p, i, trunc, append)
    PROVE  /\ IndInv'
           /\ \/ SizesKept /\ UNCHANGED files
              \/ \E d \in FDs, pos \in Nat :
                    /\ files[p] # None /\ files[p][d] = None
                    /\ files' = [files EXCEPT ![p][d] = [node |-> i, pos |-> pos]]
                    /\ \/ pos = 0 /\ (SizesKept \/ SizeSet(i, 0))
                       \/ pos = Current(i).size /\ SizesKept
<1>1. PICK d : d = Min(Unused(p))
  OBVIOUS
<1>2. files[p] # None /\ d \in FDs /\ files[p][d] = None
  <2>1. files[p] # None /\ Unused(p) # {} /\ Unused(p) \in SUBSET Nat
    BY FilesConstants DEF Open, Unused
  <2>2. d \in Unused(p)
    BY <1>1, <2>1, NatMin
  <2> QED
    BY <2>1, <2>2 DEF Unused
<1>3. PICK old, node : old = Lookup(i) /\ node = [old EXCEPT !.open = @ + 1]
  OBVIOUS
<1>4. /\ old \in Inode /\ old.din = Current(i) /\ (~old.dirty => Saved(old.din, disk[i]))
      /\ old.open = Cardinality(Opened(i)) /\ old.ref = Cardinality(Opened(i)) + leaked[i] + 1
      /\ Cardinality(Opened(i)) \in Nat /\ leaked[i] \in Nat
  BY <1>3, LookupGood
<1>5. node = [ref |-> old.ref, open |-> old.open + 1, din |-> old.din, dirty |-> old.dirty]
  BY <1>3, <1>4 DEF Inode
<1>6. node \in Inode
  BY <1>4, <1>5 DEF Inode
<1>7. PICK y, z : y = Blocks(node) /\ z = Truncfile(y, 0)
  OBVIOUS
<1>8. /\ GoodMap(Disks, i, disk[i], y) /\ y.ok /\ y.din = Current(i)
      /\ Disks \in [Inos -> DiskInodes] /\ disk[i] \in DiskInodes
  BY <1>4, <1>5, <1>6, <1>7, BlocksGood
<1>9. GoodMap(Disks, i, disk[i], z) /\ z.din.size = IF z.ok THEN 0 ELSE Current(i).size
  <2>1. GoodMap(Disks, i, disk[i], z) /\ z.din.size = IF z.ok THEN 0 ELSE y.din.size
    BY <1>7, <1>8, TruncfileGood
  <2> QED
    BY <1>8, <2>1
<1>10. PICK x : x = IF trunc THEN z ELSE y
  OBVIOUS
<1>11. /\ GoodMap(Disks, i, disk[i], x) /\ x \in BlockMaps
       /\ x.din.size = IF trunc /\ z.ok THEN 0 ELSE Current(i).size
  BY <1>8, <1>9, <1>10 DEF GoodMap
<1>12. PICK m : m = Stored(node, x)
  OBVIOUS
<1>13. /\ m \in Inode /\ m # None /\ m.din = x.din /\ m.dirty = x.dirty
       /\ m.ref = node.ref /\ m.open = node.open
  BY <1>6, <1>11, <1>12, StoreNode
<1>14. PICK pos : pos = IF append THEN x.din.size ELSE 0
  OBVIOUS
<1>15. pos \in Nat
  BY <1>11, <1>14 DEF BlockMaps, DiskInodes
<1>16. \/ Stop
       \/ /\ inode' = [inode EXCEPT ![i] = m] /\ free' = x.free /\ ent' = x.ent
          /\ UNCHANGED <<disk, leaked, panic>>
          /\ files' = [files EXCEPT ![p][d] = [node |-> i, pos |-> pos]]
  <2>1. inode' = [inode EXCEPT ![i] = m] => inode'[i] = m
    BY DEF IndInv, TypeOK
  <2>2. CASE Stop
    BY <2>2
  <2>3. CASE ~trunc /\ ~Stop
    <3>1. x = y /\ m = node
      BY <1>5, <1>6, <1>7, <1>10, <1>12, <2>3 DEF Stored, Blocks, Inode
    <3>2. /\ inode' = [inode EXCEPT ![i] = node] /\ UNCHANGED <<free, ent, disk, leaked, panic>>
          /\ files' = [files EXCEPT ![p][d] =
                [node |-> i, pos |-> IF append THEN inode'[i].din.size ELSE 0]]
      BY <1>1, <1>3, <2>3 DEF Open
    <3>3. x.free = free /\ x.ent = ent
      BY <1>7, <3>1 DEF Blocks
    <3> QED
      BY <1>13, <1>14, <2>1, <3>1, <3>2, <3>3
  <2>4. CASE trunc /\ ~Stop
    <3>1. x = z
      BY <1>10, <2>4
    <3>2. /\ Store(i, node, x) /\ UNCHANGED <<disk, leaked, panic>>
          /\ files' = [files EXCEPT ![p][d] =
                [node |-> i, pos |-> IF append THEN inode'[i].din.size ELSE 0]]
      BY <1>1, <1>3, <1>7, <2>4, <3>1 DEF Open, Truncate
    <3>3. inode' = [inode EXCEPT ![i] = m] /\ free' = x.free /\ ent' = x.ent
      BY <1>12, <3>2 DEF Store, Stored
    <3> QED
      BY <1>13, <1>14, <2>1, <3>2, <3>3
  <2> QED
    BY <2>2, <2>3, <2>4
<1>17. CASE Stop
  <2>1. UNCHANGED files
    BY <1>17 DEF Stop
  <2> QED
    BY <1>17, <2>1, StopGood
<1>18. CASE /\ inode' = [inode EXCEPT ![i] = m] /\ free' = x.free /\ ent' = x.ent
            /\ UNCHANGED <<disk, leaked, panic>>
            /\ files' = [files EXCEPT ![p][d] = [node |-> i, pos |-> pos]]
  <2>1. PICK f : f = [node |-> i, pos |-> pos]
    OBVIOUS
  <2>2. f \in OpenFile /\ f # None /\ f.node = i
    BY <1>15, <2>1, NotNone DEF OpenFile
  <2>3. files[p] \in [FDs -> OpenFile \cup {None}]
    BY <1>2, TableFacts DEF IndInv
  <2>4. PICK t : t = [files[p] EXCEPT ![d] = f]
    OBVIOUS
  <2>5. t \in [FDs -> OpenFile \cup {None}] /\ t # None /\ files' = [files EXCEPT ![p] = t]
        /\ \A e \in FDs : t[e] = IF e = d THEN f ELSE files[p][e]
    BY <1>2, <1>18, <2>1, <2>2, <2>3, <2>4, NotNone DEF IndInv, TypeOK
  <2>6. /\ files' \in [Procs -> [FDs -> OpenFile \cup {None}] \cup {None}]
        /\ files'[p] = t /\ \A q \in Procs : q # p => files'[q] = files[q]
    BY <2>5 DEF IndInv, TypeOK
  <2>7. Changes(i, m, x)
    BY <1>11, <1>13, <1>18, <2>6 DEF Changes, IndInv, TypeOK
  <2>8. /\ TypeOK' /\ MapsOK' /\ SavedOK'
        /\ \A j \in Inos : Current(j)' = IF j = i THEN x.din ELSE Current(j)
        /\ \A j \in Inos : inode'[j] = IF j = i THEN m ELSE inode[j]
    BY <2>7, OneChanged
  <2>9. ASSUME NEW j \in Inos PROVE CountOK(inode'[j], Cardinality(Opened(j)'), leaked'[j])
    <3>1. CountOK(inode[j], Cardinality(Opened(j)), leaked[j]) /\ leaked'[j] = leaked[j]
      BY <1>18, Counts DEF IndInv
    <3>2. CASE j # i
      <4>1. \A q \in Procs, e \in FDs : UserOf(files', j, <<q, e>>) <=> UserOf(files, j, <<q, e>>)
        BY <1>2, <2>2, <2>5, <2>6, <3>2 DEF UserOf
      <4>2. Opened(j)' = Opened(j)
        BY <4>1, UsersSame
      <4> QED
        BY <2>8, <3>1, <3>2, <4>2
    <3>3. CASE j = i
      <4>1. \A q \in Procs, e \in FDs :
               UserOf(files', i, <<q, e>>) <=> UserOf(files, i, <<q, e>>) \/ (q = p /\ e = d)
        BY <1>2, <2>2, <2>5, <2>6 DEF UserOf
      <4>2. ~UserOf(files, i, <<p, d>>)
        BY <1>2 DEF UserOf
      <4>3. Cardinality(Opened(i)') = Cardinality(Opened(i)) + 1
        BY <1>2, <4>1, <4>2, UserMore
      <4>4. m.open = Cardinality(Opened(i)) + 1 /\ m.ref = Cardinality(Opened(i)) + leaked[i] + 1
        BY <1>4, <1>5, <1>13
      <4> QED
        BY <1>4, <1>13, <2>8, <3>1, <3>3, <4>3, <4>4 DEF CountOK
    <3> QED
      BY <3>2, <3>3
  <2>10. IndInv'
    BY <2>8, <2>9, Counts DEF IndInv
  <2>11. CASE trunc /\ z.ok
    <3>1. SizeSet(i, 0) /\ pos = 0
      BY <1>11, <1>14, <2>8, <2>11 DEF SizeSet
    <3> QED
      BY <1>2, <1>15, <1>18, <2>10, <3>1
  <2>12. CASE ~(trunc /\ z.ok)
    <3>1. SizesKept /\ (pos = 0 \/ pos = Current(i).size)
      BY <1>11, <1>14, <2>8, <2>12 DEF SizesKept
    <3> QED
      BY <1>2, <1>15, <1>18, <2>10, <3>1
  <2> QED
    BY <2>11, <2>12
<1> QED
  BY <1>16, <1>17, <1>18

------------------------------------------------------------------------------
(* The theorems                                                            *)
\* A disk of empty files: no block has a place.
LEMMA InitGood == ASSUME Init PROVE IndInv
<1>1. /\ files = [p \in Procs |-> IF p = First THEN Shut ELSE None]
      /\ inode = [i \in Inos |-> None] /\ disk = [i \in Inos |-> EmptyFile]
      /\ free = Data /\ ent = [b \in Data |-> NoEntries] /\ leaked = [i \in Inos |-> 0]
      /\ panic = FALSE
  BY DEF Init
<1>2. EmptyFile \in DiskInodes /\ NoEntries \in Entries
  BY Bounds DEF EmptyFile, DiskInodes, NoBlocks, NoEntries, Entries
<1>3. TypeOK
  BY <1>1, <1>2 DEF TypeOK, Shut
<1>4. \A i \in Inos : Current(i) = EmptyFile
  BY <1>1 DEF Current
<1>5. CountsExact
  <2> SUFFICES ASSUME NEW i \in Inos PROVE CountOK(inode[i], Cardinality(Opened(i)), leaked[i])
    BY Counts
  <2>1. Opened(i) = {}
    BY <1>1 DEF Opened, OpenIn, IsOpen, Shut
  <2> QED
    BY <1>1, <2>1, FS_EmptySet DEF CountOK
<1>6. MapsOK
  <2>1. \A i \in Inos : Disks[i] = EmptyFile
    BY <1>4 DEF Disks
  <2>2. ASSUME NEW q \in Places PROVE LayoutOf(Disks, ent)[q] = 0
    <3>1. PICK j \in Inos : \/ \E k \in 0..NDIRECT - 1 : q = DirectOf(j, k)
                            \/ q = IndirectOf(j)
                            \/ \E k \in 0..NENTRY - 1 : q = EntryOf(j, k)
      BY PlaceForms
    <3>2. Disks[j].indirect = 0 /\ \A k \in 0..NDIRECT - 1 : Disks[j].direct[k] = 0
      <4>1. EmptyFile.indirect = 0 /\ EmptyFile.direct = NoBlocks
        BY DEF EmptyFile
      <4>2. \A k \in 0..NDIRECT - 1 : NoBlocks[k] = 0
        BY DEF NoBlocks
      <4>3. Disks[j] = EmptyFile
        BY <2>1
      <4> QED
        BY <4>1, <4>2, <4>3
    <3>3. ASSUME NEW k \in 0..NDIRECT - 1, q = DirectOf(j, k) PROVE LayoutOf(Disks, ent)[q] = 0
      <4>1. LayoutOf(Disks, ent)[q] = Disks[j].direct[k]
        BY ONLY <3>3, DirectAt
      <4> QED
        BY <3>2, <4>1
    <3>4. ASSUME q = IndirectOf(j) PROVE LayoutOf(Disks, ent)[q] = 0
      <4>1. LayoutOf(Disks, ent)[q] = Disks[j].indirect
        BY ONLY <3>4, IndirectAt
      <4> QED
        BY <3>2, <4>1
    <3>5. ASSUME NEW k \in 0..NENTRY - 1, q = EntryOf(j, k) PROVE LayoutOf(Disks, ent)[q] = 0
      <4>1. LayoutOf(Disks, ent)[q] = EntryIn(ent, Disks[j].indirect, k)
        BY ONLY <3>5, EntryAt
      <4> QED
        BY <3>2, <4>1 DEF EntryIn
    <3> QED
      BY <3>1, <3>3, <3>4, <3>5
  <2>3. 0 \notin Data
    BY BlockMapConstants
  <2>4. Allotted(LayoutOf(Disks, ent), free)
    BY <1>1, <2>2, <2>3 DEF Allotted
  <2>5. Clear(Disks, ent)
    BY <1>1 DEF Clear
  <2>6. Shaped(EmptyFile)
    BY Bounds DEF Shaped, EmptyFile, NoBlocks
  <2> QED
    BY <1>4, <2>4, <2>5, <2>6 DEF MapsOK
<1>7. SavedOK
  BY <1>1 DEF SavedOK
<1> QED
  BY <1>3, <1>5, <1>6, <1>7 DEF IndInv

\* Every call keeps the invariant.
LEMMA StepGood == ASSUME IndInv, Next PROVE IndInv'
<1>1. PICK p \in Procs :
         \/ \E i \in Inos : \/ \E trunc, append \in BOOLEAN : Open(p, i, trunc, append)
                            \/ OpenExclusive(p, i)
         \/ \E d \in FDs : FileCall(p, d)
         \/ \E c \in Procs : Fork(p, c)
         \/ Exec(p) \/ Exit(p)
  BY DEF Next
<1>2. CASE \E i \in Inos : \E trunc, append \in BOOLEAN : Open(p, i, trunc, append)
  BY <1>2, OpenGood
<1>3. CASE \E i \in Inos : OpenExclusive(p, i)
  BY <1>3, OpenExclusiveGood
<1>4. CASE \E d \in FDs : FileCall(p, d)
  BY <1>4, CloseGood, WriteGood, FsyncGood, DupGood, SeekGood DEF FileCall
<1>5. CASE \E c \in Procs : Fork(p, c)
  BY <1>5, ForkGood
<1>6. CASE Exec(p)
  BY <1>6, ExecGood
<1>7. CASE Exit(p)
  BY <1>7, ExitGood
<1> QED
  BY <1>1, <1>2, <1>3, <1>4, <1>5, <1>6, <1>7

\* Inode counts are exact, every block is free or has one place, blocks that are
\* not in use as indirect blocks have no entries and clean inodes are on the disk:
\* always, whatever the processes open, dup, seek, write, close, fork, exec and
\* exit.
THEOREM Invariant == Spec => []IndInv
<1>1. Init => IndInv
  BY InitGood
<1>2. IndInv /\ [Next]_vars => IndInv'
  <2>1. ASSUME IndInv, UNCHANGED vars PROVE IndInv'
    <3>1. /\ UNCHANGED <<files, inode, disk, free, ent, leaked, panic>>
      BY <2>1 DEF vars
    <3>2. TypeOK' /\ CountsExact'
      BY <2>1, <3>1 DEF IndInv, TypeOK, CountsExact, Opened, OpenIn, IsOpen
    <3>3. \A i \in Inos : Current(i)' = Current(i)
      BY <3>1 DEF Current
    <3>4. MapsOK' /\ SavedOK'
      BY <2>1, <3>1, <3>3 DEF IndInv, MapsOK, SavedOK, Disks
    <3> QED
      BY <3>2, <3>4 DEF IndInv
  <2> QED
    BY <2>1, StepGood
<1> QED
  BY <1>1, <1>2, PTL DEF Spec

\* An inode is in memory as long as a descriptor of some process names it, with a
\* reference and an open count for each (inode.c:56-102), whatever opens, dups,
\* forks, execs and exits share and drop; only the references that exclusive opens
\* have left (vfsfile.c:46) come on top.
THEOREM CountsCorrect == Spec => []CountsExact
<1>1. IndInv => CountsExact
  BY DEF IndInv
<1> QED
  BY <1>1, Invariant, PTL

\* The invariant contains what CleanOnDisk says.
LEMMA SavedClean == ASSUME IndInv PROVE CleanOnDisk
<1> SUFFICES ASSUME NEW i \in Inos, inode[i] # None, ~inode[i].dirty
             PROVE LET din == inode[i].din IN
                   /\ [din EXCEPT !.blocks = 0] = [disk[i] EXCEPT !.blocks = 0]
                   /\ din.blocks >= disk[i].blocks
                   /\ din.blocks > disk[i].blocks => din.indirect # 0
  BY DEF CleanOnDisk
<1>1. PICK din, old \in DiskInodes : din = inode[i].din /\ old = disk[i] /\ din \in DiskInodes
  BY DEF IndInv, TypeOK, Inode
<1>2. Saved(din, old)
  BY <1>1 DEF IndInv, SavedOK
<1>3. [din EXCEPT !.blocks = 0] = [old EXCEPT !.blocks = 0]
  BY <1>1, <1>2 DEF Saved, DiskInodes
<1> QED
  BY <1>1, <1>2, <1>3 DEF Saved

\* A clean inode is on the disk (sfs_inode.c:806-847), but for the number of blocks
\* where growing has failed: dropping it from memory loses no block and no size.
THEOREM InodesOnDisk == Spec => []CleanOnDisk
  BY SavedClean, Invariant, PTL

------------------------------------------------------------------------------
(* Blocks, as BlocksAccounted has them                                     *)
\* The place p that a block of file i in Held is at.
IsAt(i, t, p) ==
    \/ \E k \in 0..NDIRECT - 1 : t = <<"direct", k, t[3]>> /\ p = DirectOf(i, k)
    \/ t = <<"indirect", 0, t[3]>> /\ p = IndirectOf(i)
    \/ \E k \in 0..NENTRY - 1 : t = <<"entry", k, t[3]>> /\ p = EntryOf(i, k)

\* A block that a file holds is at a place ...
LEMMA HeldAt ==
    ASSUME NEW i \in Inos, NEW t \in Held(Current(i), ent)
    PROVE  \E p \in Places : IsAt(i, t, p) /\ LayoutOf(Disks, ent)[p] = t[3]
<1>0. Disks[i] = Current(i)
  BY DEF Disks
<1>1. CASE t \in {<<"direct", k, Current(i).direct[k]>> : k \in 0..NDIRECT - 1}
  <2>1. PICK k \in 0..NDIRECT - 1 : t = <<"direct", k, Current(i).direct[k]>>
    BY <1>1
  <2>2. DirectOf(i, k) \in Places /\ LayoutOf(Disks, ent)[DirectOf(i, k)] = Disks[i].direct[k]
    BY DirectAt
  <2>3. t[3] = Current(i).direct[k]
    BY <2>1
  <2>4. IsAt(i, t, DirectOf(i, k))
    BY <2>1, <2>3 DEF IsAt
  <2> QED
    BY <1>0, <2>2, <2>3, <2>4
<1>2. CASE t = <<"indirect", 0, Current(i).indirect>>
  <2>1. IndirectOf(i) \in Places /\ LayoutOf(Disks, ent)[IndirectOf(i)] = Disks[i].indirect
    BY IndirectAt
  <2>2. t[3] = Current(i).indirect
    BY <1>2
  <2>3. IsAt(i, t, IndirectOf(i))
    BY <1>2, <2>2 DEF IsAt
  <2> QED
    BY <1>0, <2>1, <2>2, <2>3
<1>3. CASE /\ Current(i).indirect # 0
           /\ t \in {<<"entry", k, ent[Current(i).indirect][k]>> : k \in 0..NENTRY - 1}
  <2>1. PICK k \in 0..NENTRY - 1 : t = <<"entry", k, ent[Current(i).indirect][k]>>
    BY <1>3
  <2>2. EntryOf(i, k) \in Places
        /\ LayoutOf(Disks, ent)[EntryOf(i, k)] = EntryIn(ent, Disks[i].indirect, k)
    BY EntryAt
  <2>3. t[3] = ent[Current(i).indirect][k]
    BY <2>1
  <2>4. IsAt(i, t, EntryOf(i, k))
    BY <2>1, <2>3 DEF IsAt
  <2> QED
    BY <1>0, <1>3, <2>2, <2>3, <2>4 DEF EntryIn
<1> QED
  BY <1>1, <1>2, <1>3 DEF Held

\* ... and a block at a place is held.
LEMMA AtHeld ==
    ASSUME NEW p \in Places, LayoutOf(Disks, ent)[p] # 0
    PROVE  \E i \in Inos : \E t \in Held(Current(i), ent) : t[3] = LayoutOf(Disks, ent)[p]
<1>1. PICK i \in Inos : \/ \E k \in 0..NDIRECT - 1 : p = DirectOf(i, k)
                        \/ p = IndirectOf(i)
                        \/ \E k \in 0..NENTRY - 1 : p = EntryOf(i, k)
  BY PlaceForms
<1>2. Disks[i] = Current(i)
  BY DEF Disks
<1>3. ASSUME NEW k \in 0..NDIRECT - 1, p = DirectOf(i, k)
      PROVE \E t \in Held(Current(i), ent) : t[3] = LayoutOf(Disks, ent)[p]
  <2>1. LayoutOf(Disks, ent)[p] = Disks[i].direct[k]
    BY ONLY <1>3, DirectAt
  <2>2. PICK t : t = <<"direct", k, Current(i).direct[k]>>
    OBVIOUS
  <2>3. t \in Held(Current(i), ent) /\ t[3] = Current(i).direct[k]
    BY <2>2 DEF Held
  <2> QED
    BY <1>2, <2>1, <2>3
<1>4. ASSUME p = IndirectOf(i)
      PROVE \E t \in Held(Current(i), ent) : t[3] = LayoutOf(Disks, ent)[p]
  <2>1. LayoutOf(Disks, ent)[p] = Disks[i].indirect
    BY ONLY <1>4, IndirectAt
  <2>2. PICK t : t = <<"indirect", 0, Current(i).indirect>>
    OBVIOUS
  <2>3. t \in Held(Current(i), ent) /\ t[3] = Current(i).indirect
    BY <2>2 DEF Held
  <2> QED
    BY <1>2, <2>1, <2>3
<1>5. ASSUME NEW k \in 0..NENTRY - 1, p = EntryOf(i, k)
      PROVE \E t \in Held(Current(i), ent) : t[3] = LayoutOf(Disks, ent)[p]
  <2>1. LayoutOf(Disks, ent)[p] = EntryIn(ent, Disks[i].indirect, k)
    BY ONLY <1>5, EntryAt
  <2>2. PICK t : t = <<"entry", k, ent[Current(i).indirect][k]>>
    OBVIOUS
  <2>3. Current(i).indirect # 0
    BY <1>2, <2>1 DEF EntryIn
  <2>4. t \in Held(Current(i), ent) /\ t[3] = ent[Current(i).indirect][k]
    BY <2>2, <2>3 DEF Held
  <2> QED
    BY <1>2, <2>1, <2>3, <2>4 DEF EntryIn
<1> QED
  BY <1>1, <1>3, <1>4, <1>5

\* The invariant contains what BlocksAccounted says.
LEMMA HeldBlocks == ASSUME IndInv PROVE BlocksAccounted
<1> DEFINE places == {<<i, h>> : i \in Inos, h \in UNION {Held(Current(j), ent) : j \in Inos}}
           held == {q \in places : q[2] \in Held(Current(q[1]), ent) /\ q[2][3] # 0}
           g == LayoutOf(Disks, ent)
<1>1. Allotted(g, free) /\ g \in [Places -> Data \cup {0}] /\ free \subseteq Data /\ 0 \notin Data
  <2>1. Disks \in [Inos -> DiskInodes]
    BY CurrentType DEF Disks, IndInv
  <2> QED
    BY <2>1, LayoutType, BlockMapConstants DEF IndInv, MapsOK, TypeOK
<1>2. ASSUME NEW q \in held
      PROVE /\ q[1] \in Inos /\ q = <<q[1], q[2]>>
            /\ \E p \in Places : IsAt(q[1], q[2], p) /\ g[p] = q[2][3]
            /\ q[2][3] # 0
  <2>1. q[1] \in Inos /\ q = <<q[1], q[2]>> /\ q[2] \in Held(Current(q[1]), ent) /\ q[2][3] # 0
    OBVIOUS
  <2> QED
    BY <2>1, HeldAt
<1>3. ASSUME NEW i \in Inos, NEW t \in Held(Current(i), ent), t[3] # 0
      PROVE <<i, t>> \in held
  <2>1. PICK q, h : q = <<i, h>> /\ h = t
    OBVIOUS
  <2>2. q \in places
    BY <2>1, <1>3
  <2>3. q[1] = i /\ q[2] = t
    BY <2>1
  <2> HIDE DEF places
  <2>4. q \in held
    BY <1>3, <2>2, <2>3
  <2> QED
    BY <2>1, <2>4
<1> HIDE DEF held, g
<1>4. \A q \in held : q[2][3] \in Data \ free
  <2> SUFFICES ASSUME NEW q \in held PROVE q[2][3] \in Data \ free
    OBVIOUS
  <2>1. PICK p \in Places : g[p] = q[2][3] /\ q[2][3] # 0
    BY <1>2
  <2> QED
    BY <1>1, <2>1 DEF Allotted
<1>5. ASSUME NEW b \in Data \ free PROVE \E q \in held : q[2][3] = b
  <2>1. PICK p \in Places : g[p] = b
    BY <1>1 DEF Allotted
  <2>2. g[p] # 0
    BY <1>1, <2>1
  <2>3. PICK i \in Inos : \E t \in Held(Current(i), ent) : t[3] = b
    BY <2>1, <2>2, AtHeld DEF g
  <2>6. PICK t \in Held(Current(i), ent) : t[3] = b
    BY <2>3
  <2>4. <<i, t>> \in held
    BY <1>1, <1>3, <2>6
  <2>5. PICK q : q = <<i, t>>
    OBVIOUS
  <2> QED
    BY <2>6, <2>4, <2>5
<1>6. ASSUME NEW q \in held, NEW r \in held, q[2][3] = r[2][3] PROVE q = r
  <2>1. PICK p \in Places : IsAt(q[1], q[2], p) /\ g[p] = q[2][3] /\ q[2][3] # 0
    BY <1>2
  <2>2. PICK s \in Places : IsAt(r[1], r[2], s) /\ g[s] = r[2][3]
    BY <1>2
  <2>3. p = s
    BY <1>1, <1>4, <1>6, <2>1, <2>2 DEF Allotted
  <2>4. PICK b, t, u, i, j : /\ b = q[2][3] /\ t = q[2] /\ u = r[2] /\ i = q[1] /\ j = r[1]
    OBVIOUS
  <2>5. IsAt(i, t, p) /\ IsAt(j, u, p) /\ t[3] = b /\ u[3] = b
    BY <1>6, <2>1, <2>2, <2>3, <2>4
  <2>6. i = j /\ t = u
    BY <2>5, PlaceForms DEF IsAt
  <2> QED
    BY <1>2, <2>4, <2>6
<1>7. {q[2][3] : q \in held} = Data \ free
  BY <1>4, <1>5
<1> QED
  BY <1>6, <1>7 DEF BlocksAccounted, held

\* Every block is free or has one place in one file (sfs_inode.c:200-387), also
\* after growing has failed half-way and after inodes have been dropped and read
\* again.
THEOREM BlocksCorrect == Spec => []BlocksAccounted
  BY HeldBlocks, Invariant, PTL

------------------------------------------------------------------------------
(* OpenFiles                                                               *)
\* The sizes that OpenFiles speaks of.
Sizes == [i \in Inos |-> Current(i).size]

\* What a step does to them.
LEMMA SizesFunction ==
    /\ SizesKept => UNCHANGED Sizes
    /\ \A i \in Inos, n \in Nat : SizeSet(i, n) => Sizes' = [Sizes EXCEPT ![i] = n]
    /\ \A i \in Inos : Sizes[i] = Current(i).size
  BY DEF Sizes, SizesKept, SizeSet

\* The first state is one that OpenFiles promises.
LEMMA PromisedInit == ASSUME Init PROVE Promised!Init
<1>1. /\ files = [p \in Procs |-> IF p = First THEN Shut ELSE None]
      /\ disk = [i \in Inos |-> EmptyFile] /\ inode = [i \in Inos |-> None]
  BY DEF Init
<1>2. \A i \in Inos : Current(i).size = 0
  BY <1>1 DEF Current, EmptyFile
<1> QED
  BY <1>1, <1>2 DEF Promised!Init, Promised!Shut, Shut


\* Steps that OpenFiles does not see.
LEMMA AllKept == ASSUME UNCHANGED files, SizesKept PROVE UNCHANGED Promised!vars
<1>1. UNCHANGED Sizes
  BY SizesFunction
<1> QED
  BY <1>1 DEF Promised!vars, Sizes

\* SizesKept and SizeSet in the words of OpenFiles.
LEMMA SizesUnchanged == ASSUME SizesKept PROVE UNCHANGED [i \in Inos |-> Current(i).size]
<1>1. UNCHANGED Sizes
  BY SizesFunction
<1> QED
  BY <1>1 DEF Sizes

LEMMA SizeResized ==
    ASSUME NEW i \in Inos, NEW n \in Nat, SizeSet(i, n)
    PROVE  Promised!Resize(i, n)
<1>1. Sizes' = [Sizes EXCEPT ![i] = n]
  BY SizesFunction
<1> QED
  BY <1>1 DEF Promised!Resize, Sizes

\* Opening is what OpenFiles promises ...
LEMMA OpenPromised ==
    ASSUME IndInv, NEW p \in Procs, NEW i \in Inos, NEW trunc \in BOOLEAN, NEW append \in BOOLEAN,
           Open(p, i, trunc, append)
    PROVE  UNCHANGED Promised!vars \/ \E d \in FDs : Promised!Open(p, d, i)
<1>1. CASE SizesKept /\ UNCHANGED files
  BY <1>1, AllKept
<1>2. ASSUME NEW d \in FDs, NEW pos \in Nat,
             files[p] # None /\ files[p][d] = None,
             files' = [files EXCEPT ![p][d] = [node |-> i, pos |-> pos]],
             \/ pos = 0 /\ (SizesKept \/ SizeSet(i, 0))
             \/ pos = Current(i).size /\ SizesKept
      PROVE  Promised!Open(p, d, i)
  <2>1. Promised!Set(p, d, i, pos)
    BY <1>2 DEF Promised!Set
  <2>2. SizeSet(i, 0) => Promised!Resize(i, 0)
    BY SizeResized
  <2>3. SizesKept => UNCHANGED [j \in Inos |-> Current(j).size]
    BY SizesUnchanged
  <2>4. [j \in Inos |-> Current(j).size][i] = Current(i).size
    OBVIOUS
  <2> QED
    BY <1>2, <2>1, <2>2, <2>3, <2>4 DEF Promised!Open
<1> QED
  BY <1>1, <1>2, OpenGood

\* ... and so is closing: one descriptor, or all that exec does not keep.
LEMMA ClosePromised ==
    ASSUME IndInv, NEW p \in Procs, NEW ds \in SUBSET FDs, files[p] # None, SizesKept,
           files' = [files EXCEPT ![p] = [d \in FDs |-> IF d \in ds THEN None ELSE @[d]]]
    PROVE  Promised!Close(p, ds)
<1>1. UNCHANGED [j \in Inos |-> Current(j).size]
  BY SizesUnchanged
<1> QED
  BY <1>1 DEF Promised!Close

\* Every call is what OpenFiles promises, or not seen by it.
LEMMA PromisedStep == ASSUME IndInv, Next PROVE Promised!Next \/ UNCHANGED Promised!vars
<1>1. PICK p \in Procs :
         \/ \E i \in Inos : \/ \E trunc, append \in BOOLEAN : Open(p, i, trunc, append)
                            \/ OpenExclusive(p, i)
         \/ \E d \in FDs : FileCall(p, d)
         \/ \E c \in Procs : Fork(p, c)
         \/ Exec(p) \/ Exit(p)
  BY DEF Next
<1>2. ASSUME NEW i \in Inos, NEW trunc \in BOOLEAN, NEW append \in BOOLEAN,
             Open(p, i, trunc, append)
      PROVE  Promised!Next \/ UNCHANGED Promised!vars
  <2>1. UNCHANGED Promised!vars \/ \E d \in FDs : Promised!Open(p, d, i)
    BY <1>2, OpenPromised
  <2> QED
    BY <2>1 DEF Promised!Next
<1>3. ASSUME NEW i \in Inos, OpenExclusive(p, i) PROVE UNCHANGED Promised!vars
  BY <1>3, OpenExclusiveGood, AllKept
<1>4. ASSUME NEW d \in FDs, Close(p, d) PROVE Promised!Next
  <2>1. files[p] # None /\ files[p] \in [FDs -> OpenFile \cup {None}] /\ Promised!IsOpen(p, d)
    BY <1>4, TableFacts DEF Close, IsOpen, IndInv, Promised!IsOpen
  <2>2. files' = [files EXCEPT ![p] = [e \in FDs |-> IF e \in {d} THEN None ELSE @[e]]]
    <3>1. [files[p] EXCEPT ![d] = None] = [e \in FDs |-> IF e \in {d} THEN None ELSE files[p][e]]
      BY <2>1
    <3>2. files' = [files EXCEPT ![p] = [files[p] EXCEPT ![d] = None]]
      BY <1>4 DEF Close
    <3> QED
      BY <3>1, <3>2
  <2>3. SizesKept
    BY <1>4, CloseGood DEF SizesKept
  <2>4. Promised!Close(p, {d})
    BY <2>1, <2>2, <2>3, ClosePromised
  <2> QED
    BY <2>1, <2>4 DEF Promised!Next
<1>5. ASSUME NEW d \in FDs, Write(p, d) PROVE Promised!Next
  <2>1. PICK i, pos : i = files[p][d].node /\ pos = files[p][d].pos
    OBVIOUS
  <2>2. IsOpen(p, d) /\ UNCHANGED files /\ pos > inode[i].din.size
    BY <1>5, <2>1 DEF Write
  <2>3. i \in Inos /\ pos \in Nat /\ pos > Current(i).size
    BY <2>1, <2>2, OpenFacts DEF OpenFile
  <2>4. Promised!Resize(i, pos)
    BY <1>5, <2>1, <2>3, WriteGood, SizeResized
  <2>5. [j \in Inos |-> Current(j).size][i] = Current(i).size
    BY <2>3
  <2>6. Promised!Write(p, d)
    BY <2>1, <2>2, <2>3, <2>4, <2>5 DEF Promised!Write, Promised!IsOpen, IsOpen
  <2> QED
    BY <2>6 DEF Promised!Next
<1>6. ASSUME NEW d \in FDs, Fsync(p, d) PROVE UNCHANGED Promised!vars
  <2>1. UNCHANGED files /\ SizesKept
    BY <1>6, FsyncGood DEF SizesKept, Fsync
  <2> QED
    BY <2>1, AllKept
<1>7. ASSUME NEW d \in FDs, NEW to \in FDs, Dup(p, d, to) PROVE Promised!Next
  <2>1. /\ IsOpen(p, d) /\ files[p][to] = None
        /\ files' = [files EXCEPT ![p][to] = files[p][d]]
    BY <1>7 DEF Dup
  <2>2. files[p][d] = [node |-> files[p][d].node, pos |-> files[p][d].pos]
    BY <2>1, OpenFacts DEF OpenFile
  <2>3. UNCHANGED [j \in Inos |-> Current(j).size]
    BY <1>7, DupGood, SizesUnchanged DEF SizesKept
  <2>4. Promised!Set(p, to, files[p][d].node, files[p][d].pos)
    BY <2>1, <2>2 DEF Promised!Set
  <2>5. Promised!Dup(p, d, to)
    BY <2>1, <2>3, <2>4 DEF Promised!Dup, Promised!IsOpen, IsOpen
  <2> QED
    BY <2>5 DEF Promised!Next
<1>8. ASSUME NEW d \in FDs, NEW pos \in Positions, Seek(p, d, pos)
      PROVE  Promised!Next \/ UNCHANGED Promised!vars
  <2>1. PICK i : i = files[p][d].node
    OBVIOUS
  <2>2. /\ IsOpen(p, d)
        /\ \/ SizesKept /\ UNCHANGED files
           \/ /\ files' = [files EXCEPT ![p][d] = [node |-> i, pos |-> pos]]
              /\ IF pos > Current(i).size THEN SizeSet(i, pos) ELSE SizesKept
    BY <1>8, <2>1, SeekGood
  <2>3. i \in Inos /\ pos \in Nat
    BY <2>1, <2>2, OpenFacts, FilesConstants
  <2>4. CASE SizesKept /\ UNCHANGED files
    BY <2>4, AllKept
  <2>5. CASE /\ files' = [files EXCEPT ![p][d] = [node |-> i, pos |-> pos]]
             /\ IF pos > Current(i).size THEN SizeSet(i, pos) ELSE SizesKept
    <3>1. [j \in Inos |-> Current(j).size][i] = Current(i).size
      BY <2>3
    <3>2. Promised!Set(p, d, i, pos)
      BY <2>5 DEF Promised!Set
    <3>3. IF pos > Current(i).size THEN Promised!Resize(i, pos)
          ELSE UNCHANGED [j \in Inos |-> Current(j).size]
      BY <2>3, <2>5, SizeResized, SizesUnchanged
    <3>4. Promised!IsOpen(p, d)
      BY <2>2 DEF IsOpen, Promised!IsOpen
    <3>5. Promised!Seek(p, d, pos)
      BY <2>1, <3>1, <3>2, <3>3, <3>4 DEF Promised!Seek
    <3> QED
      BY <3>5 DEF Promised!Next
  <2> QED
    BY <2>2, <2>4, <2>5
<1>9. ASSUME NEW c \in Procs, Fork(p, c) PROVE Promised!Next
  <2>1. UNCHANGED [j \in Inos |-> Current(j).size]
    BY <1>9, ForkGood, SizesUnchanged DEF SizesKept
  <2>2. Promised!Fork(p, c)
    BY <1>9, <2>1 DEF Fork, Promised!Fork
  <2> QED
    BY <2>2 DEF Promised!Next
<1>10. CASE Exec(p)
  <2>1. files[p] # None
        /\ files' = [files EXCEPT ![p] = [d \in FDs |-> IF d \in Kept THEN files[p][d] ELSE None]]
    BY <1>10 DEF Exec, IndInv, TypeOK
  <2>2. [d \in FDs |-> IF d \in Kept THEN files[p][d] ELSE None]
           = [d \in FDs |-> IF d \in FDs \ Kept THEN None ELSE files[p][d]]
    OBVIOUS
  <2>3. files' = [files EXCEPT ![p] = [d \in FDs |-> IF d \in FDs \ Kept THEN None ELSE @[d]]]
    BY <2>1, <2>2
  <2>4. SizesKept
    BY <1>10, ExecGood DEF SizesKept
  <2>5. Promised!Close(p, FDs \ Kept)
    BY <2>1, <2>3, <2>4, ClosePromised
  <2> QED
    BY <2>1, <2>5 DEF Promised!Next
<1>11. CASE Exit(p)
  <2>1. UNCHANGED [j \in Inos |-> Current(j).size]
    BY <1>11, ExitGood, SizesUnchanged DEF SizesKept
  <2>2. Promised!Exit(p)
    BY <1>11, <2>1 DEF Exit, Promised!Exit
  <2> QED
    BY <2>2 DEF Promised!Next
<1>12. ASSUME NEW d \in FDs, FileCall(p, d) PROVE Promised!Next \/ UNCHANGED Promised!vars
  BY <1>4, <1>5, <1>6, <1>7, <1>8, <1>12 DEF FileCall
<1> QED
  BY <1>1, <1>2, <1>3, <1>9, <1>10, <1>11, <1>12

\* Neither is a step that changes nothing.
LEMMA StutterPromised == ASSUME UNCHANGED vars PROVE UNCHANGED Promised!vars
<1>1. UNCHANGED <<files, inode, disk>>
  BY DEF vars
<1>2. SizesKept
  BY <1>1 DEF SizesKept, Current
<1> QED
  BY <1>1, <1>2, AllKept

\* The tables and the sizes of files are always what OpenFiles promises programs
\* (file.c:155-321): inodes, counts and the way to the disk do not show, whatever is
\* dropped from memory and read again.
THEOREM FilesRefinement == Spec => ImplementsOpenFiles
<1>1. Init => Promised!Init
  BY PromisedInit
<1>2. IndInv /\ [Next]_vars => [Promised!Next]_(Promised!vars)
  BY PromisedStep, StutterPromised
<1> QED
  BY <1>1, <1>2, Invariant, PTL DEF Spec, ImplementsOpenFiles, Promised!Spec
==============================================================================
