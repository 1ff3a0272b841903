------------------------------ MODULE FirstFit ------------------------------
(* The first-fit page manager (kern/mm/default_pmm.c).  free_list holds      *)
(* every free page; of a block of free pages the first has the length of the *)
(* block as its property and the others have 0.  A page that is allocated    *)
(* keeps the property it had.                                                *)
EXTENDS Integers, FiniteSetsExt, SequencesExt

CONSTANTS NPages,     \* pages managed
          None

ASSUME FirstFitConstants ==
    /\ NPages \in Nat \ {0}
    /\ None \notin Int /\ None \notin [n : Nat, at : Int \union {None}]

Pages == 0..(NPages - 1)

VARIABLES free_list,  \* the free pages in the order of the list
          property,   \* page->property
          nr_free,
          got         \* what alloc_pages was asked for and returned, if it was
                    \* the last call

pageVars == <<free_list, property, nr_free, got>>

\* default_init_memmap
FirstFitInit ==
    /\ free_list = [i \in 1..NPages |-> i - 1]
    /\ property = [p \in Pages |-> IF p = 0 THEN NPages ELSE 0]
    /\ nr_free = NPages
    /\ got = None

\* variant: the block that is left over keeps no length
ShrunkForgotten(p, i, n) == property

(* The page after the n that are taken becomes the head of what is left. *)
Shrunk(p, i, n) ==
    IF property[p] > n THEN [property EXCEPT ![free_list[i + n]] = property[p] - n]
                       ELSE property

(* default_alloc_pages: the first page of the list with a large enough       *)
(* property gives its block's first n pages.                                 *)
Heads(n) == {i \in DOMAIN free_list : property[free_list[i]] >= n}

AllocPages(n) ==
    LET i == Min(Heads(n))
        p == free_list[i]
    IN IF n > nr_free \/ Heads(n) = {}
       THEN got' = [n |-> n, at |-> None] /\ UNCHANGED <<free_list, property, nr_free>>
       ELSE /\ free_list' = SubSeq(free_list, 1, i - 1) \o SubSeq(free_list, i + n, Len(free_list))
            /\ property' = Shrunk(p, i, n)
            /\ nr_free' = nr_free - n
            /\ got' = [n |-> n, at |-> p]

(* default_free_pages: the block goes in before the first page above it, and *)
(* is joined to the block above and to the block below when they touch.      *)
Joined(base, n, i) ==
    LET above == i <= Len(free_list) /\ free_list[i] = base + n
        below == i > 1 /\ free_list[i - 1] = base - 1
        long  == n + IF above THEN property[base + n] ELSE 0
        head  == free_list[Max({j \in 1..(i - 1) : property[free_list[j]] # 0})]
    IN [p \in Pages |->
          CASE above /\ p = base + n   -> 0
            [] p = base                -> IF below THEN 0 ELSE long
            [] below /\ p = head       -> property[p] + long
            [] OTHER                   -> property[p]]

FreePages(base, n) ==
    LET higher == {j \in DOMAIN free_list : free_list[j] > base}
        i == IF higher = {} THEN Len(free_list) + 1 ELSE Min(higher)
    IN /\ free_list' = SubSeq(free_list, 1, i - 1) \o [k \in 1..n |-> base + k - 1]
                         \o SubSeq(free_list, i, Len(free_list))
       /\ property' = Joined(base, n, i)
       /\ nr_free' = nr_free + n
       /\ got' = None

(* The page manager is an allocator that refuses only what cannot be granted *)
(* (default_alloc_pages, default_free_pages).                                *)
PA == INSTANCE PageAllocator WITH avail <- ToSet(free_list)
ImplementsPages == PA!Spec
=============================================================================
