------------------------------- MODULE BlockMap -------------------------------
(* The blocks of a file (sfs_inode.c): NDIRECT block numbers in the inode and *)
(* NENTRY more in the indirect block.  Block numbers are positive, 0 is none. *)
(* The functions work on a record x that holds                                *)
(*   din    what is stored of the inode: size, blocks, direct, indirect       *)
(*   dirty  whether it has changed since it was read or written               *)
(*   free   the blocks whose bit is set in the freemap                        *)
(*   ent    the contents of the blocks that serve as indirect blocks          *)
(*   ok     no block allocation has failed                                    *)
EXTENDS Integers, FiniteSets, FiniteSetsExt

CONSTANTS NDIRECT, NENTRY,  \* SFS_NDIRECT, SFS_BLK_NENTRY
          BLKSIZE,          \* SFS_BLKSIZE
          Data              \* the blocks a file can get

MaxBlocks == NDIRECT + NENTRY

ASSUME BlockMapConstants ==
    /\ {NDIRECT, NENTRY, BLKSIZE} \subseteq Nat \ {0}
    /\ Data \subseteq Nat \ {0} /\ IsFiniteSet(Data)

\* struct sfs_disk_inode.
DiskInodes == [size : Nat, blocks : 0..MaxBlocks, direct : [0..NDIRECT - 1 -> Data \cup {0}],
               indirect : Data \cup {0}]

NoEntries == [k \in 0..NENTRY - 1 |-> 0]
NoBlocks == [k \in 0..NDIRECT - 1 |-> 0]

\* ROUNDUP_DIV(len, SFS_BLKSIZE)
BlocksFor(len) == (len + BLKSIZE - 1) \div BLKSIZE

Failed(x) == [x EXCEPT !.ok = FALSE]

\* The block bitmap_alloc picks: the one with the lowest number.
Lowest(free) == IF free = {} THEN 0 ELSE Min(free)

\* variant: a direct block is added without marking the inode as changed
GetDirectClean(x, k) ==
    LET b == Lowest(x.free) IN
    IF x.din.direct[k] # 0 THEN x
    ELSE IF b = 0 THEN Failed(x)
    ELSE [x EXCEPT !.free = @ \ {b}, !.din.direct[k] = b]

\* sfs_bmap_get_nolock with create, for a direct block.
GetDirect(x, k) ==
    LET b == Lowest(x.free) IN
    IF x.din.direct[k] # 0 THEN x
    ELSE IF b = 0 THEN Failed(x)
    ELSE [x EXCEPT !.free = @ \ {b}, !.din.direct[k] = b, !.dirty = TRUE]

\* variant: the indirect block is kept when no other block is left
GetIndirectKept(x, k) ==
    LET old  == x.din.indirect
        ent  == IF old # 0 THEN old ELSE Lowest(x.free)
        rest == x.free \ {ent}
        b    == Lowest(rest)
    IN IF old # 0 /\ x.ent[old][k] # 0 THEN x
       ELSE IF b = 0 THEN [Failed(x) EXCEPT !.free = rest]
       ELSE [x EXCEPT !.free = rest \ {b}, !.ent[ent][k] = b,
                      !.din.indirect = ent, !.dirty = @ \/ ent # old]

\* The same behind the direct blocks, sfs_bmap_get_sub_nolock: a missing
\* indirect block is allocated first, and given back if nothing is left for
\* the block itself.  An entry that is set is used as it is.
GetIndirect(x, k) ==
    LET old  == x.din.indirect
        ent  == IF old # 0 THEN old ELSE Lowest(x.free)
        rest == x.free \ {ent}
        b    == Lowest(rest)
    IN IF old # 0 /\ x.ent[old][k] # 0 THEN x
       ELSE IF b = 0 THEN Failed(x)
       ELSE [x EXCEPT !.free = rest \ {b}, !.ent[ent][k] = b,
                      !.din.indirect = ent, !.dirty = @ \/ ent # old]

\* sfs_bmap_load_nolock for the block behind the last one.
AddBlock(x) ==
    LET k == x.din.blocks
        y == IF k < NDIRECT THEN GetDirect(x, k) ELSE GetIndirect(x, k - NDIRECT)
    IN IF y.ok THEN [y EXCEPT !.din.blocks = k + 1] ELSE y

\* sfs_bmap_truncate_nolock; the indirect block itself stays with the file.
DropBlock(x) ==
    LET k == x.din.blocks - 1
        b == IF k < NDIRECT THEN x.din.direct[k]
             ELSE x.ent[x.din.indirect][k - NDIRECT]
        y == [x EXCEPT !.free = @ \cup ({b} \ {0}), !.din.blocks = k, !.dirty = TRUE]
    IN IF k < NDIRECT THEN [y EXCEPT !.din.direct[k] = 0]
       ELSE [y EXCEPT !.ent[x.din.indirect][k - NDIRECT] = 0]

\* The assertion that sfs_truncfile begins with if the size is right already.
AssertsBlocks(din, len) == din.size = len => din.blocks = BlocksFor(len)

\* One round of the loops of sfs_truncfile, towards n blocks; none after a
\* failure.
StepTo(x, n) ==
    IF ~x.ok \/ x.din.blocks = n THEN x
    ELSE IF x.din.blocks < n THEN AddBlock(x) ELSE DropBlock(x)

\* sfs_truncfile where the assertion holds: one block after the other is added
\* or dropped.  When none is left, those that were added stay.  The block behind
\* MaxBlocks is never added: see OutOfRange.
Truncfile(x, len) ==
    LET n == IF BlocksFor(len) <= MaxBlocks THEN BlocksFor(len) ELSE MaxBlocks
        after[k \in 0..MaxBlocks] == IF k = 0 THEN x ELSE StepTo(after[k - 1], n)
        done == after[MaxBlocks]
    IN IF x.din.size = len THEN x
       ELSE IF done.ok THEN [done EXCEPT !.din.size = len, !.dirty = TRUE]
       ELSE done

\* The file would need more blocks than it can have: sfs_bmap_get_nolock panics
\* after it has taken all of them.
OutOfRange(x, len) == x.ok /\ MaxBlocks < BlocksFor(len)

\* The blocks a file holds, by kind and position.
Held(din, ent) ==
    {<<"direct", k, din.direct[k]>> : k \in 0..NDIRECT - 1} \cup
    {<<"indirect", 0, din.indirect>>} \cup
    (IF din.indirect = 0 THEN {}
     ELSE {<<"entry", k, ent[din.indirect][k]>> : k \in 0..NENTRY - 1})
==============================================================================
