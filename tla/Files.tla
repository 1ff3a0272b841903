-------------------------------- MODULE Files --------------------------------
(* The open files of processes and the files behind them in lab8: descriptor  *)
(* tables (file.c, fs.c), inodes in memory with their reference and open      *)
(* counts (vfs/inode.c, vfs/vfsfile.c), and inodes and blocks on the disk     *)
(* (sfs_inode.c).                                                             *)
(*                                                                            *)
(* A call is one step.  The kernel is not preemptible and the disk driver     *)
(* polls, so no file call gives up the CPU and the semaphores of the file     *)
(* system are free whenever one starts.  Tables are not shared: fork copies.  *)
(* All files are open for reading and writing.  sfs_io_nolock is the exercise *)
(* that lab8 leaves open, so a transfer moves no bytes; what it does to the   *)
(* size is here.                                                              *)
EXTENDS BlockMap, Functions

CONSTANTS Procs, First, \* slots for processes; the process that is there at first
          FDs,          \* 0 .. FILES_STRUCT_NENTRY - 1
          Kept,         \* the descriptors files_closeall skips
          Inos,         \* the files of the disk, all in one directory
          Positions,    \* where programs seek
          None,
          MaxOpen,      \* bound: descriptors open in the system at a time
          MaxLeaks      \* bound: exclusive opens of files that exist

ASSUME FilesConstants ==
    /\ First \in Procs /\ Kept \subseteq FDs /\ FDs \subseteq Nat
    /\ Positions \subseteq Nat
    /\ MaxOpen \in Nat /\ MaxLeaks \in Nat
    /\ IsFiniteSet(Procs) /\ IsFiniteSet(FDs)

\* struct file and struct inode; None is the pointer to nothing.
OpenFile == [node : Inos, pos : Nat]
Inode == [ref : Nat, open : Nat, din : DiskInodes, dirty : BOOLEAN]

ASSUME NoneAssumption ==
    None \notin OpenFile \cup Inode \cup [FDs -> OpenFile \cup {None}]

VARIABLES files,   \* files[p][d]: node and pos of a descriptor that is FD_OPENED
          inode,   \* inode[i]: the inode of file i in memory
          disk,    \* disk[i]: what the disk holds of it
          free, ent,
          leaked,  \* references that nobody has
          panic    \* an assertion has failed or a block index was out of range

vars == <<files, inode, disk, free, ent, leaked, panic>>

EmptyFile == [size |-> 0, blocks |-> 0, direct |-> NoBlocks, indirect |-> 0]
Shut == [d \in FDs |-> None]

\* A disk of empty files; one process runs and has nothing open.
Init ==
    /\ files = [p \in Procs |-> IF p = First THEN Shut ELSE None]
    /\ inode = [i \in Inos |-> None]
    /\ disk = [i \in Inos |-> EmptyFile]
    /\ free = Data
    /\ ent = [b \in Data |-> NoEntries]
    /\ leaked = [i \in Inos |-> 0]
    /\ panic = FALSE

IsOpen(p, d) == files[p] # None /\ files[p][d] # None
Unused(p) == {d \in FDs : files[p][d] = None}
OpenIn(ps) == {q \in ps \X FDs : IsOpen(q[1], q[2])}
Room(n) == Cardinality(OpenIn(Procs)) + n <= MaxOpen

\* The block map of file i, which is in memory as `node', and what comes back.
Blocks(node) == [din |-> node.din, dirty |-> node.dirty, free |-> free,
                 ent |-> ent, ok |-> TRUE]
Store(i, node, x) ==
    /\ inode' = [inode EXCEPT ![i] = [node EXCEPT !.din = x.din, !.dirty = x.dirty]]
    /\ free' = x.free /\ ent' = x.ent

\* vfs_lookup of file i: sfs_load_inode finds the inode in memory or reads it.
Lookup(i) ==
    IF inode[i] = None
    THEN [ref |-> 1, open |-> 0, din |-> disk[i], dirty |-> FALSE]
    ELSE [inode[i] EXCEPT !.ref = @ + 1]

\* variant: the last close does not write the inode
PutUnsaved(i, n) ==
    LET node == [inode[i] EXCEPT !.ref = @ - n, !.open = @ - n]
    IN IF n = 0 THEN [inode |-> inode[i], disk |-> disk[i]]
       ELSE [inode |-> IF node.ref = 0 THEN None ELSE node, disk |-> disk[i]]

\* vfs_close of n descriptors of file i: with the last that is open sfs_close
\* writes the inode if it is dirty, with the last reference sfs_reclaim drops it
\* from memory.
Put(i, n) ==
    LET node == [inode[i] EXCEPT !.ref = @ - n, !.open = @ - n]
    IN CASE n = 0 -> [inode |-> inode[i], disk |-> disk[i]]
         [] n > 0 /\ node.open > 0 -> [inode |-> node, disk |-> disk[i]]
         [] n > 0 /\ node.open = 0 ->
               [inode |-> IF node.ref = 0 THEN None ELSE [node EXCEPT !.dirty = FALSE],
                disk |-> IF node.dirty THEN node.din ELSE disk[i]]

\* The open descriptors of p among ds that name file i.
Uses(p, ds, i) ==
    {d \in ds : files[p] # None /\ files[p][d] # None /\ files[p][d].node = i}

\* fd_array_close of all open descriptors of p among ds.
CloseAll(p, ds) ==
    LET put == [i \in Inos |-> Put(i, Cardinality(Uses(p, ds, i)))]
    IN /\ inode' = [i \in Inos |-> put[i].inode]
       /\ disk' = [i \in Inos |-> put[i].disk]
       /\ UNCHANGED <<free, ent, leaked, panic>>

Stop == panic' = TRUE /\ UNCHANGED <<files, inode, disk, free, ent, leaked>>

------------------------------------------------------------------------------
\* vop_truncate of file i, in memory as `node': not if its assertion fails.
Truncate(i, node, len) ==
    /\ AssertsBlocks(node.din, len)
    /\ Store(i, node, Truncfile(Blocks(node), len))

\* file_open in the lowest free descriptor.  O_TRUNC empties the file, and so
\* does O_CREAT; O_APPEND starts behind the end.
Open(p, i, trunc, append) ==
    /\ files[p] # None /\ Unused(p) # {} /\ Room(1)
    /\ LET d == Min(Unused(p))
           node == [Lookup(i) EXCEPT !.open = @ + 1]
       IN IF trunc /\ ~AssertsBlocks(node.din, 0) THEN Stop
          ELSE /\ IF trunc THEN Truncate(i, node, 0)
                  ELSE inode' = [inode EXCEPT ![i] = node] /\ UNCHANGED <<free, ent>>
               /\ files' = [files EXCEPT ![p][d] =
                     [node |-> i, pos |-> IF append THEN inode'[i].din.size ELSE 0]]
               /\ UNCHANGED <<disk, leaked, panic>>

\* file_open with O_CREAT and O_EXCL: the file exists, -E_EXISTS.  The
\* descriptor is free again; the reference that the lookup took stays.
OpenExclusive(p, i) ==
    /\ files[p] # None /\ Unused(p) # {}
    /\ SumFunction(leaked) < MaxLeaks
    /\ inode' = [inode EXCEPT ![i] = Lookup(i)]
    /\ leaked' = [leaked EXCEPT ![i] = @ + 1]
    /\ UNCHANGED <<files, disk, free, ent, panic>>

\* variant: the copy does not count as open
DupUncounted(p, from, to) ==
    /\ IsOpen(p, from) /\ files[p][to] = None /\ Room(1)
    /\ files' = [files EXCEPT ![p][to] = files[p][from]]
    /\ inode' = [inode EXCEPT ![files[p][from].node].ref = @ + 1]
    /\ UNCHANGED <<disk, free, ent, leaked, panic>>

\* file_dup.
Dup(p, from, to) ==
    /\ IsOpen(p, from) /\ files[p][to] = None /\ Room(1)
    /\ files' = [files EXCEPT ![p][to] = files[p][from]]
    /\ inode' = [inode EXCEPT ![files[p][from].node].ref = @ + 1,
                              ![files[p][from].node].open = @ + 1]
    /\ UNCHANGED <<disk, free, ent, leaked, panic>>

\* file_close.
Close(p, d) ==
    /\ IsOpen(p, d)
    /\ CloseAll(p, {d})
    /\ files' = [files EXCEPT ![p][d] = None]

\* file_seek: a position beyond the end makes the file larger; if the blocks run
\* out, position and size stay as they are.  Positions up to SFS_MAX_FILE_SIZE
\* are accepted, which is more than the block map has room for.
Seek(p, d, pos) ==
    /\ IsOpen(p, d)
    /\ LET i == files[p][d].node
           grows == pos > inode[i].din.size
           x == Truncfile(Blocks(inode[i]), pos)
       IN IF grows /\ OutOfRange(x, pos) THEN Stop
          ELSE /\ IF grows THEN Store(i, inode[i], x)
                  ELSE UNCHANGED <<inode, free, ent>>
               /\ files' = IF grows => x.ok THEN [files EXCEPT ![p][d].pos = pos]
                           ELSE files
               /\ UNCHANGED <<disk, leaked, panic>>

\* file_write from a position that another descriptor's O_TRUNC has left behind
\* the end: nothing is transferred, the size reaches to the position.
Write(p, d) ==
    /\ IsOpen(p, d)
    /\ LET file == files[p][d] IN
          /\ file.pos > inode[file.node].din.size
          /\ inode' = [inode EXCEPT ![file.node].din.size = file.pos,
                                    ![file.node].dirty = TRUE]
    /\ UNCHANGED <<files, disk, free, ent, leaked, panic>>

\* file_fsync.
Fsync(p, d) ==
    /\ IsOpen(p, d)
    /\ LET i == files[p][d].node IN
          /\ inode[i].dirty
          /\ disk' = [disk EXCEPT ![i] = inode[i].din]
          /\ inode' = [inode EXCEPT ![i].dirty = FALSE]
    /\ UNCHANGED <<files, free, ent, leaked, panic>>

\* copy_files in do_fork: dup_files copies what is open.
Fork(p, c) ==
    /\ files[p] # None /\ files[c] = None /\ Room(Cardinality(OpenIn({p})))
    /\ files' = [files EXCEPT ![c] = files[p]]
    /\ inode' = [i \in Inos |->
          LET n == Cardinality(Uses(p, FDs, i)) IN
          IF n = 0 THEN inode[i] ELSE [inode[i] EXCEPT !.ref = @ + n, !.open = @ + n]]
    /\ UNCHANGED <<disk, free, ent, leaked, panic>>

\* files_closeall, when do_execve loads a program.
Exec(p) ==
    /\ files[p] # None
    /\ CloseAll(p, FDs \ Kept)
    /\ files' = [files EXCEPT ![p] = [d \in FDs |-> IF d \in Kept THEN @[d] ELSE None]]

\* put_files in do_exit; the first process stays.
Exit(p) ==
    /\ files[p] # None /\ p # First
    /\ CloseAll(p, FDs)
    /\ files' = [files EXCEPT ![p] = None]

FileCall(p, d) ==
    \/ Close(p, d) \/ Write(p, d) \/ Fsync(p, d)
    \/ \E to \in FDs : Dup(p, d, to)
    \/ \E pos \in Positions : Seek(p, d, pos)

Next ==
    /\ ~panic
    /\ \E p \in Procs :
          \/ \E i \in Inos : \/ \E trunc, append \in BOOLEAN : Open(p, i, trunc, append)
                             \/ OpenExclusive(p, i)
          \/ \E d \in FDs : FileCall(p, d)
          \/ \E c \in Procs : Fork(p, c)
          \/ Exec(p) \/ Exit(p)

Spec == Init /\ [][Next]_vars

------------------------------------------------------------------------------
Opened(i) == {q \in OpenIn(Procs) : files[q[1]][q[2]].node = i}

\* An inode is in memory exactly as long as a descriptor of some process names
\* it, with a reference and an open count for each, whatever opens, dups, forks,
\* execs and exits have shared and dropped it; an exclusive open of a file that
\* exists (vfsfile.c:46) is the one call after which it stays for ever.
CountsExact ==
    \A i \in Inos :
        LET n == Cardinality(Opened(i)) IN
        IF n + leaked[i] = 0 THEN inode[i] = None
        ELSE /\ inode[i] # None
             /\ inode[i].open = n /\ inode[i].ref = n + leaked[i]

Current(i) == IF inode[i] = None THEN disk[i] ELSE inode[i].din

\* Every block is free or has one place in one file, also after growing has
\* failed half-way and after inodes have been dropped and read again.
BlocksAccounted ==
    LET places == {<<i, h>> : i \in Inos, h \in UNION {Held(Current(j), ent) : j \in Inos}}
        held == {q \in places : q[2] \in Held(Current(q[1]), ent) /\ q[2][3] # 0}
    IN /\ {q[2][3] : q \in held} = Data \ free
       /\ \A q, r \in held : q[2][3] = r[2][3] => q = r

\* A clean inode is on the disk.  Only the number of blocks may be behind, where
\* growing has failed within an indirect block (sfs_inode.c:353 marks nothing):
\* dropping the inode then loses no more than this number.
CleanOnDisk ==
    \A i \in Inos :
        inode[i] # None /\ ~inode[i].dirty =>
            LET din == inode[i].din IN
            /\ [din EXCEPT !.blocks = 0] = [disk[i] EXCEPT !.blocks = 0]
            /\ din.blocks >= disk[i].blocks
            /\ din.blocks > disk[i].blocks => din.indirect # 0

\* The tables and files behave as OpenFiles says, with the inodes, their counts
\* and their way to the disk hidden.
Promised == INSTANCE OpenFiles WITH
    table <- files,
    size <- [i \in Inos |-> Current(i).size],
    InitSize <- [i \in Inos |-> 0]

ImplementsOpenFiles == Promised!Spec

\* No file call brings the kernel down: the block map and the size of a file
\* always agree as sfs_truncfile asserts (sfs_inode.c:900).
TruncateAsserts == ~panic
==============================================================================
