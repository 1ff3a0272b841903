------------------------------ MODULE OpenFiles ------------------------------
(* What the file calls promise to programs: each process has numbered         *)
(* descriptors, and a descriptor names a file and a position.  A position is  *)
(* the descriptor's own, also when dup or fork has copied it; the size of a   *)
(* file is one for all and stays when nobody has the file open.               *)
CONSTANTS Procs, First, FDs, Inos,  \* First: the process that is there at first
          Kept,       \* the descriptors that exec keeps
          Positions,  \* where programs seek
          InitSize, None

VARIABLES table,   \* table[p]: the file and position of each descriptor, or
                   \* None; None as a whole if there is no process p
          size     \* size[i]: of file i

LOCAL INSTANCE Integers

vars == <<table, size>>

Shut == [d \in FDs |-> None]
IsOpen(p, d) == table[p] # None /\ table[p][d] # None

Init == /\ table = [p \in Procs |-> IF p = First THEN Shut ELSE None]
        /\ size = InitSize

Set(p, d, node, pos) == table' = [table EXCEPT ![p][d] = [node |-> node, pos |-> pos]]
Resize(i, n) == size' = [size EXCEPT ![i] = n]

Open(p, d, i) ==
    /\ table[p] # None /\ table[p][d] = None
    /\ \/ Set(p, d, i, 0) /\ (UNCHANGED size \/ Resize(i, 0))
       \/ Set(p, d, i, size[i]) /\ UNCHANGED size

Dup(p, from, to) ==
    /\ IsOpen(p, from) /\ ~IsOpen(p, to)
    /\ Set(p, to, table[p][from].node, table[p][from].pos)
    /\ UNCHANGED size

Close(p, ds) ==
    /\ table' = [table EXCEPT ![p] = [d \in FDs |-> IF d \in ds THEN None ELSE @[d]]]
    /\ UNCHANGED size

\* A position beyond the end makes the file larger, if there is room.
Seek(p, d, pos) ==
    /\ IsOpen(p, d)
    /\ LET i == table[p][d].node IN
          /\ Set(p, d, i, pos)
          /\ IF pos > size[i] THEN Resize(i, pos) ELSE UNCHANGED size

Write(p, d) ==
    /\ IsOpen(p, d)
    /\ LET file == table[p][d] IN file.pos > size[file.node] /\ Resize(file.node, file.pos)
    /\ UNCHANGED table

Fork(p, c) ==
    /\ table[p] # None /\ table[c] = None
    /\ table' = [table EXCEPT ![c] = table[p]]
    /\ UNCHANGED size

Exit(p) ==
    /\ table[p] # None
    /\ table' = [table EXCEPT ![p] = None]
    /\ UNCHANGED size

Next == \E p \in Procs :
           \/ \E d \in FDs : \/ \E i \in Inos : Open(p, d, i)
                             \/ \E to \in FDs : Dup(p, d, to)
                             \/ IsOpen(p, d) /\ Close(p, {d})
                             \/ \E pos \in Positions : Seek(p, d, pos)
                             \/ Write(p, d)
           \/ \E c \in Procs : Fork(p, c)
           \/ table[p] # None /\ Close(p, FDs \ Kept)
           \/ Exit(p)

Spec == Init /\ [][Next]_vars
==============================================================================
