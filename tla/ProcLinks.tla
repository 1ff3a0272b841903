------------------------------ MODULE ProcLinks ------------------------------
(***************************************************************************)
(* The family pointers of lab7/kern/process/proc.c: parent, cptr (youngest *)
(* child), optr (older sibling) and yptr (younger sibling), as set_links,  *)
(* remove_links and the loop of do_exit that hands the children of a dying *)
(* process to init update them.  Process abstracts them to the parent      *)
(* relation; do_wait finds the children of a process by walking cptr and   *)
(* optr, so the two must agree.                                            *)
(*                                                                         *)
(* Each action is one body with interrupts off; the loop of do_exit takes  *)
(* one action per child so that its intermediate states are seen, although *)
(* no other process can run between them.                                  *)
(***************************************************************************)
EXTENDS Integers, FiniteSets

CONSTANTS Idle, InitProc, User, NULL

Proc == {Idle, InitProc} \cup User

ASSUME LinkAssumption ==
    /\ Idle # InitProc
    /\ Idle \notin User /\ InitProc \notin User
    /\ NULL \notin Proc

VARIABLES
    used,    \* the proc_structs that are allocated
    dead,    \* the zombies among them
    exiter,  \* the process inside do_exit's loop, or NULL
    parent, cptr, optr, yptr

linkVars == <<used, dead, exiter, parent, cptr, optr, yptr>>

Pointer == [Proc -> Proc \cup {NULL}]

LinksTypeOK ==
    /\ used \subseteq Proc /\ dead \subseteq User
    /\ exiter \in User \cup {NULL}
    /\ parent \in Pointer /\ cptr \in Pointer
    /\ optr \in Pointer /\ yptr \in Pointer

(* idleproc has made initproc.                                             *)
LinksInit ==
    /\ used = {Idle, InitProc} /\ dead = {} /\ exiter = NULL
    /\ parent = [p \in Proc |-> IF p = InitProc THEN Idle ELSE NULL]
    /\ cptr = [p \in Proc |-> IF p = Idle THEN InitProc ELSE NULL]
    /\ optr = [p \in Proc |-> NULL]
    /\ yptr = [p \in Proc |-> NULL]

(* Mutant: yptr keeps its old value.                                       *)
PushOneWay(p, c, head) ==
    /\ optr' = [optr EXCEPT ![c] = head]
    /\ yptr' = [yptr EXCEPT ![c] = NULL]
    /\ parent' = [parent EXCEPT ![c] = p]
(* Put c at the head of the children of p, whose list starts at `head'.    *)
Push(p, c, head) ==
    /\ optr' = [optr EXCEPT ![c] = head]
    /\ yptr' = [q \in Proc |-> IF q = c THEN NULL
                               ELSE IF q = head THEN c ELSE yptr[q]]
    /\ parent' = [parent EXCEPT ![c] = p]

(* do_fork by p: alloc_proc and set_links.  After init idle forks no more. *)
SetLinks(p, c) ==
    /\ exiter = NULL
    /\ p \in used \ (dead \cup {Idle})
    /\ c \in User \ used
    /\ used' = used \cup {c}
    /\ Push(p, c, cptr[p])
    /\ cptr' = [cptr EXCEPT ![p] = c, ![c] = NULL]
    /\ UNCHANGED <<dead, exiter>>

(* do_exit by p, up to the loop.                                           *)
ExitBegin(p) ==
    /\ exiter = NULL
    /\ p \in (used \cap User) \ dead
    /\ dead' = dead \cup {p}
    /\ exiter' = p
    /\ UNCHANGED <<used, parent, cptr, optr, yptr>>

(* One turn of the loop: the youngest child moves to init.                 *)
ExitMove ==
    /\ exiter # NULL
    /\ cptr[exiter] # NULL
    /\ LET c == cptr[exiter] IN
          /\ Push(InitProc, c, cptr[InitProc])
          /\ cptr' = [cptr EXCEPT ![exiter] = optr[c], ![InitProc] = c]
    /\ UNCHANGED <<used, dead, exiter>>

ExitEnd ==
    /\ exiter # NULL
    /\ cptr[exiter] = NULL
    /\ exiter' = NULL
    /\ UNCHANGED <<used, dead, parent, cptr, optr, yptr>>

(* Mutant: the siblings still point to the released child.                 *)
RemoveLinksKeepsOlder(p, c) ==
    /\ exiter = NULL
    /\ p \in used \ dead
    /\ c \in dead /\ parent[c] = p
    /\ used' = used \ {c} /\ dead' = dead \ {c}
    /\ yptr' = [yptr EXCEPT ![c] = NULL]
    /\ optr' = [optr EXCEPT ![c] = NULL]
    /\ cptr' = IF yptr[c] = NULL THEN [cptr EXCEPT ![p] = optr[c]] ELSE cptr
    /\ parent' = [parent EXCEPT ![c] = NULL]
    /\ UNCHANGED exiter

(* do_wait by p releases its child c: remove_links and kfree, after which  *)
(* the fields of c mean nothing until alloc_proc clears them.              *)
RemoveLinks(p, c) ==
    /\ exiter = NULL
    /\ p \in used \ dead
    /\ c \in dead /\ parent[c] = p
    /\ used' = used \ {c} /\ dead' = dead \ {c}
    /\ yptr' = [q \in Proc |-> IF q = c THEN NULL
                               ELSE IF q = optr[c] THEN yptr[c] ELSE yptr[q]]
    /\ optr' = [q \in Proc |-> IF q = c THEN NULL
                               ELSE IF q = yptr[c] THEN optr[c] ELSE optr[q]]
    /\ cptr' = IF yptr[c] = NULL THEN [cptr EXCEPT ![p] = optr[c]] ELSE cptr
    /\ parent' = [parent EXCEPT ![c] = NULL]
    /\ UNCHANGED exiter

-----------------------------------------------------------------------------
(* Safety.                                                                 *)

(* The sibling lists are doubly linked, between children of one parent,    *)
(* and start at the parent's cptr.  While do_exit moves the children, the  *)
(* yptr of the next one still names the one that was moved before it.      *)
Stale(c) == exiter # NULL /\ cptr[exiter] = c

DoublyLinked ==
    \A c \in used \ {Idle} :
        /\ cptr[c] # NULL => parent[cptr[c]] = c
        /\ optr[c] # NULL => /\ yptr[optr[c]] = c
                             /\ parent[optr[c]] = parent[c]
        /\ yptr[c] # NULL /\ ~Stale(c) => optr[yptr[c]] = c
        /\ yptr[c] = NULL => cptr[parent[c]] = c

(* The n-th process, from 0, that do_wait's walk over the children of p    *)
(* meets.                                                                  *)
Met(p) == LET walk[n \in 0..Cardinality(Proc)] ==
                 IF n = 0 THEN cptr[p]
                 ELSE IF walk[n - 1] = NULL THEN NULL ELSE optr[walk[n - 1]]
          IN  walk

(* do_wait's walk ends, and meets exactly the processes whose parent is p, *)
(* so a do_wait for any child neither misses a zombie nor answers          *)
(* -E_BAD_PROC to a process that has children.                             *)
WalkFindsChildren ==
    \A p \in used :
        LET walk == Met(p) IN
        /\ walk[Cardinality(Proc)] = NULL
        /\ {walk[n] : n \in DOMAIN walk} \ {NULL} = {c \in used : parent[c] = p}

(* The pointers implement ProcFamily: a process dies when do_exit starts,  *)
(* and its children are init's from then on, moved or not.                 *)
LifeOf(p) == IF p \notin used THEN "free" ELSE IF p \in dead THEN "dead" ELSE "alive"
MotherOf(p) == IF exiter # NULL /\ parent[p] = exiter THEN InitProc ELSE parent[p]

Family == INSTANCE ProcFamily WITH
    life <- [p \in Proc |-> LifeOf(p)],
    mother <- [p \in Proc |-> MotherOf(p)]

=============================================================================
