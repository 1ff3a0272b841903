-------------------------------- MODULE Stride -------------------------------
(***************************************************************************)
(* The stride scheduling class of lab7/kern/schedule/default_sched_stride.c*)
(* with its skew heap (lab7/libs/skew_heap.h), and schedule() and the tick *)
(* that use it.  It makes the choice that Process leaves open.             *)
(*                                                                         *)
(* Each pick adds BIG_STRIDE / priority to the stride of the process that  *)
(* is picked, modulo 2^32; strides are compared by the sign of their 32-bit*)
(* difference, which orders them only while they stay close together.      *)
(* Thread are all processes there ever are: one that is forked is one that *)
(* wakes for the first time, with stride 0 and priority 0.                 *)
(***************************************************************************)
EXTENDS Integers, FiniteSets

CONSTANTS
    Thread,           \* the processes other than idle
    idleproc,
    None,             \* NULL
    Half,             \* half the number of strides: 2^31
    Priority,         \* the arguments of lab6_set_priority
    MAX_TIME_SLICE    \* rq->max_time_slice

ASSUME StrideAssumption ==
    /\ IsFiniteSet(Thread)
    /\ idleproc \notin Thread
    /\ None \notin Thread
    /\ Half \in Nat \ {0}
    /\ Priority \subseteq Nat
    /\ MAX_TIME_SLICE \in Nat

VARIABLES
    run_pool,       \* the left and right pointers of the heap's entries
    lab6_stride, lab6_priority, time_slice,
    runnable,       \* the processes whose state is PROC_RUNNABLE
    current,        \* who owns the CPU
    need_resched,   \* current is to call schedule()
    joinedClose     \* history: since nobody was runnable, every process that
                    \* joined was close to those that were

strideVars == <<run_pool, lab6_stride, lab6_priority, time_slice, runnable,
                current, need_resched, joinedClose>>

Mod == 2 * Half
BIG_STRIDE == Half - 1

-----------------------------------------------------------------------------
(* The run queue, as entries with pointers.  rq->lab6_run_pool, the root, is*)
(* kept as the left pointer of None.  stride_dequeue only ever removes the *)
(* root, so the parent pointers are left out; the pointers of a process    *)
(* that is not queued are never read, and None here.                       *)

Entry == Thread \cup {None}
root(h) == h.left[None]

(* proc_stride_comp_f(p, q) == -1.                                         *)
Before(p, q) == (lab6_stride[p] - lab6_stride[q]) % Mod >= Half

(* The strides of P are at most BIG_STRIDE ahead of the least of them.     *)
AreClose(P) == \E least \in P : \A p \in P :
                   (lab6_stride[p] - lab6_stride[least]) % Mod <= BIG_STRIDE

(* A call of skew_heap_merge: the heap, its arguments, and the process that*)
(* the call above it has chosen, whose left child its result becomes.      *)
Links == [Entry -> Entry]
Calls == [left : Links, right : Links, at : Entry, a : Entry, b : Entry]

(* The call that a call makes, and what one returns that makes none.       *)
MergeCall == [m \in Calls |->
    IF None \in {m.a, m.b} THEN m
    ELSE IF Before(m.a, m.b)
    THEN [m EXCEPT !.left[m.at] = m.a, !.right[m.a] = m.left[m.a],
                   !.at = m.a, !.a = m.right[m.a]]
    ELSE [m EXCEPT !.left[m.at] = m.b, !.right[m.b] = m.left[m.b],
                   !.at = m.b, !.b = m.right[m.b]]]
MergeReturn == [m \in Calls |->
    [left  |-> [m.left EXCEPT ![m.at] = IF m.a = None THEN m.b ELSE m.a],
     right |-> m.right]]

(* skew_heap_merge of the heaps with the roots x and y, as the new root.  A*)
(* call takes a process out of x or y, so there are no more than processes.*)
SkewMerge(h, x, y) ==
    LET call[n \in 0..Cardinality(Thread)] ==
            IF n = 0 THEN [left |-> h.left, right |-> h.right,
                           at |-> None, a |-> x, b |-> y]
            ELSE MergeCall[call[n - 1]]
    IN  MergeReturn[call[Cardinality(Thread)]]

(* stride_enqueue; skew_heap_remove of the root.                           *)
Enqueue(h, p) == SkewMerge(h, root(h), p)
Dequeue(h, p) == SkewMerge([left  |-> [h.left EXCEPT ![p] = None],
                            right |-> [h.right EXCEPT ![p] = None]],
                           h.left[p], h.right[p])
Slice(p) == IF time_slice[p] = 0 \/ time_slice[p] > MAX_TIME_SLICE
            THEN MAX_TIME_SLICE ELSE time_slice[p]

PassNone(p) ==   \* mutant: priority 0 costs nothing
    IF lab6_priority[p] = 0 THEN 0 ELSE BIG_STRIDE \div lab6_priority[p]
PassUnsigned(p) ==   \* mutant: BIG_STRIDE is the largest stride
    IF lab6_priority[p] = 0 THEN Mod - 1 ELSE (Mod - 1) \div lab6_priority[p]
Pass(p) == IF lab6_priority[p] = 0 THEN BIG_STRIDE
           ELSE BIG_STRIDE \div lab6_priority[p]

StrideInit ==
    /\ run_pool = [left |-> [p \in Entry |-> None], right |-> [p \in Entry |-> None]]
    /\ lab6_stride = [p \in Thread |-> 0]
    /\ lab6_priority = [p \in Thread |-> 0]
    /\ time_slice = [p \in Thread |-> 0]
    /\ runnable = {}
    /\ current = idleproc
    /\ need_resched = TRUE
    /\ joinedClose = TRUE

(* stride_pick_next takes the process at the root and advances its stride; *)
(* stride_dequeue then removes the root.                                   *)
PickNext(heap) ==
    LET p == root(heap) IN
    /\ current' = p
    /\ lab6_stride' = [lab6_stride EXCEPT ![p] = (@ + Pass(p)) % Mod]
    /\ run_pool' = Dequeue(heap, p)

(* schedule().  idleproc, which is never queued, calls it at every tick.   *)
Schedule ==
    /\ need_resched
    /\ time_slice' = IF current \in runnable
                     THEN [time_slice EXCEPT ![current] = Slice(current)]
                     ELSE time_slice
    /\ \E heap \in {IF current \in runnable THEN Enqueue(run_pool, current) ELSE run_pool} :
        \/ /\ root(heap) = None
           /\ current' = idleproc
           /\ need_resched' = TRUE
           /\ UNCHANGED <<run_pool, lab6_stride>>
        \/ /\ root(heap) # None
           /\ PickNext(heap)
           /\ need_resched' = FALSE
    /\ UNCHANGED <<lab6_priority, runnable, joinedClose>>

(* sched_class_proc_tick.                                                  *)
ProcTick ==
    /\ current # idleproc
    /\ \/ /\ time_slice[current] > 0
          /\ time_slice' = [time_slice EXCEPT ![current] = @ - 1]
          /\ UNCHANGED need_resched
       \/ /\ time_slice[current] = 0
          /\ need_resched' = TRUE
          /\ UNCHANGED time_slice
    /\ UNCHANGED <<run_pool, lab6_stride, lab6_priority, runnable, current,
                   joinedClose>>

(* wakeup_proc; the process may not have given up the CPU yet.             *)
WakeupProc(p) ==
    /\ p \notin runnable
    /\ runnable' = runnable \cup {p}
    /\ \/ /\ p = current
          /\ UNCHANGED <<run_pool, time_slice>>
       \/ /\ p # current
          /\ run_pool' = Enqueue(run_pool, p)
          /\ time_slice' = [time_slice EXCEPT ![p] = Slice(p)]
    /\ joinedClose' = /\ runnable = {} \/ joinedClose
                      /\ AreClose(runnable \cup {p})
    /\ UNCHANGED <<lab6_stride, lab6_priority, current, need_resched>>

(* The process on the CPU blocks or exits, yields, or sets its priority.   *)
Block ==
    /\ current \in runnable
    /\ ~need_resched
    /\ runnable' = runnable \ {current}
    /\ need_resched' = TRUE
    /\ UNCHANGED <<run_pool, lab6_stride, lab6_priority, time_slice, current,
                   joinedClose>>

Yield ==
    /\ current \in runnable
    /\ ~need_resched
    /\ need_resched' = TRUE
    /\ UNCHANGED <<run_pool, lab6_stride, lab6_priority, time_slice, runnable,
                   current, joinedClose>>

SetPriority(n) ==
    /\ current \in runnable
    /\ ~need_resched
    /\ lab6_priority' = [lab6_priority EXCEPT ![current] = IF n = 0 THEN 1 ELSE n]
    /\ UNCHANGED <<run_pool, lab6_stride, time_slice, runnable, current,
                   need_resched, joinedClose>>

StrideNext ==
    \/ Schedule
    \/ ProcTick
    \/ \E p \in Thread : WakeupProc(p)
    \/ Block
    \/ Yield
    \/ \E n \in Priority : SetPriority(n)

StrideSpec == StrideInit /\ [][StrideNext]_strideVars

(* The clock ticks, and a process that is to call schedule() does.         *)
FairStrideSpec ==
    StrideSpec /\ WF_strideVars(Schedule) /\ WF_strideVars(ProcTick)

-----------------------------------------------------------------------------

(* The entries Q form a heap without regard to the order: each is below the*)
(* head, and at one place.                                                 *)
IsHeap(h, Q) ==
    /\ h.left \in [Entry -> Q \cup {None}] /\ h.right \in [Entry -> Q \cup {None}]
    /\ \A p \in Entry : p \notin Q => h.right[p] = None /\ (p # None => h.left[p] = None)
    /\ \A p, q \in Entry :
        /\ h.left[p] # None => h.left[p] # h.right[q] /\ (p # q => h.left[p] # h.left[q])
        /\ h.right[p] # None /\ p # q => h.right[p] # h.right[q]
    /\ \A X \in SUBSET (Q \cup {None}) :
        None \in X /\ (\A p \in X : h.left[p] \in X /\ h.right[p] \in X) => X = Q \cup {None}

(* Types; the run queue holds the runnable processes but the current one.  *)
StrideTypeOK ==
    /\ IsHeap(run_pool, runnable \ {current})
    /\ lab6_stride \in [Thread -> 0..Mod - 1]
    /\ lab6_priority \in [Thread -> Nat]
    /\ time_slice \in [Thread -> 0..MAX_TIME_SLICE]
    /\ runnable \subseteq Thread
    /\ current \in Thread \cup {idleproc}
    /\ need_resched \in BOOLEAN
    /\ joinedClose \in BOOLEAN

(* Picking never spreads the strides of the runnable processes so far that *)
(* their 32-bit differences no longer order them: strides are close as long*)
(* as each process that is forked or wakes has one close to those it joins,*)
(* whatever the processes do then.  A fork by a process that has been      *)
(* picked once is such a case: the child is at 0, its parent at BIG_STRIDE *)
(* or less.                                                                *)
StridesClose == joinedClose /\ runnable # {} => AreClose(runnable)

(* schedule() gives the CPU to idle only if nobody can run; to a process   *)
(* that can, and, if all have joined close, to one that none is before.    *)
PicksLeast ==
    [][Schedule =>
        IF runnable = {} THEN current' = idleproc
        ELSE /\ current' \in runnable
             /\ joinedClose => \A p \in runnable : ~Before(p, current')]_strideVars

(* Nobody waits in the heap for ever in a program that sets priorities     *)
(* finitely often, although processes that have slept or are new may be so *)
(* far behind that the comparison has no least element.                    *)
NobodyStarves ==
    <>[][UNCHANGED lab6_priority]_strideVars =>
        \A p \in Thread : p \in runnable ~> current = p

=============================================================================
