------------------------- MODULE PhilosophersMonitor -------------------------
(***************************************************************************)
(* The dining philosophers of lab7/kern/sync/check_sync.c with the monitor *)
(* mt.  Philosopher i is a kernel thread; the condition self_cv[i] is      *)
(* named i.                                                                *)
(***************************************************************************)
EXTENDS Monitor

CONSTANTS
    N,      \* check_sync.c: the number of philosophers
    TIMES   \* check_sync.c: how often each eats

ASSUME PhiloAssumption ==
    /\ N \in Nat \ {0} /\ TIMES \in Nat \ {0}
    /\ Thread = 0..N - 1
    /\ Cond = Thread

VARIABLES
    state_condvar,  \* THINKING, HUNGRY or EATING
    iter            \* the meals a philosopher has had

phiVars == <<monVars, state_condvar, iter>>
outside == <<state_condvar, iter>>

LEFT(i)  == (i - 1 + N) % N
RIGHT(i) == (i + 1) % N

PhiPcs == {"think", "take_enter", "take", "check", "eat",
           "put_enter", "put", "put_right", "put_leave", "quit", "gone"}

PhiTypeOK ==
    /\ MonitorTypeOK(PhiPcs)
    /\ state_condvar \in [Thread -> {"THINKING", "HUNGRY", "EATING"}]
    /\ iter \in [Thread -> 0..TIMES]

PhiInit ==
    /\ MonitorInit("think")
    /\ state_condvar = [i \in Thread |-> "THINKING"]
    /\ iter = [i \in Thread |-> 0]

(* Mutant: only the left neighbour is looked at.                           *)
TestLeftOnly(p, i, states, from, to) ==
    IF states[i] = "HUNGRY" /\ states[LEFT(i)] # "EATING"
    THEN /\ state_condvar' = [states EXCEPT ![i] = "EATING"]
         /\ Signal(p, i, from, to)
    ELSE /\ state_condvar' = states
         /\ At(p, from) /\ GoOn(p, to) /\ UNCHANGED semVars

(* phi_test_condvar(i) called by p, in the given states.                   *)
Test(p, i, states, from, to) ==
    IF /\ states[i] = "HUNGRY"
       /\ states[LEFT(i)] # "EATING" /\ states[RIGHT(i)] # "EATING"
    THEN /\ state_condvar' = [states EXCEPT ![i] = "EATING"]
         /\ Signal(p, i, from, to)
    ELSE /\ state_condvar' = states
         /\ At(p, from) /\ GoOn(p, to) /\ UNCHANGED semVars

Think(p) == Nap(p, "think", "take_enter") /\ UNCHANGED outside

(* phi_take_forks_condvar: the loop around cond_wait ends once p is EATING.*)
TakeEnter(p) == Enter(p, "take_enter", "take") /\ UNCHANGED outside
Take(p) ==
    /\ Test(p, p, [state_condvar EXCEPT ![p] = "HUNGRY"], "take", "check")
    /\ UNCHANGED iter
TakeWait(p) ==
    /\ state_condvar[p] # "EATING"
    /\ Wait(p, p, "check", "check")
    /\ UNCHANGED outside
TakeLeave(p) ==
    /\ state_condvar[p] = "EATING"
    /\ Leave(p, "check", "eat")
    /\ UNCHANGED outside

Eat(p) == Nap(p, "eat", "put_enter") /\ UNCHANGED outside

(* phi_put_forks_condvar.                                                  *)
PutEnter(p) == Enter(p, "put_enter", "put") /\ UNCHANGED outside
Put(p) ==
    /\ Test(p, LEFT(p), [state_condvar EXCEPT ![p] = "THINKING"], "put", "put_right")
    /\ UNCHANGED iter
PutRightForgotten(p) ==   \* mutant: the right neighbour is not tested
    At(p, "put_right") /\ GoOn(p, "put_leave") /\ UNCHANGED <<semVars, outside>>
PutRight(p) ==
    /\ Test(p, RIGHT(p), state_condvar, "put_right", "put_leave")
    /\ UNCHANGED iter
PutLeave(p) ==
    /\ iter' = [iter EXCEPT ![p] = @ + 1]
    /\ Leave(p, "put_leave", IF iter'[p] < TIMES THEN "think" ELSE "quit")
    /\ UNCHANGED state_condvar

Quit(p) == At(p, "quit") /\ Exit(p) /\ GoOn(p, "gone") /\ UNCHANGED outside

Philosopher(p) ==
    \/ Think(p)
    \/ TakeEnter(p) \/ Take(p) \/ TakeWait(p) \/ TakeLeave(p)
    \/ Eat(p)
    \/ PutEnter(p) \/ Put(p) \/ PutRight(p) \/ PutLeave(p)
    \/ Quit(p)

AllGone == \A p \in Thread : pc[p] = "gone"

PhiNext ==
    \/ \E p \in Thread : Philosopher(p)
    \/ MonitorStep /\ UNCHANGED outside

-----------------------------------------------------------------------------

(* p has both forks: it has left phi_take_forks_condvar and has not put    *)
(* them back.                                                              *)
HasForks(p) == pc[p] \in {"eat", "put_enter", "put"}

(* No two neighbours eat at the same time, and who eats is EATING.         *)
NeighboursApart ==
    \A p \in Thread :
        HasForks(p) =>
            /\ state_condvar[p] = "EATING"
            /\ LEFT(p) # p => ~HasForks(LEFT(p))

(* Nobody is forgotten: while the monitor is free, a hungry philosopher    *)
(* waits and has a neighbour that eats, and whose put will test it.        *)
HungryHasReason ==
    value[Mutex] > 0 =>
        \A p \in Thread : state_condvar[p] = "HUNGRY" =>
            /\ pc[p] = "wait_down" \/ p \in Queued(p)
            /\ "EATING" \in {state_condvar[LEFT(p)], state_condvar[RIGHT(p)]}

=============================================================================
