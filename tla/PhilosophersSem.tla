--------------------------- MODULE PhilosophersSem ---------------------------
(***************************************************************************)
(* The dining philosophers of lab7/kern/sync/check_sync.c with semaphores. *)
(* Philosopher i is a kernel thread; s[i] is the semaphore named i.        *)
(***************************************************************************)
EXTENDS Semaphore

CONSTANTS
    N,      \* check_sync.c: the number of philosophers
    TIMES,  \* check_sync.c: how often each eats
    Mutex   \* the semaphore mutex

VARIABLES
    state_sema,  \* THINKING, HUNGRY or EATING
    iter,        \* the meals a philosopher has had
    pc           \* where its thread stands

phiVars == <<semVars, state_sema, iter, pc>>

LEFT(i)  == (i - 1 + N) % N
RIGHT(i) == (i + 1) % N

PhiPcs == {"think", "take_lock", "take", "take_unlock", "take_down",
           "eat", "put_lock", "put", "put_right", "put_unlock", "quit", "gone"}

PhiTypeOK ==
    /\ SemTypeOK
    /\ state_sema \in [Thread -> {"THINKING", "HUNGRY", "EATING"}]
    /\ iter \in [Thread -> 0..TIMES]
    /\ pc \in [Thread -> PhiPcs]

PhiInit ==
    /\ SemInit([s \in Sem |-> IF s = Mutex THEN 1 ELSE 0])
    /\ state_sema = [i \in Thread |-> "THINKING"]
    /\ iter = [i \in Thread |-> 0]
    /\ pc = [i \in Thread |-> IF TIMES = 0 THEN "quit" ELSE "think"]

(* i goes from one point to the next; act is what happens to semaphores.   *)
At(i, from) == Active(i) /\ pc[i] = from
GoTo(i, to) == pc' = [pc EXCEPT ![i] = to] /\ UNCHANGED <<state_sema, iter>>

(* phi_test_sema(i), in the given states.                                  *)
Test(i, states) ==
    IF /\ states[i] = "HUNGRY"
       /\ states[LEFT(i)] # "EATING" /\ states[RIGHT(i)] # "EATING"
    THEN state_sema' = [states EXCEPT ![i] = "EATING"] /\ Up(i)
    ELSE state_sema' = states /\ UNCHANGED semVars

Think(i) == At(i, "think") /\ Sleep(i) /\ GoTo(i, "take_lock")

(* phi_take_forks_sema.                                                    *)
TakeLock(i) == At(i, "take_lock") /\ Down(i, Mutex) /\ GoTo(i, "take")
Take(i) ==
    /\ At(i, "take")
    /\ Test(i, [state_sema EXCEPT ![i] = "HUNGRY"])
    /\ pc' = [pc EXCEPT ![i] = "take_unlock"]
    /\ UNCHANGED iter
TakeUnlock(i) == At(i, "take_unlock") /\ Up(Mutex) /\ GoTo(i, "take_down")
TakeDown(i) == At(i, "take_down") /\ Down(i, i) /\ GoTo(i, "eat")

Eat(i) == At(i, "eat") /\ Sleep(i) /\ GoTo(i, "put_lock")

(* phi_put_forks_sema.                                                     *)
PutLock(i) == At(i, "put_lock") /\ Down(i, Mutex) /\ GoTo(i, "put")
Put(i) ==
    /\ At(i, "put")
    /\ Test(LEFT(i), [state_sema EXCEPT ![i] = "THINKING"])
    /\ pc' = [pc EXCEPT ![i] = "put_right"]
    /\ UNCHANGED iter
PutRight(i) ==
    /\ At(i, "put_right")
    /\ Test(RIGHT(i), state_sema)
    /\ pc' = [pc EXCEPT ![i] = "put_unlock"]
    /\ UNCHANGED iter
PutUnlock(i) ==
    /\ At(i, "put_unlock")
    /\ Up(Mutex)
    /\ iter' = [iter EXCEPT ![i] = @ + 1]
    /\ pc' = [pc EXCEPT ![i] = IF iter'[i] < TIMES THEN "think" ELSE "quit"]
    /\ UNCHANGED state_sema

Quit(i) == At(i, "quit") /\ Exit(i) /\ GoTo(i, "gone")

Philosopher(i) ==
    \/ Think(i)
    \/ TakeLock(i) \/ Take(i) \/ TakeUnlock(i) \/ TakeDown(i)
    \/ Eat(i)
    \/ PutLock(i) \/ Put(i) \/ PutRight(i) \/ PutUnlock(i)
    \/ Quit(i)

AllGone == \A i \in Thread : pc[i] = "gone"

PhiNext ==
    \/ \E i \in Thread : Philosopher(i)
    \/ KernelStep /\ UNCHANGED <<state_sema, iter, pc>>

-----------------------------------------------------------------------------

(* i has both forks: it is past down(&s[i]) and has not put them back.     *)
HasForks(i) ==
    \/ pc[i] = "eat" /\ waiting[i] = NULL
    \/ pc[i] \in {"put_lock", "put"}

(* No two neighbours eat at the same time.                                 *)
NeighboursApart ==
    \A i \in Thread : i # LEFT(i) => ~(HasForks(i) /\ HasForks(LEFT(i)))

(* Nobody is forgotten: while no one is changing the table, a hungry       *)
(* philosopher has a neighbour that eats, and whose put will test it.      *)
HungryHasReason ==
    value[Mutex] > 0 =>
        \A i \in Thread : state_sema[i] = "HUNGRY" =>
            "EATING" \in {state_sema[LEFT(i)], state_sema[RIGHT(i)]}

=============================================================================
