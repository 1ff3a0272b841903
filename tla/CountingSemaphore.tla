-------------------------- MODULE CountingSemaphore --------------------------
(***************************************************************************)
(* What a semaphore promises: V adds a permit, and a P returns only by     *)
(* taking one.  Semaphore implements it.                                   *)
(***************************************************************************)
EXTENDS Integers

CONSTANTS Thread, Sem, NULL

VARIABLES
    permits,  \* the permits of each semaphore
    asking    \* the semaphore whose permit a thread waits for, or NULL

CountingInit ==
    /\ permits \in [Sem -> Nat]
    /\ asking = [p \in Thread |-> NULL]

V(s) == permits' = [permits EXCEPT ![s] = @ + 1] /\ UNCHANGED asking

Take(s) ==
    /\ permits[s] > 0
    /\ permits' = [permits EXCEPT ![s] = @ - 1]

(* P that need not wait, or a try that succeeds.                           *)
P(s) == Take(s) /\ UNCHANGED asking

Ask(p, s) ==
    /\ asking[p] = NULL
    /\ asking' = [asking EXCEPT ![p] = s]
    /\ UNCHANGED permits

Receive(p) ==
    /\ asking[p] # NULL
    /\ Take(asking[p])
    /\ asking' = [asking EXCEPT ![p] = NULL]

CountingNext ==
    \/ \E s \in Sem : V(s) \/ P(s) \/ \E p \in Thread : Ask(p, s)
    \/ \E p \in Thread : Receive(p)

CountingSpec == CountingInit /\ [][CountingNext]_<<permits, asking>>

=============================================================================
