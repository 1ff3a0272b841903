------------------------------ MODULE CheckSync ------------------------------
(***************************************************************************)
(* check_sync of lab7/kern/sync/check_sync.c serves the same dinner twice, *)
(* once with semaphores (PhilosophersSem) and once with a monitor          *)
(* (PhilosophersMonitor).  The two share nothing but the scheduler, which  *)
(* both leave free, so a behaviour of this module is a behaviour of either *)
(* one, and what the other one alone has stays as it is.                   *)
(***************************************************************************)
EXTENDS PhilosophersMonitor

CONSTANT SEMA_TIMES  \* TIMES at the dinner with semaphores

ASSUME DinnerAssumption == SEMA_TIMES \in Nat \ {0}

VARIABLE version  \* "semaphores" or "monitor"

checkVars == <<phiVars, version>>

BySem == INSTANCE PhilosophersSem WITH
    Sem <- Sem \ {NextSem},
    TIMES <- SEMA_TIMES,
    state_sema <- state_condvar

CheckInit ==
    \/ version = "monitor" /\ PhiInit
    \/ /\ version = "semaphores"
       /\ BySem!PhiInit
       /\ next_count = 0
       /\ count = [c \in Cond |-> 0]
       /\ cv = [p \in Thread |-> NULL]
       /\ ret = [p \in Thread |-> "think"]

CheckNext ==
    \/ version = "monitor" /\ PhiNext /\ UNCHANGED version
    \/ /\ version = "semaphores" /\ BySem!PhiNext
       /\ UNCHANGED <<next_count, count, cv, ret, version>>

(* Timers fire, kernel code runs on, and schedule() picks some thread if   *)
(* one is runnable; which one does not matter.                             *)
CheckSpec == CheckInit /\ [][CheckNext]_checkVars /\ WF_checkVars(CheckNext)

-----------------------------------------------------------------------------

(* No two neighbours have their forks, from the return of                  *)
(* phi_take_forks to phi_put_forks, at the same time.                      *)
NeighboursNeverEat ==
    CASE version = "monitor"    -> NeighboursApart
      [] version = "semaphores" -> BySem!NeighboursApart

(* Nobody is forgotten: while the table is at rest, a hungry philosopher   *)
(* has a neighbour that eats, and whose phi_put_forks will test it.        *)
HungryRemembered ==
    CASE version = "monitor"    -> HungryHasReason
      [] version = "semaphores" -> BySem!HungryHasReason

(* Every philosopher has all its meals and its thread quits, whatever the  *)
(* scheduler does.                                                         *)
DinnerEnds ==
    <>(/\ AllGone
       /\ iter = [p \in Thread |-> IF version = "monitor" THEN TIMES ELSE SEMA_TIMES])

=============================================================================
