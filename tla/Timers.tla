------------------------------- MODULE Timers --------------------------------
(***************************************************************************)
(* What a kernel timer promises: a timer armed for t ticks fires at the    *)
(* t-th tick after that unless it is stopped first.  TimerList implements  *)
(* it with one list of differences; Process uses it for do_sleep.          *)
(***************************************************************************)
EXTENDS Integers

CONSTANTS Owner, MaxTicks

VARIABLE left  \* ticks until the timer of p fires, 0 if it is not armed

TimersInit == left = [p \in Owner |-> 0]

Arm(p, t)  == left[p] = 0 /\ left' = [left EXCEPT ![p] = t]
Stop(p)    == left' = [left EXCEPT ![p] = 0]
CountDown  == left' = [p \in Owner |-> IF left[p] > 0 THEN left[p] - 1 ELSE 0]

TimersNext ==
    \/ \E p \in Owner : Stop(p) \/ \E t \in 1..MaxTicks : Arm(p, t)
    \/ CountDown

TimersSpec == TimersInit /\ [][TimersNext]_left

=============================================================================
