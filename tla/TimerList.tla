------------------------------ MODULE TimerList ------------------------------
(***************************************************************************)
(* The timer list of lab7/kern/schedule/sched.c: add_timer, del_timer and  *)
(* the countdown of run_timer_list.  The list is sorted by expiry and each *)
(* timer_t holds, in expires, the ticks that separate it from the one      *)
(* before it, so that a tick touches only the head.  Every operation runs  *)
(* with interrupts off.  A timer is named by the process that sleeps on it.*)
(***************************************************************************)
EXTENDS Integers, Sequences, FiniteSets, SequencesExt

CONSTANTS
    Sleeper,   \* the processes that may arm a timer
    MaxTicks   \* bound: the longest time a timer is armed for

ASSUME TimerAssumption == MaxTicks \in Nat

VARIABLE timer_list  \* the list: records of a process and its expires field

Timer == [proc : Sleeper, expires : 0..MaxTicks]

TimersTypeOK == timer_list \in Seq(Timer)

Armed == {timer_list[i].proc : i \in DOMAIN timer_list}

TimersInit == timer_list = <<>>

(* Due(l)[i]: the ticks until the i-th timer of l fires.                   *)
Due(l) ==
    LET due[i \in 0..Len(l)] == IF i = 0 THEN 0 ELSE due[i - 1] + l[i].expires
    IN  due

(* Mutant: what is left of the unlinked timer is forgotten.                *)
UnlinkOnly(l, i) == RemoveAt(l, i)

(* add_timer: walk past every timer that fires no later, taking what is    *)
(* left of t after each, and shorten the timer that comes next.            *)
AddTimer(p, t) ==
    LET due == Due(timer_list)
        i == Cardinality({k \in DOMAIN timer_list : due[k] <= t})
        new == [proc |-> p, expires |-> t - due[i]]
        rest == SubSeq(timer_list, i + 1, Len(timer_list))
    IN  /\ p \notin Armed
        /\ timer_list' =
              SubSeq(timer_list, 1, i) \o <<new>> \o
              (IF rest = <<>> THEN <<>>
               ELSE <<[rest[1] EXCEPT !.expires = @ - new.expires]>> \o Tail(rest))

(* Unlink the i-th timer of l: the next one takes over what is left of it. *)
Unlink(l, i) ==
    RemoveAt(IF i < Len(l) THEN [l EXCEPT ![i + 1].expires = @ + l[i].expires]
             ELSE l, i)

(* del_timer: nothing happens if the timer is not in the list.             *)
DelTimer(p) ==
    \/ \E i \in DOMAIN timer_list :
          timer_list[i].proc = p /\ timer_list' = Unlink(timer_list, i)
    \/ p \notin Armed /\ UNCHANGED timer_list

(* run_timer_list: the head loses a tick, then every timer at the head     *)
(* that has none left wakes its process and is deleted.                    *)
RunTimerList ==
    IF timer_list = <<>> THEN UNCHANGED timer_list
    ELSE LET ticked == [timer_list EXCEPT ![1].expires = @ - 1]
             fired == {k \in DOMAIN ticked :
                          \A i \in 1..k : ticked[i].expires = 0}
         IN  timer_list' = SubSeq(ticked, Cardinality(fired) + 1, Len(ticked))

-----------------------------------------------------------------------------

(* The list implements Timers: every timer fires at its own tick, whatever *)
(* is inserted before it or deleted in front of it.                        *)
Left == [p \in Sleeper |->
            IF p \in Armed
            THEN Due(timer_list)[CHOOSE i \in DOMAIN timer_list :
                                    timer_list[i].proc = p]
            ELSE 0]

Abstract == INSTANCE Timers WITH Owner <- Sleeper, left <- Left

ImplementsTimers == Abstract!TimersSpec

=============================================================================
