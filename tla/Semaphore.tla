------------------------------ MODULE Semaphore ------------------------------
(***************************************************************************)
(* Semaphores and wait queues: lab7/kern/sync/sem.c and wait.c, on the one *)
(* CPU that Process describes.  A thread gives up the CPU only where it    *)
(* blocks or calls schedule(); what a tick may do in between is to wake a  *)
(* thread that is in do_sleep.  wait_state also says whether a thread is   *)
(* runnable ("none") or sleeping, as Process's invariant PcInv shows, and  *)
(* the run queue holds the other runnable threads (RunQueueExact there).   *)
(*                                                                         *)
(* The first part are the operations, which Monitor and Philosophers also  *)
(* use; the second is the most general program that uses them.             *)
(***************************************************************************)
EXTENDS Integers, Sequences, FiniteSets, SequencesExt

CONSTANTS
    Thread,    \* the kernel threads and processes that use semaphores
    Sem,       \* the semaphores
    Idle,      \* idleproc
    NULL       \* no semaphore and no thread

ASSUME ThreadAssumption ==
    IsFiniteSet(Thread) /\ Idle \notin Thread /\ NULL \notin Sem \cup Thread

VARIABLES
    current,       \* who owns the CPU
    resched,       \* current is about to call schedule()
    wait_state,    \* proc->wait_state
    value,         \* sem->value
    queue,         \* sem->wait_queue, as the threads of its wait_t entries
    waiting,       \* the semaphore whose __down a thread has blocked in
    wakeup_flags   \* the wakeup_flags of the wait_t on its stack

semVars == <<current, resched, wait_state, value, queue, waiting, wakeup_flags>>

WaitStates == {"none", "WT_KSEM", "WT_TIMER", "EXITED"}  \* "EXITED": a zombie

SemTypeOK ==
    /\ current \in Thread \cup {Idle}
    /\ resched \in BOOLEAN
    /\ wait_state \in [Thread -> WaitStates]
    /\ value \in [Sem -> Nat]
    /\ queue \in [Sem -> Seq(Thread)]
    /\ waiting \in [Thread -> Sem \cup {NULL}]
    /\ wakeup_flags \in [Thread -> {"WT_INTERRUPTED", "WT_KSEM"}]

Runnable == {p \in Thread : wait_state[p] = "none"}
Queued(s) == ToSet(queue[s])

(* sem_init of every semaphore s, to initial[s]; the threads are in the    *)
(* run queue.                                                              *)
SemInit(initial) ==
    /\ current = Idle
    /\ resched = TRUE
    /\ wait_state = [p \in Thread |-> "none"]
    /\ value = initial
    /\ queue = [s \in Sem |-> <<>>]
    /\ waiting = [p \in Thread |-> NULL]
    /\ wakeup_flags = [p \in Thread |-> "WT_INTERRUPTED"]

Runs(p) == current = p /\ ~resched

(* p has the CPU and is not inside __down.                                 *)
Active(p) == Runs(p) /\ waiting[p] = NULL

(* Mutants: the permit is also counted; the waiter stays in the queue.     *)
UpCountsHandOff(s) ==
    /\ value' = [value EXCEPT ![s] = @ + 1]
    /\ IF queue[s] = <<>> THEN UNCHANGED <<wait_state, queue, wakeup_flags>>
       ELSE LET p == Head(queue[s]) IN
            /\ queue' = [queue EXCEPT ![s] = Tail(@)]
            /\ wakeup_flags' = [wakeup_flags EXCEPT ![p] = "WT_KSEM"]
            /\ wait_state' = [wait_state EXCEPT ![p] = "none"]
    /\ UNCHANGED <<current, resched, waiting>>
UpKeepsWaiter(s) ==
    /\ IF queue[s] = <<>>
       THEN /\ value' = [value EXCEPT ![s] = @ + 1]
            /\ UNCHANGED <<wait_state, wakeup_flags>>
       ELSE LET p == Head(queue[s]) IN
            /\ wakeup_flags' = [wakeup_flags EXCEPT ![p] = "WT_KSEM"]
            /\ wait_state' = [wait_state EXCEPT ![p] = "none"]
            /\ UNCHANGED value
    /\ UNCHANGED <<current, resched, queue, waiting>>

(* __up: with no one in the queue the permit is counted; otherwise it is   *)
(* handed to the first waiter, which leaves the queue and becomes runnable.*)
Up(s) ==
    /\ \/ /\ queue[s] = <<>>
          /\ value' = [value EXCEPT ![s] = @ + 1]
          /\ UNCHANGED <<wait_state, queue, wakeup_flags>>
       \/ /\ queue[s] # <<>>
          /\ LET p == Head(queue[s]) IN
                /\ queue' = [queue EXCEPT ![s] = Tail(@)]
                /\ wakeup_flags' = [wakeup_flags EXCEPT ![p] = "WT_KSEM"]
                /\ wait_state' = [wait_state EXCEPT ![p] = "none"]
          /\ UNCHANGED value
    /\ UNCHANGED <<current, resched, waiting>>

DownTake(s) ==
    /\ value[s] > 0
    /\ value' = [value EXCEPT ![s] = @ - 1]
    /\ UNCHANGED <<current, resched, wait_state, queue, waiting, wakeup_flags>>

(* Mutant: the newest waiter is the first.                                 *)
DownBlockFirst(p, s) ==
    /\ value[s] <= 0
    /\ queue' = [queue EXCEPT ![s] = <<p>> \o @]
    /\ wait_state' = [wait_state EXCEPT ![p] = "WT_KSEM"]
    /\ waiting' = [waiting EXCEPT ![p] = s]
    /\ wakeup_flags' = [wakeup_flags EXCEPT ![p] = "WT_INTERRUPTED"]
    /\ resched' = TRUE
    /\ UNCHANGED <<current, value>>

(* wait_current_set: p becomes a sleeper at the end of the queue.          *)
DownBlock(p, s) ==
    /\ value[s] <= 0
    /\ queue' = [queue EXCEPT ![s] = Append(@, p)]
    /\ wait_state' = [wait_state EXCEPT ![p] = "WT_KSEM"]
    /\ waiting' = [waiting EXCEPT ![p] = s]
    /\ wakeup_flags' = [wakeup_flags EXCEPT ![p] = "WT_INTERRUPTED"]
    /\ resched' = TRUE
    /\ UNCHANGED <<current, value>>

(* __down by p, up to its schedule().                                      *)
Down(p, s) == DownTake(s) \/ DownBlock(p, s)

(* __down after schedule(): wait_current_del takes p out of a queue it is  *)
(* still in.                                                               *)
DownReturn(p) ==
    /\ Runs(p)
    /\ waiting[p] # NULL
    /\ queue' = IF p \in Queued(waiting[p])
                THEN [queue EXCEPT ![waiting[p]] = Remove(@, p)] ELSE queue
    /\ waiting' = [waiting EXCEPT ![p] = NULL]
    /\ UNCHANGED <<current, resched, wait_state, value, wakeup_flags>>

(* schedule(), which may pick the caller again if a tick has already ended *)
(* its sleep.  Idle calls it at every tick; a call that picks idle again is*)
(* left out.                                                               *)
Dispatch ==
    /\ resched
    /\ current' \in IF Runnable = {} THEN {Idle} ELSE Runnable
    /\ resched' = (current' = Idle)
    /\ <<current', resched'>> # <<current, resched>>
    /\ UNCHANGED <<wait_state, value, queue, waiting, wakeup_flags>>

(* do_sleep, and the tick at which its timer fires.                        *)
Sleep(p) ==
    /\ wait_state' = [wait_state EXCEPT ![p] = "WT_TIMER"]
    /\ resched' = TRUE
    /\ UNCHANGED <<current, value, queue, waiting, wakeup_flags>>

TimerFires(p) ==
    /\ wait_state[p] = "WT_TIMER"
    /\ wait_state' = [wait_state EXCEPT ![p] = "none"]
    /\ UNCHANGED <<current, resched, value, queue, waiting, wakeup_flags>>

(* do_exit.                                                                *)
Exit(p) ==
    /\ wait_state' = [wait_state EXCEPT ![p] = "EXITED"]
    /\ resched' = TRUE
    /\ UNCHANGED <<current, value, queue, waiting, wakeup_flags>>

(* What goes on inside __down, the scheduler and the clock.                *)
KernelStep == Dispatch \/ \E p \in Thread : DownReturn(p) \/ TimerFires(p)

-----------------------------------------------------------------------------
(* The most general program.                                               *)

CONSTANT MaxValue  \* bound: the largest value a semaphore reaches

UserUp(p, s) == Active(p) /\ value[s] < MaxValue /\ Up(s)

UserDown(p, s) == Active(p) /\ Down(p, s)

(* try_down that succeeds; one that fails changes nothing.                 *)
UserTryDown(p, s) == Active(p) /\ DownTake(s)

UserSleep(p) == Active(p) /\ Sleep(p)

UserExit(p) == Active(p) /\ Exit(p)

(* A process preempted in user mode, or one that yields.                   *)
UserYield(p) ==
    /\ Active(p)
    /\ resched' = TRUE
    /\ UNCHANGED <<current, wait_state, value, queue, waiting, wakeup_flags>>

(* do_kill of p: WT_KSEM lacks the bit WT_INTERRUPTED, so only a thread in *)
(* do_sleep is woken.                                                      *)
Kill(p) ==
    /\ wait_state[p] = "WT_TIMER"
    /\ wait_state' = [wait_state EXCEPT ![p] = "none"]
    /\ UNCHANGED <<current, resched, value, queue, waiting, wakeup_flags>>

Next ==
    \/ \E p \in Thread, s \in Sem :
          UserUp(p, s) \/ UserDown(p, s) \/ UserTryDown(p, s)
    \/ \E p \in Thread : UserSleep(p) \/ UserYield(p) \/ UserExit(p) \/ Kill(p)
    \/ KernelStep

Init == \E initial \in [Sem -> 0..MaxValue] : SemInit(initial)

Spec == Init /\ [][Next]_semVars

(* A thread on its way out of __down runs on, and the scheduling class     *)
(* picks every thread that stays runnable.                                 *)
FairSpec ==
    /\ Spec
    /\ \A p \in Thread : WF_semVars(DownReturn(p))
    /\ WF_semVars(Dispatch)
    /\ \A p \in Thread : SF_semVars(Next /\ current # p /\ current' = p)

-----------------------------------------------------------------------------

TypeOK == SemTypeOK

(* A thread is in the queue of a semaphore exactly while it sleeps in its  *)
(* __down, and only once: the wait_t on its kernel stack is in no list when*)
(* __down returns, and nothing but up wakes it.                            *)
QueueExact ==
    \A s \in Sem :
        /\ \A p \in Thread :
              p \in Queued(s) <=> waiting[p] = s /\ wait_state[p] = "WT_KSEM"
        /\ IsInjective(queue[s])

(* down's assertion that __down returns 0: a thread leaves __down only     *)
(* because an up has handed it a permit.                                   *)
DownGranted ==
    \A p \in Thread :
        waiting[p] # NULL /\ wait_state[p] = "none" => wakeup_flags[p] = "WT_KSEM"

(* No lost wakeup: nobody waits for a semaphore that has permits.          *)
NobodyWaitsInVain == \A s \in Sem : value[s] > 0 => queue[s] = <<>>

(* up and down implement Dijkstra's counting semaphore: a permit is spent  *)
(* when down returns, so one that is handed over is neither lost nor       *)
(* doubled before its thread runs again.                                   *)
HandedOver == [s \in Sem |-> {p \in Thread : waiting[p] = s /\ p \notin Queued(s)}]

Permits == [s \in Sem |-> value[s] + Cardinality(HandedOver[s])]

Counting == INSTANCE CountingSemaphore WITH permits <- Permits, asking <- waiting

ImplementsCounting == Counting!CountingSpec

(* For the induction: whoever runs is runnable, and a thread inside __down *)
(* does nothing else.                                                      *)
CpuInv ==
    /\ ~resched => current \in Thread /\ wait_state[current] = "none"
    /\ \A p \in Thread :
          /\ waiting[p] # NULL => wait_state[p] \in {"none", "WT_KSEM"}
          /\ wait_state[p] = "WT_KSEM" => waiting[p] # NULL

IndInv ==
    /\ TypeOK
    /\ QueueExact
    /\ DownGranted
    /\ NobodyWaitsInVain
    /\ CpuInv

(* The queue is first-in first-out: as long as permits keep coming, every  *)
(* down returns.                                                           *)
DownReturns ==
    \A s \in Sem :
        []<><<queue[s] # <<>> /\ \E q \in Thread : UserUp(q, s)>>_semVars =>
            \A p \in Thread : waiting[p] = s ~> waiting[p] = NULL

=============================================================================
