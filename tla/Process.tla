------------------------------- MODULE Process -------------------------------
(***************************************************************************)
(* Life of a process in lab7/kern/process/proc.c and                       *)
(* lab7/kern/schedule/sched.c: do_fork, do_exit, do_wait, do_kill,         *)
(* do_sleep, do_yield, wakeup_proc, schedule, run_timer_list and the       *)
(* epilogue of trap().                                                     *)
(*                                                                         *)
(* There is one CPU and the kernel is not preemptive: only the process     *)
(* `current' takes kernel steps, and control moves to another process only *)
(* inside schedule().  Interrupts stay enabled during a system call,       *)
(* though (T_SYSCALL is a trap gate), so a clock tick can fall between any *)
(* two steps that local_intr_save does not protect: every action below is  *)
(* one such uninterruptible step, and pc[p] is where p's kernel thread     *)
(* stands.  A step is merged with its successor only where a tick in       *)
(* between reads and writes nothing that either of them does.              *)
(*                                                                         *)
(* A proc_struct is a slot of User: "UNUSED" means not allocated, and a    *)
(* slot is its own pid (GetPid shows that live pids are distinct).         *)
(* The choice the scheduling class makes among runnable processes is       *)
(* abstracted to any choice; the sibling pointers are in ProcLinks.        *)
(***************************************************************************)
EXTENDS Integers, FiniteSets

CONSTANTS
    Idle,         \* idleproc, pid 0
    InitProc,     \* initproc, pid 1
    User,         \* proc_struct slots of every other process
    NULL,         \* the NULL pointer
    AnyChild,     \* the pid argument 0 of do_wait: any child
    MAX_PROCESS,  \* proc.h: the bound do_fork checks nr_process against
    MaxSleep      \* bound: the longest sleep a process asks for, in ticks

Proc == {Idle, InitProc} \cup User

ASSUME ProcAssumption ==
    /\ Idle # InitProc
    /\ Idle \notin User /\ InitProc \notin User
    /\ NULL \notin Proc /\ AnyChild \notin Proc
ASSUME BoundAssumption == MAX_PROCESS \in Nat /\ MaxSleep \in Nat

VARIABLES
    current,       \* the process that owns the CPU
    rq,            \* the processes in the run queue
    state,         \* proc->state, "UNUSED" for a slot that is not allocated
    wait_state,    \* proc->wait_state, "none" for 0
    exiting,       \* the processes whose flags have PF_EXITING
    parent,        \* proc->parent
    need_resched,  \* proc->need_resched
    timer,         \* ticks until p's timer_t expires, 0 if p is in no timer
    wpid,          \* the pid argument of the do_wait p is executing
    pc,            \* where p's kernel thread stands
    nr_process     \* the kernel's count of processes

vars == <<current, rq, state, wait_state, exiting, parent, need_resched,
          timer, wpid, pc, nr_process>>

States     == {"UNUSED", "RUNNABLE", "SLEEPING", "ZOMBIE"}
WaitStates == {"none", "WT_CHILD", "WT_TIMER"}
Pcs == {"idle", "fork_main", "init_sched", "quit",          \* kernel threads
        "user", "trapret",                                  \* user mode, trap()
        "wait", "wait_sched", "wait_woken",                 \* do_wait
        "sleep_sched", "sleep_woken",                       \* do_sleep
        "exit", "notify", "gone"}                           \* do_exit

TypeOK ==
    /\ current \in Proc
    /\ rq \subseteq Proc
    /\ state \in [Proc -> States]
    /\ wait_state \in [Proc -> WaitStates]
    /\ exiting \subseteq User
    /\ parent \in [Proc -> Proc \cup {NULL}]
    /\ need_resched \in [Proc -> BOOLEAN]
    /\ timer \in [Proc -> 0..MaxSleep]
    /\ wpid \in [Proc -> User \cup {AnyChild}]
    /\ pc \in [Proc -> Pcs]
    /\ nr_process \in Int

InUse(p) == state[p] # "UNUSED"
Children(p) == {c \in Proc : InUse(c) /\ parent[c] = p}

(* proc_init: idleproc has made initproc (a do_fork) and goes to cpu_idle. *)
Init ==
    /\ current = Idle
    /\ rq = {InitProc}
    /\ state = [p \in Proc |-> IF p \in User THEN "UNUSED" ELSE "RUNNABLE"]
    /\ wait_state = [p \in Proc |-> "none"]
    /\ exiting = {}
    /\ parent = [p \in Proc |-> IF p = InitProc THEN Idle ELSE NULL]
    /\ need_resched = [p \in Proc |-> p = Idle]
    /\ timer = [p \in Proc |-> 0]
    /\ wpid = [p \in Proc |-> AnyChild]
    /\ pc = [p \in Proc |-> IF p = Idle THEN "idle"
                            ELSE IF p = InitProc THEN "fork_main" ELSE "user"]
    /\ nr_process = 3

-----------------------------------------------------------------------------
(* Mutants: current is queued as well; nothing is queued.                  *)
WakeupQueuesCurrent(W) ==
    LET S == {p \in W : state[p] # "RUNNABLE"} IN
    /\ state' = [p \in Proc |-> IF p \in S THEN "RUNNABLE" ELSE state[p]]
    /\ wait_state' = [p \in Proc |-> IF p \in S THEN "none" ELSE wait_state[p]]
    /\ rq' = rq \cup S
WakeupQueuesNobody(W) ==
    LET S == {p \in W : state[p] # "RUNNABLE"} IN
    /\ state' = [p \in Proc |-> IF p \in S THEN "RUNNABLE" ELSE state[p]]
    /\ wait_state' = [p \in Proc |-> IF p \in S THEN "none" ELSE wait_state[p]]
    /\ rq' = rq

(* wakeup_proc on every process of W: what is RUNNABLE already is left     *)
(* alone (a warning), and current is not put in the run queue.             *)
Wakeup(W) ==
    LET S == {p \in W : state[p] # "RUNNABLE"} IN
    /\ state' = [p \in Proc |-> IF p \in S THEN "RUNNABLE" ELSE state[p]]
    /\ wait_state' = [p \in Proc |-> IF p \in S THEN "none" ELSE wait_state[p]]
    /\ rq' = rq \cup (S \ {current})

(* schedule() called by p, which continues at `after' when it runs again.  *)
(* The idle process is never queued and runs when nothing else can.        *)
Schedule(p, after) ==
    LET queue == IF state[p] = "RUNNABLE" /\ p # Idle THEN rq \cup {p} ELSE rq
    IN  /\ current = p
        /\ need_resched' = [need_resched EXCEPT ![p] = FALSE]
        /\ pc' = [pc EXCEPT ![p] = after]
        /\ \E next \in IF queue = {} THEN {Idle} ELSE queue :
              /\ current' = next
              /\ rq' = queue \ {next}
        /\ UNCHANGED <<state, wait_state, exiting, parent, timer, wpid,
                       nr_process>>

(* p moves on to `to' inside the kernel and changes nothing else.          *)
Goto(p, from, to) ==
    /\ current = p
    /\ pc[p] = from
    /\ pc' = [pc EXCEPT ![p] = to]
    /\ UNCHANGED <<current, rq, state, wait_state, exiting, parent,
                   need_resched, timer, wpid, nr_process>>

-----------------------------------------------------------------------------
(* do_fork by p into the free slot c.  set_links counts the child, and     *)
(* do_fork counts it once more.                                            *)
Fork(p, from, c, to) ==
    /\ current = p
    /\ pc[p] = from
    /\ nr_process < MAX_PROCESS
    /\ ~InUse(c)
    /\ state' = [state EXCEPT ![c] = "RUNNABLE"]
    /\ rq' = rq \cup {c}
    /\ parent' = [parent EXCEPT ![c] = p]
    /\ pc' = [pc EXCEPT ![p] = to, ![c] = "user"]
    /\ nr_process' = nr_process + 2
    /\ UNCHANGED <<current, wait_state, exiting, need_resched, timer, wpid>>

SysFork(p, c) == Fork(p, "user", c, "trapret")

(* init_main: the first user process; init then waits for any child.       *)
InitForkMain(c) == Fork(InitProc, "fork_main", c, "wait")

(* Any call that changes nothing here: getpid, a do_fork that returns      *)
(* -E_NO_FREE_PROC or -E_NO_MEM, a do_sleep(0), a do_kill of no process.   *)
SysNothing(p) == Goto(p, "user", "trapret")

SysYield(p) ==
    /\ current = p
    /\ pc[p] = "user"
    /\ need_resched' = [need_resched EXCEPT ![p] = TRUE]
    /\ pc' = [pc EXCEPT ![p] = "trapret"]
    /\ UNCHANGED <<current, rq, state, wait_state, exiting, parent, timer,
                   wpid, nr_process>>

(* do_kill: a target that is already exiting is left alone; one in an      *)
(* interruptible sleep is woken.  Killing init is left out: do_exit would  *)
(* stop the kernel with the panic "initproc exit".                         *)
SysKill(p, q) ==
    /\ current = p
    /\ pc[p] = "user"
    /\ InUse(q)
    /\ q \notin exiting
    /\ exiting' = exiting \cup {q}
    /\ Wakeup(IF wait_state[q] # "none" THEN {q} ELSE {})
    /\ pc' = [pc EXCEPT ![p] = "trapret"]
    /\ UNCHANGED <<current, parent, need_resched, timer, wpid, nr_process>>

(* Mutant: PF_EXITING is not looked at.                                    *)
TrapReturnBlind(p) ==
    \/ ~need_resched[p] /\ Goto(p, "trapret", "user")
    \/ need_resched[p] /\ pc[p] = "trapret" /\ Schedule(p, "user")

(* The end of trap() on the way back to user mode.                         *)
TrapReturn(p) ==
    \/ p \in exiting /\ Goto(p, "trapret", "exit")
    \/ p \notin exiting /\ ~need_resched[p] /\ Goto(p, "trapret", "user")
    \/ /\ p \notin exiting /\ need_resched[p]
       /\ pc[p] = "trapret"
       /\ Schedule(p, "user")

-----------------------------------------------------------------------------
(* do_sleep: with interrupts off, p becomes a sleeper and arms its timer;  *)
(* a tick may fire the timer before p reaches schedule().                  *)
SysSleep(p, t) ==
    /\ current = p
    /\ pc[p] = "user"
    /\ state' = [state EXCEPT ![p] = "SLEEPING"]
    /\ wait_state' = [wait_state EXCEPT ![p] = "WT_TIMER"]
    /\ timer' = [timer EXCEPT ![p] = t]
    /\ pc' = [pc EXCEPT ![p] = "sleep_sched"]
    /\ UNCHANGED <<current, rq, exiting, parent, need_resched, wpid,
                   nr_process>>

SleepSchedule(p) == pc[p] = "sleep_sched" /\ Schedule(p, "sleep_woken")

(* Mutant: no del_timer.                                                   *)
SleepReturnArmed(p) == Goto(p, "sleep_woken", "trapret")

(* do_sleep after schedule(): del_timer, for a sleep that a kill cut short.*)
SleepReturn(p) ==
    /\ current = p
    /\ pc[p] = "sleep_woken"
    /\ timer' = [timer EXCEPT ![p] = 0]
    /\ pc' = [pc EXCEPT ![p] = "trapret"]
    /\ UNCHANGED <<current, rq, state, wait_state, exiting, parent,
                   need_resched, wpid, nr_process>>

-----------------------------------------------------------------------------
(* do_wait, for any child or for the child w.                              *)
SysWait(p, w) ==
    /\ current = p
    /\ pc[p] = "user"
    /\ wpid' = [wpid EXCEPT ![p] = w]
    /\ pc' = [pc EXCEPT ![p] = "wait"]
    /\ UNCHANGED <<current, rq, state, wait_state, exiting, parent,
                   need_resched, timer, nr_process>>

(* The children of p that its do_wait is about.                            *)
Awaited(p) == IF wpid[p] = AnyChild THEN Children(p) ELSE Children(p) \cap {wpid[p]}
StoppedAwaited(p) == {c \in Awaited(p) : state[c] # "RUNNABLE"}  \* mutant
DeadAwaited(p) == {c \in Awaited(p) : state[c] = "ZOMBIE"}

(* found: the child's links, kernel stack and proc_struct are released.    *)
(* init_main calls schedule() after each child, a user process returns.    *)
WaitReap(p, c) ==
    /\ current = p
    /\ pc[p] = "wait"
    /\ c \in DeadAwaited(p)
    /\ state' = [state EXCEPT ![c] = "UNUSED"]
    /\ parent' = [parent EXCEPT ![c] = NULL]
    /\ exiting' = exiting \ {c}
    /\ nr_process' = nr_process - 1
    /\ wpid' = [wpid EXCEPT ![p] = AnyChild]
    /\ pc' = [pc EXCEPT ![p] = IF p = InitProc THEN "init_sched" ELSE "trapret",
                        ![c] = "user"]
    /\ UNCHANGED <<current, rq, wait_state, need_resched, timer>>

(* haskid, none dead: sleep.  A tick between these assignments and         *)
(* schedule() cannot wake p, which has no timer.                           *)
WaitSleep(p) ==
    /\ current = p
    /\ pc[p] = "wait"
    /\ Awaited(p) # {} /\ DeadAwaited(p) = {}
    /\ state' = [state EXCEPT ![p] = "SLEEPING"]
    /\ wait_state' = [wait_state EXCEPT ![p] = "WT_CHILD"]
    /\ pc' = [pc EXCEPT ![p] = "wait_sched"]
    /\ UNCHANGED <<current, rq, exiting, parent, need_resched, timer, wpid,
                   nr_process>>

(* -E_BAD_PROC: a user process returns; init_main has no child left and    *)
(* runs its final assertions.                                              *)
WaitNoChild(p) ==
    /\ current = p
    /\ pc[p] = "wait"
    /\ Awaited(p) = {}
    /\ wpid' = [wpid EXCEPT ![p] = AnyChild]
    /\ pc' = [pc EXCEPT ![p] = IF p = InitProc THEN "quit" ELSE "trapret"]
    /\ UNCHANGED <<current, rq, state, wait_state, exiting, parent,
                   need_resched, timer, nr_process>>

WaitSchedule(p) == pc[p] = "wait_sched" /\ Schedule(p, "wait_woken")

(* do_wait after schedule(): a killed process exits, another looks again.  *)
WaitAgain(p) ==
    Goto(p, "wait_woken", IF p \in exiting THEN "exit" ELSE "wait")

InitSchedule == pc[InitProc] = "init_sched" /\ Schedule(InitProc, "wait")

-----------------------------------------------------------------------------
SysExit(p) == Goto(p, "user", "exit")

(* do_exit: the address space is released and p becomes a zombie, with     *)
(* interrupts still on ...                                                 *)
ExitZombie(p) ==
    /\ current = p
    /\ pc[p] = "exit"
    /\ state' = [state EXCEPT ![p] = "ZOMBIE"]
    /\ wpid' = [wpid EXCEPT ![p] = AnyChild]
    /\ pc' = [pc EXCEPT ![p] = "notify"]
    /\ UNCHANGED <<current, rq, wait_state, exiting, parent, need_resched,
                   timer, nr_process>>

(* variant: nobody but init is told *)
NotifiedInitOnly(p) ==
    {q \in Proc : wait_state[q] = "WT_CHILD" /\ q = InitProc}

(* ... then, with interrupts off, wakes a parent that waits for a child    *)
(* and hands its own children to init, waking init if it waits and one of  *)
(* them is already a zombie.                                               *)
Notified(p) ==
    {q \in Proc : /\ wait_state[q] = "WT_CHILD"
                  /\ \/ q = parent[p]
                     \/ q = InitProc /\ \E c \in Children(p) : state[c] = "ZOMBIE"}

ExitNotify(p) ==
    /\ current = p
    /\ pc[p] = "notify"
    /\ Wakeup(Notified(p))
    /\ parent' = [c \in Proc |-> IF c \in Children(p) THEN InitProc ELSE parent[c]]
    /\ pc' = [pc EXCEPT ![p] = "gone"]
    /\ UNCHANGED <<current, exiting, need_resched, timer, wpid, nr_process>>

(* The schedule() that does not return.                                    *)
ExitSchedule(p) == pc[p] = "gone" /\ Schedule(p, "gone")

-----------------------------------------------------------------------------

(* IRQ_TIMER: run_timer_list counts every pending timer down and wakes the *)
(* owners of those that reach 0; the scheduling class then charges the     *)
(* tick to current, and at the end of the time slice (`expire', always for *)
(* idle) asks for a reschedule.  A tick taken in user mode returns through *)
(* the end of trap(); one taken in the kernel resumes the interrupted step.*)
Tick(expire) ==
    LET fired == {p \in Proc : timer[p] = 1} IN
    /\ current = Idle => expire
    /\ timer' = [p \in Proc |-> IF timer[p] > 0 THEN timer[p] - 1 ELSE 0]
    /\ Wakeup(fired)
    /\ need_resched' = [need_resched EXCEPT ![current] = @ \/ expire]
    /\ pc' = [pc EXCEPT ![current] = IF @ = "user" THEN "trapret" ELSE @]
    /\ UNCHANGED <<current, exiting, parent, wpid, nr_process>>

(* cpu_idle.                                                               *)
IdleSchedule ==
    /\ pc[Idle] = "idle"
    /\ need_resched[Idle]
    /\ Schedule(Idle, "idle")

-----------------------------------------------------------------------------
Syscall(p) ==
    \/ SysNothing(p)
    \/ SysYield(p)
    \/ SysExit(p)
    \/ \E c \in User : SysFork(p, c)
    \/ \E q \in User : SysKill(p, q)
    \/ \E t \in 1..MaxSleep : SysSleep(p, t)
    \/ \E w \in User \cup {AnyChild} : SysWait(p, w)

(* Steps inside do_wait, do_sleep, do_exit and trap().                     *)
KernelStep(p) ==
    \/ TrapReturn(p)
    \/ SleepSchedule(p)
    \/ SleepReturn(p)
    \/ \E c \in Proc : WaitReap(p, c)
    \/ WaitSleep(p)
    \/ WaitNoChild(p)
    \/ WaitSchedule(p)
    \/ WaitAgain(p)
    \/ ExitZombie(p)
    \/ ExitNotify(p)
    \/ ExitSchedule(p)

InitStep == InitSchedule \/ \E c \in User : InitForkMain(c)

(* init_main has reached its final assertions: the run of the system ends. *)
Running == pc[InitProc] # "quit"
Halted == ~Running /\ UNCHANGED vars

Next ==
    \/ /\ Running
       /\ \/ \E p \in User : Syscall(p)
          \/ \E p \in User \cup {InitProc} : KernelStep(p)
          \/ InitStep
          \/ IdleSchedule
          \/ \E expire \in BOOLEAN : Tick(expire)
    \/ Halted

Spec == Init /\ [][Next]_vars

(* The clock keeps ticking, and the time slice of a process that keeps the *)
(* CPU ends; kernel code runs on; the scheduling class picks every process *)
(* that stays in its queue.  User code is free to loop for ever.           *)
Fairness ==
    /\ \A p \in User \cup {InitProc} : WF_vars(Running /\ KernelStep(p))
    /\ WF_vars(Running /\ InitStep)
    /\ WF_vars(Running /\ IdleSchedule)
    /\ WF_vars(Running /\ \E expire \in BOOLEAN : Tick(expire))
    /\ \A p \in User : WF_vars(Running /\ current = p /\ Tick(TRUE))
    /\ \A p \in User \cup {InitProc} : SF_vars(Next /\ current # p /\ current' = p)

FairSpec == Spec /\ Fairness

-----------------------------------------------------------------------------
(* Safety.                                                                 *)

(* The run queue holds exactly the runnable processes other than the one   *)
(* on the CPU and idle: wakeup_proc, schedule and do_fork neither lose a   *)
(* process nor queue one twice, not even when a tick wakes the sleeper     *)
(* that is still on its way to schedule().                                 *)
RunQueueExact ==
    rq = {p \in Proc \ {Idle} : state[p] = "RUNNABLE" /\ p # current}

(* do_sleep keeps its timer_t on its own kernel stack: no timer is pending *)
(* for a process that has left do_sleep, by a kill or otherwise, so        *)
(* run_timer_list never follows a dead timer.                              *)
TimerInFrame ==
    \A p \in Proc : timer[p] > 0 => pc[p] \in {"sleep_sched", "sleep_woken"}

(* The assertions of wakeup_proc and run_timer_list: whoever may be woken, *)
(* by a timer, a kill or the death of a child, is not a zombie.            *)
WakeableAlive ==
    \A p \in Proc : timer[p] > 0 \/ wait_state[p] # "none" =>
        state[p] \in {"RUNNABLE", "SLEEPING"}

HasWaker(p) ==
    \/ wait_state[p] = "WT_TIMER" /\ timer[p] > 0
    \/ /\ wait_state[p] = "WT_CHILD"
       /\ Awaited(p) # {}
       /\ \A c \in DeadAwaited(p) : pc[c] = "notify"

(* No lost wakeup: a sleeper has a timer that will fire, or awaits         *)
(* children none of which has already announced its death.                 *)
SleeperHasWaker == \A p \in Proc : state[p] = "SLEEPING" => HasWaker(p)

(* Nobody is left without a parent that can wait for it: the parent of a   *)
(* process in use is in use, and is dying only while do_exit is about to   *)
(* hand its children to init.  Only idle has no parent.                    *)
ParentCanWait ==
    /\ parent[Idle] = NULL
    /\ \A c \in Proc \ {Idle} : InUse(c) =>
          /\ parent[c] \in Proc /\ InUse(parent[c])
          /\ state[parent[c]] = "ZOMBIE" => pc[parent[c]] = "notify"

(* init_main's assertion nr_process == 2 (idle and init are left).         *)
NrProcessTwo == ~Running => nr_process = 2

(* What a step may never do: a process dies only by its own hand, a zombie *)
(* only ever becomes a free slot, and that only in a do_wait of its parent *)
(* and when no process still names it as its own parent.                   *)
ZombieFate ==
    [][\A p \in Proc :
          /\ state[p] # "ZOMBIE" /\ state'[p] = "ZOMBIE" => p = current
          /\ state[p] # "UNUSED" /\ state'[p] = "UNUSED" =>
                /\ state[p] = "ZOMBIE" /\ pc[p] = "gone"
                /\ current = parent[p] /\ pc[current] = "wait"
                /\ Children(p) = {}
          /\ state[p] = "ZOMBIE" => state'[p] \in {"ZOMBIE", "UNUSED"}]_vars

-----------------------------------------------------------------------------
(* fork, exit and wait implement ProcFamily: a process counts as dead once *)
(* do_exit has told its parent and given its children away.                *)
LifeOf(p) == IF state[p] = "UNUSED" THEN "free"
             ELSE IF state[p] = "ZOMBIE" /\ pc[p] = "gone" THEN "dead"
             ELSE "alive"

Family == INSTANCE ProcFamily WITH
    life <- [p \in Proc |-> LifeOf(p)],
    mother <- parent

ImplementsFamily == Family!FamilySpec

(* The timers of do_sleep behave as Timers promises.                       *)
Clock == INSTANCE Timers WITH Owner <- Proc, MaxTicks <- MaxSleep, left <- timer

ImplementsTimers == Clock!TimersSpec

-----------------------------------------------------------------------------
(* The inductive invariant: where a kernel thread can stand, and what its  *)
(* state and wait_state are there.                                         *)

PcsOf(p) ==
    IF p = Idle THEN {"idle"}
    ELSE IF p = InitProc
    THEN {"fork_main", "wait", "wait_sched", "wait_woken", "init_sched", "quit"}
    ELSE Pcs \ {"idle", "fork_main", "init_sched", "quit"}

(* Where a process can stand while another one runs.                       *)
Parked == {"idle", "fork_main", "user", "wait", "wait_woken", "sleep_woken",
           "gone"}

PcInv ==
    \A p \in Proc :
        /\ pc[p] \in PcsOf(p)
        /\ p # current => pc[p] \in Parked
        /\ p = current => \/ state[p] = "RUNNABLE"
                          \/ pc[p] \in {"wait_sched", "sleep_sched", "notify", "gone"}
        /\ state[p] = "UNUSED" => pc[p] = "user"
        /\ state[p] = "ZOMBIE" <=> pc[p] \in {"notify", "gone"}
        /\ state[p] = "SLEEPING" <=> wait_state[p] # "none"
        /\ wait_state[p] = "WT_CHILD" => pc[p] \in {"wait_sched", "wait_woken"}
        /\ wait_state[p] = "WT_TIMER" =>
              pc[p] \in {"sleep_sched", "sleep_woken"} /\ timer[p] > 0

IndInv ==
    /\ TypeOK
    /\ PcInv
    /\ TimerInFrame
    /\ RunQueueExact
    /\ ParentCanWait
    /\ SleeperHasWaker

-----------------------------------------------------------------------------
(* Liveness, under FairSpec.                                               *)

InWait(p) == pc[p] \in {"wait", "wait_sched", "wait_woken"}

(* do_wait returns once a child it is about is dead, whichever of the two  *)
(* came first.                                                             *)
WaitReturns ==
    \A p \in User : InWait(p) /\ DeadAwaited(p) # {} ~> ~InWait(p)

(* init releases every zombie it has or inherits.                          *)
OrphansReaped ==
    \A p \in User : state[p] = "ZOMBIE" /\ parent[p] = InitProc ~> ~InUse(p)

(* do_sleep returns.                                                       *)
SleepReturns ==
    \A p \in User : pc[p] \in {"sleep_sched", "sleep_woken"} ~> pc[p] = "trapret"

(* A killed process dies, unless it blocks in do_wait: do_kill wakes a     *)
(* sleeper, the clock stops a user loop, and trap() notices the flag.      *)
KilledExitsOrWaits ==
    \A p \in User : p \in exiting ~>
        state[p] \in {"ZOMBIE", "UNUSED"} \/ wait_state[p] = "WT_CHILD"

=============================================================================
