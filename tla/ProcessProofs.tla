---------------------------- MODULE ProcessProofs ----------------------------
(***************************************************************************)
(* Proofs about Process for every set of processes and every bound.  The   *)
(* inductive invariant IndInv is proved action by action: the part of it   *)
(* that speaks of one process (PcInv, TimerInFrame), the run queue, the    *)
(* parent relation and the wakers of the sleepers.                         *)
(***************************************************************************)
EXTENDS Process, TLAPS

LEMMA InitTypeOK == Init => TypeOK
  BY ProcAssumption, BoundAssumption
     DEF Init, TypeOK, Proc, States, WaitStates, Pcs

LEMMA InitIndInv == Init => IndInv
<1> SUFFICES ASSUME Init PROVE IndInv
  OBVIOUS
<1>1. TypeOK
  BY InitTypeOK
<1>2. PcInv
  BY ProcAssumption DEF Init, PcInv, PcsOf, Pcs, Parked, Proc
<1>3. TimerInFrame /\ RunQueueExact /\ ParentCanWait /\ SleeperHasWaker
  BY ProcAssumption
     DEF Init, TimerInFrame, RunQueueExact, ParentCanWait, SleeperHasWaker,
         InUse, Proc
<1> QED
  BY <1>1, <1>2, <1>3 DEF IndInv

-----------------------------------------------------------------------------
(* Types.                                                                  *)

LEMMA WakeupType ==
  ASSUME TypeOK, NEW W \in SUBSET Proc, Wakeup(W)
  PROVE  /\ state' \in [Proc -> States]
         /\ wait_state' \in [Proc -> WaitStates]
         /\ rq' \subseteq Proc
  BY DEF TypeOK, Wakeup, States, WaitStates

LEMMA ScheduleType ==
  ASSUME TypeOK, NEW p \in Proc, NEW a \in Pcs, Schedule(p, a)
  PROVE  TypeOK'
  BY ProcAssumption DEF TypeOK, Schedule, Proc, States, WaitStates, Pcs

LEMMA TypeStep == TypeOK /\ [Next]_vars => TypeOK'
<1> SUFFICES ASSUME TypeOK, [Next]_vars PROVE TypeOK'
  OBVIOUS
<1> USE DEF Pcs, States, WaitStates
<1>1. ASSUME NEW p \in User, Syscall(p) PROVE TypeOK'
  <2> p \in Proc
    BY DEF Proc
  <2>1. CASE SysNothing(p) \/ SysYield(p) \/ SysExit(p)
    BY <2>1 DEF SysNothing, SysYield, SysExit, Goto, TypeOK
  <2>2. CASE \E c \in User : SysFork(p, c)
    BY <2>2 DEF SysFork, Fork, TypeOK, Proc
  <2>3. ASSUME NEW q \in User, SysKill(p, q) PROVE TypeOK'
    BY <2>3, WakeupType DEF SysKill, TypeOK, Proc
  <2>4. CASE \E t \in 1..MaxSleep : SysSleep(p, t)
    BY <2>4, BoundAssumption DEF SysSleep, TypeOK
  <2>5. CASE \E w \in User \cup {AnyChild} : SysWait(p, w)
    BY <2>5 DEF SysWait, TypeOK
  <2> QED
    BY <1>1, <2>1, <2>2, <2>3, <2>4, <2>5 DEF Syscall
<1>2. ASSUME NEW p \in User \cup {InitProc}, KernelStep(p) PROVE TypeOK'
  <2> p \in Proc
    BY DEF Proc
  <2>1. CASE TrapReturn(p)
    BY <2>1, ScheduleType DEF TrapReturn, Goto, TypeOK
  <2>2. CASE SleepSchedule(p) \/ WaitSchedule(p) \/ ExitSchedule(p)
    BY <2>2, ScheduleType DEF SleepSchedule, WaitSchedule, ExitSchedule
  <2>3. CASE SleepReturn(p)
    BY <2>3, BoundAssumption DEF SleepReturn, TypeOK
  <2>4. CASE \E c \in Proc : WaitReap(p, c)
    BY <2>4 DEF WaitReap, TypeOK
  <2>5. CASE WaitSleep(p) \/ WaitNoChild(p) \/ WaitAgain(p) \/ ExitZombie(p)
    BY <2>5 DEF WaitSleep, WaitNoChild, WaitAgain, Goto, ExitZombie, TypeOK
  <2>6. CASE ExitNotify(p)
    <3>1. Notified(p) \in SUBSET Proc
      BY DEF Notified
    <3> QED
      BY <2>6, <3>1, WakeupType DEF ExitNotify, TypeOK, Proc
  <2> QED
    BY <1>2, <2>1, <2>2, <2>3, <2>4, <2>5, <2>6 DEF KernelStep
<1>3. CASE InitStep
  <2>1. CASE InitSchedule
    BY <2>1, ScheduleType DEF InitSchedule, Proc
  <2>2. CASE \E c \in User : InitForkMain(c)
    BY <2>2 DEF InitForkMain, Fork, TypeOK, Proc
  <2> QED
    BY <1>3, <2>1, <2>2 DEF InitStep
<1>4. CASE IdleSchedule
  BY <1>4, ScheduleType DEF IdleSchedule, Proc
<1>5. ASSUME NEW expire \in BOOLEAN, Tick(expire) PROVE TypeOK'
  BY <1>5, WakeupType, BoundAssumption DEF Tick, TypeOK
<1>6. CASE UNCHANGED vars
  BY <1>6 DEF vars, TypeOK
<1> QED
  BY <1>1, <1>2, <1>3, <1>4, <1>5, <1>6 DEF Next, Halted

-----------------------------------------------------------------------------
(* Where the kernel threads stand, and what they may wait for there.       *)

LocalInv == PcInv /\ TimerInFrame

(* schedule() is called only by a process that is about to be parked, and  *)
(* hands the CPU to a runnable one.                                        *)
LEMMA ScheduleLocal ==
  ASSUME TypeOK, LocalInv, RunQueueExact,
         NEW p \in Proc, NEW a \in Parked \cap PcsOf(p), Schedule(p, a),
         state[p] # "UNUSED",
         a = "gone" <=> state[p] = "ZOMBIE",
         wait_state[p] = "WT_CHILD" => a = "wait_woken",
         wait_state[p] = "WT_TIMER" => a = "sleep_woken",
         timer[p] > 0 => a = "sleep_woken"
  PROVE  LocalInv'
<1> USE DEF Parked, TypeOK, Pcs
<1>1. pc' = [pc EXCEPT ![p] = a] /\ current = p
      /\ UNCHANGED <<state, wait_state, timer>>
  BY DEF Schedule
<1>2. \/ current' = Idle
      \/ state[current'] = "RUNNABLE"
  BY DEF Schedule, RunQueueExact
<1>3. state[Idle] = "RUNNABLE"
  BY ProcAssumption DEF LocalInv, PcInv, PcsOf, Proc, States, WaitStates
<1>4. PcInv'
  BY <1>1, <1>2, <1>3 DEF LocalInv, PcInv, States
<1>5. TimerInFrame'
  BY <1>1 DEF LocalInv, TimerInFrame
<1> QED
  BY <1>4, <1>5 DEF LocalInv

(* A set of sleepers that a kill, a timer or a death wakes.                *)
LEMMA WakeupLocal ==
  ASSUME TypeOK, LocalInv, NEW W \in SUBSET Proc, Wakeup(W),
         \A p \in W : state[p] \in {"RUNNABLE", "SLEEPING"}
  PROVE  \A p \in Proc :
            /\ state[p] # "SLEEPING" =>
                  state'[p] = state[p] /\ wait_state'[p] = wait_state[p]
            /\ state[p] = "SLEEPING" /\ p \notin W =>
                  state'[p] = state[p] /\ wait_state'[p] = wait_state[p]
            /\ state[p] = "SLEEPING" /\ p \in W =>
                  state'[p] = "RUNNABLE" /\ wait_state'[p] = "none"
  BY DEF TypeOK, Wakeup

LEMMA LocalStep == IndInv /\ [Next]_vars => LocalInv'
<1> SUFFICES ASSUME IndInv, [Next]_vars PROVE LocalInv'
  OBVIOUS
<1> TypeOK /\ LocalInv /\ RunQueueExact
  BY DEF IndInv, LocalInv
<1> USE DEF Pcs, States, WaitStates, Parked
<1>1. ASSUME NEW p \in User, Syscall(p) PROVE LocalInv'
  <2>0. p \in Proc /\ p # Idle /\ p # InitProc
    BY ProcAssumption DEF Proc
  <2>1. CASE SysNothing(p) \/ SysYield(p) \/ SysExit(p)
    BY <2>0, <2>1 DEF SysNothing, SysYield, SysExit, Goto, TypeOK,
                      LocalInv, PcInv, PcsOf, TimerInFrame
  <2>2. ASSUME NEW c \in User, SysFork(p, c) PROVE LocalInv'
    <3>0. c \in Proc /\ c # Idle /\ c # InitProc /\ c # p
      BY <2>0, <2>2, ProcAssumption
         DEF Proc, SysFork, Fork, InUse, LocalInv, PcInv, TypeOK
    <3> QED
      BY <2>0, <2>2, <3>0 DEF SysFork, Fork, InUse, TypeOK,
                      LocalInv, PcInv, PcsOf, TimerInFrame
  <2>3. ASSUME NEW q \in User, SysKill(p, q) PROVE LocalInv'
    <3> DEFINE W == IF wait_state[q] # "none" THEN {q} ELSE {}
    <3>1. W \in SUBSET Proc /\ Wakeup(W)
      BY <2>3 DEF SysKill, Proc
    <3>2. \A r \in W : state[r] \in {"RUNNABLE", "SLEEPING"}
      BY <3>1 DEF LocalInv, PcInv
    <3> HIDE DEF W
    <3> QED
      BY <2>0, <2>3, <3>1, <3>2, WakeupLocal
         DEF SysKill, TypeOK, LocalInv, PcInv, PcsOf, TimerInFrame
  <2>4. CASE \E t \in 1..MaxSleep : SysSleep(p, t)
    BY <2>0, <2>4, BoundAssumption
       DEF SysSleep, TypeOK, LocalInv, PcInv, PcsOf, TimerInFrame
  <2>5. CASE \E w \in User \cup {AnyChild} : SysWait(p, w)
    BY <2>0, <2>5 DEF SysWait, TypeOK, LocalInv, PcInv, PcsOf, TimerInFrame
  <2> QED
    BY <1>1, <2>1, <2>2, <2>3, <2>4, <2>5 DEF Syscall
<1>2. ASSUME NEW p \in User \cup {InitProc}, KernelStep(p) PROVE LocalInv'
  <2>0. p \in Proc /\ p # Idle
    BY ProcAssumption DEF Proc
  <2>1. CASE TrapReturn(p)
    <3>1. CASE \/ Goto(p, "trapret", "exit")
               \/ Goto(p, "trapret", "user")
      BY <2>0, <3>1 DEF Goto, TypeOK, LocalInv, PcInv, PcsOf, TimerInFrame
    <3>2. CASE pc[p] = "trapret" /\ Schedule(p, "user")
      <4>1. state[p] = "RUNNABLE" /\ wait_state[p] = "none" /\ timer[p] = 0
        BY <2>0, <3>2, BoundAssumption
           DEF Schedule, TypeOK, LocalInv, PcInv, TimerInFrame
      <4>2. "user" \in PcsOf(p)
        BY <2>0, <3>2 DEF LocalInv, PcInv, PcsOf
      <4> QED
        BY <2>0, <3>2, <4>1, <4>2, ScheduleLocal
    <3> QED
      BY <2>1, <3>1, <3>2 DEF TrapReturn
  <2>2. CASE SleepSchedule(p)
    <3>1. /\ state[p] \notin {"UNUSED", "ZOMBIE"} /\ wait_state[p] # "WT_CHILD"
          /\ "sleep_woken" \in PcsOf(p)
      BY <2>0, <2>2 DEF SleepSchedule, TypeOK, LocalInv, PcInv, PcsOf
    <3> QED
      BY <2>0, <2>2, <3>1, ScheduleLocal DEF SleepSchedule
  <2>3. CASE WaitSchedule(p)
    <3>1. /\ state[p] \notin {"UNUSED", "ZOMBIE"} /\ wait_state[p] # "WT_TIMER"
          /\ timer[p] = 0
          /\ "wait_woken" \in PcsOf(p)
      BY <2>0, <2>3, BoundAssumption
         DEF WaitSchedule, TypeOK, LocalInv, PcInv, PcsOf, TimerInFrame
    <3>2. ~(timer[p] > 0)
      BY <3>1
    <3> QED
      BY <2>0, <2>3, <3>1, <3>2, ScheduleLocal DEF WaitSchedule
  <2>4. CASE ExitSchedule(p)
    <3>1. /\ state[p] = "ZOMBIE" /\ wait_state[p] = "none" /\ timer[p] = 0
          /\ "gone" \in PcsOf(p)
      BY <2>0, <2>4, BoundAssumption
         DEF ExitSchedule, TypeOK, LocalInv, PcInv, PcsOf, TimerInFrame
    <3>2. ~(timer[p] > 0)
      BY <3>1
    <3> QED
      BY <2>0, <2>4, <3>1, <3>2, ScheduleLocal DEF ExitSchedule
  <2>5. CASE SleepReturn(p)
    BY <2>0, <2>5, BoundAssumption
       DEF SleepReturn, TypeOK, LocalInv, PcInv, PcsOf, TimerInFrame
  <2>6. ASSUME NEW c \in Proc, WaitReap(p, c) PROVE LocalInv'
    <3>1. state[c] = "ZOMBIE"
      BY <2>6 DEF WaitReap, DeadAwaited
    <3>2. c # p /\ c # Idle /\ c # InitProc
      BY <2>0, <2>6, <3>1 DEF WaitReap, LocalInv, PcInv, PcsOf
    <3> QED
      BY <2>0, <2>6, <3>1, <3>2, BoundAssumption
         DEF WaitReap, TypeOK, LocalInv, PcInv, PcsOf, TimerInFrame
  <2>7. CASE WaitSleep(p)
    BY <2>0, <2>7 DEF WaitSleep, TypeOK, LocalInv, PcInv, PcsOf, TimerInFrame
  <2>8. CASE WaitNoChild(p)
    BY <2>0, <2>8 DEF WaitNoChild, TypeOK, LocalInv, PcInv, PcsOf, TimerInFrame
  <2>9. CASE WaitAgain(p)
    <3>1. p = InitProc => p \notin exiting
      BY ProcAssumption DEF TypeOK
    <3> QED
      BY <2>0, <2>9, <3>1, BoundAssumption
         DEF WaitAgain, Goto, TypeOK, LocalInv, PcInv, PcsOf, TimerInFrame
  <2>10. CASE ExitZombie(p)
    BY <2>0, <2>10, BoundAssumption
       DEF ExitZombie, TypeOK, LocalInv, PcInv, PcsOf, TimerInFrame
  <2>11. CASE ExitNotify(p)
    <3>1. Notified(p) \in SUBSET Proc /\ Wakeup(Notified(p))
      BY <2>11 DEF Notified, ExitNotify
    <3>2. \A r \in Notified(p) : state[r] \in {"RUNNABLE", "SLEEPING"}
      BY <3>1 DEF Notified, LocalInv, PcInv
    <3>3. p \notin Notified(p)
      BY <2>0, <2>11 DEF ExitNotify, Notified, LocalInv, PcInv
    <3> QED
      BY <2>0, <2>11, <3>1, <3>2, <3>3, WakeupLocal, BoundAssumption
         DEF ExitNotify, TypeOK, LocalInv, PcInv, PcsOf, TimerInFrame
  <2> QED
    BY <1>2, <2>1, <2>2, <2>3, <2>4, <2>5, <2>6, <2>7, <2>8, <2>9, <2>10, <2>11
       DEF KernelStep
<1>3. CASE InitStep
  <2>0. InitProc \in Proc /\ InitProc # Idle
    BY ProcAssumption DEF Proc
  <2>1. CASE InitSchedule
    <3>1. /\ state[InitProc] = "RUNNABLE" /\ wait_state[InitProc] = "none"
          /\ ~(timer[InitProc] > 0)
          /\ "wait" \in PcsOf(InitProc)
      BY <2>0, <2>1, BoundAssumption
         DEF InitSchedule, Schedule, TypeOK, LocalInv, PcInv, PcsOf, TimerInFrame
    <3> QED
      BY <2>0, <2>1, <3>1, ScheduleLocal DEF InitSchedule
  <2>2. ASSUME NEW c \in User, InitForkMain(c) PROVE LocalInv'
    <3>0. c \in Proc /\ c # Idle /\ c # InitProc
      BY ProcAssumption DEF Proc
    <3> QED
      BY <2>0, <2>2, <3>0 DEF InitForkMain, Fork, InUse, TypeOK,
                      LocalInv, PcInv, PcsOf, TimerInFrame
  <2> QED
    BY <1>3, <2>1, <2>2 DEF InitStep
<1>4. CASE IdleSchedule
  <2>0. Idle \in Proc
    BY DEF Proc
  <2>1. /\ state[Idle] = "RUNNABLE" /\ wait_state[Idle] = "none"
        /\ ~(timer[Idle] > 0)
        /\ "idle" \in PcsOf(Idle)
    BY <1>4, <2>0, BoundAssumption
       DEF IdleSchedule, Schedule, TypeOK, LocalInv, PcInv, PcsOf, TimerInFrame
  <2> QED
    BY <1>4, <2>0, <2>1, ScheduleLocal DEF IdleSchedule
<1>5. ASSUME NEW expire \in BOOLEAN, Tick(expire) PROVE LocalInv'
  <2> DEFINE W == {p \in Proc : timer[p] = 1}
  <2>1. W \in SUBSET Proc /\ Wakeup(W)
    BY <1>5 DEF Tick
  <2>2. \A r \in W : state[r] \in {"RUNNABLE", "SLEEPING"}
    BY DEF LocalInv, PcInv, TimerInFrame, TypeOK
  <2>3. \A p \in Proc : p \in W <=> timer[p] = 1
    OBVIOUS
  <2> HIDE DEF W
  <2>4. \A p \in Proc : timer'[p] = IF timer[p] > 0 THEN timer[p] - 1 ELSE 0
    BY <1>5 DEF Tick
  <2>5. /\ current' = current /\ current \in Proc
        /\ pc' = [pc EXCEPT ![current] = IF @ = "user" THEN "trapret" ELSE @]
    BY <1>5 DEF Tick, TypeOK
  <2>6. current # Idle => current \in User \/ pc[current] # "user"
    BY DEF LocalInv, PcInv, PcsOf, Proc, TypeOK
  <2>7. state[current] = "UNUSED" => FALSE
    BY <2>5 DEF LocalInv, PcInv
  <2>8. TimerInFrame'
    BY <2>4, <2>5, BoundAssumption DEF TypeOK, LocalInv, TimerInFrame
  <2>9. \A p \in Proc : timer[p] \in Int
    BY BoundAssumption DEF TypeOK
  <2>10. PcInv'
    <3> SUFFICES ASSUME NEW p \in Proc PROVE PcInv!(p)'
      BY DEF PcInv
    <3>1. PcInv!(p)
      BY DEF LocalInv, PcInv
    <3>2. pc'[p] = IF p = current /\ pc[p] = "user" THEN "trapret" ELSE pc[p]
      BY <2>5 DEF TypeOK
    <3>3. pc'[p] \in PcsOf(p)
      BY <3>1, <3>2, ProcAssumption DEF PcsOf
    <3>4. /\ state[p] # "SLEEPING" =>
                  state'[p] = state[p] /\ wait_state'[p] = wait_state[p]
          /\ state[p] = "SLEEPING" /\ p \notin W =>
                  state'[p] = state[p] /\ wait_state'[p] = wait_state[p]
          /\ state[p] = "SLEEPING" /\ p \in W =>
                  state'[p] = "RUNNABLE" /\ wait_state'[p] = "none"
      BY <2>1, <2>2, WakeupLocal
    <3> QED
      BY <2>3, <2>4, <2>5, <2>7, <2>9, <3>1, <3>2, <3>3, <3>4
  <2> QED
    BY <2>8, <2>10 DEF LocalInv
<1>6. CASE UNCHANGED vars
  BY <1>6 DEF vars, TypeOK, LocalInv, PcInv, TimerInFrame
<1> QED
  BY <1>1, <1>2, <1>3, <1>4, <1>5, <1>6 DEF Next, Halted

-----------------------------------------------------------------------------
(* The run queue.                                                          *)

LEMMA ScheduleQueue ==
  ASSUME TypeOK, RunQueueExact, NEW p \in Proc, NEW a \in Pcs, Schedule(p, a)
  PROVE  RunQueueExact'
  BY DEF TypeOK, RunQueueExact, Schedule

LEMMA WakeupQueue ==
  ASSUME TypeOK, LocalInv, RunQueueExact, NEW W \in SUBSET Proc, Wakeup(W),
         \A p \in W : state[p] \in {"RUNNABLE", "SLEEPING"},
         current' = current
  PROVE  RunQueueExact'
<1>1. state[Idle] = "RUNNABLE"
  BY ProcAssumption
     DEF LocalInv, PcInv, PcsOf, Proc, States, WaitStates, TypeOK
<1> QED
  BY <1>1 DEF TypeOK, RunQueueExact, Wakeup

LEMMA QueueStep == IndInv /\ [Next]_vars => RunQueueExact'
<1> SUFFICES ASSUME IndInv, [Next]_vars PROVE RunQueueExact'
  OBVIOUS
<1> TypeOK /\ LocalInv /\ RunQueueExact
  BY DEF IndInv, LocalInv
<1> USE DEF Pcs, States, WaitStates
<1>0. state[current] # "UNUSED"
  BY DEF LocalInv, PcInv, TypeOK
<1>1. ASSUME NEW p \in User, Syscall(p) PROVE RunQueueExact'
  <2>0. p \in Proc /\ p # Idle
    BY ProcAssumption DEF Proc
  <2>1. CASE SysNothing(p) \/ SysYield(p) \/ SysExit(p)
    BY <2>1 DEF SysNothing, SysYield, SysExit, Goto, RunQueueExact
  <2>2. ASSUME NEW c \in User, SysFork(p, c) PROVE RunQueueExact'
    <3>0. c \in Proc /\ c # Idle /\ c # current
      BY <1>0, <2>2, ProcAssumption DEF Proc, SysFork, Fork, InUse
    <3> QED
      BY <2>2, <3>0 DEF SysFork, Fork, TypeOK, RunQueueExact
  <2>3. ASSUME NEW q \in User, SysKill(p, q) PROVE RunQueueExact'
    <3> DEFINE W == IF wait_state[q] # "none" THEN {q} ELSE {}
    <3>1. W \in SUBSET Proc /\ Wakeup(W) /\ current' = current
      BY <2>3 DEF SysKill, Proc
    <3>2. \A r \in W : state[r] \in {"RUNNABLE", "SLEEPING"}
      BY <3>1 DEF LocalInv, PcInv
    <3> HIDE DEF W
    <3> QED
      BY <3>1, <3>2, WakeupQueue
  <2>4. CASE \E t \in 1..MaxSleep : SysSleep(p, t)
    BY <2>4 DEF SysSleep, TypeOK, RunQueueExact
  <2>5. CASE \E w \in User \cup {AnyChild} : SysWait(p, w)
    BY <2>5 DEF SysWait, RunQueueExact
  <2> QED
    BY <1>1, <2>1, <2>2, <2>3, <2>4, <2>5 DEF Syscall
<1>2. ASSUME NEW p \in User \cup {InitProc}, KernelStep(p) PROVE RunQueueExact'
  <2>0. p \in Proc /\ p # Idle
    BY ProcAssumption DEF Proc
  <2>1. CASE TrapReturn(p)
    BY <2>0, <2>1, ScheduleQueue DEF TrapReturn, Goto, RunQueueExact
  <2>2. CASE SleepSchedule(p) \/ WaitSchedule(p) \/ ExitSchedule(p)
    BY <2>0, <2>2, ScheduleQueue DEF SleepSchedule, WaitSchedule, ExitSchedule
  <2>3. CASE SleepReturn(p) \/ WaitNoChild(p) \/ WaitAgain(p)
    BY <2>3 DEF SleepReturn, WaitNoChild, WaitAgain, Goto, RunQueueExact
  <2>4. ASSUME NEW c \in Proc, WaitReap(p, c) PROVE RunQueueExact'
    BY <2>4 DEF WaitReap, DeadAwaited, TypeOK, RunQueueExact
  <2>5. CASE WaitSleep(p) \/ ExitZombie(p)
    BY <2>5 DEF WaitSleep, ExitZombie, TypeOK, RunQueueExact
  <2>6. CASE ExitNotify(p)
    <3>1. /\ Notified(p) \in SUBSET Proc
          /\ Wakeup(Notified(p))
          /\ current' = current
      BY <2>6 DEF Notified, ExitNotify
    <3>2. \A r \in Notified(p) : state[r] \in {"RUNNABLE", "SLEEPING"}
      BY <3>1 DEF Notified, LocalInv, PcInv
    <3> QED
      BY <3>1, <3>2, WakeupQueue
  <2> QED
    BY <1>2, <2>1, <2>2, <2>3, <2>4, <2>5, <2>6 DEF KernelStep
<1>3. CASE InitStep
  <2>1. CASE InitSchedule
    BY <2>1, ScheduleQueue DEF InitSchedule, Proc
  <2>2. ASSUME NEW c \in User, InitForkMain(c) PROVE RunQueueExact'
    <3>0. c \in Proc /\ c # Idle /\ c # current
      BY <1>0, <2>2, ProcAssumption DEF Proc, InitForkMain, Fork, InUse
    <3> QED
      BY <2>2, <3>0 DEF InitForkMain, Fork, TypeOK, RunQueueExact
  <2> QED
    BY <1>3, <2>1, <2>2 DEF InitStep
<1>4. CASE IdleSchedule
  BY <1>4, ScheduleQueue DEF IdleSchedule, Proc
<1>5. ASSUME NEW expire \in BOOLEAN, Tick(expire) PROVE RunQueueExact'
  <2> DEFINE W == {p \in Proc : timer[p] = 1}
  <2>1. W \in SUBSET Proc /\ Wakeup(W) /\ current' = current
    BY <1>5 DEF Tick
  <2>2. \A r \in W : state[r] \in {"RUNNABLE", "SLEEPING"}
    BY DEF LocalInv, PcInv, TimerInFrame, TypeOK
  <2> HIDE DEF W
  <2> QED
    BY <2>1, <2>2, WakeupQueue
<1>6. CASE UNCHANGED vars
  BY <1>6 DEF vars, RunQueueExact
<1> QED
  BY <1>1, <1>2, <1>3, <1>4, <1>5, <1>6 DEF Next, Halted

-----------------------------------------------------------------------------
(* The parent relation.                                                    *)

(* A step that changes neither parents nor who is in use or a zombie.      *)
LEMMA ParentKept ==
  ASSUME TypeOK, ParentCanWait, parent' = parent,
         \A p \in Proc : /\ state[p] = "UNUSED" <=> state'[p] = "UNUSED"
                         /\ state'[p] = "ZOMBIE" => state[p] = "ZOMBIE"
                         /\ state[p] = "ZOMBIE" /\ pc[p] = "notify" => pc'[p] = "notify"
  PROVE  ParentCanWait'
  BY DEF TypeOK, ParentCanWait, InUse

LEMMA ForkParent ==
  ASSUME IndInv, NEW p \in Proc \ {Idle}, NEW from \in {"user", "fork_main"},
         NEW c \in User, NEW to, Fork(p, from, c, to)
  PROVE  ParentCanWait'
<1>1. c \in Proc /\ c # Idle /\ state[p] \notin {"UNUSED", "ZOMBIE"} /\ c # p
  BY ProcAssumption DEF Fork, InUse, IndInv, PcInv, TypeOK, Proc
<1>2. \A d \in Proc : state[d] # "UNUSED" => d # c
  BY DEF Fork, InUse
<1> QED
  BY <1>1, <1>2 DEF Fork, InUse, IndInv, ParentCanWait, TypeOK, States, PcInv

LEMMA ParentStep == IndInv /\ [Next]_vars => ParentCanWait'
<1> SUFFICES ASSUME IndInv, [Next]_vars PROVE ParentCanWait'
  OBVIOUS
<1> TypeOK /\ LocalInv /\ PcInv /\ ParentCanWait
  BY DEF IndInv, LocalInv
<1> USE DEF Pcs, States, WaitStates
<1>1. ASSUME NEW p \in User, Syscall(p) PROVE ParentCanWait'
  <2>0. p \in Proc /\ p # Idle
    BY ProcAssumption DEF Proc
  <2>1. CASE SysNothing(p) \/ SysYield(p) \/ SysExit(p)
    BY <2>0, <2>1, ParentKept DEF SysNothing, SysYield, SysExit, Goto, TypeOK
  <2>2. ASSUME NEW c \in User, SysFork(p, c) PROVE ParentCanWait'
    BY <2>0, <2>2, ForkParent DEF SysFork
  <2>3. ASSUME NEW q \in User, SysKill(p, q) PROVE ParentCanWait'
    <3> DEFINE W == IF wait_state[q] # "none" THEN {q} ELSE {}
    <3>1. W \in SUBSET Proc /\ Wakeup(W) /\ parent' = parent
      BY <2>3 DEF SysKill, Proc
    <3>2. \A r \in W : state[r] \in {"RUNNABLE", "SLEEPING"}
      BY <3>1 DEF LocalInv, PcInv
    <3>3. \A r \in Proc : pc[r] = "notify" => pc'[r] = "notify"
      BY <2>0, <2>3 DEF SysKill, TypeOK
    <3> HIDE DEF W
    <3> QED
      BY <3>1, <3>2, <3>3, WakeupLocal, ParentKept
  <2>4. CASE \E t \in 1..MaxSleep : SysSleep(p, t)
    BY <2>0, <2>4, ParentKept DEF SysSleep, TypeOK, PcInv
  <2>5. CASE \E w \in User \cup {AnyChild} : SysWait(p, w)
    BY <2>0, <2>5, ParentKept DEF SysWait, TypeOK
  <2> QED
    BY <1>1, <2>1, <2>2, <2>3, <2>4, <2>5 DEF Syscall
<1>2. ASSUME NEW p \in User \cup {InitProc}, KernelStep(p) PROVE ParentCanWait'
  <2>0. p \in Proc /\ p # Idle
    BY ProcAssumption DEF Proc
  <2>1. CASE TrapReturn(p)
    BY <2>0, <2>1, ParentKept DEF TrapReturn, Goto, Schedule, TypeOK
  <2>2. CASE SleepSchedule(p) \/ WaitSchedule(p) \/ ExitSchedule(p)
    BY <2>0, <2>2, ParentKept
       DEF SleepSchedule, WaitSchedule, ExitSchedule, Schedule, TypeOK
  <2>3. CASE SleepReturn(p) \/ WaitNoChild(p) \/ WaitAgain(p)
    BY <2>0, <2>3, ParentKept
       DEF SleepReturn, WaitNoChild, WaitAgain, Goto, TypeOK
  <2>4. ASSUME NEW c \in Proc, WaitReap(p, c) PROVE ParentCanWait'
    <3>1. /\ state[c] = "ZOMBIE" /\ c # p /\ c # current
      BY <2>0, <2>4 DEF WaitReap, DeadAwaited, PcInv
    <3>2. pc[c] = "gone"
      BY <3>1 DEF PcInv, Parked
    <3>3. \A d \in Proc \ {Idle} : InUse(d) => parent[d] # c
      BY <3>1, <3>2 DEF ParentCanWait
    <3> QED
      BY <2>0, <2>4, <3>1, <3>3
         DEF WaitReap, ParentCanWait, InUse, TypeOK, PcInv
  <2>5. CASE WaitSleep(p)
    BY <2>0, <2>5, ParentKept DEF WaitSleep, TypeOK, PcInv
  <2>6. CASE ExitZombie(p)
    <3>1. state[p] # "UNUSED" /\ pc' = [pc EXCEPT ![p] = "notify"]
      BY <2>0, <2>6 DEF ExitZombie, PcInv
    <3> QED
      BY <2>0, <2>6, <3>1 DEF ExitZombie, ParentCanWait, InUse, TypeOK
  <2>7. CASE ExitNotify(p)
    <3>1. Notified(p) \in SUBSET Proc /\ Wakeup(Notified(p))
      BY <2>7 DEF Notified, ExitNotify
    <3>2. \A r \in Notified(p) : state[r] \in {"RUNNABLE", "SLEEPING"}
      BY <3>1 DEF Notified, PcInv
    <3>3. \A r \in Proc : /\ state[r] = "UNUSED" <=> state'[r] = "UNUSED"
                          /\ state[r] = "ZOMBIE" <=> state'[r] = "ZOMBIE"
      BY <3>1, <3>2, WakeupLocal
    <3>4. InitProc \in Proc /\ state[InitProc] \notin {"UNUSED", "ZOMBIE"}
      BY ProcAssumption DEF Proc, PcInv, PcsOf
    <3>5. \A c \in Proc : parent'[c] = IF c \in Children(p) THEN InitProc ELSE parent[c]
      BY <2>7 DEF ExitNotify
    <3>6. \A r \in Proc \ {p} : pc'[r] = pc[r]
      BY <2>0, <2>7 DEF ExitNotify, TypeOK
    <3> QED
      BY <2>0, <3>3, <3>4, <3>5, <3>6, ProcAssumption
         DEF ParentCanWait, InUse, Children, Proc
  <2>8. CASE \E c \in Proc : WaitReap(p, c)
    BY <2>4, <2>8
  <2> QED
    BY <1>2, <2>1, <2>2, <2>3, <2>5, <2>6, <2>7, <2>8 DEF KernelStep
<1>3. CASE InitStep
  <2>0. InitProc \in Proc \ {Idle}
    BY ProcAssumption DEF Proc
  <2>1. CASE InitSchedule
    BY <2>0, <2>1, ParentKept DEF InitSchedule, Schedule, TypeOK
  <2>2. ASSUME NEW c \in User, InitForkMain(c) PROVE ParentCanWait'
    BY <2>0, <2>2, ForkParent DEF InitForkMain
  <2> QED
    BY <1>3, <2>1, <2>2 DEF InitStep
<1>4. CASE IdleSchedule
  BY <1>4, ParentKept DEF IdleSchedule, Schedule, TypeOK, Proc
<1>5. ASSUME NEW expire \in BOOLEAN, Tick(expire) PROVE ParentCanWait'
  <2> DEFINE W == {p \in Proc : timer[p] = 1}
  <2>1. W \in SUBSET Proc /\ Wakeup(W) /\ parent' = parent
    BY <1>5 DEF Tick
  <2>2. \A r \in W : state[r] \in {"RUNNABLE", "SLEEPING"}
    BY DEF LocalInv, PcInv, TimerInFrame, TypeOK
  <2> HIDE DEF W
  <2>3. \A r \in Proc : pc[r] = "notify" => pc'[r] = "notify"
    BY <1>5 DEF Tick, TypeOK
  <2> QED
    BY <2>1, <2>2, <2>3, WakeupLocal, ParentKept
<1>6. CASE UNCHANGED vars
  BY <1>6 DEF vars, ParentCanWait, InUse
<1> QED
  BY <1>1, <1>2, <1>3, <1>4, <1>5, <1>6 DEF Next, Halted

-----------------------------------------------------------------------------
(* The sleepers.                                                           *)

(* A sleeper whose awaited children stay as they are keeps its waker.      *)
LEMMA SameWaker ==
  ASSUME SleeperHasWaker, NEW q \in Proc, state[q] = "SLEEPING",
         wait_state'[q] = wait_state[q],
         wait_state[q] = "WT_TIMER" => timer'[q] > 0,
         Awaited(q)' = Awaited(q), DeadAwaited(q)' = DeadAwaited(q),
         \A c \in DeadAwaited(q) : pc[c] = "notify" => pc'[c] = "notify"
  PROVE  HasWaker(q)'
  BY DEF SleeperHasWaker, HasWaker

LEMMA DeadAwaitedProc ==
  \A q \in Proc : \A c \in DeadAwaited(q) : c \in Proc /\ state[c] = "ZOMBIE"
                                            /\ parent[c] = q
  BY DEF DeadAwaited, Awaited, Children

(* A step that wakes the processes of W, arms or stops no timer of a       *)
(* sleeper, creates no zombie and leaves the family alone.                 *)
LEMMA WakerKept ==
  ASSUME TypeOK, LocalInv, SleeperHasWaker, UNCHANGED <<parent, wpid>>,
         \A p \in Proc :
            /\ state'[p] = "SLEEPING" => /\ state[p] = "SLEEPING"
                                         /\ wait_state'[p] = wait_state[p]
                                         /\ wait_state[p] = "WT_TIMER" => timer'[p] > 0
            /\ state[p] = "UNUSED" <=> state'[p] = "UNUSED"
            /\ state'[p] = "ZOMBIE" <=> state[p] = "ZOMBIE"
            /\ pc[p] = "notify" => pc'[p] = "notify"
  PROVE  SleeperHasWaker'
<1>1. \A p \in Proc : /\ Children(p)' = Children(p)
                      /\ Awaited(p)' = Awaited(p)
                      /\ DeadAwaited(p)' = DeadAwaited(p)
  BY DEF Children, Awaited, DeadAwaited, InUse
<1> SUFFICES ASSUME NEW q \in Proc, state'[q] = "SLEEPING" PROVE HasWaker(q)'
  BY DEF SleeperHasWaker
<1> QED
  BY <1>1, SameWaker, DeadAwaitedProc

(* The processes that wait for a child are not the one that forks.         *)
LEMMA ForkWaker ==
  ASSUME IndInv, NEW p \in Proc, NEW from \in {"user", "fork_main"},
         NEW c \in User, NEW to \in Pcs, Fork(p, from, c, to)
  PROVE  SleeperHasWaker'
<1>1. c \in Proc /\ c # p /\ state[c] = "UNUSED" /\ state'[c] = "RUNNABLE"
  BY DEF Fork, InUse, IndInv, PcInv, TypeOK, Proc
<1>2. \A q \in Proc \ {c} : state'[q] = state[q] /\ parent'[q] = parent[q]
  BY DEF Fork, IndInv, TypeOK
<1>3. state[p] # "SLEEPING" /\ parent'[c] = p
  BY ProcAssumption DEF Fork, IndInv, PcInv, TypeOK, Proc
<1>4. pc[p] # "notify"
  BY DEF Fork
<1>5. ASSUME NEW q \in Proc, state[q] = "SLEEPING"
      PROVE  Awaited(q)' = Awaited(q) /\ DeadAwaited(q)' = DeadAwaited(q)
  <2>1. q # p
    BY <1>3, <1>5
  <2>2. Children(q)' = Children(q)
    BY <1>1, <1>2, <1>3, <2>1 DEF Children, InUse
  <2>3. wpid' = wpid
    BY DEF Fork
  <2> QED
    BY <1>1, <1>2, <2>2, <2>3 DEF Awaited, DeadAwaited, Children, InUse
<1>6. \A q \in Proc : pc[q] = "notify" /\ q # c => pc'[q] = "notify"
  BY <1>4 DEF Fork, IndInv, TypeOK
<1> SUFFICES ASSUME NEW q \in Proc, state'[q] = "SLEEPING" PROVE HasWaker(q)'
  BY DEF SleeperHasWaker
<1>7. q # c /\ state[q] = "SLEEPING"
  BY <1>1, <1>2
<1>8. UNCHANGED <<wait_state, timer>>
  BY DEF Fork
<1>9. wait_state[q] = "WT_TIMER" => timer'[q] > 0
  BY <1>7, <1>8 DEF IndInv, PcInv
<1> QED
  BY <1>1, <1>5, <1>6, <1>7, <1>8, <1>9, SameWaker, DeadAwaitedProc DEF IndInv

LEMMA WakerStep == IndInv /\ [Next]_vars => SleeperHasWaker'
<1> SUFFICES ASSUME IndInv, [Next]_vars PROVE SleeperHasWaker'
  OBVIOUS
<1> TypeOK /\ LocalInv /\ PcInv /\ ParentCanWait /\ SleeperHasWaker
  BY DEF IndInv, LocalInv
<1> USE DEF Pcs, States, WaitStates
<1>1. ASSUME NEW p \in User, Syscall(p) PROVE SleeperHasWaker'
  <2>0. p \in Proc /\ p # Idle
    BY ProcAssumption DEF Proc
  <2>1. CASE SysNothing(p) \/ SysYield(p) \/ SysExit(p)
    BY <2>0, <2>1, WakerKept
       DEF SysNothing, SysYield, SysExit, Goto, TypeOK, SleeperHasWaker, HasWaker
  <2>2. ASSUME NEW c \in User, SysFork(p, c) PROVE SleeperHasWaker'
    BY <2>0, <2>2, ForkWaker DEF SysFork
  <2>3. ASSUME NEW q \in User, SysKill(p, q) PROVE SleeperHasWaker'
    <3> DEFINE W == IF wait_state[q] # "none" THEN {q} ELSE {}
    <3>1. W \in SUBSET Proc /\ Wakeup(W) /\ UNCHANGED <<parent, wpid, timer>>
      BY <2>3 DEF SysKill, Proc
    <3>2. \A r \in W : state[r] \in {"RUNNABLE", "SLEEPING"}
      BY <3>1 DEF PcInv
    <3>3. \A r \in Proc : pc[r] = "notify" => pc'[r] = "notify"
      BY <2>0, <2>3 DEF SysKill, TypeOK
    <3> HIDE DEF W
    <3> QED
      BY <3>1, <3>2, <3>3, WakeupLocal, WakerKept DEF SleeperHasWaker, HasWaker
  <2>4. ASSUME NEW t \in 1..MaxSleep, SysSleep(p, t) PROVE SleeperHasWaker'
    <3>1. state[p] = "RUNNABLE" /\ state'[p] = "SLEEPING"
          /\ wait_state'[p] = "WT_TIMER" /\ timer'[p] > 0
      BY <2>0, <2>4, BoundAssumption DEF SysSleep, TypeOK, PcInv
    <3>2. \A q \in Proc \ {p} : /\ state'[q] = state[q]
                                /\ wait_state'[q] = wait_state[q]
                                /\ timer'[q] = timer[q] /\ pc'[q] = pc[q]
      BY <2>4 DEF SysSleep, TypeOK
    <3>3. UNCHANGED <<parent, wpid>>
      BY <2>4 DEF SysSleep
    <3>4. \A q \in Proc : /\ Children(q)' = Children(q)
                          /\ Awaited(q)' = Awaited(q)
                          /\ DeadAwaited(q)' = DeadAwaited(q)
      BY <3>1, <3>2, <3>3 DEF Children, Awaited, DeadAwaited, InUse
    <3>5. \A q \in Proc : p \notin DeadAwaited(q)
      BY <3>1 DEF DeadAwaited
    <3> SUFFICES ASSUME NEW q \in Proc, state'[q] = "SLEEPING" PROVE HasWaker(q)'
      BY DEF SleeperHasWaker
    <3>6. CASE q = p
      BY <3>1, <3>6 DEF HasWaker
    <3>7. CASE q # p
      BY <3>2, <3>4, <3>5, <3>7, SameWaker, DeadAwaitedProc
         DEF SleeperHasWaker, HasWaker
    <3> QED
      BY <3>6, <3>7
  <2>5. ASSUME NEW w \in User \cup {AnyChild}, SysWait(p, w) PROVE SleeperHasWaker'
    <3>1. state[p] # "SLEEPING" /\ pc[p] # "notify"
      BY <2>0, <2>5 DEF SysWait, PcInv
    <3>2. UNCHANGED <<parent, state, wait_state, timer>>
      BY <2>5 DEF SysWait
    <3>3. \A q \in Proc \ {p} : wpid'[q] = wpid[q]
      BY <2>5 DEF SysWait, TypeOK
    <3>4. \A q \in Proc \ {p} : /\ Children(q)' = Children(q)
                                /\ Awaited(q)' = Awaited(q)
                                /\ DeadAwaited(q)' = DeadAwaited(q)
      BY <3>2, <3>3 DEF Children, Awaited, DeadAwaited, InUse
    <3>5. \A q \in Proc : pc[q] = "notify" => pc'[q] = "notify"
      BY <2>0, <2>5 DEF SysWait, TypeOK
    <3> SUFFICES ASSUME NEW q \in Proc, state'[q] = "SLEEPING" PROVE HasWaker(q)'
      BY DEF SleeperHasWaker
    <3> QED
      BY <3>1, <3>2, <3>4, <3>5, SameWaker, DeadAwaitedProc
         DEF SleeperHasWaker, HasWaker
  <2> QED
    BY <1>1, <2>1, <2>2, <2>3, <2>4, <2>5 DEF Syscall
<1>2. ASSUME NEW p \in User \cup {InitProc}, KernelStep(p) PROVE SleeperHasWaker'
  <2>0. p \in Proc /\ p # Idle
    BY ProcAssumption DEF Proc
  <2>1. CASE TrapReturn(p)
    BY <2>0, <2>1, WakerKept
       DEF TrapReturn, Goto, Schedule, TypeOK, SleeperHasWaker, HasWaker
  <2>2. CASE SleepSchedule(p) \/ WaitSchedule(p) \/ ExitSchedule(p)
    BY <2>0, <2>2, WakerKept
       DEF SleepSchedule, WaitSchedule, ExitSchedule, Schedule, TypeOK,
           SleeperHasWaker, HasWaker
  <2>3. CASE SleepReturn(p) \/ WaitAgain(p)
    <3>1. state[p] # "SLEEPING"
      BY <2>0, <2>3 DEF SleepReturn, WaitAgain, Goto, PcInv
    <3> QED
      BY <2>0, <2>3, <3>1, WakerKept
         DEF SleepReturn, WaitAgain, Goto, TypeOK, SleeperHasWaker, HasWaker
  <2>4. ASSUME NEW c \in Proc, WaitReap(p, c) PROVE SleeperHasWaker'
    <3>1. /\ state[p] = "RUNNABLE" /\ state[c] = "ZOMBIE" /\ c # p
          /\ parent[c] = p
      BY <2>0, <2>4
         DEF WaitReap, DeadAwaited, Awaited, Children, PcInv
    <3>2. \A q \in Proc \ {c} : state'[q] = state[q] /\ parent'[q] = parent[q]
      BY <2>4 DEF WaitReap, TypeOK
    <3>3. state'[c] = "UNUSED" /\ UNCHANGED <<wait_state, timer>>
      BY <2>4 DEF WaitReap, TypeOK
    <3>4. \A q \in Proc \ {p} : wpid'[q] = wpid[q]
      BY <2>4 DEF WaitReap, TypeOK
    <3>5. \A q \in Proc \ {p} : /\ Children(q)' = Children(q)
                                /\ Awaited(q)' = Awaited(q)
                                /\ DeadAwaited(q)' = DeadAwaited(q)
      BY <3>1, <3>2, <3>3, <3>4 DEF Children, Awaited, DeadAwaited, InUse
    <3>6. \A q \in Proc : pc[q] = "notify" /\ q # c => pc'[q] = "notify"
      BY <2>0, <2>4 DEF WaitReap, TypeOK
    <3> SUFFICES ASSUME NEW q \in Proc, state'[q] = "SLEEPING" PROVE HasWaker(q)'
      BY DEF SleeperHasWaker
    <3>7. q # c /\ q # p /\ state[q] = "SLEEPING"
      BY <3>1, <3>2, <3>3 DEF WaitReap, TypeOK
    <3>8. c \notin DeadAwaited(q)
      BY <3>1, <3>7, DeadAwaitedProc
    <3> QED
      BY <3>3, <3>5, <3>6, <3>7, <3>8, SameWaker, DeadAwaitedProc
         DEF SleeperHasWaker, HasWaker
  <2>5. CASE WaitSleep(p)
    <3>1. /\ state[p] = "RUNNABLE" /\ state'[p] = "SLEEPING"
          /\ wait_state'[p] = "WT_CHILD"
          /\ Awaited(p) # {} /\ DeadAwaited(p) = {}
      BY <2>0, <2>5 DEF WaitSleep, TypeOK, PcInv
    <3>2. \A q \in Proc \ {p} : /\ state'[q] = state[q]
                                /\ wait_state'[q] = wait_state[q]
                                /\ pc'[q] = pc[q]
      BY <2>5 DEF WaitSleep, TypeOK
    <3>3. UNCHANGED <<parent, wpid, timer>>
      BY <2>5 DEF WaitSleep
    <3>4. \A q \in Proc : /\ Children(q)' = Children(q)
                          /\ Awaited(q)' = Awaited(q)
                          /\ DeadAwaited(q)' = DeadAwaited(q)
      BY <3>1, <3>2, <3>3 DEF Children, Awaited, DeadAwaited, InUse
    <3>5. \A q \in Proc : p \notin DeadAwaited(q)
      BY <3>1 DEF DeadAwaited
    <3> SUFFICES ASSUME NEW q \in Proc, state'[q] = "SLEEPING" PROVE HasWaker(q)'
      BY DEF SleeperHasWaker
    <3>6. CASE q = p
      BY <3>1, <3>4, <3>6 DEF HasWaker
    <3>7. CASE q # p
      BY <3>2, <3>3, <3>4, <3>5, <3>7, SameWaker, DeadAwaitedProc
         DEF SleeperHasWaker, HasWaker
    <3> QED
      BY <3>6, <3>7
  <2>6. CASE WaitNoChild(p)
    <3>1. state[p] # "SLEEPING" /\ pc[p] # "notify"
      BY <2>0, <2>6 DEF WaitNoChild, PcInv
    <3>2. UNCHANGED <<parent, state, wait_state, timer>>
      BY <2>6 DEF WaitNoChild
    <3>3. \A q \in Proc \ {p} : wpid'[q] = wpid[q]
      BY <2>6 DEF WaitNoChild, TypeOK
    <3>4. \A q \in Proc \ {p} : /\ Children(q)' = Children(q)
                                /\ Awaited(q)' = Awaited(q)
                                /\ DeadAwaited(q)' = DeadAwaited(q)
      BY <3>2, <3>3 DEF Children, Awaited, DeadAwaited, InUse
    <3>5. \A q \in Proc : pc[q] = "notify" => pc'[q] = "notify"
      BY <2>0, <2>6 DEF WaitNoChild, TypeOK
    <3> SUFFICES ASSUME NEW q \in Proc, state'[q] = "SLEEPING" PROVE HasWaker(q)'
      BY DEF SleeperHasWaker
    <3> QED
      BY <3>1, <3>2, <3>4, <3>5, SameWaker, DeadAwaitedProc
         DEF SleeperHasWaker, HasWaker
  <2>7. CASE ExitZombie(p)
    <3>1. /\ state[p] = "RUNNABLE" /\ state'[p] = "ZOMBIE" /\ pc'[p] = "notify"
      BY <2>0, <2>7 DEF ExitZombie, TypeOK, PcInv
    <3>2. \A q \in Proc \ {p} : /\ state'[q] = state[q]
                                /\ pc'[q] = pc[q] /\ wpid'[q] = wpid[q]
      BY <2>7 DEF ExitZombie, TypeOK
    <3>3. UNCHANGED <<parent, wait_state, timer>>
      BY <2>7 DEF ExitZombie
    <3>4. \A q \in Proc \ {p} : /\ Children(q)' = Children(q)
                                /\ Awaited(q)' = Awaited(q)
                                /\ DeadAwaited(q)' \subseteq DeadAwaited(q) \cup {p}
      BY <3>1, <3>2, <3>3 DEF Children, Awaited, DeadAwaited, InUse
    <3> SUFFICES ASSUME NEW q \in Proc, state'[q] = "SLEEPING" PROVE HasWaker(q)'
      BY DEF SleeperHasWaker
    <3>5. q # p /\ state[q] = "SLEEPING" /\ HasWaker(q)
      BY <3>1, <3>2 DEF SleeperHasWaker
    <3>6. \A c \in DeadAwaited(q) : pc[c] = "notify" => pc'[c] = "notify"
      BY <3>1, <3>2, DeadAwaitedProc
    <3> QED
      BY <3>1, <3>3, <3>4, <3>5, <3>6 DEF HasWaker
  <2>8. CASE ExitNotify(p)
    <3>1. Notified(p) \in SUBSET Proc /\ Wakeup(Notified(p))
      BY <2>8 DEF Notified, ExitNotify
    <3>2. \A r \in Notified(p) : state[r] \in {"RUNNABLE", "SLEEPING"}
      BY <3>1 DEF Notified, PcInv
    <3>3. \A r \in Proc : /\ state[r] = "UNUSED" <=> state'[r] = "UNUSED"
                          /\ state[r] = "ZOMBIE" <=> state'[r] = "ZOMBIE"
                          /\ state'[r] = "SLEEPING" =>
                                /\ state[r] = "SLEEPING" /\ r \notin Notified(p)
                                /\ wait_state'[r] = wait_state[r]
      BY <3>1, <3>2, WakeupLocal
    <3>4. /\ UNCHANGED <<wpid, timer>>
          /\ \A c \in Proc : parent'[c] = IF c \in Children(p) THEN InitProc
                                          ELSE parent[c]
          /\ \A r \in Proc \ {p} : pc'[r] = pc[r]
      BY <2>8 DEF ExitNotify, TypeOK
    <3>5. state[p] = "ZOMBIE" /\ pc[p] = "notify" /\ p # InitProc
      BY <2>0, <2>8 DEF ExitNotify, PcInv, PcsOf
    <3>6. ASSUME NEW q \in Proc, state'[q] = "SLEEPING",
                 wait_state[q] = "WT_CHILD"
          PROVE  /\ Awaited(q)' # {}
                 /\ \A c \in DeadAwaited(q)' : pc'[c] = "notify"
      <4>1. /\ state[q] = "SLEEPING" /\ q \notin Notified(p) /\ q # p
            /\ Awaited(q) # {}
            /\ \A c \in DeadAwaited(q) : pc[c] = "notify"
        BY <3>3, <3>5, <3>6 DEF SleeperHasWaker, HasWaker
      <4>2. q # parent[p]
        BY <3>6, <4>1 DEF Notified
      <4>3. Children(q) \subseteq Children(q)'
        BY <3>3, <3>4, <4>1 DEF Children, InUse
      <4>4. Awaited(q) \subseteq Awaited(q)'
        BY <3>4, <4>3 DEF Awaited
      <4>5. ASSUME NEW c \in DeadAwaited(q)' PROVE pc'[c] = "notify"
        <5>1. c \in Proc /\ state[c] = "ZOMBIE" /\ InUse(c) /\ parent'[c] = q
          BY <3>3, <4>5 DEF DeadAwaited, Awaited, Children, InUse
        <5>2. CASE c \in Children(p)
          BY <3>4, <3>6, <4>1, <5>1, <5>2 DEF Notified
        <5>3. CASE c \notin Children(p)
          <6>1. parent[c] = q /\ c # p
            BY <3>4, <4>2, <5>1, <5>3
          <6>2. c \in DeadAwaited(q)
            BY <3>4, <4>5, <5>1, <6>1 DEF DeadAwaited, Awaited, Children
          <6> QED
            BY <3>4, <4>1, <5>1, <6>1, <6>2
        <5> QED
          BY <5>2, <5>3
      <4> QED
        BY <4>1, <4>4, <4>5
    <3>7. ASSUME NEW q \in Proc, state'[q] = "SLEEPING"
          PROVE  \/ wait_state'[q] = "WT_TIMER" /\ timer'[q] > 0
                 \/ /\ wait_state'[q] = "WT_CHILD"
                    /\ Awaited(q)' # {}
                    /\ \A c \in DeadAwaited(q)' : pc'[c] = "notify"
      BY <3>3, <3>4, <3>6, <3>7 DEF SleeperHasWaker, HasWaker
    <3> QED
      BY <3>7 DEF SleeperHasWaker, HasWaker
  <2> QED
    BY <1>2, <2>1, <2>2, <2>3, <2>4, <2>5, <2>6, <2>7, <2>8 DEF KernelStep
<1>3. CASE InitStep
  <2>0. InitProc \in Proc
    BY DEF Proc
  <2>1. CASE InitSchedule
    BY <2>0, <2>1, WakerKept DEF InitSchedule, Schedule, TypeOK, SleeperHasWaker, HasWaker
  <2>2. ASSUME NEW c \in User, InitForkMain(c) PROVE SleeperHasWaker'
    BY <2>0, <2>2, ForkWaker DEF InitForkMain
  <2> QED
    BY <1>3, <2>1, <2>2 DEF InitStep
<1>4. CASE IdleSchedule
  BY <1>4, WakerKept DEF IdleSchedule, Schedule, TypeOK, Proc, SleeperHasWaker, HasWaker
<1>5. ASSUME NEW expire \in BOOLEAN, Tick(expire) PROVE SleeperHasWaker'
  <2> DEFINE W == {p \in Proc : timer[p] = 1}
  <2>1. W \in SUBSET Proc /\ Wakeup(W) /\ UNCHANGED <<parent, wpid>>
    BY <1>5 DEF Tick
  <2>2. \A r \in W : state[r] \in {"RUNNABLE", "SLEEPING"}
    BY DEF LocalInv, PcInv, TimerInFrame, TypeOK
  <2>3. \A r \in Proc : /\ r \in W <=> timer[r] = 1
                        /\ timer[r] \in Int
    BY BoundAssumption DEF TypeOK
  <2> HIDE DEF W
  <2>4. \A r \in Proc : pc[r] = "notify" => pc'[r] = "notify"
    BY <1>5 DEF Tick, TypeOK
  <2>5. \A r \in Proc : timer'[r] = IF timer[r] > 0 THEN timer[r] - 1 ELSE 0
    BY <1>5 DEF Tick
  <2>6. \A r \in Proc : state'[r] = "SLEEPING" =>
           /\ state[r] = "SLEEPING" /\ r \notin W
           /\ wait_state'[r] = wait_state[r]
    BY <2>1, <2>2, WakeupLocal
  <2>7. \A r \in Proc : state'[r] = "SLEEPING" /\ wait_state[r] = "WT_TIMER" =>
           timer'[r] > 0
    BY <2>3, <2>5, <2>6 DEF SleeperHasWaker, HasWaker
  <2>8. \A r \in Proc : /\ state[r] = "UNUSED" <=> state'[r] = "UNUSED"
                        /\ state'[r] = "ZOMBIE" <=> state[r] = "ZOMBIE"
    BY <2>1, <2>2, WakeupLocal
  <2> QED
    BY <2>1, <2>4, <2>6, <2>7, <2>8, WakerKept
<1>6. CASE UNCHANGED vars
  BY <1>6 DEF vars, SleeperHasWaker, HasWaker, DeadAwaited, Awaited, Children, InUse
<1> QED
  BY <1>1, <1>2, <1>3, <1>4, <1>5, <1>6 DEF Next, Halted

-----------------------------------------------------------------------------
(* The inductive invariant and what follows from it.                       *)

LEMMA IndInvInductive == Spec => []IndInv
<1>1. IndInv /\ [Next]_vars => IndInv'
  BY TypeStep, LocalStep, QueueStep, ParentStep, WakerStep DEF IndInv, LocalInv
<1> QED
  BY InitIndInv, <1>1, PTL DEF Spec

(* Every variable keeps its type, whatever the processes, the limit on     *)
(* them and the longest sleep.                                             *)
THEOREM TypeCorrect == Spec => []TypeOK
<1>1. IndInv => TypeOK
  BY DEF IndInv
<1> QED
  BY <1>1, IndInvInductive, PTL

(* wakeup_proc, schedule and do_fork neither lose nor duplicate a runnable *)
(* process.                                                                *)
THEOREM RunQueueCorrect == Spec => []RunQueueExact
<1>1. IndInv => RunQueueExact
  BY DEF IndInv
<1> QED
  BY <1>1, IndInvInductive, PTL

(* No timer outlives the do_sleep on whose stack it lies.                  *)
THEOREM TimersCorrect == Spec => []TimerInFrame
<1>1. IndInv => TimerInFrame
  BY DEF IndInv
<1> QED
  BY <1>1, IndInvInductive, PTL

(* The assertions of wakeup_proc and run_timer_list never fail.            *)
THEOREM WakeupsCorrect == Spec => []WakeableAlive
<1>1. IndInv => WakeableAlive
  BY DEF IndInv, TypeOK, PcInv, TimerInFrame, WakeableAlive, States, WaitStates
<1> QED
  BY <1>1, IndInvInductive, PTL

(* No wakeup is lost between do_wait's or do_sleep's test and its sleep.   *)
THEOREM NoLostWakeup == Spec => []SleeperHasWaker
<1>1. IndInv => SleeperHasWaker
  BY DEF IndInv
<1> QED
  BY <1>1, IndInvInductive, PTL

(* Every process in use has a parent that can still wait for it.           *)
THEOREM ParentsCorrect == Spec => []ParentCanWait
<1>1. IndInv => ParentCanWait
  BY DEF IndInv
<1> QED
  BY <1>1, IndInvInductive, PTL

-----------------------------------------------------------------------------
(* What a step may never do.                                               *)

LEMMA ReapStep ==
  ASSUME IndInv, NEW p \in Proc, NEW c \in Proc, WaitReap(p, c)
  PROVE  /\ current = p /\ pc[p] = "wait" /\ parent[c] = p
         /\ state[p] = "RUNNABLE" /\ c # p
         /\ state[c] = "ZOMBIE" /\ pc[c] = "gone"
         /\ Children(c) = {}
<1>1. /\ current = p /\ pc[p] = "wait" /\ parent[c] = p
      /\ state[c] = "ZOMBIE"
  BY DEF WaitReap, DeadAwaited, Awaited, Children
<1>2. state[p] = "RUNNABLE" /\ c # p /\ pc[c] = "gone"
  BY <1>1 DEF IndInv, PcInv, Parked
<1>3. \A d \in Proc : InUse(d) => parent[d] # c
  BY <1>1, <1>2, ProcAssumption DEF IndInv, ParentCanWait
<1> QED
  BY <1>1, <1>2, <1>3 DEF Children

(* Everything but do_exit and do_wait leaves zombies and free slots alone, *)
(* except that do_fork takes a free slot.                                  *)
Quiet == \A q \in Proc :
            /\ state[q] = "ZOMBIE" <=> state'[q] = "ZOMBIE"
            /\ state'[q] = "UNUSED" => state[q] = "UNUSED"

LEMMA ForkQuiet ==
  ASSUME TypeOK, NEW p, NEW from, NEW c \in User, NEW to, Fork(p, from, c, to)
  PROVE  Quiet
  BY DEF Fork, InUse, TypeOK, Quiet, Proc

LEMMA WakeupQuiet ==
  ASSUME TypeOK, LocalInv, NEW W \in SUBSET Proc, Wakeup(W),
         \A p \in W : state[p] \in {"RUNNABLE", "SLEEPING"}
  PROVE  Quiet
  BY WakeupLocal DEF Quiet

LEMMA StepCases ==
  IndInv /\ [Next]_vars =>
     \/ Quiet
     \/ \E p \in User : ExitZombie(p)
     \/ \E p \in User \cup {InitProc}, c \in Proc : WaitReap(p, c)
<1> SUFFICES ASSUME IndInv, [Next]_vars,
                    ~ \E p \in User : ExitZombie(p),
                    ~ \E p \in User \cup {InitProc}, c \in Proc : WaitReap(p, c)
             PROVE  Quiet
  OBVIOUS
<1> TypeOK /\ LocalInv /\ PcInv
  BY DEF IndInv, LocalInv
<1>1. ASSUME NEW p \in User, Syscall(p) PROVE Quiet
  <2>0. p \in Proc
    BY DEF Proc
  <2>1. CASE \/ SysNothing(p) \/ SysYield(p) \/ SysExit(p)
             \/ \E w \in User \cup {AnyChild} : SysWait(p, w)
    BY <2>1 DEF SysNothing, SysYield, SysExit, SysWait, Goto, Quiet
  <2>2. CASE \E c \in User : SysFork(p, c)
    BY <2>2, ForkQuiet DEF SysFork
  <2>3. ASSUME NEW q \in User, SysKill(p, q) PROVE Quiet
    <3> DEFINE W == IF wait_state[q] # "none" THEN {q} ELSE {}
    <3>1. W \in SUBSET Proc /\ Wakeup(W)
      BY <2>3 DEF SysKill, Proc
    <3>2. \A r \in W : state[r] \in {"RUNNABLE", "SLEEPING"}
      BY <3>1 DEF PcInv
    <3> HIDE DEF W
    <3> QED
      BY <3>1, <3>2, WakeupQuiet
  <2>4. CASE \E t \in 1..MaxSleep : SysSleep(p, t)
    BY <2>0, <2>4 DEF SysSleep, TypeOK, PcInv, Quiet
  <2> QED
    BY <1>1, <2>1, <2>2, <2>3, <2>4 DEF Syscall
<1>2. ASSUME NEW p \in User \cup {InitProc}, KernelStep(p) PROVE Quiet
  <2>0. p \in Proc
    BY DEF Proc
  <2>1. CASE TrapReturn(p)
    BY <2>1 DEF TrapReturn, Goto, Schedule, Quiet
  <2>2. CASE SleepSchedule(p) \/ WaitSchedule(p) \/ ExitSchedule(p)
    BY <2>2 DEF SleepSchedule, WaitSchedule, ExitSchedule, Schedule, Quiet
  <2>3. CASE SleepReturn(p) \/ WaitNoChild(p) \/ WaitAgain(p)
    BY <2>3 DEF SleepReturn, WaitNoChild, WaitAgain, Goto, Quiet
  <2>4. CASE WaitSleep(p)
    BY <2>0, <2>4 DEF WaitSleep, TypeOK, PcInv, Quiet
  <2>5. CASE ExitNotify(p)
    <3>1. Notified(p) \in SUBSET Proc /\ Wakeup(Notified(p))
      BY <2>5 DEF Notified, ExitNotify
    <3>2. \A r \in Notified(p) : state[r] \in {"RUNNABLE", "SLEEPING"}
      BY <3>1 DEF Notified, PcInv
    <3> QED
      BY <3>1, <3>2, WakeupQuiet
  <2>6. CASE ExitZombie(p)
    <3>1. p # InitProc
      BY <2>0, <2>6, ProcAssumption DEF ExitZombie, PcInv, PcsOf
    <3> QED
      BY <1>2, <2>6, <3>1
  <2> QED
    BY <1>2, <2>1, <2>2, <2>3, <2>4, <2>5, <2>6 DEF KernelStep
<1>3. CASE InitStep
  BY <1>3, ForkQuiet DEF InitStep, InitSchedule, InitForkMain, Schedule, Quiet
<1>4. CASE IdleSchedule
  BY <1>4 DEF IdleSchedule, Schedule, Quiet
<1>5. ASSUME NEW expire \in BOOLEAN, Tick(expire) PROVE Quiet
  <2> DEFINE W == {p \in Proc : timer[p] = 1}
  <2>1. W \in SUBSET Proc /\ Wakeup(W)
    BY <1>5 DEF Tick
  <2>2. \A r \in W : state[r] \in {"RUNNABLE", "SLEEPING"}
    BY DEF LocalInv, PcInv, TimerInFrame, TypeOK, States
  <2> HIDE DEF W
  <2> QED
    BY <2>1, <2>2, WakeupQuiet
<1>6. CASE UNCHANGED vars
  BY <1>6 DEF vars, Quiet
<1> QED
  BY <1>1, <1>2, <1>3, <1>4, <1>5, <1>6 DEF Next, Halted

(* A process dies only by its own hand; its proc_struct is released only   *)
(* by a do_wait of its parent, once nobody names it as a parent any more.  *)
THEOREM ZombieFateCorrect == Spec => ZombieFate
<1> DEFINE Fate ==
      \A p \in Proc :
          /\ state[p] # "ZOMBIE" /\ state'[p] = "ZOMBIE" => p = current
          /\ state[p] # "UNUSED" /\ state'[p] = "UNUSED" =>
                /\ state[p] = "ZOMBIE" /\ pc[p] = "gone"
                /\ current = parent[p] /\ pc[current] = "wait"
                /\ Children(p) = {}
          /\ state[p] = "ZOMBIE" => state'[p] \in {"ZOMBIE", "UNUSED"}
<1>1. IndInv /\ [Next]_vars => Fate
  <2> SUFFICES ASSUME IndInv, [Next]_vars PROVE Fate
    OBVIOUS
  <2>0. TypeOK
    BY DEF IndInv
  <2>1. CASE Quiet
    BY <2>1 DEF Quiet
  <2>2. ASSUME NEW p \in User, ExitZombie(p) PROVE Fate
    <3>1. state[p] = "RUNNABLE" /\ current = p
      BY <2>2 DEF ExitZombie, IndInv, PcInv, Proc
    <3>2. state' = [state EXCEPT ![p] = "ZOMBIE"]
      BY <2>2 DEF ExitZombie
    <3> QED
      BY <2>0, <3>1, <3>2 DEF TypeOK
  <2>3. ASSUME NEW p \in User \cup {InitProc}, NEW c \in Proc, WaitReap(p, c)
        PROVE  Fate
    <3>1. p \in Proc
      BY DEF Proc
    <3>2. state' = [state EXCEPT ![c] = "UNUSED"]
      BY <2>3 DEF WaitReap
    <3> QED
      BY <2>0, <2>3, <3>1, <3>2, ReapStep DEF TypeOK
  <2> QED
    BY <2>1, <2>2, <2>3, StepCases
<1>2. IndInv /\ [Next]_vars => [Fate]_vars
  BY <1>1
<1> QED
  BY <1>2, IndInvInductive, PTL DEF Spec, ZombieFate

-----------------------------------------------------------------------------
(* Process implements ProcFamily.                                          *)

(* The steps that ProcFamily does not see.                                 *)
Unseen == /\ parent' = parent
          /\ \A q \in Proc : /\ state[q] = "UNUSED" <=> state'[q] = "UNUSED"
                             /\ state[q] = "ZOMBIE" /\ pc[q] = "gone" <=>
                                   state'[q] = "ZOMBIE" /\ pc'[q] = "gone"

LEMMA UnseenStutters == Unseen => UNCHANGED Family!famVars
<1> SUFFICES ASSUME Unseen PROVE UNCHANGED Family!famVars
  OBVIOUS
<1>1. \A q \in Proc : LifeOf(q)' = LifeOf(q)
  BY DEF Unseen, LifeOf
<1>2. [q \in Proc |-> LifeOf(q)]' = [q \in Proc |-> LifeOf(q)]
  BY <1>1
<1> QED
  BY <1>2 DEF Unseen, Family!famVars

LEMMA SeenSteps ==
  IndInv /\ [Next]_vars =>
     \/ Unseen
     \/ \E p \in User, c \in User : SysFork(p, c)
     \/ \E c \in User : InitForkMain(c)
     \/ \E p \in User \cup {InitProc} : ExitNotify(p)
     \/ \E p \in User \cup {InitProc}, c \in Proc : WaitReap(p, c)
<1> SUFFICES ASSUME IndInv, [Next]_vars,
                    ~ \E p \in User, c \in User : SysFork(p, c),
                    ~ \E c \in User : InitForkMain(c),
                    ~ \E p \in User \cup {InitProc} : ExitNotify(p),
                    ~ \E p \in User \cup {InitProc}, c \in Proc : WaitReap(p, c)
             PROVE  Unseen
  OBVIOUS
<1> TypeOK /\ LocalInv /\ PcInv
  BY DEF IndInv, LocalInv
<1>1. ASSUME NEW p \in User, Syscall(p) PROVE Unseen
  <2>0. p \in Proc
    BY DEF Proc
  <2>1. CASE \/ SysNothing(p) \/ SysYield(p) \/ SysExit(p)
             \/ \E w \in User \cup {AnyChild} : SysWait(p, w)
    BY <2>0, <2>1
       DEF SysNothing, SysYield, SysExit, SysWait, Goto, TypeOK, PcInv, Unseen
  <2>2. ASSUME NEW q \in User, SysKill(p, q) PROVE Unseen
    <3> DEFINE W == IF wait_state[q] # "none" THEN {q} ELSE {}
    <3>1. W \in SUBSET Proc /\ Wakeup(W)
      BY <2>2 DEF SysKill, Proc
    <3>2. \A r \in W : state[r] \in {"RUNNABLE", "SLEEPING"}
      BY <3>1 DEF PcInv
    <3>3. /\ parent' = parent
          /\ \A r \in Proc : pc[r] = "gone" <=> pc'[r] = "gone"
      BY <2>0, <2>2 DEF SysKill, TypeOK
    <3> HIDE DEF W
    <3> QED
      BY <3>1, <3>2, <3>3, WakeupLocal DEF Unseen
  <2>3. CASE \E t \in 1..MaxSleep : SysSleep(p, t)
    BY <2>0, <2>3 DEF SysSleep, TypeOK, PcInv, Unseen
  <2> QED
    BY <1>1, <2>1, <2>2, <2>3 DEF Syscall
<1>2. ASSUME NEW p \in User \cup {InitProc}, KernelStep(p) PROVE Unseen
  <2>0. p \in Proc
    BY DEF Proc
  <2>1. CASE TrapReturn(p)
    BY <2>0, <2>1 DEF TrapReturn, Goto, Schedule, TypeOK, Unseen
  <2>2. CASE SleepSchedule(p) \/ WaitSchedule(p) \/ ExitSchedule(p)
    BY <2>0, <2>2
       DEF SleepSchedule, WaitSchedule, ExitSchedule, Schedule, TypeOK, Unseen
  <2>3. CASE SleepReturn(p) \/ WaitNoChild(p) \/ WaitAgain(p)
    BY <2>0, <2>3
       DEF SleepReturn, WaitNoChild, WaitAgain, Goto, TypeOK, Unseen
  <2>4. CASE WaitSleep(p)
    BY <2>0, <2>4 DEF WaitSleep, TypeOK, PcInv, Unseen
  <2>5. CASE ExitZombie(p)
    BY <2>0, <2>5 DEF ExitZombie, TypeOK, PcInv, Unseen
  <2> QED
    BY <1>2, <2>1, <2>2, <2>3, <2>4, <2>5 DEF KernelStep
<1>3. CASE InitStep
  BY <1>3 DEF InitStep, InitSchedule, Schedule, TypeOK, Proc, Unseen
<1>4. CASE IdleSchedule
  BY <1>4 DEF IdleSchedule, Schedule, TypeOK, Proc, Unseen
<1>5. ASSUME NEW expire \in BOOLEAN, Tick(expire) PROVE Unseen
  <2> DEFINE W == {p \in Proc : timer[p] = 1}
  <2>1. W \in SUBSET Proc /\ Wakeup(W)
    BY <1>5 DEF Tick
  <2>2. \A r \in W : state[r] \in {"RUNNABLE", "SLEEPING"}
    BY DEF LocalInv, PcInv, TimerInFrame, TypeOK, States
  <2>3. /\ parent' = parent
        /\ \A r \in Proc : pc[r] = "gone" <=> pc'[r] = "gone"
    BY <1>5 DEF Tick, TypeOK
  <2> HIDE DEF W
  <2> QED
    BY <2>1, <2>2, <2>3, WakeupLocal DEF Unseen
<1>6. CASE UNCHANGED vars
  BY <1>6 DEF vars, Unseen
<1> QED
  BY <1>1, <1>2, <1>3, <1>4, <1>5, <1>6 DEF Next, Halted

LEMMA ForkCreates ==
  ASSUME IndInv, NEW p \in Proc, NEW from \in {"user", "fork_main"},
         NEW c \in User, NEW to \in Pcs \ {"gone"}, Fork(p, from, c, to)
  PROVE  Family!Create(p, c)
<1>1. c \in Proc /\ c # p /\ state[c] = "UNUSED"
  BY DEF Fork, InUse, IndInv, PcInv, TypeOK, Proc
<1>2. state[p] = "RUNNABLE"
  BY DEF Fork, IndInv, PcInv
<1>3. /\ state' = [state EXCEPT ![c] = "RUNNABLE"]
      /\ parent' = [parent EXCEPT ![c] = p]
      /\ pc' = [pc EXCEPT ![p] = to, ![c] = "user"]
  BY DEF Fork
<1>4. \A q \in Proc : LifeOf(q)' = IF q = c THEN "alive" ELSE LifeOf(q)
  BY <1>1, <1>2, <1>3 DEF IndInv, TypeOK, LifeOf
<1>5. LifeOf(p) = "alive" /\ LifeOf(c) = "free"
  BY <1>1, <1>2 DEF LifeOf
<1> QED
  BY <1>1, <1>3, <1>4, <1>5 DEF Family!Create

LEMMA NotifyDies ==
  ASSUME IndInv, NEW p \in User \cup {InitProc}, ExitNotify(p)
  PROVE  Family!Die(p)
<1>0. TypeOK /\ LocalInv /\ PcInv
  BY DEF IndInv, LocalInv
<1>1. /\ p \in Proc /\ state[p] = "ZOMBIE" /\ pc[p] = "notify"
      /\ p \notin {Idle, InitProc}
  BY <1>0, ProcAssumption DEF ExitNotify, PcInv, PcsOf, Proc
<1>2. Notified(p) \in SUBSET Proc /\ Wakeup(Notified(p))
  BY DEF Notified, ExitNotify
<1>3. \A r \in Notified(p) : state[r] \in {"RUNNABLE", "SLEEPING"}
  BY <1>0, <1>2 DEF Notified, PcInv, WaitStates
<1>4. \A r \in Proc : /\ state[r] = "UNUSED" <=> state'[r] = "UNUSED"
                      /\ state[r] = "ZOMBIE" <=> state'[r] = "ZOMBIE"
  BY <1>0, <1>2, <1>3, WakeupLocal
<1>5. pc' = [pc EXCEPT ![p] = "gone"]
  BY DEF ExitNotify
<1>6. \A q \in Proc : LifeOf(q)' = IF q = p THEN "dead" ELSE LifeOf(q)
  BY <1>0, <1>1, <1>4, <1>5 DEF LifeOf, TypeOK
<1>7. LifeOf(p) = "alive"
  BY <1>1 DEF LifeOf
<1>8. Children(p) = Family!Offspring(p)
  BY DEF Children, InUse, LifeOf, Family!Offspring
<1>9. parent' = [c \in Proc |-> IF c \in Children(p) THEN InitProc ELSE parent[c]]
  BY DEF ExitNotify
<1> QED
  BY <1>1, <1>6, <1>7, <1>8, <1>9 DEF Family!Die

LEMMA ReapReleases ==
  ASSUME IndInv, NEW p \in User \cup {InitProc}, NEW c \in Proc, WaitReap(p, c)
  PROVE  Family!Release(p, c)
<1>0. p \in Proc
  BY DEF Proc
<1>1. /\ parent[c] = p /\ state[p] = "RUNNABLE" /\ c # p
      /\ state[c] = "ZOMBIE" /\ pc[c] = "gone" /\ pc[p] = "wait"
  BY <1>0, ReapStep
<1>2. /\ state' = [state EXCEPT ![c] = "UNUSED"]
      /\ parent' = [parent EXCEPT ![c] = NULL]
      /\ \A q \in Proc \ {p, c} : pc'[q] = pc[q]
  BY DEF WaitReap, IndInv, TypeOK
<1>3. \A q \in Proc : LifeOf(q)' = IF q = c THEN "free" ELSE LifeOf(q)
  BY <1>0, <1>1, <1>2 DEF IndInv, TypeOK, LifeOf
<1>4. LifeOf(p) = "alive" /\ LifeOf(c) = "dead"
  BY <1>1 DEF LifeOf
<1> QED
  BY <1>0, <1>1, <1>2, <1>3, <1>4 DEF Family!Release

(* fork, exit and wait, with sleeping, scheduling, kills and ticks, do no  *)
(* more than ProcFamily allows.                                            *)
THEOREM FamilyRefinement == Spec => ImplementsFamily
<1>1. Init => Family!FamilyInit
  <2> SUFFICES ASSUME Init PROVE Family!FamilyInit
    OBVIOUS
  <2>1. \A p \in Proc : LifeOf(p) = IF p \in {Idle, InitProc} THEN "alive" ELSE "free"
    BY ProcAssumption DEF Init, LifeOf, Proc
  <2> QED
    BY <2>1 DEF Init, Family!FamilyInit
<1>2. IndInv /\ [Next]_vars => [Family!FamilyNext]_(Family!famVars)
  <2> SUFFICES ASSUME IndInv, [Next]_vars
               PROVE  Family!FamilyNext \/ UNCHANGED Family!famVars
    OBVIOUS
  <2>1. CASE Unseen
    BY <2>1, UnseenStutters
  <2>2. ASSUME NEW p \in User, NEW c \in User, SysFork(p, c)
        PROVE  Family!FamilyNext
    BY <2>2, ForkCreates DEF SysFork, Proc, Pcs, Family!FamilyNext
  <2>3. ASSUME NEW c \in User, InitForkMain(c) PROVE Family!FamilyNext
    BY <2>3, ForkCreates DEF InitForkMain, Proc, Pcs, Family!FamilyNext
  <2>4. ASSUME NEW p \in User \cup {InitProc}, ExitNotify(p)
        PROVE  Family!FamilyNext
    BY <2>4, NotifyDies DEF Proc, Family!FamilyNext
  <2>5. ASSUME NEW p \in User \cup {InitProc}, NEW c \in Proc, WaitReap(p, c)
        PROVE  Family!FamilyNext
    BY <2>5, ReapReleases DEF Proc, Family!FamilyNext
  <2> QED
    BY <2>1, <2>2, <2>3, <2>4, <2>5, SeenSteps
<1> QED
  BY <1>1, <1>2, IndInvInductive, PTL DEF Spec, ImplementsFamily, Family!FamilySpec

-----------------------------------------------------------------------------
(* Timers.                                                                 *)

LEMMA TimerSteps == IndInv /\ [Next]_vars => [Clock!TimersNext]_timer
<1> SUFFICES ASSUME IndInv, [Next]_vars PROVE Clock!TimersNext \/ timer' = timer
  OBVIOUS
<1> TypeOK /\ TimerInFrame
  BY DEF IndInv
<1>1. ASSUME NEW p \in User, Syscall(p) PROVE Clock!TimersNext \/ timer' = timer
  <2>1. CASE \E t \in 1..MaxSleep : SysSleep(p, t)
    <3>1. PICK t \in 1..MaxSleep : SysSleep(p, t)
      BY <2>1
    <3>2. p \in Proc /\ timer[p] = 0
      BY <3>1, BoundAssumption DEF SysSleep, TimerInFrame, TypeOK, Proc
    <3>3. Clock!Arm(p, t)
      BY <3>1, <3>2 DEF SysSleep, Clock!Arm
    <3> QED
      BY <3>2, <3>3 DEF Clock!TimersNext
  <2>2. CASE ~ \E t \in 1..MaxSleep : SysSleep(p, t)
    BY <1>1, <2>2
       DEF Syscall, SysNothing, SysYield, SysExit, SysFork, Fork, SysKill,
           SysWait, Goto
  <2> QED
    BY <2>1, <2>2
<1>2. ASSUME NEW p \in User \cup {InitProc}, KernelStep(p)
      PROVE  Clock!TimersNext \/ timer' = timer
  <2>0. p \in Proc
    BY DEF Proc
  <2>1. CASE SleepReturn(p)
    BY <2>0, <2>1 DEF SleepReturn, Clock!Stop, Clock!TimersNext
  <2>2. CASE ~SleepReturn(p)
    BY <1>2, <2>2
       DEF KernelStep, TrapReturn, SleepSchedule, WaitReap, WaitSleep,
           WaitNoChild, WaitSchedule, WaitAgain, ExitZombie, ExitNotify,
           ExitSchedule, Goto, Schedule
  <2> QED
    BY <2>1, <2>2
<1>3. CASE InitStep \/ IdleSchedule
  BY <1>3 DEF InitStep, InitSchedule, InitForkMain, Fork, IdleSchedule, Schedule
<1>4. ASSUME NEW expire \in BOOLEAN, Tick(expire) PROVE Clock!TimersNext
  BY <1>4 DEF Tick, Clock!CountDown, Clock!TimersNext
<1>5. CASE UNCHANGED vars
  BY <1>5 DEF vars
<1> QED
  BY <1>1, <1>2, <1>3, <1>4, <1>5 DEF Next, Halted

(* The timers of do_sleep, armed, fired by the tick or taken down by       *)
(* del_timer after a kill, do no more than Timers allows; in particular no *)
(* timer is armed while it is pending.                                     *)
THEOREM TimersRefinement == Spec => ImplementsTimers
<1>1. Init => Clock!TimersInit
  BY DEF Init, Clock!TimersInit
<1> QED
  BY <1>1, TimerSteps, IndInvInductive, PTL DEF Spec, ImplementsTimers, Clock!TimersSpec

=============================================================================
