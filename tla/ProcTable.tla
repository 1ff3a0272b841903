------------------------------ MODULE ProcTable ------------------------------
(***************************************************************************)
(* The tables behind Process, with their parts working on the same         *)
(* processes: the pids that get_pid hands out (GetPid), the family         *)
(* pointers (ProcLinks) and the timer list (TimerList) of lab7's proc.c    *)
(* and sched.c.  A process is named by its pid, idle is 0 and init is 1.   *)
(*                                                                         *)
(* do_fork, do_exit's loop and the end of do_wait each run with interrupts *)
(* off, so nothing happens while get_pid scans or children change hands;   *)
(* their inner steps are actions so that their states are seen.            *)
(***************************************************************************)
EXTENDS GetPid, ProcLinks, TimerList

CONSTANT MaxArmed  \* bound: the processes that sleep at the same time

ASSUME TableAssumption ==
    /\ MaxArmed \in Nat
    /\ Idle = 0 /\ InitProc = 1
    /\ User = Pid \ {1}
    /\ Sleeper = User

tableVars == <<vars, linkVars, timer_list>>

TableTypeOK == TypeOK /\ LinksTypeOK /\ TimersTypeOK

(* proc_init has forked init, the first call of get_pid.                   *)
TableInit ==
    /\ LinksInit /\ TimersInit
    /\ pids = {1} /\ seen = {}
    /\ last_pid = 1 /\ next_safe = MAX_PID
    /\ pc = "out"

(* Interrupts are on: no fork and no do_exit is half done.                 *)
Quiet == pc = "out" /\ exiter = NULL

(* A process on the CPU: alive and not asleep.                             *)
Awake(p) == p \in used \ dead /\ p \notin Armed

(* do_fork calls get_pid ...                                               *)
GetPidCall == exiter = NULL /\ Call /\ UNCHANGED <<linkVars, timer_list>>

GetPidScan == Scan /\ UNCHANGED <<linkVars, timer_list>>

(* ... and puts the new process into the tables.                           *)
DoFork(p) ==
    /\ Awake(p)
    /\ SetLinks(p, last_pid)
    /\ Fork
    /\ UNCHANGED timer_list

DoExit(p) == Quiet /\ Awake(p) /\ ExitBegin(p) /\ UNCHANGED <<vars, timer_list>>

DoExitLoop == (ExitMove \/ ExitEnd) /\ UNCHANGED <<vars, timer_list>>

(* do_wait releases a dead child.                                          *)
DoWait(p, c) == Awake(p) /\ RemoveLinks(p, c) /\ Reap(c) /\ UNCHANGED timer_list

DoSleep(p, t) ==
    /\ Quiet /\ Awake(p)
    /\ Cardinality(Armed) < MaxArmed
    /\ AddTimer(p, t)
    /\ UNCHANGED <<vars, linkVars>>

(* A kill ends the sleep of p early, which then deletes its timer.         *)
SleepKilled(p) ==
    /\ Quiet
    /\ p \in Armed
    /\ DelTimer(p)
    /\ UNCHANGED <<vars, linkVars>>

Tick == Quiet /\ RunTimerList /\ UNCHANGED <<vars, linkVars>>

TableNext ==
    \/ GetPidCall \/ GetPidScan
    \/ \E p \in Proc : DoFork(p) \/ DoExit(p) \/ SleepKilled(p)
    \/ DoExitLoop
    \/ \E p \in Proc, c \in User : DoWait(p, c)
    \/ \E p \in Sleeper, t \in 1..MaxTicks : DoSleep(p, t)
    \/ Tick

(* get_pid runs to its end: interrupts are off.                            *)
TableSpec == TableInit /\ [][TableNext]_tableVars /\ WF_tableVars(GetPidScan)

=============================================================================
