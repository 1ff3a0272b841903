------------------------------- MODULE Monitor -------------------------------
(***************************************************************************)
(* The monitor of lab7/kern/sync/monitor.c: mutual exclusion and condition *)
(* variables in Hoare's style, built from semaphores.  Whoever signals     *)
(* hands the monitor to the thread it wakes and waits on `next' to get it  *)
(* back; whoever gives the monitor up, in cond_wait or at the end of a     *)
(* procedure, gives it to a signaller that waits on `next' if there is one *)
(* and else releases the mutex.                                            *)
(*                                                                         *)
(* One action runs from one semaphore operation to the next.  The first    *)
(* part are the operations, which PhilosophersMonitor also uses; the       *)
(* second is the most general program of monitor procedures.               *)
(***************************************************************************)
EXTENDS Semaphore

CONSTANTS Cond,     \* the condition variables; their semaphores
          Mutex,    \* mtp->mutex
          NextSem   \* mtp->next

ASSUME MonitorAssumption ==
    /\ Sem = Cond \cup {Mutex, NextSem}
    /\ Mutex # NextSem /\ {Mutex, NextSem} \cap Cond = {}

VARIABLES
    next_count,  \* mtp->next_count
    count,       \* cv->count
    pc,          \* where a thread stands, see below
    cv,          \* the condition of the cond_wait a thread is in
    ret          \* where it goes on after cond_signal or cond_wait

monVars == <<semVars, next_count, count, pc, cv, ret>>

(* Where a thread stands inside cond_signal and cond_wait.                 *)
MonitorPcs == {"signal_down", "signal_end", "wait_down", "wait_end"}

(* pcs are where the threads of the program that uses the monitor stand    *)
(* outside those.                                                          *)
MonitorTypeOK(pcs) ==
    /\ SemTypeOK
    /\ next_count \in Nat
    /\ count \in [Cond -> Nat]
    /\ pc \in [Thread -> pcs \cup MonitorPcs]
    /\ cv \in [Thread -> Cond \cup {NULL}]
    /\ ret \in [Thread -> pcs]

(* monitor_init; every thread starts at `start'.                           *)
MonitorInit(start) ==
    /\ SemInit([s \in Sem |-> IF s = Mutex THEN 1 ELSE 0])
    /\ next_count = 0
    /\ count = [c \in Cond |-> 0]
    /\ pc = [p \in Thread |-> start]
    /\ cv = [p \in Thread |-> NULL]
    /\ ret = [p \in Thread |-> start]

At(p, from) == Active(p) /\ pc[p] = from

(* p goes on at `to'; nothing of the monitor changes.                      *)
GoOn(p, to) ==
    /\ pc' = [pc EXCEPT ![p] = to]
    /\ UNCHANGED <<next_count, count, cv, ret>>

(* down(&mtp->mutex) at the start of a monitor procedure.                  *)
Enter(p, from, to) ==
    /\ At(p, from)
    /\ Down(p, Mutex)
    /\ GoOn(p, to)

(* Give the monitor to a waiting signaller or else release it.             *)
UpNextOrMutex == Up(IF next_count > 0 THEN NextSem ELSE Mutex)

(* The end of a monitor procedure.                                         *)
Leave(p, from, to) ==
    /\ At(p, from)
    /\ UpNextOrMutex
    /\ GoOn(p, to)

(* Mutant: the signaller does not count itself.                            *)
SignalUncounted(p, c, from, to) ==
    /\ At(p, from)
    /\ \/ /\ count[c] = 0
          /\ GoOn(p, to)
          /\ UNCHANGED semVars
       \/ /\ count[c] > 0
          /\ Up(c)
          /\ pc' = [pc EXCEPT ![p] = "signal_down"]
          /\ ret' = [ret EXCEPT ![p] = to]
          /\ UNCHANGED <<next_count, count, cv>>

(* cond_signal: nothing if nobody waits for c, else wake one and ...       *)
Signal(p, c, from, to) ==
    /\ At(p, from)
    /\ \/ /\ count[c] = 0
          /\ GoOn(p, to)
          /\ UNCHANGED semVars
       \/ /\ count[c] > 0
          /\ next_count' = next_count + 1
          /\ Up(c)
          /\ pc' = [pc EXCEPT ![p] = "signal_down"]
          /\ ret' = [ret EXCEPT ![p] = to]
          /\ UNCHANGED <<count, cv>>

SignalDownNot(p) ==   \* mutant: the signaller goes on
    At(p, "signal_down") /\ GoOn(p, "signal_end") /\ UNCHANGED semVars

(* ... wait on `next' for the monitor to come back ...                     *)
SignalDown(p) ==
    /\ At(p, "signal_down")
    /\ Down(p, NextSem)
    /\ GoOn(p, "signal_end")

(* ... and go on.                                                          *)
SignalEnd(p) ==
    /\ At(p, "signal_end")
    /\ next_count' = next_count - 1
    /\ pc' = [pc EXCEPT ![p] = ret[p]]
    /\ UNCHANGED <<semVars, count, cv, ret>>

(* Mutant: the waiter counts itself only when it is back.                  *)
WaitUncounted(p, c, from, to) ==
    /\ At(p, from)
    /\ UpNextOrMutex
    /\ pc' = [pc EXCEPT ![p] = "wait_down"]
    /\ cv' = [cv EXCEPT ![p] = c]
    /\ ret' = [ret EXCEPT ![p] = to]
    /\ UNCHANGED <<next_count, count>>

(* cond_wait: give the monitor up, wait for a signal, and go on.           *)
Wait(p, c, from, to) ==
    /\ At(p, from)
    /\ count' = [count EXCEPT ![c] = @ + 1]
    /\ UpNextOrMutex
    /\ pc' = [pc EXCEPT ![p] = "wait_down"]
    /\ cv' = [cv EXCEPT ![p] = c]
    /\ ret' = [ret EXCEPT ![p] = to]
    /\ UNCHANGED next_count

WaitDown(p) ==
    /\ At(p, "wait_down")
    /\ Down(p, cv[p])
    /\ GoOn(p, "wait_end")

WaitEnd(p) ==
    /\ At(p, "wait_end")
    /\ count' = [count EXCEPT ![cv[p]] = @ - 1]
    /\ pc' = [pc EXCEPT ![p] = ret[p]]
    /\ cv' = [cv EXCEPT ![p] = NULL]
    /\ UNCHANGED <<semVars, next_count, ret>>

(* The steps of a thread inside cond_signal, cond_wait or __down, and of   *)
(* the scheduler and the clock.                                            *)
MonitorStep ==
    \/ \E p \in Thread :
          SignalDown(p) \/ SignalEnd(p) \/ WaitDown(p) \/ WaitEnd(p)
    \/ /\ KernelStep
       /\ UNCHANGED <<next_count, count, pc, cv, ret>>

(* do_sleep.                                                               *)
Nap(p, from, to) == At(p, from) /\ Sleep(p) /\ GoOn(p, to)

-----------------------------------------------------------------------------
(* Any program whose threads use the monitor as check_sync.c does: enter,  *)
(* wait and signal inside, sleep inside or outside, leave.                 *)
MonInit == MonitorInit("out")

MonNext ==
    \/ \E p \in Thread :
          \/ Enter(p, "out", "in")
          \/ Leave(p, "in", "out")
          \/ \E c \in Cond : Wait(p, c, "in", "in") \/ Signal(p, c, "in", "in")
          \/ \E at \in {"out", "in"} : Nap(p, at, at)
    \/ MonitorStep

MonSpec == MonInit /\ [][MonNext]_monVars

-----------------------------------------------------------------------------

MonTypeOK == MonitorTypeOK({"out", "in"})

(* The threads that have the monitor: inside it, or just woken in it, and  *)
(* in no wait queue.                                                       *)
Inside == {"in", "signal_end", "wait_end"}
Holders(inside) == {p \in Thread : pc[p] \in inside /\ \A s \in Sem : p \notin Queued(s)}

(* There is one monitor and it is always somewhere: in the hands of one    *)
(* thread, or free with the mutex at 1.  It is neither lost (nobody could  *)
(* enter again) nor doubled (two threads inside) by any nesting of signals *)
(* and waits.                                                              *)
OneMonitor == value[Mutex] + Cardinality(Holders(Inside)) = 1

(* The semaphores implement a Hoare monitor: a signal hands the monitor    *)
(* straight to the thread that has waited longest, so what the signaller   *)
(* established holds when that thread goes on.                             *)
Standing(s, at) == SetToSeq({p \in Thread : pc[p] = at /\ (s = NextSem \/ cv[p] = s)})

Owner == IF value[Mutex] > 0 THEN NULL ELSE CHOOSE p \in Holders(Inside) : TRUE
Urgent == queue[NextSem] \o Standing(NextSem, "signal_down")
Awaiting == [c \in Cond |-> queue[c] \o Standing(c, "wait_down")]

Hoare == INSTANCE HoareMonitor WITH
    owner <- Owner, entrance <- queue[Mutex], urgent <- Urgent, waiters <- Awaiting

ImplementsHoare == Hoare!HoareSpec

=============================================================================
