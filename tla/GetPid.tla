------------------------------- MODULE GetPid --------------------------------
(***************************************************************************)
(* get_pid of lab7/kern/process/proc.c.  The static variables last_pid and *)
(* next_safe remember, between calls, a gap of the pids in use:            *)
(* last_pid+1 .. next_safe-1 are free, so most calls only increment        *)
(* last_pid.  When the gap is used up, the process list is scanned.        *)
(*                                                                         *)
(* do_fork calls get_pid with interrupts off.  Its scan takes one action   *)
(* per process; the order of proc_list is abstracted to any order.         *)
(***************************************************************************)
EXTENDS Integers, FiniteSets

CONSTANTS
    MAX_PID,     \* proc.h: pids are below MAX_PID
    MAX_PROCESS  \* proc.h: the most processes do_fork lets live

(* get_pid: static_assert(MAX_PID > MAX_PROCESS).                          *)
ASSUME PidAssumption ==
    /\ MAX_PID \in Nat /\ MAX_PROCESS \in Nat \ {0}
    /\ MAX_PID > MAX_PROCESS

VARIABLES
    pids,       \* the pids in proc_list; idle, pid 0, is not in it
    last_pid, next_safe,
    seen,       \* the pids the scan has passed
    pc          \* "out" of get_pid, in the "scan", about to "return"

vars == <<pids, last_pid, next_safe, seen, pc>>

Pid == 1..MAX_PID - 1

TypeOK ==
    /\ pids \subseteq Pid
    /\ last_pid \in 1..MAX_PID /\ next_safe \in 1..MAX_PID
    /\ seen \subseteq pids
    /\ pc \in {"out", "scan", "return"}

Init ==
    /\ pids = {} /\ seen = {}
    /\ last_pid = MAX_PID /\ next_safe = MAX_PID
    /\ pc = "out"

(* inside: forget the gap and scan the list from its start.                *)
Inside(pid) ==
    /\ last_pid' = pid
    /\ next_safe' = MAX_PID
    /\ seen' = {}
    /\ pc' = "scan"

(* do_fork below its limit on processes calls get_pid.                     *)
Call ==
    /\ pc = "out"
    /\ Cardinality(pids) < MAX_PROCESS
    /\ \/ /\ last_pid + 1 >= MAX_PID
          /\ Inside(1)
       \/ /\ last_pid + 1 < MAX_PID /\ last_pid + 1 >= next_safe
          /\ Inside(last_pid + 1)
       \/ /\ last_pid + 1 < MAX_PID /\ last_pid + 1 < next_safe
          /\ last_pid' = last_pid + 1
          /\ pc' = "return"
          /\ UNCHANGED <<next_safe, seen>>
    /\ UNCHANGED pids

(* The scan passes a process whose pid is not the candidate: a larger pid  *)
(* ends the gap.                                                           *)
ScanOther(pid) ==
    /\ pc = "scan"
    /\ pid \in pids \ seen /\ pid # last_pid
    /\ seen' = seen \cup {pid}
    /\ next_safe' = IF pid > last_pid /\ next_safe > pid THEN pid ELSE next_safe
    /\ UNCHANGED <<pids, last_pid, pc>>

(* Mutants: never starts again; tries the same candidate again.            *)
ScanTakenGoesOn ==
    /\ pc = "scan"
    /\ last_pid \in pids \ seen
    /\ last_pid' = IF last_pid + 1 >= MAX_PID THEN 1 ELSE last_pid + 1
    /\ seen' = seen \cup {last_pid}
    /\ UNCHANGED <<pids, next_safe, pc>>
ScanTakenSamePid ==
    /\ pc = "scan"
    /\ last_pid \in pids \ seen
    /\ Inside(last_pid)
    /\ UNCHANGED pids

(* The candidate is taken: the next one is tried, from the start of the    *)
(* list once the gap is used up.                                           *)
ScanTaken ==
    /\ pc = "scan"
    /\ last_pid \in pids \ seen
    /\ \/ /\ last_pid + 1 < next_safe
          /\ last_pid' = last_pid + 1
          /\ seen' = seen \cup {last_pid}
          /\ UNCHANGED <<next_safe, pc>>
       \/ /\ last_pid + 1 >= next_safe
          /\ Inside(IF last_pid + 1 >= MAX_PID THEN 1 ELSE last_pid + 1)
    /\ UNCHANGED pids

ScanEnd ==
    /\ pc = "scan"
    /\ seen = pids
    /\ pc' = "return"
    /\ seen' = {}
    /\ UNCHANGED <<pids, last_pid, next_safe>>

(* do_fork: proc->pid = get_pid(); hash_proc; set_links.                   *)
Fork ==
    /\ pc = "return"
    /\ pids' = pids \cup {last_pid}
    /\ pc' = "out"
    /\ UNCHANGED <<last_pid, next_safe, seen>>

(* do_wait: unhash_proc and remove_links.                                  *)
Reap(pid) ==
    /\ pc = "out"
    /\ pid \in pids
    /\ pids' = pids \ {pid}
    /\ UNCHANGED <<last_pid, next_safe, seen, pc>>

Scan == ScanTaken \/ ScanEnd \/ \E pid \in Pid : ScanOther(pid)

Next ==
    \/ Call
    \/ Scan
    \/ Fork
    \/ \E pid \in Pid : Reap(pid)

Spec == Init /\ [][Next]_vars

(* get_pid runs to its end: interrupts are off.                            *)
FairSpec == Spec /\ WF_vars(Scan)

-----------------------------------------------------------------------------

(* get_pid returns a pid that no process in the list has.                  *)
PidFresh == pc = "return" => last_pid \in Pid \ pids

(* Between calls no pid in use lies in the remembered gap, whatever has    *)
(* been released since; the scan keeps that of the pids it has passed.     *)
GapFree ==
    \A pid \in pids :
        (pc = "scan" => pid \in seen) => ~(last_pid < pid /\ pid < next_safe)

(* For the induction: during the scan the candidate is free as far as the  *)
(* scan has looked.                                                        *)
CandidateFree ==
    /\ pc = "scan" => last_pid \in Pid \ seen /\ last_pid < next_safe
    /\ pc # "scan" => seen = {}

IndInv ==
    /\ TypeOK
    /\ GapFree
    /\ PidFresh
    /\ CandidateFree

(* The scan, with its restarts, ends: there are more pids than processes.  *)
ScanEnds == pc = "scan" ~> pc = "return"

=============================================================================
