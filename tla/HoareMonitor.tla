---------------------------- MODULE HoareMonitor -----------------------------
(***************************************************************************)
(* What a monitor with Hoare's condition variables promises.  Monitor      *)
(* implements it with semaphores.                                          *)
(***************************************************************************)
EXTENDS Sequences, SequencesExt

CONSTANTS Thread, Cond, NULL

VARIABLES
    owner,    \* the thread inside the monitor, or NULL
    entrance, \* the threads that wait to enter
    urgent,   \* the signallers that wait to get it back
    waiters   \* the threads that wait for each condition

hoareVars == <<owner, entrance, urgent, waiters>>

HoareInit ==
    /\ owner = NULL
    /\ entrance = <<>>
    /\ urgent = <<>>
    /\ waiters = [c \in Cond |-> <<>>]

Outside(p) ==
    /\ p # owner
    /\ \A q \in {entrance, urgent} \cup {waiters[c] : c \in Cond} : p \notin ToSet(q)

Acquire(p) ==
    /\ Outside(p)
    /\ \/ owner = NULL /\ owner' = p /\ UNCHANGED entrance
       \/ owner # NULL /\ entrance' = Append(entrance, p) /\ UNCHANGED owner
    /\ UNCHANGED <<urgent, waiters>>

(* A signaller gets the monitor back before anyone enters, and nobody      *)
(* enters before those who came earlier.                                   *)
GiveUp ==
    \/ /\ urgent # <<>>
       /\ owner' = Head(urgent) /\ urgent' = Tail(urgent)
       /\ UNCHANGED entrance
    \/ /\ urgent = <<>> /\ entrance # <<>>
       /\ owner' = Head(entrance) /\ entrance' = Tail(entrance)
       /\ UNCHANGED urgent
    \/ /\ urgent = <<>> /\ entrance = <<>>
       /\ owner' = NULL
       /\ UNCHANGED <<urgent, entrance>>

Exit == owner # NULL /\ GiveUp /\ UNCHANGED waiters

Await(c) ==
    /\ owner # NULL
    /\ waiters' = [waiters EXCEPT ![c] = Append(@, owner)]
    /\ GiveUp

(* The thread that has waited longest has the monitor next, in the state   *)
(* that the signaller leaves it in.                                        *)
Notify(c) ==
    /\ owner # NULL
    /\ waiters[c] # <<>>
    /\ owner' = Head(waiters[c])
    /\ waiters' = [waiters EXCEPT ![c] = Tail(@)]
    /\ urgent' = Append(urgent, owner)
    /\ UNCHANGED entrance

HoareNext ==
    \/ \E p \in Thread : Acquire(p)
    \/ Exit
    \/ \E c \in Cond : Await(c) \/ Notify(c)

HoareSpec == HoareInit /\ [][HoareNext]_hoareVars

=============================================================================
