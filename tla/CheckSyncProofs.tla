--------------------------- MODULE CheckSyncProofs ---------------------------
(***************************************************************************)
(* Proofs about the monitor and about the dinners that check_sync serves.  *)
(***************************************************************************)
EXTENDS CheckSync, SemaphoreProofs

-----------------------------------------------------------------------------
(* The monitor: there is one, in every program that enters, waits, signals *)
(* and leaves as Monitor says, for any number of threads and conditions:   *)
(* this part uses MonitorAssumption, and nothing that is assumed about the *)
(* philosophers.  `in' are the places of such a program inside the monitor.*)

InsideOf(in) == in \cup {"signal_end", "wait_end"}

Signallers == {p \in Thread : pc[p] \in {"signal_down", "signal_end"}}
Waiters(c) == {p \in Thread : pc[p] \in {"wait_down", "wait_end"} /\ cv[p] = c}

(* What a thread is queued for shows where it goes on.                     *)
QueuePc(in) ==
    \A s \in Sem : \A p \in Queued(s) :
        /\ s = Mutex => pc[p] \in in
        /\ s = NextSem => pc[p] = "signal_end"
        /\ s \in Cond => pc[p] = "wait_end" /\ cv[p] = s

(* A thread goes from giving the monitor away to its own down without a    *)
(* switch.                                                                 *)
DownsNext == \A p \in Thread : pc[p] \in {"signal_down", "wait_down"} => Active(p)

(* The counts are those of the threads in cond_signal and cond_wait.       *)
CountsRight ==
    /\ next_count = Cardinality(Signallers)
    /\ count \in [Cond -> Nat]
    /\ \A c \in Cond : count[c] = Cardinality(Waiters(c))

(* The semaphores but the mutex hand permits over and never keep one.      *)
OnlyHandedOver == \A s \in Sem \ {Mutex} : value[s] = 0

OnePlace(in) ==
    \/ value[Mutex] = 1 /\ Holders(InsideOf(in)) = {}
    \/ value[Mutex] = 0 /\ \E h \in Thread : Holders(InsideOf(in)) = {h}

PcOK(in) ==
    /\ DOMAIN pc = Thread /\ DOMAIN ret = Thread
    /\ cv \in [Thread -> Cond \cup {NULL}]
    /\ \A p \in Thread : /\ pc[p] \in MonitorPcs => ret[p] \in in
                         /\ pc[p] \in {"wait_down", "wait_end"} => cv[p] \in Cond

MonInv(in) ==
    /\ IndInv
    /\ PcOK(in) /\ QueuePc(in) /\ DownsNext /\ CountsRight /\ OnlyHandedOver
    /\ OnePlace(in)

(* None of the places is one that cond_signal and cond_wait have.          *)
Places(in) == in \cap MonitorPcs = {}

-----------------------------------------------------------------------------
(* A thread that runs in a program's own place has the monitor if that is  *)
(* inside, and nobody is on its way to a down.                             *)
LEMMA Runner ==
  ASSUME NEW in, MonInv(in), NEW p \in Thread, Active(p)
  PROVE  /\ \A s \in Sem : p \notin Queued(s)
         /\ \A q \in Thread : q # p => pc[q] \notin {"signal_down", "wait_down"}
         /\ pc[p] \in InsideOf(in) => /\ Holders(InsideOf(in)) = {p}
                                      /\ value[Mutex] = 0
         /\ pc[p] \notin InsideOf(in) => p \notin Holders(InsideOf(in))
<1>1. IndInv /\ QueueExact /\ waiting[p] = NULL /\ current = p
  BY DEF MonInv, IndInv, Active, Runs
<1>2. \A s \in Sem : p \notin Queued(s)
  BY <1>1, ThreadAssumption DEF QueueExact
<1>3. \A q \in Thread : q # p => pc[q] \notin {"signal_down", "wait_down"}
  BY <1>1 DEF MonInv, DownsNext, Active, Runs
<1>4. pc[p] \in InsideOf(in) => p \in Holders(InsideOf(in))
  BY <1>2 DEF Holders
<1>5. pc[p] \in InsideOf(in) => Holders(InsideOf(in)) = {p} /\ value[Mutex] = 0
  BY <1>4 DEF MonInv, OnePlace
<1>6. pc[p] \notin InsideOf(in) => p \notin Holders(InsideOf(in))
  BY DEF Holders
<1> QED
  BY <1>2, <1>3, <1>5, <1>6

LEMMA CountSets ==
  /\ IsFiniteSet(Signallers) /\ \A c \in Cond : IsFiniteSet(Waiters(c))
  /\ IsFiniteSet(Signallers)' /\ \A c \in Cond : IsFiniteSet(Waiters(c))'
BY ThreadAssumption, FS_Subset DEF Signallers, Waiters

(* Whom the monitor is given to waits for it: next_count and count tell    *)
(* the runner that somebody is in the queue.                               *)
LEMMA Awaited ==
  ASSUME NEW in, Places(in), MonInv(in), NEW p \in Thread, Active(p), pc[p] \in in
  PROVE  /\ next_count > 0 => queue[NextSem] # <<>>
         /\ \A c \in Cond : count[c] > 0 => queue[c] # <<>>
<1>0. /\ \A q \in Thread : q # p => pc[q] \notin {"signal_down", "wait_down"}
      /\ Holders(InsideOf(in)) = {p}
      /\ pc[p] \notin MonitorPcs
  BY Runner DEF InsideOf, Places
<1>1. ASSUME NEW q \in Thread, pc[q] \in {"signal_end", "wait_end"}
      PROVE  \E s \in Sem : q \in Queued(s)
  <2>1. q # p
    BY <1>0, <1>1 DEF MonitorPcs
  <2> QED
    BY <1>0, <1>1, <2>1 DEF Holders, InsideOf
<1>2. ASSUME NEW s \in Sem, Queued(s) # {} PROVE queue[s] # <<>>
  BY <1>2 DEF Queued, ToSet
<1>3. ASSUME next_count > 0 PROVE queue[NextSem] # <<>>
  <2>1. Signallers # {}
    BY <1>3, FS_EmptySet DEF MonInv, CountsRight
  <2>2. PICK q \in Thread : pc[q] \in {"signal_down", "signal_end"}
    BY <2>1 DEF Signallers
  <2>3. pc[q] = "signal_end"
    BY <1>0, <2>2 DEF MonitorPcs
  <2>4. PICK s \in Sem : q \in Queued(s)
    BY <1>1, <2>3
  <2>5. s = NextSem
    BY <2>3, <2>4, MonitorAssumption DEF MonInv, QueuePc, Places, MonitorPcs
  <2> QED
    BY <1>2, <2>4, <2>5
<1>4. ASSUME NEW c \in Cond, count[c] > 0 PROVE queue[c] # <<>>
  <2>1. Waiters(c) # {}
    <3>1. count[c] = Cardinality(Waiters(c))
      BY DEF MonInv, CountsRight
    <3>2. Cardinality({}) = 0
      BY FS_EmptySet
    <3> QED
      BY <1>4, <3>1, <3>2
  <2>2. PICK q \in Thread : pc[q] \in {"wait_down", "wait_end"} /\ cv[q] = c
    BY <2>1 DEF Waiters
  <2>3. pc[q] = "wait_end"
    BY <1>0, <2>2 DEF MonitorPcs
  <2>4. PICK s \in Sem : q \in Queued(s)
    BY <1>1, <2>3
  <2>5. s = c
    BY <2>2, <2>3, <2>4, MonitorAssumption DEF MonInv, QueuePc, Places, MonitorPcs
  <2> QED
    BY <1>2, <2>4, <2>5
<1> QED
  BY <1>3, <1>4

-----------------------------------------------------------------------------
(* Where the monitor is after a step of p, which goes on at `to'.          *)

(* p gives the monitor to the head of a queue, or frees it.                *)
LEMMA HandOver ==
  ASSUME NEW in, Places(in), MonInv(in), NEW p \in Thread, Active(p), pc[p] \in in,
         NEW s \in Sem, Up(s), s = Mutex \/ queue[s] # <<>>,
         NEW to, to \notin InsideOf(in),
         pc' = [pc EXCEPT ![p] = to],
         \A q \in Thread : q # p => cv'[q] = cv[q]
  PROVE  OnePlace(in)' /\ QueuePc(in)' /\ OnlyHandedOver'
<1>0. /\ IndInv /\ PcOK(in) /\ QueuePc(in) /\ OnlyHandedOver
      /\ \A t \in Sem : p \notin Queued(t)
      /\ Holders(InsideOf(in)) = {p} /\ value[Mutex] = 0
      /\ \A q \in Thread : q # p => pc'[q] = pc[q]
      /\ pc'[p] = to
      /\ Mutex \in Sem /\ value \in [Sem -> Nat]
      /\ \A t \in Sem : Queued(t) \subseteq Thread
  <2>1. \A t \in Sem : Queued(t) \subseteq Thread
    BY DEF MonInv, IndInv, TypeOK, SemTypeOK, Queued, ToSet
  <2> QED
    BY Runner, MonitorAssumption, <2>1
       DEF MonInv, InsideOf, PcOK, IndInv, TypeOK, SemTypeOK
<1>1. CASE queue[s] = <<>>
  <2>1. /\ s = Mutex /\ value' = [value EXCEPT ![s] = @ + 1]
        /\ \A t \in Sem : Queued(t)' = Queued(t)
    BY <1>0, <1>1, UpQueues
  <2>2. Holders(InsideOf(in))' = {}
    <3> SUFFICES ASSUME NEW q \in Holders(InsideOf(in))' PROVE FALSE
      OBVIOUS
    <3>1. q \in Thread /\ pc'[q] \in InsideOf(in) /\ \A t \in Sem : q \notin Queued(t)
      BY <2>1 DEF Holders, InsideOf
    <3>2. q # p /\ pc[q] \in InsideOf(in)
      BY <1>0, <3>1
    <3>3. q \in Holders(InsideOf(in))
      BY <3>1, <3>2 DEF Holders
    <3> QED
      BY <1>0, <3>2, <3>3
  <2>3. value'[Mutex] = 1
    BY <1>0, <2>1
  <2>4. QueuePc(in)'
    BY <1>0, <2>1 DEF QueuePc
  <2>5. OnlyHandedOver'
    BY <1>0, <2>1 DEF OnlyHandedOver
  <2> QED
    BY <2>2, <2>3, <2>4, <2>5 DEF OnePlace
<1>2. CASE queue[s] # <<>>
  <2>1. value' = value
    BY <1>0, <1>2, UpQueues
  <2>2. PICK h \in Queued(s) :
           /\ h \in Thread
           /\ \A t \in Sem : Queued(t)' = IF t = s THEN Queued(s) \ {h} ELSE Queued(t)
           /\ \A t \in Sem : h \notin Queued(t)'
    BY <1>0, <1>2, UpQueues
  <2>3. h # p
    BY <1>0
  <2>4. pc'[h] \in InsideOf(in)
    BY <1>0, <2>2, <2>3, MonitorAssumption DEF QueuePc, InsideOf
  <2>5. h \in Holders(InsideOf(in))'
    BY <2>2, <2>4 DEF Holders
  <2>6. ASSUME NEW q \in Thread, q \in Holders(InsideOf(in))', q # h PROVE FALSE
    <3>1. q # p /\ pc[q] \in InsideOf(in)
      BY <1>0, <2>6 DEF Holders
    <3>2. \A t \in Sem : q \notin Queued(t)
      BY <2>2, <2>6 DEF Holders
    <3>3. q \in Holders(InsideOf(in))
      BY <3>1, <3>2 DEF Holders
    <3> QED
      BY <1>0, <3>1, <3>3
  <2>7. Holders(InsideOf(in))' = {h}
    BY <2>5, <2>6 DEF Holders
  <2>8. QueuePc(in)'
    <3>1. \A t \in Sem : Queued(t)' \subseteq Queued(t)
      BY <2>2
    <3> QED
      BY <1>0, <3>1 DEF QueuePc
  <2>9. OnlyHandedOver' /\ value'[Mutex] = 0
    BY <1>0, <2>1 DEF OnlyHandedOver
  <2> QED
    BY <2>2, <2>7, <2>8, <2>9 DEF OnePlace
<1> QED
  BY <1>1, <1>2

(* p, from outside, takes the monitor or waits for it.                     *)
LEMMA TakeOrWait ==
  ASSUME NEW in, Places(in), MonInv(in), NEW p \in Thread, Active(p),
         pc[p] \notin InsideOf(in),
         NEW s \in Sem, Down(p, s), NEW to, to \in InsideOf(in),
         s = Mutex => to \in in,
         s = NextSem => to = "signal_end",
         s \in Cond => to = "wait_end" /\ cv[p] = s,
         pc' = [pc EXCEPT ![p] = to], UNCHANGED cv
  PROVE  OnePlace(in)' /\ QueuePc(in)' /\ OnlyHandedOver'
<1>0. /\ IndInv /\ PcOK(in) /\ QueuePc(in) /\ OnlyHandedOver /\ OnePlace(in)
      /\ \A t \in Sem : p \notin Queued(t)
      /\ p \notin Holders(InsideOf(in))
      /\ \A q \in Thread : q # p => pc'[q] = pc[q]
      /\ pc'[p] = to
      /\ Mutex \in Sem /\ value \in [Sem -> Nat]
      /\ \A t \in Sem : Queued(t) \subseteq Thread
  <2>1. \A t \in Sem : Queued(t) \subseteq Thread
    BY DEF MonInv, IndInv, TypeOK, SemTypeOK, Queued, ToSet
  <2> QED
    BY Runner, MonitorAssumption, <2>1
       DEF MonInv, PcOK, IndInv, TypeOK, SemTypeOK
<1>1. CASE value[s] > 0
  <2>1. /\ s = Mutex /\ value[Mutex] = 1 /\ Holders(InsideOf(in)) = {}
        /\ value' = [value EXCEPT ![s] = @ - 1]
        /\ \A t \in Sem : Queued(t)' = Queued(t)
    BY <1>0, <1>1, DownQueues DEF OnlyHandedOver, OnePlace
  <2>2. Holders(InsideOf(in))' = {p}
    BY <1>0, <2>1 DEF Holders
  <2>3. value'[Mutex] = 0 /\ OnlyHandedOver'
    BY <1>0, <2>1 DEF OnlyHandedOver
  <2>4. QueuePc(in)'
    BY <1>0, <2>1 DEF QueuePc
  <2> QED
    BY <2>2, <2>3, <2>4 DEF OnePlace
<1>2. CASE ~(value[s] > 0)
  <2>1. /\ value' = value
        /\ \A t \in Sem : Queued(t)' = IF t = s THEN Queued(s) \cup {p} ELSE Queued(t)
    BY <1>0, <1>2, DownQueues
  <2>2. Holders(InsideOf(in))' = Holders(InsideOf(in))
    BY <1>0, <2>1 DEF Holders
  <2>3. QueuePc(in)'
    <3> SUFFICES ASSUME NEW t \in Sem, NEW q \in Queued(t)'
                 PROVE  /\ t = Mutex => pc'[q] \in in
                        /\ t = NextSem => pc'[q] = "signal_end"
                        /\ t \in Cond => pc'[q] = "wait_end" /\ cv'[q] = t
      BY DEF QueuePc
    <3>1. CASE q = p
      <4>1. t = s
        BY <1>0, <2>1, <3>1
      <4> QED
        BY <1>0, <3>1, <4>1
    <3>2. CASE q # p
      <4>1. q \in Queued(t)
        BY <2>1, <3>2
      <4> QED
        BY <1>0, <3>2, <4>1 DEF QueuePc
    <3> QED
      BY <3>1, <3>2
  <2>4. OnlyHandedOver'
    BY <1>0, <2>1 DEF OnlyHandedOver
  <2>5. OnePlace(in)'
    BY <1>0, <2>1, <2>2 DEF OnePlace
  <2> QED
    BY <2>3, <2>4, <2>5
<1> QED
  BY <1>1, <1>2

(* p stays inside, or stays outside.                                       *)
LEMMA StaysPut ==
  ASSUME NEW in, Places(in), MonInv(in), NEW p \in Thread, Active(p),
         UNCHANGED <<value, queue>>,
         NEW to, to \in InsideOf(in) <=> pc[p] \in InsideOf(in),
         pc' = [pc EXCEPT ![p] = to],
         \A q \in Thread : q # p => cv'[q] = cv[q]
  PROVE  OnePlace(in)' /\ QueuePc(in)' /\ OnlyHandedOver'
<1>0. /\ PcOK(in) /\ QueuePc(in) /\ OnlyHandedOver /\ OnePlace(in)
      /\ \A t \in Sem : p \notin Queued(t)
      /\ \A q \in Thread : q # p => pc'[q] = pc[q]
      /\ pc'[p] = to
      /\ \A t \in Sem : Queued(t) \subseteq Thread
      /\ \A t \in Sem : Queued(t)' = Queued(t)
  <2>1. \A t \in Sem : Queued(t) \subseteq Thread
    BY DEF MonInv, IndInv, TypeOK, SemTypeOK, Queued, ToSet
  <2> QED
    BY Runner, <2>1 DEF MonInv, PcOK, Queued
<1>1. Holders(InsideOf(in))' = Holders(InsideOf(in))
  BY <1>0 DEF Holders
<1>2. OnePlace(in)'
  BY <1>0, <1>1 DEF OnePlace
<1>3. QueuePc(in)'
  BY <1>0 DEF QueuePc
<1>4. OnlyHandedOver'
  BY <1>0 DEF OnlyHandedOver
<1> QED
  BY <1>2, <1>3, <1>4

-----------------------------------------------------------------------------
(* One lemma for each operation of the monitor.                            *)

(* A step that neither begins, continues nor ends a signal or a wait.      *)
LEMMA Plain ==
  ASSUME NEW in, MonInv(in), NEW p \in Thread, Active(p),
         NEW to, pc[p] \notin MonitorPcs, to \notin MonitorPcs,
         pc' = [pc EXCEPT ![p] = to],
         UNCHANGED <<next_count, count, cv, ret>>
  PROVE  PcOK(in)' /\ DownsNext' /\ CountsRight'
<1>0. /\ PcOK(in) /\ CountsRight
      /\ \A q \in Thread : q # p => pc[q] \notin {"signal_down", "wait_down"}
      /\ \A q \in Thread : q # p => pc'[q] = pc[q]
      /\ pc'[p] = to
  BY Runner DEF MonInv, PcOK
<1>1. PcOK(in)'
  BY <1>0 DEF PcOK, MonitorPcs
<1>2. DownsNext'
  BY <1>0 DEF DownsNext, MonitorPcs
<1>3. Signallers' = Signallers /\ \A c \in Cond : Waiters(c)' = Waiters(c)
  BY <1>0 DEF Signallers, Waiters, MonitorPcs
<1>4. CountsRight'
  BY <1>0, <1>3 DEF CountsRight
<1> QED
  BY <1>1, <1>2, <1>4

LEMMA EnterInv ==
  ASSUME NEW in, Places(in), MonInv(in), NEW p \in Thread,
         NEW from, NEW to \in in,
         from \notin InsideOf(in) \cup MonitorPcs, Enter(p, from, to)
  PROVE  MonInv(in)'
<1>1. /\ Active(p) /\ pc[p] = from /\ Down(p, Mutex) /\ Mutex \in Sem
      /\ pc' = [pc EXCEPT ![p] = to]
      /\ UNCHANGED <<next_count, count, cv, ret>>
      /\ to \in InsideOf(in) /\ to \notin MonitorPcs
      /\ Mutex # NextSem /\ Mutex \notin Cond
  BY MonitorAssumption DEF Enter, At, GoOn, Places, InsideOf
<1>2. IndInv'
  BY <1>1, DownInv DEF MonInv
<1>3. PcOK(in)' /\ DownsNext' /\ CountsRight'
  BY <1>1, Plain
<1>4. OnePlace(in)' /\ QueuePc(in)' /\ OnlyHandedOver'
  BY <1>1, TakeOrWait
<1> QED
  BY <1>2, <1>3, <1>4 DEF MonInv

(* Giving the monitor up, in cond_wait or at the end of a procedure.       *)
LEMMA GiveUpInv ==
  ASSUME NEW in, Places(in), MonInv(in), NEW p \in Thread, Active(p), pc[p] \in in,
         UpNextOrMutex, NEW to, to \notin InsideOf(in),
         pc' = [pc EXCEPT ![p] = to],
         \A q \in Thread : q # p => cv'[q] = cv[q]
  PROVE  /\ IndInv' /\ OnePlace(in)' /\ QueuePc(in)' /\ OnlyHandedOver'
         /\ Active(p)'
<1> DEFINE s == IF next_count > 0 THEN NextSem ELSE Mutex
<1>1. s \in Sem /\ Up(s)
  BY MonitorAssumption DEF UpNextOrMutex
<1>2. s = Mutex \/ queue[s] # <<>>
  BY Awaited
<1>3. IndInv'
  BY <1>1, UpInv DEF MonInv
<1>4. Active(p)'
  BY <1>1 DEF Up, Active, Runs
<1> HIDE DEF s
<1>5. OnePlace(in)' /\ QueuePc(in)' /\ OnlyHandedOver'
  BY <1>1, <1>2, HandOver
<1> QED
  BY <1>3, <1>4, <1>5

LEMMA LeaveInv ==
  ASSUME NEW in, Places(in), MonInv(in), NEW p \in Thread,
         NEW from \in in, NEW to,
         to \notin InsideOf(in) \cup MonitorPcs, Leave(p, from, to)
  PROVE  MonInv(in)'
<1>1. /\ Active(p) /\ pc[p] \in in /\ pc[p] \notin MonitorPcs /\ UpNextOrMutex
      /\ pc' = [pc EXCEPT ![p] = to]
      /\ UNCHANGED <<next_count, count, cv, ret>>
  BY DEF Leave, At, GoOn, Places
<1>2. PcOK(in)' /\ DownsNext' /\ CountsRight'
  BY <1>1, Plain
<1>3. IndInv' /\ OnePlace(in)' /\ QueuePc(in)' /\ OnlyHandedOver'
  BY <1>1, GiveUpInv
<1> QED
  BY <1>2, <1>3 DEF MonInv

LEMMA NapInv ==
  ASSUME NEW in, Places(in), MonInv(in), NEW p \in Thread,
         NEW from, NEW to,
         from \notin MonitorPcs, to \notin MonitorPcs,
         from \in in <=> to \in in, Nap(p, from, to)
  PROVE  MonInv(in)'
<1>1. /\ Active(p) /\ pc[p] = from /\ Sleep(p)
      /\ pc' = [pc EXCEPT ![p] = to]
      /\ UNCHANGED <<next_count, count, cv, ret>>
      /\ UNCHANGED <<value, queue>>
      /\ to \in InsideOf(in) <=> pc[p] \in InsideOf(in)
  BY DEF Nap, At, GoOn, Sleep, InsideOf, MonitorPcs
<1>2. IndInv'
  <2>1. IndInv /\ SemTypeOK /\ waiting[p] = NULL
    BY <1>1 DEF MonInv, IndInv, TypeOK, Active
  <2> QED
    BY <1>1, <2>1, OtherInv DEF Sleep, SemTypeOK, WaitStates
<1>3. PcOK(in)' /\ DownsNext' /\ CountsRight'
  BY <1>1, Plain
<1>4. OnePlace(in)' /\ QueuePc(in)' /\ OnlyHandedOver'
  BY <1>1, StaysPut
<1> QED
  BY <1>2, <1>3, <1>4 DEF MonInv

LEMMA WaitInv ==
  ASSUME NEW in, Places(in), MonInv(in), NEW p \in Thread, NEW c \in Cond,
         NEW from \in in, NEW to \in in, Wait(p, c, from, to)
  PROVE  MonInv(in)'
<1>1. /\ Active(p) /\ pc[p] \in in /\ pc[p] \notin MonitorPcs /\ UpNextOrMutex
      /\ pc' = [pc EXCEPT ![p] = "wait_down"]
      /\ cv' = [cv EXCEPT ![p] = c]
      /\ ret' = [ret EXCEPT ![p] = to]
      /\ count' = [count EXCEPT ![c] = @ + 1]
      /\ next_count' = next_count
      /\ "wait_down" \notin InsideOf(in)
  BY DEF Wait, At, Places, InsideOf, MonitorPcs
<1>2. /\ PcOK(in) /\ CountsRight
      /\ \A q \in Thread : q # p => pc[q] \notin {"signal_down", "wait_down"}
  BY <1>1, Runner DEF MonInv
<1>3. /\ \A q \in Thread : q # p => pc'[q] = pc[q] /\ cv'[q] = cv[q] /\ ret'[q] = ret[q]
      /\ pc'[p] = "wait_down" /\ cv'[p] = c /\ ret'[p] = to
  BY <1>1, <1>2 DEF PcOK
<1>4. IndInv' /\ OnePlace(in)' /\ QueuePc(in)' /\ OnlyHandedOver' /\ Active(p)'
  BY <1>1, <1>3, GiveUpInv
<1>5. PcOK(in)'
  BY <1>1, <1>2, <1>3 DEF PcOK
<1>6. DownsNext'
  BY <1>2, <1>3, <1>4 DEF DownsNext
<1>7. CountsRight'
  <2>1. Signallers' = Signallers
    BY <1>1, <1>3 DEF Signallers, MonitorPcs
  <2>2. /\ p \notin Waiters(c) /\ Waiters(c)' = Waiters(c) \cup {p}
        /\ \A d \in Cond \ {c} : Waiters(d)' = Waiters(d)
    BY <1>1, <1>3 DEF Waiters, MonitorPcs
  <2>3. Cardinality(Waiters(c)') = Cardinality(Waiters(c)) + 1
    BY <2>2, CountSets, FS_AddElement
  <2> QED
    BY <1>1, <1>2, <2>1, <2>2, <2>3 DEF CountsRight
<1> QED
  BY <1>4, <1>5, <1>6, <1>7 DEF MonInv

(* Going on inside the monitor without a semaphore operation.              *)
LEMMA GoOnInv ==
  ASSUME NEW in, Places(in), MonInv(in), NEW p \in Thread,
         NEW from \in in, NEW to \in in,
         At(p, from), GoOn(p, to), UNCHANGED semVars
  PROVE  MonInv(in)'
<1>1. /\ Active(p) /\ pc[p] \notin MonitorPcs /\ to \notin MonitorPcs
      /\ to \in InsideOf(in) /\ pc[p] \in InsideOf(in)
      /\ pc' = [pc EXCEPT ![p] = to]
      /\ UNCHANGED <<next_count, count, cv, ret>>
      /\ UNCHANGED <<current, resched, wait_state, value, queue, waiting, wakeup_flags>>
  BY DEF At, GoOn, semVars, Places, InsideOf
<1>2. IndInv'
  BY <1>1 DEF MonInv, IndInv, TypeOK, SemTypeOK, QueueExact, Queued, DownGranted,
              NobodyWaitsInVain, CpuInv
<1>3. PcOK(in)' /\ DownsNext' /\ CountsRight'
  BY <1>1, Plain
<1>4. OnePlace(in)' /\ QueuePc(in)' /\ OnlyHandedOver'
  BY <1>1, StaysPut
<1> QED
  BY <1>2, <1>3, <1>4 DEF MonInv

LEMMA StutterInv ==
  ASSUME NEW in, MonInv(in), UNCHANGED monVars
  PROVE  MonInv(in)'
<1>1. UNCHANGED <<current, resched, wait_state, value, queue, waiting, wakeup_flags,
                  next_count, count, pc, cv, ret>>
  BY DEF monVars, semVars
<1>2. IndInv'
  BY <1>1 DEF MonInv, IndInv, TypeOK, SemTypeOK, QueueExact, Queued, DownGranted,
              NobodyWaitsInVain, CpuInv
<1>3. Holders(InsideOf(in))' = Holders(InsideOf(in)) /\ \A s \in Sem : Queued(s)' = Queued(s)
  BY <1>1 DEF Holders, InsideOf, Queued
<1>4. OnePlace(in)' /\ QueuePc(in)' /\ OnlyHandedOver'
  BY <1>1, <1>3 DEF MonInv, OnePlace, QueuePc, OnlyHandedOver
<1>5. Signallers' = Signallers /\ \A c \in Cond : Waiters(c)' = Waiters(c)
  BY <1>1 DEF Signallers, Waiters
<1>6. PcOK(in)' /\ DownsNext' /\ CountsRight'
  BY <1>1, <1>5 DEF MonInv, PcOK, DownsNext, Active, Runs, CountsRight
<1> QED
  BY <1>2, <1>4, <1>6 DEF MonInv

LEMMA SignalInv ==
  ASSUME NEW in, Places(in), MonInv(in), NEW p \in Thread, NEW c \in Cond,
         NEW from \in in, NEW to \in in, Signal(p, c, from, to)
  PROVE  MonInv(in)'
<1>1. /\ Active(p) /\ pc[p] \in in /\ pc[p] \notin MonitorPcs
      /\ to \notin MonitorPcs
      /\ to \in InsideOf(in) /\ pc[p] \in InsideOf(in) /\ c \in Sem
      /\ "signal_down" \notin InsideOf(in)
  BY MonitorAssumption DEF Signal, At, Places, InsideOf, MonitorPcs
<1>2. /\ IndInv /\ PcOK(in) /\ CountsRight
      /\ \A q \in Thread : q # p => pc[q] \notin {"signal_down", "wait_down"}
  BY <1>1, Runner DEF MonInv
<1>3. CASE At(p, from) /\ GoOn(p, to) /\ UNCHANGED semVars
  BY <1>3, GoOnInv
<1>4. CASE /\ count[c] > 0 /\ next_count' = next_count + 1 /\ Up(c)
           /\ pc' = [pc EXCEPT ![p] = "signal_down"]
           /\ ret' = [ret EXCEPT ![p] = to]
           /\ UNCHANGED <<count, cv>>
  <2>1. /\ \A q \in Thread : q # p => pc'[q] = pc[q] /\ ret'[q] = ret[q]
        /\ pc'[p] = "signal_down" /\ ret'[p] = to
    BY <1>2, <1>4 DEF PcOK
  <2>2. queue[c] # <<>>
    BY <1>1, <1>4, Awaited
  <2>3. IndInv' /\ Active(p)'
    BY <1>1, <1>2, <1>4, UpInv DEF Up, Active, Runs
  <2>4. OnePlace(in)' /\ QueuePc(in)' /\ OnlyHandedOver'
    BY <1>1, <1>4, <2>2, HandOver
  <2>5. PcOK(in)'
    BY <1>1, <1>2, <1>4, <2>1 DEF PcOK
  <2>6. DownsNext'
    BY <1>2, <2>1, <2>3 DEF DownsNext
  <2>7. CountsRight'
    <3>1. p \notin Signallers /\ Signallers' = Signallers \cup {p}
      BY <1>1, <2>1 DEF Signallers, MonitorPcs
    <3>2. \A d \in Cond : Waiters(d)' = Waiters(d)
      BY <1>1, <1>4, <2>1 DEF Waiters, MonitorPcs
    <3>3. Cardinality(Signallers') = Cardinality(Signallers) + 1
      BY <3>1, CountSets, FS_AddElement
    <3> QED
      BY <1>2, <1>4, <3>2, <3>3 DEF CountsRight
  <2> QED
    BY <2>3, <2>4, <2>5, <2>6, <2>7 DEF MonInv
<1> QED
  BY <1>3, <1>4 DEF Signal, At

(* The signaller and the waiter go to sleep in their own queue.            *)
LEMMA DownsInv ==
  ASSUME NEW in, Places(in), MonInv(in), NEW p \in Thread,
         SignalDown(p) \/ WaitDown(p)
  PROVE  MonInv(in)'
<1>0. /\ IndInv /\ PcOK(in) /\ CountsRight
  BY DEF MonInv
<1>1. PICK s \in Sem, to \in {"signal_end", "wait_end"} :
         /\ Active(p) /\ Down(p, s)
         /\ pc' = [pc EXCEPT ![p] = to]
         /\ UNCHANGED <<next_count, count, cv, ret>>
         /\ \/ pc[p] = "signal_down" /\ to = "signal_end" /\ s = NextSem
            \/ pc[p] = "wait_down" /\ to = "wait_end" /\ s = cv[p] /\ s \in Cond
  <2>1. NextSem \in Sem /\ \A c \in Cond : c \in Sem
    BY MonitorAssumption
  <2>2. CASE SignalDown(p)
    <3>1. /\ Active(p) /\ Down(p, NextSem)
          /\ pc' = [pc EXCEPT ![p] = "signal_end"]
          /\ UNCHANGED <<next_count, count, cv, ret>>
          /\ pc[p] = "signal_down"
      BY <2>2 DEF SignalDown, At, GoOn
    <3> QED
      BY <2>1, <3>1
  <2>3. CASE WaitDown(p)
    BY <1>0, <2>1, <2>3 DEF WaitDown, At, GoOn, PcOK
  <2> QED
    BY <2>2, <2>3
<1>2. /\ pc[p] \notin InsideOf(in) /\ to \in InsideOf(in)
      /\ s # Mutex
      /\ s = NextSem => to = "signal_end"
      /\ s \in Cond => to = "wait_end" /\ cv[p] = s
  BY <1>1, MonitorAssumption DEF InsideOf, Places, MonitorPcs
<1>3. /\ \A q \in Thread : q # p => pc'[q] = pc[q] /\ pc[q] \notin {"signal_down", "wait_down"}
      /\ pc'[p] = to
  BY <1>0, <1>1, Runner DEF PcOK
<1>4. IndInv'
  BY <1>0, <1>1, DownInv
<1>5. OnePlace(in)' /\ QueuePc(in)' /\ OnlyHandedOver'
  BY <1>1, <1>2, TakeOrWait
<1>6. PcOK(in)'
  BY <1>0, <1>1, <1>2, <1>3 DEF PcOK, MonitorPcs
<1>7. DownsNext'
  BY <1>1, <1>3 DEF DownsNext
<1>8. Signallers' = Signallers /\ \A c \in Cond : Waiters(c)' = Waiters(c)
  BY <1>1, <1>3 DEF Signallers, Waiters
<1>9. CountsRight'
  BY <1>0, <1>1, <1>8 DEF CountsRight
<1> QED
  BY <1>4, <1>5, <1>6, <1>7, <1>9 DEF MonInv

(* They come back with the monitor and go on in the program.               *)
LEMMA EndsInv ==
  ASSUME NEW in, Places(in), MonInv(in), NEW p \in Thread,
         SignalEnd(p) \/ WaitEnd(p)
  PROVE  MonInv(in)'
<1>0. /\ IndInv /\ PcOK(in) /\ CountsRight
  BY DEF MonInv
<1>1. /\ Active(p) /\ pc[p] \in {"signal_end", "wait_end"}
      /\ pc' = [pc EXCEPT ![p] = ret[p]]
      /\ ret[p] \in in /\ ret[p] \notin MonitorPcs
      /\ ret' = ret
      /\ UNCHANGED <<current, resched, wait_state, value, queue, waiting, wakeup_flags>>
      /\ \A q \in Thread : q # p => cv'[q] = cv[q]
      /\ cv' \in [Thread -> Cond \cup {NULL}]
  <2>1. pc[p] \in {"signal_end", "wait_end"}
    BY DEF SignalEnd, WaitEnd, At
  <2>2. ret[p] \in in /\ ret[p] \notin MonitorPcs
    BY <1>0, <2>1 DEF PcOK, MonitorPcs, Places
  <2> QED
    BY <1>0, <2>1, <2>2 DEF SignalEnd, WaitEnd, At, semVars, PcOK
<1>2. /\ \A q \in Thread : q # p => pc'[q] = pc[q] /\ pc[q] \notin {"signal_down", "wait_down"}
      /\ pc'[p] = ret[p]
  BY <1>0, <1>1, Runner DEF PcOK
<1>3. IndInv'
  BY <1>0, <1>1 DEF IndInv, TypeOK, SemTypeOK, QueueExact, Queued, DownGranted,
                    NobodyWaitsInVain, CpuInv
<1>4. OnePlace(in)' /\ QueuePc(in)' /\ OnlyHandedOver'
  <2>1. ret[p] \in InsideOf(in) /\ pc[p] \in InsideOf(in)
    BY <1>1 DEF InsideOf
  <2> QED
    BY <1>1, <2>1, StaysPut
<1>5. PcOK(in)'
  BY <1>0, <1>1, <1>2 DEF PcOK, MonitorPcs
<1>6. DownsNext'
  BY <1>1, <1>2 DEF DownsNext, MonitorPcs
<1>7. CountsRight'
  <2>1. CASE SignalEnd(p)
    <3>1. pc[p] = "signal_end" /\ next_count' = next_count - 1 /\ UNCHANGED <<count, cv>>
      BY <2>1 DEF SignalEnd, At
    <3>2. p \in Signallers /\ Signallers' = Signallers \ {p}
      BY <1>1, <1>2, <3>1 DEF Signallers, MonitorPcs
    <3>3. \A d \in Cond : Waiters(d)' = Waiters(d)
      BY <1>1, <1>2, <3>1 DEF Waiters, MonitorPcs
    <3>4. Cardinality(Signallers') = Cardinality(Signallers) - 1
      BY <3>2, CountSets, FS_RemoveElement
    <3> QED
      BY <1>0, <3>1, <3>3, <3>4 DEF CountsRight
  <2>2. CASE WaitEnd(p)
    <3>0. PICK c \in Cond : c = cv[p]
      BY <1>0, <2>2 DEF WaitEnd, At, PcOK
    <3>1. /\ pc[p] = "wait_end"
          /\ count' = [count EXCEPT ![c] = @ - 1] /\ next_count' = next_count
      BY <2>2, <3>0 DEF WaitEnd, At
    <3>2. Signallers' = Signallers
      BY <1>1, <1>2, <3>1 DEF Signallers, MonitorPcs
    <3>3. /\ p \in Waiters(c) /\ Waiters(c)' = Waiters(c) \ {p}
          /\ \A d \in Cond : d # c => Waiters(d)' = Waiters(d)
      <4>1. pc'[p] \notin {"wait_down", "wait_end"} /\ cv[p] = c
        BY <1>1, <1>2, <3>0 DEF MonitorPcs
      <4>2. /\ \A q \in Thread : q # p => pc'[q] = pc[q] /\ cv'[q] = cv[q]
            /\ pc[p] = "wait_end"
        BY <1>1, <1>2, <3>1
      <4>3. p \in Waiters(c) /\ Waiters(c)' = Waiters(c) \ {p}
        BY <4>1, <4>2 DEF Waiters
      <4>4. ASSUME NEW d \in Cond, d # c PROVE Waiters(d)' = Waiters(d)
        BY <4>1, <4>2, <4>4 DEF Waiters
      <4> QED
        BY <4>3, <4>4
    <3>4. /\ Cardinality(Waiters(c)') = Cardinality(Waiters(c)) - 1
          /\ Cardinality(Waiters(c)) - 1 \in Nat
      <4>1. IsFiniteSet(Waiters(c)) /\ IsFiniteSet(Waiters(c)')
        BY <3>1, <3>3, CountSets, FS_Subset
      <4>2. Cardinality(Waiters(c)') \in Nat
        BY <4>1, FS_CardinalityType
      <4>3. Cardinality(Waiters(c) \ {p}) = Cardinality(Waiters(c)) - 1
        BY <3>3, <4>1, FS_RemoveElement
      <4> QED
        BY <3>3, <4>2, <4>3
    <3>5. ASSUME NEW d \in Cond PROVE count'[d] = Cardinality(Waiters(d)')
      <4>1. count[d] = Cardinality(Waiters(d)) /\ count \in [Cond -> Nat]
        BY <1>0 DEF CountsRight
      <4>2. CASE d = c
        BY <3>1, <3>4, <4>1, <4>2
      <4>3. CASE d # c
        <5>1. Waiters(d)' = Waiters(d) /\ count'[d] = count[d]
          BY <3>1, <3>3, <4>1, <4>3
        <5> QED
          BY <4>1, <5>1
      <4> QED
        BY <4>2, <4>3
    <3>6. count' \in [Cond -> Nat] /\ next_count' = Cardinality(Signallers')
      BY <1>0, <3>1, <3>2, <3>4 DEF CountsRight
    <3> QED
      BY <3>5, <3>6 DEF CountsRight
  <2> QED
    BY <2>1, <2>2
<1> QED
  BY <1>3, <1>4, <1>5, <1>6, <1>7 DEF MonInv

LEMMA KernelStepInv ==
  ASSUME NEW in, Places(in), MonInv(in), KernelStep,
         UNCHANGED <<next_count, count, pc, cv, ret>>
  PROVE  MonInv(in)'
<1>0. /\ IndInv /\ SemTypeOK /\ CpuInv /\ QueueExact /\ PcOK(in) /\ CountsRight
      /\ QueuePc(in) /\ OnlyHandedOver /\ OnePlace(in) /\ DownsNext
  BY DEF MonInv, IndInv, TypeOK
<1>1. IndInv' /\ UNCHANGED <<value, queue>> /\ DownsNext'
  <2>1. CASE Dispatch
    <3>1. /\ current' \in Thread \cup {Idle}
          /\ resched' \in BOOLEAN
          /\ ~resched' => current' \in Thread /\ wait_state'[current'] = "none"
      BY <1>0, <2>1 DEF Dispatch, Runnable, SemTypeOK
    <3>2. IndInv'
      BY <1>0, <2>1, <3>1, OtherInv DEF Dispatch, SemTypeOK
    <3>3. \A p \in Thread : pc[p] \notin {"signal_down", "wait_down"}
      BY <1>0, <2>1 DEF Dispatch, DownsNext, Active, Runs
    <3> QED
      BY <2>1, <3>2, <3>3 DEF Dispatch, DownsNext
  <2>2. ASSUME NEW p \in Thread, DownReturn(p)
        PROVE  IndInv' /\ UNCHANGED <<value, queue>> /\ DownsNext'
    <3>1. IndInv'
      BY <1>0, <2>2, ReturnInv
    <3>2. /\ current = p /\ wait_state[p] = "none" /\ waiting[p] \in Sem
      BY <1>0, <2>2 DEF DownReturn, Runs, SemTypeOK, CpuInv
    <3>3. p \notin Queued(waiting[p])
      BY <1>0, <3>2 DEF QueueExact
    <3>4. UNCHANGED <<value, queue, current, resched>> /\ waiting[p] # NULL
      BY <2>2, <3>3 DEF DownReturn
    <3>5. \A q \in Thread : pc[q] \notin {"signal_down", "wait_down"}
      BY <1>0, <3>2, <3>4 DEF DownsNext, Active, Runs
    <3> QED
      BY <3>1, <3>4, <3>5 DEF DownsNext
  <2>3. ASSUME NEW p \in Thread, TimerFires(p)
        PROVE  IndInv' /\ UNCHANGED <<value, queue>> /\ DownsNext'
    <3>1. /\ wait_state[p] = "WT_TIMER"
          /\ wait_state' = [wait_state EXCEPT ![p] = "none"]
          /\ UNCHANGED <<current, resched, value, queue, waiting, wakeup_flags>>
      BY <2>3 DEF TimerFires
    <3>2. waiting[p] = NULL
      BY <1>0, <3>1 DEF CpuInv
    <3>3. IndInv'
      BY <1>0, <3>1, <3>2, OtherInv DEF SemTypeOK, WaitStates, CpuInv
    <3> QED
      BY <1>0, <3>1, <3>3 DEF DownsNext, Active, Runs
  <2> QED
    BY <2>1, <2>2, <2>3 DEF KernelStep
<1>2. Holders(InsideOf(in))' = Holders(InsideOf(in)) /\ \A s \in Sem : Queued(s)' = Queued(s)
  BY <1>1 DEF Holders, InsideOf, Queued
<1>3. OnePlace(in)' /\ QueuePc(in)' /\ OnlyHandedOver'
  BY <1>0, <1>1, <1>2 DEF OnePlace, QueuePc, OnlyHandedOver
<1>4. PcOK(in)'
  BY <1>0 DEF PcOK
<1>5. Signallers' = Signallers /\ \A c \in Cond : Waiters(c)' = Waiters(c)
  BY DEF Signallers, Waiters
<1>6. CountsRight'
  BY <1>0, <1>5 DEF CountsRight
<1> QED
  BY <1>1, <1>3, <1>4, <1>6 DEF MonInv

LEMMA MonitorStepInv ==
  ASSUME NEW in, Places(in), MonInv(in), MonitorStep
  PROVE  MonInv(in)'
BY DownsInv, EndsInv, KernelStepInv DEF MonitorStep

LEMMA MonitorInitInv ==
  ASSUME NEW in, NEW start, start \notin InsideOf(in) \cup MonitorPcs,
         MonitorInit(start)
  PROVE  MonInv(in)
<1>0. /\ current = Idle /\ resched = TRUE
      /\ wait_state = [p \in Thread |-> "none"]
      /\ value = [s \in Sem |-> IF s = Mutex THEN 1 ELSE 0]
      /\ queue = [s \in Sem |-> <<>>]
      /\ waiting = [p \in Thread |-> NULL]
      /\ wakeup_flags = [p \in Thread |-> "WT_INTERRUPTED"]
      /\ next_count = 0 /\ count = [c \in Cond |-> 0]
      /\ pc = [p \in Thread |-> start]
      /\ cv = [p \in Thread |-> NULL] /\ ret = [p \in Thread |-> start]
  BY DEF MonitorInit, SemInit
<1>1. IndInv
  <2>1. ToSet(<<>>) = {} /\ IsInjective(<<>>)
    BY DEF ToSet, IsInjective
  <2>2. SemTypeOK
    BY <1>0 DEF SemTypeOK, WaitStates
  <2>3. QueueExact
    BY <1>0, <2>1, ThreadAssumption DEF QueueExact, Queued
  <2>4. DownGranted /\ NobodyWaitsInVain /\ CpuInv
    BY <1>0 DEF DownGranted, NobodyWaitsInVain, CpuInv
  <2> QED
    BY <2>2, <2>3, <2>4 DEF IndInv, TypeOK
<1>2. PcOK(in) /\ DownsNext
  BY <1>0 DEF PcOK, DownsNext, MonitorPcs
<1>3. QueuePc(in)
  BY <1>0 DEF QueuePc, Queued, ToSet
<1>4. Signallers = {} /\ \A c \in Cond : Waiters(c) = {}
  BY <1>0 DEF Signallers, Waiters, MonitorPcs
<1>5. CountsRight
  BY <1>0, <1>4, FS_EmptySet DEF CountsRight
<1>6. OnlyHandedOver
  BY <1>0 DEF OnlyHandedOver
<1>7. Holders(InsideOf(in)) = {}
  BY <1>0 DEF Holders
<1>8. OnePlace(in)
  BY <1>0, <1>7, MonitorAssumption DEF OnePlace
<1> QED
  BY <1>1, <1>2, <1>3, <1>5, <1>6, <1>8 DEF MonInv

-----------------------------------------------------------------------------
(* The most general program.                                               *)

LEMMA MonInvHolds == MonSpec => []MonInv({"in"})
<1>0. Places({"in"})
  BY DEF Places, MonitorPcs
<1>1. MonInit => MonInv({"in"})
  BY MonitorInitInv DEF MonInit, InsideOf, MonitorPcs
<1>2. MonInv({"in"}) /\ [MonNext]_monVars => MonInv({"in"})'
  <2> SUFFICES ASSUME MonInv({"in"}), [MonNext]_monVars PROVE MonInv({"in"})'
    OBVIOUS
  <2>1. ASSUME NEW p \in Thread, Enter(p, "out", "in") PROVE MonInv({"in"})'
    BY <1>0, <2>1, EnterInv DEF InsideOf, MonitorPcs
  <2>2. ASSUME NEW p \in Thread, Leave(p, "in", "out") PROVE MonInv({"in"})'
    BY <1>0, <2>2, LeaveInv DEF InsideOf, MonitorPcs
  <2>3. ASSUME NEW p \in Thread, NEW c \in Cond,
               Wait(p, c, "in", "in") \/ Signal(p, c, "in", "in")
        PROVE  MonInv({"in"})'
    BY <1>0, <2>3, WaitInv, SignalInv
  <2>4. ASSUME NEW p \in Thread, NEW at \in {"out", "in"}, Nap(p, at, at)
        PROVE  MonInv({"in"})'
    BY <1>0, <2>4, NapInv DEF MonitorPcs
  <2>5. CASE MonitorStep
    BY <1>0, <2>5, MonitorStepInv
  <2>6. CASE UNCHANGED monVars
    BY <2>6, StutterInv
  <2> QED
    BY <2>1, <2>2, <2>3, <2>4, <2>5, <2>6 DEF MonNext
<1> QED
  BY <1>1, <1>2, PTL DEF MonSpec

(* The monitor is in one place: held by one thread, or free with the mutex *)
(* at 1 (cond_signal, cond_wait, and the entry and exit in check_sync.c).  *)
THEOREM OneMonitorCorrect == MonSpec => []OneMonitor
<1>1. MonInv({"in"}) => OneMonitor
  <2> SUFFICES ASSUME MonInv({"in"}) PROVE OneMonitor
    OBVIOUS
  <2>1. InsideOf({"in"}) = Inside
    BY DEF InsideOf, Inside
  <2>2. CASE value[Mutex] = 1 /\ Holders(Inside) = {}
    BY <2>2, FS_EmptySet DEF OneMonitor
  <2>3. CASE value[Mutex] = 0 /\ \E h \in Thread : Holders(Inside) = {h}
    <3>1. Cardinality(Holders(Inside)) = 1
      BY <2>3, FS_Singleton
    <3> QED
      BY <2>3, <3>1 DEF OneMonitor
  <2> QED
    BY <2>1, <2>2, <2>3 DEF MonInv, OnePlace
<1> QED
  BY <1>1, MonInvHolds, PTL

-----------------------------------------------------------------------------
(* The monitor is Hoare's.                                                 *)

LEMMA SeqOfNone == SetToSeq({}) = <<>>
<1>1. Cardinality({}) = 0 /\ 1..0 = {}
  BY FS_EmptySet
<1>2. \A f \in [{} -> {}] : f = <<>>
  OBVIOUS
<1>3. <<>> \in [{} -> {}] /\ IsInjective(<<>>)
  BY DEF IsInjective
<1> QED
  BY <1>1, <1>2, <1>3 DEF SetToSeq

LEMMA SeqOfOne ==
  ASSUME NEW x
  PROVE  SetToSeq({x}) = <<x>>
<1>1. Cardinality({x}) = 1 /\ 1..1 = {1}
  BY FS_Singleton
<1>2. \A f \in [{1} -> {x}] : f = <<x>>
  OBVIOUS
<1>3. <<x>> \in [{1} -> {x}] /\ IsInjective(<<x>>)
  BY DEF IsInjective
<1> QED
  BY <1>1, <1>2, <1>3 DEF SetToSeq

LEMMA Concats ==
  ASSUME NEW T, NEW q \in Seq(T)
  PROVE  /\ q \o <<>> = q
         /\ \A x \in T : q \o <<x>> = Append(q, x)
OBVIOUS

(* Nobody, or p alone, is on its way to a down.                            *)
LEMMA StandingIs ==
  ASSUME NEW s, NEW at
  PROVE  /\ (\A q \in Thread : pc[q] # at) => Standing(s, at) = <<>>
         /\ (\A q \in Thread : pc'[q] # at) => Standing(s, at)' = <<>>
         /\ \A p \in Thread : pc[p] = at /\ (\A q \in Thread : q # p => pc[q] # at) =>
               Standing(s, at) = IF s = NextSem \/ cv[p] = s THEN <<p>> ELSE <<>>
         /\ \A p \in Thread : pc'[p] = at /\ (\A q \in Thread : q # p => pc'[q] # at) =>
               Standing(s, at)' = IF s = NextSem \/ cv'[p] = s THEN <<p>> ELSE <<>>
<1> DEFINE Is(p, P, C) == P[p] = at /\ (s = NextSem \/ C[p] = s)
           St(P, C) == {p \in Thread : Is(p, P, C)}
<1>1. ASSUME NEW P, NEW C
      PROVE  /\ (\A q \in Thread : P[q] # at) => SetToSeq(St(P, C)) = <<>>
             /\ \A p \in Thread : P[p] = at /\ (\A q \in Thread : q # p => P[q] # at) =>
                   SetToSeq(St(P, C)) = IF s = NextSem \/ C[p] = s THEN <<p>> ELSE <<>>
  <2>1. ASSUME \A q \in Thread : P[q] # at PROVE SetToSeq(St(P, C)) = <<>>
    <3>1. St(P, C) = {}
      BY <2>1
    <3> QED
      BY <3>1, SeqOfNone
  <2>2. ASSUME NEW p \in Thread, P[p] = at, \A q \in Thread : q # p => P[q] # at
        PROVE  SetToSeq(St(P, C)) = IF s = NextSem \/ C[p] = s THEN <<p>> ELSE <<>>
    <3>1. St(P, C) = IF s = NextSem \/ C[p] = s THEN {p} ELSE {}
      BY <2>2
    <3> QED
      BY <3>1, SeqOfNone, SeqOfOne
  <2> QED
    BY <2>1, <2>2
<1>2. Standing(s, at) = SetToSeq(St(pc, cv)) /\ Standing(s, at)' = SetToSeq(St(pc', cv'))
  BY DEF Standing
<1> QED
  BY <1>1, <1>2

(* Who has the monitor.                                                    *)
LEMMA OwnerIs ==
  /\ value[Mutex] = 1 => Owner = NULL
  /\ \A h : value[Mutex] = 0 /\ Holders(Inside) = {h} => Owner = h
  /\ (value[Mutex] = 1 => Owner = NULL)'
  /\ \A h : value'[Mutex] = 0 /\ Holders(Inside)' = {h} => Owner' = h
BY DEF Owner

(* The wait queues of the conditions.                                      *)
CondQueues(Q) == [c \in Cond |-> Q[c]]
CondQueuesAnd(Q, d, p) == [c \in Cond |-> IF c = d THEN Append(Q[c], p) ELSE Q[c]]

(* What the monitor looks like to a thread that runs in a place of its own *)
(* ...                                                                     *)
LEMMA Views ==
  ASSUME MonInv({"in"}), NEW p \in Thread, Active(p),
         pc[p] \notin {"signal_down", "wait_down"}
  PROVE  /\ Urgent = queue[NextSem]
         /\ Awaiting = CondQueues(queue)
         /\ pc[p] \in Inside => Owner = p /\ value[Mutex] = 0
<1>1. /\ queue \in [Sem -> Seq(Thread)] /\ NextSem \in Sem /\ Cond \subseteq Sem
  BY MonitorAssumption DEF MonInv, IndInv, TypeOK, SemTypeOK
<1>2. \A q \in Thread : pc[q] \notin {"signal_down", "wait_down"}
  BY Runner
<1>3. Urgent = queue[NextSem]
  BY <1>1, <1>2, StandingIs, Concats DEF Urgent
<1>4. Awaiting = CondQueues(queue)
  BY <1>1, <1>2, StandingIs, Concats DEF Awaiting, CondQueues
<1>5. ASSUME pc[p] \in Inside PROVE Owner = p /\ value[Mutex] = 0
  BY <1>5, Runner, OwnerIs DEF InsideOf, Inside
<1> QED
  BY <1>3, <1>4, <1>5

(* ... and after a step of it.                                             *)
LEMMA ViewsAfter ==
  ASSUME MonInv({"in"}), MonInv({"in"})', NEW p \in Thread, Active(p),
         NEW to, pc' = [pc EXCEPT ![p] = to]
  PROVE  /\ to # "signal_down" => Urgent' = queue'[NextSem]
         /\ to = "signal_down" => Urgent' = Append(queue'[NextSem], p)
         /\ to # "wait_down" => Awaiting' = CondQueues(queue')
         /\ to = "wait_down" => Awaiting' = CondQueuesAnd(queue', cv'[p], p)
<1>1. /\ queue' \in [Sem -> Seq(Thread)] /\ NextSem \in Sem /\ Cond \subseteq Sem
      /\ DOMAIN pc = Thread
  BY MonitorAssumption DEF MonInv, IndInv, TypeOK, SemTypeOK, PcOK
<1>2. /\ pc'[p] = to
      /\ \A q \in Thread : q # p => pc'[q] \notin {"signal_down", "wait_down"}
  BY <1>1, Runner
<1>3. Urgent' = queue'[NextSem] \o Standing(NextSem, "signal_down")'
  BY DEF Urgent
<1>4. Awaiting' = [c \in Cond |-> queue'[c] \o Standing(c, "wait_down")']
  BY DEF Awaiting
<1>5. Standing(NextSem, "signal_down")' = IF to = "signal_down" THEN <<p>> ELSE <<>>
  <2>1. CASE to = "signal_down"
    BY <1>2, <2>1, StandingIs
  <2>2. CASE to # "signal_down"
    <3>1. \A q \in Thread : pc'[q] # "signal_down"
      BY <1>2, <2>2
    <3> QED
      BY <2>2, <3>1, StandingIs
  <2> QED
    BY <2>1, <2>2
<1>6. ASSUME NEW c \in Cond
      PROVE  Standing(c, "wait_down")' =
                IF to = "wait_down" /\ cv'[p] = c THEN <<p>> ELSE <<>>
  <2>1. CASE to = "wait_down"
    <3>1. c # NextSem
      BY MonitorAssumption
    <3> QED
      BY <1>2, <2>1, <3>1, StandingIs
  <2>2. CASE to # "wait_down"
    <3>1. \A q \in Thread : pc'[q] # "wait_down"
      BY <1>2, <2>2
    <3> QED
      BY <2>2, <3>1, StandingIs
  <2> QED
    BY <2>1, <2>2
<1>7. \A c \in Cond : queue'[c] \in Seq(Thread)
  BY <1>1
<1> QED
  BY <1>1, <1>3, <1>4, <1>5, <1>6, <1>7, Concats DEF CondQueues, CondQueuesAnd

(* The head of a queue that gets a permit has the monitor.                 *)
LEMMA HandedTo ==
  ASSUME MonInv({"in"}), MonInv({"in"})', NEW p \in Thread, Active(p), pc[p] = "in",
         NEW s \in Sem, queue[s] # <<>>, Up(s),
         pc' = [pc EXCEPT ![p] = pc'[p]]
  PROVE  Owner' = Head(queue[s]) /\ Head(queue[s]) \in Thread
<1> DEFINE h == Head(queue[s])
<1>1. /\ queue \in [Sem -> Seq(Thread)] /\ DOMAIN pc = Thread /\ QueueExact
      /\ QueuePc({"in"}) /\ OnePlace({"in"})'
      /\ \A t \in Sem : p \notin Queued(t)
      /\ queue' = [queue EXCEPT ![s] = Tail(@)]
  BY Runner DEF MonInv, IndInv, TypeOK, SemTypeOK, PcOK, Up
<1>2. /\ h \in Queued(s) /\ h \in Thread
      /\ ToSet(Tail(queue[s])) = Queued(s) \ {h}
  BY <1>1, HeadTail DEF QueueExact, Queued
<1> HIDE DEF h
<1>3. \A t \in Sem : h \notin Queued(t)'
  <2> SUFFICES ASSUME NEW t \in Sem PROVE h \notin Queued(t)'
    OBVIOUS
  <2>1. CASE t = s
    BY <1>1, <1>2, <2>1 DEF Queued
  <2>2. CASE t # s
    <3>1. h \notin Queued(t)
      BY <1>1, <1>2, <2>2 DEF QueueExact
    <3> QED
      BY <1>1, <2>2, <3>1 DEF Queued
  <2> QED
    BY <2>1, <2>2
<1>4. pc'[h] \in Inside
  <2>1. pc'[h] = pc[h]
    BY <1>1, <1>2
  <2> QED
    BY <1>1, <1>2, <2>1, MonitorAssumption DEF QueuePc, Inside
<1>5. h \in Holders(Inside)'
  BY <1>2, <1>3, <1>4 DEF Holders
<1>6. value'[Mutex] = 0 /\ Holders(Inside)' = {h}
  BY <1>1, <1>5 DEF OnePlace, InsideOf, Inside
<1>7. Owner' = h
  BY <1>6, OwnerIs
<1> QED
  BY <1>2, <1>7 DEF h

(* p, outside, takes the monitor or waits at the entrance.                 *)
LEMMA EnterIsAcquire ==
  ASSUME MonInv({"in"}), MonInv({"in"})', NEW p \in Thread, Enter(p, "out", "in")
  PROVE  Hoare!Acquire(p)
<1>0. /\ Active(p) /\ pc[p] = "out" /\ Down(p, Mutex)
      /\ pc' = [pc EXCEPT ![p] = "in"] /\ UNCHANGED cv
      /\ Mutex \in Sem /\ Mutex # NextSem /\ Mutex \notin Cond
      /\ NextSem \in Sem /\ Cond \subseteq Sem
  BY MonitorAssumption DEF Enter, At, GoOn
<1>1. /\ queue \in [Sem -> Seq(Thread)] /\ value \in [Sem -> Nat] /\ DOMAIN pc = Thread
      /\ queue' \in [Sem -> Seq(Thread)] /\ value' \in [Sem -> Nat]
      /\ OnePlace({"in"}) /\ OnePlace({"in"})'
      /\ \A s \in Sem : p \notin Queued(s)
      /\ p \notin Holders(Inside)
      /\ InsideOf({"in"}) = Inside
  <2>1. InsideOf({"in"}) = Inside /\ pc[p] \notin Inside
    BY <1>0 DEF InsideOf, Inside
  <2>2. \A s \in Sem : p \notin Queued(s)
    BY <1>0, Runner
  <2> QED
    BY <2>1, <2>2 DEF MonInv, IndInv, TypeOK, SemTypeOK, PcOK, Holders
<1>2. /\ Urgent = queue[NextSem] /\ Awaiting = [c \in Cond |-> queue[c]]
      /\ Urgent' = queue'[NextSem] /\ Awaiting' = [c \in Cond |-> queue'[c]]
  <2>1. Urgent = queue[NextSem] /\ Awaiting = CondQueues(queue)
    BY <1>0, Views
  <2>2. "in" # "signal_down" /\ "in" # "wait_down"
    OBVIOUS
  <2>3. Urgent' = queue'[NextSem] /\ Awaiting' = CondQueues(queue')
    BY <1>0, <2>2, ViewsAfter
  <2> QED
    BY <2>1, <2>3 DEF CondQueues
<1>3. \A q \in {queue[Mutex], Urgent} \cup {Awaiting[c] : c \in Cond} : p \notin ToSet(q)
  BY <1>0, <1>1, <1>2 DEF Queued
<1>4. CASE value[Mutex] > 0
  <2>1. value[Mutex] = 1 /\ value'[Mutex] = 0 /\ queue' = queue
    BY <1>0, <1>1, <1>4 DEF OnePlace, Down, DownTake, DownBlock
  <2>2. Owner = NULL
    BY <2>1, OwnerIs
  <2>3. p \in Holders(Inside)'
    <3>1. \A s \in Sem : p \notin Queued(s)'
      BY <1>1, <2>1 DEF Queued
    <3> QED
      BY <1>0, <1>1, <3>1 DEF Holders, Inside
  <2>4. Owner' = p
    <3>1. Holders(Inside)' = {p}
      BY <1>1, <2>1, <2>3 DEF OnePlace
    <3> QED
      BY <2>1, <3>1, OwnerIs
  <2>5. p # NULL
    BY ThreadAssumption
  <2>6. Hoare!Outside(p)
    BY <1>3, <2>2, <2>5 DEF Hoare!Outside, ToSet, Hoare!ToSet
  <2>7. queue'[Mutex] = queue[Mutex] /\ Urgent' = Urgent /\ Awaiting' = Awaiting
    BY <1>2, <2>1
  <2> QED
    BY <2>2, <2>4, <2>6, <2>7 DEF Hoare!Acquire
<1>5. CASE value[Mutex] = 0
  <2>1. PICK h \in Thread : Holders(Inside) = {h}
    BY <1>1, <1>5 DEF OnePlace
  <2>2. value' = value /\ queue' = [queue EXCEPT ![Mutex] = Append(@, p)]
    BY <1>0, <1>5 DEF Down, DownTake, DownBlock
  <2>3. Holders(Inside)' = {h}
    <3>1. PICK k \in Thread : Holders(Inside)' = {k}
      BY <1>1, <1>5, <2>2 DEF OnePlace
    <3>2. h \in Holders(Inside)'
      <4>1. h \in Holders(Inside) /\ h # p
        BY <1>1, <2>1
      <4>2. /\ pc[h] \in Inside /\ pc'[h] = pc[h]
            /\ \A s \in Sem : h \notin Queued(s)
        BY <1>0, <1>1, <4>1 DEF Holders
      <4>3. \A s \in Sem : h \notin Queued(s)'
        <5>1. ToSet(Append(queue[Mutex], p)) = Queued(Mutex) \cup {p}
          BY <1>0, <1>1, Appended DEF Queued
        <5> QED
          BY <1>0, <1>1, <2>2, <4>1, <4>2, <5>1 DEF Queued
      <4> QED
        BY <4>2, <4>3 DEF Holders, Inside
    <3> QED
      BY <3>1, <3>2
  <2>4. Owner = h /\ Owner' = h /\ h # NULL /\ p # h
    BY <1>1, <1>5, <2>1, <2>2, <2>3, OwnerIs, ThreadAssumption
  <2>5. /\ queue'[Mutex] = Append(queue[Mutex], p)
        /\ Urgent' = Urgent /\ Awaiting' = Awaiting
    BY <1>0, <1>1, <1>2, <2>2
  <2>6. Hoare!Outside(p)
    BY <1>3, <2>4 DEF Hoare!Outside, ToSet, Hoare!ToSet
  <2> QED
    BY <2>4, <2>5, <2>6 DEF Hoare!Acquire
<1>6. value[Mutex] > 0 \/ value[Mutex] = 0
  BY <1>0, <1>1
<1> QED
  BY <1>4, <1>5, <1>6

(* p, inside, gives the monitor to a signaller, to the entrance or to      *)
(* nobody.                                                                 *)
LEMMA GivesUp ==
  ASSUME MonInv({"in"}), MonInv({"in"})', NEW p \in Thread, Active(p), pc[p] = "in",
         UpNextOrMutex, NEW to, to # "signal_down", pc' = [pc EXCEPT ![p] = to]
  PROVE  /\ Hoare!GiveUp /\ Owner = p /\ p # NULL
         /\ \A c \in Cond : queue'[c] = queue[c]
<1>0. /\ Mutex \in Sem /\ NextSem \in Sem /\ Mutex # NextSem
      /\ \A c \in Cond : c \in Sem /\ c \notin {Mutex, NextSem}
  BY MonitorAssumption
<1>1. /\ queue \in [Sem -> Seq(Thread)] /\ value \in [Sem -> Nat] /\ CountsRight
      /\ pc[p] \in Inside
  BY DEF MonInv, IndInv, TypeOK, SemTypeOK, Inside
<1>2. /\ Urgent = queue[NextSem] /\ Urgent' = queue'[NextSem]
      /\ Owner = p /\ value[Mutex] = 0 /\ p # NULL
  BY <1>1, Views, ViewsAfter, ThreadAssumption
<1>3. CASE next_count > 0
  <2>1. queue[NextSem] # <<>> /\ Up(NextSem)
    BY <1>3, Awaited DEF UpNextOrMutex, Places, MonitorPcs
  <2>2. Owner' = Head(queue[NextSem])
    BY <1>0, <2>1, HandedTo
  <2>3. queue' = [queue EXCEPT ![NextSem] = Tail(@)]
    BY <2>1 DEF Up
  <2> QED
    BY <1>0, <1>1, <1>2, <2>1, <2>2, <2>3 DEF Hoare!GiveUp
<1>4. CASE ~(next_count > 0)
  <2>1. Up(Mutex) /\ queue[NextSem] = <<>>
    <3>1. Signallers = {}
      BY <1>1, <1>4, CountSets, FS_CardinalityType, FS_EmptySet DEF CountsRight
    <3>2. Queued(NextSem) = {}
      BY <1>0, <1>1, <3>1 DEF MonInv, QueuePc, Signallers, Queued, ToSet
    <3>3. queue[NextSem] = <<>>
      BY <1>0, <1>1, <3>2, HeadTail DEF Queued
    <3> QED
      BY <1>4, <3>3 DEF UpNextOrMutex
  <2>2. CASE queue[Mutex] # <<>>
    <3>1. Owner' = Head(queue[Mutex])
      BY <1>0, <2>1, <2>2, HandedTo
    <3>2. queue' = [queue EXCEPT ![Mutex] = Tail(@)]
      BY <2>1, <2>2 DEF Up
    <3> QED
      BY <1>0, <1>1, <1>2, <2>1, <2>2, <3>1, <3>2 DEF Hoare!GiveUp
  <2>3. CASE queue[Mutex] = <<>>
    <3>1. value' = [value EXCEPT ![Mutex] = @ + 1] /\ queue' = queue
      BY <2>1, <2>3 DEF Up
    <3>2. value'[Mutex] = 1
      BY <1>0, <1>1, <1>2, <3>1
    <3>3. Owner' = NULL
      BY <3>2, OwnerIs
    <3> QED
      BY <1>2, <2>1, <2>3, <3>1, <3>3 DEF Hoare!GiveUp
  <2> QED
    BY <2>2, <2>3
<1> QED
  BY <1>2, <1>3, <1>4

LEMMA LeaveIsExit ==
  ASSUME MonInv({"in"}), MonInv({"in"})', NEW p \in Thread, Leave(p, "in", "out")
  PROVE  Hoare!Exit
<1>1. /\ Active(p) /\ pc[p] = "in" /\ UpNextOrMutex /\ pc' = [pc EXCEPT ![p] = "out"]
  BY DEF Leave, At, GoOn
<1>2. /\ Hoare!GiveUp /\ Owner # NULL /\ \A c \in Cond : queue'[c] = queue[c]
  BY <1>1, GivesUp
<1>3. Awaiting' = Awaiting
  <2>1. Awaiting = CondQueues(queue)
    BY <1>1, Views
  <2>2. "out" # "wait_down"
    OBVIOUS
  <2>3. Awaiting' = CondQueues(queue')
    BY <1>1, <2>2, ViewsAfter
  <2> QED
    BY <1>2, <2>1, <2>3 DEF CondQueues
<1> QED
  BY <1>2, <1>3 DEF Hoare!Exit

LEMMA WaitIsAwait ==
  ASSUME MonInv({"in"}), MonInv({"in"})', NEW p \in Thread, NEW c \in Cond,
         Wait(p, c, "in", "in")
  PROVE  Hoare!Await(c)
<1>1. /\ Active(p) /\ pc[p] = "in" /\ UpNextOrMutex /\ pc' = [pc EXCEPT ![p] = "wait_down"]
      /\ cv' = [cv EXCEPT ![p] = c]
  BY DEF Wait, At
<1>2. /\ Hoare!GiveUp /\ Owner = p /\ p # NULL
      /\ \A d \in Cond : queue'[d] = queue[d]
  BY <1>1, GivesUp
<1>3. cv'[p] = c
  BY <1>1 DEF MonInv, PcOK
<1>4. Awaiting = CondQueues(queue)
  BY <1>1, Views
<1>6. Awaiting' = CondQueuesAnd(queue', c, p)
  BY <1>1, <1>3, ViewsAfter
<1>5. Awaiting' = [Awaiting EXCEPT ![c] = Append(@, Owner)]
  BY <1>2, <1>4, <1>6 DEF CondQueues, CondQueuesAnd
<1> QED
  BY <1>2, <1>5 DEF Hoare!Await

(* A signal hands the monitor to the first waiter, or changes nothing.     *)
LEMMA SignalIsNotify ==
  ASSUME MonInv({"in"}), MonInv({"in"})', NEW p \in Thread, NEW c \in Cond,
         Signal(p, c, "in", "in"), count[c] > 0
  PROVE  Hoare!Notify(c)
<1>0. /\ Mutex \in Sem /\ NextSem \in Sem /\ c \in Sem
      /\ c # Mutex /\ c # NextSem /\ \A d \in Cond : d \in Sem
  BY MonitorAssumption
<1>1. /\ Active(p) /\ pc[p] = "in" /\ Up(c) /\ pc' = [pc EXCEPT ![p] = "signal_down"]
  <2>1. CASE count[c] = 0
    BY <2>1
  <2> QED
    BY <2>1 DEF Signal, At
<1>2. queue[c] # <<>> /\ queue \in [Sem -> Seq(Thread)]
  BY <1>1, Awaited DEF Places, MonitorPcs, MonInv, IndInv, TypeOK, SemTypeOK
<1>3. queue' = [queue EXCEPT ![c] = Tail(@)]
  BY <1>1, <1>2 DEF Up
<1>4. Owner = p /\ p # NULL /\ Urgent = queue[NextSem] /\ Awaiting = CondQueues(queue)
  BY <1>1, Views, ThreadAssumption DEF Inside
<1>5. /\ Urgent' = Append(queue[NextSem], p)
      /\ Awaiting' = [Awaiting EXCEPT ![c] = Tail(@)]
      /\ queue'[Mutex] = queue[Mutex]
  <2>1. "signal_down" # "wait_down"
    OBVIOUS
  <2>2. Urgent' = Append(queue'[NextSem], p) /\ Awaiting' = CondQueues(queue')
    BY <1>1, <2>1, ViewsAfter
  <2> QED
    BY <1>0, <1>2, <1>3, <1>4, <2>2 DEF CondQueues
<1>6. Owner' = Head(queue[c])
  BY <1>0, <1>1, <1>2, HandedTo
<1>7. Awaiting[c] = queue[c]
  BY <1>4 DEF CondQueues
<1> QED
  BY <1>2, <1>4, <1>5, <1>6, <1>7 DEF Hoare!Notify

(* The steps that do not show.                                             *)

LEMMA ShowsNothing ==
  ASSUME UNCHANGED <<value, queue, pc, cv>>
  PROVE  UNCHANGED Hoare!hoareVars
<1>1. Holders(Inside)' = Holders(Inside)
  BY DEF Holders, Inside, Queued
<1>2. Owner' = Owner
  BY <1>1 DEF Owner
<1>3. \A s, at : Standing(s, at)' = Standing(s, at)
  BY DEF Standing
<1>4. Urgent' = Urgent /\ Awaiting' = Awaiting
  BY <1>3 DEF Urgent, Awaiting
<1> QED
  BY <1>2, <1>4 DEF Hoare!hoareVars

(* p moves on where it has the monitor, or where it has not.               *)
LEMMA StaysHidden ==
  ASSUME MonInv({"in"}), MonInv({"in"})', NEW p \in Thread, Active(p),
         pc[p] \notin {"signal_down", "wait_down"},
         NEW to, to \notin {"signal_down", "wait_down"},
         pc' = [pc EXCEPT ![p] = to], to \in Inside <=> pc[p] \in Inside,
         UNCHANGED <<value, queue>>
  PROVE  UNCHANGED Hoare!hoareVars
<1>1. DOMAIN pc = Thread
  BY DEF MonInv, PcOK
<1>2. Holders(Inside)' = Holders(Inside)
  <2>1. \A q \in Thread : pc'[q] \in Inside <=> pc[q] \in Inside
    BY <1>1
  <2> QED
    BY <2>1 DEF Holders, Queued, Inside
<1>3. Owner' = Owner
  BY <1>2 DEF Owner
<1>4. Urgent = queue[NextSem] /\ Awaiting = CondQueues(queue)
  BY Views
<1>5. Urgent' = queue'[NextSem] /\ Awaiting' = CondQueues(queue')
  BY ViewsAfter
<1> QED
  BY <1>3, <1>4, <1>5 DEF Hoare!hoareVars

(* What the monitor looks like to a thread on its way to a down.           *)
LEMMA ViewsBefore ==
  ASSUME MonInv({"in"}), NEW p \in Thread, Active(p)
  PROVE  /\ pc[p] = "signal_down" => /\ Urgent = Append(queue[NextSem], p)
                                     /\ Awaiting = CondQueues(queue)
         /\ pc[p] = "wait_down" => /\ Urgent = queue[NextSem]
                                   /\ Awaiting = CondQueuesAnd(queue, cv[p], p)
<1>1. /\ queue \in [Sem -> Seq(Thread)] /\ NextSem \in Sem /\ NextSem \notin Cond
      /\ \A c \in Cond : queue[c] \in Seq(Thread)
  BY MonitorAssumption DEF MonInv, IndInv, TypeOK, SemTypeOK
<1>2. \A q \in Thread : q # p => pc[q] \notin {"signal_down", "wait_down"}
  BY Runner
<1>3. CASE pc[p] = "signal_down"
  <2>1. \A q \in Thread : pc[q] # "wait_down"
    BY <1>2, <1>3
  <2>2. Standing(NextSem, "signal_down") = <<p>>
    BY <1>2, <1>3, StandingIs
  <2>3. \A c \in Cond : Standing(c, "wait_down") = <<>>
    BY <2>1, StandingIs
  <2> QED
    BY <1>1, <1>3, <2>2, <2>3, Concats DEF Urgent, Awaiting, CondQueues
<1>4. CASE pc[p] = "wait_down"
  <2>1. \A q \in Thread : pc[q] # "signal_down"
    BY <1>2, <1>4
  <2>2. Standing(NextSem, "signal_down") = <<>>
    BY <2>1, StandingIs
  <2>3. \A c \in Cond : Standing(c, "wait_down") = IF cv[p] = c THEN <<p>> ELSE <<>>
    <3> SUFFICES ASSUME NEW c \in Cond
                 PROVE  Standing(c, "wait_down") = IF cv[p] = c THEN <<p>> ELSE <<>>
      OBVIOUS
    <3>1. c # NextSem
      BY <1>1
    <3> QED
      BY <1>2, <1>4, <3>1, StandingIs
  <2>4. Urgent = queue[NextSem]
    BY <1>1, <2>2, Concats DEF Urgent
  <2>5. Awaiting = CondQueuesAnd(queue, cv[p], p)
    BY <1>1, <2>3, Concats DEF Awaiting, CondQueuesAnd
  <2> QED
    BY <1>4, <2>4, <2>5
<1> QED
  BY <1>3, <1>4

(* A down of cond_signal or cond_wait puts its thread where it stood.      *)
LEMMA DownIsHidden ==
  ASSUME MonInv({"in"}), MonInv({"in"})', NEW p \in Thread,
         SignalDown(p) \/ WaitDown(p)
  PROVE  UNCHANGED Hoare!hoareVars
<1>0. PICK s \in Sem \ {Mutex}, to \in {"signal_end", "wait_end"} :
         /\ Active(p) /\ Down(p, s)
         /\ pc' = [pc EXCEPT ![p] = to] /\ cv' = cv
         /\ \/ pc[p] = "signal_down" /\ to = "signal_end" /\ s = NextSem
            \/ pc[p] = "wait_down" /\ to = "wait_end" /\ s = cv[p] /\ s \in Cond
  <2>1. /\ NextSem \in Sem \ {Mutex} /\ \A c \in Cond : c \in Sem \ {Mutex}
    BY MonitorAssumption
  <2>2. CASE SignalDown(p)
    <3>1. /\ Active(p) /\ Down(p, NextSem) /\ cv' = cv
          /\ pc' = [pc EXCEPT ![p] = "signal_end"] /\ pc[p] = "signal_down"
      BY <2>2 DEF SignalDown, At, GoOn
    <3> QED
      BY <2>1, <3>1
  <2>3. CASE WaitDown(p)
    <3>1. /\ Active(p) /\ Down(p, cv[p]) /\ cv' = cv
          /\ pc' = [pc EXCEPT ![p] = "wait_end"] /\ pc[p] = "wait_down"
      BY <2>3 DEF WaitDown, At, GoOn
    <3>2. cv[p] \in Cond
      BY <3>1 DEF MonInv, PcOK
    <3> QED
      BY <2>1, <3>1, <3>2
  <2> QED
    BY <2>2, <2>3
<1>1. /\ queue \in [Sem -> Seq(Thread)] /\ value[s] = 0 /\ DOMAIN pc = Thread
      /\ IndInv /\ \A t \in Sem : p \notin Queued(t)
      /\ \A c \in Cond : c \in Sem /\ c # NextSem
      /\ Mutex \in Sem /\ NextSem \in Sem /\ NextSem \notin Cond /\ Mutex # NextSem
  BY <1>0, Runner, MonitorAssumption DEF MonInv, IndInv, TypeOK, SemTypeOK, PcOK, OnlyHandedOver
<1>2. value' = value /\ queue' = [queue EXCEPT ![s] = Append(@, p)]
  BY <1>0, <1>1 DEF Down, DownTake, DownBlock
<1>3. Holders(Inside)' = Holders(Inside)
  <2>1. \A t \in Sem : Queued(t)' = IF t = s THEN Queued(s) \cup {p} ELSE Queued(t)
    BY <1>0, <1>1, DownQueues
  <2>2. p \notin Holders(Inside) /\ p \notin Holders(Inside)'
    BY <1>0, <2>1 DEF Holders, Inside
  <2>3. ASSUME NEW q \in Thread, q # p
        PROVE  q \in Holders(Inside)' <=> q \in Holders(Inside)
    <3>1. pc'[q] = pc[q] /\ \A t \in Sem : q \in Queued(t)' <=> q \in Queued(t)
      BY <1>0, <1>1, <2>1, <2>3
    <3> QED
      BY <3>1 DEF Holders, Inside
  <2>4. Holders(Inside) \subseteq Thread /\ Holders(Inside)' \subseteq Thread
    BY DEF Holders
  <2> QED
    BY <2>2, <2>3, <2>4
<1>4. Owner' = Owner
  BY <1>2, <1>3 DEF Owner
<1>5. "signal_end" # "signal_down" /\ "signal_end" # "wait_down"
      /\ "wait_end" # "signal_down" /\ "wait_end" # "wait_down"
  OBVIOUS
<1>6. Urgent' = queue'[NextSem] /\ Awaiting' = CondQueues(queue')
  <2>1. to # "signal_down" /\ to # "wait_down"
    BY <1>5
  <2> QED
    BY <1>0, <2>1, ViewsAfter
<1>7. CASE pc[p] = "signal_down" /\ s = NextSem
  <2>1. Urgent = Append(queue[NextSem], p) /\ Awaiting = CondQueues(queue)
    BY <1>0, <1>7, ViewsBefore
  <2>2. /\ queue'[NextSem] = Append(queue[NextSem], p)
        /\ queue'[Mutex] = queue[Mutex] /\ \A c \in Cond : queue'[c] = queue[c]
    BY <1>1, <1>2, <1>7
  <2> QED
    BY <1>4, <1>6, <2>1, <2>2 DEF Hoare!hoareVars, CondQueues
<1>8. CASE pc[p] = "wait_down" /\ s = cv[p] /\ s \in Cond
  <2>1. Urgent = queue[NextSem] /\ Awaiting = CondQueuesAnd(queue, cv[p], p)
    BY <1>0, <1>8, ViewsBefore
  <2>2. /\ queue'[NextSem] = queue[NextSem] /\ queue'[Mutex] = queue[Mutex]
        /\ \A c \in Cond : queue'[c] = IF c = s THEN Append(queue[c], p) ELSE queue[c]
    BY <1>1, <1>2, <1>8
  <2> QED
    BY <1>4, <1>6, <1>8, <2>1, <2>2 DEF Hoare!hoareVars, CondQueues, CondQueuesAnd
<1> QED
  BY <1>0, <1>7, <1>8

LEMMA EndIsHidden ==
  ASSUME MonInv({"in"}), MonInv({"in"})', NEW p \in Thread,
         SignalEnd(p) \/ WaitEnd(p)
  PROVE  UNCHANGED Hoare!hoareVars
<1>1. /\ Active(p) /\ pc[p] \in {"signal_end", "wait_end"}
      /\ pc' = [pc EXCEPT ![p] = ret[p]] /\ UNCHANGED <<value, queue>>
  BY DEF SignalEnd, WaitEnd, At, semVars
<1>2. ret[p] = "in"
  BY <1>1 DEF MonInv, PcOK, MonitorPcs
<1>3. /\ pc[p] \notin {"signal_down", "wait_down"} /\ pc[p] \in Inside
      /\ ret[p] \notin {"signal_down", "wait_down"} /\ ret[p] \in Inside
  BY <1>1, <1>2 DEF Inside
<1> QED
  BY <1>1, <1>3, StaysHidden

LEMMA KernelIsHidden ==
  ASSUME MonInv({"in"}), KernelStep, UNCHANGED <<next_count, count, pc, cv, ret>>
  PROVE  UNCHANGED Hoare!hoareVars
<1>1. ASSUME NEW p \in Thread, DownReturn(p) PROVE UNCHANGED <<value, queue>>
  <2>1. current = p /\ wait_state[p] = "none" /\ waiting[p] \in Sem /\ QueueExact
    BY <1>1 DEF DownReturn, Runs, MonInv, IndInv, TypeOK, SemTypeOK, CpuInv
  <2>2. p \notin Queued(waiting[p])
    BY <2>1 DEF QueueExact
  <2> QED
    BY <1>1, <2>2 DEF DownReturn
<1>2. UNCHANGED <<value, queue>>
  BY <1>1 DEF KernelStep, Dispatch, TimerFires
<1> QED
  BY <1>2, ShowsNothing

LEMMA HoareStep ==
  MonInv({"in"}) /\ MonInv({"in"})' /\ [MonNext]_monVars => [Hoare!HoareNext]_Hoare!hoareVars
<1> SUFFICES ASSUME MonInv({"in"}), MonInv({"in"})', [MonNext]_monVars
             PROVE  Hoare!HoareNext \/ UNCHANGED Hoare!hoareVars
  OBVIOUS
<1>1. ASSUME NEW p \in Thread, Enter(p, "out", "in") PROVE Hoare!HoareNext
  BY <1>1, EnterIsAcquire DEF Hoare!HoareNext
<1>2. ASSUME NEW p \in Thread, Leave(p, "in", "out") PROVE Hoare!HoareNext
  BY <1>2, LeaveIsExit DEF Hoare!HoareNext
<1>3. ASSUME NEW p \in Thread, NEW c \in Cond, Wait(p, c, "in", "in")
      PROVE  Hoare!HoareNext
  BY <1>3, WaitIsAwait DEF Hoare!HoareNext
<1>4. ASSUME NEW p \in Thread, NEW c \in Cond, Signal(p, c, "in", "in")
      PROVE  Hoare!HoareNext \/ UNCHANGED Hoare!hoareVars
  <2>1. CASE count[c] > 0
    BY <1>4, <2>1, SignalIsNotify DEF Hoare!HoareNext
  <2>2. CASE ~(count[c] > 0)
    <3>1. /\ Active(p) /\ pc[p] = "in" /\ pc' = [pc EXCEPT ![p] = "in"]
          /\ UNCHANGED <<value, queue>>
      BY <1>4, <2>2 DEF Signal, At, GoOn, semVars
    <3>2. "in" \notin {"signal_down", "wait_down"}
      OBVIOUS
    <3> QED
      BY <3>1, <3>2, StaysHidden
  <2> QED
    BY <2>1, <2>2
<1>5. ASSUME NEW p \in Thread, NEW at \in {"out", "in"}, Nap(p, at, at)
      PROVE  UNCHANGED Hoare!hoareVars
  <2>1. /\ Active(p) /\ pc[p] = at /\ pc' = [pc EXCEPT ![p] = at]
        /\ UNCHANGED <<value, queue>>
    BY <1>5 DEF Nap, At, GoOn, Sleep
  <2>2. at \notin {"signal_down", "wait_down"}
    OBVIOUS
  <2> QED
    BY <2>1, <2>2, StaysHidden
<1>6. CASE MonitorStep
  BY <1>6, DownIsHidden, EndIsHidden, KernelIsHidden DEF MonitorStep
<1>7. CASE UNCHANGED monVars
  BY <1>7, ShowsNothing DEF monVars, semVars
<1> QED
  BY <1>1, <1>2, <1>3, <1>4, <1>5, <1>6, <1>7 DEF MonNext

LEMMA HoareStart == MonInit => Hoare!HoareInit
<1> SUFFICES ASSUME MonInit PROVE Hoare!HoareInit
  OBVIOUS
<1>1. /\ value = [s \in Sem |-> IF s = Mutex THEN 1 ELSE 0]
      /\ queue = [s \in Sem |-> <<>>] /\ pc = [p \in Thread |-> "out"]
  BY DEF MonInit, MonitorInit, SemInit
<1>2. Mutex \in Sem /\ NextSem \in Sem /\ \A c \in Cond : c \in Sem
  BY MonitorAssumption
<1>3. Owner = NULL
  BY <1>1, <1>2, OwnerIs
<1>4. \A s : Standing(s, "signal_down") = <<>> /\ Standing(s, "wait_down") = <<>>
  <2>1. \A q \in Thread : pc[q] # "signal_down" /\ pc[q] # "wait_down"
    BY <1>1
  <2> QED
    BY <2>1, StandingIs
<1>5. <<>> \o <<>> = <<>>
  OBVIOUS
<1>6. Urgent = <<>> /\ Awaiting = [c \in Cond |-> <<>>]
  BY <1>1, <1>2, <1>4, <1>5 DEF Urgent, Awaiting
<1> QED
  BY <1>1, <1>2, <1>3, <1>6 DEF Hoare!HoareInit

(* The semaphores implement a Hoare monitor (cond_signal, cond_wait): the  *)
(* one who signals passes the monitor straight to the thread that has      *)
(* waited longest, and gets it back before anyone else enters.             *)
THEOREM HoareRefinement == MonSpec => ImplementsHoare
<1>1. MonInv({"in"}) /\ MonInv({"in"})' /\ [MonNext]_monVars
         => [Hoare!HoareNext]_Hoare!hoareVars
  BY HoareStep
<1> QED
  BY <1>1, HoareStart, MonInvHolds, PTL DEF MonSpec, ImplementsHoare, Hoare!HoareSpec

-----------------------------------------------------------------------------
(* The dinners: no two neighbours eat at the same time, at a table of any  *)
(* size: in both versions forks are only held by a philosopher that is     *)
(* EATING, and that no two neighbours are EATING is kept by each test on   *)
(* its own.  Nobody is forgotten: a philosopher that puts its forks back   *)
(* owes its right neighbour a test until it has made it, and it does so    *)
(* before anyone else gets the mutex.                                      *)

Sema == INSTANCE SemaphoreProofs WITH Sem <- Sem \ {NextSem}

States == {"THINKING", "HUNGRY", "EATING"}

Apart(states) ==
    \A i \in Thread :
        i # LEFT(i) => ~(states[i] = "EATING" /\ states[LEFT(i)] = "EATING")

(* What cond_signal and cond_wait return to is before or after eating.     *)
Back == {"check", "put_right", "put_leave"}

MonitorTable ==
    /\ DOMAIN pc = Thread /\ DOMAIN ret = Thread
    /\ state_condvar \in [Thread -> States]
    /\ Apart(state_condvar)
    /\ \A p \in Thread : HasForks(p) => state_condvar[p] = "EATING"
    /\ \A p \in Thread : pc[p] \in MonitorPcs => ret[p] \in Back

(* Where i's thread and the permit of s[i] are.  The permit is counted, on *)
(* its way to i or spent only while i is EATING, so the test that makes i  *)
(* EATING gives the first.  A hungry i has not returned from down(&s[i]).  *)
Seated(i) ==
    /\ value[i] > 0 => /\ value[i] = 1
                       /\ state_condvar[i] = "EATING"
                       /\ pc[i] \in {"take_unlock", "take_down"}
    /\ BySem!HasForks(i) => state_condvar[i] = "EATING"
    /\ waiting[i] = i /\ i \notin BySem!Queued(i) => state_condvar[i] = "EATING"
    /\ state_condvar[i] = "HUNGRY" => \/ pc[i] \in {"take_unlock", "take_down"}
                                      \/ pc[i] = "eat" /\ waiting[i] = i
    /\ waiting[i] # NULL => \/ waiting[i] = Mutex /\ pc[i] \in {"take", "put"}
                            \/ waiting[i] = i /\ pc[i] = "eat"

SemTable ==
    /\ Sema!IndInv
    /\ DOMAIN pc = Thread
    /\ state_condvar \in [Thread -> States]
    /\ Apart(state_condvar)
    /\ \A i \in Thread : Seated(i)

-----------------------------------------------------------------------------
(* The table.                                                              *)

LEMMA Neighbours ==
  ASSUME NEW i \in Thread
  PROVE  /\ LEFT(i) \in Thread /\ RIGHT(i) \in Thread
         /\ RIGHT(LEFT(i)) = i /\ LEFT(RIGHT(i)) = i
<1>1. N \in Nat /\ N > 0 /\ Thread = 0..N - 1 /\ i \in 0..N - 1
  BY PhiloAssumption
<1>2. LEFT(i) = IF i = 0 THEN N - 1 ELSE i - 1
  BY <1>1 DEF LEFT
<1>3. RIGHT(i) = IF i = N - 1 THEN 0 ELSE i + 1
  BY <1>1 DEF RIGHT
<1>4. RIGHT(LEFT(i)) = i
  BY <1>1, <1>2 DEF RIGHT
<1>5. LEFT(RIGHT(i)) = i
  BY <1>1, <1>3 DEF LEFT
<1> QED
  BY <1>1, <1>2, <1>3, <1>4, <1>5

(* A test that finds neither neighbour EATING may make i EATING.           *)
LEMMA TestKeepsApart ==
  ASSUME NEW states \in [Thread -> States], Apart(states), NEW i \in Thread,
         states[LEFT(i)] # "EATING", states[RIGHT(i)] # "EATING"
  PROVE  Apart([states EXCEPT ![i] = "EATING"])
<1> DEFINE after == [states EXCEPT ![i] = "EATING"]
<1> SUFFICES ASSUME NEW j \in Thread, j # LEFT(j),
                    after[j] = "EATING", after[LEFT(j)] = "EATING"
             PROVE  FALSE
  BY DEF Apart
<1>1. LEFT(j) \in Thread /\ RIGHT(LEFT(j)) = j
  BY Neighbours
<1>2. CASE j = i
  BY <1>1, <1>2
<1>3. CASE j # i /\ LEFT(j) = i
  BY <1>1, <1>3
<1>4. CASE j # i /\ LEFT(j) # i
  BY <1>1, <1>4 DEF Apart
<1> QED
  BY <1>2, <1>3, <1>4

(* Who stops eating or becomes hungry disturbs nobody.                     *)
LEMMA LeavingKeepsApart ==
  ASSUME NEW states \in [Thread -> States], Apart(states), NEW i \in Thread,
         NEW new \in {"THINKING", "HUNGRY"}
  PROVE  /\ Apart([states EXCEPT ![i] = new])
         /\ [states EXCEPT ![i] = new] \in [Thread -> States]
<1>1. \A j \in Thread : LEFT(j) \in Thread
  BY Neighbours
<1> QED
  BY <1>1 DEF Apart, States

-----------------------------------------------------------------------------
(* The dinner with the monitor.                                            *)

(* phi_test_condvar(i) by p.                                               *)
LEMMA MonitorTestInv ==
  ASSUME MonitorTable, NEW p \in Thread, NEW i \in Thread, NEW states, NEW from, NEW to,
         from \in {"take", "put", "put_right"}, to \in Back,
         states \in [Thread -> States], Apart(states),
         \A q \in Thread : q # p => states[q] = state_condvar[q],
         Test(p, i, states, from, to)
  PROVE  MonitorTable'
<1>1. /\ state_condvar' \in [Thread -> States] /\ Apart(state_condvar')
      /\ \A q \in Thread : q # p /\ state_condvar[q] = "EATING" => state_condvar'[q] = "EATING"
  <2>1. CASE state_condvar' = states
    BY <2>1
  <2>2. CASE /\ state_condvar' = [states EXCEPT ![i] = "EATING"]
             /\ states[LEFT(i)] # "EATING" /\ states[RIGHT(i)] # "EATING"
    <3>1. Apart(state_condvar')
      BY <2>2, TestKeepsApart
    <3> QED
      BY <2>2, <3>1 DEF States
  <2> QED
    BY <2>1, <2>2 DEF Test
<1>2. /\ pc' \in {[pc EXCEPT ![p] = to], [pc EXCEPT ![p] = "signal_down"]}
      /\ ret' \in {ret, [ret EXCEPT ![p] = to]}
      /\ pc'[p] = "signal_down" => ret'[p] = to
  BY DEF Test, Signal, At, GoOn, MonitorTable, Back
<1>3. Apart(state_condvar)'
  BY <1>1 DEF Apart, LEFT
<1>4. /\ DOMAIN pc' = Thread /\ DOMAIN ret' = Thread
      /\ \A q \in Thread : q # p => pc'[q] = pc[q] /\ ret'[q] = ret[q]
      /\ pc'[p] \in {to, "signal_down"}
      /\ pc'[p] = "signal_down" => ret'[p] = to
  <2>1. DOMAIN pc = Thread /\ DOMAIN ret = Thread
    BY DEF MonitorTable
  <2> QED
    BY <1>2, <2>1
<1>5. ASSUME NEW q \in Thread, HasForks(q)' PROVE state_condvar'[q] = "EATING"
  <2>1. q # p
    BY <1>4, <1>5 DEF HasForks, Back
  <2> QED
    BY <1>1, <1>4, <1>5, <2>1 DEF MonitorTable, HasForks
<1>6. ASSUME NEW q \in Thread, pc'[q] \in MonitorPcs PROVE ret'[q] \in Back
  BY <1>4, <1>6 DEF MonitorTable, MonitorPcs, Back
<1> QED
  BY <1>1, <1>3, <1>4, <1>5, <1>6 DEF MonitorTable

LEMMA MonitorInv == MonitorTable /\ [PhiNext]_phiVars => MonitorTable'
<1> SUFFICES ASSUME MonitorTable, [PhiNext]_phiVars PROVE MonitorTable'
  OBVIOUS
<1>0. /\ DOMAIN pc = Thread /\ DOMAIN ret = Thread
      /\ state_condvar \in [Thread -> States] /\ Apart(state_condvar)
  BY DEF MonitorTable
<1>1. ASSUME NEW p \in Thread, Take(p) PROVE MonitorTable'
  <2> DEFINE states == [state_condvar EXCEPT ![p] = "HUNGRY"]
  <2>1. /\ states \in [Thread -> States] /\ Apart(states)
        /\ \A q \in Thread : q # p => states[q] = state_condvar[q]
    BY <1>0, LeavingKeepsApart
  <2>2. Test(p, p, states, "take", "check")
    BY <1>1 DEF Take
  <2> HIDE DEF states
  <2> QED
    BY <2>1, <2>2, MonitorTestInv DEF Back
<1>2. ASSUME NEW p \in Thread, Put(p) PROVE MonitorTable'
  <2> DEFINE states == [state_condvar EXCEPT ![p] = "THINKING"]
  <2>1. /\ states \in [Thread -> States] /\ Apart(states)
        /\ \A q \in Thread : q # p => states[q] = state_condvar[q]
    BY <1>0, LeavingKeepsApart
  <2>2. Test(p, LEFT(p), states, "put", "put_right")
    BY <1>2 DEF Put
  <2> HIDE DEF states
  <2> QED
    BY <2>1, <2>2, MonitorTestInv, Neighbours DEF Back
<1>3. ASSUME NEW p \in Thread, PutRight(p) PROVE MonitorTable'
  <2>1. Test(p, RIGHT(p), state_condvar, "put_right", "put_leave")
    BY <1>3 DEF PutRight
  <2> QED
    BY <1>0, <2>1, MonitorTestInv, Neighbours DEF Back
<1>4. ASSUME NEW p \in Thread, UNCHANGED <<state_condvar, ret>>,
             NEW to, pc' = [pc EXCEPT ![p] = to], to \notin MonitorPcs,
             to \in {"eat", "put_enter", "put"} =>
                HasForks(p) \/ state_condvar[p] = "EATING"
      PROVE  MonitorTable'
  BY <1>4 DEF MonitorTable, HasForks, Apart, LEFT, MonitorPcs
<1>5. ASSUME NEW p \in Thread,
             \/ Think(p) \/ TakeEnter(p) \/ TakeLeave(p)
             \/ Eat(p) \/ PutEnter(p) \/ PutLeave(p) \/ Quit(p)
      PROVE  MonitorTable'
  <2>1. CASE Think(p)
    BY <1>4, <2>1 DEF Think, Nap, GoOn, outside, MonitorPcs
  <2>2. CASE TakeEnter(p)
    BY <1>4, <2>2 DEF TakeEnter, Enter, GoOn, outside, MonitorPcs
  <2>3. CASE TakeLeave(p)
    BY <1>4, <2>3 DEF TakeLeave, Leave, GoOn, outside, MonitorPcs
  <2>4. CASE Eat(p)
    BY <1>4, <2>4 DEF Eat, Nap, GoOn, At, HasForks, outside, MonitorPcs
  <2>5. CASE PutEnter(p)
    BY <1>4, <2>5 DEF PutEnter, Enter, GoOn, At, HasForks, outside, MonitorPcs
  <2>6. CASE PutLeave(p)
    BY <1>4, <2>6 DEF PutLeave, Leave, GoOn, MonitorPcs
  <2>7. CASE Quit(p)
    BY <1>4, <2>7 DEF Quit, GoOn, outside, MonitorPcs
  <2> QED
    BY <1>5, <2>1, <2>2, <2>3, <2>4, <2>5, <2>6, <2>7
<1>6. ASSUME NEW p \in Thread, TakeWait(p) PROVE MonitorTable'
  <2>1. /\ pc' = [pc EXCEPT ![p] = "wait_down"] /\ ret' = [ret EXCEPT ![p] = "check"]
        /\ UNCHANGED state_condvar
    BY <1>6 DEF TakeWait, Wait, outside
  <2> QED
    BY <2>1 DEF MonitorTable, HasForks, Apart, LEFT, MonitorPcs, Back
<1>7. ASSUME NEW p \in Thread, SignalDown(p) \/ SignalEnd(p) \/ WaitDown(p) \/ WaitEnd(p),
             UNCHANGED outside
      PROVE  MonitorTable'
  <2>1. /\ pc[p] \in MonitorPcs /\ UNCHANGED <<ret, state_condvar>>
        /\ \/ \E to \in MonitorPcs : pc' = [pc EXCEPT ![p] = to]
           \/ pc' = [pc EXCEPT ![p] = ret[p]]
    BY <1>7 DEF SignalDown, SignalEnd, WaitDown, WaitEnd, At, GoOn, outside, MonitorPcs
  <2> QED
    BY <2>1 DEF MonitorTable, HasForks, Apart, LEFT, MonitorPcs, Back
<1>8. ASSUME UNCHANGED <<pc, ret, state_condvar>> PROVE MonitorTable'
  BY <1>8 DEF MonitorTable, HasForks, Apart, LEFT
<1> QED
  BY <1>1, <1>2, <1>3, <1>5, <1>6, <1>7, <1>8
     DEF PhiNext, Philosopher, MonitorStep, phiVars, monVars, outside

-----------------------------------------------------------------------------
(* The dinner with semaphores.  Its semaphores are s[i], named i, and the  *)
(* mutex, and Sema is SemaphoreProofs about these; BySem!Up and Sema!Up are*)
(* the same formula in two instances, as the first step of each lemma says.*)

SemaSems == Sem \ {NextSem}

LEMMA Semas ==
  /\ SemaSems = Thread \cup {Mutex}
  /\ Mutex \notin Thread /\ NULL \notin Thread /\ NULL # Mutex
BY MonitorAssumption, PhiloAssumption, ThreadAssumption DEF SemaSems

(* The assumption of Sema.                                                 *)
LEMMA SemasAssumption ==
  /\ Sema!IsFiniteSet(Thread)
  /\ Idle \notin Thread /\ NULL \notin (Sem \ {NextSem}) \cup Thread
BY ThreadAssumption DEF IsFiniteSet, Sema!IsFiniteSet

(* What up, down and the return of down do to permits and queues.          *)
LEMMA SemaUp ==
  ASSUME Sema!IndInv, NEW s \in SemaSems, NEW p \in Thread, BySem!Active(p), BySem!Up(s)
  PROVE  /\ Sema!IndInv'
         /\ waiting' = waiting
         /\ \/ /\ BySem!Queued(s) = {} /\ value' = [value EXCEPT ![s] = @ + 1]
               /\ \A t \in SemaSems : BySem!Queued(t)' = BySem!Queued(t)
            \/ /\ value' = value
               /\ \E h \in BySem!Queued(s) \cap Thread :
                     /\ \A t \in SemaSems : h \notin BySem!Queued(t)'
                     /\ BySem!Queued(s)' = BySem!Queued(s) \ {h}
                     /\ \A t \in SemaSems \ {s} : BySem!Queued(t)' = BySem!Queued(t)
<1>1. Sema!Up(s) /\ Sema!Active(p)
  BY DEF BySem!Up, Sema!Up, BySem!Active, Sema!Active, BySem!Runs, Sema!Runs
<1>2. Sema!IndInv'
  BY <1>1, SemasAssumption, Sema!UpInv DEF SemaSems
<1>3. waiting' = waiting
  BY DEF BySem!Up
<1>4. \A t \in SemaSems : BySem!Queued(t) = Sema!Queued(t)
                          /\ BySem!Queued(t)' = Sema!Queued(t)'
  BY DEF BySem!Queued, Sema!Queued, BySem!ToSet, Sema!ToSet
<1>5. \/ /\ value' = [value EXCEPT ![s] = @ + 1] /\ Sema!Queued(s) = {}
         /\ \A t \in SemaSems : Sema!Queued(t)' = Sema!Queued(t)
      \/ /\ value' = value
         /\ \E h \in Sema!Queued(s) :
               /\ h \in Thread
               /\ \A t \in SemaSems : Sema!Queued(t)' =
                     IF t = s THEN Sema!Queued(s) \ {h} ELSE Sema!Queued(t)
               /\ \A t \in SemaSems : h \notin Sema!Queued(t)'
  BY <1>1, SemasAssumption, Sema!UpQueues DEF SemaSems
<1> QED
  BY <1>2, <1>3, <1>4, <1>5

LEMMA SemaDown ==
  ASSUME Sema!IndInv, NEW s \in SemaSems, NEW p \in Thread, BySem!Active(p), BySem!Down(p, s)
  PROVE  /\ Sema!IndInv'
         /\ \/ /\ waiting' = waiting /\ value[s] > 0 /\ value' = [value EXCEPT ![s] = @ - 1]
               /\ \A t \in SemaSems : BySem!Queued(t)' = BySem!Queued(t)
            \/ /\ waiting' = [waiting EXCEPT ![p] = s] /\ value' = value
               /\ ~(value[s] > 0)
               /\ \A t \in SemaSems :
                     BySem!Queued(t)' = IF t = s THEN BySem!Queued(s) \cup {p}
                                        ELSE BySem!Queued(t)
<1>1. Sema!Down(p, s) /\ Sema!Active(p)
  BY DEF BySem!Down, Sema!Down, BySem!DownTake, Sema!DownTake, BySem!DownBlock,
         Sema!DownBlock, BySem!Active, Sema!Active, BySem!Runs, Sema!Runs
<1>2. Sema!IndInv'
  BY <1>1, SemasAssumption, Sema!DownInv DEF SemaSems
<1>3. \/ BySem!DownTake(s) /\ value[s] > 0 /\ waiting' = waiting
      \/ BySem!DownBlock(p, s) /\ ~(value[s] > 0) /\ waiting' = [waiting EXCEPT ![p] = s]
  <2>1. value[s] \in Nat
    BY DEF Sema!IndInv, Sema!TypeOK, Sema!SemTypeOK, SemaSems
  <2> QED
    BY <2>1 DEF BySem!Down, BySem!DownTake, BySem!DownBlock
<1> QED
  BY <1>1, <1>2, <1>3, SemasAssumption, Sema!DownQueues
     DEF SemaSems, BySem!Queued, Sema!Queued, BySem!ToSet, Sema!ToSet

LEMMA SemaReturn ==
  ASSUME Sema!IndInv, NEW p \in Thread, BySem!DownReturn(p)
  PROVE  /\ Sema!IndInv'
         /\ waiting' = [waiting EXCEPT ![p] = NULL]
         /\ value' = value /\ queue' = queue
         /\ waiting[p] \in SemaSems /\ p \notin BySem!Queued(waiting[p])
<1>1. /\ current = p /\ ~resched /\ waiting[p] # NULL
      /\ waiting[p] \in SemaSems \cup {NULL}
      /\ wait_state[p] = "none"
  BY DEF BySem!DownReturn, BySem!Runs, SemaSems, Sema!IndInv, Sema!TypeOK,
         Sema!SemTypeOK, Sema!CpuInv
<1>2. \A s \in SemaSems : p \in Sema!Queued(s) =>
                              waiting[p] = s /\ wait_state[p] = "WT_KSEM"
  BY DEF Sema!IndInv, Sema!QueueExact, SemaSems
<1>3. p \notin Sema!Queued(waiting[p])
  BY <1>1, <1>2
<1>4. p \notin BySem!Queued(waiting[p])
  BY <1>3 DEF BySem!Queued, Sema!Queued, BySem!ToSet, Sema!ToSet
<1>5. /\ queue' = queue /\ waiting' = [waiting EXCEPT ![p] = NULL]
      /\ UNCHANGED <<current, resched, wait_state, value, wakeup_flags>>
  BY <1>4 DEF BySem!DownReturn
<1>6. Sema!DownReturn(p)
  BY <1>1, <1>3, <1>5 DEF Sema!DownReturn, Sema!Runs
<1>7. Sema!IndInv'
  BY <1>6, SemasAssumption, Sema!ReturnInv
<1> QED
  BY <1>1, <1>4, <1>5, <1>7

LEMMA SemaTypes ==
  ASSUME Sema!IndInv
  PROVE  /\ value \in [SemaSems -> Nat]
         /\ waiting \in [Thread -> SemaSems \cup {NULL}]
         /\ \A s \in SemaSems : \A p \in BySem!Queued(s) \cap Thread : waiting[p] = s
<1>1. \A s \in SemaSems : BySem!Queued(s) = Sema!Queued(s)
  BY DEF BySem!Queued, Sema!Queued, BySem!ToSet, Sema!ToSet
<1> QED
  BY <1>1 DEF SemaSems, Sema!IndInv, Sema!TypeOK,
              Sema!SemTypeOK, Sema!QueueExact

(* Sleeping, dispatching, a timer, the end of a thread.                    *)
LEMMA SemaOther ==
  ASSUME Sema!IndInv,
         \/ \E p \in Thread : \/ BySem!Active(p) /\ (BySem!Sleep(p) \/ BySem!Exit(p))
                              \/ BySem!TimerFires(p)
         \/ BySem!Dispatch
  PROVE  Sema!IndInv' /\ UNCHANGED <<value, queue, waiting>>
<1>1. ASSUME NEW p \in Thread, BySem!Active(p), BySem!Sleep(p) PROVE Sema!UserSleep(p)
  BY <1>1 DEF BySem!Active, BySem!Runs, BySem!Sleep, Sema!UserSleep, Sema!Active,
              Sema!Runs, Sema!Sleep
<1>2. ASSUME NEW p \in Thread, BySem!Active(p), BySem!Exit(p) PROVE Sema!UserExit(p)
  BY <1>2 DEF BySem!Active, BySem!Runs, BySem!Exit, Sema!UserExit, Sema!Active,
              Sema!Runs, Sema!Exit
<1>3. ASSUME NEW p \in Thread, BySem!TimerFires(p) PROVE Sema!TimerFires(p)
  BY <1>3 DEF BySem!TimerFires, Sema!TimerFires
<1>4. BySem!Dispatch => Sema!Dispatch
  BY DEF BySem!Dispatch, BySem!Runnable, Sema!Dispatch, Sema!Runnable
<1>5. Sema!Next
  BY <1>1, <1>2, <1>3, <1>4 DEF Sema!Next, Sema!KernelStep
<1> QED
  BY <1>5, SemasAssumption, Sema!NextInv
     DEF BySem!Sleep, BySem!Exit, BySem!TimerFires, BySem!Dispatch

(* A philosopher that a step leaves alone.                                 *)
LEMMA Undisturbed ==
  ASSUME NEW i \in Thread, Seated(i), value'[i] = value[i], waiting'[i] = waiting[i],
         BySem!Queued(i)' = BySem!Queued(i), pc'[i] = pc[i],
         state_condvar'[i] = state_condvar[i]
  PROVE  Seated(i)'
BY DEF Seated, BySem!HasForks

(* phi_test_sema(i) by p: a permit for i, if it becomes EATING, is the only*)
(* one, for i was HUNGRY.                                                  *)
LEMMA SemTestInv ==
  ASSUME SemTable, NEW p \in Thread, NEW i \in Thread, NEW states, NEW to,
         BySem!Active(p), pc[p] \in {"take", "put", "put_right"},
         states \in [Thread -> States], Apart(states),
         \A q \in Thread : q # p => states[q] = state_condvar[q],
         states[p] \in {"HUNGRY", "THINKING"} \/ pc[p] = "put_right",
         states[p] = "HUNGRY" => to = "take_unlock",
         to \in {"take_unlock", "put_right", "put_unlock"},
         pc' = [pc EXCEPT ![p] = to],
         BySem!Test(i, states)
  PROVE  SemTable'
<1>0. /\ DOMAIN pc = Thread /\ \A q \in Thread : Seated(q)
      /\ i \in SemaSems /\ p \in SemaSems /\ Thread \subseteq SemaSems /\ Sema!IndInv
      /\ waiting[p] = NULL
  BY Semas DEF SemTable, BySem!Active
<1>1. value[p] = 0
  BY <1>0, SemaTypes DEF Seated
<1>2. CASE state_condvar' = states /\ UNCHANGED BySem!semVars
  <2>1. /\ UNCHANGED <<value, queue, waiting>>
        /\ \A q \in Thread : BySem!Queued(q)' = BySem!Queued(q)
    BY <1>2 DEF BySem!semVars, BySem!Queued
  <2>2. Sema!IndInv'
    BY <1>0, <1>2, SemasAssumption, Sema!NextInv DEF BySem!semVars, Sema!semVars
  <2>3. ASSUME NEW q \in Thread, q # p PROVE Seated(q)'
    BY <1>0, <1>2, <2>1, <2>3, Undisturbed
  <2>4. Seated(p)'
    BY <1>0, <1>1, <1>2, <2>1, Semas DEF Seated, BySem!HasForks
  <2>5. Apart(state_condvar)'
    BY <1>2 DEF Apart, LEFT
  <2> QED
    BY <1>0, <1>2, <2>2, <2>3, <2>4, <2>5 DEF SemTable
<1>3. CASE /\ states[i] = "HUNGRY" /\ BySem!Up(i)
           /\ states[LEFT(i)] # "EATING" /\ states[RIGHT(i)] # "EATING"
           /\ state_condvar' = [states EXCEPT ![i] = "EATING"]
  <2>1. i = p => to = "take_unlock"
    BY <1>3
  <2>2. value[i] = 0 /\ (i # p => state_condvar[i] = "HUNGRY")
    BY <1>0, <1>1, <1>3, SemaTypes DEF Seated
  <2>3. /\ Sema!IndInv' /\ waiting' = waiting
        /\ \/ /\ BySem!Queued(i) = {} /\ value' = [value EXCEPT ![i] = @ + 1]
              /\ \A t \in SemaSems : BySem!Queued(t)' = BySem!Queued(t)
           \/ /\ value' = value
              /\ \E h \in BySem!Queued(i) \cap Thread :
                    /\ \A t \in SemaSems : h \notin BySem!Queued(t)'
                    /\ \A t \in SemaSems \ {i} : BySem!Queued(t)' = BySem!Queued(t)
    BY <1>0, <1>3, SemaUp
  <2>4. value \in [SemaSems -> Nat]
    BY <1>0, SemaTypes
  <2>5. ASSUME NEW q \in Thread, q # p, q # i PROVE Seated(q)'
    <3>1. /\ value'[q] = value[q] /\ waiting'[q] = waiting[q]
          /\ BySem!Queued(q)' = BySem!Queued(q)
      BY <1>0, <2>3, <2>4, <2>5
    <3>2. pc'[q] = pc[q] /\ state_condvar'[q] = state_condvar[q]
      BY <1>0, <1>3, <2>5
    <3> QED
      BY <1>0, <3>1, <3>2, Undisturbed
  <2>6. ASSUME p # i PROVE Seated(p)'
    <3>1. value'[p] = 0 /\ waiting'[p] = NULL /\ pc'[p] = to /\ state_condvar'[p] = states[p]
      BY <1>0, <1>1, <1>3, <2>3, <2>4, <2>6
    <3> QED
      BY <3>1, Semas DEF Seated, BySem!HasForks
  <2>7. Seated(i)'
    <3>1. state_condvar'[i] = "EATING" /\ waiting'[i] = waiting[i]
      BY <1>3, <2>3
    <3>2. waiting[i] # NULL => \/ waiting[i] = Mutex /\ pc[i] \in {"take", "put"}
                               \/ waiting[i] = i /\ pc[i] = "eat"
      BY <1>0 DEF Seated
    <3>3. waiting'[i] # NULL => \/ waiting'[i] = Mutex /\ pc'[i] \in {"take", "put"}
                                \/ waiting'[i] = i /\ pc'[i] = "eat"
      BY <1>0, <3>1, <3>2
    <3>4. value'[i] > 0 => value'[i] = 1 /\ pc'[i] \in {"take_unlock", "take_down"}
      <4>1. CASE i = p
        BY <1>0, <2>1, <2>2, <2>3, <2>4, <4>1
      <4>2. CASE i # p
        <5>1. state_condvar[i] = "HUNGRY" /\ pc'[i] = pc[i] /\ Seated(i)
          BY <1>0, <2>2, <4>2
        <5>2. \/ pc[i] \in {"take_unlock", "take_down"}
              \/ waiting[i] = i /\ i \in BySem!Queued(i)
          BY <5>1 DEF Seated
        <5>3. CASE value' = value
          BY <1>0, <2>2, <5>3
        <5>4. CASE BySem!Queued(i) = {} /\ value' = [value EXCEPT ![i] = @ + 1]
          BY <1>0, <2>2, <2>4, <5>1, <5>2, <5>4
        <5> QED
          BY <2>3, <5>3, <5>4
      <4> QED
        BY <4>1, <4>2
    <3> QED
      BY <3>1, <3>3, <3>4 DEF Seated
  <2>8. Apart(state_condvar) ' /\ state_condvar' \in [Thread -> States]
    <3>1. Apart([states EXCEPT ![i] = "EATING"])
      BY <1>3, TestKeepsApart
    <3> QED
      BY <1>3, <3>1 DEF Apart, LEFT, States
  <2> QED
    BY <1>0, <2>3, <2>5, <2>6, <2>7, <2>8 DEF SemTable
<1>4. /\ BySem!LEFT(i) = LEFT(i) /\ BySem!RIGHT(i) = RIGHT(i)
  BY DEF LEFT, RIGHT, BySem!LEFT, BySem!RIGHT
<1> QED
  BY <1>2, <1>3, <1>4 DEF BySem!Test

(* A step of p that tests nobody.                                          *)
LEMMA SemStepInv ==
  ASSUME SemTable, NEW p \in Thread, Sema!IndInv', UNCHANGED state_condvar,
         DOMAIN pc' = Thread,
         \A q \in Thread \ {p} :
            /\ value'[q] = value[q] /\ waiting'[q] = waiting[q]
            /\ BySem!Queued(q)' = BySem!Queued(q) /\ pc'[q] = pc[q],
         Seated(p)'
  PROVE  SemTable'
<1>1. \A q \in Thread : Seated(q)'
  BY Undisturbed DEF SemTable
<1>2. Apart(state_condvar)'
  BY DEF SemTable, Apart, LEFT
<1> QED
  BY <1>1, <1>2 DEF SemTable

(* down(&mutex) and up(&mutex) around the table.                           *)
LEMMA LockInv ==
  ASSUME SemTable, NEW p \in Thread, BySem!Active(p), UNCHANGED state_condvar, NEW to,
         pc' = [pc EXCEPT ![p] = to],
         \/ BySem!Down(p, Mutex) /\ pc[p] = "take_lock" /\ to = "take"
         \/ BySem!Down(p, Mutex) /\ pc[p] = "put_lock" /\ to = "put"
         \/ BySem!Up(Mutex) /\ pc[p] = "take_unlock" /\ to = "take_down"
         \/ BySem!Up(Mutex) /\ pc[p] = "put_unlock" /\ to \in {"think", "quit"}
  PROVE  SemTable'
<1>0. /\ DOMAIN pc = Thread /\ Seated(p) /\ Sema!IndInv /\ waiting[p] = NULL
      /\ Mutex \in SemaSems /\ Mutex \notin Thread /\ NULL \notin Thread
      /\ Thread \subseteq SemaSems
  BY Semas DEF SemTable, BySem!Active
<1>1. value \in [SemaSems -> Nat] /\ waiting \in [Thread -> SemaSems \cup {NULL}]
  BY <1>0, SemaTypes
<1>2. /\ Sema!IndInv'
      /\ \A q \in Thread : value'[q] = value[q] /\ BySem!Queued(q)' = BySem!Queued(q)
      /\ \/ waiting' = waiting
         \/ waiting' = [waiting EXCEPT ![p] = Mutex] /\ to \in {"take", "put"}
  <2>1. CASE BySem!Down(p, Mutex)
    <3>1. Sema!IndInv'
      BY <1>0, <2>1, SemaDown
    <3>2. to \in {"take", "put"} \/ waiting' = waiting
      BY <2>1 DEF BySem!Up
    <3> QED
      BY <1>0, <1>1, <2>1, <3>1, <3>2, SemaDown
  <2>2. CASE BySem!Up(Mutex)
    BY <1>0, <1>1, <2>2, SemaUp
  <2> QED
    BY <2>1, <2>2
<1>3. \A q \in Thread \ {p} : waiting'[q] = waiting[q] /\ pc'[q] = pc[q]
  BY <1>0, <1>1, <1>2
<1>4. value'[p] = value[p] /\ pc'[p] = to /\ state_condvar'[p] = state_condvar[p]
      /\ (waiting'[p] = NULL \/ (waiting'[p] = Mutex /\ to \in {"take", "put"}))
  BY <1>0, <1>1, <1>2
<1>5. Seated(p)'
  BY <1>0, <1>4 DEF Seated, BySem!HasForks
<1> QED
  BY <1>0, <1>2, <1>3, <1>5, SemStepInv

(* down(&s[p]): with the permit in hand p is EATING.                       *)
LEMMA TakeDownInv ==
  ASSUME SemTable, NEW p \in Thread, BySem!TakeDown(p)
  PROVE  SemTable'
<1>0. /\ DOMAIN pc = Thread /\ Seated(p) /\ Sema!IndInv /\ waiting[p] = NULL
      /\ p \in SemaSems /\ Mutex \notin Thread /\ NULL \notin Thread
      /\ Thread \subseteq SemaSems
      /\ BySem!Active(p) /\ BySem!Down(p, p)
      /\ pc[p] = "take_down" /\ pc' = [pc EXCEPT ![p] = "eat"] /\ UNCHANGED state_condvar
  BY Semas DEF SemTable, BySem!Active, BySem!TakeDown, BySem!At, BySem!GoTo
<1>1. value \in [SemaSems -> Nat] /\ waiting \in [Thread -> SemaSems \cup {NULL}]
  BY <1>0, SemaTypes
<1>2. CASE /\ waiting' = waiting /\ value[p] > 0 /\ value' = [value EXCEPT ![p] = @ - 1]
           /\ \A t \in SemaSems : BySem!Queued(t)' = BySem!Queued(t)
  <2>1. state_condvar[p] = "EATING" /\ value'[p] = 0
    BY <1>0, <1>1, <1>2 DEF Seated
  <2>2. Seated(p)'
    BY <1>0, <1>2, <2>1 DEF Seated, BySem!HasForks
  <2> QED
    BY <1>0, <1>1, <1>2, <2>2, SemaDown, SemStepInv
<1>3. CASE /\ waiting' = [waiting EXCEPT ![p] = p] /\ value' = value /\ ~(value[p] > 0)
           /\ \A t \in SemaSems :
                 BySem!Queued(t)' = IF t = p THEN BySem!Queued(p) \cup {p} ELSE BySem!Queued(t)
  <2>1. p \in BySem!Queued(p)' /\ ~(value'[p] > 0) /\ waiting'[p] = p /\ pc'[p] = "eat"
    BY <1>0, <1>1, <1>3
  <2>2. Seated(p)'
    BY <1>0, <2>1 DEF Seated, BySem!HasForks
  <2>3. Sema!IndInv'
    BY <1>0, SemaDown
  <2> QED
    BY <1>0, <1>1, <1>3, <2>2, <2>3, SemStepInv
<1> QED
  BY <1>0, <1>2, <1>3, SemaDown

(* A down that returns from s[p] returns to an EATING p.                   *)
LEMMA DownReturnInv ==
  ASSUME SemTable, NEW p \in Thread, BySem!DownReturn(p), UNCHANGED <<state_condvar, pc>>
  PROVE  SemTable'
<1>0. /\ DOMAIN pc = Thread /\ Seated(p) /\ Sema!IndInv
      /\ Mutex \notin Thread /\ NULL \notin Thread
  BY Semas DEF SemTable
<1>1. /\ Sema!IndInv' /\ waiting' = [waiting EXCEPT ![p] = NULL]
      /\ value' = value /\ queue' = queue
      /\ waiting[p] # NULL /\ p \notin BySem!Queued(waiting[p])
  BY <1>0, SemaReturn DEF BySem!DownReturn
<1>2. waiting \in [Thread -> SemaSems \cup {NULL}]
  BY <1>0, SemaTypes
<1>3. \A q \in Thread : BySem!Queued(q)' = BySem!Queued(q)
  BY <1>1 DEF BySem!Queued
<1>4. pc[p] = "eat" => state_condvar[p] = "EATING"
  BY <1>0, <1>1 DEF Seated
<1>5. waiting'[p] = NULL /\ value'[p] = value[p]
  BY <1>1, <1>2
<1>6. Seated(p)'
  BY <1>0, <1>1, <1>3, <1>4, <1>5 DEF Seated, BySem!HasForks
<1> QED
  BY <1>0, <1>1, <1>2, <1>3, <1>6, SemStepInv

(* Steps that touch neither semaphores nor states.                         *)
LEMMA RestInv ==
  ASSUME SemTable, UNCHANGED state_condvar,
         \/ /\ \E p \in Thread : BySem!TimerFires(p)
            /\ UNCHANGED pc
         \/ BySem!Dispatch /\ UNCHANGED pc
         \/ \E p \in Thread : BySem!Think(p) \/ BySem!Eat(p) \/ BySem!Quit(p)
  PROVE  SemTable'
<1>0. Sema!IndInv /\ DOMAIN pc = Thread /\ \A q \in Thread : Seated(q)
  BY DEF SemTable
<1>1. Sema!IndInv' /\ UNCHANGED <<value, queue, waiting>>
  BY <1>0, SemaOther DEF BySem!Think, BySem!Eat, BySem!Quit, BySem!At
<1>2. \A q \in Thread : BySem!Queued(q)' = BySem!Queued(q)
  BY <1>1 DEF BySem!Queued
<1>3. CASE UNCHANGED pc
  <2>1. \A q \in Thread : Seated(q)'
    BY <1>0, <1>1, <1>2, <1>3, Undisturbed
  <2> QED
    BY <1>0, <1>1, <1>3, <2>1 DEF SemTable, Apart, LEFT
<1>4. ASSUME NEW p \in Thread, BySem!Think(p) \/ BySem!Eat(p) \/ BySem!Quit(p)
      PROVE  SemTable'
  <2>1. /\ waiting[p] = NULL
        /\ \/ pc[p] = "think" /\ pc' = [pc EXCEPT ![p] = "take_lock"]
           \/ pc[p] = "eat" /\ pc' = [pc EXCEPT ![p] = "put_lock"]
           \/ pc[p] = "quit" /\ pc' = [pc EXCEPT ![p] = "gone"]
    BY <1>4 DEF BySem!Think, BySem!Eat, BySem!Quit, BySem!At, BySem!GoTo, BySem!Active
  <2>2. \A q \in Thread \ {p} : pc'[q] = pc[q]
    BY <1>0, <2>1
  <2>3. Seated(p)'
    BY <1>0, <1>1, <1>2, <2>1 DEF Seated, BySem!HasForks
  <2> QED
    BY <1>0, <1>1, <1>2, <2>1, <2>2, <2>3, SemStepInv
<1> QED
  BY <1>3, <1>4

LEMMA SemInv == SemTable /\ BySem!PhiNext => SemTable'
<1> SUFFICES ASSUME SemTable, BySem!PhiNext PROVE SemTable'
  OBVIOUS
<1>0. state_condvar \in [Thread -> States] /\ Apart(state_condvar)
  BY DEF SemTable
<1>1. ASSUME NEW p \in Thread, BySem!Take(p) PROVE SemTable'
  <2> DEFINE states == [state_condvar EXCEPT ![p] = "HUNGRY"]
  <2>1. /\ states \in [Thread -> States] /\ Apart(states) /\ states[p] = "HUNGRY"
        /\ \A q \in Thread : q # p => states[q] = state_condvar[q]
    BY <1>0, LeavingKeepsApart
  <2>2. /\ BySem!Test(p, states) /\ BySem!Active(p) /\ pc[p] = "take"
        /\ pc' = [pc EXCEPT ![p] = "take_unlock"]
    BY <1>1 DEF BySem!Take, BySem!At
  <2> HIDE DEF states
  <2> QED
    BY <2>1, <2>2, SemTestInv
<1>2. ASSUME NEW p \in Thread, BySem!Put(p) PROVE SemTable'
  <2> DEFINE states == [state_condvar EXCEPT ![p] = "THINKING"]
  <2>1. /\ states \in [Thread -> States] /\ Apart(states) /\ states[p] = "THINKING"
        /\ \A q \in Thread : q # p => states[q] = state_condvar[q]
    BY <1>0, LeavingKeepsApart
  <2>2. /\ BySem!Test(LEFT(p), states) /\ BySem!Active(p) /\ pc[p] = "put"
        /\ pc' = [pc EXCEPT ![p] = "put_right"]
    BY <1>2 DEF BySem!Put, BySem!At, BySem!LEFT, LEFT
  <2> HIDE DEF states
  <2> QED
    BY <2>1, <2>2, SemTestInv, Neighbours
<1>3. ASSUME NEW p \in Thread, BySem!PutRight(p) PROVE SemTable'
  <2>1. /\ BySem!Test(RIGHT(p), state_condvar) /\ BySem!Active(p) /\ pc[p] = "put_right"
        /\ pc' = [pc EXCEPT ![p] = "put_unlock"]
    BY <1>3 DEF BySem!PutRight, BySem!At, BySem!RIGHT, RIGHT
  <2>2. state_condvar[p] # "HUNGRY"
    BY <2>1, Semas DEF SemTable, Seated, BySem!Active
  <2> QED
    BY <1>0, <2>1, <2>2, SemTestInv, Neighbours
<1>4. ASSUME NEW p \in Thread,
             BySem!TakeLock(p) \/ BySem!PutLock(p) \/ BySem!TakeUnlock(p) \/ BySem!PutUnlock(p)
      PROVE  SemTable'
  <2>1. PICK to : /\ pc' = [pc EXCEPT ![p] = to] /\ BySem!Active(p) /\ UNCHANGED state_condvar
                  /\ \/ BySem!Down(p, Mutex) /\ pc[p] = "take_lock" /\ to = "take"
                     \/ BySem!Down(p, Mutex) /\ pc[p] = "put_lock" /\ to = "put"
                     \/ BySem!Up(Mutex) /\ pc[p] = "take_unlock" /\ to = "take_down"
                     \/ BySem!Up(Mutex) /\ pc[p] = "put_unlock" /\ to \in {"think", "quit"}
    BY <1>4 DEF BySem!TakeLock, BySem!PutLock, BySem!TakeUnlock, BySem!PutUnlock,
                BySem!At, BySem!GoTo
  <2> QED
    BY <2>1, LockInv
<1>5. ASSUME NEW p \in Thread, BySem!Think(p) \/ BySem!Eat(p) \/ BySem!Quit(p) PROVE SemTable'
  <2>1. UNCHANGED state_condvar
    BY <1>5 DEF BySem!Think, BySem!Eat, BySem!Quit, BySem!GoTo
  <2> QED
    BY <1>5, <2>1, RestInv
<1>6. ASSUME BySem!KernelStep, UNCHANGED <<state_condvar, iter, pc>> PROVE SemTable'
  BY <1>6, DownReturnInv, RestInv DEF BySem!KernelStep
<1> QED
  BY <1>1, <1>2, <1>3, <1>4, <1>5, <1>6, TakeDownInv DEF BySem!PhiNext, BySem!Philosopher

LEMMA SemTableInit == BySem!PhiInit => SemTable
<1> SUFFICES ASSUME BySem!PhiInit PROVE SemTable
  OBVIOUS
<1> DEFINE initial == [s \in SemaSems |-> IF s = Mutex THEN 1 ELSE 0]
<1>0. /\ BySem!SemInit(initial) /\ DOMAIN pc = Thread
      /\ state_condvar = [i \in Thread |-> "THINKING"]
      /\ \A i \in Thread : pc[i] \in {"think", "quit"}
  BY DEF BySem!PhiInit, SemaSems
<1> HIDE DEF initial
<1>1. Sema!IndInv
  <2>1. initial \in [Sem \ {NextSem} -> Nat]
    BY DEF initial, SemaSems
  <2>2. Sema!SemInit(initial)
    BY <1>0 DEF BySem!SemInit, Sema!SemInit, SemaSems
  <2> QED
    BY <2>1, <2>2, SemasAssumption, Sema!SemInitInv
<1>2. \A i \in Thread : value[i] = 0 /\ waiting[i] = NULL
  BY <1>0, Semas DEF BySem!SemInit, initial
<1>3. ASSUME NEW i \in Thread PROVE Seated(i)
  BY <1>0, <1>2, Semas DEF Seated, BySem!HasForks
<1>4. Apart(state_condvar) /\ state_condvar \in [Thread -> States]
  BY <1>0, Neighbours DEF Apart, States
<1> QED
  BY <1>0, <1>1, <1>3, <1>4 DEF SemTable

-----------------------------------------------------------------------------

Table ==
    /\ version \in {"monitor", "semaphores"}
    /\ version = "monitor" => MonitorTable
    /\ version = "semaphores" => SemTable

LEMMA TableAtStart == CheckInit => Table
<1>1. PhiInit => MonitorTable
  <2> SUFFICES ASSUME PhiInit PROVE MonitorTable
    OBVIOUS
  <2>1. /\ DOMAIN pc = Thread /\ DOMAIN ret = Thread
        /\ state_condvar = [i \in Thread |-> "THINKING"]
        /\ \A i \in Thread : pc[i] \in {"think", "quit"}
    BY DEF PhiInit, MonitorInit
  <2> QED
    BY <2>1, Neighbours DEF MonitorTable, Apart, States, HasForks, MonitorPcs
<1> QED
  BY <1>1, SemTableInit DEF CheckInit, Table

LEMMA TableStep == Table /\ [CheckNext]_checkVars => Table'
<1> SUFFICES ASSUME Table, [CheckNext]_checkVars PROVE Table'
  OBVIOUS
<1>1. CASE version = "monitor" /\ [PhiNext]_phiVars /\ UNCHANGED version
  BY <1>1, MonitorInv DEF Table
<1>2. CASE version = "semaphores" /\ BySem!PhiNext /\ UNCHANGED version
  BY <1>2, SemInv DEF Table
<1>3. CASE version = "semaphores" /\ UNCHANGED checkVars
  <2>1. SemTable
    BY <1>3 DEF Table
  <2>2. UNCHANGED <<current, resched, wait_state, value, queue, waiting, wakeup_flags,
                    pc, state_condvar, version>>
    BY <1>3 DEF checkVars, phiVars, monVars, semVars
  <2>3. Sema!IndInv'
    BY <2>1, <2>2, SemasAssumption, Sema!NextInv DEF SemTable, Sema!semVars
  <2>4. \A q \in Thread : Seated(q)'
    BY <2>1, <2>2, Undisturbed DEF SemTable, BySem!Queued
  <2>5. Apart(state_condvar)'
    BY <2>1, <2>2 DEF SemTable, Apart, LEFT
  <2> QED
    BY <1>3, <2>1, <2>2, <2>3, <2>4, <2>5 DEF Table, SemTable
<1> QED
  BY <1>1, <1>2, <1>3 DEF CheckNext, checkVars, Table

LEMMA TableInv == CheckSpec => []Table
  BY TableAtStart, TableStep, PTL DEF CheckSpec

(* Whoever is next to an eating philosopher does not eat, at a table of    *)
(* any size and in both versions of check_sync.                            *)
THEOREM NeighboursNeverEatCorrect == CheckSpec => []NeighboursNeverEat
<1>1. Table => NeighboursNeverEat
  <2> SUFFICES ASSUME Table PROVE NeighboursNeverEat
    OBVIOUS
  <2>1. CASE version = "monitor"
    BY <2>1, Neighbours DEF Table, MonitorTable, NeighboursNeverEat, NeighboursApart, Apart
  <2>2. CASE version = "semaphores"
    <3>1. \A i \in Thread : BySem!LEFT(i) = LEFT(i)
      BY DEF BySem!LEFT, LEFT
    <3>2. \A i \in Thread : BySem!HasForks(i) => state_condvar[i] = "EATING"
      BY <2>2 DEF Table, SemTable, Seated
    <3>3. BySem!NeighboursApart
      BY <2>2, <3>1, <3>2, Neighbours DEF Table, SemTable, Apart, BySem!NeighboursApart
    <3> QED
      BY <2>2, <3>3 DEF NeighboursNeverEat
  <2> QED
    BY <2>1, <2>2 DEF Table
<1> QED
  BY <1>1, TableInv, PTL

-----------------------------------------------------------------------------
(* Nobody is forgotten.  Who is hungry has a neighbour that eats, or its   *)
(* left neighbour is owing: it has put its forks back and is still to look *)
(* to its right.                                                           *)
Remembered(states, owing) ==
    \A i \in Thread : states[i] = "HUNGRY" =>
        \/ states[LEFT(i)] = "EATING" \/ states[RIGHT(i)] = "EATING"
        \/ LEFT(i) \in owing

(* `after' is what a test of i makes of the states.                        *)
Tested(i, states, after) ==
    \/ /\ after = states
       /\ \/ states[i] # "HUNGRY"
          \/ states[LEFT(i)] = "EATING" \/ states[RIGHT(i)] = "EATING"
    \/ /\ after = [states EXCEPT ![i] = "EATING"]
       /\ states[i] = "HUNGRY"

(* A test settles its i and takes nobody's reason.                         *)
LEMMA TestSettles ==
  ASSUME NEW states \in [Thread -> States], NEW i \in Thread, NEW after, NEW owing,
         Tested(i, states, after),
         \A j \in Thread : j # i /\ states[j] = "HUNGRY" =>
            \/ states[LEFT(j)] = "EATING" \/ states[RIGHT(j)] = "EATING"
            \/ LEFT(j) \in owing
  PROVE  Remembered(after, owing)
<1> SUFFICES ASSUME NEW j \in Thread, after[j] = "HUNGRY"
             PROVE  \/ after[LEFT(j)] = "EATING" \/ after[RIGHT(j)] = "EATING"
                    \/ LEFT(j) \in owing
  BY DEF Remembered
<1>1. LEFT(j) \in Thread /\ RIGHT(j) \in Thread
  BY Neighbours
<1>2. CASE after = states
  BY <1>2 DEF Tested
<1>3. CASE after = [states EXCEPT ![i] = "EATING"]
  BY <1>1, <1>3
<1> QED
  BY <1>2, <1>3 DEF Tested

(* The three tests of check_sync.c: of oneself when one gets hungry, of    *)
(* the left neighbour when one puts the forks back, and of the right one,  *)
(* which pays what one owes.                                               *)
LEMMA TakeSettles ==
  ASSUME NEW states \in [Thread -> States], NEW p \in Thread, NEW after, NEW owing,
         Remembered(states, owing), states[p] = "THINKING",
         Tested(p, [states EXCEPT ![p] = "HUNGRY"], after)
  PROVE  Remembered(after, owing)
<1> DEFINE hungry == [states EXCEPT ![p] = "HUNGRY"]
<1>1. hungry \in [Thread -> States] /\ \A q \in Thread : q # p => hungry[q] = states[q]
  BY DEF States
<1>2. ASSUME NEW j \in Thread, j # p, hungry[j] = "HUNGRY"
      PROVE  \/ hungry[LEFT(j)] = "EATING" \/ hungry[RIGHT(j)] = "EATING"
             \/ LEFT(j) \in owing
  <2>1. LEFT(j) \in Thread /\ RIGHT(j) \in Thread
    BY Neighbours
  <2>2. \/ states[LEFT(j)] = "EATING" \/ states[RIGHT(j)] = "EATING" \/ LEFT(j) \in owing
    BY <1>1, <1>2 DEF Remembered
  <2> QED
    BY <1>1, <2>1, <2>2
<1>3. Tested(p, hungry, after)
  OBVIOUS
<1> HIDE DEF hungry
<1> QED
  BY <1>1, <1>2, <1>3, TestSettles

LEMMA PutSettles ==
  ASSUME NEW states \in [Thread -> States], NEW p \in Thread, NEW after, NEW owing,
         Remembered(states, owing),
         Tested(LEFT(p), [states EXCEPT ![p] = "THINKING"], after)
  PROVE  Remembered(after, owing \cup {p})
<1> DEFINE thinking == [states EXCEPT ![p] = "THINKING"]
<1>1. /\ thinking \in [Thread -> States] /\ thinking[p] = "THINKING"
      /\ \A q \in Thread : q # p => thinking[q] = states[q]
  BY DEF States
<1>2. ASSUME NEW j \in Thread, j # LEFT(p), thinking[j] = "HUNGRY"
      PROVE  \/ thinking[LEFT(j)] = "EATING" \/ thinking[RIGHT(j)] = "EATING"
             \/ LEFT(j) \in owing \cup {p}
  <2>1. LEFT(j) \in Thread /\ RIGHT(j) \in Thread /\ RIGHT(j) # p /\ j # p
    BY <1>1, <1>2, Neighbours
  <2>2. \/ states[LEFT(j)] = "EATING" \/ states[RIGHT(j)] = "EATING" \/ LEFT(j) \in owing
    BY <1>1, <1>2, <2>1 DEF Remembered
  <2> QED
    BY <1>1, <2>1, <2>2
<1>3. Tested(LEFT(p), thinking, after) /\ LEFT(p) \in Thread
  BY Neighbours
<1> HIDE DEF thinking
<1> QED
  BY <1>1, <1>2, <1>3, TestSettles

LEMMA PutRightSettles ==
  ASSUME NEW states \in [Thread -> States], NEW p \in Thread, NEW after, NEW owing,
         Remembered(states, owing), Tested(RIGHT(p), states, after)
  PROVE  Remembered(after, owing \ {p})
<1>1. ASSUME NEW j \in Thread, j # RIGHT(p), states[j] = "HUNGRY"
      PROVE  \/ states[LEFT(j)] = "EATING" \/ states[RIGHT(j)] = "EATING"
             \/ LEFT(j) \in owing \ {p}
  <2>1. LEFT(j) # p
    BY <1>1, Neighbours
  <2> QED
    BY <1>1, <2>1 DEF Remembered
<1>2. RIGHT(p) \in Thread
  BY Neighbours
<1> QED
  BY <1>1, <1>2, TestSettles


-----------------------------------------------------------------------------
(* Nobody is forgotten at the dinner with the monitor.                     *)

(* The places of check_sync.c inside its monitor.                          *)
Procedures == {"take", "check", "put", "put_right", "put_leave"}

(* The place a philosopher stands at or, while it is in cond_signal or     *)
(* cond_wait, returns to.                                                  *)
Place(p) == IF pc[p] \in MonitorPcs THEN ret[p] ELSE pc[p]

Owing == {p \in Thread : Place(p) = "put_right"}

(* Who is not between its test and its put thinks; who signals before it   *)
(* checks has made itself EATING; who waits does so in take and for itself.*)
MonitorSeated(p) ==
    /\ Place(p) \notin {"check", "eat", "put_enter", "put"} =>
          state_condvar[p] = "THINKING"
    /\ pc[p] \in {"signal_down", "signal_end"} /\ ret[p] = "check" =>
          state_condvar[p] = "EATING"
    /\ pc[p] \in {"wait_down", "wait_end"} => cv[p] = p /\ ret[p] = "check"

MonitorRemembers ==
    /\ MonInv(Procedures)
    /\ value[Mutex] > 0 => next_count = 0
    /\ \A p \in Thread : MonitorSeated(p)
    /\ Remembered(state_condvar, Owing)

LEMMA ProceduresPlaces == Places(Procedures)
BY DEF Places, Procedures, MonitorPcs

(* The monitor stays in one place, whatever a philosopher does.            *)
LEMMA MonitorPlaceInv ==
  ASSUME MonInv(Procedures), [PhiNext]_phiVars
  PROVE  MonInv(Procedures)'
<1>0. Places(Procedures) /\ Cond = Thread
  BY ProceduresPlaces, PhiloAssumption
<1>1. ASSUME NEW p \in Thread, NEW i \in Thread, NEW states, NEW from \in Procedures,
             NEW to \in Procedures, Test(p, i, states, from, to)
      PROVE  MonInv(Procedures)'
  BY <1>0, <1>1, SignalInv, GoOnInv DEF Test
<1>2. ASSUME NEW p \in Thread, Take(p) \/ Put(p) \/ PutRight(p) PROVE MonInv(Procedures)'
  <2>1. CASE Take(p)
    BY <1>1, <2>1 DEF Take, Procedures
  <2>2. CASE Put(p)
    BY <1>1, <2>2, Neighbours DEF Put, Procedures
  <2>3. CASE PutRight(p)
    BY <1>1, <2>3, Neighbours DEF PutRight, Procedures
  <2> QED
    BY <1>2, <2>1, <2>2, <2>3
<1>3. ASSUME NEW p \in Thread, TakeEnter(p) \/ PutEnter(p) PROVE MonInv(Procedures)'
  BY <1>0, <1>3, EnterInv DEF TakeEnter, PutEnter, Procedures, InsideOf, MonitorPcs
<1>4. ASSUME NEW p \in Thread, TakeLeave(p) \/ PutLeave(p) PROVE MonInv(Procedures)'
  BY <1>0, <1>4, LeaveInv DEF TakeLeave, PutLeave, Procedures, InsideOf, MonitorPcs
<1>5. ASSUME NEW p \in Thread, TakeWait(p) PROVE MonInv(Procedures)'
  BY <1>0, <1>5, WaitInv DEF TakeWait, Procedures
<1>6. ASSUME NEW p \in Thread, Think(p) \/ Eat(p) PROVE MonInv(Procedures)'
  BY <1>0, <1>6, NapInv DEF Think, Eat, Procedures, MonitorPcs
<1>7. ASSUME NEW p \in Thread, Quit(p) PROVE MonInv(Procedures)'
  <2>1. /\ Active(p) /\ pc[p] = "quit" /\ Exit(p) /\ pc' = [pc EXCEPT ![p] = "gone"]
        /\ UNCHANGED <<next_count, count, cv, ret>> /\ UNCHANGED <<value, queue>>
    BY <1>7 DEF Quit, At, GoOn, Exit
  <2>2. IndInv /\ SemTypeOK /\ waiting[p] = NULL
    BY <2>1 DEF MonInv, IndInv, TypeOK, Active
  <2>3. IndInv'
    BY <2>1, <2>2, OtherInv DEF Exit, SemTypeOK, WaitStates
  <2>4. PcOK(Procedures)' /\ DownsNext' /\ CountsRight'
    BY <2>1, Plain DEF MonitorPcs
  <2>5. "gone" \notin InsideOf(Procedures) /\ pc[p] \notin InsideOf(Procedures)
    BY <2>1 DEF InsideOf, Procedures
  <2>6. OnePlace(Procedures)' /\ QueuePc(Procedures)' /\ OnlyHandedOver'
    BY <1>0, <2>1, <2>5, StaysPut
  <2> QED
    BY <2>3, <2>4, <2>6 DEF MonInv
<1> QED
  BY <1>0, <1>2, <1>3, <1>4, <1>5, <1>6, <1>7, MonitorStepInv, StutterInv
     DEF PhiNext, Philosopher, phiVars

(* The mutex is only released when no signaller waits to get the monitor   *)
(* back, so nobody is inside a test while it is free.                      *)
LEMMA FreeInv ==
  ASSUME MonInv(Procedures), value[Mutex] > 0 => next_count = 0, [PhiNext]_phiVars
  PROVE  value'[Mutex] > 0 => next_count' = 0
<1>0. /\ IndInv /\ SemTypeOK /\ PcOK(Procedures)
      /\ value \in [Sem -> Nat] /\ Mutex \in Sem /\ NextSem \in Sem /\ Mutex # NextSem
      /\ \A c \in Cond : c \in Sem /\ c # Mutex
      /\ Cond = Thread
  BY MonitorAssumption, PhiloAssumption DEF MonInv, IndInv, TypeOK, SemTypeOK
<1>1. ASSUME NEW p \in Thread, NEW s \in Sem, Active(p), Down(p, s), next_count' = next_count
      PROVE  value'[Mutex] > 0 => next_count' = 0
  <2>1. value' = value \/ value' = [value EXCEPT ![s] = @ - 1]
    BY <1>0, <1>1, DownQueues
  <2> QED
    BY <1>0, <1>1, <2>1
<1>2. ASSUME UpNextOrMutex, next_count' = next_count
      PROVE  value'[Mutex] > 0 => next_count' = 0
  <2>1. CASE next_count > 0
    <3>1. value' = value \/ value' = [value EXCEPT ![NextSem] = @ + 1]
      BY <1>0, <1>2, <2>1, UpQueues DEF UpNextOrMutex
    <3> QED
      BY <1>0, <1>2, <2>1, <3>1
  <2>2. CASE ~(next_count > 0)
    <3>1. next_count \in Nat
      BY CountSets, FS_CardinalityType DEF MonInv, CountsRight
    <3> QED
      BY <1>2, <2>2, <3>1
  <2> QED
    BY <2>1, <2>2
<1>3. ASSUME NEW p \in Thread, Active(p), pc[p] \in InsideOf(Procedures)
      PROVE  value[Mutex] = 0
  BY <1>3, Runner
<1>4. ASSUME NEW p \in Thread, NEW i \in Thread, NEW states, NEW from \in Procedures,
             NEW to, Test(p, i, states, from, to)
      PROVE  value'[Mutex] > 0 => next_count' = 0
  <2>1. value[Mutex] = 0
    BY <1>3, <1>4 DEF Test, Signal, At, InsideOf
  <2>2. CASE Up(i)
    <3>1. value' = value \/ value' = [value EXCEPT ![i] = @ + 1]
      BY <1>0, <2>2, UpQueues
    <3> QED
      BY <1>0, <2>1, <3>1
  <2>3. CASE UNCHANGED semVars
    BY <2>1, <2>3 DEF semVars
  <2> QED
    BY <1>4, <2>2, <2>3 DEF Test, Signal
<1>5. ASSUME NEW p \in Thread, Take(p) \/ Put(p) \/ PutRight(p)
      PROVE  value'[Mutex] > 0 => next_count' = 0
  <2>1. CASE Take(p)
    BY <1>4, <2>1 DEF Take, Procedures
  <2>2. CASE Put(p)
    BY <1>4, <2>2, Neighbours DEF Put, Procedures
  <2>3. CASE PutRight(p)
    BY <1>4, <2>3, Neighbours DEF PutRight, Procedures
  <2> QED
    BY <1>5, <2>1, <2>2, <2>3
<1>6. ASSUME NEW p \in Thread,
             TakeEnter(p) \/ PutEnter(p) \/ SignalDown(p) \/ WaitDown(p)
      PROVE  value'[Mutex] > 0 => next_count' = 0
  <2>1. CASE TakeEnter(p) \/ PutEnter(p)
    BY <1>0, <1>1, <2>1 DEF TakeEnter, PutEnter, Enter, At, GoOn
  <2>2. CASE SignalDown(p)
    BY <1>0, <1>1, <2>2 DEF SignalDown, At, GoOn
  <2>3. CASE WaitDown(p)
    <3>1. cv[p] \in Sem
      BY <1>0, <2>3 DEF WaitDown, At, PcOK
    <3> QED
      BY <1>1, <2>3, <3>1 DEF WaitDown, At, GoOn
  <2> QED
    BY <1>6, <2>1, <2>2, <2>3
<1>7. ASSUME NEW p \in Thread, TakeWait(p) \/ TakeLeave(p) \/ PutLeave(p)
      PROVE  value'[Mutex] > 0 => next_count' = 0
  BY <1>2, <1>7 DEF TakeWait, TakeLeave, PutLeave, Wait, Leave, GoOn
<1>8. ASSUME NEW p \in Thread, SignalEnd(p) PROVE value'[Mutex] > 0 => next_count' = 0
  BY <1>3, <1>8 DEF SignalEnd, At, InsideOf, semVars
<1>9. ASSUME UNCHANGED <<value, next_count>> PROVE value'[Mutex] > 0 => next_count' = 0
  BY <1>9
<1>10. ASSUME NEW p \in Thread, Think(p) \/ Eat(p) \/ Quit(p) \/ WaitEnd(p)
       PROVE  UNCHANGED <<value, next_count>>
  BY <1>10 DEF Think, Eat, Quit, WaitEnd, Nap, Sleep, Exit, GoOn, semVars
<1>11. ASSUME KernelStep, UNCHANGED next_count PROVE UNCHANGED <<value, next_count>>
  BY <1>11 DEF KernelStep, Dispatch, DownReturn, TimerFires
<1>12. ASSUME UNCHANGED phiVars PROVE UNCHANGED <<value, next_count>>
  BY <1>12 DEF phiVars, monVars, semVars
<1> QED
  BY <1>5, <1>6, <1>7, <1>8, <1>9, <1>10, <1>11, <1>12
     DEF PhiNext, Philosopher, MonitorStep


(* What a test by p, which goes on at `to', does to the philosophers.      *)
LEMMA MonitorTestSeated ==
  ASSUME MonitorTable, \A q \in Thread : MonitorSeated(q),
         NEW p \in Thread, NEW i \in Thread, NEW states \in [Thread -> States],
         NEW from, NEW to,
         from \in {"take", "put", "put_right"}, to \in Back,
         \A q \in Thread : q # p => states[q] = state_condvar[q],
         i = p \/ to # "check", to = "check" \/ states[p] = "THINKING",
         Test(p, i, states, from, to)
  PROVE  /\ \A q \in Thread : MonitorSeated(q)'
         /\ Tested(i, states, state_condvar')
         /\ Owing' = IF to = "put_right" THEN Owing \cup {p} ELSE Owing \ {p}
<1>0. /\ DOMAIN pc = Thread /\ DOMAIN ret = Thread
      /\ state_condvar \in [Thread -> States]
  BY DEF MonitorTable
<1>1. /\ cv' = cv
      /\ \/ /\ state_condvar' = states /\ pc' = [pc EXCEPT ![p] = to] /\ ret' = ret
            /\ \/ states[i] # "HUNGRY"
               \/ states[LEFT(i)] = "EATING" \/ states[RIGHT(i)] = "EATING"
         \/ /\ state_condvar' = [states EXCEPT ![i] = "EATING"] /\ states[i] = "HUNGRY"
            /\ \/ pc' = [pc EXCEPT ![p] = to] /\ ret' = ret
               \/ /\ pc' = [pc EXCEPT ![p] = "signal_down"]
                  /\ ret' = [ret EXCEPT ![p] = to]
  BY DEF Test, Signal, GoOn
<1>2. /\ \A q \in Thread : q # p => pc'[q] = pc[q] /\ ret'[q] = ret[q]
      /\ pc'[p] # to => pc'[p] = "signal_down" /\ ret'[p] = to
  BY <1>0, <1>1
<1>3. \A q \in Thread : Place(q)' = IF q = p THEN to ELSE Place(q)
  BY <1>2 DEF Place, MonitorPcs, Back
<1>4. Tested(i, states, state_condvar')
  BY <1>1 DEF Tested
<1>5. Owing' = IF to = "put_right" THEN Owing \cup {p} ELSE Owing \ {p}
  BY <1>3 DEF Owing
<1>6. ASSUME NEW q \in Thread, q # p PROVE MonitorSeated(q)'
  <2>1. /\ pc'[q] = pc[q] /\ ret'[q] = ret[q] /\ cv'[q] = cv[q]
        /\ Place(q)' = Place(q) /\ MonitorSeated(q)
    BY <1>1, <1>2, <1>3, <1>6
  <2>2. \/ state_condvar'[q] = state_condvar[q]
        \/ state_condvar[q] = "HUNGRY" /\ state_condvar'[q] = "EATING"
    BY <1>0, <1>1, <1>6
  <2> QED
    BY <2>1, <2>2 DEF MonitorSeated
<1>7. MonitorSeated(p)'
  <2>1. to # "check" => state_condvar'[p] = "THINKING"
    BY <1>1
  <2>2. pc'[p] # to => state_condvar'[i] = "EATING"
    BY <1>0, <1>1
  <2>3. Place(p)' = to
    BY <1>3
  <2> QED
    BY <1>2, <2>1, <2>2, <2>3 DEF MonitorSeated, MonitorPcs, Back
<1> QED
  BY <1>4, <1>5, <1>6, <1>7

LEMMA MonitorRemembersInv ==
  ASSUME MonitorTable, MonitorRemembers, [PhiNext]_phiVars
  PROVE  MonitorRemembers'
<1>0. /\ DOMAIN pc = Thread /\ DOMAIN ret = Thread
      /\ state_condvar \in [Thread -> States] /\ Apart(state_condvar)
      /\ \A q \in Thread : MonitorSeated(q)
      /\ Remembered(state_condvar, Owing)
      /\ PcOK(Procedures)
  BY DEF MonitorTable, MonitorRemembers, MonInv
<1>1. MonInv(Procedures)' /\ (value'[Mutex] > 0 => next_count' = 0)
  BY MonitorPlaceInv, FreeInv DEF MonitorRemembers
<1> SUFFICES (\A q \in Thread : MonitorSeated(q)') /\ Remembered(state_condvar, Owing)'
  BY <1>1 DEF MonitorRemembers
<1>2. ASSUME NEW p \in Thread, Take(p)
      PROVE  (\A q \in Thread : MonitorSeated(q)') /\ Remembered(state_condvar', Owing')
  <2> DEFINE states == [state_condvar EXCEPT ![p] = "HUNGRY"]
  <2>1. states \in [Thread -> States] /\ \A q \in Thread : q # p => states[q] = state_condvar[q]
    BY <1>0 DEF States
  <2>2. Test(p, p, states, "take", "check") /\ pc[p] = "take"
    BY <1>2 DEF Take, Test, Signal, At
  <2>3. state_condvar[p] = "THINKING" /\ p \notin Owing
    BY <1>0, <2>2 DEF MonitorSeated, Place, Owing, MonitorPcs
  <2> HIDE DEF states
  <2>4. /\ \A q \in Thread : MonitorSeated(q)'
        /\ Tested(p, states, state_condvar') /\ Owing' = Owing \ {p}
    BY <1>0, <2>1, <2>2, MonitorTestSeated DEF Back
  <2>5. Owing' = Owing
    BY <2>3, <2>4
  <2>6. Remembered(state_condvar', Owing)
    BY <1>0, <2>3, <2>4, TakeSettles DEF states
  <2> QED
    BY <2>4, <2>5, <2>6
<1>3. ASSUME NEW p \in Thread, Put(p)
      PROVE  (\A q \in Thread : MonitorSeated(q)') /\ Remembered(state_condvar', Owing')
  <2> DEFINE states == [state_condvar EXCEPT ![p] = "THINKING"]
  <2>1. /\ states \in [Thread -> States] /\ states[p] = "THINKING"
        /\ \A q \in Thread : q # p => states[q] = state_condvar[q]
    BY <1>0 DEF States
  <2>2. Test(p, LEFT(p), states, "put", "put_right") /\ LEFT(p) \in Thread
    BY <1>3, Neighbours DEF Put
  <2> HIDE DEF states
  <2>3. /\ \A q \in Thread : MonitorSeated(q)'
        /\ Tested(LEFT(p), states, state_condvar') /\ Owing' = Owing \cup {p}
    BY <1>0, <2>1, <2>2, MonitorTestSeated DEF Back
  <2>4. Remembered(state_condvar', Owing \cup {p})
    BY <1>0, <2>3, PutSettles DEF states
  <2> QED
    BY <2>3, <2>4
<1>4. ASSUME NEW p \in Thread, PutRight(p)
      PROVE  (\A q \in Thread : MonitorSeated(q)') /\ Remembered(state_condvar', Owing')
  <2>1. /\ Test(p, RIGHT(p), state_condvar, "put_right", "put_leave") /\ RIGHT(p) \in Thread
        /\ pc[p] = "put_right"
    BY <1>4, Neighbours DEF PutRight, Test, Signal, At
  <2>2. state_condvar[p] = "THINKING"
    BY <1>0, <2>1 DEF MonitorSeated, Place, MonitorPcs
  <2>3. /\ \A q \in Thread : MonitorSeated(q)'
        /\ Tested(RIGHT(p), state_condvar, state_condvar') /\ Owing' = Owing \ {p}
    BY <1>0, <2>1, <2>2, MonitorTestSeated DEF Back
  <2>4. Remembered(state_condvar', Owing \ {p})
    BY <1>0, <2>3, PutRightSettles
  <2> QED
    BY <2>3, <2>4
(* The other steps leave the states as they are, and who owes.             *)
<1>5. ASSUME UNCHANGED state_condvar,
             \A q \in Thread : (Place(q)' = "put_right") <=> (Place(q) = "put_right")
      PROVE  Remembered(state_condvar', Owing')
  <2>1. Owing' = Owing
    BY <1>5 DEF Owing
  <2> QED
    BY <1>0, <1>5, <2>1
<1>6. ASSUME NEW p \in Thread, UNCHANGED <<state_condvar, cv, ret>>,
             NEW to, pc' = [pc EXCEPT ![p] = to],
             {pc[p], to} \cap (MonitorPcs \cup {"put_right"}) = {},
             \/ to \in {"check", "eat", "put_enter", "put"}
             \/ state_condvar[p] = "THINKING"
      PROVE  (\A q \in Thread : MonitorSeated(q)') /\ Remembered(state_condvar', Owing')
  <2>1. \A q \in Thread : q # p => pc'[q] = pc[q] /\ Place(q)' = Place(q)
    BY <1>0, <1>6 DEF Place
  <2>2. pc'[p] = to /\ Place(p)' = to /\ Place(p) = pc[p]
    BY <1>0, <1>6 DEF Place
  <2>3. \A q \in Thread : MonitorSeated(q)'
    BY <1>0, <1>6, <2>1, <2>2 DEF MonitorSeated, MonitorPcs
  <2> QED
    BY <1>5, <1>6, <2>1, <2>2, <2>3
<1>7. ASSUME NEW p \in Thread,
             \/ Think(p) \/ TakeEnter(p) \/ TakeLeave(p)
             \/ Eat(p) \/ PutEnter(p) \/ PutLeave(p) \/ Quit(p)
      PROVE  (\A q \in Thread : MonitorSeated(q)') /\ Remembered(state_condvar', Owing')
  <2>1. PICK to \in PhiPcs :
          /\ pc' = [pc EXCEPT ![p] = to] /\ UNCHANGED <<state_condvar, cv, ret>>
          /\ pc[p] \in PhiPcs \ {"put_right"} /\ to # "put_right"
          /\ \/ to \in {"check", "eat", "put_enter", "put"}
             \/ pc[p] \notin {"check", "eat", "put_enter", "put"}
    BY <1>7 DEF Think, TakeEnter, TakeLeave, Eat, PutEnter, PutLeave, Quit, Nap, Enter,
                Leave, At, GoOn, outside, PhiPcs
  <2>2. {pc[p], to} \cap (MonitorPcs \cup {"put_right"}) = {}
    BY <2>1 DEF PhiPcs, MonitorPcs
  <2>3. pc[p] \notin {"check", "eat", "put_enter", "put"} => state_condvar[p] = "THINKING"
    BY <1>0, <2>2 DEF MonitorSeated, Place
  <2> QED
    BY <1>6, <2>1, <2>2, <2>3
<1>8. ASSUME NEW p \in Thread, TakeWait(p)
      PROVE  (\A q \in Thread : MonitorSeated(q)') /\ Remembered(state_condvar', Owing')
  <2>1. /\ pc' = [pc EXCEPT ![p] = "wait_down"] /\ ret' = [ret EXCEPT ![p] = "check"]
        /\ cv' = [cv EXCEPT ![p] = p] /\ pc[p] = "check" /\ UNCHANGED state_condvar
    BY <1>8 DEF TakeWait, Wait, At, outside
  <2>2. /\ pc'[p] = "wait_down" /\ ret'[p] = "check" /\ cv'[p] = p
        /\ \A q \in Thread : q # p => pc'[q] = pc[q] /\ ret'[q] = ret[q] /\ cv'[q] = cv[q]
    BY <1>0, <2>1 DEF PcOK
  <2>3. \A q \in Thread : Place(q)' = Place(q)
    BY <2>1, <2>2 DEF Place, MonitorPcs
  <2>4. \A q \in Thread : MonitorSeated(q)'
    BY <1>0, <2>1, <2>2, <2>3 DEF MonitorSeated
  <2> QED
    BY <1>5, <2>1, <2>3, <2>4
<1>9. ASSUME NEW p \in Thread, SignalDown(p) \/ SignalEnd(p) \/ WaitDown(p) \/ WaitEnd(p),
             UNCHANGED outside
      PROVE  (\A q \in Thread : MonitorSeated(q)') /\ Remembered(state_condvar', Owing')
  <2>1. /\ pc[p] \in MonitorPcs /\ ret' = ret /\ UNCHANGED state_condvar
        /\ \/ cv' = cv
           \/ cv' = [cv EXCEPT ![p] = NULL] /\ pc' = [pc EXCEPT ![p] = ret[p]]
        /\ \/ pc[p] = "signal_down" /\ pc' = [pc EXCEPT ![p] = "signal_end"]
           \/ pc[p] = "wait_down" /\ pc' = [pc EXCEPT ![p] = "wait_end"]
           \/ pc' = [pc EXCEPT ![p] = ret[p]]
    BY <1>9 DEF SignalDown, SignalEnd, WaitDown, WaitEnd, At, GoOn, outside, MonitorPcs
  <2>2. ret[p] \in Back /\ ret[p] \notin MonitorPcs
    BY <2>1 DEF MonitorTable, Back, MonitorPcs
  <2>3. /\ \A q \in Thread : q # p => pc'[q] = pc[q] /\ cv'[q] = cv[q]
        /\ pc'[p] = ret[p] \/ cv'[p] = cv[p]
        /\ \/ pc[p] = "signal_down" /\ pc'[p] = "signal_end"
           \/ pc[p] = "wait_down" /\ pc'[p] = "wait_end"
           \/ pc'[p] = ret[p]
    BY <1>0, <2>1 DEF PcOK
  <2>4. \A q \in Thread : Place(q)' = Place(q)
    BY <2>1, <2>2, <2>3 DEF Place, MonitorPcs
  <2>5. ASSUME NEW q \in Thread, q # p PROVE MonitorSeated(q)'
    BY <1>0, <2>1, <2>3, <2>4, <2>5 DEF MonitorSeated
  <2>6. MonitorSeated(p)'
    BY <1>0, <2>1, <2>2, <2>3, <2>4 DEF MonitorSeated, MonitorPcs
  <2> QED
    BY <1>5, <2>1, <2>4, <2>5, <2>6
<1>10. ASSUME UNCHANGED <<pc, ret, cv, state_condvar>>
       PROVE  (\A q \in Thread : MonitorSeated(q)') /\ Remembered(state_condvar', Owing')
  <2>1. \A q \in Thread : Place(q)' = Place(q)
    BY <1>10 DEF Place
  <2>2. \A q \in Thread : MonitorSeated(q)'
    BY <1>0, <1>10, <2>1 DEF MonitorSeated
  <2> QED
    BY <1>5, <1>10, <2>1, <2>2
<1>11. Remembered(state_condvar, Owing)' <=> Remembered(state_condvar', Owing')
  BY DEF Remembered, LEFT, RIGHT
<1> QED
  BY <1>2, <1>3, <1>4, <1>7, <1>8, <1>9, <1>10, <1>11
     DEF PhiNext, Philosopher, MonitorStep, phiVars, monVars, outside


-----------------------------------------------------------------------------
(* Nobody is forgotten at the dinner with semaphores.  The mutex is in one *)
(* place: with the philosopher that changes the table, or free.            *)

SemProcedures == {"take", "take_unlock", "put", "put_right", "put_unlock"}

SemHolders == {p \in Thread : pc[p] \in SemProcedures /\ p \notin BySem!Queued(Mutex)}

SemOwing == {p \in Thread : pc[p] = "put_right"}

MutexPlaced ==
    \/ value[Mutex] = 1 /\ SemHolders = {}
    \/ value[Mutex] = 0 /\ \E h \in Thread : SemHolders = {h}

SemRemembers ==
    /\ MutexPlaced
    /\ \A p \in Thread :
          pc[p] \notin {"take_unlock", "take_down", "eat", "put_lock", "put"} =>
              state_condvar[p] = "THINKING"
    /\ Remembered(state_condvar, SemOwing)

LEMMA SemRunner ==
  ASSUME SemTable, MutexPlaced, NEW p \in Thread, BySem!Active(p)
  PROVE  /\ p \notin BySem!Queued(Mutex)
         /\ pc[p] \in SemProcedures => SemHolders = {p} /\ value[Mutex] = 0
         /\ pc[p] \notin SemProcedures => p \notin SemHolders
<1>1. p \notin BySem!Queued(Mutex)
  BY Semas, SemaTypes DEF SemTable, BySem!Active
<1> QED
  BY <1>1 DEF MutexPlaced, SemHolders

(* The mutex and its queue as they were, p still inside or still outside.  *)
LEMMA MutexStays ==
  ASSUME SemTable, MutexPlaced, NEW p \in Thread, NEW to, BySem!Active(p),
         pc' = [pc EXCEPT ![p] = to], to \in SemProcedures <=> pc[p] \in SemProcedures,
         value'[Mutex] = value[Mutex], BySem!Queued(Mutex)' = BySem!Queued(Mutex)
  PROVE  MutexPlaced'
<1>1. \A q \in Thread : pc'[q] = IF q = p THEN to ELSE pc[q]
  BY DEF SemTable
<1>2. SemHolders' = SemHolders
  BY <1>1 DEF SemHolders
<1> QED
  BY <1>2 DEF MutexPlaced

LEMMA MutexDown ==
  ASSUME SemTable, MutexPlaced, NEW p \in Thread, NEW to \in SemProcedures,
         BySem!Active(p), pc[p] \notin SemProcedures, BySem!Down(p, Mutex),
         pc' = [pc EXCEPT ![p] = to]
  PROVE  MutexPlaced'
<1>0. /\ Sema!IndInv /\ Mutex \in SemaSems /\ value \in [SemaSems -> Nat]
      /\ p \notin SemHolders /\ p \notin BySem!Queued(Mutex)
      /\ \A q \in Thread : pc'[q] = IF q = p THEN to ELSE pc[q]
  BY Semas, SemaTypes, SemRunner DEF SemTable
<1>1. CASE /\ value[Mutex] > 0 /\ value' = [value EXCEPT ![Mutex] = @ - 1]
           /\ BySem!Queued(Mutex)' = BySem!Queued(Mutex)
  <2>1. value[Mutex] = 1 /\ value'[Mutex] = 0 /\ SemHolders = {}
    BY <1>0, <1>1 DEF MutexPlaced
  <2>2. SemHolders' = {p}
    BY <1>0, <1>1, <2>1 DEF SemHolders
  <2> QED
    BY <2>1, <2>2 DEF MutexPlaced
<1>2. CASE value' = value /\ BySem!Queued(Mutex)' = BySem!Queued(Mutex) \cup {p}
  <2>1. SemHolders' = SemHolders
    BY <1>0, <1>2 DEF SemHolders
  <2> QED
    BY <1>2, <2>1 DEF MutexPlaced
<1> QED
  BY <1>0, <1>1, <1>2, SemaDown

(* up(&mutex) gives the table to the head of the queue or to nobody.       *)
LEMMA MutexUp ==
  ASSUME SemTable, MutexPlaced, NEW p \in Thread, NEW to, to \notin SemProcedures,
         BySem!Active(p), pc[p] \in SemProcedures, BySem!Up(Mutex),
         pc' = [pc EXCEPT ![p] = to]
  PROVE  MutexPlaced'
<1>0. /\ Sema!IndInv /\ Mutex \in SemaSems /\ value \in [SemaSems -> Nat]
      /\ SemHolders = {p} /\ value[Mutex] = 0 /\ p \notin BySem!Queued(Mutex)
      /\ \A q \in Thread : pc'[q] = IF q = p THEN to ELSE pc[q]
  BY Semas, SemaTypes, SemRunner DEF SemTable
<1>1. CASE /\ value' = [value EXCEPT ![Mutex] = @ + 1]
           /\ BySem!Queued(Mutex)' = BySem!Queued(Mutex)
  <2>1. SemHolders' = {}
    BY <1>0, <1>1 DEF SemHolders
  <2> QED
    BY <1>0, <1>1, <2>1 DEF MutexPlaced
<1>2. ASSUME NEW h \in BySem!Queued(Mutex) \cap Thread, value' = value,
             BySem!Queued(Mutex)' = BySem!Queued(Mutex) \ {h}
      PROVE  MutexPlaced'
  <2>1. waiting[h] = Mutex /\ Mutex \notin Thread /\ Mutex # NULL /\ h # p
    BY <1>0, <1>2, Semas, SemaTypes
  <2>2. pc[h] \in SemProcedures
    BY <1>2, <2>1 DEF SemTable, Seated, SemProcedures
  <2>3. SemHolders' = {h}
    BY <1>0, <1>2, <2>1, <2>2 DEF SemHolders
  <2> QED
    BY <1>0, <1>2, <2>3 DEF MutexPlaced
<1> QED
  BY <1>0, <1>1, <1>2, SemaUp

(* A test by p, which goes on at `to'; its permit is not the mutex.        *)
LEMMA SemTestRemembers ==
  ASSUME SemTable, MutexPlaced, NEW p \in Thread, NEW i \in Thread, NEW states, NEW to,
         BySem!Active(p), pc[p] \in SemProcedures, to \in SemProcedures,
         pc' = [pc EXCEPT ![p] = to], BySem!Test(i, states)
  PROVE  /\ MutexPlaced'
         /\ Tested(i, states, state_condvar')
         /\ \A q \in Thread : pc'[q] = IF q = p THEN to ELSE pc[q]
<1>0. /\ Sema!IndInv /\ i \in SemaSems /\ Mutex \in SemaSems \ {i}
      /\ value \in [SemaSems -> Nat]
  BY Semas, SemaTypes DEF SemTable
<1>1. value'[Mutex] = value[Mutex] /\ BySem!Queued(Mutex)' = BySem!Queued(Mutex)
  <2>1. CASE BySem!Up(i)
    BY <1>0, <2>1, SemaUp
  <2>2. CASE UNCHANGED BySem!semVars
    BY <2>2 DEF BySem!semVars, BySem!Queued
  <2> QED
    BY <2>1, <2>2 DEF BySem!Test
<1>2. MutexPlaced'
  BY <1>1, MutexStays
<1>3. Tested(i, states, state_condvar')
  BY DEF Tested, BySem!Test, LEFT, RIGHT, BySem!LEFT, BySem!RIGHT
<1> QED
  BY <1>2, <1>3 DEF SemTable

LEMMA SemRemembersInv ==
  ASSUME SemTable, SemRemembers, BySem!PhiNext
  PROVE  SemRemembers'
<1> DEFINE Between == {"take_unlock", "take_down", "eat", "put_lock", "put"}
           Thinkers == \A q \in Thread : pc[q] \notin Between => state_condvar[q] = "THINKING"
<1>0. /\ DOMAIN pc = Thread /\ state_condvar \in [Thread -> States]
      /\ MutexPlaced /\ Thinkers /\ Remembered(state_condvar, SemOwing)
      /\ Sema!IndInv /\ value \in [SemaSems -> Nat] /\ Thread \subseteq SemaSems \ {Mutex}
      /\ Mutex \in SemaSems
  BY Semas, SemaTypes DEF SemTable, SemRemembers
<1> SUFFICES MutexPlaced' /\ Thinkers' /\ Remembered(state_condvar', SemOwing')
  <2>1. Remembered(state_condvar, SemOwing)' <=> Remembered(state_condvar', SemOwing')
    BY DEF Remembered, LEFT, RIGHT
  <2> QED
    BY <2>1 DEF SemRemembers
<1>1. ASSUME NEW p \in Thread, BySem!Take(p)
      PROVE  MutexPlaced' /\ Thinkers' /\ Remembered(state_condvar', SemOwing')
  <2> DEFINE states == [state_condvar EXCEPT ![p] = "HUNGRY"]
  <2>1. states \in [Thread -> States] /\ \A q \in Thread : q # p => states[q] = state_condvar[q]
    BY <1>0 DEF States
  <2>2. /\ BySem!Test(p, states) /\ BySem!Active(p) /\ pc[p] = "take"
        /\ pc' = [pc EXCEPT ![p] = "take_unlock"]
    BY <1>1 DEF BySem!Take, BySem!At
  <2>3. state_condvar[p] = "THINKING"
    BY <1>0, <2>2
  <2> HIDE DEF states
  <2>4. /\ MutexPlaced' /\ Tested(p, states, state_condvar')
        /\ \A q \in Thread : pc'[q] = IF q = p THEN "take_unlock" ELSE pc[q]
    BY <1>0, <2>2, SemTestRemembers DEF SemProcedures
  <2>5. SemOwing' = SemOwing
    BY <2>2, <2>4 DEF SemOwing
  <2>6. Remembered(state_condvar', SemOwing)
    BY <1>0, <2>3, <2>4, TakeSettles DEF states
  <2>7. Thinkers'
    BY <1>0, <2>1, <2>4 DEF Tested
  <2> QED
    BY <2>4, <2>5, <2>6, <2>7
<1>2. ASSUME NEW p \in Thread, BySem!Put(p)
      PROVE  MutexPlaced' /\ Thinkers' /\ Remembered(state_condvar', SemOwing')
  <2> DEFINE states == [state_condvar EXCEPT ![p] = "THINKING"]
  <2>1. /\ states \in [Thread -> States] /\ states[p] = "THINKING"
        /\ \A q \in Thread : q # p => states[q] = state_condvar[q]
    BY <1>0 DEF States
  <2>2. /\ BySem!Test(LEFT(p), states) /\ BySem!Active(p) /\ pc[p] = "put"
        /\ pc' = [pc EXCEPT ![p] = "put_right"] /\ LEFT(p) \in Thread
    BY <1>2, Neighbours DEF BySem!Put, BySem!At, BySem!LEFT, LEFT
  <2> HIDE DEF states
  <2>3. /\ MutexPlaced' /\ Tested(LEFT(p), states, state_condvar')
        /\ \A q \in Thread : pc'[q] = IF q = p THEN "put_right" ELSE pc[q]
    BY <1>0, <2>2, SemTestRemembers DEF SemProcedures
  <2>4. SemOwing' = SemOwing \cup {p}
    BY <2>3 DEF SemOwing
  <2>5. Remembered(state_condvar', SemOwing \cup {p})
    BY <1>0, <2>3, PutSettles DEF states
  <2>6. Thinkers'
    BY <1>0, <2>1, <2>2, <2>3 DEF Tested
  <2> QED
    BY <2>3, <2>4, <2>5, <2>6
<1>3. ASSUME NEW p \in Thread, BySem!PutRight(p)
      PROVE  MutexPlaced' /\ Thinkers' /\ Remembered(state_condvar', SemOwing')
  <2>1. /\ BySem!Test(RIGHT(p), state_condvar) /\ BySem!Active(p) /\ pc[p] = "put_right"
        /\ pc' = [pc EXCEPT ![p] = "put_unlock"] /\ RIGHT(p) \in Thread
    BY <1>3, Neighbours DEF BySem!PutRight, BySem!At, BySem!RIGHT, RIGHT
  <2>2. /\ MutexPlaced' /\ Tested(RIGHT(p), state_condvar, state_condvar')
        /\ \A q \in Thread : pc'[q] = IF q = p THEN "put_unlock" ELSE pc[q]
    BY <1>0, <2>1, SemTestRemembers DEF SemProcedures
  <2>3. SemOwing' = SemOwing \ {p}
    BY <2>2 DEF SemOwing
  <2>4. Remembered(state_condvar', SemOwing \ {p})
    BY <1>0, <2>2, PutRightSettles
  <2>5. Thinkers'
    BY <1>0, <2>1, <2>2 DEF Tested
  <2> QED
    BY <2>2, <2>3, <2>4, <2>5
(* The other steps leave the states as they are, and who owes.             *)
<1>4. ASSUME NEW p \in Thread, BySem!Active(p), UNCHANGED state_condvar, NEW to,
             pc' = [pc EXCEPT ![p] = to],
             "put_right" \notin {pc[p], to}, to \in Between \/ pc[p] \notin Between
      PROVE  Thinkers' /\ Remembered(state_condvar', SemOwing')
  <2>1. \A q \in Thread : pc'[q] = IF q = p THEN to ELSE pc[q]
    BY <1>0, <1>4
  <2>2. SemOwing' = SemOwing
    BY <1>4, <2>1 DEF SemOwing
  <2> QED
    BY <1>0, <1>4, <2>1, <2>2
<1>5. ASSUME NEW p \in Thread, BySem!Active(p), UNCHANGED state_condvar, NEW to,
             pc' = [pc EXCEPT ![p] = to],
             \/ BySem!Down(p, Mutex) /\ pc[p] = "take_lock" /\ to = "take"
             \/ BySem!Down(p, Mutex) /\ pc[p] = "put_lock" /\ to = "put"
             \/ BySem!Up(Mutex) /\ pc[p] = "take_unlock" /\ to = "take_down"
             \/ BySem!Up(Mutex) /\ pc[p] = "put_unlock" /\ to \in {"think", "quit"}
      PROVE  MutexPlaced' /\ Thinkers' /\ Remembered(state_condvar', SemOwing')
  <2>1. MutexPlaced'
    BY <1>0, <1>5, MutexDown, MutexUp DEF SemProcedures
  <2> QED
    BY <1>4, <1>5, <2>1
<1>6. ASSUME NEW p \in Thread, BySem!TakeDown(p)
      PROVE  MutexPlaced' /\ Thinkers' /\ Remembered(state_condvar', SemOwing')
  <2>1. /\ BySem!Active(p) /\ BySem!Down(p, p) /\ UNCHANGED state_condvar
        /\ pc[p] = "take_down" /\ pc' = [pc EXCEPT ![p] = "eat"]
    BY <1>6 DEF BySem!TakeDown, BySem!At, BySem!GoTo
  <2>2. value'[Mutex] = value[Mutex] /\ BySem!Queued(Mutex)' = BySem!Queued(Mutex)
    BY <1>0, <2>1, SemaDown
  <2>3. MutexPlaced'
    BY <1>0, <2>1, <2>2, MutexStays DEF SemProcedures
  <2> QED
    BY <1>4, <2>1, <2>3
<1>7. ASSUME NEW p \in Thread, BySem!Think(p) \/ BySem!Eat(p) \/ BySem!Quit(p)
      PROVE  MutexPlaced' /\ Thinkers' /\ Remembered(state_condvar', SemOwing')
  <2>1. /\ BySem!Active(p) /\ UNCHANGED state_condvar
        /\ BySem!Sleep(p) \/ BySem!Exit(p)
    BY <1>7 DEF BySem!Think, BySem!Eat, BySem!Quit, BySem!At, BySem!GoTo
  <2>2. PICK to : /\ pc' = [pc EXCEPT ![p] = to]
                  /\ \/ pc[p] = "think" /\ to = "take_lock"
                     \/ pc[p] = "eat" /\ to = "put_lock"
                     \/ pc[p] = "quit" /\ to = "gone"
    BY <1>7 DEF BySem!Think, BySem!Eat, BySem!Quit, BySem!At, BySem!GoTo
  <2>3. value' = value /\ BySem!Queued(Mutex)' = BySem!Queued(Mutex)
    BY <2>1 DEF BySem!Sleep, BySem!Exit, BySem!Queued
  <2>4. MutexPlaced'
    BY <1>0, <2>1, <2>2, <2>3, MutexStays DEF SemProcedures
  <2> QED
    BY <1>4, <2>1, <2>2, <2>4
<1>8. ASSUME BySem!KernelStep, UNCHANGED <<state_condvar, pc>>
      PROVE  MutexPlaced' /\ Thinkers' /\ Remembered(state_condvar', SemOwing')
  <2>1. UNCHANGED <<value, queue>>
    BY <1>0, <1>8, SemaReturn DEF BySem!KernelStep, BySem!Dispatch, BySem!TimerFires
  <2>2. SemHolders' = SemHolders /\ SemOwing' = SemOwing
    BY <1>8, <2>1 DEF SemHolders, SemOwing, BySem!Queued
  <2>3. MutexPlaced'
    BY <1>0, <2>1, <2>2 DEF MutexPlaced
  <2> QED
    BY <1>0, <1>8, <2>2, <2>3
<1>9. ASSUME NEW p \in Thread,
             BySem!TakeLock(p) \/ BySem!PutLock(p) \/ BySem!TakeUnlock(p) \/ BySem!PutUnlock(p)
      PROVE  MutexPlaced' /\ Thinkers' /\ Remembered(state_condvar', SemOwing')
  <2>1. PICK to : /\ pc' = [pc EXCEPT ![p] = to] /\ BySem!Active(p) /\ UNCHANGED state_condvar
                  /\ \/ BySem!Down(p, Mutex) /\ pc[p] = "take_lock" /\ to = "take"
                     \/ BySem!Down(p, Mutex) /\ pc[p] = "put_lock" /\ to = "put"
                     \/ BySem!Up(Mutex) /\ pc[p] = "take_unlock" /\ to = "take_down"
                     \/ BySem!Up(Mutex) /\ pc[p] = "put_unlock" /\ to \in {"think", "quit"}
    BY <1>9 DEF BySem!TakeLock, BySem!PutLock, BySem!TakeUnlock, BySem!PutUnlock,
                BySem!At, BySem!GoTo
  <2> QED
    BY <1>5, <2>1
<1> QED
  BY <1>1, <1>2, <1>3, <1>6, <1>7, <1>8, <1>9 DEF BySem!PhiNext, BySem!Philosopher


-----------------------------------------------------------------------------

(* The induction over both dinners.                                        *)
AtTable ==
    /\ Table
    /\ version = "monitor" => MonitorRemembers
    /\ version = "semaphores" => SemRemembers

(* At the start everybody thinks.                                          *)
LEMMA RemembersInit == CheckInit => AtTable
<1> SUFFICES ASSUME CheckInit PROVE AtTable
  OBVIOUS
<1>0. Table
  BY TableAtStart
<1>1. CASE version = "monitor" /\ PhiInit
  <2>1. /\ MonitorInit("think") /\ state_condvar = [i \in Thread |-> "THINKING"]
        /\ next_count = 0 /\ \A p \in Thread : pc[p] = "think"
    BY <1>1 DEF PhiInit, MonitorInit
  <2>2. MonInv(Procedures)
    BY <2>1, ProceduresPlaces, MonitorInitInv DEF InsideOf, Procedures, MonitorPcs
  <2>3. ASSUME NEW p \in Thread PROVE MonitorSeated(p)
    BY <2>1 DEF MonitorSeated
  <2>4. Remembered(state_condvar, Owing)
    BY <2>1 DEF Remembered
  <2> QED
    BY <1>0, <1>1, <2>1, <2>2, <2>3, <2>4 DEF AtTable, MonitorRemembers
<1>2. CASE version = "semaphores" /\ BySem!PhiInit
  <2>1. /\ state_condvar = [i \in Thread |-> "THINKING"]
        /\ value[Mutex] = 1 /\ \A p \in Thread : pc[p] \in {"think", "quit"}
    BY <1>2, Semas DEF BySem!PhiInit, BySem!SemInit, SemaSems
  <2>2. MutexPlaced
    BY <2>1 DEF MutexPlaced, SemHolders, SemProcedures
  <2>3. Remembered(state_condvar, SemOwing)
    BY <2>1 DEF Remembered
  <2> QED
    BY <1>0, <1>2, <2>1, <2>2, <2>3 DEF AtTable, SemRemembers
<1> QED
  BY <1>1, <1>2 DEF CheckInit

LEMMA RemembersInv == CheckSpec => []AtTable
<1>1. AtTable /\ [CheckNext]_checkVars => AtTable'
  <2> SUFFICES ASSUME AtTable, [CheckNext]_checkVars PROVE AtTable'
    OBVIOUS
  <2>0. Table'
    BY TableStep DEF AtTable
  <2>1. CASE version = "monitor" /\ [PhiNext]_phiVars /\ UNCHANGED version
    BY <2>0, <2>1, MonitorRemembersInv DEF AtTable, Table
  <2>2. CASE version = "semaphores" /\ BySem!PhiNext /\ UNCHANGED version
    BY <2>0, <2>2, SemRemembersInv DEF AtTable, Table
  <2>3. CASE version = "semaphores" /\ UNCHANGED checkVars
    <3>1. UNCHANGED <<value, queue, pc, state_condvar, version>>
      BY <2>3 DEF checkVars, phiVars, monVars, semVars
    <3>2. SemHolders' = SemHolders /\ SemOwing' = SemOwing
      BY <3>1 DEF SemHolders, SemOwing, BySem!Queued
    <3> QED
      BY <2>0, <2>3, <3>1, <3>2
         DEF AtTable, SemRemembers, MutexPlaced, Remembered, LEFT, RIGHT
  <2> QED
    BY <2>1, <2>2, <2>3 DEF CheckNext, checkVars, AtTable, Table
<1> QED
  BY RemembersInit, <1>1, PTL DEF CheckSpec

(* A hungry philosopher is never forgotten: while the table is at rest one *)
(* of its neighbours eats, whose put will test it, at a table of any size  *)
(* and in both versions of check_sync.                                     *)
THEOREM HungryRememberedCorrect == CheckSpec => []HungryRemembered
<1>1. AtTable => HungryRemembered
  <2> SUFFICES ASSUME AtTable PROVE HungryRemembered
    OBVIOUS
  <2>1. CASE version = "monitor"
    <3> SUFFICES ASSUME value[Mutex] > 0, NEW p \in Thread, state_condvar[p] = "HUNGRY"
                 PROVE  /\ pc[p] = "wait_down" \/ p \in Queued(p)
                        /\ "EATING" \in {state_condvar[LEFT(p)], state_condvar[RIGHT(p)]}
      BY <2>1 DEF HungryRemembered, HungryHasReason
    <3>0. /\ MonInv(Procedures) /\ MonitorSeated(p) /\ next_count = 0
          /\ MonitorTable /\ Remembered(state_condvar, Owing)
      BY <2>1 DEF AtTable, Table, MonitorRemembers
    <3>1. Holders(InsideOf(Procedures)) = {} /\ queue[Mutex] = <<>>
      BY <3>0, MonitorAssumption DEF MonInv, OnePlace, IndInv, NobodyWaitsInVain
    <3>2. Signallers = {}
      BY <3>0, CountSets, FS_EmptySet DEF MonInv, CountsRight
    <3>3. ASSUME NEW q \in Thread PROVE pc[q] \notin Procedures
      <4> SUFFICES ASSUME pc[q] \in Procedures PROVE FALSE
        OBVIOUS
      <4>1. PICK s \in Sem : q \in Queued(s)
        BY <3>1 DEF Holders, InsideOf
      <4>2. s # Mutex
        BY <3>1, <4>1 DEF Queued, ToSet
      <4> QED
        BY <3>0, <4>1, <4>2, MonitorAssumption DEF MonInv, QueuePc, Procedures
    <3>4. LEFT(p) \notin Owing
      <4>1. LEFT(p) \in Thread
        BY Neighbours
      <4>2. Place(LEFT(p)) = "put_right" => pc[LEFT(p)] \in {"wait_down", "wait_end"}
        BY <3>2, <3>3, <4>1 DEF Place, MonitorPcs, Procedures, Signallers
      <4>3. MonitorSeated(LEFT(p))
        BY <2>1, <4>1 DEF AtTable, MonitorRemembers
      <4> QED
        BY <4>2, <4>3 DEF Owing, Place, MonitorSeated, MonitorPcs
    <3>5. pc[p] \in {"wait_down", "wait_end"} /\ cv[p] = p
      <4>1. Place(p) \in {"check", "eat", "put_enter", "put"}
        BY <3>0 DEF MonitorSeated
      <4>2. ~HasForks(p) /\ pc[p] \notin Procedures
        BY <3>0, <3>3 DEF MonitorTable
      <4>3. pc[p] \in MonitorPcs
        BY <4>1, <4>2 DEF Place, HasForks, Procedures
      <4> QED
        BY <3>0, <3>2, <4>3 DEF Signallers, MonitorPcs, MonitorSeated
    <3>6. pc[p] = "wait_end" => p \in Queued(p)
      <4> SUFFICES ASSUME pc[p] = "wait_end" PROVE p \in Queued(p)
        OBVIOUS
      <4>1. PICK s \in Sem : p \in Queued(s)
        BY <3>1 DEF Holders, InsideOf
      <4>2. s \in Cond
        BY <3>0, <4>1, MonitorAssumption DEF MonInv, QueuePc, Procedures
      <4>3. s = p
        BY <3>0, <3>5, <4>1, <4>2 DEF MonInv, QueuePc
      <4> QED
        BY <4>1, <4>3
    <3> QED
      BY <3>0, <3>4, <3>5, <3>6 DEF Remembered
  <2>2. CASE version = "semaphores"
    <3> SUFFICES ASSUME value[Mutex] > 0, NEW i \in Thread, state_condvar[i] = "HUNGRY"
                 PROVE  "EATING" \in {state_condvar[LEFT(i)], state_condvar[RIGHT(i)]}
      BY <2>2 DEF HungryRemembered, BySem!HungryHasReason, BySem!LEFT, BySem!RIGHT, LEFT, RIGHT
    <3>1. SemTable /\ SemHolders = {} /\ Remembered(state_condvar, SemOwing)
      BY <2>2 DEF AtTable, Table, SemRemembers, MutexPlaced
    <3>2. LEFT(i) \notin SemOwing
      <4>1. ASSUME NEW q \in Thread, pc[q] = "put_right" PROVE FALSE
        <5>1. q \in BySem!Queued(Mutex)
          BY <3>1, <4>1 DEF SemHolders, SemProcedures
        <5>2. waiting[q] = Mutex
          BY <3>1, <5>1, Semas, SemaTypes DEF SemTable
        <5> QED
          BY <3>1, <4>1, <5>2, Semas DEF SemTable, Seated
      <4> QED
        BY <4>1, Neighbours DEF SemOwing
    <3> QED
      BY <3>1, <3>2 DEF Remembered
  <2> QED
    BY <2>1, <2>2 DEF AtTable, Table
<1> QED
  BY <1>1, RemembersInv, PTL
=============================================================================
