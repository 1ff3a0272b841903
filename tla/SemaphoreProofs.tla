--------------------------- MODULE SemaphoreProofs ---------------------------
(***************************************************************************)
(* Proofs about Semaphore, for any number of threads and semaphores: the   *)
(* invariant IndInv of Semaphore is inductive.                             *)
(***************************************************************************)
EXTENDS Semaphore, FiniteSetTheorems, TLAPS

-----------------------------------------------------------------------------
(* Wait queues as sequences.                                               *)

LEMMA HeadTail ==
  ASSUME NEW T, NEW q \in Seq(T), q # <<>>
  PROVE  /\ Head(q) \in ToSet(q) /\ Head(q) \in T
         /\ Tail(q) \in Seq(T)
         /\ IsInjective(q) => /\ IsInjective(Tail(q))
                              /\ ToSet(Tail(q)) = ToSet(q) \ {Head(q)}
<1>1. /\ Len(q) \in Nat /\ Len(q) > 0 /\ DOMAIN q = 1..Len(q)
      /\ Head(q) = q[1]
      /\ Tail(q) \in Seq(T) /\ Len(Tail(q)) = Len(q) - 1
      /\ \A i \in 1..Len(q) - 1 : Tail(q)[i] = q[i + 1]
  OBVIOUS
<1>2. DOMAIN Tail(q) = 1..Len(q) - 1
  BY <1>1
<1>3. Head(q) \in ToSet(q) /\ Head(q) \in T
  BY <1>1 DEF ToSet
<1>4. ASSUME IsInjective(q)
      PROVE  IsInjective(Tail(q)) /\ ToSet(Tail(q)) = ToSet(q) \ {Head(q)}
  <2>1. \A a, b \in 1..Len(q) : q[a] = q[b] => a = b
    BY <1>1, <1>4 DEF IsInjective
  <2>2. IsInjective(Tail(q))
    <3> SUFFICES ASSUME NEW a \in 1..Len(q) - 1, NEW b \in 1..Len(q) - 1,
                        Tail(q)[a] = Tail(q)[b]
                 PROVE  a = b
      BY <1>2 DEF IsInjective
    <3>1. q[a + 1] = q[b + 1] /\ a + 1 \in 1..Len(q) /\ b + 1 \in 1..Len(q)
      BY <1>1
    <3> QED
      BY <2>1, <3>1
  <2>3. ToSet(Tail(q)) \subseteq ToSet(q) \ {Head(q)}
    <3> SUFFICES ASSUME NEW i \in 1..Len(q) - 1
                 PROVE  Tail(q)[i] \in ToSet(q) \ {Head(q)}
      BY <1>2 DEF ToSet
    <3>1. Tail(q)[i] = q[i + 1] /\ i + 1 \in 1..Len(q) /\ i + 1 # 1 /\ 1 \in 1..Len(q)
      BY <1>1
    <3> QED
      BY <1>1, <2>1, <3>1 DEF ToSet
  <2>4. ToSet(q) \ {Head(q)} \subseteq ToSet(Tail(q))
    <3> SUFFICES ASSUME NEW i \in 1..Len(q), q[i] # Head(q)
                 PROVE  q[i] \in ToSet(Tail(q))
      BY <1>1 DEF ToSet
    <3>1. i - 1 \in 1..Len(q) - 1 /\ Tail(q)[i - 1] = q[i]
      BY <1>1
    <3> QED
      BY <1>2, <3>1 DEF ToSet
  <2> QED
    BY <2>2, <2>3, <2>4
<1> QED
  BY <1>1, <1>3, <1>4

LEMMA Appended ==
  ASSUME NEW T, NEW q \in Seq(T), NEW e \in T
  PROVE  /\ Append(q, e) \in Seq(T) /\ Append(q, e) # <<>>
         /\ ToSet(Append(q, e)) = ToSet(q) \cup {e}
         /\ IsInjective(q) /\ e \notin ToSet(q) => IsInjective(Append(q, e))
<1>1. /\ Len(q) \in Nat /\ DOMAIN q = 1..Len(q)
      /\ Append(q, e) \in Seq(T) /\ Len(Append(q, e)) = Len(q) + 1
      /\ \A i \in 1..Len(q) : Append(q, e)[i] = q[i]
      /\ Append(q, e)[Len(q) + 1] = e
  OBVIOUS
<1>2. DOMAIN Append(q, e) = 1..Len(q) + 1
  BY <1>1
<1>3. ToSet(Append(q, e)) = ToSet(q) \cup {e}
  <2>1. \A i \in 1..Len(q) + 1 : i \in 1..Len(q) \/ i = Len(q) + 1
    BY <1>1
  <2> QED
    BY <1>1, <1>2, <2>1 DEF ToSet
<1>4. ASSUME IsInjective(q), e \notin ToSet(q) PROVE IsInjective(Append(q, e))
  <2> SUFFICES ASSUME NEW a \in 1..Len(q) + 1, NEW b \in 1..Len(q) + 1,
                      Append(q, e)[a] = Append(q, e)[b]
               PROVE  a = b
    BY <1>2 DEF IsInjective
  <2>1. \A i \in 1..Len(q) : q[i] # e
    BY <1>1, <1>4 DEF ToSet
  <2>2. \A i \in 1..Len(q) + 1 : i \in 1..Len(q) \/ i = Len(q) + 1
    BY <1>1
  <2> QED
    BY <1>1, <1>4, <2>1, <2>2 DEF IsInjective
<1> QED
  BY <1>1, <1>2, <1>3, <1>4

-----------------------------------------------------------------------------
(* The invariant.                                                          *)

LEMMA SemInitInv ==
  ASSUME NEW initial \in [Sem -> Nat], SemInit(initial)
  PROVE  IndInv
<1>1. ToSet(<<>>) = {} /\ IsInjective(<<>>)
  BY DEF ToSet, IsInjective
<1>2. SemTypeOK
  BY DEF SemInit, SemTypeOK, WaitStates
<1>3. QueueExact
  BY <1>1, ThreadAssumption DEF SemInit, QueueExact, Queued
<1>4. DownGranted /\ NobodyWaitsInVain /\ CpuInv
  BY DEF SemInit, DownGranted, NobodyWaitsInVain, CpuInv
<1> QED
  BY <1>2, <1>3, <1>4 DEF IndInv, TypeOK

LEMMA InitInv == Init => IndInv
<1>1. \A initial \in [Sem -> 0..MaxValue] : initial \in [Sem -> Nat]
  OBVIOUS
<1> QED
  BY <1>1, SemInitInv DEF Init

(* up: whether the permit is counted or handed over.                       *)
LEMMA UpInv ==
  ASSUME IndInv, NEW s \in Sem, NEW p \in Thread, Active(p), Up(s)
  PROVE  IndInv'
<1> USE DEF IndInv, TypeOK
<1>0. SemTypeOK /\ ~resched /\ wait_state[current] = "none" /\ queue[s] \in Seq(Thread)
  BY DEF Active, Runs, SemTypeOK, CpuInv
<1>1. CASE queue[s] = <<>> /\ value' = [value EXCEPT ![s] = @ + 1]
           /\ UNCHANGED <<wait_state, queue, wakeup_flags>>
  BY <1>0, <1>1
     DEF Up, SemTypeOK, QueueExact, Queued, DownGranted, NobodyWaitsInVain, CpuInv
<1>2. CASE queue[s] # <<>>
  <2> DEFINE h == Head(queue[s])
  <2>1. /\ queue' = [queue EXCEPT ![s] = Tail(@)]
        /\ wakeup_flags' = [wakeup_flags EXCEPT ![h] = "WT_KSEM"]
        /\ wait_state' = [wait_state EXCEPT ![h] = "none"]
        /\ UNCHANGED <<value, current, resched, waiting>>
    BY <1>2 DEF Up
  <2>2. /\ h \in Queued(s) /\ h \in Thread
        /\ Tail(queue[s]) \in Seq(Thread)
        /\ IsInjective(Tail(queue[s]))
        /\ ToSet(Tail(queue[s])) = Queued(s) \ {h}
    BY <1>0, <1>2, HeadTail DEF QueueExact, Queued
  <2>3. waiting[h] = s /\ wait_state[h] = "WT_KSEM"
    BY <2>2 DEF QueueExact
  <2> HIDE DEF h
  <2>4. SemTypeOK'
    BY <1>0, <2>1, <2>2 DEF SemTypeOK, WaitStates
  <2>5. \A t \in Sem : Queued(t)' = IF t = s THEN Queued(s) \ {h} ELSE Queued(t)
    BY <1>0, <2>1, <2>2 DEF Queued, SemTypeOK
  <2>6. QueueExact'
    BY <1>0, <2>1, <2>2, <2>3, <2>5 DEF QueueExact, SemTypeOK
  <2>7. DownGranted' /\ NobodyWaitsInVain' /\ CpuInv'
    BY <1>0, <1>2, <2>1, <2>2, <2>3 DEF DownGranted, NobodyWaitsInVain, CpuInv, SemTypeOK
  <2> QED
    BY <2>4, <2>6, <2>7
<1> QED
  BY <1>1, <1>2 DEF Up

LEMMA DownInv ==
  ASSUME IndInv, NEW s \in Sem, NEW p \in Thread, Active(p), Down(p, s)
  PROVE  IndInv'
<1> USE DEF IndInv, TypeOK
<1>0. /\ SemTypeOK /\ ~resched /\ current = p /\ wait_state[p] = "none"
      /\ waiting[p] = NULL /\ queue[s] \in Seq(Thread)
  BY DEF Active, Runs, SemTypeOK, CpuInv
<1>1. CASE DownTake(s)
  BY <1>0, <1>1
     DEF DownTake, SemTypeOK, QueueExact, Queued, DownGranted, NobodyWaitsInVain, CpuInv
<1>2. CASE DownBlock(p, s)
  <2>1. /\ queue' = [queue EXCEPT ![s] = Append(@, p)]
        /\ wakeup_flags' = [wakeup_flags EXCEPT ![p] = "WT_INTERRUPTED"]
        /\ wait_state' = [wait_state EXCEPT ![p] = "WT_KSEM"]
        /\ waiting' = [waiting EXCEPT ![p] = s]
        /\ resched' = TRUE
        /\ UNCHANGED <<value, current>>
        /\ value[s] <= 0
    BY <1>2 DEF DownBlock
  <2>2. p \notin Queued(s)
    BY <1>0 DEF QueueExact
  <2>3. /\ Append(queue[s], p) \in Seq(Thread)
        /\ IsInjective(Append(queue[s], p))
        /\ ToSet(Append(queue[s], p)) = Queued(s) \cup {p}
    BY <1>0, <2>2, Appended DEF QueueExact, Queued
  <2>4. SemTypeOK'
    BY <1>0, <2>1, <2>3 DEF SemTypeOK, WaitStates
  <2>5. \A t \in Sem : Queued(t)' = IF t = s THEN Queued(s) \cup {p} ELSE Queued(t)
    BY <1>0, <2>1, <2>3 DEF Queued, SemTypeOK
  <2>6. QueueExact'
    <3>1. \A t \in Sem : IsInjective(queue'[t])
      BY <1>0, <2>1, <2>3 DEF QueueExact, SemTypeOK
    <3>2. \A t \in Sem, q \in Thread :
             q \in Queued(t)' <=> waiting'[q] = t /\ wait_state'[q] = "WT_KSEM"
      BY <1>0, <2>1, <2>5, ThreadAssumption DEF QueueExact, SemTypeOK
    <3> QED
      BY <3>1, <3>2 DEF QueueExact
  <2>7. DownGranted' /\ CpuInv'
    BY <1>0, <2>1, ThreadAssumption DEF DownGranted, CpuInv, SemTypeOK
  <2>8. NobodyWaitsInVain'
    BY <1>0, <2>1 DEF NobodyWaitsInVain, SemTypeOK
  <2> QED
    BY <2>4, <2>6, <2>7, <2>8
<1> QED
  BY <1>1, <1>2 DEF Down

LEMMA ReturnInv ==
  ASSUME IndInv, NEW p \in Thread, DownReturn(p)
  PROVE  IndInv'
<1> USE DEF IndInv, TypeOK
<1>1. /\ current = p /\ ~resched /\ wait_state[p] = "none" /\ waiting[p] \in Sem
  BY DEF DownReturn, Runs, SemTypeOK, CpuInv
<1>2. p \notin Queued(waiting[p])
  BY <1>1 DEF QueueExact
<1>3. /\ queue' = queue
      /\ waiting' = [waiting EXCEPT ![p] = NULL]
      /\ UNCHANGED <<current, resched, wait_state, value, wakeup_flags>>
  BY <1>2 DEF DownReturn
<1> QED
  BY <1>1, <1>3, ThreadAssumption
     DEF SemTypeOK, QueueExact, Queued, DownGranted, NobodyWaitsInVain, CpuInv

(* Steps that leave semaphores and their queues alone, and change the      *)
(* wait_state only of a thread that is in no __down.                       *)
LEMMA OtherInv ==
  ASSUME IndInv, UNCHANGED <<value, queue, waiting, wakeup_flags>>,
         current' \in Thread \cup {Idle}, resched' \in BOOLEAN,
         wait_state' \in [Thread -> WaitStates],
         \A q \in Thread : wait_state'[q] # wait_state[q] =>
            /\ waiting[q] = NULL
            /\ wait_state'[q] # "WT_KSEM",
         ~resched' => current' \in Thread /\ wait_state'[current'] = "none"
  PROVE  IndInv'
<1> USE DEF IndInv, TypeOK
<1>1. SemTypeOK'
  BY DEF SemTypeOK
<1>2. QueueExact'
  BY ThreadAssumption DEF QueueExact, Queued, SemTypeOK
<1>3. DownGranted' /\ NobodyWaitsInVain' /\ CpuInv'
  BY DEF DownGranted, NobodyWaitsInVain, CpuInv, SemTypeOK
<1> QED
  BY <1>1, <1>2, <1>3

(* What the semaphore operations do to the queues.                         *)

LEMMA UpQueues ==
  ASSUME IndInv, NEW s \in Sem, Up(s)
  PROVE  /\ queue[s] = <<>> => /\ value' = [value EXCEPT ![s] = @ + 1]
                               /\ \A t \in Sem : Queued(t)' = Queued(t)
                               /\ Queued(s) = {}
         /\ queue[s] # <<>> =>
               /\ value' = value
               /\ \E h \in Queued(s) :
                     /\ h \in Thread
                     /\ \A t \in Sem : Queued(t)' = IF t = s THEN Queued(s) \ {h}
                                                    ELSE Queued(t)
                     /\ \A t \in Sem : h \notin Queued(t)'
<1>0. SemTypeOK /\ QueueExact /\ queue[s] \in Seq(Thread)
  BY DEF IndInv, TypeOK, SemTypeOK
<1>1. CASE queue[s] = <<>>
  BY <1>1 DEF Up, Queued, ToSet
<1>2. CASE queue[s] # <<>>
  <2> DEFINE h == Head(queue[s])
  <2>1. queue' = [queue EXCEPT ![s] = Tail(@)] /\ value' = value
    BY <1>2 DEF Up
  <2>2. /\ h \in Queued(s) /\ h \in Thread
        /\ ToSet(Tail(queue[s])) = Queued(s) \ {h}
    BY <1>0, <1>2, HeadTail DEF QueueExact, Queued
  <2> HIDE DEF h
  <2>3. \A t \in Sem : Queued(t)' = IF t = s THEN Queued(s) \ {h} ELSE Queued(t)
    BY <1>0, <2>1, <2>2 DEF Queued, SemTypeOK
  <2>4. \A t \in Sem : h \in Queued(t) => t = s
    BY <1>0, <2>2 DEF QueueExact
  <2>5. \A t \in Sem : h \notin Queued(t)'
    BY <2>3, <2>4
  <2> QED
    BY <1>2, <2>1, <2>2, <2>3, <2>5
<1> QED
  BY <1>1, <1>2

LEMMA DownQueues ==
  ASSUME IndInv, NEW s \in Sem, NEW p \in Thread, Active(p), Down(p, s)
  PROVE  /\ value[s] > 0 => /\ value' = [value EXCEPT ![s] = @ - 1]
                            /\ \A t \in Sem : Queued(t)' = Queued(t)
         /\ ~(value[s] > 0) =>
               /\ value' = value
               /\ \A t \in Sem : Queued(t)' = IF t = s THEN Queued(s) \cup {p}
                                              ELSE Queued(t)
<1>0. SemTypeOK /\ QueueExact /\ queue[s] \in Seq(Thread) /\ value[s] \in Nat
  BY DEF IndInv, TypeOK, SemTypeOK
<1>1. CASE DownTake(s)
  BY <1>1 DEF DownTake, Queued
<1>2. CASE DownBlock(p, s)
  <2>1. queue' = [queue EXCEPT ![s] = Append(@, p)] /\ value' = value /\ value[s] <= 0
    BY <1>2 DEF DownBlock
  <2>2. ToSet(Append(queue[s], p)) = Queued(s) \cup {p}
    BY <1>0, Appended DEF Queued
  <2>3. \A t \in Sem : Queued(t)' = IF t = s THEN Queued(s) \cup {p} ELSE Queued(t)
    BY <1>0, <2>1, <2>2 DEF Queued, SemTypeOK
  <2> QED
    BY <1>0, <2>1, <2>3
<1> QED
  BY <1>1, <1>2 DEF Down

LEMMA NextInv == IndInv /\ [Next]_semVars => IndInv'
<1> SUFFICES ASSUME IndInv, [Next]_semVars PROVE IndInv'
  OBVIOUS
<1>0. SemTypeOK /\ CpuInv /\ QueueExact
  BY DEF IndInv, TypeOK
<1>1. ASSUME NEW p \in Thread, NEW s \in Sem,
             UserUp(p, s) \/ UserDown(p, s) \/ UserTryDown(p, s)
      PROVE  IndInv'
  BY <1>1, UpInv, DownInv DEF UserUp, UserDown, UserTryDown, Down
<1>2. ASSUME NEW p \in Thread, UserSleep(p) \/ UserYield(p) \/ UserExit(p)
      PROVE  IndInv'
  <2>1. /\ resched' = TRUE /\ current' = current
        /\ UNCHANGED <<value, queue, waiting, wakeup_flags>>
        /\ waiting[p] = NULL
        /\ \E w \in {"WT_TIMER", "EXITED", wait_state[p]} :
              wait_state' = [wait_state EXCEPT ![p] = w]
    BY <1>0, <1>2
       DEF UserSleep, UserYield, UserExit, Active, Sleep, Exit, SemTypeOK
  <2> QED
    BY <1>0, <2>1, OtherInv DEF SemTypeOK, WaitStates
<1>3. ASSUME NEW p \in Thread, Kill(p) \/ TimerFires(p) PROVE IndInv'
  <2>1. /\ wait_state[p] = "WT_TIMER"
        /\ wait_state' = [wait_state EXCEPT ![p] = "none"]
        /\ UNCHANGED <<current, resched, value, queue, waiting, wakeup_flags>>
    BY <1>3 DEF Kill, TimerFires
  <2>2. waiting[p] = NULL
    BY <1>0, <2>1 DEF CpuInv
  <2> QED
    BY <1>0, <2>1, <2>2, OtherInv DEF SemTypeOK, WaitStates, CpuInv
<1>4. CASE Dispatch
  <2>1. /\ current' \in Thread \cup {Idle}
        /\ resched' \in BOOLEAN
        /\ ~resched' => current' \in Thread /\ wait_state'[current'] = "none"
    BY <1>0, <1>4 DEF Dispatch, Runnable, SemTypeOK
  <2> QED
    BY <1>0, <1>4, <2>1, OtherInv DEF Dispatch, SemTypeOK
<1>5. ASSUME NEW p \in Thread, DownReturn(p) PROVE IndInv'
  BY <1>5, ReturnInv
<1>6. CASE UNCHANGED semVars
  BY <1>6 DEF semVars, IndInv, TypeOK, SemTypeOK, QueueExact, Queued, DownGranted,
              NobodyWaitsInVain, CpuInv
<1> QED
  BY <1>1, <1>2, <1>3, <1>4, <1>5, <1>6 DEF Next, KernelStep

LEMMA Inductive == Spec => []IndInv
  BY InitInv, NextInv, PTL DEF Spec

-----------------------------------------------------------------------------

(* Wait queues hold exactly the threads that sleep in a down, each once:   *)
(* no wait_t is left in a list when the stack frame that holds it is gone. *)
THEOREM QueueCorrect == Spec => []QueueExact
<1>1. IndInv => QueueExact
  BY DEF IndInv
<1> QED
  BY <1>1, Inductive, PTL

(* A thread leaves down only with a permit that an up has handed to it:    *)
(* down's assertion holds.                                                 *)
THEOREM GrantCorrect == Spec => []DownGranted
<1>1. IndInv => DownGranted
  BY DEF IndInv
<1> QED
  BY <1>1, Inductive, PTL

(* Nobody is in the queue of a semaphore that has permits.                 *)
THEOREM NoWaitInVain == Spec => []NobodyWaitsInVain
<1>1. IndInv => NobodyWaitsInVain
  BY DEF IndInv
<1> QED
  BY <1>1, Inductive, PTL

-----------------------------------------------------------------------------
(* The refinement: a step of the code is a step of the counting semaphore  *)
(* or changes neither the permits, those in the hands of woken threads     *)
(* included, nor who asks for one.                                         *)

LEMMA HandedOverFinite ==
  ASSUME NEW s \in Sem
  PROVE  IsFiniteSet(HandedOver[s]) /\ Cardinality(HandedOver[s]) \in Nat
<1>1. HandedOver[s] \in SUBSET Thread
  BY DEF HandedOver
<1> QED
  BY <1>1, ThreadAssumption, FS_Subset, FS_CardinalityType

(* The permits of s change by d, those of the others stay.                 *)
LEMMA PermitsChange ==
  ASSUME SemTypeOK, NEW s \in Sem, NEW d \in Int,
         \A t \in Sem : value'[t] + Cardinality(HandedOver'[t]) =
                           value[t] + Cardinality(HandedOver[t]) + (IF t = s THEN d ELSE 0)
  PROVE  /\ Permits' = [Permits EXCEPT ![s] = @ + d]
         /\ Permits[s] = value[s] + Cardinality(HandedOver[s])
<1>1. \A t \in Sem : value[t] \in Nat /\ Cardinality(HandedOver[t]) \in Nat
  BY HandedOverFinite DEF SemTypeOK
<1>2. DOMAIN Permits = Sem /\ Permits' = [t \in Sem |-> Permits'[t]]
  BY DEF Permits
<1>3. \A t \in Sem : /\ Permits[t] = value[t] + Cardinality(HandedOver[t])
                     /\ Permits'[t] = value'[t] + Cardinality(HandedOver'[t])
  BY DEF Permits
<1> QED
  BY <1>1, <1>2, <1>3

LEMMA PermitsSpent ==
  ASSUME SemTypeOK, NEW s \in Sem,
         \A t \in Sem : value'[t] + Cardinality(HandedOver'[t]) =
                           value[t] + Cardinality(HandedOver[t]) + (IF t = s THEN -1 ELSE 0)
  PROVE  /\ Permits' = [Permits EXCEPT ![s] = @ - 1]
         /\ Permits[s] = value[s] + Cardinality(HandedOver[s])
<1>1. /\ Permits' = [Permits EXCEPT ![s] = @ + (-1)]
      /\ Permits[s] = value[s] + Cardinality(HandedOver[s])
  BY PermitsChange
<1>2. value[s] \in Nat /\ Cardinality(HandedOver[s]) \in Nat
  BY HandedOverFinite DEF SemTypeOK
<1>3. Permits[s] + (-1) = Permits[s] - 1
  BY <1>1, <1>2
<1> QED
  BY <1>1, <1>3

LEMMA UpIsV ==
  ASSUME IndInv, NEW s \in Sem, Up(s)
  PROVE  Counting!V(s)
<1>0. SemTypeOK /\ QueueExact /\ queue[s] \in Seq(Thread)
  BY DEF IndInv, TypeOK, SemTypeOK
<1>1. waiting' = waiting
  BY DEF Up
<1>2. \A t \in Sem : value[t] \in Nat /\ Cardinality(HandedOver[t]) \in Nat
  BY <1>0, HandedOverFinite DEF SemTypeOK
<1>3. CASE queue[s] = <<>> /\ value' = [value EXCEPT ![s] = @ + 1] /\ queue' = queue
  <2>1. HandedOver' = HandedOver
    BY <1>1, <1>3 DEF HandedOver, Queued
  <2>2. \A t \in Sem : value'[t] = value[t] + (IF t = s THEN 1 ELSE 0)
    BY <1>0, <1>2, <1>3 DEF SemTypeOK
  <2>3. \A t \in Sem : value'[t] + Cardinality(HandedOver'[t]) =
                          value[t] + Cardinality(HandedOver[t]) + (IF t = s THEN 1 ELSE 0)
    BY <1>2, <2>1, <2>2
  <2> QED
    BY <1>0, <1>1, <2>3, PermitsChange DEF Counting!V
<1>4. CASE queue[s] # <<>> /\ queue' = [queue EXCEPT ![s] = Tail(@)] /\ value' = value
  <2> DEFINE h == Head(queue[s])
  <2>1. /\ h \in Queued(s) /\ h \in Thread
        /\ ToSet(Tail(queue[s])) = Queued(s) \ {h}
    BY <1>0, <1>4, HeadTail DEF QueueExact, Queued
  <2>2. waiting[h] = s
    BY <1>0, <2>1 DEF QueueExact
  <2> HIDE DEF h
  <2>3. \A t \in Sem : Queued(t)' = IF t = s THEN Queued(s) \ {h} ELSE Queued(t)
    BY <1>0, <1>4, <2>1 DEF Queued, SemTypeOK
  <2>4. /\ HandedOver'[s] = HandedOver[s] \cup {h} /\ h \notin HandedOver[s]
        /\ \A t \in Sem \ {s} : HandedOver'[t] = HandedOver[t]
    BY <1>1, <2>1, <2>2, <2>3 DEF HandedOver
  <2>5. Cardinality(HandedOver[s] \cup {h}) = Cardinality(HandedOver[s]) + 1
    BY <2>4, HandedOverFinite, FS_AddElement
  <2>6. /\ Cardinality(HandedOver'[s]) = Cardinality(HandedOver[s]) + 1
        /\ \A t \in Sem \ {s} : Cardinality(HandedOver'[t]) = Cardinality(HandedOver[t])
    BY <2>4, <2>5, Zenon
  <2>7. \A t \in Sem : value'[t] + Cardinality(HandedOver'[t]) =
                          value[t] + Cardinality(HandedOver[t]) + (IF t = s THEN 1 ELSE 0)
    BY <1>2, <1>4, <2>6
  <2> QED
    BY <1>0, <1>1, <2>7, PermitsChange DEF Counting!V
<1> QED
  BY <1>3, <1>4 DEF Up

LEMMA TakeIsP ==
  ASSUME IndInv, NEW s \in Sem, DownTake(s)
  PROVE  Counting!P(s)
<1>0. SemTypeOK
  BY DEF IndInv, TypeOK
<1>1. HandedOver' = HandedOver /\ waiting' = waiting /\ value[s] > 0
  BY DEF DownTake, HandedOver, Queued
<1>2. \A t \in Sem : /\ value'[t] = value[t] + (IF t = s THEN -1 ELSE 0)
                     /\ value[t] \in Nat /\ Cardinality(HandedOver[t]) \in Nat
  BY <1>0, HandedOverFinite DEF SemTypeOK, DownTake
<1>3. \A t \in Sem : value'[t] + Cardinality(HandedOver'[t]) =
                        value[t] + Cardinality(HandedOver[t]) + (IF t = s THEN -1 ELSE 0)
  BY <1>1, <1>2
<1>4. Permits' = [Permits EXCEPT ![s] = @ - 1]
      /\ Permits[s] = value[s] + Cardinality(HandedOver[s])
  BY <1>0, <1>3, PermitsSpent
<1> QED
  BY <1>1, <1>2, <1>4 DEF Counting!P, Counting!Take

LEMMA BlockIsAsk ==
  ASSUME IndInv, NEW s \in Sem, NEW p \in Thread, waiting[p] = NULL, DownBlock(p, s)
  PROVE  Counting!Ask(p, s)
<1>0. SemTypeOK /\ queue[s] \in Seq(Thread)
  BY DEF IndInv, TypeOK, SemTypeOK
<1>1. ToSet(Append(queue[s], p)) = Queued(s) \cup {p}
  BY <1>0, Appended DEF Queued
<1>2. /\ queue' = [queue EXCEPT ![s] = Append(@, p)]
      /\ waiting' = [waiting EXCEPT ![p] = s]
      /\ value' = value
  BY DEF DownBlock
<1>3. \A t \in Sem : Queued(t)' = IF t = s THEN Queued(s) \cup {p} ELSE Queued(t)
  BY <1>0, <1>1, <1>2 DEF Queued, SemTypeOK
<1>4. \A t \in Sem : HandedOver'[t] = HandedOver[t]
  BY <1>0, <1>2, <1>3, ThreadAssumption DEF HandedOver, SemTypeOK
<1>5. Permits' = Permits
  BY <1>2, <1>4 DEF Permits
<1> QED
  BY <1>2, <1>5 DEF Counting!Ask

LEMMA ReturnIsReceive ==
  ASSUME IndInv, NEW p \in Thread, DownReturn(p)
  PROVE  Counting!Receive(p)
<1>0. SemTypeOK /\ CpuInv /\ QueueExact
  BY DEF IndInv, TypeOK
<1>1. PICK s \in Sem : waiting[p] = s
  BY <1>0 DEF DownReturn, SemTypeOK
<1>2. wait_state[p] = "none"
  BY <1>0 DEF DownReturn, Runs, CpuInv
<1>3. p \in HandedOver[s] /\ p \notin Queued(s)
  BY <1>0, <1>1, <1>2 DEF QueueExact, HandedOver
<1>4. queue' = queue /\ value' = value /\ waiting' = [waiting EXCEPT ![p] = NULL]
  BY <1>1, <1>3 DEF DownReturn
<1>5. \A t \in Sem : HandedOver'[t] = IF t = s THEN HandedOver[s] \ {p} ELSE HandedOver[t]
  <2>1. \A q \in Thread : waiting'[q] = IF q = p THEN NULL ELSE waiting[q]
    BY <1>0, <1>4 DEF SemTypeOK
  <2>2. \A t \in Sem : Queued(t)' = Queued(t) /\ t # NULL
    BY <1>4, ThreadAssumption DEF Queued
  <2>3. \A t \in Sem : HandedOver'[t] = {q \in Thread : waiting'[q] = t /\ q \notin Queued(t)'}
    BY DEF HandedOver
  <2>4. \A t \in Sem : HandedOver[t] = {q \in Thread : waiting[q] = t /\ q \notin Queued(t)}
    BY DEF HandedOver
  <2> QED
    <3> TAKE t \in Sem
    <3>1. CASE t = s
      BY <1>1, <2>1, <2>2, <2>3, <2>4, <3>1
    <3>2. CASE t # s
      <4>1. \A q \in Thread : waiting'[q] = t <=> waiting[q] = t
        BY <1>1, <2>1, <2>2, <3>2
      <4>2. /\ HandedOver'[t] \subseteq Thread /\ HandedOver[t] \subseteq Thread
            /\ \A q \in Thread : q \in HandedOver'[t] <=> q \in HandedOver[t]
        <5>1. Queued(t)' = Queued(t)
          BY <2>2
        <5>2. HandedOver'[t] = {q \in Thread : waiting'[q] = t /\ q \notin Queued(t)}
          BY <2>3, <5>1, Zenon
        <5> QED
          BY <2>4, <4>1, <5>2
      <4>3. HandedOver'[t] = HandedOver[t]
        BY <4>2
      <4> QED
        BY <3>2, <4>3
    <3> QED
      BY <3>1, <3>2
<1>6. Cardinality(HandedOver[s] \ {p}) = Cardinality(HandedOver[s]) - 1
  BY <1>3, HandedOverFinite, FS_RemoveElement
<1>7. Cardinality(HandedOver[s]) > 0
  <2>1. Cardinality(HandedOver[s] \ {p}) \in Nat
    BY HandedOverFinite, FS_RemoveElement, FS_CardinalityType
  <2> QED
    BY <1>6, <2>1, HandedOverFinite
<1>8. \A t \in Sem : /\ value[t] \in Nat /\ Cardinality(HandedOver[t]) \in Nat
                     /\ value'[t] + Cardinality(HandedOver'[t]) =
                          value[t] + Cardinality(HandedOver[t]) + (IF t = s THEN -1 ELSE 0)
  BY <1>0, <1>4, <1>5, <1>6, HandedOverFinite DEF SemTypeOK
<1>9. /\ Permits' = [Permits EXCEPT ![s] = @ - 1]
      /\ Permits[s] = value[s] + Cardinality(HandedOver[s])
  BY <1>0, <1>8, PermitsSpent
<1>10. Permits[s] > 0
  BY <1>7, <1>8, <1>9
<1> QED
  BY <1>1, <1>4, <1>9, <1>10, ThreadAssumption DEF Counting!Receive, Counting!Take

LEMMA CountingStep ==
  IndInv /\ [Next]_semVars => [Counting!CountingNext]_<<Permits, waiting>>
<1> SUFFICES ASSUME IndInv, [Next]_semVars
             PROVE  Counting!CountingNext \/ UNCHANGED <<Permits, waiting>>
  OBVIOUS
<1>1. ASSUME NEW p \in Thread, NEW s \in Sem,
             UserUp(p, s) \/ UserDown(p, s) \/ UserTryDown(p, s)
      PROVE  Counting!CountingNext
  BY <1>1, UpIsV, TakeIsP, BlockIsAsk
     DEF UserUp, UserDown, UserTryDown, Down, Active, Counting!CountingNext
<1>2. ASSUME NEW p \in Thread, DownReturn(p) PROVE Counting!CountingNext
  BY <1>2, ReturnIsReceive DEF Counting!CountingNext
<1>3. ASSUME UNCHANGED <<value, queue, waiting>>
      PROVE  UNCHANGED <<Permits, waiting>>
  BY <1>3 DEF Permits, HandedOver, Queued
<1>4. ASSUME NEW p \in Thread,
             UserSleep(p) \/ UserYield(p) \/ UserExit(p) \/ Kill(p) \/ TimerFires(p)
      PROVE  UNCHANGED <<value, queue, waiting>>
  BY <1>4 DEF UserSleep, UserYield, UserExit, Kill, TimerFires, Sleep, Exit
<1>5. CASE Dispatch \/ UNCHANGED semVars
  BY <1>3, <1>5 DEF Dispatch, semVars
<1> QED
  BY <1>1, <1>2, <1>3, <1>4, <1>5 DEF Next, KernelStep

(* up and down are V and P of a counting semaphore: a permit that up hands *)
(* to a waiter is spent when that thread returns from down, once.          *)
THEOREM CountingRefinement == Spec => ImplementsCounting
<1>1. Init => Counting!CountingInit
  <2> SUFFICES ASSUME NEW initial \in [Sem -> 0..MaxValue], SemInit(initial)
               PROVE  Counting!CountingInit
    BY DEF Init
  <2>1. \A s \in Sem : value[s] \in Nat
    BY DEF SemInit
  <2>2. \A s \in Sem : Cardinality(HandedOver[s]) \in Nat
    BY HandedOverFinite
  <2>3. Permits \in [Sem -> Nat]
    BY <2>1, <2>2 DEF Permits
  <2> QED
    BY <2>3 DEF SemInit, Counting!CountingInit
<1> QED
  BY <1>1, CountingStep, Inductive, PTL DEF Spec, ImplementsCounting, Counting!CountingSpec

=============================================================================
