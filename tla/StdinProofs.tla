----------------------------- MODULE StdinProofs -----------------------------
(* Proofs about Stdin, for any readers, characters, sizes of the ring and the *)
(* buffer, and lengths of reads: no wakeup is lost, and the ring implements   *)
(* InputQueue.                                                                *)
EXTENDS Stdin, TLAPS, SequenceTheorems

\* The wait queue decides nothing about the ring, and the ring nothing about the
\* queue but whether a read sleeps: TypeOK and SleepersQueued are inductive
\* together.
IndInv == TypeOK /\ SleepersQueued

\* The ring's indices are below twice its size.
LEMMA RingIndex ==
    ASSUME NEW x \in Nat, NEW n \in Nat \ {0}, x < 2 * n
    PROVE  /\ x % n \in 0..n - 1
           /\ x < n => x % n = x
           /\ x >= n => x % n = x - n
<1>1. x % n \in 0..n - 1 /\ x = n * (x \div n) + (x % n) /\ x \div n \in Int
  OBVIOUS
<1>2. x \div n \in {0, 1}
  <2> DEFINE q == x \div n
  <2>1. q < 0 => n * q <= -n
    BY <1>1, SMT
  <2>2. q > 1 => n * q >= 2 * n
    BY <1>1, SMT
  <2> QED
    BY <1>1, <2>1, <2>2, SMT
<1> QED
  BY <1>1, <1>2, SMT

\* What is read of the ring is a sequence of characters.
LEMMA FrontSeq ==
    ASSUME TypeOK, NEW k \in 0..Unread
    PROVE  /\ Front(k) \in Seq(Char \cup {Blank})
           /\ Len(Front(k)) = k
           /\ \A i \in 1..k : Front(k)[i] = stdin_buffer[((p_rpos + i) - 1) % STDIN_BUFSIZE]
<1>1. \A i \in 1..k : ((p_rpos + i) - 1) % STDIN_BUFSIZE \in 0..STDIN_BUFSIZE - 1
  <2> TAKE i \in 1..k
  <2>1. (p_rpos + i) - 1 \in Nat /\ (p_rpos + i) - 1 < 2 * STDIN_BUFSIZE
    BY StdinConstants DEF TypeOK, Unread
  <2> QED
    BY <2>1, RingIndex, StdinConstants
<1>2. k \in Nat
  BY StdinConstants DEF TypeOK, Unread
<1>3. Front(k) \in [1..k -> Char \cup {Blank}]
  BY <1>1 DEF TypeOK, Front
<1>4. Front(k) \in Seq(Char \cup {Blank}) /\ Len(Front(k)) = k
  BY <1>2, <1>3
<1> QED
  BY <1>4 DEF Front

\* A read takes k characters: the positions move on by k, and only the number of
\* turns of the ring is dropped.
LEMMA ReadMoves ==
    ASSUME TypeOK, NEW r, NEW n \in Nat, NEW text, ReadLoop(r, n, text)
    PROVE  LET k == IF n < Unread THEN n ELSE Unread IN
           /\ k \in 0..Unread
           /\ p_rpos' = IF p_rpos + k < STDIN_BUFSIZE THEN p_rpos + k
                        ELSE p_rpos + k - STDIN_BUFSIZE
           /\ p_rpos' \in 0..STDIN_BUFSIZE - 1
           /\ Unread' = Unread - k
           /\ p_wpos' \in p_rpos'..p_rpos' + STDIN_BUFSIZE
<1> DEFINE k == IF n < Unread THEN n ELSE Unread
           rpos == p_rpos + k
           turned == rpos % STDIN_BUFSIZE
<1>1. k \in 0..Unread /\ Unread \in 0..STDIN_BUFSIZE /\ p_rpos \in 0..STDIN_BUFSIZE - 1
  BY StdinConstants DEF TypeOK, Unread
<1>2. rpos \in Nat /\ rpos < 2 * STDIN_BUFSIZE
  BY <1>1, StdinConstants
<1>3. /\ turned \in 0..STDIN_BUFSIZE - 1
      /\ rpos < STDIN_BUFSIZE => turned = rpos
      /\ rpos >= STDIN_BUFSIZE => turned = rpos - STDIN_BUFSIZE
  BY <1>2, RingIndex, StdinConstants
<1>4. p_rpos' = turned /\ p_wpos' = p_wpos - (rpos - turned)
  BY DEF ReadLoop
<1>5. p_wpos \in Nat /\ Unread = p_wpos - p_rpos
  BY StdinConstants DEF TypeOK, Unread
<1>6. Unread' = p_wpos' - p_rpos'
  BY DEF Unread
<1> HIDE DEF k, turned
<1>7. Unread' = Unread - k
  BY <1>1, <1>2, <1>3, <1>4, <1>5, <1>6, StdinConstants
<1>8. p_wpos' \in p_rpos'..p_rpos' + STDIN_BUFSIZE
  BY <1>1, <1>2, <1>3, <1>4, <1>5, <1>6, <1>7, StdinConstants
<1>9. /\ p_rpos' = IF p_rpos + k < STDIN_BUFSIZE THEN p_rpos + k
                   ELSE p_rpos + k - STDIN_BUFSIZE
      /\ p_rpos' \in 0..STDIN_BUFSIZE - 1
  BY <1>1, <1>2, <1>3, <1>4, StdinConstants
<1> QED
  BY <1>1, <1>7, <1>8, <1>9 DEF k

------------------------------------------------------------------------------
\* A read or the rest of one keeps the invariant.
LEMMA ReadKeeps ==
    ASSUME IndInv, NEW r \in Reader, NEW n \in Nat \ {0}, NEW text,
           text \in Seq(Char \cup {Blank}), ReadLoop(r, n, text),
           r \notin wait_queue, state[r] \in {"user", "woken"}
    PROVE  IndInv'
<1> DEFINE k == IF n < Unread THEN n ELSE Unread
<1>0. TypeOK /\ SleepersQueued
  BY DEF IndInv
<1>1. /\ k \in 0..Unread
      /\ p_rpos' \in 0..STDIN_BUFSIZE - 1
      /\ p_wpos' \in p_rpos'..p_rpos' + STDIN_BUFSIZE
      /\ Unread' = Unread - k
  BY <1>0, ReadMoves
<1>2. /\ k \in Nat /\ n - k \in Nat
      /\ (k = n) <=> (n - k = 0)
      /\ k < n => Unread' = 0
      /\ Unread = 0 => Unread' = 0
  <2>1. Unread \in Nat
    BY <1>0, StdinConstants DEF TypeOK, Unread
  <2> QED
    BY <1>1, <2>1
<1>3. text \o Front(k) \in Seq(Char \cup {Blank})
  BY <1>0, <1>1, FrontSeq
<1>4. /\ left' = [left EXCEPT ![r] = n - k]
      /\ got' = [got EXCEPT ![r] = text \o Front(k)]
      /\ UNCHANGED <<stdin_buffer, killed>>
      /\ \/ /\ k = n
            /\ state' = [state EXCEPT ![r] = Returned(r)]
            /\ UNCHANGED <<wait_queue, wakeup_flags>>
         \/ /\ k < n
            /\ state' = [state EXCEPT ![r] = "asleep"]
            /\ wait_queue' = wait_queue \cup {r}
            /\ wakeup_flags' = [wakeup_flags EXCEPT ![r] = "INTERRUPTED"]
  BY DEF ReadLoop
<1> HIDE DEF k
<1>5. TypeOK'
  BY <1>0, <1>1, <1>2, <1>3, <1>4 DEF TypeOK, Returned
<1>6. SleepersQueued'
  <2>1. CASE k = n
    BY <2>1, <1>0, <1>2, <1>4 DEF TypeOK, SleepersQueued, Returned
  <2>2. CASE k < n
    BY <2>2, <1>0, <1>2, <1>4 DEF TypeOK, SleepersQueued
  <2> QED
    BY <1>4, <2>1, <2>2
<1> QED
  BY <1>5, <1>6 DEF IndInv

LEMMA IndInvInit == Init => IndInv
<1> SUFFICES ASSUME Init PROVE IndInv
  OBVIOUS
<1>1. TypeOK
  BY StdinConstants DEF Init, TypeOK
<1>2. SleepersQueued
  <2> SUFFICES ASSUME NEW r \in Reader
               PROVE  /\ state[r] \notin {"asleep", "woken"} /\ ~(left[r] > 0)
                      /\ r \notin wait_queue
    BY DEF SleepersQueued
  <2> QED
    BY DEF Init
<1> QED
  BY <1>1, <1>2 DEF IndInv

LEMMA IndInvNext == IndInv /\ [Next]_vars => IndInv'
<1> SUFFICES ASSUME IndInv, [Next]_vars PROVE IndInv'
  OBVIOUS
<1>0. TypeOK /\ SleepersQueued
  BY DEF IndInv
<1>1. ASSUME NEW c \in Char, Key(c) PROVE IndInv'
  <2>1. p_wpos % STDIN_BUFSIZE \in 0..STDIN_BUFSIZE - 1
    BY <1>0, RingIndex, StdinConstants DEF TypeOK
  <2>2. p_rpos' = p_rpos /\ p_wpos' \in p_rpos..p_rpos + STDIN_BUFSIZE
    BY <1>0, <1>1, StdinConstants DEF Key, KeyPosition, TypeOK, Unread
  <2>3. TypeOK'
    BY <1>0, <1>1, <2>1, <2>2 DEF Key, TypeOK, Woken
  <2>4. SleepersQueued'
    BY <1>0, <1>1 DEF Key, TypeOK, SleepersQueued, Woken
  <2> QED
    BY <2>3, <2>4 DEF IndInv
<1>2. ASSUME NEW r \in Reader, NEW n \in Lengths, Read(r, n) PROVE IndInv'
  <2>1. Piece(n) \in Nat \ {0} /\ state[r] = "user"
    BY <1>2, StdinConstants DEF Read, Piece
  <2>2. r \notin wait_queue
    BY <1>0, <2>1 DEF SleepersQueued
  <2>3. <<>> \in Seq(Char \cup {Blank})
    OBVIOUS
  <2> QED
    BY <1>2, <2>1, <2>2, <2>3, ReadKeeps DEF Read
<1>3. ASSUME NEW r \in Reader, ReadAgain(r) PROVE IndInv'
  <2>1. state[r] = "woken" /\ wakeup_flags[r] = "KBD"
    BY <1>3 DEF ReadAgain
  <2>2. r \notin wait_queue
    BY <1>0, <2>1 DEF SleepersQueued
  <2>3. left[r] \in Nat \ {0} /\ got[r] \in Seq(Char \cup {Blank})
    BY <1>0, <2>1 DEF TypeOK, SleepersQueued
  <2> QED
    BY <1>3, <2>1, <2>2, <2>3, ReadKeeps DEF ReadAgain
<1>4. ASSUME NEW r \in Reader, ReadInterrupted(r) PROVE IndInv'
  <2>1. TypeOK'
    BY <1>0, <1>4 DEF ReadInterrupted, TypeOK, Returned, ring
  <2>2. SleepersQueued'
    BY <1>0, <1>4 DEF ReadInterrupted, TypeOK, SleepersQueued, Returned, ring, Unread
  <2> QED
    BY <2>1, <2>2 DEF IndInv
<1>5. ASSUME NEW r \in Reader, Kill(r) PROVE IndInv'
  <2>1. TypeOK'
    BY <1>0, <1>5 DEF Kill, TypeOK, ring
  <2>2. SleepersQueued'
    BY <1>0, <1>5 DEF Kill, TypeOK, SleepersQueued, ring, Unread
  <2> QED
    BY <2>1, <2>2 DEF IndInv
<1>6. ASSUME NEW r \in Reader, Die(r) PROVE IndInv'
  <2>1. TypeOK'
    BY <1>0, <1>6 DEF Die, TypeOK, ring
  <2>2. SleepersQueued'
    BY <1>0, <1>6 DEF Die, TypeOK, SleepersQueued, ring, Unread
  <2> QED
    BY <2>1, <2>2 DEF IndInv
<1>7. CASE UNCHANGED vars
  BY <1>0, <1>7 DEF vars, ring, IndInv, TypeOK, SleepersQueued, Unread
<1> QED
  BY <1>1, <1>2, <1>3, <1>4, <1>5, <1>6, <1>7 DEF Next, Resume

LEMMA IndInvHolds == Spec => []IndInv
BY IndInvInit, IndInvNext, PTL DEF Spec

\* Every variable keeps its type: the positions stay within one turn of each
\* other, whatever the size of the ring.
THEOREM StdinTypeCorrect == Spec => []TypeOK
<1>1. IndInv => TypeOK
  BY DEF IndInv
<1> QED
  BY <1>1, IndInvHolds, PTL

\* No reader sleeps while there is something to read, and no entry of the wait
\* queue outlives the read that it belongs to (dev_stdin_read).
THEOREM NoSleepWithInput == Spec => []SleepersQueued
<1>1. IndInv => SleepersQueued
  BY DEF IndInv
<1> QED
  BY <1>1, IndInvHolds, PTL

------------------------------------------------------------------------------
\* A position below p_wpos is not the place where the next key goes, unless the
\* ring is full and it is the oldest one.
LEMMA PlacesApart ==
    ASSUME TypeOK, NEW i \in 1..Unread
    PROVE  /\ ((p_rpos + i) - 1) % STDIN_BUFSIZE = p_wpos % STDIN_BUFSIZE
                 <=> Unread = STDIN_BUFSIZE /\ i = 1
           /\ ((p_rpos + i) - 1) % STDIN_BUFSIZE \in 0..STDIN_BUFSIZE - 1
<1> DEFINE x == (p_rpos + i) - 1
           xm == x % STDIN_BUFSIZE
           wm == p_wpos % STDIN_BUFSIZE
<1>1. /\ x \in Nat /\ x < p_wpos /\ p_wpos <= x + STDIN_BUFSIZE
      /\ x < 2 * STDIN_BUFSIZE /\ p_wpos \in Nat /\ p_wpos < 2 * STDIN_BUFSIZE
      /\ p_wpos = x + STDIN_BUFSIZE <=> Unread = STDIN_BUFSIZE /\ i = 1
  BY StdinConstants DEF TypeOK, Unread
<1>2. /\ xm \in 0..STDIN_BUFSIZE - 1
      /\ x < STDIN_BUFSIZE => xm = x
      /\ x >= STDIN_BUFSIZE => xm = x - STDIN_BUFSIZE
  BY <1>1, RingIndex, StdinConstants
<1>3. /\ p_wpos < STDIN_BUFSIZE => wm = p_wpos
      /\ p_wpos >= STDIN_BUFSIZE => wm = p_wpos - STDIN_BUFSIZE
  BY <1>1, RingIndex, StdinConstants
<1> HIDE DEF x, xm, wm
<1>4. xm = wm <=> p_wpos = x + STDIN_BUFSIZE
  BY <1>1, <1>2, <1>3, StdinConstants
<1> QED
  BY <1>1, <1>2, <1>4 DEF x, xm, wm

LEMMA FirstReplaced ==
    ASSUME NEW S, NEW seq \in Seq(S), NEW c \in S, Len(seq) > 0
    PROVE  LET new == <<c>> \o Tail(seq) IN
           /\ new \in Seq(S) /\ Len(new) = Len(seq)
           /\ \A i \in 1..Len(seq) : new[i] = IF i = 1 THEN c ELSE seq[i]
<1>1. /\ Tail(seq) \in Seq(S) /\ Len(Tail(seq)) = Len(seq) - 1
      /\ \A i \in 1..Len(seq) - 1 : Tail(seq)[i] = seq[i + 1]
  OBVIOUS
<1>2. <<c>> \in Seq(S) /\ Len(<<c>>) = 1 /\ <<c>>[1] = c
  OBVIOUS
<1> DEFINE one == <<c>>
           tail == Tail(seq)
<1> HIDE DEF one, tail
<1>3. /\ one \o tail \in Seq(S) /\ Len(one \o tail) = 1 + (Len(seq) - 1)
      /\ \A i \in 1..Len(seq) : (one \o tail)[i] = IF i = 1 THEN one[1] ELSE tail[i - 1]
  BY <1>1, <1>2 DEF one, tail
<1> QED
  BY <1>1, <1>2, <1>3 DEF one, tail

\* A key appends to the line, or replaces its first character.
LEMMA KeyTypes ==
    ASSUME IndInv, NEW c \in Char, Key(c)
    PROVE  Keyboard!Type(c)
<1> DEFINE line == Front(Unread)
           longer == IF Len(line) < STDIN_BUFSIZE THEN Append(line, c)
                     ELSE <<c>> \o Tail(line)
<1>0. TypeOK
  BY DEF IndInv
<1>1. Unread \in 0..STDIN_BUFSIZE /\ Unread \in 0..Unread /\ Len(line) = Unread
  <2>1. Unread \in 0..STDIN_BUFSIZE /\ Unread \in 0..Unread
    BY <1>0, StdinConstants DEF TypeOK, Unread
  <2> QED
    BY <1>0, <2>1, FrontSeq
<1>2. line \in Seq(Char \cup {Blank})
  BY <1>0, <1>1, FrontSeq
<1>3. /\ p_rpos' = p_rpos
      /\ Unread' = IF Unread < STDIN_BUFSIZE THEN Unread + 1 ELSE Unread
      /\ stdin_buffer' = [stdin_buffer EXCEPT ![p_wpos % STDIN_BUFSIZE] = c]
  BY <1>0, StdinConstants DEF Key, KeyPosition, TypeOK, Unread
<1>4. /\ p_wpos % STDIN_BUFSIZE \in 0..STDIN_BUFSIZE - 1
      /\ p_wpos = (p_rpos + (Unread + 1)) - 1
  BY <1>0, RingIndex, StdinConstants DEF TypeOK, Unread
<1> HIDE DEF line
<1>5. /\ Len(longer) = Unread' /\ longer \in Seq(Char \cup {Blank})
      /\ \A i \in 1..Unread : ~(Unread = STDIN_BUFSIZE /\ i = 1) => longer[i] = line[i]
      /\ Unread = STDIN_BUFSIZE => longer[1] = c
      /\ Unread < STDIN_BUFSIZE => longer[Unread + 1] = c
  <2>1. CASE Unread < STDIN_BUFSIZE
    <3>1. longer = Append(line, c)
      BY <2>1, <1>1
    <3>2. c \in Char \cup {Blank}
      OBVIOUS
    <3> HIDE DEF longer
    <3>3. /\ longer \in Seq(Char \cup {Blank}) /\ Len(longer) = Len(line) + 1
          /\ \A i \in 1..Len(line) : longer[i] = line[i]
          /\ longer[Len(line) + 1] = c
      BY <3>1, <3>2, <1>2
    <3>4. Len(line) = Unread /\ Unread' = Unread + 1
      BY <2>1, <1>1, <1>3
    <3>5. Len(longer) = Unread'
      BY <3>3, <3>4
    <3>6. \A i \in 1..Unread : longer[i] = line[i]
      BY <3>3, <3>4
    <3>7. longer[Unread + 1] = c
      BY <3>3, <3>4
    <3>8. ~(Unread = STDIN_BUFSIZE)
      BY <2>1, <1>1, StdinConstants
    <3> QED
      BY <3>3, <3>5, <3>6, <3>7, <3>8
  <2>2. CASE Unread = STDIN_BUFSIZE
    <3>1. longer = <<c>> \o Tail(line) /\ Len(line) > 0
      BY <2>2, <1>1, StdinConstants
    <3>2. c \in Char \cup {Blank}
      OBVIOUS
    <3> HIDE DEF longer
    <3>3. /\ longer \in Seq(Char \cup {Blank}) /\ Len(longer) = Len(line)
          /\ \A i \in 1..Len(line) : longer[i] = IF i = 1 THEN c ELSE line[i]
      BY <3>1, <3>2, <1>2, FirstReplaced
    <3> QED
      BY <2>2, <3>3, <1>1, <1>3, StdinConstants
  <2>3. Unread < STDIN_BUFSIZE \/ Unread = STDIN_BUFSIZE
    BY <1>1, StdinConstants
  <2> QED
    BY <2>1, <2>2, <2>3
<1> HIDE DEF longer
<1>6. ASSUME NEW i \in 1..Unread'
      PROVE  longer[i] = stdin_buffer'[((p_rpos + i) - 1) % STDIN_BUFSIZE]
  <2>1. CASE i \in 1..Unread /\ ~(Unread = STDIN_BUFSIZE /\ i = 1)
    <3>1. longer[i] = line[i]
      BY <2>1, <1>5
    <3>2. line[i] = stdin_buffer[((p_rpos + i) - 1) % STDIN_BUFSIZE]
      BY <2>1 DEF line, Front
    <3>3. /\ ((p_rpos + i) - 1) % STDIN_BUFSIZE # p_wpos % STDIN_BUFSIZE
          /\ ((p_rpos + i) - 1) % STDIN_BUFSIZE \in 0..STDIN_BUFSIZE - 1
      BY <2>1, <1>0, PlacesApart
    <3> QED
      BY <3>1, <3>2, <3>3, <1>0, <1>3 DEF TypeOK
  <2>2. CASE Unread = STDIN_BUFSIZE /\ i = 1
    <3>1. longer[i] = c
      BY <2>2, <1>5
    <3>2. ((p_rpos + i) - 1) % STDIN_BUFSIZE = p_wpos % STDIN_BUFSIZE
      <4>1. i \in 1..Unread
        BY <2>2, StdinConstants
      <4> QED
        BY <4>1, <2>2, <1>0, PlacesApart
    <3> QED
      BY <3>1, <3>2, <1>0, <1>3, <1>4 DEF TypeOK
  <2>3. CASE Unread < STDIN_BUFSIZE /\ i = Unread + 1
    <3>1. longer[i] = c
      BY <2>3, <1>5
    <3> QED
      BY <2>3, <3>1, <1>0, <1>3, <1>4 DEF TypeOK
  <2> QED
    BY <1>1, <1>3, <2>1, <2>2, <2>3
<1>7. Front(Unread)' = longer
  <2>1. Front(Unread)' =
          [i \in 1..Unread' |-> stdin_buffer'[((p_rpos + i) - 1) % STDIN_BUFSIZE]]
    BY <1>3 DEF Front
  <2>2. longer = [i \in 1..Unread' |-> longer[i]]
    <3>1. longer \in [1..Len(longer) -> Char \cup {Blank}]
      BY <1>5
    <3> QED
      BY <1>5, <3>1
  <2> QED
    BY <2>1, <2>2, <1>6
<1> QED
  BY <1>7 DEF Keyboard!Type, Key, longer, line

\* A read takes the characters at the front of the line, across the end of the
\* ring if need be.
LEMMA ReadTakes ==
    ASSUME TypeOK, NEW r, NEW n \in Nat, NEW text, ReadLoop(r, n, text)
    PROVE  Keyboard!Take(r, n, text)
<1> DEFINE line == Front(Unread)
           k == IF n < Unread THEN n ELSE Unread
<1>1. /\ Unread \in 0..STDIN_BUFSIZE /\ Unread \in 0..Unread
      /\ p_rpos \in 0..STDIN_BUFSIZE - 1
  BY StdinConstants DEF TypeOK, Unread
<1>2. line \in Seq(Char \cup {Blank}) /\ Len(line) = Unread
  BY <1>1, FrontSeq
<1>3. /\ k \in 0..Unread /\ Unread' = Unread - k
      /\ p_rpos' = IF p_rpos + k < STDIN_BUFSIZE THEN p_rpos + k
                   ELSE p_rpos + k - STDIN_BUFSIZE
      /\ p_rpos' \in 0..STDIN_BUFSIZE - 1
  BY ReadMoves
<1> HIDE DEF k
<1>4. ASSUME NEW i \in 1..Unread - k
      PROVE  ((p_rpos' + i) - 1) % STDIN_BUFSIZE = ((p_rpos + (i + k)) - 1) % STDIN_BUFSIZE
  <2> DEFINE x == (p_rpos + (i + k)) - 1
             y == (p_rpos' + i) - 1
  <2>1. /\ x \in Nat /\ x < 2 * STDIN_BUFSIZE
        /\ y \in Nat /\ y < 2 * STDIN_BUFSIZE
        /\ p_rpos + k < STDIN_BUFSIZE => y = x
        /\ ~(p_rpos + k < STDIN_BUFSIZE) =>
             x >= STDIN_BUFSIZE /\ y < STDIN_BUFSIZE /\ y = x - STDIN_BUFSIZE
    BY <1>1, <1>3, StdinConstants
  <2>2. /\ x >= STDIN_BUFSIZE => x % STDIN_BUFSIZE = x - STDIN_BUFSIZE
        /\ y < STDIN_BUFSIZE => y % STDIN_BUFSIZE = y
    BY <2>1, RingIndex, StdinConstants
  <2> HIDE DEF x, y
  <2>3. x % STDIN_BUFSIZE = y % STDIN_BUFSIZE
    BY <2>1, <2>2
  <2> QED
    BY <2>3 DEF x, y
<1>5. Front(Unread)' = [i \in 1..Unread - k |-> line[i + k]]
  <2>1. Front(Unread)' =
          [i \in 1..Unread - k |-> stdin_buffer[((p_rpos' + i) - 1) % STDIN_BUFSIZE]]
    BY <1>3 DEF Front, ReadLoop
  <2>2. ASSUME NEW i \in 1..Unread - k
        PROVE  line[i + k] = stdin_buffer[((p_rpos' + i) - 1) % STDIN_BUFSIZE]
    <3>1. i + k \in 1..Unread
      BY <1>1, <1>3
    <3> QED
      BY <3>1, <1>4 DEF Front
  <2> QED
    BY <2>1, <2>2
<1>6. Front(k) = [i \in 1..k |-> line[i]]
  <2>1. 1..k \subseteq 1..Unread
    BY <1>1, <1>3
  <2> QED
    BY <2>1 DEF Front
<1> HIDE DEF line
<1>7. SubSeq(line, k + 1, Len(line)) = [i \in 1..Unread - k |-> line[i + k]]
  BY <1>1, <1>2, <1>3
<1>8. SubSeq(line, 1, k) = [i \in 1..k |-> line[i]]
  BY <1>1, <1>2, <1>3
<1>9. /\ left' = [left EXCEPT ![r] = n - k]
      /\ got' = [got EXCEPT ![r] = text \o Front(k)]
      /\ killed' = killed
  BY DEF ReadLoop, k
<1>10. k = IF n < Len(line) THEN n ELSE Len(line)
  BY <1>2 DEF k
<1>11. /\ Front(Unread)' = SubSeq(line, k + 1, Len(line))
       /\ got' = [got EXCEPT ![r] = text \o SubSeq(line, 1, k)]
  BY <1>5, <1>6, <1>7, <1>8, <1>9
<1> QED
  BY <1>9, <1>10, <1>11 DEF Keyboard!Take, line

LEMMA KeyboardInit == Init => Keyboard!Init
<1> SUFFICES ASSUME Init PROVE Keyboard!Init
  OBVIOUS
<1>1. Unread = 0
  BY DEF Init, Unread
<1>2. Front(Unread) = <<>>
  BY <1>1 DEF Front
<1> QED
  BY <1>2 DEF Init, Keyboard!Init

\* Every step is one of the line's or changes nothing of it.
LEMMA KeyboardStep == IndInv /\ [Next]_vars => [Keyboard!Next]_(Keyboard!vars)
<1> SUFFICES ASSUME IndInv, [Next]_vars
             PROVE  Keyboard!Next \/ UNCHANGED Keyboard!vars
  OBVIOUS
<1>0. TypeOK /\ SleepersQueued
  BY DEF IndInv
<1>1. UNCHANGED ring => UNCHANGED Front(Unread)
  BY DEF ring, Front, Unread
<1>2. ASSUME NEW c \in Char, Key(c) PROVE Keyboard!Next
  BY <1>2, KeyTypes DEF Keyboard!Next
<1>3. ASSUME NEW r \in Reader, NEW n \in Lengths, Read(r, n) PROVE Keyboard!Next
  <2>1. Piece(n) \in Nat /\ state[r] = "user"
    BY <1>3, StdinConstants DEF Read, Piece
  <2>2. left[r] = 0
    <3>1. ~(left[r] > 0)
      BY <1>0, <2>1 DEF SleepersQueued
    <3>2. left[r] \in Nat
      BY <1>0 DEF TypeOK
    <3> QED
      BY <3>1, <3>2
  <2>3. Keyboard!Take(r, IF n > IOBUF_SIZE THEN IOBUF_SIZE ELSE n, <<>>)
    BY <1>0, <1>3, <2>1, ReadTakes DEF Read, Piece
  <2> QED
    BY <2>2, <2>3 DEF Keyboard!Next, Keyboard!Read
<1>4. ASSUME NEW r \in Reader, ReadAgain(r) PROVE Keyboard!Next
  <2>1. left[r] \in Nat /\ left[r] > 0
    BY <1>0, <1>4 DEF TypeOK, SleepersQueued, ReadAgain
  <2>2. Keyboard!Take(r, left[r], got[r])
    BY <1>0, <1>4, <2>1, ReadTakes DEF ReadAgain
  <2> QED
    BY <2>1, <2>2 DEF Keyboard!Next, Keyboard!Continue
<1>5. ASSUME NEW r \in Reader, ReadInterrupted(r) PROVE Keyboard!Next
  <2>1. killed[r] /\ left[r] > 0
    BY <1>0, <1>5 DEF SleepersQueued, ReadInterrupted
  <2> QED
    BY <1>1, <1>5, <2>1 DEF ReadInterrupted, Keyboard!Next, Keyboard!GiveUp
<1>6. ASSUME NEW r \in Reader, Kill(r) PROVE Keyboard!Next
  BY <1>1, <1>6 DEF Kill, Keyboard!Next, Keyboard!Kill
<1>7. ASSUME NEW r \in Reader, Die(r) PROVE UNCHANGED Keyboard!vars
  BY <1>1, <1>7 DEF Die, Keyboard!vars
<1>8. CASE UNCHANGED vars
  BY <1>1, <1>8 DEF vars, Keyboard!vars
<1> QED
  BY <1>2, <1>3, <1>4, <1>5, <1>6, <1>7, <1>8 DEF Next, Resume

\* dev_stdin implements the line of InputQueue, for any number of readers and any
\* ring: no character is read twice, none is lost but the one that a key replaces,
\* and a reader that is not killed gets all it asked for up to IOBUF_SIZE, the one
\* piece that sysfile_read takes.
THEOREM InputRefinement == Spec => ImplementsInput
BY KeyboardInit, KeyboardStep, IndInvHolds, PTL DEF Spec, ImplementsInput, Keyboard!Spec
==============================================================================
