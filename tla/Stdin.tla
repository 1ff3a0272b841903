-------------------------------- MODULE Stdin --------------------------------
(* Reading the keyboard in lab8 (dev_stdin.c, sync/wait.c).  The interrupt    *)
(* handler puts a character into a ring and wakes all processes on the wait   *)
(* queue of the device; a read takes what there is and sleeps for the rest.   *)
(* A killed sleeper is woken as well, but its entry stays on the queue until  *)
(* it runs, and a key may come before that.  A system call reads no more than *)
(* one piece of IOBUF_SIZE.                                                   *)
(*                                                                            *)
(* dev_stdin_read has interrupts disabled except around schedule, so a read   *)
(* is one step up to the place where it sleeps.  Every key wakes the whole    *)
(* queue: its order plays no part and it is a set.                            *)
EXTENDS Integers, Sequences

CONSTANTS Reader,          \* the processes that read
          Char, Blank,     \* characters; what the ring holds at first
          STDIN_BUFSIZE,
          IOBUF_SIZE,      \* the buffer of sysfile_read
          Lengths          \* how many characters a read may ask for

ASSUME StdinConstants ==
    /\ STDIN_BUFSIZE \in Nat \ {0}
    /\ IOBUF_SIZE \in Nat \ {0}
    /\ Lengths \subseteq Nat \ {0}

VARIABLES stdin_buffer,
          p_rpos, p_wpos,  \* less a multiple of STDIN_BUFSIZE
          wait_queue,      \* the readers with an entry on the queue
          wakeup_flags,    \* of the entry, "INTERRUPTED" or "KBD"
          state,           \* "user", "asleep", "woken" (in the read), "dead"
          left, got,       \* what dev_stdin_read still wants, what the read has got
          killed           \* PF_EXITING

ring == <<stdin_buffer, p_rpos, p_wpos>>
vars == <<ring, wait_queue, wakeup_flags, state, left, got, killed>>

TypeOK ==
    /\ stdin_buffer \in [0..STDIN_BUFSIZE - 1 -> Char \cup {Blank}]
    /\ p_rpos \in 0..STDIN_BUFSIZE - 1
    /\ p_wpos \in p_rpos..p_rpos + STDIN_BUFSIZE
    /\ wait_queue \subseteq Reader
    /\ wakeup_flags \in [Reader -> {"INTERRUPTED", "KBD"}]
    /\ state \in [Reader -> {"user", "asleep", "woken", "dead"}]
    /\ left \in [Reader -> Nat]
    /\ got \in [Reader -> Seq(Char \cup {Blank})]
    /\ killed \in [Reader -> BOOLEAN]

Init ==
    /\ stdin_buffer = [k \in 0..STDIN_BUFSIZE - 1 |-> Blank]
    /\ p_rpos = 0 /\ p_wpos = 0
    /\ wait_queue = {}
    /\ wakeup_flags = [r \in Reader |-> "INTERRUPTED"]
    /\ state = [r \in Reader |-> "user"]
    /\ left = [r \in Reader |-> 0]
    /\ got = [r \in Reader |-> <<>>]
    /\ killed = [r \in Reader |-> FALSE]

Unread == p_wpos - p_rpos
Front(k) == [i \in 1..k |-> stdin_buffer[((p_rpos + i) - 1) % STDIN_BUFSIZE]]

\* variant: only one sleeper is woken (wakeup_first)
WokenOne == IF wait_queue = {} THEN {} ELSE {CHOOSE r \in wait_queue : TRUE}

\* variant: sleepers are woken when the buffer has become full
WokenWhenFull == IF Unread < STDIN_BUFSIZE - 1 THEN {} ELSE wait_queue

\* wakeup_queue with del.
Woken == wait_queue

\* variant: the write position moves on in a full buffer
KeyPositionAlways == p_wpos + 1

\* In a full buffer the character has replaced the oldest one.
KeyPosition == IF Unread < STDIN_BUFSIZE THEN p_wpos + 1 ELSE p_wpos

\* dev_stdin_write, in the interrupt handler.  wakeup_proc changes nothing for a
\* reader that is awake.
Key(c) ==
    /\ stdin_buffer' = [stdin_buffer EXCEPT ![p_wpos % STDIN_BUFSIZE] = c]
    /\ p_wpos' = KeyPosition
    /\ wait_queue' = wait_queue \ Woken
    /\ wakeup_flags' = [r \in Reader |-> IF r \in Woken THEN "KBD" ELSE wakeup_flags[r]]
    /\ state' = [r \in Reader |-> IF r \in Woken THEN "woken" ELSE state[r]]
    /\ UNCHANGED <<p_rpos, left, got, killed>>

\* trap, on the way back to user mode.
Returned(r) == IF killed[r] THEN "dead" ELSE "user"

\* The loop of dev_stdin_read for a read of r that wants n more characters and
\* has `text': wait_current_set if the buffer does not have them all.
ReadLoop(r, n, text) ==
    LET k == IF n < Unread THEN n ELSE Unread
        rpos == p_rpos + k
    IN /\ p_rpos' = rpos % STDIN_BUFSIZE
       /\ p_wpos' = p_wpos - (rpos - (rpos % STDIN_BUFSIZE))
       /\ left' = [left EXCEPT ![r] = n - k]
       /\ got' = [got EXCEPT ![r] = text \o Front(k)]
       /\ \/ /\ k = n
             /\ state' = [state EXCEPT ![r] = Returned(r)]
             /\ UNCHANGED <<wait_queue, wakeup_flags>>
          \/ /\ k < n
             /\ state' = [state EXCEPT ![r] = "asleep"]
             /\ wait_queue' = wait_queue \cup {r}
             /\ wakeup_flags' = [wakeup_flags EXCEPT ![r] = "INTERRUPTED"]
    /\ UNCHANGED <<stdin_buffer, killed>>

\* The first piece that sysfile_read asks file_read for.
Piece(n) == IF n > IOBUF_SIZE THEN IOBUF_SIZE ELSE n

\* sysfile_read.  There is no second piece: stdin_io returns the count, so `ret'
\* is not 0 after a piece with characters, and without one alen is 0.  A killed
\* process may still make one call before trap sees the flag.
Read(r, n) == state[r] = "user" /\ ReadLoop(r, Piece(n), <<>>)

\* schedule has returned, a key has been pressed since the reader slept.
ReadAgain(r) ==
    /\ state[r] = "woken" /\ wakeup_flags[r] = "KBD"
    /\ ReadLoop(r, left[r], got[r])

\* schedule has returned and no key has been pressed: the reader is killed.
ReadInterrupted(r) ==
    /\ state[r] = "woken" /\ wakeup_flags[r] = "INTERRUPTED"
    /\ wait_queue' = wait_queue \ {r}
    /\ state' = [state EXCEPT ![r] = Returned(r)]
    /\ left' = [left EXCEPT ![r] = 0]
    /\ UNCHANGED <<ring, wakeup_flags, got, killed>>

\* do_kill by some other process; a sleeper's wait can be interrupted.
Kill(r) ==
    /\ state[r] # "dead" /\ ~killed[r]
    /\ killed' = [killed EXCEPT ![r] = TRUE]
    /\ state' = IF state[r] = "asleep" THEN [state EXCEPT ![r] = "woken"] ELSE state
    /\ UNCHANGED <<ring, wait_queue, wakeup_flags, left, got>>

\* Any other trap of a killed process.
Die(r) ==
    /\ state[r] = "user" /\ killed[r]
    /\ state' = [state EXCEPT ![r] = "dead"]
    /\ UNCHANGED <<ring, wait_queue, wakeup_flags, left, got, killed>>

Resume(r) == ReadAgain(r) \/ ReadInterrupted(r)

Next ==
    \/ \E c \in Char : Key(c)
    \/ \E r \in Reader : \/ \E n \in Lengths : Read(r, n)
                         \/ Resume(r) \/ Kill(r) \/ Die(r)

\* The scheduler runs every process that is awake; nobody has to type.
Fairness == \A r \in Reader : WF_vars(Resume(r))

Spec == Init /\ [][Next]_vars /\ Fairness

------------------------------------------------------------------------------
\* No wakeup is lost: whoever sleeps has an entry on the queue and has been left
\* nothing to read.  An entry belongs to a read that goes on, by a sleeper or by a
\* killed process that has not run yet, and dies with it (it is on the stack of
\* dev_stdin_read); a read that was interrupted without being killed does not
\* exist.
SleepersQueued ==
    \A r \in Reader :
        /\ state[r] = "asleep" => r \in wait_queue /\ Unread = 0
        /\ r \in wait_queue => /\ wakeup_flags[r] = "INTERRUPTED"
                               /\ \/ state[r] = "asleep"
                                  \/ state[r] = "woken" /\ killed[r]
        /\ state[r] = "woken" /\ wakeup_flags[r] = "INTERRUPTED" =>
               killed[r] /\ r \in wait_queue
        /\ left[r] > 0 <=> state[r] \in {"asleep", "woken"}

\* The typed characters that are still in the ring are the line.
Keyboard == INSTANCE InputQueue WITH line <- Front(Unread), Size <- STDIN_BUFSIZE,
                                     Most <- IOBUF_SIZE

\* Readers get what is typed as InputQueue says, across the end of the ring, with
\* several readers and with kills: no character twice, none lost but the one that
\* a key replaces, and a call ends short only for a killed reader, or because it
\* asks for more than IOBUF_SIZE, of which it gets IOBUF_SIZE.
ImplementsInput == Keyboard!Spec

\* Characters are not left lying while somebody waits for them.
InputServed ==
    (Unread > 0 /\ \E r \in Reader : left[r] > 0) ~>
        (Unread = 0 \/ \A r \in Reader : left[r] = 0)
==============================================================================
