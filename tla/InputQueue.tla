------------------------------ MODULE InputQueue ------------------------------
(* What the keyboard promises to the programs that read it: one line of at    *)
(* most Size characters, from which every read takes as many as it still      *)
(* wants, front first, until it has all of them, but never more than Most.    *)
(* Only a read of a killed process ends with less.  A key that finds the line *)
(* full replaces the character at its front.                                  *)
EXTENDS Naturals, Sequences

CONSTANTS Reader, Char, Size,
          Most,       \* the most that one read gets
          Lengths     \* how many characters a read may ask for

VARIABLES line,   \* what has been typed and not read
          left,   \* left[r]: characters r's read still wants, 0 if r is in none
          got,    \* got[r]: what r's last read has got
          killed

vars == <<line, left, got, killed>>

Init ==
    /\ line = <<>>
    /\ left = [r \in Reader |-> 0]
    /\ got = [r \in Reader |-> <<>>]
    /\ killed = [r \in Reader |-> FALSE]

Type(c) ==
    /\ line' = IF Len(line) < Size THEN Append(line, c) ELSE <<c>> \o Tail(line)
    /\ UNCHANGED <<left, got, killed>>

\* r's read, which has `text' and wants n more, takes what there is.
Take(r, n, text) ==
    LET k == IF n < Len(line) THEN n ELSE Len(line) IN
    /\ line' = SubSeq(line, k + 1, Len(line))
    /\ left' = [left EXCEPT ![r] = n - k]
    /\ got' = [got EXCEPT ![r] = text \o SubSeq(line, 1, k)]
    /\ UNCHANGED killed

Read(r) ==
    /\ left[r] = 0
    /\ \E n \in Lengths : Take(r, IF n > Most THEN Most ELSE n, <<>>)
Continue(r) == left[r] > 0 /\ Take(r, left[r], got[r])

GiveUp(r) ==
    /\ killed[r] /\ left[r] > 0
    /\ left' = [left EXCEPT ![r] = 0]
    /\ UNCHANGED <<line, got, killed>>

Kill(r) == killed' = [killed EXCEPT ![r] = TRUE] /\ UNCHANGED <<line, left, got>>

Next ==
    \/ \E c \in Char : Type(c)
    \/ \E r \in Reader : Read(r) \/ Continue(r) \/ GiveUp(r) \/ Kill(r)

Spec == Init /\ [][Next]_vars
==============================================================================
