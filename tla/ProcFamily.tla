----------------------------- MODULE ProcFamily ------------------------------
(***************************************************************************)
(* What fork, exit and wait promise, without a scheduler, sleeping or      *)
(* pointers: a process is created by a live parent, dies once, passes its  *)
(* children to init when it dies, and is released only after its death and *)
(* only by the process that is then its parent.  Process and ProcLinks     *)
(* implement this specification.                                           *)
(***************************************************************************)
CONSTANTS Proc, Idle, InitProc, NULL

VARIABLES
    life,  \* "free", "alive" or "dead"
    mother \* the process that made p, or init once that one has died

famVars == <<life, mother>>

FamilyInit ==
    /\ life = [p \in Proc |-> IF p \in {Idle, InitProc} THEN "alive" ELSE "free"]
    /\ mother = [p \in Proc |-> IF p = InitProc THEN Idle ELSE NULL]

Offspring(p) == {c \in Proc : life[c] # "free" /\ mother[c] = p}

Create(p, c) ==
    /\ life[p] = "alive" /\ life[c] = "free"
    /\ life' = [life EXCEPT ![c] = "alive"]
    /\ mother' = [mother EXCEPT ![c] = p]

Die(p) ==
    /\ p \notin {Idle, InitProc}
    /\ life[p] = "alive"
    /\ life' = [life EXCEPT ![p] = "dead"]
    /\ mother' = [c \in Proc |-> IF c \in Offspring(p) THEN InitProc ELSE mother[c]]

Release(p, c) ==
    /\ life[p] = "alive" /\ life[c] = "dead"
    /\ mother[c] = p
    /\ life' = [life EXCEPT ![c] = "free"]
    /\ mother' = [mother EXCEPT ![c] = NULL]

FamilyNext ==
    \/ \E p, c \in Proc : Create(p, c) \/ Release(p, c)
    \/ \E p \in Proc : Die(p)

FamilySpec == FamilyInit /\ [][FamilyNext]_famVars

=============================================================================
