----------------------------- MODULE UserMemory -----------------------------
(* What an address space promises to the program that runs in it: every page *)
(* holds what was last written to it, a forked space starts as an equal copy *)
(* and is its own from then on, a space is there from the time its program   *)
(* is loaded until its process drops it, and nothing else ever changes a     *)
(* page.  The contents a page has when it first appears are not promised.    *)
CONSTANTS Spaces,     \* address spaces
          VPages,     \* virtual pages
          Vals,       \* what a page may contain
          None,       \* a page that is not there
          Checked     \* the space that is there from the beginning

VARIABLES mem,        \* mem[s][v]: contents of page v of space s, or None
          status      \* status[s]: "none", "loading" or "live"

vars == <<mem, status>>

Empty == [v \in VPages |-> None]
Space == [VPages -> Vals \union {None}]

Init == /\ mem = [s \in Spaces |-> Empty]
        /\ status = [s \in Spaces |-> IF s = Checked THEN "live" ELSE "none"]

Become(s, st) == status' = [status EXCEPT ![s] = st]
Others(s) == \A t \in Spaces \ {s} : mem'[t] = mem[t]

Write(s, v, x) == /\ mem[s][v] # None
                  /\ mem' = [mem EXCEPT ![s][v] = x]
                  /\ UNCHANGED status

(* A new page appears; those that are there stay what they are. *)
Appear(s, v) == /\ status[s] = "live" /\ mem[s][v] = None
                /\ \E x \in Vals : mem' = [mem EXCEPT ![s][v] = x]
                /\ UNCHANGED status

(* A program starts to be loaded, in place of the one that was there. *)
Load(s) == /\ mem' = [mem EXCEPT ![s] = Empty]
           /\ Become(s, "loading")

Loaded(s) == /\ status[s] = "loading"
             /\ mem'[s] \in Space /\ Others(s)
             /\ Become(s, "live")

Copy(s, t) == /\ status[s] = "live" /\ status[t] = "none"
              /\ mem' = [mem EXCEPT ![t] = mem[s]]
              /\ Become(t, "live")

Drop(s) == /\ mem' = [mem EXCEPT ![s] = Empty]
           /\ Become(s, "none")

Next == \E s \in Spaces :
           \/ \E v \in VPages : Appear(s, v) \/ \E x \in Vals : Write(s, v, x)
           \/ \E t \in Spaces \ {s} : Copy(s, t)
           \/ Load(s) \/ Loaded(s) \/ Drop(s)

Spec == Init /\ [][Next]_vars
=============================================================================
