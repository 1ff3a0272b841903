------------------------------ MODULE MCMemory ------------------------------
(* Two process slots.  The good program has a read-only text page and a      *)
(* stack of two pages of which one is loaded; the other two programs have a  *)
(* segment that starts inside an earlier one, and one that starts before it. *)
EXTENDS Memory

Seg(from, to, w) == [from |-> from, to |-> to, w |-> w, fill |-> 0,
                     pages |-> [i \in 1..(to - from) |-> from + i - 1]]
Good   == <<Seg(0, 1, FALSE)>>
Inside == <<Seg(0, 2, TRUE), Seg(1, 2, TRUE)>>
Before == <<Seg(1, 2, TRUE), Seg(0, 2, TRUE)>>

MCImages == {Good, Inside, Before}
MCStack  == [from |-> 3, to |-> 5, w |-> TRUE, fill |-> None, pages |-> <<4>>]
=============================================================================
