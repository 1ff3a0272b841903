--------------------------- MODULE PageAllocator ---------------------------
(* What a physical page manager promises: a request for n contiguous pages   *)
(* is granted whenever n free pages lie next to each other, with pages that  *)
(* nobody else has, and refused only when there is no such run.              *)
EXTENDS Integers

CONSTANTS Pages,      \* the pages managed, a set of integers
          None

VARIABLES avail,      \* the free pages
          got         \* the last call, if it was a request, and its answer

vars == <<avail, got>>

Block(b, n) == b..(b + n - 1)
Fits(n) == {b \in avail : Block(b, n) \subseteq avail}

Init == avail = Pages /\ got = None

Grant(n) == \E b \in Fits(n) : /\ avail' = avail \ Block(b, n)
                               /\ got' = [n |-> n, at |-> b]
Refuse(n) == /\ Fits(n) = {}
             /\ got' = [n |-> n, at |-> None]
             /\ UNCHANGED avail

Free(b, n) == /\ Block(b, n) \intersect avail = {}
              /\ avail' = avail \union Block(b, n)
              /\ got' = None

(* The answer to a request says how many pages were asked for. *)
Next == \/ got' # None /\ got'.n > 0 /\ (Grant(got'.n) \/ Refuse(got'.n))
        \/ \E b, e \in Pages : b <= e /\ Free(b, e - b + 1)

Spec == Init /\ [][Next]_vars
=============================================================================
