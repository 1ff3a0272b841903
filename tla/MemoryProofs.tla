---------------------------- MODULE MemoryProofs ----------------------------
(***************************************************************************)
(* No frame is lost or used twice, the TLB is coherent, entries follow the *)
(* areas and pra_list_head is exact, with any number of processes, frames  *)
(* and pages and for any programs: one inductive invariant, IndInv, kept   *)
(* conjunct by conjunct.  What uses a frame is a label (a stack, a         *)
(* directory, a table or a page); a frame that is not Unused is held by    *)
(* one label, and every action takes frames for a label that had none or   *)
(* gives back those of some labels.                                        *)
(***************************************************************************)
EXTENDS Memory, FiniteSetTheorems, SequenceTheorems, WellFoundedInduction, TLAPS

(* The types of the variables and of the parameters of a kernel operation. *)
Areas == [from : VPages, to : 0..NPages, w : BOOLEAN]

StepOK ==
    \/ step \in {User, Schedule}
    \/ step.op = "panic" /\ step = Panic(step.why)
    \/ step \in [op : {"fault"}, page : VPages, w : BOOLEAN]
    \/ step \in [op : {"copy"}, to : Procs, todo : SUBSET VPages]
    \/ step \in [op : {"load"}, segments : Seq(Segments), pages : {<<>>}]
    \/ step \in [op : {"load"}, segments : Seq(Segments), pages : Seq(VPages),
                 w : BOOLEAN, fill : Vals \union {None}]

TypeOK ==
    /\ free \in SUBSET Frames /\ stored \in SUBSET Frames
    /\ ref \in [Frames -> Int] /\ content \in [Frames -> Vals \union {None}]
    /\ state \in [Spaces -> {"unused", "alive", "zombie"}]
    /\ kstack \in [Procs -> Frames \union {None}]
    /\ dir \in [Spaces -> Frames \union {Boot, None}]
    /\ tab \in [Spaces -> [Tables -> Frames \union {None}]]
    /\ pte \in [Spaces -> [VPages -> Entries \union {None, Swapped}]]
    /\ areas \in [Spaces -> SUBSET Areas]
    /\ fifo \in Seq([frame : Frames, page : VPages])
    /\ disk \in [VPages -> Vals \union {None}]
    /\ checking \in BOOLEAN /\ cur \in Spaces
    /\ tlb \in SUBSET [page : VPages, frame : Frames, w : BOOLEAN]
    /\ StepOK

(* The uses a frame can have; those that page_ref counts.                  *)
Counted == ({"table"} \X Spaces \X Tables) \union ({"page"} \X Spaces \X VPages)
Labels == ({"stack"} \X Procs) \union ({"dir"} \X Spaces) \union Counted

Holds(u) ==
    CASE u[1] = "stack" -> StackFrames(u[2])
      [] u[1] = "dir"   -> {dir[u[2]]} \intersect Frames
      [] u[1] = "table" -> {tab[u[2]][u[3]]} \intersect Frames
      [] u[1] = "page"  -> IF Present(u[2], u[3]) THEN {pte[u[2]][u[3]].frame} ELSE {}
Holding == [u \in Labels |-> Holds(u)]

(* Every frame is unused or has one use.                                   *)
Partition(h, unused) ==
    \A f \in Frames :
        IF f \in unused THEN \A u \in Labels : f \notin h[u]
        ELSE \E u \in Labels : f \in h[u] /\ \A w \in Labels : f \in h[w] => w = u
Counts(h, r) ==
    \A f \in Frames : r[f] = IF \E u \in Counted : f \in h[u] THEN 1 ELSE 0

Unused == free \union stored \union Lost

Accounted ==
    /\ Partition(Holding, Unused)
    /\ Counts(Holding, ref)
    /\ free \intersect (stored \union Lost) = {}
FramesOK ==
    /\ Accounted
    /\ \A p \in Procs : kstack[p] # None => StackFrames(p) \subseteq Frames
    /\ \A s \in Spaces : \A v \in Mapped(s) : content[pte[s][v].frame] \in Vals

(* Inside check_swap only the idle thread runs and only its mm is there;   *)
(* afterwards nothing is put aside, swapped or under the boot directory.   *)
PhaseOK ==
    /\ checking => /\ cur = Idle /\ step.op \in {"user", "fault"}
                   /\ stored = {f \in Frames : f > CheckTable}
                   /\ dir[Idle] = Boot
                   /\ areas[Idle] = {CheckArea} /\ tab[Idle][Table(0)] # None
                   /\ \A p \in Procs : state[p] = "unused"
    /\ ~checking => /\ stored = {} /\ dir[Idle] = None
                    /\ \A s \in Spaces : dir[s] # Boot
                    /\ \A s \in Spaces, v \in VPages : pte[s][v] # Swapped

(* Who runs is alive; who is unused has no stack and no directory, except  *)
(* the child of the fork that runs.                                        *)
ProcsOK ==
    /\ step.op \in {"user", "fault", "copy", "load"} => state[cur] = "alive"
    /\ \A p \in Procs :
          /\ state[p] # "unused" => kstack[p] # None
          /\ state[p] = "unused" /\ ~(step.op = "copy" /\ p = step.to) =>
                kstack[p] = None /\ dir[p] = None
          /\ state[p] = "zombie" => dir[p] = None
          /\ dir[p] # Boot

(* A space without a directory has nothing, and an entry has its table.    *)
BareOK ==
    /\ \A s \in Spaces : dir[s] = None =>
          /\ areas[s] = {}
          /\ \A t \in Tables : tab[s][t] = None
          /\ \A v \in VPages : pte[s][v] = None
    /\ \A s \in Spaces, v \in VPages : pte[s][v] # None => tab[s][Table(v)] # None

(* Areas do not overlap; a page is in one, with its permission; and every  *)
(* page of an area has a mapped neighbour, or one that load_icode is going *)
(* to map, under the same page table.                                      *)
AreasOK ==
    /\ \A s \in Spaces : \A a, b \in areas[s] : a # b => a.to <= b.from \/ b.to <= a.from
    /\ \A s \in Spaces : \A v \in Mapped(s) :
          ~(step.op = "copy" /\ s = step.to) => \E a \in Covering(s, v) : pte[s][v].w = a.w
    /\ \A p \in Procs : \A a \in areas[p] : \A v \in a.from..(a.to - 1) :
          \E u \in VPages : /\ Table(u) = Table(v)
                            /\ \/ Present(p, u)
                               \/ step.op = "load" /\ p = cur /\ u \in ToSet(step.pages)

(* What the operation that runs relies on.                                 *)
FaultOK ==
    step.op = "fault" =>
        /\ \E a \in Covering(Active, step.page) : step.w = a.w
        /\ ~Present(Active, step.page)
CopyOK ==
    step.op = "copy" =>
        /\ ~checking /\ step.to # cur /\ dir[cur] # None
        /\ state[step.to] = "unused" /\ kstack[step.to] # None /\ areas[step.to] = {}
        /\ step.todo \subseteq Mapped(cur)
        /\ Mapped(step.to) = Mapped(cur) \ step.todo
        /\ \A v \in Mapped(step.to) : pte[step.to][v].w = pte[cur][v].w
LoadOK ==
    step.op = "load" =>
        /\ ~checking /\ cur # Idle /\ tlb = {}
        /\ \A i \in DOMAIN step.segments : IsLoadable(step.segments[i])
        /\ step.pages # <<>> =>
              /\ \E a \in areas[cur] : /\ ToSet(step.pages) \subseteq a.from..(a.to - 1)
                                       /\ step.w = a.w
              /\ IsInjective(step.pages)
              /\ \A v \in ToSet(step.pages) : pte[cur][v] = None

TlbOK ==
    step.op \in {"user", "fault", "copy"} /\ areas[Active] # {} =>
        \A e \in tlb : Present(Active, e.page) /\ e = Entry(e.page)

(* The panic of do_pgfault for a present page is not reached.  Some parts  *)
(* of the invariant hold of a kernel that has not stopped.                 *)
NoBadPanic == step.op = "panic" => step # Panic("error write a non-writable pte")
Running == step.op # "panic"
(* The inductive invariant.                                                *)
IndInv == /\ TypeOK /\ FramesOK /\ PhaseOK /\ (Running => ProcsOK /\ AreasOK) /\ BareOK /\ FaultOK
          /\ CopyOK /\ LoadOK /\ TlbOK /\ FifoExact /\ NoBadPanic

-----------------------------------------------------------------------------
(* Taking and giving back.                                                 *)

\* Numbers have a least element.
LEMMA NatMin ==
    ASSUME NEW S \in SUBSET Nat, S # {}
    PROVE  Min(S) \in S /\ \A x \in S : Min(S) <= x
<1> DEFINE R == OpToRel(<, Nat)
<1>1. \A x, y \in Nat : x < y => <<x, y>> \in R
  BY DEF OpToRel
<1>2. IsWellFoundedOn(R, Nat)
  BY NatLessThanWellFounded, Zenon
<1> HIDE DEF R
<1>3. \E x \in S : \A y \in S : ~ (<<y, x>> \in R)
  BY <1>2, WFMin
<1>4. \E x \in S : \A y \in S : x <= y
  <2>1. PICK x \in S : \A y \in S : ~ (<<y, x>> \in R)
    BY <1>3
  <2>2. ASSUME NEW y \in S PROVE x <= y
    <3>1. x \in Nat /\ y \in Nat
      OBVIOUS
    <3>2. ~(y < x)
      BY <1>1, <2>1, <3>1
    <3> QED
      BY <3>1, <3>2
  <2> QED
    BY <2>2
<1> QED
  BY <1>4 DEF Min

\* The frame that alloc_page takes is free.
LEMMA FrameFree == ASSUME TypeOK, free # {} PROVE Frame \in free /\ Frame \in Frames
<1>1. free \in SUBSET Nat
  BY MemoryConstants DEF TypeOK, Frames
<1> QED
  BY <1>1, NatMin DEF Frame, TypeOK

\* What is taken goes to a label that had nothing.
LEMMA Take ==
    ASSUME NEW h \in [Labels -> SUBSET Frames], NEW a \in SUBSET Frames, Partition(h, a),
           NEW u \in Labels, h[u] = {}, NEW F \in SUBSET a,
           NEW g, g = [h EXCEPT ![u] = F], NEW b, b = a \ F
    PROVE  Partition(g, b) /\ g \in [Labels -> SUBSET Frames]
<1>1. g \in [Labels -> SUBSET Frames]
  OBVIOUS
<1>2. ASSUME NEW f \in Frames
      PROVE  IF f \in b THEN \A w \in Labels : f \notin g[w]
             ELSE \E w \in Labels : f \in g[w] /\ \A x \in Labels : f \in g[x] => x = w
  <2>1. CASE f \in F
    <3>1. \A w \in Labels : f \notin h[w]
      BY <2>1 DEF Partition
    <3>2. f \in g[u] /\ \A x \in Labels : f \in g[x] => x = u
      BY <2>1, <3>1
    <3> QED
      BY <2>1, <3>2
  <2>2. CASE f \notin F
    <3>1. \A w \in Labels : f \in g[w] <=> f \in h[w]
      BY <2>2
    <3>2. f \in b <=> f \in a
      BY <2>2
    <3> QED
      BY <3>1, <3>2 DEF Partition
  <2> QED
    BY <2>1, <2>2
<1> QED
  BY <1>1, <1>2 DEF Partition

\* What the labels of U gave back is unused.
LEMMA Give ==
    ASSUME NEW h \in [Labels -> SUBSET Frames], NEW a \in SUBSET Frames, Partition(h, a),
           NEW U \in SUBSET Labels,
           NEW g, g = [w \in Labels |-> IF w \in U THEN {} ELSE h[w]],
           NEW b, b = a \union UNION {h[w] : w \in U}
    PROVE  Partition(g, b) /\ g \in [Labels -> SUBSET Frames]
<1>1. g \in [Labels -> SUBSET Frames]
  OBVIOUS
<1>2. ASSUME NEW f \in Frames
      PROVE  IF f \in b THEN \A w \in Labels : f \notin g[w]
             ELSE \E w \in Labels : f \in g[w] /\ \A x \in Labels : f \in g[x] => x = w
  <2>1. CASE f \in a
    BY <2>1 DEF Partition
  <2>2. CASE f \notin a
    <3>1. PICK w \in Labels : f \in h[w] /\ \A x \in Labels : f \in h[x] => x = w
      BY <2>2 DEF Partition
    <3>2. f \in b <=> w \in U
      BY <2>2, <3>1
    <3> QED
      BY <3>1, <3>2
  <2> QED
    BY <2>1, <2>2
<1> QED
  BY <1>1, <1>2 DEF Partition

\* The labels and what each holds.
LEMMA StackLabel == ASSUME NEW p \in Procs
    PROVE <<"stack", p>> \in Labels /\ <<"stack", p>> \notin Counted
          /\ Holding[<<"stack", p>>] = StackFrames(p)
  BY DEF Labels, Counted, Holding, Holds
LEMMA DirLabel == ASSUME NEW s \in Spaces
    PROVE <<"dir", s>> \in Labels /\ <<"dir", s>> \notin Counted
          /\ Holding[<<"dir", s>>] = {dir[s]} \intersect Frames
  BY DEF Labels, Counted, Holding, Holds
LEMMA TableLabel == ASSUME NEW s \in Spaces, NEW t \in Tables
    PROVE <<"table", s, t>> \in Labels /\ <<"table", s, t>> \in Counted
          /\ Holding[<<"table", s, t>>] = {tab[s][t]} \intersect Frames
  BY DEF Labels, Counted, Holding, Holds
LEMMA PageLabel == ASSUME NEW s \in Spaces, NEW v \in VPages
    PROVE <<"page", s, v>> \in Labels /\ <<"page", s, v>> \in Counted
          /\ Holding[<<"page", s, v>>] = IF Present(s, v) THEN {pte[s][v].frame} ELSE {}
  BY DEF Labels, Counted, Holding, Holds
\* Every label is one of these.
LEMMA LabelForms == ASSUME NEW u \in Labels
    PROVE  \/ \E p \in Procs : u = <<"stack", p>>
           \/ \E s \in Spaces : u = <<"dir", s>>
           \/ \E s \in Spaces, t \in Tables : u = <<"table", s, t>>
           \/ \E s \in Spaces, v \in VPages : u = <<"page", s, v>>
  BY DEF Labels, Counted
StepForms ==
    /\ step.op = "user" <=> step = User
    /\ step.op = "schedule" <=> step = Schedule
    /\ step.op \in {"user", "schedule", "panic", "fault", "copy", "load"}
    /\ step.op = "fault" => step.page \in VPages /\ step.w \in BOOLEAN
    /\ step.op = "copy" => step.to \in Procs /\ step.todo \subseteq VPages
    /\ step.op = "load" => step.segments \in Seq(Segments) /\ step.pages \in Seq(VPages)
    /\ step.op = "load" /\ step.pages # <<>> => step.w \in BOOLEAN /\ step.fill \in Vals \union {None}

\* What the type of step says of each operation.
LEMMA StepFacts == TypeOK => StepForms
<1> SUFFICES ASSUME TypeOK PROVE StepForms
  OBVIOUS
<1> USE DEF StepForms
<1>1. User.op = "user" /\ Schedule.op = "schedule"
  BY DEF User, Schedule
<1> <<>> \in Seq(VPages)
  OBVIOUS
<1>2. CASE step = User \/ step = Schedule
  BY <1>1, <1>2
<1>3. CASE step.op = "panic"
  BY <1>1, <1>3
<1>4. CASE step \in [op : {"fault"}, page : VPages, w : BOOLEAN]
  BY <1>1, <1>4
<1>5. CASE step \in [op : {"copy"}, to : Procs, todo : SUBSET VPages]
  BY <1>1, <1>5
<1>6. CASE step \in [op : {"load"}, segments : Seq(Segments), pages : {<<>>}]
  BY <1>1, <1>6
<1>7. CASE step \in [op : {"load"}, segments : Seq(Segments), pages : Seq(VPages),
                     w : BOOLEAN, fill : Vals \union {None}]
  BY <1>1, <1>7
<1> QED
  BY <1>2, <1>3, <1>4, <1>5, <1>6, <1>7 DEF TypeOK, StepOK

\* The kinds of spaces, and that each page has a table.
LEMMA SpaceFacts ==
    /\ Procs \subseteq Spaces /\ Idle \in Spaces /\ Idle \notin Procs
    /\ \A s \in Spaces : s # Idle => s \in Procs
    /\ \A v \in VPages : Table(v) \in Tables
  BY MemoryConstants DEF Spaces, Tables, Table

\* The pages below PTSpan have the first table.
LEMMA SmallQuotient == ASSUME NEW p \in Nat \ {0}, NEW x \in Nat, x < p PROVE x \div p = 0
<1>1. x \div p \in Int /\ x = p * (x \div p) + (x % p) /\ x % p \in 0..p - 1
  OBVIOUS
<1> DEFINE q == x \div p
<1>2. q < 0 => p * q <= -p
  BY <1>1, SMT
<1>3. q > 0 => p * q >= p
  BY <1>1, SMT
<1> QED
  BY <1>1, <1>2, <1>3, SMT

LEMMA TableZero ==
    /\ 0 \in VPages /\ Table(0) \in Tables /\ CheckArea \in Areas
    /\ \A v \in VPages : v < PTSpan => Table(v) = Table(0)
<1>1. PTSpan \in Nat \ {0} /\ NPages \in Nat \ {0} /\ PTSpan <= NPages
  BY MemoryConstants
<1>2. \A v \in VPages : v < PTSpan => v \div PTSpan = 0 /\ 0 \div PTSpan = 0
  BY <1>1, SmallQuotient DEF VPages
<1>3. 0 \in VPages /\ 0 < PTSpan
  BY <1>1 DEF VPages
<1>4. CheckArea \in Areas
  BY <1>1, <1>3 DEF CheckArea, Areas
<1> QED
  BY <1>2, <1>3, <1>4, SpaceFacts DEF Table

\* The first state has the types.
LEMMA InitType == ASSUME Init PROVE TypeOK
<1>1. CheckTable \in Frames /\ 0..(NCheck - 1) \subseteq Frames
  BY MemoryConstants DEF CheckTable, Frames
<1> QED
  BY <1>1, TableZero, SpaceFacts, MemoryConstants
  DEF Init, TypeOK, StepOK, User, Boot

\* Where LoadPage finds its one or two frames.
LEMMA LoadFrames ==
    ASSUME TypeOK, LoadPage
    PROVE  /\ Frame \in free
           /\ tab[cur][Table(Head(step.pages))] = None =>
                Min(free \ {Frame}) \in free \ {Frame}
<1>1. free \in SUBSET Nat /\ IsFiniteSet(free)
  <2>1. IsFiniteSet(Frames)
    BY MemoryConstants, FS_Interval DEF Frames
  <2> QED
    <3>1. free \subseteq Frames /\ Frames \subseteq Nat
      BY MemoryConstants DEF TypeOK, Frames
    <3> QED
      BY <2>1, <3>1, FS_Subset
<1>2. Cardinality(free) >= 1 /\ (tab[cur][Table(Head(step.pages))] = None => Cardinality(free) >= 2)
  <2>1. Cardinality(free) \in Nat
    BY <1>1, FS_CardinalityType
  <2>2. Cardinality(free) >= IF tab[cur][Table(Head(step.pages))] = None THEN 2 ELSE 1
    BY DEF LoadPage
  <2> QED
    BY <2>1, <2>2
<1>3. free # {}
  BY <1>2, FS_EmptySet
<1>4. Frame \in free
  BY <1>1, <1>3, NatMin DEF Frame
<1>5. ASSUME Cardinality(free) >= 2 PROVE Min(free \ {Frame}) \in free \ {Frame}
  <2>1. Cardinality(free \ {Frame}) = Cardinality(free) - 1 /\ Cardinality(free) \in Nat
    BY <1>1, <1>4, FS_RemoveElement, FS_CardinalityType
  <2>2. free \ {Frame} # {}
    BY <1>5, <2>1, FS_EmptySet
  <2> QED
    BY <1>1, <2>2, NatMin
<1> QED
  BY <1>2, <1>4, <1>5

\* Where setup_kstack finds its frames.
LEMMA RunsFrames == ASSUME TypeOK, Runs(KSTACKPAGE) # {} PROVE Min(Runs(KSTACKPAGE)) \in Runs(KSTACKPAGE)
<1>1. Runs(KSTACKPAGE) \subseteq Nat
  <2>1. Runs(KSTACKPAGE) \subseteq free
    BY DEF Runs
  <2>2. free \in SUBSET Nat
    BY MemoryConstants DEF Frames, TypeOK
  <2> QED
    BY <2>1, <2>2
<1> QED
  BY <1>1, NatMin

\* exit_mmap and mm_destroy keep the types.
LEMMA ReleaseType == ASSUME TypeOK, NEW s \in Spaces, dir[s] # Boot, Release(s), PhaseOK
    PROVE  /\ free' \in SUBSET Frames /\ ref' \in [Frames -> Int]
           /\ content' \in [Frames -> Vals \union {None}]
           /\ dir' \in [Spaces -> Frames \union {Boot, None}]
           /\ tab' \in [Spaces -> [Tables -> Frames \union {None}]]
           /\ pte' \in [Spaces -> [VPages -> Entries \union {None, Swapped}]]
           /\ areas' \in [Spaces -> SUBSET Areas]
<1>1. Freed(s) \subseteq Frames
  BY DEF Freed, Unreferenced, Pages, TableFrames, Mapped, Present, Entries, TypeOK
<1> QED
  BY <1>1 DEF Release, TypeOK

\* Panic(why) is what its name says.
LEMMA PanicStep == ASSUME NEW why PROVE Panic(why).op = "panic" /\ Panic(why) = Panic(Panic(why).why)
  BY DEF Panic

\* Every step keeps the types.
LEMMA TypeNext ==
    ASSUME IndInv, Next
    PROVE  TypeOK'
<1> SUFFICES ASSUME TypeOK PROVE TypeOK'
  BY DEF IndInv
<1> USE SpaceFacts
<1>a. StepForms
  BY StepFacts
<1>b. free # {} => Frame \in Frames
  BY FrameFree
<1>p. \A why : Panic(why).op = "panic" /\ Panic(why) = Panic(Panic(why).why)
  BY PanicStep
<1>s. ASSUME step' = step PROVE StepOK'
  BY <1>s DEF TypeOK, StepOK
<1>1. ASSUME NEW v \in VPages, Read(v) PROVE TypeOK'
  BY <1>1, <1>a, <1>b DEF Read, Translation, Cached, Entry, Present, Entries, TypeOK, StepOK, Active,
      frameVars, spaceVars, processVars, swapVars
<1>2. ASSUME NEW v \in VPages, NEW x \in Vals, Write(v, x) PROVE TypeOK'
  BY <1>2, <1>a, <1>b DEF Write, Translation, Cached, Entry, Present, Entries, TypeOK, StepOK, Active,
      frameVars, spaceVars, processVars, swapVars
<1>3. ASSUME NEW v \in VPages, NEW write \in BOOLEAN, Fault(v, write) PROVE TypeOK'
  <2>1. PICK a \in Covering(Active, v) :
              step' = IF Present(Active, v) THEN Panic("error write a non-writable pte")
                      ELSE [op |-> "fault", page |-> v, w |-> a.w]
    BY <1>3 DEF Fault
  <2>2. step' = [op |-> "fault", page |-> v, w |-> a.w] \/ \E why : step' = Panic(why)
    BY <2>1, Zenon
  <2>3. a.w \in BOOLEAN
    BY DEF Covering, TypeOK, Areas, Active
  <2>4. StepOK'
    BY <2>2, <2>3, PanicStep DEF StepOK
  <2> QED
    BY <1>3, <2>4 DEF Fault, TypeOK, Cached, frameVars, spaceVars, processVars, swapVars
<1>4. ASSUME NEW v \in VPages, NEW write \in BOOLEAN, FaultRefused(v, write) PROVE TypeOK'
  BY <1>4, <1>p DEF FaultRefused, TypeOK, StepOK,
      frameVars, spaceVars, processVars, swapVars
<1>5. CASE FaultPage
  <2>1. Frame \in Frames /\ Active \in Spaces /\ step.page \in VPages /\ step.w \in BOOLEAN
    BY <1>5, <1>a, <1>b DEF FaultPage, StepForms, Active, TypeOK
  <2>2. pte' \in [Spaces -> [VPages -> Entries \union {None, Swapped}]]
    BY <1>5, <2>1 DEF FaultPage, Insert, Entries, TypeOK
  <2>3. fifo' \in Seq([frame : Frames, page : VPages])
    <3> DEFINE R == [frame : Frames, page : VPages]
               r == [frame |-> Frame, page |-> step.page]
    <3>1. r \in R /\ fifo \in Seq(R)
      BY <2>1 DEF TypeOK
    <3>2. fifo' = fifo \/ fifo' = Append(fifo, r)
      BY <1>5 DEF FaultPage, MapSwappable
    <3> HIDE DEF R, r
    <3>3. fifo' \in Seq(R)
      BY <3>1, <3>2
    <3> QED
      BY <3>3 DEF R
  <2>4. StepOK'
    BY <1>5 DEF FaultPage, StepOK
  <2> QED
    BY <1>5, <2>1, <2>2, <2>3, <2>4 DEF FaultPage, Insert, TypeOK, processVars
<1>6. CASE FaultSwapIn
  <2>1. Frame \in Frames /\ Active \in Spaces /\ step.page \in VPages /\ step.w \in BOOLEAN
    BY <1>6, <1>a, <1>b DEF FaultSwapIn, StepForms, Active, TypeOK
  <2>2. pte' \in [Spaces -> [VPages -> Entries \union {None, Swapped}]]
    BY <1>6, <2>1 DEF FaultSwapIn, Insert, Entries, TypeOK
  <2>3. fifo' \in Seq([frame : Frames, page : VPages])
    BY <1>6, <2>1 DEF FaultSwapIn, MapSwappable, TypeOK
  <2>4. StepOK'
    BY <1>6 DEF FaultSwapIn, StepOK
  <2> QED
    BY <1>6, <2>1, <2>2, <2>3, <2>4 DEF FaultSwapIn, Insert, TypeOK, processVars
<1>7. CASE Evict
  <2>1. Head(fifo) \in [frame : Frames, page : VPages] /\ Tail(fifo) \in Seq([frame : Frames, page : VPages])
    <3> DEFINE R == [frame : Frames, page : VPages]
    <3>1. fifo \in Seq(R) /\ fifo # <<>>
      BY <1>7 DEF Evict, TypeOK
    <3> HIDE DEF R
    <3>2. Head(fifo) \in R /\ Tail(fifo) \in Seq(R)
      BY <3>1
    <3> QED
      BY <3>2 DEF R
  <2>2. StepOK'
    BY <1>7, <1>s DEF Evict
  <2> QED
    BY <1>7, <2>1, <2>2 DEF Evict, Cached, TypeOK, processVars
<1>8. CASE EndCheck
  <2>1. StepOK'
    BY <1>8, <1>s DEF EndCheck
  <2>2. /\ tab' \in [Spaces -> [Tables -> Frames \union {None}]]
        /\ pte' \in [Spaces -> [VPages -> Entries \union {None, Swapped}]]
        /\ areas' \in [Spaces -> SUBSET Areas] /\ dir' \in [Spaces -> Frames \union {Boot, None}]
    BY <1>8 DEF EndCheck, TypeOK
  <2>3. /\ ref' \in [Frames -> Int] /\ content' \in [Frames -> Vals \union {None}]
        /\ disk' \in [VPages -> Vals \union {None}]
    BY <1>8 DEF EndCheck
  <2>4. free' \in SUBSET Frames /\ stored' \in SUBSET Frames
    BY <1>8 DEF EndCheck, TypeOK
  <2>5. checking' \in BOOLEAN
    BY <1>8 DEF EndCheck
  <2> QED
    BY <1>8, <2>1, <2>2, <2>3, <2>4, <2>5 DEF EndCheck, TypeOK, processVars
<1>9. ASSUME NEW q \in Procs, Spawn(q) PROVE TypeOK'
  BY <1>9, <1>a, <1>b, RunsFrames DEF Spawn, TakeStack, Runs, TypeOK, StepOK, spaceVars, swapVars
<1>10. ASSUME NEW q \in Procs, Fork(q) PROVE TypeOK'
  BY <1>10, <1>a, <1>b, RunsFrames DEF Fork, TakeStack, Runs, PagesToCopy, Mapped, TypeOK, StepOK, spaceVars, swapVars
<1>11. ASSUME NEW q \in Procs, Reap(q) PROVE TypeOK'
  <2>1. step = User /\ state[q] = "zombie" /\ Running
    BY <1>11 DEF Reap, Running, User
  <2>2. kstack[q] # None
    BY <2>1 DEF IndInv, ProcsOK
  <2>3. kstack[q]..(kstack[q] + KSTACKPAGE - 1) \subseteq Frames
    BY <2>2 DEF IndInv, FramesOK, StackFrames
  <2>4. free' \in SUBSET Frames
    BY <1>11, <2>3 DEF Reap, TypeOK
  <2>5. StepOK'
    BY <1>11, <1>s DEF Reap
  <2> QED
    BY <1>11, <2>4, <2>5 DEF Reap, TypeOK, spaceVars, swapVars
<1>12. CASE CopyDir
  <2>1. step.to \in Procs /\ Frame \in Frames
    BY <1>12, <1>a, <1>b DEF CopyDir, NewDir, StepForms
  <2>2. StepOK'
    BY <1>12, <1>s DEF CopyDir, NewDir
  <2> QED
    BY <1>12, <2>1, <2>2 DEF CopyDir, NewDir, TypeOK, processVars
<1>13. CASE CopyTable
  <2>1. PICK v \in NextToCopy : AddTable(step.to, v)
    BY <1>13 DEF CopyTable
  <2>2. step.to \in Procs /\ Frame \in Frames /\ v \in VPages
    BY <1>13, <1>a, <1>b, <2>1 DEF CopyTable, AddTable, StepForms, NextToCopy
  <2>3. StepOK'
    BY <1>s, <2>1 DEF AddTable
  <2>4. /\ tab' \in [Spaces -> [Tables -> Frames \union {None}]]
        /\ free' \in SUBSET Frames /\ ref' \in [Frames -> Int]
    BY <2>1, <2>2 DEF AddTable, TypeOK
  <2> QED
    BY <2>1, <2>3, <2>4 DEF AddTable, TypeOK, processVars, swapVars
<1>14. CASE CopyPage
  <2>1. PICK v \in NextToCopy :
          /\ content' = [content EXCEPT ![Frame] = content[pte[cur][v].frame]]
          /\ Insert(step.to, v, Frame, pte[cur][v].w)
          /\ step' = [step EXCEPT !.todo = @ \ {v}]
    BY <1>14 DEF CopyPage
  <2>2. v \in Mapped(cur) /\ v \in VPages /\ step.to \in Procs
    BY <1>14, <1>a DEF CopyPage, CopyOK, IndInv, NextToCopy, Mapped, StepForms
  <2>3. pte[cur][v] \in Entries
    BY <2>2 DEF Mapped, Present, TypeOK
  <2>4. pte' \in [Spaces -> [VPages -> Entries \union {None, Swapped}]]
    BY <1>14, <1>b, <2>1, <2>2, <2>3 DEF CopyPage, Insert, Entries, TypeOK
  <2>5. StepOK'
    <3>1. step \in [op : {"copy"}, to : Procs, todo : SUBSET VPages]
      BY <1>14, <1>p DEF CopyPage, TypeOK, StepOK, User, Schedule
    <3> QED
      BY <2>1, <3>1 DEF StepOK
  <2>6. content' \in [Frames -> Vals \union {None}]
    BY <2>1, <2>3 DEF TypeOK, Entries
  <2>7. tlb' \subseteq tlb
    BY <2>1 DEF Insert
  <2> QED
    BY <1>14, <2>4, <2>5, <2>6, <2>7 DEF CopyPage, TypeOK, processVars, swapVars
<1>15. CASE CopyEnd
  BY <1>15, <1>a, <1>b DEF CopyEnd, TypeOK, StepOK, User, frameVars, swapVars
<1>16. ASSUME NEW image \in Images, Exec(image) PROVE TypeOK'
  <2>1. cur \in Procs /\ dir[cur] # Boot /\ cur \in Spaces
    BY <1>16 DEF Exec, IndInv, PhaseOK, TypeOK
  <2>2. Append(image, Stack) \in Seq(Segments)
    BY ProgramConstants DEF IsLoadable
  <2>3. StepOK'
    BY <1>16, <2>2 DEF Exec, StepOK
  <2> QED
    BY <1>16, <2>1, <2>3, ReleaseType DEF Exec, lcr3, IndInv, TypeOK, processVars, swapVars
<1>17. CASE LoadDir
  BY <1>17, <1>a, <1>b DEF LoadDir, NewDir, TypeOK, StepOK, processVars
<1>18. CASE LoadArea
  <2>1. step.segments \in Seq(Segments) /\ step.segments # <<>>
    BY <1>18, <1>a DEF LoadArea, Loading, StepForms
  <2>2. Segment \in Segments /\ Tail(step.segments) \in Seq(Segments)
    BY <2>1 DEF Segment
  <2>3. [from |-> Segment.from, to |-> Segment.to, w |-> Segment.w] \in Areas
    BY <2>2 DEF Segments, Areas
  <2>4. areas' \in [Spaces -> SUBSET Areas]
    BY <1>18, <2>3 DEF LoadArea, TypeOK
  <2>5. StepOK'
    BY <1>18, <2>2 DEF LoadArea, StepOK, Segments
  <2> QED
    BY <1>18, <2>4, <2>5 DEF LoadArea, TypeOK, frameVars, processVars, swapVars
<1>19. CASE LoadRefused
  BY <1>19, <1>a, <1>b, ReleaseType DEF LoadRefused, Loading, Schedule, IndInv, PhaseOK, ProcsOK, Running, LoadOK, TypeOK, StepOK, swapVars
<1>20. CASE LoadOverlap
  BY <1>20, <1>p DEF LoadOverlap, TypeOK, StepOK, frameVars, spaceVars, processVars, swapVars
<1>21. CASE LoadPage
  <2> DEFINE v == Head(step.pages)
             t == Min(free \ {Frame})
             bare == tab[cur][Table(v)] = None
  <2>1. /\ Loading /\ step.pages # <<>> /\ step.pages \in Seq(VPages)
        /\ step.w \in BOOLEAN /\ step.fill \in Vals \union {None}
    BY <1>21, <1>a DEF LoadPage, Loading, StepForms
  <2>2. v \in VPages /\ Tail(step.pages) \in Seq(VPages)
    BY <2>1
  <2>3. Frame \in free /\ (bare => t \in free)
    BY <1>21, LoadFrames
  <2>4. pte' \in [Spaces -> [VPages -> Entries \union {None, Swapped}]]
    BY <1>21, <2>1, <2>2, <2>3 DEF LoadPage, Insert, Entries, TypeOK
  <2>5. tab' \in [Spaces -> [Tables -> Frames \union {None}]]
    BY <1>21, <2>1, <2>2, <2>3 DEF LoadPage, TypeOK
  <2>6. content' \in [Frames -> Vals \union {None}]
    BY <1>21, <2>1 DEF LoadPage, TypeOK
  <2>7. StepOK'
    <3>1. step \in [op : {"load"}, segments : Seq(Segments), pages : Seq(VPages),
                    w : BOOLEAN, fill : Vals \union {None}]
      BY <2>1, <1>p DEF Loading, TypeOK, StepOK, User, Schedule
    <3> QED
      BY <1>21, <2>2, <3>1 DEF LoadPage, StepOK
  <2>8. tlb' \subseteq tlb /\ free' \subseteq free
    BY <1>21 DEF LoadPage, Insert
  <2> QED
    BY <1>21, <2>4, <2>5, <2>6, <2>7, <2>8 DEF LoadPage, TypeOK, processVars, swapVars
<1>22. CASE LoadEnd
  BY <1>22, <1>a, <1>b DEF LoadEnd, Loading, lcr3, User, TypeOK, StepOK, frameVars, spaceVars, processVars, swapVars
<1>23. CASE Exit
  BY <1>23, <1>a, <1>b, ReleaseType DEF Exit, lcr3, Schedule, IndInv, PhaseOK, ProcsOK, Running, TypeOK, StepOK, swapVars
<1>24. ASSUME NEW p \in Spaces, Switch(p) PROVE TypeOK'
  BY <1>24, <1>a, <1>b DEF Switch, lcr3, User, TypeOK, StepOK, frameVars, spaceVars, swapVars
<1>25. CASE OutOfMemory
  BY <1>25, <1>p DEF OutOfMemory, TypeOK, StepOK, frameVars, spaceVars, processVars, swapVars
<1> QED
  BY <1>1, <1>a, <1>b, <1>2, <1>3, <1>4, <1>5, <1>6, <1>7, <1>8, <1>9, <1>10, <1>11, <1>12, <1>13, <1>14,
     <1>15, <1>16, <1>17, <1>18, <1>19, <1>20, <1>21, <1>22, <1>23, <1>24, <1>25
  DEF Next, Access

-----------------------------------------------------------------------------
(* What the frames are used for.                                           *)

\* The reference counts when F is taken for the label u.
LEMMA CountTaken ==
    ASSUME NEW h \in [Labels -> SUBSET Frames], NEW a, Partition(h, a), NEW r, Counts(h, r),
           NEW u \in Labels, h[u] = {}, NEW F \in SUBSET Frames, F \subseteq a,
           NEW q, \A f \in Frames : q[f] = IF f \in F /\ u \in Counted THEN 1 ELSE r[f],
           NEW g, g = [h EXCEPT ![u] = F]
    PROVE  Counts(g, q)
<1>1. Counted \subseteq Labels
  BY DEF Labels
<1>2. ASSUME NEW f \in Frames
      PROVE  q[f] = IF \E w \in Counted : f \in g[w] THEN 1 ELSE 0
  <2>1. CASE f \in F /\ u \in Counted
    <3>1. f \in g[u]
      BY <2>1
    <3> QED
      BY <2>1, <3>1
  <2>2. CASE f \in F /\ u \notin Counted
    <3>1. \A w \in Counted : g[w] = h[w]
      BY <2>2, <1>1
    <3> QED
      BY <2>2, <3>1 DEF Counts
  <2>3. CASE f \notin F
    <3>1. \A w \in Counted : f \in g[w] <=> f \in h[w]
      BY <2>3, <1>1
    <3> QED
      BY <2>3, <3>1 DEF Counts
  <2> QED
    BY <2>1, <2>2, <2>3
<1> QED
  BY <1>2 DEF Counts

\* An unused frame has no reference and no label.
LEMMA UnusedRef ==
    ASSUME FramesOK, NEW f \in Frames, f \in Unused
    PROVE  ref[f] = 0 /\ \A u \in Labels : f \notin Holding[u]
  BY DEF FramesOK, Accounted, Partition, Counts, Labels

\* What the labels hold is a set of frames.
LEMMA HoldingType ==
    ASSUME TypeOK, \A p \in Procs : kstack[p] # None => StackFrames(p) \subseteq Frames
    PROVE  Holding \in [Labels -> SUBSET Frames]
<1> SUFFICES ASSUME NEW u \in Labels PROVE Holds(u) \subseteq Frames
  BY DEF Holding
<1>1. ASSUME NEW p \in Procs, u = <<"stack", p>> PROVE Holds(u) \subseteq Frames
  <2>1. Holds(u) = StackFrames(p)
    BY <1>1 DEF Holds
  <2> QED
    BY <2>1 DEF StackFrames
<1>2. ASSUME NEW s \in Spaces, u = <<"dir", s>> PROVE Holds(u) \subseteq Frames
  BY <1>2 DEF Holds
<1>3. ASSUME NEW s \in Spaces, NEW t \in Tables, u = <<"table", s, t>> PROVE Holds(u) \subseteq Frames
  BY <1>3 DEF Holds
<1>4. ASSUME NEW s \in Spaces, NEW v \in VPages, u = <<"page", s, v>> PROVE Holds(u) \subseteq Frames
  <2>1. Holds(u) = IF Present(s, v) THEN {pte[s][v].frame} ELSE {}
    BY <1>4 DEF Holds
  <2>2. Present(s, v) => pte[s][v].frame \in Frames
    BY DEF Present, TypeOK, Entries
  <2> QED
    BY <2>1, <2>2
<1> QED
  BY <1>1, <1>2, <1>3, <1>4, LabelForms

\* What changes in Holding with a stack, a directory, a table or a page.
LEMMA StackSet ==
    ASSUME TypeOK, NEW q \in Procs, NEW x, kstack' = [kstack EXCEPT ![q] = x], UNCHANGED <<dir, tab, pte>>
    PROVE  Holding' = [Holding EXCEPT ![<<"stack", q>>] = StackFrames(q)']
<1>1. ASSUME NEW u \in Labels
      PROVE  Holds(u)' = IF u = <<"stack", q>> THEN StackFrames(q)' ELSE Holds(u)
  <2>1. ASSUME NEW p \in Procs, u = <<"stack", p>> PROVE Holds(u)' = IF p = q THEN StackFrames(q)' ELSE Holds(u)
    BY <2>1 DEF Holds, StackFrames, TypeOK
  <2>2. ASSUME NEW s \in Spaces, u = <<"dir", s>> PROVE Holds(u)' = Holds(u)
    BY <2>2 DEF Holds
  <2>3. ASSUME NEW s \in Spaces, NEW t \in Tables, u = <<"table", s, t>> PROVE Holds(u)' = Holds(u)
    BY <2>3 DEF Holds
  <2>4. ASSUME NEW s \in Spaces, NEW v \in VPages, u = <<"page", s, v>> PROVE Holds(u)' = Holds(u)
    BY <2>4 DEF Holds, Present
  <2>5. \A s, t : <<"dir", s>> # <<"stack", q>> /\ <<"table", s, t>> # <<"stack", q>> /\ <<"page", s, t>> # <<"stack", q>>
    OBVIOUS
  <2> QED
    BY <2>1, <2>2, <2>3, <2>4, <2>5, LabelForms
<1> QED
  BY <1>1, StackLabel DEF Holding

LEMMA DirSet ==
    ASSUME TypeOK, NEW q \in Spaces, NEW x, dir' = [dir EXCEPT ![q] = x], UNCHANGED <<kstack, tab, pte>>
    PROVE  Holding' = [Holding EXCEPT ![<<"dir", q>>] = {x} \intersect Frames]
<1>1. ASSUME NEW u \in Labels
      PROVE  Holds(u)' = IF u = <<"dir", q>> THEN {x} \intersect Frames ELSE Holds(u)
  <2>1. ASSUME NEW p \in Procs, u = <<"stack", p>> PROVE Holds(u)' = Holds(u)
    BY <2>1 DEF Holds, StackFrames
  <2>2. ASSUME NEW s \in Spaces, u = <<"dir", s>>
        PROVE  Holds(u)' = IF s = q THEN {x} \intersect Frames ELSE Holds(u)
    BY <2>2 DEF Holds, TypeOK
  <2>3. ASSUME NEW s \in Spaces, NEW t \in Tables, u = <<"table", s, t>> PROVE Holds(u)' = Holds(u)
    BY <2>3 DEF Holds
  <2>4. ASSUME NEW s \in Spaces, NEW v \in VPages, u = <<"page", s, v>> PROVE Holds(u)' = Holds(u)
    BY <2>4 DEF Holds, Present
  <2>5. \A s, t : <<"stack", s>> # <<"dir", q>> /\ <<"table", s, t>> # <<"dir", q>> /\ <<"page", s, t>> # <<"dir", q>>
    OBVIOUS
  <2> QED
    BY <2>1, <2>2, <2>3, <2>4, <2>5, LabelForms
<1> QED
  BY <1>1, DirLabel DEF Holding

LEMMA TableSet ==
    ASSUME TypeOK, NEW q \in Spaces, NEW n \in Tables, NEW x, tab' = [tab EXCEPT ![q][n] = x],
           UNCHANGED <<kstack, dir, pte>>
    PROVE  Holding' = [Holding EXCEPT ![<<"table", q, n>>] = {x} \intersect Frames]
<1>1. ASSUME NEW u \in Labels
      PROVE  Holds(u)' = IF u = <<"table", q, n>> THEN {x} \intersect Frames ELSE Holds(u)
  <2>1. ASSUME NEW p \in Procs, u = <<"stack", p>> PROVE Holds(u)' = Holds(u)
    BY <2>1 DEF Holds, StackFrames
  <2>2. ASSUME NEW s \in Spaces, u = <<"dir", s>> PROVE Holds(u)' = Holds(u)
    BY <2>2 DEF Holds
  <2>3. ASSUME NEW s \in Spaces, NEW t \in Tables, u = <<"table", s, t>>
        PROVE  Holds(u)' = IF s = q /\ t = n THEN {x} \intersect Frames ELSE Holds(u)
    <3>1. Holds(u)' = {tab'[s][t]} \intersect Frames /\ Holds(u) = {tab[s][t]} \intersect Frames
      BY <2>3 DEF Holds
    <3>2. tab'[s][t] = IF s = q /\ t = n THEN x ELSE tab[s][t]
      BY DEF TypeOK
    <3> QED
      BY <3>1, <3>2
  <2>4. ASSUME NEW s \in Spaces, NEW v \in VPages, u = <<"page", s, v>> PROVE Holds(u)' = Holds(u)
    BY <2>4 DEF Holds, Present
  <2>5. \A s, t : <<"stack", s>> # <<"table", q, n>> /\ <<"dir", s>> # <<"table", q, n>> /\ <<"page", s, t>> # <<"table", q, n>>
    OBVIOUS
  <2> QED
    BY <2>1, <2>2, <2>3, <2>4, <2>5, LabelForms
<1> QED
  BY <1>1, TableLabel DEF Holding

LEMMA PageSet ==
    ASSUME TypeOK, NEW q \in Spaces, NEW n \in VPages, NEW x, pte' = [pte EXCEPT ![q][n] = x],
           UNCHANGED <<kstack, dir, tab>>
    PROVE  Holding' = [Holding EXCEPT ![<<"page", q, n>>] = IF x \in {None, Swapped} THEN {} ELSE {x.frame}]
<1> DEFINE F == IF x \in {None, Swapped} THEN {} ELSE {x.frame}
<1>1. ASSUME NEW u \in Labels
      PROVE  Holds(u)' = IF u = <<"page", q, n>> THEN F ELSE Holds(u)
  <2>1. ASSUME NEW p \in Procs, u = <<"stack", p>> PROVE Holds(u)' = Holds(u)
    BY <2>1 DEF Holds, StackFrames
  <2>2. ASSUME NEW s \in Spaces, u = <<"dir", s>> PROVE Holds(u)' = Holds(u)
    BY <2>2 DEF Holds
  <2>3. ASSUME NEW s \in Spaces, NEW t \in Tables, u = <<"table", s, t>> PROVE Holds(u)' = Holds(u)
    BY <2>3 DEF Holds
  <2>4. ASSUME NEW s \in Spaces, NEW v \in VPages, u = <<"page", s, v>>
        PROVE  Holds(u)' = IF s = q /\ v = n THEN F ELSE Holds(u)
    <3>1. Holds(u)' = (IF pte'[s][v] \notin {None, Swapped} THEN {pte'[s][v].frame} ELSE {})
          /\ Holds(u) = IF pte[s][v] \notin {None, Swapped} THEN {pte[s][v].frame} ELSE {}
      BY <2>4 DEF Holds, Present
    <3>2. pte'[s][v] = IF s = q /\ v = n THEN x ELSE pte[s][v]
      BY DEF TypeOK
    <3> QED
      BY <3>1, <3>2
  <2>5. \A s, t : <<"stack", s>> # <<"page", q, n>> /\ <<"dir", s>> # <<"page", q, n>> /\ <<"table", s, t>> # <<"page", q, n>>
    OBVIOUS
  <2>6. \A s \in Spaces, v \in VPages : <<"page", s, v>> = <<"page", q, n>> <=> s = q /\ v = n
    OBVIOUS
  <2> QED
    BY <2>1, <2>2, <2>3, <2>4, <2>5, <2>6, LabelForms
<1> QED
  BY <1>1, PageLabel DEF Holding

\* A table and a page are set at once.
BothSet(q, m, y, n, x) ==
    /\ \A s \in Spaces, k \in Tables : tab'[s][k] = IF s = q /\ k = m THEN y ELSE tab[s][k]
    /\ \A s \in Spaces, v \in VPages : pte'[s][v] = IF s = q /\ v = n THEN x ELSE pte[s][v]
    /\ UNCHANGED <<kstack, dir>>

BothHeld(q, m, y, n, x) ==
    \A u \in Labels :
        Holding'[u] = IF u = <<"page", q, n>> THEN (IF x \in {None, Swapped} THEN {} ELSE {x.frame})
                      ELSE IF u = <<"table", q, m>> THEN {y} \intersect Frames ELSE Holding[u]

LEMMA LoadSet ==
    ASSUME NEW q \in Spaces, NEW m \in Tables, NEW y, NEW n \in VPages, NEW x, BothSet(q, m, y, n, x)
    PROVE  BothHeld(q, m, y, n, x)
<1> USE DEF BothSet, BothHeld
<1> DEFINE F == IF x \in {None, Swapped} THEN {} ELSE {x.frame}
           T == {y} \intersect Frames
<1>1. ASSUME NEW u \in Labels
      PROVE  Holds(u)' = IF u = <<"page", q, n>> THEN F ELSE IF u = <<"table", q, m>> THEN T ELSE Holds(u)
  <2>1. ASSUME NEW p \in Procs, u = <<"stack", p>> PROVE Holds(u)' = Holds(u)
    BY <2>1 DEF Holds, StackFrames
  <2>2. ASSUME NEW s \in Spaces, u = <<"dir", s>> PROVE Holds(u)' = Holds(u)
    BY <2>2 DEF Holds
  <2>3. ASSUME NEW s \in Spaces, NEW t \in Tables, u = <<"table", s, t>>
        PROVE  Holds(u)' = IF s = q /\ t = m THEN T ELSE Holds(u)
    <3>1. Holds(u)' = {tab'[s][t]} \intersect Frames /\ Holds(u) = {tab[s][t]} \intersect Frames
      BY <2>3 DEF Holds
    <3>2. tab'[s][t] = IF s = q /\ t = m THEN y ELSE tab[s][t]
      OBVIOUS
    <3> QED
      BY <3>1, <3>2
  <2>4. ASSUME NEW s \in Spaces, NEW v \in VPages, u = <<"page", s, v>>
        PROVE  Holds(u)' = IF s = q /\ v = n THEN F ELSE Holds(u)
    <3>1. Holds(u)' = (IF pte'[s][v] \notin {None, Swapped} THEN {pte'[s][v].frame} ELSE {})
          /\ Holds(u) = IF pte[s][v] \notin {None, Swapped} THEN {pte[s][v].frame} ELSE {}
      BY <2>4 DEF Holds, Present
    <3>2. pte'[s][v] = IF s = q /\ v = n THEN x ELSE pte[s][v]
      OBVIOUS
    <3> QED
      BY <3>1, <3>2
  <2>5. \A s, t : /\ <<"stack", s>> # <<"page", q, n>> /\ <<"dir", s>> # <<"page", q, n>>
                  /\ <<"stack", s>> # <<"table", q, m>> /\ <<"dir", s>> # <<"table", q, m>>
                  /\ <<"table", s, t>> # <<"page", q, n>> /\ <<"page", s, t>> # <<"table", q, m>>
    OBVIOUS
  <2>6. \A s \in Spaces, v \in VPages : <<"page", s, v>> = <<"page", q, n>> <=> s = q /\ v = n
    OBVIOUS
  <2>7. \A s \in Spaces, t \in Tables : <<"table", s, t>> = <<"table", q, m>> <=> s = q /\ t = m
    OBVIOUS
  <2> QED
    BY <2>1, <2>2, <2>3, <2>4, <2>5, <2>6, <2>7, LabelForms
<1> QED
  BY <1>1 DEF Holding

\* What check_swap leaves behind are frames.
LEMMA LostFrames == Lost \subseteq Frames /\ CheckTable \in Frames
<1>1. NCheck \in Nat /\ NFrames \in Nat /\ NCheck < NFrames
  BY MemoryConstants
<1> QED
  BY <1>1 DEF Lost, CheckTable, Frames

\* Frames are taken for a use that had none.
LEMMA Taken ==
    ASSUME TypeOK, FramesOK, NEW u \in Labels, Holding[u] = {}, NEW F \in SUBSET free,
           free' = free \ F, UNCHANGED <<stored, checking>>,
           Holding' = [Holding EXCEPT ![u] = F],
           \A f \in Frames : ref'[f] = IF f \in F /\ u \in Counted THEN 1 ELSE ref[f]
    PROVE  Accounted'
<1>1. Holding \in [Labels -> SUBSET Frames]
  BY HoldingType DEF FramesOK
<1>2. Unused \in SUBSET Frames /\ F \subseteq Unused /\ F \in SUBSET Frames
  BY LostFrames DEF Unused, TypeOK
<1>3. Lost' = Lost /\ Unused' = Unused \ F
  BY DEF Lost, Unused, FramesOK, Accounted
<1>4. Partition(Holding, Unused) /\ Counts(Holding, ref)
  BY DEF FramesOK, Accounted
<1>5. Partition(Holding', Unused \ F)
  BY <1>1, <1>2, <1>4, Take
<1>6. Counts(Holding', ref')
  <2> HIDE DEF Counts, Partition
  <2> QED
    BY <1>1, <1>2, <1>4, CountTaken
<1>7. free' \intersect (stored' \union Lost') = {}
  BY <1>3 DEF FramesOK, Accounted
<1> QED
  BY <1>3, <1>5, <1>6, <1>7 DEF Accounted, Partition, Counts

\* The frames of some uses are given back.
LEMMA GivenBack ==
    ASSUME TypeOK, FramesOK, NEW U \in SUBSET Labels,
           NEW F, F = UNION {Holding[w] : w \in U}, free' = free \union F, UNCHANGED <<stored, checking>>,
           Holding' = [w \in Labels |-> IF w \in U THEN {} ELSE Holding[w]],
           \A f \in Frames : ref'[f] = IF f \in F THEN 0 ELSE ref[f]
    PROVE  Accounted'
<1>1. Holding \in [Labels -> SUBSET Frames]
  BY HoldingType DEF FramesOK
<1>2. Unused \in SUBSET Frames
  BY LostFrames DEF Unused, TypeOK
<1>3. Lost' = Lost /\ Unused' = Unused \union F
  BY DEF Lost, Unused
<1>4. Partition(Holding, Unused) /\ Counts(Holding, ref)
  BY DEF FramesOK, Accounted
<1>5. Partition(Holding', Unused \union F)
  BY <1>1, <1>2, <1>4, Give
<1>6. Counts(Holding', ref')
  <2> SUFFICES ASSUME NEW f \in Frames
               PROVE  ref'[f] = IF \E w \in Counted : f \in Holding'[w] THEN 1 ELSE 0
    BY DEF Counts
  <2>1. \A w \in Labels : Holding'[w] = IF w \in U THEN {} ELSE Holding[w]
    OBVIOUS
  <2>2. Counted \subseteq Labels
    BY DEF Labels
  <2>3. CASE f \in F
    <3>1. PICK w \in U : f \in Holding[w]
      BY <2>3
    <3>2. \A x \in Labels : f \in Holding[x] => x = w
      BY <1>4, <3>1 DEF Partition
    <3>3. \A x \in Counted : f \notin Holding'[x]
      BY <2>1, <2>2, <3>1, <3>2
    <3> QED
      BY <2>3, <3>3
  <2>4. CASE f \notin F
    <3>1. \A x \in Counted : f \in Holding'[x] <=> f \in Holding[x]
      BY <2>1, <2>2, <2>4
    <3> QED
      BY <1>4, <2>4, <3>1 DEF Counts
  <2> QED
    BY <2>3, <2>4
<1>7. free' \intersect (stored' \union Lost') = {}
  <2>1. \A f \in F : f \in Frames /\ f \notin Unused
    BY <1>1, <1>4 DEF Partition
  <2> QED
    BY <1>3, <2>1 DEF FramesOK, Accounted, Unused
<1> QED
  BY <1>3, <1>5, <1>6, <1>7 DEF Accounted, Partition, Counts

\* Nothing that is accounted changes.
LEMMA Untouched ==
    ASSUME FramesOK, UNCHANGED <<free, stored, ref, kstack, dir, tab, pte, checking>>
    PROVE  Accounted'
<1>1. \A p \in Procs : StackFrames(p)' = StackFrames(p)
  BY DEF StackFrames
<1>2. \A u \in Labels : Holds(u)' = Holds(u)
  <2> TAKE u \in Labels
  <2>1. \A s, v : Present(s, v)' = Present(s, v)
    BY DEF Present
  <2>2. ASSUME NEW p \in Procs, u = <<"stack", p>> PROVE Holds(u)' = Holds(u)
    BY <1>1, <2>2 DEF Holds
  <2>3. ASSUME NEW s \in Spaces, u = <<"dir", s>> PROVE Holds(u)' = Holds(u)
    BY <2>3 DEF Holds
  <2>4. ASSUME NEW s \in Spaces, NEW t \in Tables, u = <<"table", s, t>> PROVE Holds(u)' = Holds(u)
    BY <2>4 DEF Holds
  <2>5. ASSUME NEW s \in Spaces, NEW v \in VPages, u = <<"page", s, v>> PROVE Holds(u)' = Holds(u)
    BY <2>1, <2>5 DEF Holds
  <2> QED
    BY <2>2, <2>3, <2>4, <2>5, LabelForms
<1>3. Holding' = Holding
  BY <1>2 DEF Holding
<1>4. Unused' = Unused /\ Lost' = Lost
  BY DEF Unused, Lost
<1> QED
  BY <1>3, <1>4 DEF FramesOK, Accounted, Partition, Counts

SpaceLabels(s) == {<<"dir", s>>} \union {<<"table", s, t>> : t \in Tables}
                  \union {<<"page", s, v>> : v \in VPages}

\* None is none of the things it stands for the absence of.
LEMMA NoneApart ==
    /\ \A f \in Frames : f # None /\ f # Boot
    /\ \A e \in Entries : e # None /\ e # Swapped
    /\ None # Boot /\ None # Swapped /\ Boot \notin Frames
    /\ \A x \in Vals : x # None
<1>1. Frames \subseteq Nat /\ Boot \in Int /\ Boot \notin Nat
  BY MemoryConstants DEF Frames, Boot
<1>2. None \notin Int /\ None \notin Vals /\ None \notin Entries /\ Swapped \notin Entries /\ Swapped # None
  BY ProgramConstants
<1> QED
  BY <1>1, <1>2

\* What Release frees is all that the space held, for no page is shared.
LEMMA FreedHeld ==
    ASSUME TypeOK, FramesOK, NEW s \in Spaces, dir[s] # Boot
    PROVE  /\ SpaceLabels(s) \subseteq Labels
           /\ Unreferenced(s) = Pages(s)
           /\ Freed(s) = UNION {Holding[w] : w \in SpaceLabels(s)}
<1>1. SpaceLabels(s) \subseteq Labels
  BY DEF SpaceLabels, Labels, Counted
<1>2. ASSUME NEW v \in Mapped(s)
      PROVE  pte[s][v].frame \in Frames /\ pte[s][v].frame \in Holding[<<"page", s, v>>]
  <2>1. v \in VPages /\ Present(s, v)
    BY <1>2 DEF Mapped
  <2>2. pte[s][v] \in Entries
    BY <2>1 DEF TypeOK, Present
  <2> QED
    BY <2>1, <2>2, PageLabel DEF Entries
<1>3. Unreferenced(s) = Pages(s)
  <2>1. ASSUME NEW f \in Pages(s) PROVE ref[f] = 1
    <3>1. PICK v \in Mapped(s) : f = pte[s][v].frame
      BY DEF Pages
    <3>2. v \in VPages
      BY <3>1 DEF Mapped
    <3> QED
      BY <1>2, <3>1, <3>2, PageLabel DEF FramesOK, Accounted, Counts
  <2> QED
    BY <2>1 DEF Unreferenced
<1>4. ASSUME NEW f \in Freed(s) PROVE f \in UNION {Holding[w] : w \in SpaceLabels(s)}
  <2>1. CASE f \in Pages(s)
    <3>1. PICK v \in Mapped(s) : f = pte[s][v].frame
      BY <2>1 DEF Pages
    <3>2. v \in VPages /\ <<"page", s, v>> \in SpaceLabels(s)
      BY <3>1 DEF Mapped, SpaceLabels
    <3> QED
      BY <1>2, <3>1, <3>2
  <2>2. CASE f \in TableFrames(s)
    <3>1. PICK t \in Tables : f = tab[s][t] /\ f # None
      BY <2>2 DEF TableFrames
    <3>2. <<"table", s, t>> \in SpaceLabels(s) /\ f \in Frames
      BY <3>1 DEF SpaceLabels, TypeOK
    <3> QED
      BY <3>1, <3>2, TableLabel
  <2>3. CASE f = dir[s] /\ f # None
    <3>1. <<"dir", s>> \in SpaceLabels(s) /\ f \in Frames
      BY <2>3 DEF SpaceLabels, TypeOK
    <3> QED
      BY <2>3, <3>1, DirLabel
  <2> QED
    BY <1>3, <2>1, <2>2, <2>3 DEF Freed
<1>5. ASSUME NEW w \in SpaceLabels(s), NEW f \in Holding[w] PROVE f \in Freed(s)
  <2>1. CASE w = <<"dir", s>>
    BY <2>1, DirLabel, NoneApart DEF Freed
  <2>2. ASSUME NEW t \in Tables, w = <<"table", s, t>> PROVE f \in Freed(s)
    BY <2>2, TableLabel, NoneApart DEF Freed, TableFrames
  <2>3. ASSUME NEW v \in VPages, w = <<"page", s, v>> PROVE f \in Freed(s)
    BY <1>3, <2>3, PageLabel DEF Freed, Pages, Mapped
  <2> QED
    BY <2>1, <2>2, <2>3 DEF SpaceLabels
<1> QED
  BY <1>1, <1>3, <1>4, <1>5

\* A space is given up.
LEMMA Released ==
    ASSUME TypeOK, FramesOK, NEW s \in Spaces, dir[s] # Boot, Release(s),
           UNCHANGED <<stored, checking, kstack>>
    PROVE  Accounted'
<1>1. ASSUME NEW u \in Labels
      PROVE  Holding'[u] = IF u \in SpaceLabels(s) THEN {} ELSE Holding[u]
  <2> USE DEF Release
  <2>1. ASSUME NEW p \in Procs, u = <<"stack", p>> PROVE Holding'[u] = Holding[u] /\ u \notin SpaceLabels(s)
    BY <2>1 DEF Holding, Holds, StackFrames, SpaceLabels
  <2>2. ASSUME NEW r \in Spaces, u = <<"dir", r>>
        PROVE  Holding'[u] = IF u \in SpaceLabels(s) THEN {} ELSE Holding[u]
    <3>1. u \in SpaceLabels(s) <=> r = s
      BY <2>2 DEF SpaceLabels
    <3>2. Holding'[u] = {dir'[r]} \intersect Frames /\ Holding[u] = {dir[r]} \intersect Frames
      BY <2>2 DEF Holding, Holds
    <3>3. dir'[r] = IF r = s THEN None ELSE dir[r]
      BY DEF TypeOK
    <3> QED
      BY <3>1, <3>2, <3>3, NoneApart
  <2>3. ASSUME NEW r \in Spaces, NEW t \in Tables, u = <<"table", r, t>>
        PROVE  Holding'[u] = IF u \in SpaceLabels(s) THEN {} ELSE Holding[u]
    <3>1. u \in SpaceLabels(s) <=> r = s
      BY <2>3 DEF SpaceLabels
    <3>2. Holding'[u] = {tab'[r][t]} \intersect Frames /\ Holding[u] = {tab[r][t]} \intersect Frames
      BY <2>3 DEF Holding, Holds
    <3>3. tab'[r][t] = IF r = s THEN None ELSE tab[r][t]
      BY DEF TypeOK
    <3> QED
      BY <3>1, <3>2, <3>3, NoneApart
  <2>4. ASSUME NEW r \in Spaces, NEW v \in VPages, u = <<"page", r, v>>
        PROVE  Holding'[u] = IF u \in SpaceLabels(s) THEN {} ELSE Holding[u]
    <3>1. u \in SpaceLabels(s) <=> r = s
      BY <2>4 DEF SpaceLabels
    <3>2. Holding'[u] = (IF pte'[r][v] \notin {None, Swapped} THEN {pte'[r][v].frame} ELSE {})
          /\ Holding[u] = IF pte[r][v] \notin {None, Swapped} THEN {pte[r][v].frame} ELSE {}
      BY <2>4 DEF Holding, Holds, Present
    <3>3. pte'[r][v] = IF r = s THEN None ELSE pte[r][v]
      BY DEF TypeOK
    <3> QED
      BY <3>1, <3>2, <3>3
  <2> QED
    BY <2>1, <2>2, <2>3, <2>4, LabelForms
<1>2. Holding' = [w \in Labels |-> IF w \in SpaceLabels(s) THEN {} ELSE Holding[w]]
  BY <1>1 DEF Holding
<1>3. \A f \in Frames : ref'[f] = IF f \in Freed(s) THEN 0 ELSE ref[f]
  BY FreedHeld DEF Release, Freed
<1> QED
  BY <1>2, <1>3, FreedHeld, GivenBack DEF Release

\* The actions that move frames, one by one.
LEMMA EndCheckAccounts ==
    ASSUME TypeOK, FramesOK, PhaseOK, ProcsOK, BareOK, EndCheck
    PROVE  Accounted'
<1>1. ASSUME NEW f \in Frames PROVE f \in Unused'
  BY LostFrames DEF EndCheck, PhaseOK, Unused, Lost, CheckTable, Frames
<1>2. ASSUME NEW u \in Labels PROVE Holding'[u] = {}
  <2>1. ASSUME NEW p \in Procs PROVE kstack'[p] = None /\ dir'[p] = None
    BY SpaceFacts DEF EndCheck, PhaseOK, ProcsOK, processVars, User, TypeOK
  <2>2. \A s \in Spaces : dir'[s] = None
    BY <2>1, SpaceFacts DEF EndCheck, TypeOK
  <2>3. \A s \in Spaces, t \in Tables : tab'[s][t] = None
    BY <2>1, SpaceFacts DEF EndCheck, TypeOK, BareOK, PhaseOK, ProcsOK, User
  <2>4. \A s \in Spaces, v \in VPages : pte'[s][v] = None
    BY <2>1, SpaceFacts DEF EndCheck, TypeOK, BareOK, PhaseOK, ProcsOK, User
  <2>5. ASSUME NEW p \in Procs, u = <<"stack", p>> PROVE Holding'[u] = {}
    BY <2>1, <2>5 DEF Holding, Holds, StackFrames
  <2>6. ASSUME NEW s \in Spaces, u = <<"dir", s>> PROVE Holding'[u] = {}
    BY <2>2, <2>6, NoneApart DEF Holding, Holds
  <2>7. ASSUME NEW s \in Spaces, NEW t \in Tables, u = <<"table", s, t>> PROVE Holding'[u] = {}
    BY <2>3, <2>7, NoneApart DEF Holding, Holds
  <2>8. ASSUME NEW s \in Spaces, NEW v \in VPages, u = <<"page", s, v>> PROVE Holding'[u] = {}
    BY <2>4, <2>8, NoneApart DEF Holding, Holds, Present
  <2> QED
    BY <2>5, <2>6, <2>7, <2>8, LabelForms
<1>3. Partition(Holding, Unused)'
  BY <1>1, <1>2 DEF Partition
<1>4. Counts(Holding, ref)'
  <2>1. Counted \subseteq Labels /\ \A f \in Frames : ref'[f] = 0
    BY DEF Labels, EndCheck
  <2> QED
    BY <1>2, <2>1 DEF Counts
<1>5. free' \intersect (stored' \union Lost') = {}
  BY LostFrames DEF EndCheck, PhaseOK, Lost, CheckTable, Frames
<1> QED
  BY <1>3, <1>4, <1>5 DEF Accounted, Partition, Counts

LEMMA FaultPageAccounts ==
    ASSUME TypeOK, FramesOK, StepForms, NEW s \in Spaces, NEW v \in VPages, free # {}, ~Present(s, v),
           NEW w \in BOOLEAN, Insert(s, v, Frame, w), free' = free \ {Frame},
           ref' = [ref EXCEPT ![Frame] = @ + 1],
           UNCHANGED <<stored, checking, kstack, dir, tab>>
    PROVE  Accounted'
<1>1. Frame \in free /\ Frame \in Frames
  BY FrameFree
<1>2. ref[Frame] = 0
  BY <1>1, UnusedRef DEF Unused
<1> DEFINE x == [frame |-> Frame, w |-> w]
<1>3. x \in Entries
  BY <1>1 DEF Entries
<1>4. x \notin {None, Swapped}
  BY <1>3, NoneApart
<1>5. Holding' = [Holding EXCEPT ![<<"page", s, v>>] = {Frame}]
  <2>1. x.frame = Frame /\ pte' = [pte EXCEPT ![s][v] = x]
    BY DEF Insert
  <2> HIDE DEF x
  <2> QED
    BY <1>4, <2>1, PageSet
<1>6. Holding[<<"page", s, v>>] = {}
  BY PageLabel
<1>7. \A f \in Frames : ref'[f] = IF f \in {Frame} /\ <<"page", s, v>> \in Counted THEN 1 ELSE ref[f]
  <2>1. <<"page", s, v>> \in Counted
    BY PageLabel
  <2>2. \A f \in Frames : ref'[f] = IF f = Frame THEN ref[Frame] + 1 ELSE ref[f]
    BY DEF TypeOK
  <2> QED
    BY <1>2, <2>1, <2>2
<1> QED
  BY <1>1, <1>5, <1>6, <1>7, PageLabel, Taken

LEMMA EvictAccounts ==
    ASSUME TypeOK, FramesOK, PhaseOK, FifoExact, Evict
    PROVE  Accounted'
<1> DEFINE f == Head(fifo).frame
           v == Head(fifo).page
<1>1. Head(fifo) \in ToSet(fifo)
  BY DEF Evict, TypeOK, ToSet
<1>2. v \in VPages /\ Present(Idle, v) /\ f = pte[Idle][v].frame
  BY <1>1 DEF Evict, FifoExact, Mapped
<1>3. Holding[<<"page", Idle, v>>] = {f}
  BY <1>2, PageLabel, SpaceFacts
<1>4. Holding' = [Holding EXCEPT ![<<"page", Idle, v>>] = {}]
  <2> DEFINE x == Swapped
  <2>1. pte' = [pte EXCEPT ![Idle][v] = x] /\ UNCHANGED <<kstack, dir, tab>>
    BY DEF Evict, processVars
  <2>2. v \in VPages /\ x \in {None, Swapped} /\ Idle \in Spaces
    BY <1>2, SpaceFacts
  <2> HIDE DEF x, v, f
  <2> QED
    BY <2>1, <2>2, PageSet
<1>5. Holding' = [w \in Labels |-> IF w \in {<<"page", Idle, v>>} THEN {} ELSE Holding[w]]
  BY <1>4 DEF Holding
<1>6. {f} = UNION {Holding[w] : w \in {<<"page", Idle, v>>}}
  BY <1>3
<1>7. \A g \in Frames : ref'[g] = IF g \in {f} THEN 0 ELSE ref[g]
  BY DEF Evict, TypeOK
<1>8. free' = free \union {f} /\ UNCHANGED <<stored, checking>> /\ {<<"page", Idle, v>>} \in SUBSET Labels
  <2>1. {<<"page", Idle, v>>} \in SUBSET Labels
    <3>1. v \in VPages /\ Idle \in Spaces
      BY <1>2, SpaceFacts
    <3> HIDE DEF v
    <3> QED
      BY <3>1, PageLabel
  <2> QED
    BY <2>1 DEF Evict
<1> HIDE DEF f, v
<1> QED
  BY <1>5, <1>6, <1>7, <1>8, GivenBack

LEMMA TakeStackAccounts ==
    ASSUME TypeOK, FramesOK, ProcsOK, NEW q \in Procs, TakeStack(q),
           UNCHANGED <<stored, ref, checking, dir, tab, pte>>
    PROVE  Accounted' /\ StackFrames(q)' \subseteq Frames
<1> DEFINE f == Min(Runs(KSTACKPAGE))
           F == f..(f + KSTACKPAGE - 1)
<1>1. f \in Runs(KSTACKPAGE)
  BY RunsFrames DEF TakeStack
<1>2. f \in free /\ F \subseteq free
  BY <1>1 DEF Runs
<1>3. f # None /\ f \in Frames
  BY <1>2, NoneApart DEF TypeOK
<1>4. StackFrames(q)' = F
  BY <1>3 DEF TakeStack, StackFrames, TypeOK
<1>5. Holding' = [Holding EXCEPT ![<<"stack", q>>] = F]
  BY <1>4, StackSet DEF TakeStack
<1>6. kstack[q] = None
  BY DEF TakeStack, ProcsOK, User
<1>7. Holding[<<"stack", q>>] = {}
  BY <1>6, StackLabel DEF StackFrames
<1>8. free' = free \ F
  BY DEF TakeStack
<1> HIDE DEF F
<1>9. \A g \in Frames : ref'[g] = IF g \in F /\ <<"stack", q>> \in Counted THEN 1 ELSE ref[g]
  BY StackLabel
<1>10. Accounted'
  BY <1>2, <1>5, <1>7, <1>8, <1>9, StackLabel, Taken
<1> QED
  BY <1>2, <1>4, <1>10 DEF TypeOK

LEMMA ReapAccounts ==
    ASSUME TypeOK, FramesOK, ProcsOK, NEW q \in Procs, Reap(q)
    PROVE  Accounted'
<1>1. kstack[q] # None
  BY DEF Reap, ProcsOK
<1>2. Holding[<<"stack", q>>] = kstack[q]..(kstack[q] + KSTACKPAGE - 1)
  BY <1>1, StackLabel DEF StackFrames
<1> DEFINE F == Holding[<<"stack", q>>]
<1>3. Holding' = [Holding EXCEPT ![<<"stack", q>>] = {}]
  <2>1. StackFrames(q)' = {}
    BY DEF Reap, StackFrames, TypeOK
  <2> QED
    BY <2>1, StackSet DEF Reap, spaceVars
<1>4. Holding' = [w \in Labels |-> IF w \in {<<"stack", q>>} THEN {} ELSE Holding[w]]
  BY <1>3 DEF Holding
<1>5. F = UNION {Holding[w] : w \in {<<"stack", q>>}}
  OBVIOUS
<1>6. free' = free \union F /\ UNCHANGED <<stored, checking>>
  BY <1>2 DEF Reap, swapVars
<1>7. \A g \in Frames : ref'[g] = IF g \in F THEN 0 ELSE ref[g]
  <2>1. ref' = ref
    BY DEF Reap
  <2>2. ASSUME NEW g \in Frames, g \in F PROVE ref[g] = 0
    <3>1. <<"stack", q>> \in Labels /\ g \in Holding[<<"stack", q>>] /\ <<"stack", q>> \notin Counted
      BY <2>2, StackLabel
    <3>2. \A u, w \in Labels : g \in Holding[u] /\ g \in Holding[w] => u = w
      BY DEF FramesOK, Accounted, Partition
    <3>3. Counted \subseteq Labels
      BY DEF Labels
    <3> HIDE DEF F
    <3>4. ~ \E u \in Counted : g \in Holding[u]
      BY <3>1, <3>2, <3>3
    <3> QED
      BY <3>4 DEF FramesOK, Accounted, Counts
  <2> QED
    BY <2>1, <2>2
<1> DEFINE U == {<<"stack", q>>}
<1>8. U \in SUBSET Labels
  BY StackLabel
<1>9. Holding' = [w \in Labels |-> IF w \in U THEN {} ELSE Holding[w]] /\ F = UNION {Holding[w] : w \in U}
  BY <1>4, <1>5
<1> HIDE DEF F, U
<1> QED
  BY <1>6, <1>7, <1>8, <1>9, GivenBack

LEMMA AddTableAccounts ==
    ASSUME TypeOK, FramesOK, NEW s \in Spaces, NEW v \in VPages, AddTable(s, v)
    PROVE  Accounted'
<1>1. Frame \in free /\ Frame \in Frames
  BY FrameFree DEF AddTable
<1>2. Table(v) \in Tables
  BY SpaceFacts
<1> DEFINE u == <<"table", s, Table(v)>>
<1>3. u \in Labels /\ u \in Counted /\ Holding[u] = {}
  BY <1>2, TableLabel, NoneApart DEF AddTable
<1>4. Holding' = [Holding EXCEPT ![u] = {Frame}]
  <2>1. {Frame} \intersect Frames = {Frame}
    BY <1>1
  <2> QED
    BY <1>2, <2>1, TableSet DEF AddTable, processVars
<1>5. \A f \in Frames : ref'[f] = IF f \in {Frame} /\ u \in Counted THEN 1 ELSE ref[f]
  BY <1>3 DEF AddTable, TypeOK
<1>6. free' = free \ {Frame} /\ UNCHANGED <<stored, checking>>
  BY DEF AddTable, swapVars
<1> HIDE DEF u
<1> QED
  BY <1>1, <1>3, <1>4, <1>5, <1>6, Taken

LEMMA NewDirAccounts ==
    ASSUME TypeOK, FramesOK, NEW s \in Spaces, NewDir(s)
    PROVE  Accounted'
<1>1. Frame \in free /\ Frame \in Frames
  BY FrameFree DEF NewDir
<1> DEFINE u == <<"dir", s>>
<1>2. u \in Labels /\ u \notin Counted /\ Holding[u] = {}
  BY DirLabel, NoneApart DEF NewDir
<1> DEFINE F == {Frame}
<1>3. Holding' = [Holding EXCEPT ![u] = F]
  <2>1. {Frame} \intersect Frames = {Frame}
    BY <1>1
  <2> QED
    BY <2>1, DirSet DEF NewDir, processVars
<1>4. \A f \in Frames : ref'[f] = IF f \in F /\ u \in Counted THEN 1 ELSE ref[f]
  BY <1>2 DEF NewDir
<1>5. free' = free \ F /\ UNCHANGED <<stored, checking>> /\ F \in SUBSET free
  BY <1>1 DEF NewDir
<1> HIDE DEF u, F
<1> QED
  BY <1>2, <1>3, <1>4, <1>5, Taken

LEMMA LoadPageAccounts ==
    ASSUME TypeOK, FramesOK, StepForms, LoadOK, LoadPage
    PROVE  Accounted'
<1> DEFINE v == Head(step.pages)
           t == Min(free \ {Frame})
           bare == tab[cur][Table(v)] = None
<1>1. v \in VPages /\ pte[cur][v] = None /\ step.w \in BOOLEAN /\ cur \in Spaces /\ Table(v) \in Tables
  <2>1. step.pages \in Seq(VPages) /\ step.pages # <<>>
    BY DEF LoadPage, Loading, StepForms
  <2>2. v \in VPages /\ v \in ToSet(step.pages)
    BY <2>1 DEF ToSet
  <2> QED
    BY <2>2, SpaceFacts DEF LoadPage, Loading, StepForms, LoadOK, TypeOK
<1>2. Frame \in free /\ Frame \in Frames /\ (bare => t \in free /\ t # Frame /\ t \in Frames)
  BY LoadFrames DEF TypeOK
<1>3. ~Present(cur, v)
  BY <1>1 DEF Present
<1> DEFINE x == [frame |-> Frame, w |-> step.w]
           P == <<"page", cur, v>>
           T == <<"table", cur, Table(v)>>
<1>4. x \in Entries /\ x \notin {None, Swapped} /\ x.frame = Frame
  BY <1>1, <1>2, NoneApart DEF Entries
<1>5. pte' = [pte EXCEPT ![cur][v] = x] /\ UNCHANGED <<kstack, dir, stored, checking>>
  BY DEF LoadPage, Insert, processVars, swapVars
<1>6. P \in Labels /\ P \in Counted /\ Holding[P] = {} /\ T \in Labels /\ T \in Counted /\ P # T
      /\ (bare => Holding[T] = {})
  <2>1. P \in Labels /\ P \in Counted /\ Holding[P] = {}
    BY <1>1, <1>3, PageLabel
  <2>2. T \in Labels /\ T \in Counted /\ Holding[T] = {tab[cur][Table(v)]} \intersect Frames
    BY <1>1, TableLabel
  <2>3. P # T
    OBVIOUS
  <2> QED
    BY <2>1, <2>2, <2>3, NoneApart
<1>7. ref[Frame] = 0 /\ (bare => ref[t] = 0)
  BY <1>2, UnusedRef DEF Unused
<1>8. CASE ~bare
  <2>1. free' = free \ {Frame} /\ tab' = tab
    BY <1>8 DEF LoadPage
  <2>2. \A f \in Frames : ref'[f] = IF f \in {Frame} /\ P \in Counted THEN 1 ELSE ref[f]
    BY <1>6, <1>7, <1>8 DEF LoadPage
  <2> HIDE DEF x, v, t, bare
  <2>3. Holding' = [Holding EXCEPT ![P] = {Frame}]
    <3>1. UNCHANGED <<kstack, dir, tab>> /\ pte' = [pte EXCEPT ![cur][v] = x]
      BY <1>5, <2>1
    <3>2. Holding' = [Holding EXCEPT ![P] = IF x \in {None, Swapped} THEN {} ELSE {x.frame}]
      BY <1>1, <3>1, PageSet
    <3> QED
      BY <1>4, <3>2
  <2> HIDE DEF P
  <2> QED
    BY <1>2, <1>5, <1>6, <2>1, <2>2, <2>3, Taken
<1>9. CASE bare
  <2>1. free' = free \ {Frame, t} /\ tab' = [tab EXCEPT ![cur][Table(v)] = t]
    BY <1>9 DEF LoadPage
  <2>2. \A f \in Frames : ref'[f] = IF f = Frame \/ f = t THEN 1 ELSE ref[f]
    BY <1>2, <1>7, <1>9 DEF LoadPage
  <2> DEFINE h1 == [Holding EXCEPT ![T] = {t}]
             r1 == [f \in Frames |-> IF f = t THEN 1 ELSE ref[f]]
  <2>3. Holding' = [h1 EXCEPT ![P] = {Frame}]
    <3>1. {t} \intersect Frames = {t}
      BY <1>2, <1>9
    <3> HIDE DEF x, v, t, bare
    <3>2. UNCHANGED <<kstack, dir>> /\ pte' = [pte EXCEPT ![cur][v] = x]
      BY <1>5
    <3>3. \A s \in Spaces, k \in Tables : tab'[s][k] = IF s = cur /\ k = Table(v) THEN t ELSE tab[s][k]
      BY <1>1, <2>1 DEF TypeOK
    <3>4. \A s \in Spaces, n \in VPages : pte'[s][n] = IF s = cur /\ n = v THEN x ELSE pte[s][n]
      BY <1>1, <3>2 DEF TypeOK
    <3>5. \A u \in Labels :
              Holding'[u] = IF u = P THEN (IF x \in {None, Swapped} THEN {} ELSE {x.frame})
                            ELSE IF u = T THEN {t} \intersect Frames ELSE Holding[u]
      <4>1. BothSet(cur, Table(v), t, v, x)
        BY <3>2, <3>3, <3>4 DEF BothSet
      <4>2. BothHeld(cur, Table(v), t, v, x)
        BY <1>1, <4>1, LoadSet
      <4> QED
        BY <4>2 DEF BothHeld
    <3> HIDE DEF T, P
    <3>6. \A u \in Labels : Holding'[u] = IF u = P THEN {Frame} ELSE IF u = T THEN {t} ELSE Holding[u]
      BY <1>4, <3>1, <3>5
    <3> QED
      BY <1>6, <3>6 DEF Holding
  <2>4. Holding \in [Labels -> SUBSET Frames]
    BY HoldingType DEF FramesOK
  <2>5. Partition(Holding, Unused) /\ Counts(Holding, ref) /\ free \intersect (stored \union Lost) = {}
    BY DEF FramesOK, Accounted
  <2>6. Unused \in SUBSET Frames /\ {t} \in SUBSET Unused /\ t \in Unused /\ Frame \in Unused
    BY <1>2, <1>9, LostFrames DEF Unused, TypeOK
  <2> HIDE DEF x, v, bare, t, P, T
  <2>7. Partition(h1, Unused \ {t}) /\ h1 \in [Labels -> SUBSET Frames]
    BY <1>6, <1>9, <2>4, <2>5, <2>6, Take
  <2>8. \A f \in Frames : r1[f] = IF f \in {t} /\ T \in Counted THEN 1 ELSE ref[f]
    BY <1>6
  <2>9. Counts(h1, r1)
    <3> DEFINE F == {t}
    <3>1. F \in SUBSET Frames /\ F \subseteq Unused
      BY <2>6
    <3>2. h1 = [Holding EXCEPT ![T] = F] /\ \A f \in Frames : r1[f] = IF f \in F /\ T \in Counted THEN 1 ELSE ref[f]
      BY <2>8
    <3> HIDE DEF h1, r1, F
    <3> QED
      BY <1>6, <1>9, <2>4, <2>5, <2>8, <3>1, <3>2, CountTaken
  <2>10. h1[P] = {}
    BY <1>6
  <2>11. Unused \ {t} \in SUBSET Frames /\ {Frame} \in SUBSET (Unused \ {t})
    BY <1>2, <1>9, <2>6
  <2> HIDE DEF h1
  <2>12. Partition(Holding', (Unused \ {t}) \ {Frame})
    BY <1>6, <2>3, <2>7, <2>10, <2>11, Take
  <2>13. Counts(Holding', ref')
    <3>1. \A f \in Frames : ref'[f] = IF f \in {Frame} /\ P \in Counted THEN 1 ELSE r1[f]
      BY <1>2, <1>6, <2>2
    <3> DEFINE F == {Frame}
               A == Unused \ {t}
    <3>2. F \in SUBSET Frames /\ F \subseteq A /\ Partition(h1, A)
      BY <2>7, <2>11
    <3>3. Holding' = [h1 EXCEPT ![P] = F] /\ \A f \in Frames : ref'[f] = IF f \in F /\ P \in Counted THEN 1 ELSE r1[f]
      BY <2>3, <3>1
    <3> HIDE DEF r1, F, A
    <3> QED
      BY <1>6, <2>7, <2>9, <2>10, <3>2, <3>3, CountTaken
  <2>14. Lost' = Lost
    BY <1>5 DEF Lost
  <2>15. Unused' = (Unused \ {t}) \ {Frame}
    BY <1>2, <1>5, <1>9, <2>1, <2>5, <2>14 DEF Unused
  <2>16. free' \intersect (stored' \union Lost') = {}
    BY <1>5, <2>1, <2>5, <2>14
  <2> QED
    BY <2>12, <2>13, <2>15, <2>16 DEF Accounted, Partition, Counts
<1> QED
  BY <1>8, <1>9

-----------------------------------------------------------------------------
(* Pages have frames of their own, with contents.                          *)

\* Each mapped page has a frame of its own.
LEMMA PageFrame ==
    ASSUME TypeOK, FramesOK, NEW s \in Spaces, NEW v \in VPages, Present(s, v)
    PROVE  /\ pte[s][v] \in Entries /\ pte[s][v].frame \in Frames /\ pte[s][v].w \in BOOLEAN
           /\ pte[s][v].frame \notin free
           /\ content[pte[s][v].frame] \in Vals
           /\ \A u \in Labels : pte[s][v].frame \in Holding[u] => u = <<"page", s, v>>
<1>1. pte[s][v] \in Entries
  BY DEF TypeOK, Present
<1>2. pte[s][v].frame \in Holding[<<"page", s, v>>] /\ <<"page", s, v>> \in Labels
  BY PageLabel
<1>3. pte[s][v].frame \notin Unused /\ \A u \in Labels : pte[s][v].frame \in Holding[u] => u = <<"page", s, v>>
  BY <1>1, <1>2 DEF FramesOK, Accounted, Partition, Entries
<1> QED
  BY <1>1, <1>3 DEF Entries, Unused, FramesOK, Mapped

Filled == \A s \in Spaces : \A v \in Mapped(s) : content[pte[s][v].frame] \in Vals

LEMMA SameFrame ==
    ASSUME TypeOK, FramesOK, NEW s \in Spaces, NEW v \in VPages, Present(s, v),
           NEW r \in Spaces, NEW n \in VPages, Present(r, n), pte[s][v].frame = pte[r][n].frame
    PROVE  s = r /\ v = n
<1>1. pte[r][n].frame \in Holding[<<"page", r, n>>] /\ <<"page", r, n>> \in Labels
  BY PageLabel
<1>2. <<"page", r, n>> = <<"page", s, v>>
  BY <1>1, PageFrame
<1> QED
  BY <1>2

\* Each mapped page has contents.
LEMMA InsertFilled ==
    ASSUME TypeOK, FramesOK, NEW s \in Spaces, NEW v \in VPages, free # {}, NEW w \in BOOLEAN,
           Insert(s, v, Frame, w), NEW x \in Vals, content' = [content EXCEPT ![Frame] = x]
    PROVE  Filled'
<1>1. Frame \in free /\ Frame \in Frames
  BY FrameFree
<1>2. SUFFICES ASSUME NEW r \in Spaces, NEW n \in Mapped(r)' PROVE content'[pte'[r][n].frame] \in Vals
  BY DEF Filled
<1>3. n \in VPages /\ pte'[r][n] \notin {None, Swapped}
  BY DEF Mapped, Present
<1>4. CASE r = s /\ n = v
  <2>1. pte'[r][n].frame = Frame
    BY <1>3, <1>4 DEF Insert, TypeOK
  <2> QED
    BY <1>1, <2>1 DEF TypeOK
<1>5. CASE ~(r = s /\ n = v)
  <2>1. pte'[r][n] = pte[r][n] /\ Present(r, n)
    BY <1>3, <1>5 DEF Insert, TypeOK, Present
  <2>2. pte[r][n].frame # Frame /\ pte[r][n].frame \in Frames /\ content[pte[r][n].frame] \in Vals
    BY <1>1, <1>3, <2>1, PageFrame
  <2> QED
    BY <2>1, <2>2 DEF TypeOK
<1> QED
  BY <1>4, <1>5

LEMMA SameFilled ==
    ASSUME FramesOK, UNCHANGED <<pte, content>>
    PROVE  Filled'
  BY DEF FramesOK, Filled, Mapped, Present

LEMMA ReleasedFilled ==
    ASSUME TypeOK, FramesOK, NEW s \in Spaces, dir[s] # Boot, Release(s)
    PROVE  Filled'
<1>1. SUFFICES ASSUME NEW r \in Spaces, NEW n \in Mapped(r)' PROVE content'[pte'[r][n].frame] \in Vals
  BY DEF Filled
<1>2. n \in VPages /\ pte'[r][n] \notin {None, Swapped}
  BY DEF Mapped, Present
<1>3. r # s /\ pte'[r][n] = pte[r][n] /\ Present(r, n)
  BY <1>2 DEF Release, TypeOK, Present
<1>4. pte[r][n].frame \notin Freed(s)
  <2>1. \A u \in SpaceLabels(s) : u # <<"page", r, n>>
    BY <1>3 DEF SpaceLabels
  <2>2. \A u \in SpaceLabels(s) : pte[r][n].frame \notin Holding[u]
    BY <1>2, <1>3, <2>1, PageFrame, FreedHeld
  <2> QED
    BY <2>2, FreedHeld
<1>5. pte[r][n].frame \in Frames /\ content[pte[r][n].frame] \in Vals
  BY <1>2, <1>3, PageFrame
<1> QED
  BY <1>3, <1>4, <1>5 DEF Release

LEMMA EvictFilled ==
    ASSUME TypeOK, FramesOK, FifoExact, Evict
    PROVE  Filled'
<1> DEFINE f == Head(fifo).frame
           v == Head(fifo).page
<1>1. Head(fifo) \in ToSet(fifo)
  BY DEF Evict, TypeOK, ToSet
<1>2. v \in VPages /\ Present(Idle, v) /\ f = pte[Idle][v].frame
  BY <1>1 DEF Evict, FifoExact, Mapped
<1>3. SUFFICES ASSUME NEW r \in Spaces, NEW n \in Mapped(r)' PROVE content'[pte'[r][n].frame] \in Vals
  BY DEF Filled
<1>4. n \in VPages /\ pte'[r][n] \notin {None, Swapped}
  BY DEF Mapped, Present
<1>5. ~(r = Idle /\ n = v) /\ pte'[r][n] = pte[r][n]
  BY <1>4 DEF Evict, TypeOK
<1>6. Present(r, n)
  BY <1>4, <1>5 DEF Present
<1>7. pte[r][n].frame # f
  BY <1>2, <1>4, <1>5, <1>6, SameFrame, SpaceFacts
<1>8. pte[r][n].frame \in Frames /\ content[pte[r][n].frame] \in Vals
  BY <1>4, <1>6, PageFrame
<1>9. content' = [content EXCEPT ![f] = None]
  BY DEF Evict
<1> HIDE DEF f
<1> QED
  BY <1>5, <1>7, <1>8, <1>9 DEF TypeOK

StacksOK == \A p \in Procs : kstack[p] # None => StackFrames(p) \subseteq Frames

\* The parts of FramesOK.
LEMMA FramesParts == (FramesOK <=> Accounted /\ StacksOK /\ Filled) /\ (FramesOK' <=> Accounted' /\ StacksOK' /\ Filled')
  BY DEF FramesOK, StacksOK, Filled

\* The kernel stacks that were taken are frames.
LEMMA StacksKept == ASSUME FramesOK, UNCHANGED kstack PROVE StacksOK'
  BY DEF FramesOK, StacksOK, StackFrames

LEMMA TakeStackFrames ==
    ASSUME TypeOK, FramesOK, NEW q \in Procs, TakeStack(q), StackFrames(q)' \subseteq Frames
    PROVE  StacksOK'
<1>1. \A p \in Procs : p # q => kstack'[p] = kstack[p]
  BY DEF TakeStack, TypeOK
<1> QED
  BY <1>1 DEF StacksOK, FramesOK, StackFrames

\* Every step keeps the account of the frames.
LEMMA FramesNext ==
    ASSUME IndInv, Next
    PROVE  FramesOK'
<1> SUFFICES ASSUME TypeOK, FramesOK, PhaseOK, BareOK, CopyOK, LoadOK, FifoExact, StepForms, Running => ProcsOK
             PROVE  Accounted' /\ StacksOK' /\ Filled'
  BY FramesParts, StepFacts DEF IndInv
<1> USE SpaceFacts
<1>1. ASSUME UNCHANGED <<free, stored, ref, kstack, dir, tab, pte, checking, content>>
      PROVE  Accounted' /\ StacksOK' /\ Filled'
  BY <1>1, Untouched, StacksKept, SameFilled
<1>2. CASE Access
  <2>1. ASSUME NEW v \in VPages, NEW x \in Vals, Write(v, x) PROVE Accounted' /\ StacksOK' /\ Filled'
    <3>1. Accounted' /\ StacksOK'
      BY <2>1, Untouched, StacksKept DEF Write, spaceVars, processVars, swapVars
    <3>2. PICK f : content' = [content EXCEPT ![f] = x]
      BY <2>1 DEF Write
    <3>3. Filled'
      <4> SUFFICES ASSUME NEW s \in Spaces, NEW n \in Mapped(s) PROVE content'[pte[s][n].frame] \in Vals
        BY <2>1 DEF Filled, Mapped, Present, Write, spaceVars
      <4>1. n \in VPages /\ Present(s, n)
        BY DEF Mapped
      <4>2. content[pte[s][n].frame] \in Vals /\ pte[s][n].frame \in Frames
        BY <4>1, PageFrame
      <4> QED
        BY <3>2, <4>2 DEF TypeOK
    <3> QED
      BY <3>1, <3>3
  <2> QED
    BY <1>1, <1>2, <2>1 DEF Access, Read, Fault, FaultRefused, frameVars, spaceVars, processVars, swapVars
<1>3. CASE FaultPage
  <2>1. Active \in Spaces /\ step.page \in VPages /\ step.w \in BOOLEAN /\ free # {}
        /\ ~Present(Active, step.page)
    BY <1>3 DEF FaultPage, StepForms, Active, TypeOK, Present
  <2>2. PICK x \in Vals : content' = [content EXCEPT ![Frame] = x]
    BY <1>3 DEF FaultPage
  <2>3. Insert(Active, step.page, Frame, step.w) /\ ref' = [ref EXCEPT ![Frame] = @ + 1]
        /\ free' = free \ {Frame} /\ UNCHANGED <<stored, checking, kstack, dir, tab>>
    BY <1>3 DEF FaultPage, processVars
  <2> QED
    BY <2>1, <2>2, <2>3, FaultPageAccounts, InsertFilled, StacksKept
<1>4. CASE FaultSwapIn
  <2>1. Active \in Spaces /\ step.page \in VPages /\ step.w \in BOOLEAN /\ free # {}
        /\ ~Present(Active, step.page) /\ pte[Active][step.page] = Swapped
    BY <1>4 DEF FaultSwapIn, StepForms, Active, TypeOK, Present
  <2>2. checking /\ Active = Idle
    BY <2>1 DEF PhaseOK, Active
  <2>3. disk[step.page] \in Vals
    BY <2>1, <2>2, NoneApart DEF FifoExact, TypeOK
  <2>4. Insert(Active, step.page, Frame, step.w) /\ ref' = [ref EXCEPT ![Frame] = @ + 1]
        /\ content' = [content EXCEPT ![Frame] = disk[step.page]]
        /\ free' = free \ {Frame} /\ UNCHANGED <<stored, checking, kstack, dir, tab>>
    BY <1>4 DEF FaultSwapIn, processVars
  <2> QED
    BY <2>1, <2>3, <2>4, FaultPageAccounts, InsertFilled, StacksKept
<1>5. CASE Evict
  BY <1>5, EvictAccounts, EvictFilled, StacksKept DEF Evict, processVars
<1>6. CASE EndCheck
  <2>1. Running /\ UNCHANGED kstack
    BY <1>6 DEF EndCheck, Running, User, processVars
  <2>2. \A s \in Spaces, v \in VPages : pte'[s][v] = None
    <3>1. \A p \in Procs : dir[p] = None
      BY <1>6, <2>1 DEF EndCheck, PhaseOK, ProcsOK, User
    <3> QED
      BY <1>6, <3>1 DEF EndCheck, BareOK, TypeOK
  <2>3. Filled'
    BY <2>2 DEF Filled, Mapped, Present
  <2> QED
    BY <1>6, <2>1, <2>3, EndCheckAccounts, StacksKept
<1>7. ASSUME NEW q \in Procs, TakeStack(q), UNCHANGED <<stored, ref, content, spaceVars, swapVars>>
      PROVE  Accounted' /\ StacksOK' /\ Filled'
  <2>1. Running
    BY <1>7 DEF TakeStack, Running, User
  <2>2. UNCHANGED <<stored, ref, checking, dir, tab, pte, content>>
    BY <1>7 DEF spaceVars, swapVars
  <2> QED
    BY <1>7, <2>1, <2>2, TakeStackAccounts, TakeStackFrames, SameFilled
<1>8. ASSUME NEW q \in Procs, Spawn(q) \/ Fork(q) PROVE Accounted' /\ StacksOK' /\ Filled'
  BY <1>7, <1>8 DEF Spawn, Fork
<1>9. ASSUME NEW q \in Procs, Reap(q) PROVE Accounted' /\ StacksOK' /\ Filled'
  <2>1. Running
    BY <1>9 DEF Reap, Running, User
  <2>2. kstack' = [kstack EXCEPT ![q] = None] /\ UNCHANGED <<pte, content>>
    BY <1>9 DEF Reap, spaceVars
  <2>3. StacksOK'
    BY <2>2 DEF StacksOK, FramesOK, StackFrames, TypeOK
  <2> QED
    BY <1>9, <2>1, <2>2, <2>3, ReapAccounts, SameFilled
<1>10. CASE CopyDir
  BY <1>10, NewDirAccounts, StacksKept, SameFilled DEF CopyDir, NewDir, StepForms, processVars
<1>11. CASE CopyTable
  <2>1. PICK v \in NextToCopy : AddTable(step.to, v)
    BY <1>11 DEF CopyTable
  <2>2. step.to \in Spaces /\ v \in VPages
    BY <1>11, <2>1 DEF CopyTable, StepForms, NextToCopy
  <2> QED
    BY <2>1, <2>2, AddTableAccounts, StacksKept, SameFilled DEF AddTable, processVars
<1>12. CASE CopyPage
  <2>1. PICK v \in NextToCopy : /\ content' = [content EXCEPT ![Frame] = content[pte[cur][v].frame]]
                                /\ Insert(step.to, v, Frame, pte[cur][v].w)
    BY <1>12 DEF CopyPage
  <2>2. step.to \in Spaces /\ v \in VPages /\ Present(cur, v) /\ cur \in Spaces /\ ~Present(step.to, v)
    BY <1>12, <2>1 DEF CopyPage, StepForms, NextToCopy, CopyOK, Mapped, TypeOK
  <2>3. content[pte[cur][v].frame] \in Vals /\ pte[cur][v].w \in BOOLEAN
    BY <2>2, PageFrame
  <2>4. free # {} /\ ref' = [ref EXCEPT ![Frame] = @ + 1]
        /\ free' = free \ {Frame} /\ UNCHANGED <<stored, checking, kstack, dir, tab>>
    BY <1>12 DEF CopyPage, processVars, swapVars
  <2>5. Filled'
    BY <2>1, <2>2, <2>3, <2>4, InsertFilled
  <2> QED
    BY <2>1, <2>2, <2>3, <2>4, <2>5, FaultPageAccounts, StacksKept
<1>13. CASE CopyEnd
  BY <1>1, <1>13 DEF CopyEnd, frameVars, swapVars
<1>14. ASSUME Release(cur), UNCHANGED <<stored, checking, kstack>>, ~checking
       PROVE  Accounted' /\ StacksOK' /\ Filled'
  <2>1. cur \in Spaces /\ dir[cur] # Boot
    BY <1>14 DEF TypeOK, PhaseOK
  <2> QED
    BY <1>14, <2>1, Released, ReleasedFilled, StacksKept
<1>15. ASSUME NEW image \in Images, Exec(image) PROVE Accounted' /\ StacksOK' /\ Filled'
  BY <1>14, <1>15 DEF Exec, processVars, swapVars
<1>16. CASE LoadRefused
  BY <1>14, <1>16 DEF LoadRefused, Loading, LoadOK, swapVars
<1>17. CASE Exit
  BY <1>14, <1>17 DEF Exit, swapVars
<1>18. CASE LoadDir
  BY <1>18, NewDirAccounts, StacksKept, SameFilled DEF LoadDir, NewDir, TypeOK, processVars
<1>19. CASE LoadPage
  <2> DEFINE v == Head(step.pages)
  <2>1. step.w \in BOOLEAN /\ v \in VPages /\ cur \in Spaces /\ step.pages # <<>>
    BY <1>19 DEF LoadPage, Loading, StepForms, TypeOK
  <2>2. free # {}
    BY <1>19, LoadFrames
  <2>3. PICK x \in IF step.fill = None THEN Vals ELSE {step.fill} : content' = [content EXCEPT ![Frame] = x]
    BY <1>19 DEF LoadPage
  <2>4. x \in Vals
    BY <1>19, <2>1, <2>3 DEF LoadPage, Loading, StepForms
  <2>5. Insert(cur, v, Frame, step.w) /\ UNCHANGED kstack
    BY <1>19 DEF LoadPage, processVars
  <2> QED
    BY <1>19, <2>1, <2>2, <2>3, <2>4, <2>5, LoadPageAccounts, InsertFilled, StacksKept
<1> QED
  BY <1>1, <1>2, <1>3, <1>4, <1>5, <1>6, <1>8, <1>9, <1>10, <1>11, <1>12, <1>13, <1>15, <1>16, <1>17, <1>18, <1>19
  DEF Next, LoadArea, LoadOverlap, LoadEnd, Switch, OutOfMemory, frameVars, spaceVars, processVars, swapVars

-----------------------------------------------------------------------------
(* Areas and the phases of the system.                                     *)

\* An address is in one area.
LEMMA OneArea ==
    ASSUME TypeOK, AreasOK, NEW s \in Spaces, NEW v \in VPages,
           NEW a \in Covering(s, v), NEW b \in Covering(s, v)
    PROVE  a = b
<1>1. a \in areas[s] /\ b \in areas[s] /\ a.from <= v /\ v < a.to /\ b.from <= v /\ v < b.to
  BY DEF Covering
<1>2. VPages \subseteq Nat /\ 0..NPages \subseteq Nat
  BY MemoryConstants DEF VPages
<1>3. a.from \in Nat /\ a.to \in Nat /\ b.from \in Nat /\ b.to \in Nat /\ v \in Nat
  <2>1. a \in Areas /\ b \in Areas
    BY <1>1 DEF TypeOK
  <2> QED
    BY <1>2, <2>1 DEF Areas
<1>4. ~(a.to <= b.from) /\ ~(b.to <= a.from)
  BY <1>1, <1>3
<1> QED
  BY <1>1, <1>4 DEF AreasOK

\* A fault that its area allows is on a page that is not present.
LEMMA FaultsOnAbsent ==
    ASSUME TypeOK, AreasOK, TlbOK, CopyOK, NEW v \in VPages, NEW write \in BOOLEAN, Fault(v, write)
    PROVE  /\ ~Present(Active, v)
           /\ \E a \in Covering(Active, v) : step' = [op |-> "fault", page |-> v, w |-> a.w]
<1>1. step = User /\ areas[Active] # {} /\ Faults(v, write) /\ step.op = "user" /\ Active \in Spaces
  BY DEF Fault, User, Active, TypeOK, Spaces
<1>2. PICK a \in Covering(Active, v) :
          /\ write => a.w
          /\ step' = IF Present(Active, v) THEN Panic("error write a non-writable pte")
                     ELSE [op |-> "fault", page |-> v, w |-> a.w]
  BY DEF Fault
<1>3. ASSUME Present(Active, v) PROVE FALSE
  <2>1. PICK b \in Covering(Active, v) : pte[Active][v].w = b.w
    BY <1>1, <1>3 DEF AreasOK, Mapped
  <2>2. a = b
    BY <1>1, OneArea
  <2>3. \A e \in Translation(v) : e.w = pte[Active][v].w
    BY <1>1, <1>3 DEF Translation, Cached, TlbOK, Entry
  <2>4. Translation(v) # {}
    BY <1>3 DEF Translation
  <2>5. PICK e \in Translation(v) : write /\ ~e.w
    BY <1>1, <2>4 DEF Faults
  <2> QED
    BY <1>2, <2>1, <2>2, <2>3, <2>5
<1> QED
  BY <1>2, <1>3

\* Every step keeps what is true of check_swap and of the time after it.
LEMMA PhaseNext ==
    ASSUME IndInv, Next
    PROVE  PhaseOK'
<1> SUFFICES ASSUME TypeOK, PhaseOK, StepForms, CopyOK, LoadOK, TlbOK, BareOK,
                    Running => AreasOK, Running => ProcsOK
             PROVE  PhaseOK'
  BY StepFacts DEF IndInv
<1> USE SpaceFacts
<1>1. ASSUME UNCHANGED <<checking, cur, stored, dir, areas, tab, state, pte>>,
             ~checking \/ step'.op \in {"user", "fault"}
      PROVE  PhaseOK'
  BY <1>1 DEF PhaseOK
<1>2. CASE Access
  <2>1. ASSUME NEW v \in VPages, NEW write \in BOOLEAN, Fault(v, write) PROVE PhaseOK'
    <3>1. step'.op = "fault"
      <4>1. AreasOK
        BY <2>1 DEF Fault, Running, User
      <4> QED
        BY <2>1, <4>1, FaultsOnAbsent
    <3> QED
      BY <1>1, <2>1, <3>1 DEF Fault, frameVars, spaceVars, processVars, swapVars
  <2>2. ASSUME NEW v \in VPages, Read(v) \/ \E x \in Vals : Write(v, x) PROVE PhaseOK'
    BY <1>1, <2>2 DEF Read, Write, User, frameVars, spaceVars, processVars, swapVars
  <2>3. ASSUME NEW v \in VPages, NEW write \in BOOLEAN, FaultRefused(v, write) PROVE PhaseOK'
    BY <1>1, <2>3 DEF FaultRefused, frameVars, spaceVars, processVars, swapVars
  <2> QED
    BY <1>2, <2>1, <2>2, <2>3 DEF Access
<1>3. ASSUME NEW s \in Spaces, NEW v \in VPages, NEW f \in Frames, NEW w \in BOOLEAN, Insert(s, v, f, w),
             UNCHANGED <<checking, cur, stored, dir, areas, state>>,
             \A r \in Spaces, t \in Tables : tab[r][t] # None => tab'[r][t] # None,
             ~checking \/ step' = User
      PROVE  PhaseOK'
  <2>1. [frame |-> f, w |-> w] # Swapped
    BY NoneApart DEF Entries
  <2>2. ~checking => \A r \in Spaces, n \in VPages : pte'[r][n] # Swapped
    BY <1>3, <2>1 DEF PhaseOK, Insert, TypeOK
  <2>3. ~checking => PhaseOK'
    BY <1>3, <2>2 DEF PhaseOK
  <2>4. checking => PhaseOK'
    BY <1>3, TableZero DEF PhaseOK, User
  <2> QED
    BY <2>3, <2>4
<1>4. CASE FaultPage
  <2>1. Active \in Spaces /\ step.page \in VPages /\ step.w \in BOOLEAN /\ Frame \in Frames
    BY <1>4, FrameFree DEF FaultPage, StepForms, Active, TypeOK
  <2> QED
    BY <1>3, <1>4, <2>1 DEF FaultPage, processVars
<1>5. CASE FaultSwapIn
  <2>1. Active \in Spaces /\ step.page \in VPages /\ step.w \in BOOLEAN /\ Frame \in Frames
    BY <1>5, FrameFree DEF FaultSwapIn, StepForms, Active, TypeOK
  <2> QED
    BY <1>3, <1>5, <2>1 DEF FaultSwapIn, processVars
<1>6. CASE Evict
  BY <1>6 DEF Evict, PhaseOK, processVars
<1>7. CASE EndCheck
  <2>1. Running /\ \A p \in Procs : dir[p] # Boot /\ state[p] = "unused" /\ dir[p] = None
    BY <1>7 DEF EndCheck, Running, User, ProcsOK, PhaseOK
  <2>2. \A p \in Procs : \A v \in VPages : pte[p][v] # Swapped
    BY <2>1, NoneApart DEF BareOK
  <2>3. dir'[Idle] = None /\ (\A s \in Spaces : dir'[s] # Boot) /\ \A s \in Spaces, v \in VPages : pte'[s][v] # Swapped
    BY <1>7, <2>1, <2>2, NoneApart DEF EndCheck, TypeOK
  <2> QED
    BY <1>7, <2>3 DEF EndCheck, PhaseOK
<1>8. ASSUME NEW q \in Procs, Spawn(q) \/ Fork(q) \/ Reap(q) PROVE PhaseOK'
  BY <1>8 DEF Spawn, Fork, Reap, TakeStack, PhaseOK, spaceVars, swapVars
<1>9. ASSUME ~checking, NEW s \in Procs, NewDir(s) PROVE PhaseOK'
  <2>1. Frame \in Frames
    BY <1>9, FrameFree DEF NewDir
  <2> QED
    BY <1>9, <2>1, NoneApart DEF NewDir, PhaseOK, TypeOK
<1>10. CASE CopyDir
  BY <1>9, <1>10 DEF CopyDir, CopyOK, StepForms
<1>11. CASE LoadDir
  BY <1>9, <1>11 DEF LoadDir, LoadOK, TypeOK
<1>12. CASE CopyTable
  BY <1>12 DEF CopyTable, AddTable, CopyOK, PhaseOK, swapVars
<1>13. CASE CopyPage
  <2>1. PICK v \in NextToCopy : Insert(step.to, v, Frame, pte[cur][v].w)
    BY <1>13 DEF CopyPage
  <2>2. step.to \in Spaces /\ v \in VPages /\ ~checking /\ Frame \in Frames /\ Present(cur, v) /\ cur \in Spaces
    BY <1>13, <2>1, FrameFree DEF CopyPage, StepForms, NextToCopy, CopyOK, Mapped, TypeOK
  <2>3. pte[cur][v].w \in BOOLEAN
    BY <2>2 DEF TypeOK, Present, Entries
  <2> QED
    BY <1>3, <1>13, <2>1, <2>2, <2>3 DEF CopyPage, processVars, swapVars
<1>14. CASE CopyEnd
  BY <1>14 DEF CopyEnd, CopyOK, PhaseOK, frameVars, swapVars
<1>15. ASSUME ~checking, Release(cur), UNCHANGED <<stored, checking>> PROVE PhaseOK'
  <2>1. \A s \in Spaces, v \in VPages : pte'[s][v] # Swapped
    BY <1>15, NoneApart DEF Release, PhaseOK, TypeOK
  <2>2. dir'[Idle] = None /\ \A s \in Spaces : dir'[s] # Boot
    BY <1>15, NoneApart DEF Release, PhaseOK, TypeOK
  <2> QED
    BY <1>15, <2>1, <2>2 DEF PhaseOK
<1>16. ASSUME NEW image \in Images, Exec(image) PROVE PhaseOK'
  BY <1>15, <1>16 DEF Exec, swapVars
<1>17. CASE LoadRefused
  BY <1>15, <1>17 DEF LoadRefused, Loading, LoadOK, swapVars
<1>18. CASE Exit
  BY <1>15, <1>18 DEF Exit, swapVars
<1>19. CASE LoadArea
  BY <1>19 DEF LoadArea, Loading, LoadOK, PhaseOK, frameVars, swapVars
<1>20. CASE LoadPage
  <2>1. Insert(cur, Head(step.pages), Frame, step.w) /\ UNCHANGED <<checking, cur, stored, dir, areas, state>>
    BY <1>20 DEF LoadPage, processVars, swapVars
  <2>2. Head(step.pages) \in VPages /\ step.w \in BOOLEAN /\ cur \in Spaces /\ ~checking
    BY <1>20 DEF LoadPage, Loading, LoadOK, StepForms, TypeOK
  <2>3. Frame \in Frames /\ \A r \in Spaces, t \in Tables : tab[r][t] # None => tab'[r][t] # None
    <3>1. Frame \in free /\ (tab[cur][Table(Head(step.pages))] = None => Min(free \ {Frame}) \in free)
      BY <1>20, LoadFrames
    <3>2. Frame \in Frames /\ (tab[cur][Table(Head(step.pages))] = None => Min(free \ {Frame}) # None)
      BY <3>1, NoneApart DEF TypeOK
    <3> QED
      BY <1>20, <3>2 DEF LoadPage, TypeOK
  <2> QED
    BY <1>3, <2>1, <2>2, <2>3
<1>21. CASE LoadOverlap \/ LoadEnd \/ OutOfMemory
  BY <1>1, <1>21 DEF LoadOverlap, LoadEnd, Loading, LoadOK, OutOfMemory, frameVars, spaceVars, processVars, swapVars
<1>22. ASSUME NEW p \in Spaces, Switch(p) PROVE PhaseOK'
  BY <1>22 DEF Switch, PhaseOK, frameVars, spaceVars, swapVars
<1> QED
  BY <1>2, <1>4, <1>5, <1>6, <1>7, <1>8, <1>10, <1>11, <1>12, <1>13, <1>14, <1>16, <1>17, <1>18, <1>19, <1>20, <1>21, <1>22
  DEF Next

\* After a panic nothing happens.
LEMMA NextRunning == ASSUME TypeOK, Next PROVE Running
<1> SUFFICES ASSUME step.op = "panic" PROVE FALSE
  BY DEF Running
<1>1. step # User /\ step # Schedule
  BY DEF User, Schedule
<1>2. ~OutOfMemory
  <2>1. IsFiniteSet(Frames)
    BY MemoryConstants, FS_Interval DEF Frames
  <2>2. Cardinality(free) \in Nat
    BY <2>1, FS_Subset, FS_CardinalityType DEF TypeOK
  <2>3. FramesWanted = 0
    BY DEF FramesWanted
  <2>4. OutOfMemory => Cardinality(free) < FramesWanted
    BY Zenon DEF OutOfMemory
  <2> QED
    BY <2>2, <2>3, <2>4
<1> QED
  BY <1>1, <1>2 DEF Next, Access, Read, Write, Fault, FaultRefused, FaultPage, FaultSwapIn, Evict, EndCheck,
     Spawn, Fork, Reap, TakeStack, CopyDir, CopyTable, CopyPage, CopyEnd, Exec, LoadDir, LoadArea, LoadRefused,
     LoadOverlap, LoadPage, LoadEnd, Loading, Exit, Switch

\* A page that faults has its page table.
LEMMA FaultTable ==
    ASSUME TypeOK, PhaseOK, BareOK, AreasOK, FaultOK, StepForms, step.op = "fault"
    PROVE  tab[Active][Table(step.page)] # None /\ dir[Active] # None /\ Active \in Spaces
<1>1. PICK a \in Covering(Active, step.page) : TRUE
  BY DEF FaultOK
<1>2. a \in areas[Active] /\ a.from <= step.page /\ step.page < a.to /\ Active \in Spaces
  BY <1>1 DEF Covering, Active, TypeOK, Spaces
<1>3. dir[Active] # None
  BY <1>2 DEF BareOK
<1>4. CASE checking
  <2>1. a = CheckArea /\ step.page \in VPages /\ Active = Idle
    BY <1>2, <1>4 DEF PhaseOK, Active, StepForms
  <2> QED
    BY <1>2, <1>3, <1>4, <2>1, TableZero DEF PhaseOK, CheckArea
<1>5. CASE ~checking
  <2>1. Active = cur /\ Active \in Procs
    BY <1>2, <1>3, <1>5, SpaceFacts DEF Active, PhaseOK
  <2>2. step.page \in a.from..(a.to - 1)
    <3>1. a \in Areas /\ step.page \in VPages
      BY <1>2 DEF TypeOK, StepForms
    <3> QED
      BY <1>2, <3>1, MemoryConstants DEF Areas, VPages
  <2>3. PICK u \in VPages : Table(u) = Table(step.page) /\ Present(Active, u)
    BY <1>2, <2>1, <2>2 DEF AreasOK
  <2> QED
    BY <1>2, <1>3, <2>3 DEF BareOK, Present
<1> QED
  BY <1>4, <1>5

\* Every step keeps what is true of processes.
LEMMA ProcsNext ==
    ASSUME IndInv, Next, Running'
    PROVE  ProcsOK'
<1> SUFFICES ASSUME TypeOK, PhaseOK, StepForms, CopyOK, LoadOK, ProcsOK, FramesOK
             PROVE  ProcsOK'
  BY StepFacts, NextRunning DEF IndInv
<1> USE SpaceFacts
<1>1. ASSUME UNCHANGED <<state, kstack, dir, cur>>, step.op # "copy", step'.op # "copy",
             step.op \in {"user", "fault", "load"} \/ step'.op \notin {"user", "fault", "load"}
      PROVE  ProcsOK'
  BY <1>1 DEF ProcsOK
<1>2. CASE Access
  <2>1. ASSUME NEW v \in VPages, NEW write \in BOOLEAN, Fault(v, write) PROVE ProcsOK'
    <3>1. step'.op = "panic" \/ step'.op = "fault"
      <4>1. PICK a \in Covering(Active, v) :
              step' = IF Present(Active, v) THEN Panic("error write a non-writable pte")
                      ELSE [op |-> "fault", page |-> v, w |-> a.w]
        BY <2>1 DEF Fault
      <4>2. step' = [op |-> "fault", page |-> v, w |-> a.w] \/ \E why : step' = Panic(why)
        BY <4>1, Zenon
      <4> QED
        BY <4>2, PanicStep
    <3> QED
      BY <1>1, <2>1, <3>1 DEF Fault, User, frameVars, spaceVars, processVars, swapVars
  <2>2. ASSUME NEW v \in VPages, Read(v) \/ \E x \in Vals : Write(v, x) PROVE ProcsOK'
    BY <1>1, <2>2 DEF Read, Write, User, frameVars, spaceVars, processVars, swapVars
  <2>3. ASSUME NEW v \in VPages, NEW write \in BOOLEAN, FaultRefused(v, write) PROVE ProcsOK'
    <3>1. step'.op = "panic" /\ step.op = "user"
      BY <2>3, PanicStep DEF FaultRefused, User
    <3> QED
      BY <1>1, <2>3, <3>1 DEF FaultRefused, frameVars, spaceVars, processVars, swapVars
  <2> QED
    BY <1>2, <2>1, <2>2, <2>3 DEF Access
<1>3. CASE FaultPage \/ FaultSwapIn \/ Evict
  BY <1>1, <1>3 DEF FaultPage, FaultSwapIn, Evict, User, processVars
<1>4. CASE EndCheck
  BY <1>4, NoneApart DEF EndCheck, ProcsOK, TypeOK, User, processVars
<1>5. ASSUME NEW q \in Procs, TakeStack(q), UNCHANGED <<dir, cur>> PROVE kstack'[q] # None /\ \A p \in Procs : p # q => kstack'[p] = kstack[p]
  <2>1. Min(Runs(KSTACKPAGE)) \in free
    BY <1>5, RunsFrames DEF TakeStack, Runs
  <2>2. Min(Runs(KSTACKPAGE)) # None
    BY <2>1, NoneApart DEF TypeOK
  <2> QED
    BY <1>5, <2>2 DEF TakeStack, TypeOK
<1>6. ASSUME NEW q \in Procs, Spawn(q) PROVE ProcsOK'
  <2>1. kstack'[q] # None /\ \A p \in Procs : p # q => kstack'[p] = kstack[p]
    BY <1>5, <1>6 DEF Spawn, spaceVars
  <2> QED
    BY <1>6, <2>1 DEF Spawn, TakeStack, ProcsOK, TypeOK, User, spaceVars
<1>7. ASSUME NEW q \in Procs, Fork(q) PROVE ProcsOK'
  <2>1. kstack'[q] # None /\ \A p \in Procs : p # q => kstack'[p] = kstack[p]
    BY <1>5, <1>7 DEF Fork, spaceVars
  <2> QED
    BY <1>7, <2>1 DEF Fork, TakeStack, ProcsOK, TypeOK, User, spaceVars
<1>8. ASSUME NEW q \in Procs, Reap(q) PROVE ProcsOK'
  BY <1>8 DEF Reap, ProcsOK, TypeOK, User, spaceVars
<1>9. CASE CopyDir
  <2>1. Frame # None /\ Frame # Boot /\ step.to \in Procs
    BY <1>9, FrameFree, NoneApart DEF CopyDir, NewDir, StepForms
  <2> QED
    BY <1>9, <2>1 DEF CopyDir, NewDir, CopyOK, ProcsOK, TypeOK, processVars
<1>10. CASE LoadDir
  <2>1. Frame # None /\ Frame # Boot /\ cur \in Procs
    BY <1>10, FrameFree, NoneApart DEF LoadDir, NewDir, LoadOK, TypeOK
  <2> QED
    BY <1>10, <2>1 DEF LoadDir, NewDir, ProcsOK, TypeOK, processVars
<1>11. CASE CopyTable
  BY <1>11 DEF CopyTable, AddTable, ProcsOK, processVars
<1>12. CASE CopyPage
  <2>1. step'.op = "copy" /\ step'.to = step.to
    <3>1. step \in [op : {"copy"}, to : Procs, todo : SUBSET VPages]
      BY <1>12, PanicStep DEF CopyPage, TypeOK, StepOK, User, Schedule
    <3> QED
      BY <1>12, <3>1 DEF CopyPage
  <2> QED
    BY <1>12, <2>1 DEF CopyPage, ProcsOK, processVars
<1>13. CASE CopyEnd
  BY <1>13 DEF CopyEnd, CopyOK, ProcsOK, StepForms, TypeOK, User
<1>14. ASSUME NEW image \in Images, Exec(image) PROVE ProcsOK'
  BY <1>14 DEF Exec, Release, ProcsOK, TypeOK, User, processVars, PhaseOK
<1>15. ASSUME state' = [state EXCEPT ![cur] = "zombie"], Release(cur), step' = Schedule, UNCHANGED <<kstack, cur>>,
              step.op \in {"user", "load"}, cur \in Procs
       PROVE  ProcsOK'
  BY <1>15, NoneApart DEF Release, ProcsOK, TypeOK, Schedule
<1>16. CASE LoadRefused
  BY <1>15, <1>16 DEF LoadRefused, Loading, LoadOK, TypeOK
<1>17. CASE Exit
  BY <1>15, <1>17 DEF Exit, TypeOK, User
<1>18. CASE LoadArea
  BY <1>1, <1>18 DEF LoadArea, Loading, processVars
<1>19. CASE LoadPage
  <2>1. step'.op = "load" /\ step.op = "load"
    <3>1. step \in [op : {"load"}, segments : Seq(Segments), pages : Seq(VPages),
                    w : BOOLEAN, fill : Vals \union {None}]
      BY <1>19, PanicStep DEF LoadPage, Loading, TypeOK, StepOK, User, Schedule
    <3> QED
      BY <1>19, <3>1 DEF LoadPage
  <2> QED
    BY <1>1, <1>19, <2>1 DEF LoadPage, processVars
<1>20. CASE LoadOverlap \/ OutOfMemory
  BY <1>20, PanicStep DEF LoadOverlap, OutOfMemory, Running
<1>21. CASE LoadEnd
  BY <1>1, <1>21 DEF LoadEnd, Loading, User, spaceVars, processVars
<1>22. ASSUME NEW p \in Spaces, Switch(p) PROVE ProcsOK'
  BY <1>22 DEF Switch, ProcsOK, User, Schedule, spaceVars
<1> QED
  BY <1>2, <1>3, <1>4, <1>6, <1>7, <1>8, <1>9, <1>10, <1>11, <1>12, <1>13, <1>14, <1>16, <1>17, <1>18, <1>19, <1>20, <1>21, <1>22
  DEF Next

\* Steps that keep BareOK: a page is inserted, a space is given up.
LEMMA InsertBare ==
    ASSUME TypeOK, BareOK, NEW s \in Spaces, NEW v \in VPages, NEW f, NEW w, Insert(s, v, f, w),
           dir[s] # None, tab'[s][Table(v)] # None, UNCHANGED <<dir, areas>>,
           \A r \in Spaces, t \in Tables : (r # s \/ t # Table(v)) => tab'[r][t] = tab[r][t]
    PROVE  BareOK'
<1>1. \A r \in Spaces, n \in VPages : (r # s \/ n # v) => pte'[r][n] = pte[r][n]
  BY DEF Insert, TypeOK
<1>2. ASSUME NEW r \in Spaces, dir[r] = None
      PROVE  areas'[r] = {} /\ (\A t \in Tables : tab'[r][t] = None) /\ \A n \in VPages : pte'[r][n] = None
  BY <1>1, <1>2 DEF BareOK
<1>3. ASSUME NEW r \in Spaces, NEW n \in VPages, pte'[r][n] # None PROVE tab'[r][Table(n)] # None
  <2>1. CASE r = s /\ Table(n) = Table(v)
    BY <2>1
  <2>2. CASE ~(r = s /\ Table(n) = Table(v))
    BY <1>1, <1>3, <2>2, SpaceFacts DEF BareOK
  <2> QED
    BY <2>1, <2>2
<1> QED
  BY <1>2, <1>3 DEF BareOK

LEMMA ReleaseBare ==
    ASSUME TypeOK, BareOK, NEW s \in Spaces, Release(s)
    PROVE  BareOK'
<1>1. \A r \in Spaces : IF r = s THEN /\ dir'[r] = None /\ areas'[r] = {} /\ \A t \in Tables : tab'[r][t] = None
                                       /\ \A v \in VPages : pte'[r][v] = None
                        ELSE dir'[r] = dir[r] /\ areas'[r] = areas[r] /\ tab'[r] = tab[r] /\ pte'[r] = pte[r]
  BY DEF Release, TypeOK
<1> QED
  BY <1>1, SpaceFacts DEF BareOK

\* Every step keeps that a space without a directory has nothing.
LEMMA BareNext ==
    ASSUME IndInv, Next
    PROVE  BareOK'
<1> SUFFICES ASSUME TypeOK, PhaseOK, StepForms, CopyOK, LoadOK, BareOK, AreasOK, FaultOK, FifoExact
             PROVE  BareOK'
  BY StepFacts, NextRunning DEF IndInv
<1> USE SpaceFacts
<1>1. ASSUME UNCHANGED spaceVars PROVE BareOK'
  BY <1>1 DEF BareOK, spaceVars
<1>2. CASE FaultPage
  <2>1. /\ Active \in Spaces /\ step.page \in VPages /\ dir[Active] # None /\ tab[Active][Table(step.page)] # None
        /\ Insert(Active, step.page, Frame, step.w) /\ UNCHANGED <<dir, areas, tab>>
    BY <1>2, FaultTable DEF FaultPage, StepForms
  <2> QED
    BY <2>1, InsertBare
<1>3. CASE FaultSwapIn
  <2>1. /\ Active \in Spaces /\ step.page \in VPages /\ dir[Active] # None /\ tab[Active][Table(step.page)] # None
        /\ Insert(Active, step.page, Frame, step.w) /\ UNCHANGED <<dir, areas, tab>>
    BY <1>3, FaultTable DEF FaultSwapIn, StepForms
  <2> QED
    BY <2>1, InsertBare
<1>4. CASE Evict
  <2>1. Head(fifo) \in ToSet(fifo)
    BY <1>4 DEF Evict, TypeOK, ToSet
  <2>2. Head(fifo).page \in VPages /\ Present(Idle, Head(fifo).page)
    BY <1>4, <2>1 DEF Evict, FifoExact, Mapped
  <2>3. UNCHANGED <<dir, tab, areas>> /\ pte' = [pte EXCEPT ![Idle][Head(fifo).page] = Swapped] /\ dir[Idle] # None
    BY <1>4, NoneApart DEF Evict, PhaseOK
  <2> QED
    BY <2>2, <2>3 DEF BareOK, Present, TypeOK
<1>5. CASE EndCheck
  BY <1>5 DEF EndCheck, BareOK, TypeOK
<1>6. ASSUME NEW s \in Spaces, NewDir(s) PROVE BareOK'
  <2>1. Frame # None
    BY <1>6, FrameFree, NoneApart DEF NewDir
  <2> QED
    BY <1>6, <2>1 DEF NewDir, BareOK, TypeOK
<1>7. CASE CopyDir
  BY <1>6, <1>7 DEF CopyDir, StepForms
<1>8. CASE LoadDir
  BY <1>6, <1>8 DEF LoadDir, TypeOK
<1>9. CASE CopyTable
  <2>1. PICK v \in NextToCopy : AddTable(step.to, v)
    BY <1>9 DEF CopyTable
  <2>2. step.to \in Spaces /\ v \in VPages /\ dir[step.to] # None /\ Table(v) \in Tables /\ Frame # None
    BY <1>9, <2>1, FrameFree, NoneApart DEF CopyTable, StepForms, NextToCopy, AddTable
  <2>3. \A r \in Spaces, t \in Tables : tab'[r][t] = IF r = step.to /\ t = Table(v) THEN Frame ELSE tab[r][t]
    BY <2>1, <2>2 DEF AddTable, TypeOK
  <2> QED
    BY <2>1, <2>2, <2>3 DEF AddTable, BareOK
<1>10. CASE CopyPage
  <2>1. PICK v \in NextToCopy : Insert(step.to, v, Frame, pte[cur][v].w) /\ tab[step.to][Table(v)] # None
    BY <1>10 DEF CopyPage
  <2>2. step.to \in Spaces /\ v \in VPages /\ dir[step.to] # None /\ UNCHANGED <<dir, areas, tab>>
    BY <1>10, <2>1 DEF CopyPage, StepForms, NextToCopy
  <2> QED
    BY <2>1, <2>2, InsertBare
<1>11. CASE CopyEnd
  <2>1. step.to \in Spaces /\ dir[step.to] # None
    BY <1>11 DEF CopyEnd, StepForms
  <2> QED
    BY <1>11, <2>1 DEF CopyEnd, BareOK, TypeOK
<1>12. CASE LoadArea
  BY <1>12 DEF LoadArea, Loading, BareOK, TypeOK
<1>13. CASE LoadPage
  <2> DEFINE v == Head(step.pages)
             t == Min(free \ {Frame})
  <2>1. Insert(cur, v, Frame, step.w) /\ UNCHANGED <<dir, areas>> /\ dir[cur] # None /\ cur \in Spaces /\ v \in VPages
    BY <1>13 DEF LoadPage, Loading, StepForms, TypeOK
  <2>2. tab[cur][Table(v)] = None => t # None
    BY <1>13, LoadFrames, NoneApart DEF TypeOK
  <2>3. tab' = IF tab[cur][Table(v)] = None THEN [tab EXCEPT ![cur][Table(v)] = t] ELSE tab
    BY <1>13 DEF LoadPage
  <2> HIDE DEF v, t
  <2>4. /\ tab'[cur][Table(v)] # None
        /\ \A r \in Spaces, n \in Tables : (r # cur \/ n # Table(v)) => tab'[r][n] = tab[r][n]
    BY <2>1, <2>2, <2>3 DEF TypeOK
  <2> QED
    BY <2>1, <2>4, InsertBare
<1>14. CASE Release(cur)
  BY <1>14, ReleaseBare DEF TypeOK
<1> QED
  BY <1>1, <1>2, <1>3, <1>4, <1>5, <1>7, <1>8, <1>9, <1>10, <1>11, <1>12, <1>13, <1>14
  DEF Next, Access, Read, Write, Fault, FaultRefused, Spawn, Fork, Reap, Exec, LoadRefused, LoadOverlap, LoadEnd,
      Exit, Switch, OutOfMemory

-----------------------------------------------------------------------------
(* The areas of a space.                                                   *)

\* The elements of a sequence without its first, and with one more.
LEMMA HeadTailSet ==
    ASSUME NEW S, NEW q \in Seq(S), q # <<>>
    PROVE  /\ Head(q) \in ToSet(q) /\ Tail(q) \in Seq(S) /\ Head(q) \in S
           /\ ToSet(q) = ToSet(Tail(q)) \union {Head(q)}
           /\ IsInjective(q) => IsInjective(Tail(q)) /\ Head(q) \notin ToSet(Tail(q))
<1>1. /\ Len(q) \in Nat /\ Len(q) > 0 /\ Tail(q) \in Seq(S) /\ Len(Tail(q)) = Len(q) - 1
      /\ \A i \in 1..Len(Tail(q)) : Tail(q)[i] = q[i + 1]
  OBVIOUS
<1>2. DOMAIN q = 1..Len(q) /\ DOMAIN Tail(q) = 1..(Len(q) - 1) /\ Head(q) = q[1]
  BY <1>1
<1>3. 1 \in DOMAIN q
  BY <1>1, <1>2
<1>4. ASSUME NEW i \in DOMAIN q PROVE i = 1 \/ (i - 1 \in DOMAIN Tail(q) /\ q[i] = Tail(q)[i - 1])
  BY <1>1, <1>2
<1>5. ASSUME NEW i \in DOMAIN Tail(q) PROVE i + 1 \in DOMAIN q /\ Tail(q)[i] = q[i + 1] /\ i + 1 # 1 /\ i \in Int
  BY <1>1, <1>2
<1>6. ToSet(q) = ToSet(Tail(q)) \union {Head(q)}
  BY <1>2, <1>3, <1>4, <1>5 DEF ToSet
<1>7. IsInjective(q) => IsInjective(Tail(q)) /\ Head(q) \notin ToSet(Tail(q))
  BY <1>2, <1>3, <1>5 DEF ToSet, IsInjective
<1> QED
  BY <1>1, <1>2, <1>3, <1>6, <1>7 DEF ToSet

LEMMA AppendSet ==
    ASSUME NEW S, NEW q \in Seq(S), NEW x \in S
    PROVE  /\ ToSet(Append(q, x)) = ToSet(q) \union {x}
           /\ IsInjective(q) /\ x \notin ToSet(q) => IsInjective(Append(q, x))
<1> DEFINE a == Append(q, x)
<1>1. /\ Len(q) \in Nat /\ DOMAIN q = 1..Len(q) /\ DOMAIN a = 1..(Len(q) + 1)
      /\ a[Len(q) + 1] = x /\ \A i \in 1..Len(q) : a[i] = q[i]
  OBVIOUS
<1> HIDE DEF a
<1>2. \A i \in DOMAIN a : i = Len(q) + 1 \/ i \in DOMAIN q
  BY <1>1
<1>3. Len(q) + 1 \in DOMAIN a /\ DOMAIN q \subseteq DOMAIN a
  BY <1>1
<1>4. ToSet(a) = ToSet(q) \union {x}
  BY <1>1, <1>2, <1>3 DEF ToSet
<1>5. IsInjective(q) /\ x \notin ToSet(q) => IsInjective(a)
  BY <1>1, <1>2, <1>3 DEF ToSet, IsInjective
<1> QED
  BY <1>4, <1>5 DEF a

Disjoint(s) == \A a, b \in areas[s] : a # b => a.to <= b.from \/ b.to <= a.from
Covered(s) ==
    \A v \in Mapped(s) :
        ~(step.op = "copy" /\ s = step.to) => \E a \in Covering(s, v) : pte[s][v].w = a.w
Reached(p) ==
    \A a \in areas[p] : \A v \in a.from..(a.to - 1) :
        \E u \in VPages : /\ Table(u) = Table(v)
                          /\ \/ Present(p, u)
                             \/ step.op = "load" /\ p = cur /\ u \in ToSet(step.pages)

\* AreasOK, space by space.
LEMMA AreasParts ==
    /\ AreasOK <=> (\A s \in Spaces : Disjoint(s) /\ Covered(s)) /\ (\A p \in Procs : Reached(p))
    /\ AreasOK' <=> (\A s \in Spaces : Disjoint(s)' /\ Covered(s)') /\ (\A p \in Procs : Reached(p)')
<1>1. AreasOK <=> (\A s \in Spaces : Disjoint(s) /\ Covered(s)) /\ (\A p \in Procs : Reached(p))
  BY DEF AreasOK, Disjoint, Covered, Reached
<1>2. AreasOK' <=> (\A s \in Spaces : Disjoint(s)' /\ Covered(s)') /\ (\A p \in Procs : Reached(p)')
  BY DEF AreasOK, Disjoint, Covered, Reached
<1> QED
  BY <1>1, <1>2

\* Nothing of a space changes and no operation on it begins or ends.
LEMMA AreasSame ==
    ASSUME AreasOK, NEW s \in Spaces, pte'[s] = pte[s], areas'[s] = areas[s],
           (step.op = "copy" /\ s = step.to) => (step'.op = "copy" /\ s = step'.to),
           (step.op = "load" /\ s = cur) =>
                \/ ToSet(step.pages) = {}
                \/ step'.op = "load" /\ s = cur' /\ ToSet(step.pages) \subseteq ToSet(step'.pages)
    PROVE  Disjoint(s)' /\ Covered(s)' /\ (s \in Procs => Reached(s)')
<1>1. Disjoint(s) /\ Covered(s) /\ (s \in Procs => Reached(s))
  BY AreasParts
<1>2. Mapped(s)' = Mapped(s) /\ \A v : Covering(s, v)' = Covering(s, v) /\ Present(s, v)' = Present(s, v)
  BY DEF Mapped, Present, Covering
<1>3. Covered(s)'
  BY <1>1, <1>2 DEF Covered
<1>4. s \in Procs => Reached(s)'
  BY <1>1, <1>2 DEF Reached
<1> QED
  BY <1>1, <1>3, <1>4 DEF Disjoint

\* A page is put into an area that covers it, with its permission.
LEMMA AreasInsert ==
    ASSUME TypeOK, AreasOK, NEW s \in Spaces, NEW v \in VPages, NEW f \in Frames, NEW w \in BOOLEAN,
           Insert(s, v, f, w), areas' = areas,
           ~(step'.op = "copy" /\ s = step'.to) => \E a \in Covering(s, v) : w = a.w,
           \A r \in Spaces : (step.op = "copy" /\ r = step.to) => (step'.op = "copy" /\ r = step'.to),
           \A r \in Spaces : (step.op = "load" /\ r = cur) =>
                (step'.op = "load" /\ r = cur' /\ ToSet(step.pages) \subseteq ToSet(step'.pages) \union {v} /\ r = s)
    PROVE  AreasOK'
<1>1. \A r \in Spaces : Disjoint(r) /\ Covered(r) /\ (r \in Procs => Reached(r))
  BY AreasParts
<1>2. pte'[s][v] = [frame |-> f, w |-> w] /\ Present(s, v)'
  <2>1. pte'[s][v] = [frame |-> f, w |-> w]
    BY DEF Insert, TypeOK
  <2>2. [frame |-> f, w |-> w] \in Entries
    BY DEF Entries
  <2> QED
    BY <2>1, <2>2, NoneApart DEF Present
<1>3. \A r \in Spaces, n \in VPages : (r # s \/ n # v) => pte'[r][n] = pte[r][n] /\ (Present(r, n)' <=> Present(r, n))
  BY DEF Insert, TypeOK, Present
<1>4. \A r \in Spaces : \A n : Covering(r, n)' = Covering(r, n)
  BY DEF Covering
<1>5. ASSUME NEW r \in Spaces PROVE Covered(r)'
  <2> SUFFICES ASSUME NEW n \in Mapped(r)', ~(step'.op = "copy" /\ r = step'.to)
               PROVE  \E a \in Covering(r, n)' : pte'[r][n].w = a.w
    BY DEF Covered
  <2>1. n \in VPages /\ Present(r, n)'
    BY DEF Mapped
  <2>2. CASE r = s /\ n = v
    BY <1>2, <1>4, <2>2
  <2>3. CASE ~(r = s /\ n = v)
    <3>1. n \in Mapped(r) /\ pte'[r][n] = pte[r][n]
      BY <1>3, <2>1, <2>3 DEF Mapped
    <3> QED
      BY <1>1, <1>4, <3>1 DEF Covered
  <2> QED
    BY <2>2, <2>3
<1>6. ASSUME NEW p \in Procs PROVE Reached(p)'
  <2> SUFFICES ASSUME NEW a \in areas[p], NEW n \in a.from..(a.to - 1)
               PROVE  \E u \in VPages : /\ Table(u) = Table(n)
                                        /\ \/ Present(p, u)'
                                           \/ step'.op = "load" /\ p = cur' /\ u \in ToSet(step'.pages)
    BY DEF Reached
  <2>1. PICK u \in VPages : /\ Table(u) = Table(n)
                            /\ \/ Present(p, u)
                               \/ step.op = "load" /\ p = cur /\ u \in ToSet(step.pages)
    BY <1>1, SpaceFacts DEF Reached
  <2> QED
    BY <1>2, <1>3, <2>1, SpaceFacts
<1>7. \A r \in Spaces : Disjoint(r)'
  BY <1>1 DEF Disjoint
<1> QED
  BY <1>5, <1>6, <1>7, AreasParts

\* A space that is given up, or has no area and no page yet.
LEMMA AreasNone ==
    ASSUME NEW s \in Spaces, areas'[s] = {}, \A v \in VPages : pte'[s][v] \in {None, Swapped}
    PROVE  Disjoint(s)' /\ Covered(s)' /\ Reached(s)'
  BY DEF Disjoint, Covered, Reached, Mapped, Present

\* Every step keeps what is true of areas.
LEMMA AreasNext ==
    ASSUME IndInv, Next, Running'
    PROVE  AreasOK'
<1> SUFFICES ASSUME TypeOK, PhaseOK, StepForms, CopyOK, LoadOK, BareOK, AreasOK, ProcsOK, FaultOK, FifoExact
             PROVE  AreasOK'
  BY StepFacts, NextRunning DEF IndInv
<1> USE SpaceFacts
<1>1. ASSUME UNCHANGED <<pte, areas>>, step.op \notin {"copy", "load"} PROVE AreasOK'
  BY <1>1, AreasSame, AreasParts
<1>2. ASSUME UNCHANGED <<pte, areas, cur, step>> PROVE AreasOK'
  BY <1>2, AreasSame, AreasParts
<1>3. CASE Access
  <2>1. step = User /\ UNCHANGED spaceVars
    BY <1>3, Zenon DEF Access, Read, Write, Fault, FaultRefused
  <2> QED
    BY <1>1, <2>1 DEF User, spaceVars
<1>4. ASSUME Insert(Active, step.page, Frame, step.w), areas' = areas, step.op = "fault", free # {}
      PROVE  AreasOK'
  <2>1. Active \in Spaces /\ step.page \in VPages /\ step.w \in BOOLEAN /\ Frame \in Frames
    BY <1>4, FrameFree DEF StepForms, Active, TypeOK
  <2>2. \E a \in Covering(Active, step.page) : step.w = a.w
    BY <1>4 DEF FaultOK
  <2> QED
    BY <1>4, <2>1, <2>2, AreasInsert
<1>5. CASE FaultPage \/ FaultSwapIn
  BY <1>4, <1>5 DEF FaultPage, FaultSwapIn
<1>6. CASE Evict
  <2>1. Head(fifo).page \in VPages
    <3>1. Head(fifo) \in ToSet(fifo)
      BY <1>6 DEF Evict, TypeOK, ToSet
    <3> QED
      BY <1>6, <3>1 DEF Evict, FifoExact, Mapped
  <2>2. \A n \in VPages : n # Head(fifo).page => pte'[Idle][n] = pte[Idle][n]
    BY <1>6 DEF Evict, TypeOK
  <2>3. pte'[Idle][Head(fifo).page] = Swapped
    BY <1>6, <2>1 DEF Evict, TypeOK
  <2>4. Covered(Idle)'
    <3> SUFFICES ASSUME NEW n \in Mapped(Idle)' PROVE \E a \in Covering(Idle, n)' : pte'[Idle][n].w = a.w
      BY DEF Covered
    <3>1. n \in Mapped(Idle) /\ pte'[Idle][n] = pte[Idle][n] /\ n \in VPages
      BY <2>2, <2>3 DEF Mapped, Present
    <3>2. \A m : Covering(Idle, m)' = Covering(Idle, m)
      BY <1>6 DEF Evict, Covering
    <3>3. step.op = "fault"
      BY <1>6 DEF Evict
    <3> QED
      BY <3>1, <3>2, <3>3 DEF AreasOK
  <2>5. Disjoint(Idle)'
    BY <1>6 DEF Evict, Disjoint, AreasOK
  <2>6. ASSUME NEW p \in Procs PROVE Disjoint(p)' /\ Covered(p)' /\ Reached(p)'
    BY <1>6, AreasSame DEF Evict, TypeOK
  <2> QED
    BY <2>4, <2>5, <2>6, AreasParts
<1>7. CASE EndCheck
  <2>1. ASSUME NEW s \in Spaces PROVE Disjoint(s)' /\ Covered(s)' /\ (s \in Procs => Reached(s)')
    <3>1. CASE s = Idle
      <4>1. areas'[s] = {} /\ \A v \in VPages : pte'[s][v] \in {None, Swapped}
        BY <1>7, <3>1 DEF EndCheck, TypeOK
      <4> QED
        BY <4>1, AreasNone
    <3>2. CASE s # Idle
      BY <1>7, <3>2, AreasSame DEF EndCheck, TypeOK, User
    <3> QED
      BY <3>1, <3>2
  <2> QED
    BY <2>1, AreasParts
<1>8. CASE \E q \in Procs : Spawn(q) \/ Fork(q) \/ Reap(q)
  BY <1>1, <1>8 DEF Spawn, Fork, Reap, TakeStack, User, spaceVars
<1>9. CASE CopyDir \/ LoadDir
  BY <1>2, <1>9 DEF CopyDir, LoadDir, NewDir, processVars
<1>10. CASE CopyTable
  BY <1>2, <1>10 DEF CopyTable, AddTable, processVars
<1>11. CASE CopyPage
  <2>1. PICK v \in NextToCopy : /\ Insert(step.to, v, Frame, pte[cur][v].w)
                                /\ step' = [step EXCEPT !.todo = @ \ {v}]
    BY <1>11 DEF CopyPage
  <2>2. step'.op = "copy" /\ step'.to = step.to
    <3>1. step \in [op : {"copy"}, to : Procs, todo : SUBSET VPages]
      BY <1>11, PanicStep DEF CopyPage, TypeOK, StepOK, User, Schedule
    <3> QED
      BY <2>1, <3>1
  <2>3. step.to \in Spaces /\ v \in VPages /\ Frame \in Frames /\ Present(cur, v) /\ cur \in Spaces
        /\ areas' = areas
    BY <1>11, <2>1, FrameFree DEF CopyPage, StepForms, NextToCopy, CopyOK, Mapped, TypeOK
  <2>4. pte[cur][v].w \in BOOLEAN
    BY <2>3 DEF TypeOK, Present, Entries
  <2>5. step.op = "copy"
    BY <1>11 DEF CopyPage
  <2> QED
    BY <2>1, <2>2, <2>3, <2>4, <2>5, AreasInsert
<1>12. CASE CopyEnd
  <2>0. PICK q : q = step.to
    OBVIOUS
  <2>1. q \in Procs /\ q # cur /\ cur \in Spaces /\ dir[cur] # None /\ ~checking /\ Mapped(q) = Mapped(cur)
        /\ \A v \in Mapped(q) : pte[q][v].w = pte[cur][v].w
    BY <1>12, <2>0 DEF CopyEnd, CopyOK, StepForms, TypeOK
  <2>2. cur \in Procs
    BY <2>1 DEF PhaseOK
  <2>3. areas' = [areas EXCEPT ![q] = areas[cur]] /\ pte' = pte /\ step' = User /\ cur' = cur /\ step.op = "copy"
    BY <1>12, <2>0 DEF CopyEnd, processVars
  <2>4. step'.op = "user"
    BY <2>3 DEF User
  <2>5. areas'[q] = areas[cur] /\ \A s \in Spaces : s # q => areas'[s] = areas[s]
    BY <2>1, <2>3 DEF TypeOK
  <2>6. \A s \in Spaces : s # q => Disjoint(s)' /\ Covered(s)' /\ (s \in Procs => Reached(s)')
    BY <2>0, <2>3, <2>4, <2>5, AreasSame
  <2>7. Disjoint(cur) /\ Covered(cur) /\ Reached(cur)
    BY <2>1, <2>2, AreasParts
  <2>8. Disjoint(q)'
    BY <2>5, <2>7 DEF Disjoint
  <2>9. Mapped(q)' = Mapped(q) /\ \A v : Present(q, v)' = Present(q, v) /\ Covering(q, v)' = Covering(cur, v)
    BY <2>3, <2>5 DEF Mapped, Present, Covering
  <2>10. Covered(q)'
    <3> SUFFICES ASSUME NEW v \in Mapped(q) PROVE \E a \in Covering(cur, v) : pte[q][v].w = a.w
      BY <2>3, <2>9 DEF Covered
    <3> QED
      BY <2>0, <2>1, <2>3, <2>7 DEF Covered
  <2>11. Reached(q)'
    <3> SUFFICES ASSUME NEW a \in areas[cur], NEW v \in a.from..(a.to - 1)
                 PROVE  \E u \in VPages : Table(u) = Table(v) /\ Present(q, u)
      BY <2>5, <2>9 DEF Reached
    <3>1. PICK u \in VPages : Table(u) = Table(v) /\ Present(cur, u)
      BY <2>3, <2>7 DEF Reached
    <3> QED
      BY <2>1, <3>1 DEF Mapped
  <2> QED
    BY <2>6, <2>8, <2>10, <2>11, AreasParts
<1>13. ASSUME Release(cur), step.op \in {"user", "load"} PROVE AreasOK'
  <2>1. ASSUME NEW s \in Spaces PROVE Disjoint(s)' /\ Covered(s)' /\ (s \in Procs => Reached(s)')
    <3>1. CASE s = cur
      <4>1. areas'[s] = {} /\ \A v \in VPages : pte'[s][v] \in {None, Swapped}
        BY <1>13, <3>1 DEF Release, TypeOK
      <4> QED
        BY <4>1, AreasNone
    <3>2. CASE s # cur
      BY <1>13, <3>2, AreasSame DEF Release, TypeOK
    <3> QED
      BY <3>1, <3>2
  <2> QED
    BY <2>1, AreasParts
<1>14. CASE \E image \in Images : Exec(image)
  BY <1>13, <1>14 DEF Exec, User
<1>15. CASE LoadRefused \/ Exit
  BY <1>13, <1>15 DEF LoadRefused, Loading, Exit, User
<1>16. CASE LoadArea
  <2>0. PICK n, c : n = [from |-> Segment.from, to |-> Segment.to, w |-> Segment.w] /\ c = cur
    OBVIOUS
  <2>1. /\ step.op = "load" /\ cur \in Spaces /\ cur' = cur /\ pte' = pte /\ Overlapped = {}
        /\ step.pages = <<>> /\ areas' = [areas EXCEPT ![cur] = @ \union {n}]
        /\ step.segments # <<>> /\ step.segments \in Seq(Segments) /\ cur \in Procs
    BY <1>16, <2>0 DEF LoadArea, Loading, StepForms, TypeOK, LoadOK, processVars
  <2>2. IsLoadable(Segment)
    BY <2>1 DEF LoadOK, Segment
  <2>3. step'.op = "load" /\ step'.pages = Segment.pages
    BY <1>16 DEF LoadArea
  <2>4. areas'[c] = areas[c] \union {n} /\ \A s \in Spaces : s # c => areas'[s] = areas[s]
    BY <2>0, <2>1 DEF TypeOK
  <2>5. \A s \in Spaces : s # c => Disjoint(s)' /\ Covered(s)' /\ (s \in Procs => Reached(s)')
    BY <2>0, <2>1, <2>3, <2>4, AreasSame
  <2>6. Disjoint(c) /\ Covered(c) /\ Reached(c)
    BY <2>0, <2>1, AreasParts
  <2>7. Disjoint(c)'
    <3>1. \A a \in areas[c] : a.to <= n.from \/ n.to <= a.from
      <4> TAKE a \in areas[c]
      <4>1. ~(Segment.from < a.to /\ a.from < Segment.to)
        BY <2>0, <2>1 DEF Overlapped
      <4>2. a \in Areas /\ Segment \in Segments
        BY <2>0, <2>1, <2>2 DEF TypeOK, IsLoadable
      <4>3. a.from \in Int /\ a.to \in Int /\ Segment.from \in Int /\ Segment.to \in Int
        BY <4>2, MemoryConstants DEF Areas, Segments, VPages
      <4> QED
        BY <2>0, <4>1, <4>3
    <3> QED
      BY <2>0, <2>4, <2>6, <3>1 DEF Disjoint
  <2>8. Covered(c)'
    <3>1. Mapped(c)' = Mapped(c) /\ \A v : Covering(c, v) \subseteq Covering(c, v)'
      BY <2>0, <2>1, <2>4 DEF Mapped, Present, Covering
    <3> QED
      BY <2>0, <2>1, <2>3, <2>6, <3>1 DEF Covered
  <2>9. Reached(c)'
    <3> SUFFICES ASSUME NEW a \in areas[c] \union {n}, NEW v \in a.from..(a.to - 1)
                 PROVE  \E u \in VPages : Table(u) = Table(v) /\ (Present(c, u) \/ u \in ToSet(Segment.pages))
      BY <2>0, <2>1, <2>3, <2>4 DEF Reached, Present
    <3>1. CASE a \in areas[c]
      <4>1. ToSet(step.pages) = {}
        BY <2>1 DEF ToSet
      <4> QED
        BY <2>0, <2>6, <3>1, <4>1 DEF Reached
    <3>2. CASE a = n
      <4>1. v \in Segment.from..(Segment.to - 1)
        BY <2>0, <3>2
      <4>2. PICK u \in ToSet(Segment.pages) : u \div PTSpan = v \div PTSpan
        BY <2>2, <4>1 DEF IsLoadable
      <4>3. Segment.pages \in Seq(VPages)
        BY <2>2 DEF IsLoadable, Segments
      <4>4. u \in VPages
        BY <4>2, <4>3 DEF ToSet
      <4> QED
        BY <4>2, <4>4 DEF Table
    <3> QED
      BY <3>1, <3>2
  <2> QED
    BY <2>0, <2>5, <2>7, <2>8, <2>9, AreasParts
<1>17. CASE LoadPage
  <2> DEFINE v == Head(step.pages)
  <2>1. /\ Insert(cur, v, Frame, step.w) /\ areas' = areas /\ cur' = cur /\ cur \in Spaces /\ v \in VPages
        /\ step.w \in BOOLEAN /\ step.op = "load" /\ step.pages \in Seq(VPages) /\ step.pages # <<>>
    BY <1>17 DEF LoadPage, Loading, StepForms, TypeOK, processVars
  <2>2. Frame \in Frames
    BY <1>17, LoadFrames DEF TypeOK
  <2>3. step'.op = "load" /\ step'.pages = Tail(step.pages)
    <3>1. step \in [op : {"load"}, segments : Seq(Segments), pages : Seq(VPages),
                    w : BOOLEAN, fill : Vals \union {None}]
      BY <2>1, PanicStep DEF TypeOK, StepOK, User, Schedule
    <3> QED
      BY <1>17, <3>1 DEF LoadPage
  <2>4. ToSet(step.pages) \subseteq ToSet(step'.pages) \union {v} /\ v \in ToSet(step.pages)
    BY <2>1, <2>3, HeadTailSet
  <2>5. \E a \in Covering(cur, v) : step.w = a.w
    <3>1. PICK a \in areas[cur] : ToSet(step.pages) \subseteq a.from..(a.to - 1) /\ step.w = a.w
      BY <2>1 DEF LoadOK
    <3>2. v \in a.from..(a.to - 1)
      BY <2>4, <3>1
    <3>3. a \in Areas
      BY <2>1 DEF TypeOK
    <3>4. a.from <= v /\ v < a.to
      BY <2>1, <3>2, <3>3, MemoryConstants DEF Areas, VPages
    <3> QED
      BY <3>1, <3>4 DEF Covering
  <2> HIDE DEF v
  <2> QED
    BY <2>1, <2>2, <2>3, <2>4, <2>5, AreasInsert
<1>18. CASE LoadOverlap \/ OutOfMemory
  BY <1>18, PanicStep DEF LoadOverlap, OutOfMemory, Running
<1>19. CASE LoadEnd
  <2>1. ToSet(step.pages) = {} /\ step.op = "load" /\ pte' = pte /\ areas' = areas
    BY <1>19 DEF LoadEnd, Loading, ToSet, spaceVars
  <2> QED
    BY <2>1, AreasSame, AreasParts
<1>20. CASE \E p \in Spaces : Switch(p)
  BY <1>1, <1>20 DEF Switch, User, Schedule, spaceVars
<1> QED
  BY <1>3, <1>5, <1>6, <1>7, <1>8, <1>9, <1>10, <1>11, <1>12, <1>14, <1>15, <1>16, <1>17, <1>18, <1>19, <1>20
  DEF Next

-----------------------------------------------------------------------------
(* Faults, forks and execs that are under way.                             *)

\* The steps that change one field of a kernel operation.
LEMMA CopyStep ==
    ASSUME TypeOK, CopyPage
    PROVE  /\ step'.op = "copy" /\ step'.to = step.to
           /\ \E v \in NextToCopy : step'.todo = step.todo \ {v} /\ Insert(step.to, v, Frame, pte[cur][v].w)
<1>1. step \in [op : {"copy"}, to : Procs, todo : SUBSET VPages]
  BY PanicStep DEF CopyPage, TypeOK, StepOK, User, Schedule
<1>2. PICK v \in NextToCopy : step' = [step EXCEPT !.todo = @ \ {v}] /\ Insert(step.to, v, Frame, pte[cur][v].w)
  BY DEF CopyPage
<1>3. step'.op = "copy" /\ step'.to = step.to /\ step'.todo = step.todo \ {v}
  BY <1>1, <1>2
<1> QED
  BY <1>2, <1>3

LEMMA LoadStep ==
    ASSUME TypeOK, LoadPage
    PROVE  /\ step'.op = "load" /\ step'.pages = Tail(step.pages)
           /\ step'.segments = step.segments /\ step'.w = step.w
<1>1. step \in [op : {"load"}, segments : Seq(Segments), pages : Seq(VPages),
                w : BOOLEAN, fill : Vals \union {None}]
  BY PanicStep DEF LoadPage, Loading, TypeOK, StepOK, User, Schedule
<1> QED
  BY <1>1 DEF LoadPage

\* Which actions leave a fault, a fork or an exec running.
LEMMA StepsOf ==
    ASSUME TypeOK, Next
    PROVE  /\ step'.op = "fault" => Evict \/ \E v \in VPages, write \in BOOLEAN : Fault(v, write)
           /\ step'.op = "copy" => CopyDir \/ CopyTable \/ CopyPage \/ \E q \in Procs : Fork(q)
           /\ step'.op = "load" => LoadDir \/ LoadArea \/ LoadPage \/ \E image \in Images : Exec(image)
<1> DEFINE Other(op) == op \notin {"fault", "copy", "load"}
<1>1. Other(User.op) /\ Other(Schedule.op) /\ \A why : Other(Panic(why).op)
  BY PanicStep DEF User, Schedule
<1>2. CASE Access
  <2>1. step' = User \/ (\E why : step' = Panic(why)) \/ \E v \in VPages, write \in BOOLEAN : Fault(v, write)
    BY <1>2, Zenon DEF Access, Read, Write, FaultRefused
  <2>2. ASSUME NEW v \in VPages, NEW write \in BOOLEAN, Fault(v, write) PROVE step'.op \in {"fault", "panic"}
    <3>1. PICK a \in Covering(Active, v) :
              step' = IF Present(Active, v) THEN Panic("error write a non-writable pte")
                      ELSE [op |-> "fault", page |-> v, w |-> a.w]
      BY <2>2 DEF Fault
    <3>2. step' = [op |-> "fault", page |-> v, w |-> a.w] \/ \E why : step' = Panic(why)
      BY <3>1, Zenon
    <3> QED
      BY <3>2, PanicStep
  <2> QED
    BY <1>1, <2>1, <2>2
<1>3. CASE FaultPage \/ FaultSwapIn \/ EndCheck
  BY <1>1, <1>3 DEF FaultPage, FaultSwapIn, EndCheck
<1>4. CASE \E q \in Procs : Spawn(q) \/ Reap(q)
  BY <1>1, <1>4 DEF Spawn, Reap, TakeStack
<1>5. ASSUME NEW q \in Procs, Fork(q) PROVE step'.op = "copy"
  BY <1>5 DEF Fork
<1>6. CASE CopyDir \/ CopyTable
  BY <1>6 DEF CopyDir, NewDir, CopyTable, AddTable
<1>7. CASE CopyPage
  BY <1>7, CopyStep
<1>8. CASE LoadDir
  BY <1>8 DEF LoadDir, NewDir
<1>9. CASE LoadPage
  BY <1>9, LoadStep
<1>10. ASSUME NEW image \in Images, Exec(image) PROVE step'.op = "load"
  BY <1>10 DEF Exec
<1>11. CASE LoadArea
  BY <1>11 DEF LoadArea
<1>12. CASE CopyEnd \/ LoadRefused \/ LoadEnd \/ Exit \/ \E p \in Spaces : Switch(p)
  BY <1>1, <1>12 DEF CopyEnd, LoadRefused, LoadEnd, Exit, Switch
<1>13. CASE LoadOverlap \/ OutOfMemory
  BY <1>1, <1>13, Zenon DEF LoadOverlap, OutOfMemory
<1>14. CASE Evict
  BY <1>14 DEF Evict
<1> QED
  BY <1>1, <1>2, <1>3, <1>4, <1>5, <1>6, <1>7, <1>8, <1>9, <1>10, <1>11, <1>12, <1>13, <1>14 DEF Next

\* Every step keeps what a page fault relies on.
LEMMA FaultNext ==
    ASSUME IndInv, Next
    PROVE  FaultOK'
<1> SUFFICES ASSUME TypeOK, StepForms, FaultOK, CopyOK, TlbOK, AreasOK, FifoExact, step'.op = "fault"
             PROVE  FaultOK'
  BY StepFacts, NextRunning DEF IndInv, FaultOK
<1> USE SpaceFacts
<1>1. CASE \E v \in VPages, write \in BOOLEAN : Fault(v, write)
  <2>1. PICK v \in VPages, write \in BOOLEAN : Fault(v, write)
    BY <1>1
  <2>2. PICK a \in Covering(Active, v) : step' = [op |-> "fault", page |-> v, w |-> a.w]
    BY <2>1, FaultsOnAbsent
  <2>3. ~Present(Active, v) /\ UNCHANGED <<pte, areas, cur, checking>>
    BY <2>1, FaultsOnAbsent DEF Fault, spaceVars, processVars, swapVars
  <2>4. step'.page = v /\ step'.w = a.w
    BY <2>2
  <2>5. Active' = Active /\ Covering(Active, v)' = Covering(Active, v) /\ ~Present(Active, v)'
    BY <2>3 DEF Active, Covering, Present
  <2> QED
    BY <2>2, <2>3, <2>4, <2>5 DEF FaultOK, Covering, Present
<1>2. CASE Evict
  <2>1. step' = step /\ areas' = areas /\ Active' = Active /\ step.op = "fault"
    BY <1>2 DEF Evict, Active, processVars
  <2>2. \A s \in Spaces, v \in VPages : Present(s, v)' => Present(s, v)
    BY <1>2 DEF Evict, Present, TypeOK
  <2>3. Active \in Spaces /\ step.page \in VPages
    BY <2>1 DEF Active, TypeOK, StepForms
  <2> QED
    BY <2>1, <2>2, <2>3 DEF FaultOK, Covering, Present
<1> QED
  BY <1>1, <1>2, StepsOf

\* A process that was given a stack has one, and the others have theirs.
LEMMA StackTaken ==
    ASSUME TypeOK, NEW q \in Procs, TakeStack(q)
    PROVE  kstack'[q] # None /\ \A p \in Procs : p # q => kstack'[p] = kstack[p]
<1>1. Min(Runs(KSTACKPAGE)) \in free
  BY RunsFrames DEF TakeStack, Runs
<1>2. Min(Runs(KSTACKPAGE)) # None
  BY <1>1, NoneApart DEF TypeOK
<1> QED
  BY <1>2 DEF TakeStack, TypeOK

\* Every step keeps what dup_mmap has done so far.
LEMMA CopyNext ==
    ASSUME IndInv, Next
    PROVE  CopyOK'
<1> SUFFICES ASSUME TypeOK, StepForms, PhaseOK, CopyOK, BareOK, ProcsOK, step'.op = "copy"
             PROVE  CopyOK'
  BY StepFacts, NextRunning DEF IndInv, CopyOK
<1> USE SpaceFacts
<1>1. ASSUME NEW q \in Procs, Fork(q) PROVE CopyOK'
  <2>1. /\ ~checking /\ dir[cur] # None /\ state[q] = "unused" /\ step = User
        /\ step'.to = q /\ step'.todo = Mapped(cur)
        /\ UNCHANGED <<checking, cur, dir, state, areas, pte>>
    BY <1>1 DEF Fork, TakeStack, PagesToCopy, spaceVars, swapVars
  <2>2. dir[q] = None /\ q # cur
    BY <2>1 DEF ProcsOK, User
  <2>3. areas[q] = {} /\ Mapped(q) = {}
    BY <2>2 DEF BareOK, Mapped, Present
  <2>4. kstack'[q] # None
    BY <1>1, StackTaken DEF Fork
  <2>5. \A s \in Spaces : Mapped(s)' = Mapped(s)
    BY <2>1 DEF Mapped, Present
  <2>6. cur \in Spaces
    BY DEF TypeOK
  <2> QED
    BY <2>1, <2>2, <2>3, <2>4, <2>5, <2>6 DEF CopyOK
<1>2. ASSUME UNCHANGED <<checking, cur, state, kstack, areas, pte, step>>, dir[cur] # None => dir'[cur] # None
      PROVE  CopyOK'
  BY <1>2 DEF CopyOK, Mapped, Present
<1>3. CASE CopyTable
  BY <1>2, <1>3 DEF CopyTable, AddTable, processVars, swapVars
<1>4. CASE CopyDir
  <2>1. step.op = "copy" /\ step.to \in Procs /\ step.to # cur /\ dir' = [dir EXCEPT ![step.to] = Frame]
    BY <1>4 DEF CopyDir, NewDir, StepForms, CopyOK
  <2>2. dir'[cur] = dir[cur]
    BY <2>1 DEF TypeOK
  <2> QED
    BY <1>2, <1>4, <2>2 DEF CopyDir, NewDir, processVars
<1>5. CASE CopyPage
  <2>1. PICK v \in NextToCopy : step'.todo = step.todo \ {v} /\ Insert(step.to, v, Frame, pte[cur][v].w)
    BY <1>5, CopyStep
  <2>2. PICK q : q = step.to
    OBVIOUS
  <2>3. /\ step'.to = q /\ step.op = "copy" /\ v \in step.todo /\ v \in VPages /\ free # {}
        /\ UNCHANGED <<checking, cur, state, kstack, areas, dir>> /\ q \in Spaces /\ cur \in Spaces
    BY <1>5, <2>2, CopyStep DEF CopyPage, NextToCopy, StepForms, processVars, swapVars, TypeOK
  <2>4. q # cur /\ step.todo \subseteq Mapped(cur) /\ Mapped(q) = Mapped(cur) \ step.todo
        /\ \A n \in Mapped(q) : pte[q][n].w = pte[cur][n].w
    BY <2>2, <2>3 DEF CopyOK
  <2>5. pte' = [pte EXCEPT ![q][v] = [frame |-> Frame, w |-> pte[cur][v].w]]
    BY <2>1, <2>2 DEF Insert
  <2>6. /\ pte'[cur] = pte[cur] /\ pte'[q][v] = [frame |-> Frame, w |-> pte[cur][v].w]
        /\ \A n \in VPages : n # v => pte'[q][n] = pte[q][n]
    BY <2>3, <2>4, <2>5 DEF TypeOK
  <2>7. [frame |-> Frame, w |-> pte[cur][v].w] \notin {None, Swapped}
    <3>1. Frame \in Frames /\ pte[cur][v] \in Entries
      BY <2>3, <2>4, FrameFree DEF TypeOK, Mapped, Present
    <3> QED
      BY <3>1, NoneApart DEF Entries
  <2>8. Mapped(cur)' = Mapped(cur) /\ Mapped(q)' = Mapped(q) \union {v}
    BY <2>3, <2>6, <2>7 DEF Mapped, Present
  <2>9. \A n \in Mapped(q)' : pte'[q][n].w = pte'[cur][n].w
    <3>1. \A n \in Mapped(q) : n \in VPages
      BY DEF Mapped
    <3>2. v \notin Mapped(q)
      BY <2>3, <2>4
    <3> QED
      BY <2>4, <2>6, <2>8, <3>1, <3>2
  <2>10. Mapped(q)' = Mapped(cur)' \ step'.todo /\ step'.todo \subseteq Mapped(cur)'
    BY <2>1, <2>3, <2>4, <2>8
  <2> QED
    BY <2>2, <2>3, <2>4, <2>9, <2>10 DEF CopyOK
<1> QED
  BY <1>1, <1>3, <1>4, <1>5, StepsOf

\* Every step keeps what load_icode has still to do.
LEMMA LoadNext ==
    ASSUME IndInv, Next
    PROVE  LoadOK'
<1> SUFFICES ASSUME TypeOK, StepForms, PhaseOK, LoadOK, AreasOK, step'.op = "load"
             PROVE  LoadOK'
  BY StepFacts, NextRunning DEF IndInv, LoadOK
<1> USE SpaceFacts
<1>1. ASSUME NEW image \in Images, Exec(image) PROVE LoadOK'
  <2>1. /\ ~checking' /\ cur' # Idle /\ tlb' = {} /\ step'.pages = <<>> /\ step'.segments = Append(image, Stack)
    BY <1>1 DEF Exec, lcr3, processVars, swapVars
  <2>2. image \in Seq(Segments) /\ Stack \in Segments
    BY ProgramConstants DEF IsLoadable
  <2>3. \A i \in DOMAIN Append(image, Stack) :
            \/ i \in DOMAIN image /\ Append(image, Stack)[i] = image[i]
            \/ Append(image, Stack)[i] = Stack
    BY <2>2
  <2>4. \A i \in DOMAIN step'.segments : IsLoadable(step'.segments[i])
    BY <2>1, <2>3, ProgramConstants
  <2> QED
    BY <2>1, <2>4 DEF LoadOK
<1>2. CASE LoadDir
  BY <1>2 DEF LoadDir, NewDir, LoadOK, processVars
<1>3. CASE LoadArea
  <2>1. PICK c, S, n : c = cur /\ S = Segment /\ n = [from |-> S.from, to |-> S.to, w |-> S.w]
    OBVIOUS
  <2>2. /\ step.op = "load" /\ step.segments \in Seq(Segments) /\ step.segments # <<>> /\ c \in Spaces
        /\ Overlapped = {} /\ areas'[c] = areas[c] \union {n}
        /\ UNCHANGED <<checking, cur, tlb, pte>>
    BY <1>3, <2>1 DEF LoadArea, Loading, StepForms, TypeOK, processVars, swapVars
  <2>3. /\ step'.segments = Tail(step.segments) /\ step'.pages = S.pages /\ step'.w = S.w
    BY <1>3, <2>1 DEF LoadArea
  <2>4. IsLoadable(S)
    BY <2>1, <2>2 DEF LoadOK, Segment
  <2>5. \A i \in DOMAIN step'.segments : IsLoadable(step'.segments[i])
    <3>1. \A i \in DOMAIN Tail(step.segments) :
              i + 1 \in DOMAIN step.segments /\ Tail(step.segments)[i] = step.segments[i + 1]
      BY <2>2
    <3> QED
      BY <2>2, <2>3, <3>1 DEF LoadOK
  <2>6. n \in areas'[c] /\ ToSet(S.pages) \subseteq n.from..(n.to - 1) /\ IsInjective(S.pages) /\ S.w = n.w
    BY <2>1, <2>2, <2>4 DEF IsLoadable
  <2>7. ASSUME NEW v \in ToSet(S.pages) PROVE pte[c][v] = None
    <3>1. v \in VPages /\ v \in S.from..(S.to - 1) /\ S \in Segments
      <4>1. S.pages \in Seq(VPages)
        BY <2>4 DEF IsLoadable, Segments
      <4>2. v \in VPages
        BY <4>1 DEF ToSet
      <4> QED
        BY <2>4, <4>2 DEF IsLoadable
    <3>2. ASSUME Present(c, v) PROVE FALSE
      <4>1. PICK a \in Covering(c, v) : TRUE
        BY <2>2, <3>1, <3>2 DEF AreasOK, Mapped
      <4>2. a \in areas[c] /\ a.from <= v /\ v < a.to
        BY <4>1 DEF Covering
      <4>3. a \in Areas
        BY <2>2, <4>2 DEF TypeOK
      <4>4. a.from \in Int /\ a.to \in Int /\ v \in Int /\ S.from \in Int /\ S.to \in Int
        BY <3>1, <4>3, MemoryConstants DEF Areas, Segments, VPages
      <4>5. S.from < a.to /\ a.from < S.to
        BY <3>1, <4>2, <4>4
      <4> QED
        BY <2>1, <2>2, <4>2, <4>5 DEF Overlapped
    <3>3. pte[c][v] # Swapped
      BY <2>2, <3>1 DEF PhaseOK, LoadOK
    <3> QED
      BY <3>2, <3>3 DEF Present
  <2> QED
    BY <2>1, <2>2, <2>3, <2>5, <2>6, <2>7 DEF LoadOK
<1>4. CASE LoadPage
  <2>1. PICK c, h : c = cur /\ h = Head(step.pages)
    OBVIOUS
  <2>2. /\ step.op = "load" /\ step.pages \in Seq(VPages) /\ step.pages # <<>> /\ c \in Spaces
        /\ UNCHANGED <<checking, cur, areas>> /\ h \in VPages
        /\ Insert(c, h, Frame, step.w)
    BY <1>4, <2>1 DEF LoadPage, Loading, StepForms, TypeOK, processVars, swapVars
  <2>3. step'.segments = step.segments /\ step'.pages = Tail(step.pages) /\ step'.w = step.w
    BY <1>4, LoadStep
  <2>4. tlb' = {}
    BY <2>2 DEF Insert, LoadOK
  <2>5. PICK a \in areas[c] : ToSet(step.pages) \subseteq a.from..(a.to - 1) /\ step.w = a.w
    BY <2>1, <2>2 DEF LoadOK
  <2>6. /\ ToSet(Tail(step.pages)) \subseteq ToSet(step.pages) /\ h \notin ToSet(Tail(step.pages))
        /\ IsInjective(Tail(step.pages))
    BY <2>1, <2>2, HeadTailSet DEF LoadOK
  <2>7. \A v \in ToSet(Tail(step.pages)) : pte'[c][v] = None
    BY <2>1, <2>2, <2>6 DEF Insert, LoadOK, TypeOK
  <2> QED
    BY <2>1, <2>2, <2>3, <2>4, <2>5, <2>6, <2>7 DEF LoadOK
<1> QED
  BY <1>1, <1>2, <1>3, <1>4, StepsOf

-----------------------------------------------------------------------------
(* Cached translations.                                                    *)

\* What stays cached is still in the table it came from.
LEMMA TlbKept ==
    ASSUME TlbOK, UNCHANGED <<checking, cur>>, areas'[Active] # {} => areas[Active] # {},
           step'.op \in {"user", "fault", "copy"} => step.op \in {"user", "fault", "copy"},
           \A e \in tlb' : e \in tlb /\ (Present(Active, e.page) => pte'[Active][e.page] = pte[Active][e.page])
    PROVE  TlbOK'
<1>1. Active' = Active
  BY DEF Active
<1> SUFFICES ASSUME step'.op \in {"user", "fault", "copy"}, areas'[Active] # {}, NEW e \in tlb'
             PROVE  Present(Active, e.page)' /\ e = Entry(e.page)'
  BY <1>1 DEF TlbOK
<1>2. Present(Active, e.page) /\ e = Entry(e.page)
  BY DEF TlbOK
<1> QED
  BY <1>1, <1>2 DEF Entry, Present

\* One more entry is cached.
LEMMA TlbUsed ==
    ASSUME TlbOK, UNCHANGED <<checking, cur, areas, pte, step>>, step = User, areas[Active] # {},
           NEW v \in VPages, NEW e \in Translation(v), tlb' = {e}
    PROVE  TlbOK' /\ Present(Active, v) /\ e = Entry(v)
<1>1. Present(Active, v) /\ e = Entry(v)
  BY DEF TlbOK, Translation, Cached, User
<1>2. e.page = v
  BY <1>1 DEF Entry
<1>3. Active' = Active
  BY DEF Active
<1>4. Present(Active, v)' /\ e = Entry(v)'
  BY <1>1, <1>3 DEF Present, Entry
<1> QED
  BY <1>1, <1>2, <1>4 DEF TlbOK

\* Every step keeps that what is cached can be relied on.
LEMMA TlbNext ==
    ASSUME IndInv, Next
    PROVE  TlbOK'
<1> SUFFICES ASSUME TypeOK, StepForms, PhaseOK, CopyOK, FaultOK, TlbOK, AreasOK, FifoExact, step'.op \in {"user", "fault", "copy"}
             PROVE  TlbOK'
  BY StepFacts, NextRunning DEF IndInv, TlbOK
<1> USE SpaceFacts
<1>1. Active \in Spaces /\ (~checking => Active = cur) /\ (checking => Active = Idle)
  BY DEF Active, TypeOK
<1>2. ASSUME UNCHANGED <<checking, cur, areas, pte, tlb>>, step.op \in {"user", "fault", "copy"} PROVE TlbOK'
  BY <1>2, TlbKept
<1>3. CASE Access
  <2>1. ASSUME NEW v \in VPages, Read(v) \/ \E x \in Vals : Write(v, x) PROVE TlbOK'
    <3>1. PICK e \in Translation(v) : tlb' = {e}
      BY <2>1 DEF Read, Write
    <3>2. UNCHANGED <<checking, cur, areas, pte, step>> /\ step = User /\ areas[Active] # {}
      BY <2>1 DEF Read, Write, spaceVars, processVars, swapVars
    <3> QED
      BY <3>1, <3>2, TlbUsed
  <2>2. ASSUME NEW v \in VPages, NEW write \in BOOLEAN, Fault(v, write) PROVE TlbOK'
    BY <2>2, TlbKept DEF Fault, User, spaceVars, processVars, swapVars
  <2>3. ASSUME NEW v \in VPages, NEW write \in BOOLEAN, FaultRefused(v, write) PROVE TlbOK'
    BY <1>2, <2>3 DEF FaultRefused, User, spaceVars, processVars, swapVars
  <2> QED
    BY <1>3, <2>1, <2>2, <2>3 DEF Access
<1>4. ASSUME NEW s \in Spaces, NEW v \in VPages,
             \E f, w : Insert(s, v, f, w), UNCHANGED <<checking, cur, areas>>,
             s = Active => ~Present(s, v), step.op \in {"fault", "copy"}
      PROVE  TlbOK'
  <2>1. \A n \in VPages : (s # Active \/ n # v) => pte'[Active][n] = pte[Active][n]
    BY <1>1, <1>4 DEF Insert, TypeOK
  <2>2. \A e \in tlb' : e \in tlb /\ e.page \in VPages
    BY <1>4 DEF Insert, TypeOK
  <2>3. \A e \in tlb' : Present(Active, e.page) => pte'[Active][e.page] = pte[Active][e.page]
    BY <1>4, <2>1, <2>2
  <2> QED
    BY <1>4, <2>2, <2>3, TlbKept
<1>5. CASE FaultPage \/ FaultSwapIn
  <2>1. /\ step.op = "fault" /\ step.page \in VPages /\ Insert(Active, step.page, Frame, step.w)
        /\ UNCHANGED <<checking, cur, areas>>
    BY <1>5 DEF FaultPage, FaultSwapIn, StepForms, processVars
  <2> QED
    BY <1>1, <1>4, <2>1 DEF FaultOK
<1>6. CASE Evict
  <2>1. PICK v : v = Head(fifo).page
    OBVIOUS
  <2>2. tlb' = tlb \ Cached(v) /\ UNCHANGED <<checking, cur, areas>> /\ step.op = "fault"
        /\ pte' = [pte EXCEPT ![Idle][v] = Swapped]
    BY <1>6, <2>1 DEF Evict, processVars
  <2>3. \A n \in VPages : n # v => pte'[Active][n] = pte[Active][n]
    BY <1>1, <2>2 DEF TypeOK
  <2>4. \A e \in tlb' : e \in tlb /\ e.page # v /\ e.page \in VPages
    BY <2>2 DEF Cached, TypeOK
  <2> QED
    BY <2>2, <2>3, <2>4, TlbKept
<1>7. CASE EndCheck
  <2>1. areas'[Active'] = {}
    BY <1>7 DEF EndCheck, PhaseOK, Active, TypeOK, processVars
  <2> QED
    BY <2>1 DEF TlbOK
<1>8. CASE \E q \in Procs : Spawn(q) \/ Fork(q) \/ Reap(q)
  BY <1>2, <1>8 DEF Spawn, Fork, Reap, TakeStack, User, spaceVars, swapVars
<1>9. CASE CopyDir \/ CopyTable
  BY <1>2, <1>9 DEF CopyDir, NewDir, CopyTable, AddTable, processVars, swapVars
<1>10. CASE CopyPage
  <2>1. PICK v \in NextToCopy : Insert(step.to, v, Frame, pte[cur][v].w)
    BY <1>10 DEF CopyPage
  <2>2. /\ step.op = "copy" /\ step.to \in Spaces /\ v \in VPages /\ step.to # Active
        /\ UNCHANGED <<checking, cur, areas>>
    BY <1>1, <1>10 DEF CopyPage, NextToCopy, CopyOK, StepForms, processVars, swapVars
  <2> QED
    BY <1>4, <2>1, <2>2
<1>11. CASE CopyEnd
  <2>1. /\ areas'[cur] = areas[cur] /\ ~checking /\ UNCHANGED <<checking, cur, pte, tlb>> /\ step.op = "copy"
    BY <1>11 DEF CopyEnd, CopyOK, StepForms, TypeOK, swapVars
  <2> QED
    BY <1>1, <2>1, TlbKept
<1>12. CASE LoadEnd \/ \E p \in Spaces : Switch(p)
  <2>1. tlb' = {}
    BY <1>12 DEF LoadEnd, Switch, lcr3
  <2> QED
    BY <2>1 DEF TlbOK
<1>13. CASE LoadRefused \/ Exit
  BY <1>13 DEF LoadRefused, Exit, Schedule
<1>14. CASE LoadOverlap \/ OutOfMemory
  BY <1>14, PanicStep, Zenon DEF LoadOverlap, OutOfMemory
<1>15. CASE LoadDir \/ LoadArea \/ LoadPage \/ \E image \in Images : Exec(image)
  BY <1>15, LoadStep DEF LoadDir, NewDir, Loading, LoadArea, Exec
<1> QED
  BY <1>3, <1>5, <1>6, <1>7, <1>8, <1>9, <1>10, <1>11, <1>12, <1>13, <1>14, <1>15 DEF Next

Listed(v) == [frame |-> pte[Idle][v].frame, page |-> v]

-----------------------------------------------------------------------------
(* The replacement list and the panic that is not reached.                 *)

\* A page is mapped and becomes the newest in the list.
LEMMA FifoAppend ==
    ASSUME TypeOK, FifoExact, checking, NEW v \in VPages, NEW f \in Frames, NEW w \in BOOLEAN,
           ~Present(Idle, v), Insert(Idle, v, f, w), MapSwappable(f, v),
           \A n \in VPages : disk'[n] = IF n = v THEN None ELSE disk[n]
    PROVE  FifoExact'
<1> USE SpaceFacts
<1>1. PICK r : r = [frame |-> f, page |-> v]
  OBVIOUS
<1>2. fifo \in Seq([frame : Frames, page : VPages]) /\ r \in [frame : Frames, page : VPages]
  BY <1>1 DEF TypeOK
<1>3. IsInjective(fifo) /\ ToSet(fifo) = {Listed(n) : n \in Mapped(Idle)}
  BY DEF FifoExact, Listed
<1>4. r \notin ToSet(fifo)
  BY <1>1, <1>3 DEF Listed, Mapped
<1>5. IsInjective(fifo') /\ ToSet(fifo') = ToSet(fifo) \union {r}
  <2>1. fifo' = Append(fifo, r)
    BY <1>1 DEF MapSwappable
  <2> DEFINE R == [frame : Frames, page : VPages]
  <2>2. fifo \in Seq(R) /\ r \in R
    BY <1>2
  <2> HIDE DEF R
  <2>3. ToSet(Append(fifo, r)) = ToSet(fifo) \union {r} /\ IsInjective(Append(fifo, r))
    BY <1>3, <1>4, <2>2, AppendSet
  <2> QED
    BY <2>1, <2>3
<1>6. /\ pte'[Idle][v] = [frame |-> f, w |-> w]
      /\ \A n \in VPages : n # v => pte'[Idle][n] = pte[Idle][n]
  BY DEF Insert, TypeOK
<1>7. pte'[Idle][v].frame = f /\ pte'[Idle][v] \notin {None, Swapped}
  <2>1. [frame |-> f, w |-> w] \in Entries /\ [frame |-> f, w |-> w].frame = f
    BY DEF Entries
  <2> QED
    BY <1>6, <2>1, NoneApart
<1>8. Mapped(Idle)' = Mapped(Idle) \union {v}
  BY <1>6, <1>7 DEF Mapped, Present
<1>9. {Listed(n)' : n \in Mapped(Idle)'} = {Listed(n) : n \in Mapped(Idle)} \union {r}
  <2>1. Listed(v)' = r
    BY <1>1, <1>7 DEF Listed
  <2>2. \A n \in Mapped(Idle) : n # v /\ n \in VPages
    BY DEF Mapped
  <2>3. \A n \in Mapped(Idle) : Listed(n)' = Listed(n)
    BY <1>6, <2>2 DEF Listed
  <2> QED
    BY <1>8, <2>1, <2>3
<1>10. ToSet(fifo') = {Listed(n)' : n \in Mapped(Idle)'}
  BY <1>3, <1>5, <1>9
<1>11. \A n \in VPages : (pte'[Idle][n] = Swapped) <=> (disk'[n] # None)
  BY <1>6, <1>7 DEF FifoExact
<1> QED
  BY <1>5, <1>10, <1>11 DEF FifoExact, Listed

\* The oldest page goes to its slot.
LEMMA FifoEvict ==
    ASSUME TypeOK, FramesOK, FifoExact, Evict
    PROVE  FifoExact'
<1> USE SpaceFacts
<1>1. PICK r : r = Head(fifo)
  OBVIOUS
<1>2. /\ fifo \in Seq([frame : Frames, page : VPages]) /\ fifo # <<>> /\ fifo' = Tail(fifo) /\ checking
      /\ IsInjective(fifo) /\ ToSet(fifo) = {Listed(n) : n \in Mapped(Idle)}
  BY DEF Evict, TypeOK, FifoExact, Listed
<1>3. /\ r \in ToSet(fifo) /\ ToSet(fifo) = ToSet(fifo') \union {r}
      /\ IsInjective(fifo') /\ r \notin ToSet(fifo')
  BY <1>1, <1>2, HeadTailSet
<1>4. PICK v \in Mapped(Idle) : r = Listed(v)
  BY <1>2, <1>3
<1>5. v \in VPages /\ r.page = v /\ r.frame = pte[Idle][v].frame
  BY <1>4 DEF Listed, Mapped
<1>6. disk' = [disk EXCEPT ![v] = content[pte[Idle][v].frame]] /\ pte' = [pte EXCEPT ![Idle][v] = Swapped]
  BY <1>1, <1>5 DEF Evict
<1>7. content[pte[Idle][v].frame] # None
  BY <1>4, NoneApart DEF FramesOK
<1>8. /\ pte'[Idle][v] = Swapped /\ disk'[v] # None
      /\ \A n \in VPages : n # v => pte'[Idle][n] = pte[Idle][n] /\ disk'[n] = disk[n]
  BY <1>5, <1>6, <1>7 DEF TypeOK
<1>9. Mapped(Idle)' = Mapped(Idle) \ {v}
  BY <1>8 DEF Mapped, Present
<1>10. \A n \in Mapped(Idle)' : Listed(n)' = Listed(n) /\ n \in Mapped(Idle)
  <2>1. \A n \in Mapped(Idle) : n \in VPages
    BY DEF Mapped
  <2> QED
    BY <1>8, <1>9, <2>1 DEF Listed
<1>11. ToSet(fifo') = {Listed(n)' : n \in Mapped(Idle)'}
  <2>1. ToSet(fifo') = {Listed(n) : n \in Mapped(Idle)} \ {r}
    BY <1>2, <1>3
  <2>2. \A n \in Mapped(Idle) : Listed(n) = r <=> n = v
    BY <1>4 DEF Listed
  <2>3. ToSet(fifo') = {Listed(n) : n \in Mapped(Idle) \ {v}}
    BY <2>1, <2>2, Zenon
  <2> QED
    BY <1>9, <1>10, <2>3
<1>12. \A n \in VPages : (pte'[Idle][n] = Swapped) <=> (disk'[n] # None)
  BY <1>2, <1>8 DEF FifoExact
<1> QED
  BY <1>3, <1>11, <1>12 DEF FifoExact, Listed

\* Every step keeps pra_list_head.
LEMMA FifoNext ==
    ASSUME IndInv, Next
    PROVE  FifoExact'
<1> SUFFICES ASSUME TypeOK, StepForms, PhaseOK, FramesOK, FaultOK, FifoExact, checking'
             PROVE  FifoExact'
  BY StepFacts DEF IndInv, FifoExact
<1>1. ASSUME UNCHANGED <<checking, fifo, pte, disk>> PROVE FifoExact'
  BY <1>1 DEF FifoExact, Mapped, Present
<1>2. CASE Access
  BY <1>1, <1>2, Zenon DEF Access, Read, Write, Fault, FaultRefused, spaceVars, swapVars
<1>3. CASE Evict
  BY <1>3, FifoEvict DEF IndInv
<1>4. CASE FaultPage \/ FaultSwapIn
  <2>1. PICK v, f, w : v = step.page /\ f = Frame /\ w = step.w
    OBVIOUS
  <2>2. checking /\ Active = Idle /\ step.op = "fault"
    BY <1>4 DEF FaultPage, FaultSwapIn, Active
  <2>3. v \in VPages /\ f \in Frames /\ w \in BOOLEAN /\ Insert(Idle, v, f, w) /\ MapSwappable(f, v)
    BY <1>4, <2>1, <2>2, FrameFree DEF FaultPage, FaultSwapIn, StepForms
  <2>4. ~Present(Idle, v)
    BY <2>1, <2>2 DEF FaultOK
  <2>5. \A n \in VPages : disk'[n] = IF n = v THEN None ELSE disk[n]
    <3>1. CASE FaultPage
      BY <2>1, <2>2, <2>3, <3>1, NoneApart DEF FaultPage, FifoExact
    <3>2. CASE FaultSwapIn
      BY <2>1, <3>2 DEF FaultSwapIn, TypeOK
    <3> QED
      BY <1>4, <3>1, <3>2
  <2> QED
    BY <2>2, <2>3, <2>4, <2>5, FifoAppend
<1>5. ASSUME ~checking PROVE UNCHANGED checking
  BY <1>5, Zenon DEF Next, Access, Read, Write, Fault, FaultRefused, FaultPage, FaultSwapIn, Evict, EndCheck,
     Spawn, Fork, Reap, TakeStack, CopyDir, CopyTable, CopyPage, CopyEnd, Exec, LoadDir, LoadArea, LoadRefused,
     LoadOverlap, LoadPage, LoadEnd, Loading, Exit, Switch, OutOfMemory, NewDir, AddTable, swapVars
<1>6. checking /\ step.op \notin {"copy", "load"}
  BY <1>5 DEF PhaseOK
<1> QED
  BY <1>2, <1>3, <1>4, <1>6, Zenon DEF Next, EndCheck, Spawn, Fork, Reap, TakeStack, CopyDir, CopyTable, CopyPage,
     CopyEnd, Exec, LoadDir, LoadArea, LoadRefused, LoadOverlap, LoadPage, LoadEnd, Loading, Exit, Switch, OutOfMemory

\* Panics for different reasons differ.
LEMMA PanicsDiffer == ASSUME NEW x, NEW y, x # y PROVE Panic(x) # Panic(y)
<1>1. Panic(x).why = x /\ Panic(y).why = y
  BY DEF Panic
<1> QED
  BY <1>1

\* No step panics because a page that may be written cannot be.
LEMMA NoBadPanicNext ==
    ASSUME IndInv, Next
    PROVE  NoBadPanic'
<1> DEFINE bad == "error write a non-writable pte"
<1> SUFFICES ASSUME TypeOK, StepForms, CopyOK, TlbOK, AreasOK, step'.op = "panic"
             PROVE  step' # Panic(bad)
  BY StepFacts, NextRunning, Zenon DEF IndInv, NoBadPanic
<1>1. CASE Access
  <2>1. ASSUME NEW v \in VPages, NEW write \in BOOLEAN, Fault(v, write) PROVE FALSE
    BY <2>1, FaultsOnAbsent
  <2>2. ASSUME NEW v \in VPages, Read(v) \/ \E x \in Vals : Write(v, x) PROVE FALSE
    BY <2>2 DEF Read, Write, User
  <2>3. (\E v \in VPages, write \in BOOLEAN : FaultRefused(v, write)) => step' = Panic("page fault refused")
    BY Zenon DEF FaultRefused
  <2> QED
    <3>1. "page fault refused" # bad
      BY Zenon
    <3> QED
      BY <1>1, <2>1, <2>2, <2>3, <3>1, PanicsDiffer, Zenon DEF Access
<1>2. CASE LoadOverlap
  <2>1. step' = Panic("areas overlap") /\ "areas overlap" # bad
    BY <1>2, Zenon DEF LoadOverlap
  <2> QED
    BY <2>1, PanicsDiffer, Zenon
<1>3. CASE OutOfMemory
  <2>1. step' = Panic("out of memory") /\ "out of memory" # bad
    BY <1>3, Zenon DEF OutOfMemory
  <2> QED
    BY <2>1, PanicsDiffer, Zenon
<1>4. step = User \/ step = Schedule \/ step.op \in {"fault", "copy", "load"}
  BY NextRunning, PanicStep DEF IndInv, Running, StepForms
<1> HIDE DEF bad
<1>5. CASE step' = step \/ step' = User \/ step' = Schedule \/ step'.op \in {"copy", "load"}
  BY <1>4, <1>5 DEF User, Schedule
<1>6. CASE ~(Access \/ LoadOverlap \/ OutOfMemory)
  <2>1. CASE CopyPage \/ LoadPage
    BY <1>5, <2>1, CopyStep, LoadStep
  <2>2. CASE LoadArea \/ (\E q \in Procs : Fork(q)) \/ \E image \in Images : Exec(image)
    BY <1>5, <2>2 DEF LoadArea, Fork, Exec
  <2>3. CASE \/ FaultPage \/ FaultSwapIn \/ Evict \/ EndCheck \/ CopyDir \/ CopyTable \/ CopyEnd \/ LoadDir
             \/ LoadRefused \/ LoadEnd \/ Exit \/ (\E q \in Procs : Spawn(q) \/ Reap(q)) \/ \E p \in Spaces : Switch(p)
    <3>1. step' = step \/ step' = User \/ step' = Schedule
      BY <2>3, Zenon DEF FaultPage, FaultSwapIn, Evict, EndCheck, CopyDir, CopyTable, CopyEnd, LoadDir, LoadRefused,
         LoadEnd, Exit, Spawn, Reap, Switch, NewDir, AddTable
    <3> QED
      BY <1>5, <3>1
  <2> QED
    BY <1>6, <2>1, <2>2, <2>3, Zenon DEF Next
<1> QED
  BY <1>1, <1>2, <1>3, <1>6

-----------------------------------------------------------------------------
(* The theorems.                                                           *)

\* The account of the frames at first: check_swap has its page table.
LEMMA InitFrames == ASSUME Init, TypeOK PROVE FramesOK
<1> USE SpaceFacts
<1>1. CheckTable \in Frames /\ CheckTable \notin free /\ CheckTable \notin stored /\ CheckTable = NCheck
      /\ \A f \in Frames : f = CheckTable \/ f \in free \/ f \in stored
  BY MemoryConstants DEF Init, CheckTable, Frames
<1>2. Lost = {} /\ free \intersect stored = {}
  BY MemoryConstants DEF Init, Lost, CheckTable
<1>3. PICK k : k = <<"table", Idle, Table(0)>>
  OBVIOUS
<1>4. k \in Labels /\ k \in Counted /\ Holding[k] = {CheckTable}
  BY <1>1, <1>3, TableZero, TableLabel DEF Init
<1>5. ASSUME NEW u \in Labels, u # k PROVE Holding[u] = {}
  <2>1. ASSUME NEW p \in Procs, u = <<"stack", p>> PROVE Holding[u] = {}
    BY <2>1, StackLabel DEF Init, StackFrames
  <2>2. ASSUME NEW s \in Spaces, u = <<"dir", s>> PROVE Holding[u] = {}
    BY <2>2, DirLabel, NoneApart DEF Init
  <2>3. ASSUME NEW s \in Spaces, NEW t \in Tables, u = <<"table", s, t>> PROVE Holding[u] = {}
    <3>1. tab[s][t] = None
      BY <1>3, <1>5, <2>3 DEF Init
    <3> QED
      BY <2>3, <3>1, TableLabel, NoneApart
  <2>4. ASSUME NEW s \in Spaces, NEW v \in VPages, u = <<"page", s, v>> PROVE Holding[u] = {}
    BY <2>4, PageLabel DEF Init, Present
  <2> QED
    BY <2>1, <2>2, <2>3, <2>4, LabelForms
<1>6. Partition(Holding, Unused)
  BY <1>1, <1>2, <1>4, <1>5 DEF Partition, Unused
<1>7. Counts(Holding, ref)
  <2>1. \A u \in Counted : u \in Labels
    BY DEF Labels
  <2>2. \A f \in Frames : ref[f] = IF f = CheckTable THEN 1 ELSE 0
    BY DEF Init
  <2> QED
    BY <1>4, <1>5, <2>1, <2>2 DEF Counts
<1>8. /\ \A p \in Procs : kstack[p] = None
      /\ \A s \in Spaces : Mapped(s) = {}
  BY DEF Init, Mapped, Present
<1> QED
  BY <1>2, <1>6, <1>7, <1>8 DEF FramesOK, Accounted

\* The invariant holds at first.
LEMMA InitInv == ASSUME Init PROVE IndInv
<1> USE SpaceFacts
<1>1. TypeOK
  BY InitType
<1>2. FramesOK
  BY <1>1, InitFrames
<1>3. step.op = "user"
  BY DEF Init, User
<1>4. /\ checking /\ cur = Idle /\ stored = {f \in Frames : f > CheckTable}
      /\ \A s \in Spaces : /\ dir[s] = IF s = Idle THEN Boot ELSE None
                           /\ areas[s] = IF s = Idle THEN {CheckArea} ELSE {}
                           /\ state[s] = IF s = Idle THEN "alive" ELSE "unused"
      /\ \A s \in Spaces, t \in Tables : tab[s][t] = IF s = Idle /\ t = Table(0) THEN CheckTable ELSE None
      /\ \A s \in Spaces, v \in VPages : pte[s][v] = None
      /\ fifo = <<>> /\ tlb = {} /\ \A p \in Procs : kstack[p] = None
      /\ \A v \in VPages : disk[v] = None
  BY DEF Init
<1>5. Boot # None /\ CheckTable # None /\ Table(0) \in Tables /\ Swapped # None
  BY LostFrames, TableZero, NoneApart
<1>6. PhaseOK
  BY <1>3, <1>4, <1>5 DEF PhaseOK
<1>7. \A s \in Spaces : Mapped(s) = {}
  BY <1>4 DEF Mapped, Present
<1>8. ProcsOK
  BY <1>3, <1>4, <1>5, NoneApart DEF ProcsOK
<1>9. AreasOK
  BY <1>3, <1>4, <1>7 DEF AreasOK
<1>10. BareOK
  BY <1>4, <1>5 DEF BareOK
<1>11. FaultOK /\ CopyOK /\ LoadOK /\ NoBadPanic
  BY <1>3 DEF FaultOK, CopyOK, LoadOK, NoBadPanic
<1>12. TlbOK
  BY <1>4 DEF TlbOK
<1>13. FifoExact
  BY <1>4, <1>5, <1>7 DEF FifoExact, ToSet, IsInjective
<1> QED
  BY <1>1, <1>2, <1>6, <1>8, <1>9, <1>10, <1>11, <1>12, <1>13 DEF IndInv

\* It holds of any state with the same variables.
LEMMA Stutter == ASSUME IndInv, UNCHANGED vars PROVE IndInv'
<1> USE DEF vars, frameVars, spaceVars, processVars, swapVars
<1>1. /\ TypeOK' = TypeOK /\ PhaseOK' = PhaseOK
  BY DEF TypeOK, StepOK, PhaseOK
<1>2. Holding' = Holding /\ Unused' = Unused
  BY DEF Holding, Holds, StackFrames, Present, Unused, Lost
<1>3. FramesOK'
  <2>1. Accounted'
    BY <1>2 DEF IndInv, FramesOK, Accounted, Partition, Counts, Lost
  <2>2. StacksOK' = StacksOK /\ Filled' = Filled
    BY DEF StacksOK, Filled, StackFrames, Mapped, Present
  <2> QED
    BY <2>1, <2>2, FramesParts DEF IndInv
<1>4. AreasOK' = AreasOK
  BY DEF AreasOK, Covering, Mapped, Present
<1>5. ProcsOK' = ProcsOK
  BY DEF ProcsOK
<1>6. BareOK' = BareOK
  BY DEF BareOK
<1>7. CopyOK' = CopyOK /\ FaultOK' = FaultOK /\ LoadOK' = LoadOK
  BY DEF CopyOK, FaultOK, LoadOK, Mapped, Present, Covering, Active
<1>8. TlbOK' = TlbOK /\ FifoExact' = FifoExact
  BY DEF TlbOK, FifoExact, Mapped, Present, Entry, Active
<1>9. NoBadPanic' = NoBadPanic /\ Running' = Running
  BY DEF NoBadPanic, Running
<1> QED
  BY <1>1, <1>3, <1>4, <1>5, <1>6, <1>7, <1>8, <1>9 DEF IndInv

\* The inductive invariant: every conjunct is kept by every step of the kernel
\* (pmm.c, vmm.c, swap.c, swap_fifo.c, proc.c), at any number of frames, pages and processes.
THEOREM Invariant == Spec => []IndInv
<1>1. Init => IndInv
  BY InitInv
<1>2. IndInv /\ [Next]_vars => IndInv'
  <2>1. ASSUME IndInv, Next PROVE IndInv'
    BY <2>1, TypeNext, FramesNext, PhaseNext, ProcsNext, AreasNext, BareNext, FaultNext, CopyNext, LoadNext,
       TlbNext, FifoNext, NoBadPanicNext DEF IndInv
  <2> QED
    BY <2>1, Stutter
<1> QED
  BY <1>1, <1>2, PTL DEF Spec

\* The uses of a frame are the labels that hold it.
LEMMA UsesLabels ==
    ASSUME TypeOK, NEW f \in Frames
    PROVE  /\ Uses(f) = {u \in Labels : f \in Holding[u]}
           /\ References(f) = {u \in Counted : f \in Holding[u]}
<1> USE SpaceFacts
<1> DEFINE stacks == {<<"stack", p>> : p \in {q \in Procs : f \in StackFrames(q)}}
           dirs == {<<"dir", s>> : s \in {t \in Spaces : dir[t] = f}}
           tables == {<<"table", u[1], u[2]>> : u \in {x \in Spaces \X Tables : tab[x[1]][x[2]] = f}}
           pages == {<<"page", u[1], u[2]>> : u \in {x \in Spaces \X VPages :
                        /\ Present(x[1], x[2]) /\ pte[x[1]][x[2]].frame = f}}
<1>1. Uses(f) = ((stacks \union dirs) \union tables) \union pages
  BY DEF Uses
<1>2. ASSUME NEW p \in Procs PROVE <<"stack", p>> \in stacks <=> f \in Holding[<<"stack", p>>]
  BY StackLabel
<1>3. ASSUME NEW s \in Spaces PROVE <<"dir", s>> \in dirs <=> f \in Holding[<<"dir", s>>]
  BY DirLabel
<1>4. ASSUME NEW s \in Spaces, NEW t \in Tables
      PROVE  <<"table", s, t>> \in tables <=> f \in Holding[<<"table", s, t>>]
  <2>1. <<"table", s, t>> \in tables <=> tab[s][t] = f
    <3>1. \A u \in Spaces \X Tables : <<"table", u[1], u[2]>> = <<"table", s, t>> <=> u = <<s, t>>
      OBVIOUS
    <3>2. <<s, t>> \in Spaces \X Tables /\ <<s, t>>[1] = s /\ <<s, t>>[2] = t
      OBVIOUS
    <3> QED
      BY <3>1, <3>2, Zenon
  <2> QED
    BY <2>1, TableLabel
<1>5. ASSUME NEW s \in Spaces, NEW v \in VPages
      PROVE  <<"page", s, v>> \in pages <=> f \in Holding[<<"page", s, v>>]
  <2>1. <<"page", s, v>> \in pages <=> Present(s, v) /\ pte[s][v].frame = f
    <3>1. \A u \in Spaces \X VPages : <<"page", u[1], u[2]>> = <<"page", s, v>> <=> u = <<s, v>>
      OBVIOUS
    <3>2. <<s, v>> \in Spaces \X VPages /\ <<s, v>>[1] = s /\ <<s, v>>[2] = v
      OBVIOUS
    <3> QED
      BY <3>1, <3>2, Zenon
  <2> QED
    BY <2>1, PageLabel
<1>6. /\ stacks \subseteq {"stack"} \X Procs /\ dirs \subseteq {"dir"} \X Spaces
      /\ tables \subseteq {"table"} \X Spaces \X Tables /\ pages \subseteq {"page"} \X Spaces \X VPages
  OBVIOUS
<1> HIDE DEF stacks, dirs, tables, pages
<1>7. \A p \in Procs : <<"stack", p>> \notin dirs /\ <<"stack", p>> \notin tables /\ <<"stack", p>> \notin pages
  BY <1>6
<1>8. \A s \in Spaces : <<"dir", s>> \notin stacks /\ <<"dir", s>> \notin tables /\ <<"dir", s>> \notin pages
  BY <1>6
<1>9. \A s \in Spaces, t \in Tables : /\ <<"table", s, t>> \notin stacks /\ <<"table", s, t>> \notin dirs
                                      /\ <<"table", s, t>> \notin pages
  BY <1>6
<1>10. \A s \in Spaces, v \in VPages : /\ <<"page", s, v>> \notin stacks /\ <<"page", s, v>> \notin dirs
                                       /\ <<"page", s, v>> \notin tables
  BY <1>6
<1>11. \A u \in Labels : u \in Uses(f) <=> f \in Holding[u]
  <2> TAKE u \in Labels
  <2>1. CASE \E p \in Procs : u = <<"stack", p>>
    BY <1>1, <1>2, <1>7, <2>1
  <2>2. CASE \E s \in Spaces : u = <<"dir", s>>
    BY <1>1, <1>3, <1>8, <2>2
  <2>3. CASE \E s \in Spaces, t \in Tables : u = <<"table", s, t>>
    BY <1>1, <1>4, <1>9, <2>3
  <2>4. CASE \E s \in Spaces, v \in VPages : u = <<"page", s, v>>
    BY <1>1, <1>5, <1>10, <2>4
  <2> QED
    BY <2>1, <2>2, <2>3, <2>4, LabelForms
<1>12. Uses(f) \subseteq Labels
  BY <1>1, <1>6 DEF Labels, Counted
<1>13. \A u \in Labels : u[1] \in {"table", "page"} <=> u \in Counted
  BY DEF Labels, Counted
<1>14. Counted \subseteq Labels
  BY DEF Labels
<1> QED
  BY <1>11, <1>12, <1>13, <1>14 DEF References

\* Each frame is free, put aside, left behind by check_swap or used for exactly one
\* thing, and its reference count is right (alloc_pages, free_pages, page_insert,
\* page_remove_pte, put_kstack, put_pgdir): no frame is ever lost or used twice.
THEOREM FramesAccounted == Spec => []PagesAccounted
<1>1. ASSUME TypeOK, FramesOK PROVE PagesAccounted
  <2> SUFFICES ASSUME NEW f \in Frames
               PROVE  /\ Cardinality(Uses(f)) = IF f \in Unused THEN 0 ELSE 1
                      /\ ref[f] = Cardinality(References(f))
    BY <1>1 DEF PagesAccounted, FramesOK, Accounted, Unused
  <2>1. /\ Uses(f) = {u \in Labels : f \in Holding[u]}
        /\ References(f) = {u \in Counted : f \in Holding[u]}
    BY <1>1, UsesLabels
  <2>2. /\ IF f \in Unused THEN \A u \in Labels : f \notin Holding[u]
           ELSE \E u \in Labels : f \in Holding[u] /\ \A w \in Labels : f \in Holding[w] => w = u
        /\ ref[f] = IF \E u \in Counted : f \in Holding[u] THEN 1 ELSE 0
    BY <1>1 DEF FramesOK, Accounted, Partition, Counts
  <2>3. \A u \in Counted : u \in Labels
    BY DEF Labels
  <2>4. CASE f \in Unused
    <3>1. Uses(f) = {} /\ References(f) = {} /\ ref[f] = 0
      BY <2>1, <2>2, <2>3, <2>4
    <3> QED
      BY <2>4, <3>1, FS_EmptySet
  <2>5. CASE f \notin Unused
    <3>1. PICK u \in Labels : f \in Holding[u] /\ \A w \in Labels : f \in Holding[w] => w = u
      BY <2>2, <2>5
    <3>2. Uses(f) = {u}
      BY <2>1, <3>1
    <3>3. IF u \in Counted THEN References(f) = {u} /\ ref[f] = 1 ELSE References(f) = {} /\ ref[f] = 0
      BY <2>1, <2>2, <2>3, <3>1
    <3>4. Cardinality({u}) = 1 /\ Cardinality({}) = 0
      BY FS_Singleton, FS_EmptySet
    <3> QED
      BY <2>5, <3>2, <3>3, <3>4
  <2> QED
    BY <2>4, <2>5
<1>2. IndInv => PagesAccounted
  BY <1>1 DEF IndInv
<1> QED
  BY <1>2, Invariant, PTL

\* A translation that a program can use is one that its page table still holds
\* (tlb_invalidate, lcr3 in proc_run, do_execve, do_exit and load_icode).
THEOREM CachedEntriesCurrent == Spec => []TlbCoherent
<1>1. IndInv => TlbCoherent
  BY DEF IndInv, TlbOK, TlbCoherent, User
<1> QED
  BY <1>1, Invariant, PTL

\* A page is mapped in one area with its permission, a page that faults has its table,
\* and the panic of do_pgfault for a page that cannot be written is unreachable.
THEOREM EntriesInAreas == Spec => []EntriesFollowAreas
<1>1. ASSUME IndInv PROVE EntriesFollowAreas
  <2>1. TypeOK /\ StepForms /\ PhaseOK /\ BareOK /\ FaultOK /\ NoBadPanic /\ (Running => AreasOK)
    BY <1>1, StepFacts DEF IndInv
  <2>2. ASSUME NEW s \in Spaces, step = User, NEW v \in Mapped(s)
        PROVE  \E a \in areas[s] : Covering(s, v) = {a} /\ pte[s][v].w = a.w
    <3>1. Running /\ step.op # "copy" /\ v \in VPages
      BY <2>2 DEF Running, User, Mapped
    <3>2. PICK a \in Covering(s, v) : pte[s][v].w = a.w
      BY <2>1, <3>1 DEF AreasOK
    <3>3. \A b \in Covering(s, v) : b = a
      BY <2>1, <3>1, OneArea
    <3>4. Covering(s, v) = {a} /\ a \in areas[s]
      BY <3>3 DEF Covering
    <3> QED
      BY <3>2, <3>4
  <2>3. step.op = "fault" => tab[Active][Table(step.page)] # None
    BY <2>1, FaultTable DEF Running
  <2> QED
    BY <2>1, <2>2, <2>3, Zenon DEF EntriesFollowAreas, NoBadPanic
<1> QED
  BY <1>1, Invariant, PTL

\* pra_list_head lists the present pages of the checked mm once each, and exactly the
\* pages swapped out have slots (swap_fifo.c, swap_out, swap_in).
THEOREM ReplacementList == Spec => []FifoExact
<1>1. IndInv => FifoExact
  BY DEF IndInv
<1> QED
  BY <1>1, Invariant, PTL

\* Variables and the parameters of the operation that runs keep their types.
THEOREM TypeCorrect == Spec => []TypeOK
<1>1. IndInv => TypeOK
  BY DEF IndInv
<1> QED
  BY <1>1, Invariant, PTL

-----------------------------------------------------------------------------
(* Every space implements a private memory.                                *)

(* A directory without areas is one that fork or exec is filling, a        *)
(* program that is loaded has areas, and the pages that fork has copied    *)
(* are equal.                                                              *)
HasAreas ==
    \A s \in Spaces : dir[s] # None /\ areas[s] = {} =>
        \/ step.op = "load" /\ s = cur
        \/ step.op = "copy" /\ s = step.to
        \/ step.op = "panic"
LoadsAreas == step.op = "load" /\ step.segments = <<>> => areas[cur] # {}
CopiesEqual ==
    step.op = "copy" =>
        \A v \in Mapped(step.to) :
            content[pte[step.to][v].frame] = content[pte[cur][v].frame]
LiveOK == HasAreas /\ LoadsAreas /\ CopiesEqual

\* What a step begins with.
LEMMA Before ==
    ASSUME IndInv, Next
    PROVE  /\ TypeOK /\ StepForms /\ FramesOK /\ PhaseOK /\ ProcsOK /\ AreasOK /\ BareOK
           /\ CopyOK /\ LoadOK /\ TlbOK /\ FaultOK /\ FifoExact /\ step.op # "panic"
  BY StepFacts, NextRunning DEF IndInv, Running

\* What a frame that is taken held is no page's contents.
LEMMA FreeUnseen ==
    ASSUME TypeOK, FramesOK, free # {}, NEW x, content' = [content EXCEPT ![Frame] = x],
           NEW s \in Spaces, NEW v \in VPages, Present(s, v)
    PROVE  content'[pte[s][v].frame] = content[pte[s][v].frame]
<1>1. Frame \in free /\ pte[s][v].frame \notin free /\ pte[s][v].frame \in Frames
  BY FrameFree, PageFrame
<1> QED
  BY <1>1 DEF TypeOK

LEMMA HasAreasNext ==
    ASSUME IndInv, LiveOK, Next
    PROVE  HasAreas'
<1>0. /\ TypeOK /\ StepForms /\ BareOK /\ CopyOK /\ step.op # "panic"
      /\ HasAreas /\ LoadsAreas
  BY Before DEF LiveOK
<1>1. ASSUME UNCHANGED <<dir, areas>>, step.op \notin {"copy", "load"} PROVE HasAreas'
  BY <1>0, <1>1 DEF HasAreas
<1>2. ASSUME step'.op = "panic" PROVE HasAreas'
  BY <1>2 DEF HasAreas
<1>3. CASE Access
  <2>1. UNCHANGED <<dir, areas>> /\ step = User
    BY <1>3, Zenon DEF Access, Read, Write, Fault, FaultRefused, spaceVars
  <2> QED
    BY <1>0, <1>1, <2>1 DEF StepForms
<1>4. CASE FaultPage \/ FaultSwapIn \/ Evict
  BY <1>1, <1>4 DEF FaultPage, FaultSwapIn, Evict
<1>5. CASE \E q \in Procs : Spawn(q) \/ Fork(q) \/ Reap(q)
  BY <1>0, <1>1, <1>5 DEF Spawn, Fork, Reap, TakeStack, spaceVars, StepForms, User
<1>6. CASE \E p \in Spaces : Switch(p)
  BY <1>0, <1>1, <1>6 DEF Switch, spaceVars, StepForms, User, Schedule
<1>7. CASE CopyTable
  BY <1>0, <1>7 DEF CopyTable, AddTable, HasAreas, processVars
<1>8. CASE CopyPage
  BY <1>0, <1>8, CopyStep DEF CopyPage, HasAreas, processVars
<1>9. CASE LoadPage
  BY <1>0, <1>9, LoadStep DEF LoadPage, HasAreas, processVars, Loading
<1>10. CASE LoadEnd
  BY <1>0, <1>10 DEF LoadEnd, HasAreas, LoadsAreas, spaceVars, processVars, Loading
<1>11. CASE CopyDir
  BY <1>0, <1>11, SpaceFacts DEF CopyDir, NewDir, HasAreas, processVars, StepForms, TypeOK
<1>12. CASE LoadDir
  BY <1>0, <1>12 DEF LoadDir, NewDir, HasAreas, processVars, TypeOK
<1>13. CASE CopyEnd
  <2>1. areas[cur] # {} /\ cur \in Spaces /\ cur # step.to
    BY <1>0, <1>13 DEF CopyEnd, CopyOK, HasAreas, TypeOK
  <2>2. areas' = [areas EXCEPT ![step.to] = areas[cur]] /\ dir' = dir /\ step.op = "copy"
    BY <1>13 DEF CopyEnd
  <2> QED
    BY <1>0, <2>1, <2>2 DEF HasAreas, TypeOK
<1>14. CASE LoadRefused \/ Exit \/ \E image \in Images : Exec(image)
  <2>1. /\ dir' = [dir EXCEPT ![cur] = None] /\ areas' = [areas EXCEPT ![cur] = {}]
        /\ step.op # "copy"
    BY <1>0, <1>14 DEF LoadRefused, Loading, Exit, Exec, Release, StepForms
  <2>2. dir'[cur] = None /\ cur \in Spaces
    BY <2>1 DEF TypeOK, IndInv
  <2>3. ASSUME NEW s \in Spaces, s # cur PROVE dir'[s] = dir[s] /\ areas'[s] = areas[s]
    BY <1>0, <2>1, <2>3 DEF TypeOK
  <2> QED
    BY <1>0, <2>1, <2>2, <2>3 DEF HasAreas
<1>15. CASE LoadArea
  <2>1. /\ areas'[cur] # {} /\ \A s \in Spaces \ {cur} : areas'[s] = areas[s]
        /\ dir' = dir /\ step.op = "load"
    BY <1>0, <1>15 DEF LoadArea, Loading, TypeOK
  <2> QED
    BY <1>0, <2>1 DEF HasAreas
<1>16. CASE EndCheck
  <2>1. /\ dir'[Idle] = None /\ step = User /\ areas' = [areas EXCEPT ![Idle] = {}]
        /\ \A s \in Spaces \ {Idle} : dir'[s] = dir[s] /\ areas'[s] = areas[s]
    BY <1>0, <1>16, SpaceFacts DEF EndCheck, TypeOK
  <2> QED
    BY <1>0, <2>1 DEF HasAreas, StepForms, User
<1>17. CASE LoadOverlap \/ OutOfMemory
  <2>1. step'.op = "panic"
    BY <1>17, PanicStep, Zenon DEF LoadOverlap, OutOfMemory
  <2> QED
    BY <1>2, <2>1
<1> QED
  BY <1>3, <1>4, <1>5, <1>6, <1>7, <1>8, <1>9, <1>10, <1>11, <1>12, <1>13, <1>14, <1>15, <1>16,
     <1>17 DEF Next

LEMMA LoadsAreasNext ==
    ASSUME IndInv, LiveOK, Next
    PROVE  LoadsAreas'
<1> SUFFICES ASSUME step'.op = "load" PROVE LoadsAreas'
  BY DEF LoadsAreas
<1>0. TypeOK /\ StepForms /\ LoadsAreas
  BY Before DEF LiveOK
<1>1. CASE LoadDir
  BY <1>0, <1>1 DEF LoadDir, NewDir, LoadsAreas, processVars
<1>2. CASE LoadArea
  BY <1>0, <1>2 DEF LoadArea, Loading, LoadsAreas, TypeOK, processVars
<1>3. CASE LoadPage
  BY <1>0, <1>3, LoadStep DEF LoadPage, Loading, LoadsAreas, processVars
<1>4. ASSUME NEW image \in Images, Exec(image) PROVE LoadsAreas'
  <2>1. image \in Seq(Segments) /\ step'.segments = Append(image, Stack)
    BY <1>4, ProgramConstants DEF Exec
  <2>2. Append(image, Stack) # <<>>
    BY <2>1, ProgramConstants DEF IsLoadable
  <2> QED
    BY <2>1, <2>2 DEF LoadsAreas
<1> QED
  BY <1>0, <1>1, <1>2, <1>3, <1>4, StepsOf

LEMMA CopiesEqualNext ==
    ASSUME IndInv, LiveOK, Next
    PROVE  CopiesEqual'
<1> SUFFICES ASSUME step'.op = "copy" PROVE CopiesEqual'
  BY DEF CopiesEqual
<1>0. /\ TypeOK /\ StepForms /\ FramesOK /\ CopyOK /\ ProcsOK /\ BareOK /\ CopiesEqual
      /\ CopyOK' /\ TypeOK'
  BY Before, CopyNext, TypeNext DEF LiveOK, IndInv
<1>1. CASE CopyDir \/ CopyTable
  BY <1>0, <1>1 DEF CopyDir, NewDir, CopyTable, AddTable, CopiesEqual, Mapped, Present, processVars
<1>2. CASE CopyPage
  <2>1. PICK v \in NextToCopy :
           /\ content' = [content EXCEPT ![Frame] = content[pte[cur][v].frame]]
           /\ pte' = [pte EXCEPT ![step.to][v] = [frame |-> Frame, w |-> pte[cur][v].w]]
           /\ step' = [step EXCEPT !.todo = @ \ {v}]
    BY <1>2 DEF CopyPage, Insert
  <2>2. /\ step'.to = step.to /\ step.to \in Spaces /\ cur' = cur /\ cur \in Spaces
        /\ free # {} /\ step.op = "copy" /\ v \in VPages /\ v \in Mapped(cur)
    BY <1>0, <1>2, <2>1, CopyStep, SpaceFacts
       DEF CopyPage, NextToCopy, StepForms, CopyOK, processVars, TypeOK, Mapped
  <2>3. step.to # cur
    BY <1>0, <2>2 DEF CopyOK
  <2>4. SUFFICES ASSUME NEW n \in Mapped(step.to)'
                 PROVE  content'[pte'[step.to][n].frame] = content'[pte'[cur][n].frame]
    BY <2>2 DEF CopiesEqual
  <2>5. n \in VPages /\ n \in Mapped(cur) /\ Present(cur, n)
    <3>1. Mapped(cur)' = Mapped(cur)
      BY <1>0, <2>1, <2>3, <2>2 DEF Mapped, Present, TypeOK
    <3>2. n \in Mapped(cur)'
      BY <1>0, <2>2, <2>4 DEF CopyOK
    <3> QED
      BY <3>1, <3>2 DEF Mapped
  <2>6. pte'[cur][n] = pte[cur][n] /\ content'[pte[cur][n].frame] = content[pte[cur][n].frame]
    <3>1. content'[pte[cur][n].frame] = content[pte[cur][n].frame]
      BY <1>0, <2>1, <2>2, <2>5, FreeUnseen
    <3> QED
      BY <1>0, <2>1, <2>2, <2>3, <3>1 DEF TypeOK
  <2>7. CASE n = v
    <3>1. Frame \in Frames /\ pte'[step.to][v].frame = Frame
      BY <1>0, <2>1, <2>2, FrameFree DEF TypeOK
    <3>2. content'[Frame] = content[pte[cur][v].frame]
      BY <1>0, <2>1, <3>1 DEF TypeOK
    <3> QED
      BY <2>6, <2>7, <3>1, <3>2
  <2>8. CASE n # v
    <3>1. pte'[step.to][n] = pte[step.to][n]
      BY <1>0, <2>1, <2>2, <2>5, <2>8 DEF TypeOK
    <3>2. n \in Mapped(step.to) /\ Present(step.to, n)
      BY <2>2, <2>4, <3>1 DEF Mapped, Present
    <3>3. content'[pte[step.to][n].frame] = content[pte[step.to][n].frame]
      BY <1>0, <2>1, <2>2, <2>5, <3>2, FreeUnseen
    <3>4. content[pte[step.to][n].frame] = content[pte[cur][n].frame]
      BY <1>0, <2>2, <3>2 DEF CopiesEqual
    <3> QED
      BY <2>6, <3>1, <3>3, <3>4
  <2> QED
    BY <2>7, <2>8
<1>3. ASSUME NEW q \in Procs, Fork(q) PROVE CopiesEqual'
  <2>1. step'.to = q /\ pte' = pte /\ state[q] = "unused" /\ step = User
    BY <1>3 DEF Fork, TakeStack, spaceVars
  <2>2. dir[q] = None /\ q \in Spaces
    BY <1>0, <2>1, SpaceFacts DEF ProcsOK, User
  <2>3. \A v \in VPages : pte[q][v] = None
    BY <1>0, <2>2 DEF BareOK
  <2> QED
    BY <2>1, <2>3 DEF CopiesEqual, Mapped, Present
<1> QED
  BY <1>0, <1>1, <1>2, <1>3, StepsOf

-----------------------------------------------------------------------------
(* What the spaces show, and the abstract steps in these terms.            *)

LEMMA Hidden ==
    ASSUME \A s \in Spaces : Status(s)' = Status(s),
           \A s \in Spaces, v \in VPages : Shown(s, v)' = Shown(s, v)
    PROVE  UNCHANGED UM!vars
  BY DEF UM!vars, Memories, Statuses

\* Only s changes: it becomes st.
LEMMA Becomes ==
    ASSUME NEW s \in Spaces, NEW st, Status(s)' = st,
           \A r \in Spaces \ {s} : Status(r)' = Status(r),
           \A r \in Spaces \ {s}, v \in VPages : Shown(r, v)' = Shown(r, v)
    PROVE  /\ UM!Become(s, st) /\ UM!Others(s)
           /\ \A m : (\A v \in VPages : Shown(s, v)' = m[v]) /\ m = [v \in VPages |-> m[v]] =>
                 Memories' = [Memories EXCEPT ![s] = m]
<1>1. Statuses' = [Statuses EXCEPT ![s] = st]
  BY DEF Statuses
<1>2. \A r \in Spaces \ {s} : Memories'[r] = Memories[r]
  BY DEF Memories
<1>3. ASSUME NEW m, \A v \in VPages : Shown(s, v)' = m[v], m = [v \in VPages |-> m[v]]
      PROVE  Memories' = [Memories EXCEPT ![s] = m]
  <2>1. Memories'[s] = m
    BY <1>3 DEF Memories
  <2> QED
    BY <1>2, <2>1 DEF Memories
<1> QED
  BY <1>1, <1>2, <1>3 DEF UM!Become, UM!Others

\* A space with nothing to show is empty.
LEMMA BecomesEmpty ==
    ASSUME NEW s \in Spaces, NEW st, st # "live", Status(s)' = st,
           \A r \in Spaces \ {s} : Status(r)' = Status(r),
           \A r \in Spaces \ {s}, v \in VPages : Shown(r, v)' = Shown(r, v)
    PROVE  UM!Become(s, st) /\ Memories' = [Memories EXCEPT ![s] = UM!Empty]
<1>1. \A v \in VPages : Shown(s, v)' = UM!Empty[v]
  BY DEF Shown, UM!Empty
<1>2. UM!Empty = [v \in VPages |-> UM!Empty[v]]
  BY DEF UM!Empty
<1> QED
  BY <1>1, <1>2, Becomes

\* A program that has been loaded shows pages with contents.
LEMMA BecomesLive ==
    ASSUME TypeOK', Filled', ~checking, UNCHANGED checking, PhaseOK', NEW s \in Spaces,
           Status(s) = "loading", Status(s)' = "live",
           \A r \in Spaces \ {s} : Status(r)' = Status(r),
           \A r \in Spaces \ {s}, v \in VPages : Shown(r, v)' = Shown(r, v)
    PROVE  UM!Loaded(s)
<1>1. UM!Become(s, "live") /\ UM!Others(s)
  BY Becomes
<1>2. \A v \in VPages : Shown(s, v)' \in Vals \union {None}
  BY DEF Filled, PhaseOK, Shown, Mapped, Present
<1>3. Memories'[s] \in UM!Space /\ Statuses[s] = "loading"
  BY <1>2 DEF Memories, UM!Space, Statuses
<1> QED
  BY <1>1, <1>3 DEF UM!Loaded

\* A space keeps what it shows while its entries and their frames stay.
LEMMA Keeps ==
    ASSUME NEW s \in Spaces, NEW v \in VPages, Status(s)' = Status(s),
           UNCHANGED pte[s][v],
           pte[s][v] = Swapped => disk'[v] = disk[v],
           Present(s, v) => content'[pte[s][v].frame] = content[pte[s][v].frame]
    PROVE  Shown(s, v)' = Shown(s, v)
  BY DEF Shown, Present

\* Nothing to see in a space that fork or exec is filling, or that is not there.
LEMMA NotLive ==
    ASSUME NEW s \in Spaces, NEW v \in VPages, Status(s)' = Status(s), Status(s) # "live"
    PROVE  Shown(s, v)' = Shown(s, v)
  BY DEF Shown

\* While check_swap runs only its own space is there, and only it has swapped pages.
LEMMA Alone ==
    ASSUME TypeOK, PhaseOK, ProcsOK, BareOK
    PROVE  /\ checking => \A s \in Spaces \ {Idle} :
                             /\ Status(s) = "none" /\ areas[s] = {}
                             /\ \A v \in VPages : pte[s][v] = None
           /\ \A s \in Spaces \ {Idle}, v \in VPages : pte[s][v] # Swapped
<1>1. ASSUME checking, NEW s \in Spaces \ {Idle}
      PROVE  /\ Status(s) = "none" /\ areas[s] = {}
             /\ \A v \in VPages : pte[s][v] = None
  <2>1. s \in Procs /\ state[s] = "unused" /\ step.op \in {"user", "fault"}
    BY <1>1, SpaceFacts DEF PhaseOK
  <2>2. dir[s] = None
    BY <2>1 DEF ProcsOK
  <2> QED
    BY <2>1, <2>2 DEF BareOK, Status
<1>2. None # Swapped
  BY NoneApart
<1> QED
  BY <1>1, <1>2 DEF PhaseOK

\* Release empties s and nothing else.
LEMMA ReleaseShows ==
    ASSUME TypeOK, FramesOK, PhaseOK, ~checking, NEW s \in Spaces, Release(s),
           NEW r \in Spaces \ {s}, Status(r)' = Status(r), NEW v \in VPages
    PROVE  Shown(r, v)' = Shown(r, v)
<1>1. pte'[r][v] = pte[r][v] /\ pte[r][v] # Swapped /\ dir[s] # Boot
  BY DEF Release, TypeOK, PhaseOK
<1>2. ASSUME Present(r, v) PROVE content'[pte[r][v].frame] = content[pte[r][v].frame]
  <2>1. \A u \in SpaceLabels(s) : u # <<"page", r, v>>
    BY DEF SpaceLabels
  <2>2. pte[r][v].frame \notin Freed(s) /\ pte[r][v].frame \in Frames
    BY <1>1, <1>2, <2>1, PageFrame, FreedHeld
  <2> QED
    BY <2>2 DEF Release
<1> QED
  BY <1>1, <1>2, Keeps

-----------------------------------------------------------------------------
(* Each step in these terms.                                               *)

\* A step that changes no entry, contents or slot, and begins or ends no load.
LEMMA Unseen ==
    ASSUME UNCHANGED <<content, pte, areas, disk>>,
           \A s \in Spaces : (step'.op = "load" /\ s = cur') <=> (step.op = "load" /\ s = cur)
    PROVE  UNCHANGED UM!vars
<1>1. \A s \in Spaces : Status(s)' = Status(s)
  BY DEF Status
<1>2. \A s \in Spaces, v \in VPages : Shown(s, v)' = Shown(s, v)
  BY <1>1 DEF Shown
<1> QED
  BY <1>1, <1>2, Hidden

\* Page v of s, and no other, changes to x.
OnePage(s, v, x) ==
    /\ Shown(s, v)' = x
    /\ \A r \in Spaces, n \in VPages : ~(r = s /\ n = v) => Shown(r, n)' = Shown(r, n)
LEMMA ShowsOnePage ==
    ASSUME NEW s \in Spaces, NEW v \in VPages, NEW x, OnePage(s, v, x)
    PROVE  Memories' = [Memories EXCEPT ![s][v] = x]
<1>1. \A n \in VPages : n # v => Memories'[s][n] = Memories[s][n]
  BY DEF Memories, OnePage
<1>2. Memories'[s][v] = x
  BY DEF Memories, OnePage
<1>3. Memories'[s] = [Memories[s] EXCEPT ![v] = x]
  <2>1. /\ Memories[s] = [n \in VPages |-> Memories[s][n]]
        /\ Memories'[s] = [n \in VPages |-> Memories'[s][n]]
    BY DEF Memories
  <2> DEFINE m == Memories[s]
             k == Memories'[s]
  <2>2. /\ m = [n \in VPages |-> m[n]] /\ k = [n \in VPages |-> k[n]]
        /\ k[v] = x /\ \A n \in VPages : n # v => k[n] = m[n]
    BY <1>1, <1>2, <2>1
  <2> HIDE DEF m, k
  <2>3. k = [m EXCEPT ![v] = x]
    BY <2>2
  <2> QED
    BY <2>3 DEF m, k
<1>4. \A r \in Spaces : r # s => Memories'[r] = Memories[r]
  BY DEF Memories, OnePage
<1>5. /\ Memories = [r \in Spaces |-> Memories[r]]
      /\ Memories' = [r \in Spaces |-> Memories'[r]]
  BY DEF Memories
<1>6. Memories' = [Memories EXCEPT ![s] = [Memories[s] EXCEPT ![v] = x]]
  BY <1>3, <1>4, <1>5
<1> QED
  BY <1>6

\* The program writes the frame of its page, which is no other page's.
LEMMA WriteShows ==
    ASSUME IndInv, Next, NEW v \in VPages, NEW x \in Vals, Write(v, x)
    PROVE  UM!Write(Active, v, x)
<1>a. PICK A \in Spaces : A = Active
  BY Before, SpaceFacts DEF Active, TypeOK
<1>0. /\ TypeOK /\ FramesOK /\ TlbOK /\ step = User /\ areas[A] # {} /\ step.op = "user"
      /\ A \in Spaces /\ UNCHANGED <<pte, areas, disk, step, checking, cur>> /\ x # None
  BY <1>a, Before, SpaceFacts, NoneApart
     DEF Write, User, Active, spaceVars, swapVars, processVars, TypeOK
<1>1. PICK e \in Translation(v) : content' = [content EXCEPT ![e.frame] = x]
  BY DEF Write
<1>2. Present(A, v) /\ e.frame = pte[A][v].frame
  <2>1. CASE Cached(v) # {}
    <3>1. e \in tlb /\ e.page = v
      BY <1>a, <1>1, <2>1 DEF Translation, Cached
    <3>2. Present(A, e.page) /\ e = Entry(e.page)
      BY <1>a, <1>0, <3>1 DEF TlbOK
    <3> QED
      BY <1>a, <3>1, <3>2 DEF Entry
  <2>2. CASE Cached(v) = {}
    BY <1>a, <1>1, <2>2 DEF Translation, Entry
  <2> QED
    BY <1>a, <2>1, <2>2
<1>3. \A s \in Spaces : Status(s)' = Status(s)
  BY <1>a, <1>0 DEF Status
<1>4. Status(A) = "live"
  BY <1>a, <1>0 DEF Status
<1>5. pte[A][v].frame \in Frames /\ content[pte[A][v].frame] \in Vals /\ pte[A][v] \notin {None, Swapped}
  BY <1>a, <1>0, <1>2, PageFrame DEF Present
<1>6. Shown(A, v) # None /\ Shown(A, v)' = x
  <2>1. content[pte[A][v].frame] # None /\ content'[pte[A][v].frame] = x
    BY <1>a, <1>0, <1>1, <1>2, <1>5, NoneApart DEF TypeOK
  <2>2. Shown(A, v) = content[pte[A][v].frame]
    BY <1>4, <1>5 DEF Shown
  <2>3. Shown(A, v)' = content'[pte[A][v].frame]
    BY <1>a, <1>0, <1>3, <1>4, <1>5 DEF Shown
  <2> QED
    BY <1>a, <2>1, <2>2, <2>3
<1>7. ASSUME NEW s \in Spaces, NEW n \in VPages, ~(s = A /\ n = v)
      PROVE  Shown(s, n)' = Shown(s, n)
  <2>1. ASSUME Present(s, n) PROVE content'[pte[s][n].frame] = content[pte[s][n].frame]
    <3>1. pte[s][n].frame # pte[A][v].frame
      BY <1>a, <1>0, <1>2, <1>7, <2>1, SameFrame
    <3> QED
      BY <1>a, <1>0, <1>1, <1>2, <3>1 DEF TypeOK
  <2> QED
    BY <1>a, <1>0, <1>3, <2>1, Keeps
<1>8. Memories' = [Memories EXCEPT ![A][v] = x]
  BY <1>a, <1>0, <1>6, <1>7, ShowsOnePage DEF OnePage
<1>9. Statuses' = Statuses /\ Memories[A][v] # None
  BY <1>a, <1>0, <1>3, <1>6 DEF Statuses, Memories
<1> QED
  BY <1>a, <1>8, <1>9 DEF UM!Write

\* A page appears where there was none, or comes back from its slot.
Inserted(s, v, w, x) ==
    /\ free # {} /\ Insert(s, v, Frame, w) /\ w \in BOOLEAN
    /\ content' = [content EXCEPT ![Frame] = x]
    /\ UNCHANGED <<areas, cur>>
    /\ (step'.op = "load") <=> (step.op = "load")
    /\ \A n \in VPages : n # v => disk'[n] = disk[n]
    /\ disk'[v] = disk[v] \/ s = Idle
LEMMA InsertShows ==
    ASSUME TypeOK, FramesOK, PhaseOK, ProcsOK, BareOK, NEW s \in Spaces, NEW v \in VPages,
           NEW w, NEW x \in Vals, Inserted(s, v, w, x)
    PROVE  /\ \A r \in Spaces : Status(r)' = Status(r)
           /\ \A r \in Spaces, n \in VPages : ~(r = s /\ n = v) => Shown(r, n)' = Shown(r, n)
           /\ Status(s) = "live" => Shown(s, v)' = x
<1>0. /\ free # {} /\ UNCHANGED <<areas, cur>> /\ w \in BOOLEAN
      /\ content' = [content EXCEPT ![Frame] = x]
      /\ \A n \in VPages : n # v => disk'[n] = disk[n]
      /\ disk'[v] = disk[v] \/ s = Idle
  BY DEF Inserted
<1>1. \A r \in Spaces : Status(r)' = Status(r)
  BY DEF Status, Inserted
<1>2. pte' = [pte EXCEPT ![s][v] = [frame |-> Frame, w |-> w]]
  BY DEF Insert, Inserted
<1>3. ASSUME NEW r \in Spaces, NEW n \in VPages, ~(r = s /\ n = v)
      PROVE  Shown(r, n)' = Shown(r, n)
  <2>1. pte'[r][n] = pte[r][n]
    BY <1>2, <1>3 DEF TypeOK
  <2>2. Present(r, n) => content'[pte[r][n].frame] = content[pte[r][n].frame]
    BY <1>0, FreeUnseen
  <2>3. pte[r][n] = Swapped => disk'[n] = disk[n]
    BY <1>0, <1>3, Alone
  <2> QED
    BY <1>1, <2>1, <2>2, <2>3, Keeps
<1>4. ASSUME Status(s) = "live" PROVE Shown(s, v)' = x
  <2>1. pte'[s][v] = [frame |-> Frame, w |-> w] /\ Frame \in Frames
    BY <1>0, <1>2, FrameFree DEF TypeOK
  <2>2. pte'[s][v] \in Entries /\ pte'[s][v].frame = Frame
    BY <1>0, <2>1 DEF Entries
  <2>3. pte'[s][v] # None /\ pte'[s][v] # Swapped
    BY <2>2, NoneApart
  <2>4. content'[Frame] = x
    BY <1>0, <2>1 DEF TypeOK
  <2> QED
    BY <1>1, <1>4, <2>2, <2>3, <2>4 DEF Shown
<1> QED
  BY <1>1, <1>3, <1>4

LEMMA FaultPageShows ==
    ASSUME IndInv, Next, FaultPage
    PROVE  UM!Appear(Active, step.page)
<1>a. PICK A \in Spaces : A = Active
  BY Before, SpaceFacts DEF Active, TypeOK
<1>b. PICK v \in VPages : v = step.page
  BY Before DEF FaultPage, StepForms, TypeOK
<1>0. /\ TypeOK /\ StepForms /\ FramesOK /\ PhaseOK /\ ProcsOK /\ BareOK /\ FaultOK
      /\ A \in Spaces /\ v \in VPages /\ step.w \in BOOLEAN /\ step.op = "fault"
      /\ pte[A][v] = None /\ free # {} /\ Insert(A, v, Frame, step.w)
      /\ UNCHANGED <<areas, cur, disk>> /\ step' = User
      /\ \E a \in Covering(A, v) : TRUE
  BY <1>a, <1>b, Before, SpaceFacts
     DEF FaultPage, Active, processVars, TypeOK, StepForms, FaultOK
<1>1. PICK x \in Vals : content' = [content EXCEPT ![Frame] = x]
  BY DEF FaultPage
<1>2. Status(A) = "live" /\ Inserted(A, v, step.w, x)
  BY <1>0, <1>1 DEF Status, Covering, User, Inserted
<1>3. /\ \A r \in Spaces : Status(r)' = Status(r)
      /\ \A r \in Spaces, n \in VPages : ~(r = A /\ n = v) => Shown(r, n)' = Shown(r, n)
      /\ Shown(A, v)' = x
  BY <1>0, <1>1, <1>2, InsertShows
<1>4. Shown(A, v) = None
  BY <1>0 DEF Shown
<1>5. Memories' = [Memories EXCEPT ![A][v] = x]
  BY <1>0, <1>3, ShowsOnePage DEF OnePage
<1>6. Statuses' = Statuses /\ Statuses[A] = "live" /\ Memories[A][v] = None
  BY <1>0, <1>2, <1>3, <1>4 DEF Statuses, Memories
<1> QED
  BY <1>a, <1>b, <1>5, <1>6 DEF UM!Appear

LEMMA SwapInShows ==
    ASSUME IndInv, Next, FaultSwapIn
    PROVE  UNCHANGED UM!vars
<1>b. PICK v \in VPages : v = step.page
  BY Before DEF FaultSwapIn, StepForms, TypeOK
<1>0. /\ TypeOK /\ StepForms /\ FramesOK /\ PhaseOK /\ ProcsOK /\ BareOK /\ FifoExact
      /\ Active \in Spaces /\ v \in VPages /\ step.w \in BOOLEAN /\ step.op = "fault"
      /\ pte[Active][v] = Swapped /\ free # {} /\ Insert(Active, v, Frame, step.w)
      /\ UNCHANGED <<areas, cur>> /\ step' = User
      /\ content' = [content EXCEPT ![Frame] = disk[v]]
      /\ disk' = [disk EXCEPT ![v] = None]
  BY <1>b, Before, SpaceFacts
     DEF FaultSwapIn, Active, processVars, TypeOK, StepForms
<1>1. Active = Idle /\ checking
  BY <1>0, Alone DEF PhaseOK
<1>2. disk[v] \in Vals
  BY <1>0, <1>1 DEF FifoExact, TypeOK
<1>3. Idle \in Spaces /\ Inserted(Idle, v, step.w, disk[v])
  <2>1. \A n \in VPages : n # v => disk'[n] = disk[n]
    BY <1>0 DEF TypeOK
  <2> QED
    BY <1>0, <1>1, <2>1, SpaceFacts DEF User, Inserted
<1>4. /\ \A r \in Spaces : Status(r)' = Status(r)
      /\ \A r \in Spaces, n \in VPages : ~(r = Idle /\ n = v) => Shown(r, n)' = Shown(r, n)
      /\ Status(Idle) = "live" => Shown(Idle, v)' = disk[v]
  BY <1>0, <1>1, <1>2, <1>3, InsertShows
<1>5. Shown(Idle, v)' = Shown(Idle, v)
  <2>1. CASE Status(Idle) = "live"
    <3>1. Shown(Idle, v) = disk[v]
      BY <1>0, <1>1, <2>1, NoneApart DEF Shown
    <3> QED
      BY <1>4, <2>1, <3>1
  <2>2. CASE Status(Idle) # "live"
    BY <1>0, <1>3, <1>4, <2>2, NotLive
  <2> QED
    BY <2>1, <2>2
<1>6. \A r \in Spaces, n \in VPages : Shown(r, n)' = Shown(r, n)
  BY <1>4, <1>5
<1> QED
  BY <1>4, <1>6, Hidden

LEMMA EvictShows ==
    ASSUME IndInv, Next, Evict
    PROVE  UNCHANGED UM!vars
<1>0. /\ TypeOK /\ FramesOK /\ PhaseOK /\ ProcsOK /\ BareOK /\ FifoExact
      /\ checking /\ UNCHANGED <<areas, cur, step>> /\ fifo # <<>>
      /\ disk' = [disk EXCEPT ![Head(fifo).page] = content[Head(fifo).frame]]
      /\ pte' = [pte EXCEPT ![Idle][Head(fifo).page] = Swapped]
      /\ content' = [content EXCEPT ![Head(fifo).frame] = None]
  BY Before DEF Evict, processVars
<1>1. Head(fifo) \in ToSet(fifo)
  BY <1>0 DEF TypeOK, ToSet
<1>2. PICK v \in VPages, f \in Frames :
         /\ v = Head(fifo).page /\ f = Head(fifo).frame
         /\ Present(Idle, v) /\ f = pte[Idle][v].frame
  BY <1>0, <1>1, PageFrame, SpaceFacts DEF FifoExact, Mapped
<1>3. \A s \in Spaces : Status(s)' = Status(s)
  BY <1>0 DEF Status
<1>4. ASSUME NEW s \in Spaces, NEW n \in VPages, ~(s = Idle /\ n = v)
      PROVE  Shown(s, n)' = Shown(s, n)
  <2>1. pte'[s][n] = pte[s][n]
    BY <1>0, <1>2, <1>4, SpaceFacts DEF TypeOK
  <2>2. pte[s][n] = Swapped => disk'[n] = disk[n]
    BY <1>0, <1>2, <1>4, Alone DEF TypeOK
  <2>3. ASSUME Present(s, n) PROVE content'[pte[s][n].frame] = content[pte[s][n].frame]
    <3>1. pte[s][n].frame # f
      BY <1>0, <1>2, <1>4, <2>3, SameFrame, SpaceFacts
    <3> QED
      BY <1>0, <1>2, <2>3, <3>1, PageFrame DEF TypeOK
  <2> QED
    BY <1>0, <1>3, <2>1, <2>2, <2>3, Keeps
<1>5. Shown(Idle, v)' = Shown(Idle, v)
  <2>1. pte'[Idle][v] = Swapped /\ disk'[v] = content[f]
    BY <1>0, <1>2, SpaceFacts DEF TypeOK
  <2>2. pte[Idle][v] # None /\ pte[Idle][v] # Swapped /\ Swapped # None
    BY <1>2, NoneApart DEF Present
  <2>3. CASE Status(Idle) = "live"
    <3>1. Shown(Idle, v) = content[f]
      BY <1>0, <1>2, <2>2, <2>3 DEF Shown
    <3>2. Shown(Idle, v)' = disk'[v]
      BY <1>0, <1>3, <2>1, <2>2, <2>3, SpaceFacts DEF Shown
    <3> QED
      BY <2>1, <3>1, <3>2
  <2>4. CASE Status(Idle) # "live"
    BY <1>2, <1>3, <2>4, NotLive, SpaceFacts
  <2> QED
    BY <2>3, <2>4
<1>6. \A r \in Spaces, n \in VPages : Shown(r, n)' = Shown(r, n)
  BY <1>4, <1>5
<1> QED
  BY <1>3, <1>6, Hidden


\* After check_swap nothing is left of its space.
LEMMA EndCheckShows ==
    ASSUME IndInv, Next, EndCheck
    PROVE  UM!Drop(Idle)
<1>0. /\ TypeOK /\ PhaseOK /\ ProcsOK /\ BareOK /\ Idle \in Spaces /\ checking
      /\ step.op = "user" /\ UNCHANGED <<cur, step>>
      /\ areas' = [areas EXCEPT ![Idle] = {}]
      /\ pte' = [pte EXCEPT ![Idle] = [v \in VPages |-> None]]
  BY Before, SpaceFacts DEF EndCheck, processVars, User
<1>1. Status(Idle)' = "none"
  BY <1>0 DEF Status, TypeOK
<1>2. ASSUME NEW r \in Spaces \ {Idle}
      PROVE  Status(r)' = Status(r) /\ Status(r) # "live"
  <2>1. Status(r) = "none" /\ areas'[r] = areas[r]
    BY <1>0, Alone DEF TypeOK
  <2> QED
    BY <1>0, <2>1 DEF Status
<1>3. \A r \in Spaces \ {Idle}, v \in VPages : Shown(r, v)' = Shown(r, v)
  BY <1>2, NotLive
<1> QED
  BY <1>0, <1>1, <1>2, <1>3, BecomesEmpty DEF UM!Drop

\* fork fills a space that nobody sees.
LEMMA CopyPageShows ==
    ASSUME IndInv, Next, CopyPage
    PROVE  UNCHANGED UM!vars
<1>0. /\ TypeOK /\ StepForms /\ FramesOK /\ PhaseOK /\ ProcsOK /\ BareOK /\ CopyOK
      /\ cur \in Spaces /\ step.op = "copy" /\ step'.op = "copy" /\ free # {}
      /\ UNCHANGED <<areas, cur, disk>>
  BY Before, CopyStep DEF CopyPage, processVars, swapVars, TypeOK
<1>1. PICK t \in Spaces : t = step.to /\ areas[t] = {}
  BY <1>0, SpaceFacts DEF StepForms, CopyOK
<1>2. PICK v \in NextToCopy :
         /\ content' = [content EXCEPT ![Frame] = content[pte[cur][v].frame]]
         /\ Insert(step.to, v, Frame, pte[cur][v].w)
  BY DEF CopyPage
<1>3. v \in VPages /\ Present(cur, v)
  BY <1>0, <1>2 DEF NextToCopy, CopyOK, Mapped
<1>4. pte[cur][v].w \in BOOLEAN /\ content[pte[cur][v].frame] \in Vals
  BY <1>0, <1>3, PageFrame
<1>5. Inserted(t, v, pte[cur][v].w, content[pte[cur][v].frame])
  BY <1>0, <1>1, <1>2, <1>4 DEF Inserted
<1>6. /\ \A r \in Spaces : Status(r)' = Status(r)
      /\ \A r \in Spaces, n \in VPages : ~(r = t /\ n = v) => Shown(r, n)' = Shown(r, n)
  BY <1>0, <1>3, <1>4, <1>5, InsertShows
<1>7. Status(t) # "live"
  BY <1>0, <1>1 DEF Status
<1>8. \A r \in Spaces, n \in VPages : Shown(r, n)' = Shown(r, n)
  BY <1>3, <1>6, <1>7, NotLive
<1> QED
  BY <1>6, <1>8, Hidden

\* The child of fork begins with an equal copy.
LEMMA CopyEndShows ==
    ASSUME IndInv, LiveOK, Next, CopyEnd
    PROVE  \E s \in Spaces : \E t \in Spaces \ {s} : UM!Copy(s, t)
<1>0. /\ TypeOK /\ StepForms /\ PhaseOK /\ BareOK /\ CopyOK /\ HasAreas /\ CopiesEqual
      /\ step.op = "copy" /\ step.todo = {} /\ step' = User /\ ~checking
      /\ UNCHANGED <<content, pte, cur, disk>>
      /\ areas' = [areas EXCEPT ![step.to] = areas[cur]]
  BY Before DEF CopyEnd, frameVars, swapVars, LiveOK, CopyOK
<1>1. PICK s \in Spaces, t \in Spaces : s = cur /\ t = step.to /\ t # s
  BY <1>0, SpaceFacts DEF StepForms, TypeOK, CopyOK
<1>2. /\ areas[s] # {} /\ areas[t] = {} /\ areas'[t] = areas[s]
      /\ \A r \in Spaces \ {t} : areas'[r] = areas[r]
  BY <1>0, <1>1 DEF HasAreas, CopyOK, TypeOK
<1>3. step'.op = "user" /\ step.op = "copy"
  BY <1>0 DEF User
<1>4. /\ Status(s) = "live" /\ Status(t) = "none" /\ Status(t)' = "live"
      /\ \A r \in Spaces \ {t} : Status(r)' = Status(r)
  BY <1>2, <1>3 DEF Status
<1>5. \A r \in Spaces \ {t}, v \in VPages : Shown(r, v)' = Shown(r, v)
  BY <1>0, <1>4, Keeps
<1>6. ASSUME NEW v \in VPages PROVE Shown(t, v)' = Memories[s][v]
  <2>1. pte[s][v] # Swapped /\ pte[t][v] # Swapped /\ pte'[t][v] = pte[t][v]
    BY <1>0 DEF PhaseOK
  <2>2. Mapped(t) = Mapped(s)
    BY <1>0, <1>1 DEF CopyOK
  <2>3. pte[s][v] = None <=> pte[t][v] = None
    BY <2>1, <2>2 DEF Mapped, Present
  <2>4. pte[t][v] # None => content[pte[t][v].frame] = content[pte[s][v].frame]
    BY <1>0, <1>1, <2>1 DEF CopiesEqual, Mapped, Present
  <2>5. Shown(s, v) = IF pte[s][v] = None THEN None ELSE content[pte[s][v].frame]
    BY <1>4, <2>1 DEF Shown
  <2>6. Shown(t, v)' = IF pte[t][v] = None THEN None ELSE content[pte[t][v].frame]
    BY <1>0, <1>4, <2>1 DEF Shown
  <2>7. Memories[s][v] = Shown(s, v)
    BY DEF Memories
  <2> QED
    BY <2>3, <2>4, <2>5, <2>6, <2>7
<1>7. Memories[s] = [v \in VPages |-> Memories[s][v]]
  BY DEF Memories
<1>8. UM!Become(t, "live") /\ Memories' = [Memories EXCEPT ![t] = Memories[s]]
  BY <1>4, <1>5, <1>6, <1>7, Becomes
<1>9. Statuses[s] = "live" /\ Statuses[t] = "none"
  BY <1>4 DEF Statuses
<1>10. UM!Copy(s, t)
  BY <1>8, <1>9 DEF UM!Copy
<1> QED
  BY <1>1, <1>10

\* exec and exit drop the space of the process that runs, and touch no other.
LEMMA ReleaseEmpties ==
    ASSUME IndInv, Next, ~checking, Release(cur), UNCHANGED cur, step'.op \in {"load", "schedule"},
           step.op = "load" \/ step = User
    PROVE  \E s \in Spaces : IF step'.op = "load" THEN UM!Load(s) ELSE UM!Drop(s)
<1>0. /\ TypeOK /\ StepForms /\ FramesOK /\ PhaseOK /\ step.op \in {"load", "user"}
      /\ areas' = [areas EXCEPT ![cur] = {}]
  BY Before DEF Release, StepForms
<1>1. PICK s \in Spaces : s = cur
  BY <1>0 DEF TypeOK
<1>2. areas'[s] = {} /\ \A r \in Spaces \ {s} : areas'[r] = areas[r]
  BY <1>0, <1>1 DEF TypeOK
<1>3. \A r \in Spaces \ {s} : Status(r)' = Status(r)
  BY <1>0, <1>1, <1>2 DEF Status
<1>4. \A r \in Spaces \ {s}, v \in VPages : Shown(r, v)' = Shown(r, v)
  BY <1>0, <1>1, <1>3, ReleaseShows
<1>5. CASE step'.op = "load"
  <2>1. Status(s)' = "loading"
    BY <1>1, <1>5 DEF Status
  <2>2. UM!Load(s)
    BY <1>3, <1>4, <2>1, BecomesEmpty DEF UM!Load
  <2> QED
    BY <1>5, <2>2
<1>6. CASE step'.op = "schedule"
  <2>1. Status(s)' = "none"
    BY <1>2, <1>6 DEF Status
  <2>2. UM!Drop(s)
    BY <1>3, <1>4, <2>1, BecomesEmpty DEF UM!Drop
  <2> QED
    BY <1>6, <2>2
<1> QED
  BY <1>5, <1>6


\* What load_icode builds nobody sees.
LEMMA LoadAreaShows ==
    ASSUME IndInv, Next, LoadArea
    PROVE  UNCHANGED UM!vars
<1>0. /\ TypeOK /\ step.op = "load" /\ step'.op = "load"
      /\ UNCHANGED <<content, pte, cur, disk>>
      /\ \E A : areas' = [areas EXCEPT ![cur] = A]
  BY Before DEF LoadArea, Loading, frameVars, processVars, swapVars
<1>1. \A r \in Spaces : r # cur => areas'[r] = areas[r]
  BY <1>0 DEF TypeOK
<1>2. \A r \in Spaces : Status(r)' = Status(r) /\ (r = cur => Status(r) # "live")
  BY <1>0, <1>1 DEF Status
<1>3. \A r \in Spaces, v \in VPages : Shown(r, v)' = Shown(r, v)
  BY <1>0, <1>2, Keeps
<1> QED
  BY <1>2, <1>3, Hidden

LEMMA LoadPageShows ==
    ASSUME IndInv, Next, LoadPage
    PROVE  UNCHANGED UM!vars
<1>0. /\ TypeOK /\ StepForms /\ FramesOK /\ step.op = "load" /\ step'.op = "load" /\ free # {}
      /\ UNCHANGED <<areas, cur, disk>>
      /\ \E x : content' = [content EXCEPT ![Frame] = x]
      /\ pte' = [pte EXCEPT ![cur] = pte'[cur]]
  <2>1. free # {}
    BY Before, LoadFrames
  <2>2. \E x : content' = [content EXCEPT ![Frame] = x]
    BY DEF LoadPage
  <2>3. PICK v : Insert(cur, v, Frame, step.w)
    BY DEF LoadPage
  <2>4. TypeOK /\ pte' = [pte EXCEPT ![cur][v] = [frame |-> Frame, w |-> step.w]]
    BY <2>3, Before DEF Insert
  <2>5. pte' = [pte EXCEPT ![cur] = pte'[cur]]
    BY <2>4 DEF TypeOK
  <2> QED
    BY <2>1, <2>2, <2>5, Before, LoadStep DEF LoadPage, Loading, processVars, swapVars
<1>1. \A r \in Spaces : Status(r)' = Status(r) /\ (r = cur => Status(r) # "live")
  BY <1>0 DEF Status
<1>2. ASSUME NEW r \in Spaces, NEW v \in VPages, r # cur PROVE Shown(r, v)' = Shown(r, v)
  <2>1. pte'[r][v] = pte[r][v]
    BY <1>0, <1>2 DEF TypeOK
  <2>2. Present(r, v) => content'[pte[r][v].frame] = content[pte[r][v].frame]
    BY <1>0, FreeUnseen
  <2> QED
    BY <1>0, <1>1, <2>1, <2>2, Keeps
<1>3. \A r \in Spaces, v \in VPages : Shown(r, v)' = Shown(r, v)
  BY <1>1, <1>2, NotLive
<1> QED
  BY <1>1, <1>3, Hidden

\* A load that ends, or that stops the kernel, shows a space with its pages.
LEMMA LoadEnds ==
    ASSUME IndInv, IndInv', Next, step.op = "load", step'.op \in {"user", "panic"},
           areas[cur] # {}, UNCHANGED <<content, pte, areas, cur, disk, checking>>
    PROVE  \E s \in Spaces : UM!Loaded(s)
<1>0. /\ TypeOK /\ TypeOK' /\ Filled' /\ PhaseOK' /\ ~checking
  BY Before, FramesParts DEF IndInv, LoadOK
<1>1. PICK s \in Spaces : s = cur
  BY <1>0 DEF TypeOK
<1>2. Status(s) = "loading" /\ Status(s)' = "live"
  BY <1>1 DEF Status
<1>3. \A r \in Spaces \ {s} : Status(r)' = Status(r)
  BY <1>1 DEF Status
<1>4. \A r \in Spaces \ {s}, v \in VPages : Shown(r, v)' = Shown(r, v)
  BY <1>3, Keeps
<1> QED
  BY <1>0, <1>2, <1>3, <1>4, BecomesLive

\* Without memory the kernel stops: an unfinished space shows what it has.
LEMMA OutOfMemoryShows ==
    ASSUME IndInv, IndInv', Next, OutOfMemory
    PROVE  UM!Next \/ UNCHANGED UM!vars
<1>0. /\ TypeOK /\ step'.op = "panic"
      /\ UNCHANGED <<content, pte, areas, cur, disk, checking>>
  BY Before, PanicStep
     DEF OutOfMemory, frameVars, spaceVars, processVars, swapVars
<1>1. CASE step.op # "load"
  BY <1>0, <1>1, Unseen
<1>2. CASE step.op = "load" /\ areas[cur] # {}
  BY <1>0, <1>2, LoadEnds DEF UM!Next
<1>3. CASE step.op = "load" /\ areas[cur] = {}
  <2>1. PICK s \in Spaces : s = cur
    BY <1>0 DEF TypeOK
  <2>2. Status(s)' = "none" /\ \A r \in Spaces \ {s} : Status(r)' = Status(r)
    BY <1>0, <1>3, <2>1 DEF Status
  <2>3. \A r \in Spaces \ {s}, v \in VPages : Shown(r, v)' = Shown(r, v)
    BY <1>0, <2>2, Keeps
  <2>4. UM!Drop(s)
    BY <2>2, <2>3, BecomesEmpty DEF UM!Drop
  <2> QED
    BY <2>4 DEF UM!Next
<1> QED
  BY <1>1, <1>2, <1>3

\* The steps that touch neither pages nor areas.
LEMMA OthersUnseen ==
    ASSUME IndInv, Next,
           \/ \E v \in VPages :
                Read(v) \/ \E write \in BOOLEAN : Fault(v, write) \/ FaultRefused(v, write)
           \/ \E q \in Procs : Spawn(q) \/ Fork(q) \/ Reap(q)
           \/ \E p \in Spaces : Switch(p)
           \/ CopyDir \/ CopyTable \/ LoadDir
    PROVE  UNCHANGED UM!vars
<1>0. TypeOK /\ StepForms /\ User.op = "user" /\ Schedule.op = "schedule"
  BY Before DEF User, Schedule
<1>1. CASE \E v \in VPages : Read(v)
  BY <1>1, Unseen DEF Read, frameVars, spaceVars, processVars, swapVars
<1>2. CASE \E v \in VPages, write \in BOOLEAN : Fault(v, write) \/ FaultRefused(v, write)
  <2>1. UNCHANGED <<content, pte, areas, cur, disk>> /\ step = User
    BY <1>2 DEF Fault, FaultRefused, frameVars, spaceVars, processVars, swapVars
  <2>2. step'.op # "load"
    <3>1. PICK v \in VPages, write \in BOOLEAN : Fault(v, write) \/ FaultRefused(v, write)
      BY <1>2
    <3>2. CASE Fault(v, write)
      <4>1. \/ \E why : step' = Panic(why)
            \/ \E w : step' = [op |-> "fault", page |-> v, w |-> w]
        BY <3>2 DEF Fault
      <4>2. CASE \E why : step' = Panic(why)
        BY <4>2 DEF Panic
      <4>3. CASE \E w : step' = [op |-> "fault", page |-> v, w |-> w]
        BY <4>3
      <4> QED
        BY <4>1, <4>2, <4>3
    <3>3. CASE FaultRefused(v, write)
      <4>1. step' = Panic("page fault refused")
        BY <3>3, Zenon DEF FaultRefused
      <4> QED
        BY <4>1, PanicStep
    <3> QED
      BY <3>1, <3>2, <3>3
  <2> QED
    BY <1>0, <2>1, <2>2, Unseen
<1>3. CASE \E q \in Procs : Spawn(q) \/ Fork(q) \/ Reap(q)
  <2>1. UNCHANGED <<content, pte, areas, cur, disk>> /\ step.op = "user"
    BY <1>0, <1>3 DEF Spawn, Fork, Reap, TakeStack, spaceVars, swapVars
  <2>2. step'.op # "load"
    <3>1. PICK q \in Procs : Spawn(q) \/ Fork(q) \/ Reap(q)
      BY <1>3
    <3>2. CASE Fork(q)
      <4>1. step' = [op |-> "copy", to |-> q, todo |-> PagesToCopy(cur)]
        BY <3>2, Zenon DEF Fork
      <4> QED
        BY <4>1
    <3>3. CASE Spawn(q) \/ Reap(q)
      BY <2>1, <3>3 DEF Spawn, Reap
    <3> QED
      BY <3>1, <3>2, <3>3
  <2> QED
    BY <2>1, <2>2, Unseen
<1>4. CASE \E p \in Spaces : Switch(p)
  <2>1. UNCHANGED <<content, pte, areas, disk>> /\ step.op # "load" /\ step'.op # "load"
    BY <1>0, <1>4 DEF Switch, frameVars, spaceVars, swapVars
  <2> QED
    BY <2>1, Unseen
<1>5. CASE CopyDir \/ CopyTable \/ LoadDir
  BY <1>5, Unseen DEF CopyDir, CopyTable, LoadDir, NewDir, AddTable, processVars, swapVars
<1> QED
  BY <1>1, <1>2, <1>3, <1>4, <1>5

\* Every step is one of the private memories, or shows nothing.
LEMMA StepShows ==
    ASSUME IndInv, IndInv', LiveOK, Next
    PROVE  UM!Next \/ UNCHANGED UM!vars
<1>0. /\ TypeOK /\ StepForms /\ Active \in Spaces /\ Idle \in Spaces
      /\ step.op = "fault" => step.page \in VPages
  BY Before, SpaceFacts DEF Active, TypeOK, StepForms
<1>1. CASE Access
  <2>1. PICK v \in VPages : \/ Read(v)
                            \/ \E x \in Vals : Write(v, x)
                            \/ \E write \in BOOLEAN : Fault(v, write) \/ FaultRefused(v, write)
    BY <1>1, Zenon DEF Access
  <2>2. ASSUME NEW x \in Vals, Write(v, x) PROVE UM!Next
    BY <1>0, <2>2, WriteShows DEF UM!Next
  <2>3. CASE Read(v) \/ \E write \in BOOLEAN : Fault(v, write) \/ FaultRefused(v, write)
    BY <2>3, OthersUnseen, Zenon
  <2> QED
    BY <2>1, <2>2, <2>3
<1>2. CASE FaultPage
  BY <1>0, <1>2, FaultPageShows DEF FaultPage, UM!Next
<1>3. CASE FaultSwapIn
  BY <1>3, SwapInShows
<1>4. CASE Evict
  BY <1>4, EvictShows
<1>5. CASE EndCheck
  BY <1>0, <1>5, EndCheckShows DEF UM!Next
<1>6. CASE \/ \E q \in Procs : Spawn(q) \/ Fork(q) \/ Reap(q)
           \/ \E p \in Spaces : Switch(p)
           \/ CopyDir \/ CopyTable \/ LoadDir
  BY <1>6, OthersUnseen, Zenon
<1>7. CASE CopyPage
  BY <1>7, CopyPageShows
<1>8. CASE CopyEnd
  BY <1>8, CopyEndShows DEF UM!Next
<1>9. CASE LoadRefused \/ Exit \/ \E image \in Images : Exec(image)
  <2>1. /\ ~checking /\ Release(cur) /\ UNCHANGED cur /\ step'.op \in {"load", "schedule"}
        /\ step.op = "load" \/ step = User
    BY <1>9, Before DEF LoadRefused, Loading, Exit, Exec, LoadOK, Schedule, processVars
  <2>2. PICK s \in Spaces : IF step'.op = "load" THEN UM!Load(s) ELSE UM!Drop(s)
    BY <2>1, ReleaseEmpties
  <2> QED
    BY <2>2 DEF UM!Next
<1>10. CASE LoadArea
  BY <1>10, LoadAreaShows
<1>11. CASE LoadPage
  BY <1>11, LoadPageShows
<1>12. CASE LoadOverlap \/ LoadEnd
  <2>1. /\ step.op = "load" /\ areas[cur] # {}
        /\ UNCHANGED <<content, pte, areas, cur, disk, checking>>
    BY <1>12 DEF LoadOverlap, Overlapped, LoadEnd, Loading, LiveOK, LoadsAreas,
                 frameVars, spaceVars, processVars, swapVars
  <2>2. step'.op \in {"user", "panic"}
    <3>1. CASE LoadEnd
      BY <3>1 DEF LoadEnd, User
    <3>2. CASE LoadOverlap
      <4>1. step' = Panic("areas overlap")
        BY <3>2, Zenon DEF LoadOverlap
      <4> QED
        BY <4>1, PanicStep
    <3> QED
      BY <1>12, <3>1, <3>2
  <2>3. PICK s \in Spaces : UM!Loaded(s)
    BY <2>1, <2>2, LoadEnds
  <2> QED
    BY <2>3 DEF UM!Next
<1>13. CASE OutOfMemory
  BY <1>13, OutOfMemoryShows
<1> QED
  BY <1>1, <1>2, <1>3, <1>4, <1>5, <1>6, <1>7, <1>8, <1>9, <1>10, <1>11, <1>12, <1>13, Zenon
     DEF Next

\* Each address space is a private memory: every page holds what was last written to it,
\* fork makes an equal copy, and swapping and the other processes are invisible
\* (do_pgfault, swap_in, swap_out, copy_range, load_icode, exit_mmap).
THEOREM MemoryRefinement == Spec => ImplementsUserMemory
<1>1. ASSUME Init PROVE UM!Init /\ LiveOK
  <2>1. /\ \A s \in Spaces : Status(s) = IF s = Idle THEN "live" ELSE "none"
        /\ \A s \in Spaces, v \in VPages : pte[s][v] = None
    BY <1>1 DEF Init, Status, User
  <2>2. \A s \in Spaces, v \in VPages : Shown(s, v) = None
    BY <2>1 DEF Shown
  <2>3. UM!Init
    BY <2>1, <2>2 DEF UM!Init, UM!Empty, Memories, Statuses
  <2>4. HasAreas /\ LoadsAreas /\ CopiesEqual
    BY <1>1 DEF Init, HasAreas, LoadsAreas, CopiesEqual, User
  <2> QED
    BY <2>3, <2>4 DEF LiveOK
<1>2. ASSUME IndInv, LiveOK, UNCHANGED vars PROVE LiveOK' /\ UNCHANGED UM!vars
  <2>1. UNCHANGED <<content, dir, pte, areas, disk, cur, step>>
    BY <1>2 DEF vars, frameVars, spaceVars, processVars, swapVars
  <2>2. HasAreas' /\ LoadsAreas' /\ CopiesEqual'
    BY <1>2, <2>1 DEF LiveOK, HasAreas, LoadsAreas, CopiesEqual, Mapped, Present
  <2> QED
    BY <2>1, <2>2, Unseen DEF LiveOK
<1>3. ASSUME IndInv, LiveOK, Next PROVE LiveOK'
  BY <1>3, HasAreasNext, LoadsAreasNext, CopiesEqualNext DEF LiveOK
<1>4. IndInv /\ IndInv' /\ LiveOK /\ [Next]_vars => LiveOK' /\ [UM!Next]_UM!vars
  BY <1>2, <1>3, StepShows
<1>5. Init => UM!Init /\ LiveOK
  BY <1>1
<1> QED
  BY <1>4, <1>5, Invariant, PTL DEF Spec, ImplementsUserMemory, UM!Spec
====
