------------------------------- MODULE Memory -------------------------------
(* Physical pages, page tables, address spaces and swapping (kern/mm/pmm.c,  *)
(* vmm.c, swap.c, swap_fifo.c and their callers in kern/process/proc.c).     *)
(*                                                                           *)
(* The kernel is not preempted and nothing here sleeps, so one kernel        *)
(* operation runs at a time: `step' says which, and its loops take one       *)
(* action per page.  The system starts inside check_swap(), where the idle   *)
(* thread uses the boot page directory, a handful of frames and FIFO         *)
(* replacement; afterwards check_mm_struct is NULL, no page is swappable     *)
(* and an alloc_page() that finds nothing makes swap_out() panic.            *)
EXTENDS Integers, FiniteSets, SequencesExt

CONSTANTS Procs,        \* slots of user processes
          NFrames,      \* physical pages
          NCheck,       \* CHECK_VALID_PHY_PAGE_NUM
          NPages,       \* virtual pages of a user address space
          PTSpan,       \* pages that one page table maps
          KSTACKPAGE,   \* contiguous pages of a kernel stack
          Images,       \* programs: sequences of ELF segments
          Stack,        \* the segment of the user stack
          Vals,         \* what a page may contain
          Idle,         \* the idle thread, owner of check_mm_struct
          Swapped,      \* a page table entry that names the swap slot of its page
          None

ASSUME MemoryConstants ==
    /\ Idle \notin Procs
    /\ {NFrames, NCheck, NPages, PTSpan, KSTACKPAGE} \subseteq Nat \ {0}
    /\ NCheck < NFrames /\ PTSpan <= NPages

Frames == 0..(NFrames - 1)
VPages == 0..(NPages - 1)
Entries == [frame : Frames, w : BOOLEAN]
Segments == [from : VPages, to : 0..NPages, w : BOOLEAN, fill : Vals \union {None},
             pages : Seq(VPages)]

(* load_icode puts a page everywhere in the area of a segment, and into the  *)
(* area of the stack, which one page table maps, a few at the top.           *)
IsLoadable(segment) ==
    /\ segment \in Segments
    /\ IsInjective(segment.pages)
    /\ ToSet(segment.pages) \subseteq segment.from..(segment.to - 1)
    /\ \A v \in segment.from..(segment.to - 1) :
          \E u \in ToSet(segment.pages) : u \div PTSpan = v \div PTSpan

ASSUME ProgramConstants ==
    /\ Images \subseteq Seq(Segments) /\ IsLoadable(Stack)
    /\ \A image \in Images : \A i \in DOMAIN image : IsLoadable(image[i])
    /\ None \notin Int \union Vals \union Entries
    /\ Swapped \notin Entries \union {None}

Spaces == Procs \union {Idle}
Tables == {v \div PTSpan : v \in VPages}
Boot   == -1                          \* boot_cr3

CheckTable == NCheck                  \* the frame of the page table of check_swap
CheckArea  == [from |-> 0, to |-> PTSpan, w |-> TRUE]

VARIABLES
    free,       \* frames in free_list
    stored,     \* frames put aside by check_swap (free_list_store)
    ref,        \* page_ref
    content,    \* contents of the frames that are mapped
    state,      \* state[p]: unused, alive or zombie
    kstack,     \* first frame of the kernel stack, or None
    dir,        \* frame of the page directory, Boot, or None (mm = NULL)
    tab,        \* frame of each page table
    pte,        \* page table entries
    areas,      \* mmap_list, as a set of areas
    fifo,       \* pra_list_head, oldest first, with pra_vaddr
    disk,       \* swap slot of each page, while an entry names it
    checking,   \* check_mm_struct # NULL
    cur,        \* current
    cr3, tlb,   \* the directory in use and the entries cached from it
    step        \* the kernel operation that is running

frameVars   == <<free, stored, ref, content>>
spaceVars   == <<dir, tab, pte, areas>>
processVars == <<state, kstack, cur>>
swapVars    == <<fifo, disk, checking>>
vars == <<frameVars, spaceVars, processVars, swapVars, cr3, tlb, step>>

User      == [op |-> "user"]
Schedule  == [op |-> "schedule"]
Panic(why) == [op |-> "panic", why |-> why]

-----------------------------------------------------------------------------
(* Looking things up. *)

Table(v)      == v \div PTSpan
Active        == IF checking THEN Idle ELSE cur      \* the mm that pgfault_handler takes
Present(s, v) == pte[s][v] \notin {None, Swapped}
Mapped(s)     == {v \in VPages : Present(s, v)}
Covering(s, v) == {a \in areas[s] : a.from <= v /\ v < a.to}     \* find_vma
Cached(v)     == {e \in tlb : e.page = v}
Entry(v)      == [page |-> v, frame |-> pte[Active][v].frame, w |-> pte[Active][v].w]

(* The translation the processor uses: the cached entry if there is one, the *)
(* page table otherwise.                                                     *)
Translation(v) == IF Cached(v) # {} THEN Cached(v)
                  ELSE IF Present(Active, v) THEN {Entry(v)} ELSE {}

(* default_alloc_pages(1): first fit in a list in address order. *)
Frame == Min(free)

Runs(n) == {f \in free : f..(f + n - 1) \subseteq free}

(* page_insert: one more reference, the entry, and the cached translation    *)
(* dropped if the tables are the ones in use.                                *)
Insert(s, v, f, w) ==
    /\ pte' = [pte EXCEPT ![s][v] = [frame |-> f, w |-> w]]
    /\ tlb' = IF cr3 = dir[s] THEN tlb \ Cached(v) ELSE tlb

\* variant: a process directory loaded over another keeps its translations
lcr3Lazy(d) == cr3' = d /\ tlb' = IF d = Boot THEN {} ELSE tlb

(* Loading a directory drops every translation cached from the last one. *)
lcr3(d) == cr3' = d /\ tlb' = {}

\* variant: a page read back from its slot is not made swappable again
MapSwappableOnce(f, v) ==
    fifo' = IF disk[v] # None THEN fifo ELSE Append(fifo, [frame |-> f, page |-> v])

(* swap_map_swappable: the page is the newest in pra_list_head. *)
MapSwappable(f, v) == fifo' = Append(fifo, [frame |-> f, page |-> v])

(* get_pte(create): a cleared page becomes the page table. *)
AddTable(s, v) ==
    /\ free # {}
    /\ tab[s][Table(v)] = None
    /\ tab' = [tab EXCEPT ![s][Table(v)] = Frame]
    /\ free' = free \ {Frame}
    /\ ref' = [ref EXCEPT ![Frame] = 1]
    /\ UNCHANGED <<stored, content, dir, pte, areas, processVars, swapVars, cr3, tlb, step>>

(* exit_mmap, put_pgdir and mm_destroy: references dropped page by page, a   *)
(* frame freed with the last one, then the page tables and the directory.    *)
Pages(s)      == {pte[s][v].frame : v \in Mapped(s)}
Unreferenced(s) == {f \in Pages(s) : ref[f] = 1}
TableFrames(s) == {tab[s][t] : t \in Tables} \ {None}
\* variant: exit_range left out
FreedNoTables(s) == Unreferenced(s) \union ({dir[s]} \ {None})

Freed(s) == Unreferenced(s) \union TableFrames(s) \union ({dir[s]} \ {None})

Release(s) ==
    /\ free' = free \union Freed(s)
    /\ ref' = [f \in Frames |-> IF f \in Freed(s) THEN 0
                                ELSE IF f \in Pages(s) THEN ref[f] - 1 ELSE ref[f]]
    /\ content' = [f \in Frames |-> IF f \in Freed(s) THEN None ELSE content[f]]
    /\ dir' = [dir EXCEPT ![s] = None]
    /\ tab' = [tab EXCEPT ![s] = [t \in Tables |-> None]]
    /\ pte' = [pte EXCEPT ![s] = [v \in VPages |-> None]]
    /\ areas' = [areas EXCEPT ![s] = {}]

-----------------------------------------------------------------------------
(* check_swap has set up its mm, one page table and its frames. *)
Init ==
    /\ free = 0..(NCheck - 1)
    /\ stored = {f \in Frames : f > CheckTable}
    /\ ref = [f \in Frames |-> IF f = CheckTable THEN 1 ELSE 0]
    /\ content = [f \in Frames |-> None]
    /\ state = [p \in Spaces |-> IF p = Idle THEN "alive" ELSE "unused"]
    /\ kstack = [p \in Procs |-> None]
    /\ dir = [s \in Spaces |-> IF s = Idle THEN Boot ELSE None]
    /\ tab = [s \in Spaces |-> [t \in Tables |->
                IF s = Idle /\ t = Table(0) THEN CheckTable ELSE None]]
    /\ pte = [s \in Spaces |-> [v \in VPages |-> None]]
    /\ areas = [s \in Spaces |-> IF s = Idle THEN {CheckArea} ELSE {}]
    /\ fifo = <<>> /\ disk = [v \in VPages |-> None] /\ checking = TRUE
    /\ cur = Idle /\ cr3 = Boot /\ tlb = {}
    /\ step = User

(* The end of check_swap: its frames and page table are freed into a list    *)
(* that is then overwritten by the stored one; no translation is dropped.    *)
EndCheck ==
    /\ checking /\ step = User
    /\ checking' = FALSE
    /\ free' = stored /\ stored' = {}
    /\ ref' = [f \in Frames |-> 0]
    /\ content' = [f \in Frames |-> None]
    /\ tab' = [tab EXCEPT ![Idle] = [t \in Tables |-> None]]
    /\ pte' = [pte EXCEPT ![Idle] = [v \in VPages |-> None]]
    /\ areas' = [areas EXCEPT ![Idle] = {}]
    /\ dir' = [dir EXCEPT ![Idle] = None]
    /\ disk' = [v \in VPages |-> None]
    /\ UNCHANGED <<processVars, fifo, cr3, tlb, step>>

-----------------------------------------------------------------------------
(* The program reads and writes.  One cached entry is kept. *)
Read(v) ==
    /\ step = User /\ areas[Active] # {}
    /\ \E e \in Translation(v) : tlb' = {e}
    /\ UNCHANGED <<frameVars, spaceVars, processVars, swapVars, cr3, step>>

Write(v, x) ==
    /\ step = User /\ areas[Active] # {}
    /\ \E e \in Translation(v) : /\ e.w
                                 /\ tlb' = {e}
                                 /\ content' = [content EXCEPT ![e.frame] = x]
    /\ UNCHANGED <<free, stored, ref, spaceVars, processVars, swapVars, cr3, step>>

Faults(v, write) == \A e \in Translation(v) : write /\ ~e.w

(* do_pgfault up to get_pte: the area must allow the access; a present page  *)
(* that is written and has no permission in its entry is a panic.            *)
Fault(v, write) ==
    /\ step = User /\ areas[Active] # {}
    /\ Faults(v, write)
    /\ \E a \in Covering(Active, v) :
          /\ write => a.w
          /\ step' = IF Present(Active, v) THEN Panic("error write a non-writable pte")
                     ELSE [op |-> "fault", page |-> v, w |-> a.w]
    /\ tlb' = tlb \ Cached(v)
    /\ UNCHANGED <<frameVars, spaceVars, processVars, swapVars, cr3>>

(* An access outside the areas, or one its area forbids: pgfault_handler     *)
(* fails and trap_dispatch panics.  Every area can be read where a page may  *)
(* be absent, in the stack's and check_swap's: load_icode fills the others.  *)
FaultRefused(v, write) ==
    /\ ~checking /\ step = User /\ areas[Active] # {}
    /\ Faults(v, write)
    /\ \A a \in Covering(Active, v) : write /\ ~a.w
    /\ step' = Panic("page fault refused")
    /\ UNCHANGED <<frameVars, spaceVars, processVars, swapVars, cr3, tlb>>

(* get_pte finds the page table there: every area was given its tables when  *)
(* it was loaded.  pgdir_alloc_page: whatever the frame held is what the     *)
(* program finds.  Only while check_mm_struct is set does the page become    *)
(* swappable.                                                                *)
FaultPage ==
    /\ step.op = "fault" /\ free # {}
    /\ pte[Active][step.page] = None
    /\ free' = free \ {Frame}
    /\ ref' = [ref EXCEPT ![Frame] = @ + 1]
    /\ \E x \in Vals : content' = [content EXCEPT ![Frame] = x]
    /\ Insert(Active, step.page, Frame, step.w)
    /\ IF checking THEN MapSwappable(Frame, step.page) ELSE UNCHANGED fifo
    /\ step' = User
    /\ UNCHANGED <<stored, dir, tab, areas, processVars, disk, checking, cr3>>

(* swap_in, page_insert and swap_map_swappable. *)
FaultSwapIn ==
    /\ step.op = "fault" /\ free # {}
    /\ pte[Active][step.page] = Swapped
    /\ free' = free \ {Frame}
    /\ ref' = [ref EXCEPT ![Frame] = @ + 1]
    /\ content' = [content EXCEPT ![Frame] = disk[step.page]]
    /\ disk' = [disk EXCEPT ![step.page] = None]
    /\ Insert(Active, step.page, Frame, step.w)
    /\ MapSwappable(Frame, step.page)
    /\ step' = User
    /\ UNCHANGED <<stored, dir, tab, areas, processVars, checking, cr3>>

(* swap_out, called by alloc_pages when nothing is free: the oldest page goes *)
(* to its slot, its entry names the slot, its frame is free.                  *)
Evict ==
    /\ step.op = "fault" /\ checking /\ free = {}
    /\ fifo # <<>>
    /\ LET f == Head(fifo).frame
           v == Head(fifo).page
       IN /\ disk' = [disk EXCEPT ![v] = content[f]]
          /\ pte' = [pte EXCEPT ![Idle][v] = Swapped]
          /\ free' = free \union {f}
          /\ ref' = [ref EXCEPT ![f] = 0]
          /\ content' = [content EXCEPT ![f] = None]
          /\ tlb' = tlb \ Cached(v)
    /\ fifo' = Tail(fifo)
    /\ UNCHANGED <<stored, dir, tab, areas, processVars, checking, cr3, step>>

-----------------------------------------------------------------------------
(* Processes: kernel stacks, fork, exec, exit. *)

(* setup_kstack: contiguous frames.  When there are none, do_fork frees the  *)
(* process structure and returns: nothing here has changed.                  *)
TakeStack(q) ==
    /\ ~checking /\ step = User
    /\ state[q] = "unused" /\ Runs(KSTACKPAGE) # {}
    /\ LET f == Min(Runs(KSTACKPAGE))
       IN /\ kstack' = [kstack EXCEPT ![q] = f]
          /\ free' = free \ (f..(f + KSTACKPAGE - 1))

(* kernel_thread: no mm to copy. *)
Spawn(q) ==
    /\ cur = Idle
    /\ TakeStack(q)
    /\ state' = [state EXCEPT ![q] = "alive"]
    /\ UNCHANGED <<stored, ref, content, spaceVars, cur, swapVars, cr3, tlb, step>>

\* variant: dup_mmap stops before the first area of the list
PagesToCopyShort(s) == Mapped(s) \ {Min({a.from : a \in areas[s]})}

PagesToCopy(s) == Mapped(s)

Fork(q) ==
    /\ cur # Idle /\ dir[cur] # None
    /\ TakeStack(q)
    /\ step' = [op |-> "copy", to |-> q, todo |-> PagesToCopy(cur)]
    /\ UNCHANGED <<stored, ref, content, spaceVars, state, cur, swapVars, cr3, tlb>>

(* mm_create, which empties the one pra_list_head there is, and setup_pgdir. *)
NewDir(s) ==
    /\ free # {} /\ dir[s] = None
    /\ dir' = [dir EXCEPT ![s] = Frame]
    /\ free' = free \ {Frame}
    /\ fifo' = <<>>
    /\ UNCHANGED <<stored, ref, content, tab, pte, areas, processVars, disk, checking, cr3, tlb, step>>

CopyDir   == step.op = "copy" /\ NewDir(step.to)

(* dup_mmap walks the areas backwards and copy_range the pages of each       *)
(* forwards; pages that are not present are passed over.                     *)
CopiedBefore(v, w) ==
    \E a \in Covering(cur, v), b \in Covering(cur, w) : a.from > b.from \/ (a = b /\ v < w)
NextToCopy == {v \in step.todo : \A w \in step.todo \ {v} : CopiedBefore(v, w)}

CopyTable == step.op = "copy" /\ dir[step.to] # None
             /\ \E v \in NextToCopy : AddTable(step.to, v)

CopyPage ==
    /\ step.op = "copy" /\ dir[step.to] # None /\ free # {}
    /\ \E v \in NextToCopy :
          /\ tab[step.to][Table(v)] # None
          /\ content' = [content EXCEPT ![Frame] = content[pte[cur][v].frame]]
          /\ Insert(step.to, v, Frame, pte[cur][v].w)
          /\ step' = [step EXCEPT !.todo = @ \ {v}]
    /\ free' = free \ {Frame}
    /\ ref' = [ref EXCEPT ![Frame] = @ + 1]
    /\ UNCHANGED <<stored, dir, tab, areas, processVars, swapVars, cr3>>

CopyEnd ==
    /\ step.op = "copy" /\ dir[step.to] # None /\ step.todo = {}
    /\ areas' = [areas EXCEPT ![step.to] = areas[cur]]
    /\ state' = [state EXCEPT ![step.to] = "alive"]
    /\ step' = User
    /\ UNCHANGED <<frameVars, dir, tab, pte, kstack, cur, swapVars, cr3, tlb>>

(* do_execve: the old space goes, then load_icode builds the new one segment *)
(* by segment and the stack last.                                            *)
Exec(image) ==
    /\ ~checking /\ step = User /\ cur # Idle
    /\ Release(cur)
    /\ lcr3(Boot)
    /\ step' = [op |-> "load", segments |-> Append(image, Stack), pages |-> <<>>]
    /\ UNCHANGED <<stored, processVars, swapVars>>

Segment == Head(step.segments)
LoadDir == step.op = "load" /\ NewDir(cur)

Loading == step.op = "load" /\ dir[cur] # None

\* variant: check_vma_overlap left out, only mm_map looks, at the start
OverlappedAtStart == Covering(cur, Segment.from)

Overlapped == {a \in areas[cur] : Segment.from < a.to /\ a.from < Segment.to}

(* mm_map *)
LoadArea ==
    /\ Loading /\ step.pages = <<>> /\ step.segments # <<>>
    /\ Overlapped = {}
    /\ areas' = [areas EXCEPT ![cur] = @ \union
                    {[from |-> Segment.from, to |-> Segment.to, w |-> Segment.w]}]
    /\ step' = [op |-> "load", segments |-> Tail(step.segments), pages |-> Segment.pages,
                w |-> Segment.w, fill |-> Segment.fill]
    /\ UNCHANGED <<frameVars, dir, tab, pte, processVars, swapVars, cr3, tlb>>

(* load_icode gives up: no area has been made and the file is no ELF file, a *)
(* header of a segment of the program is bad (p_filesz above p_memsz, or     *)
(* addresses that mm_map does not take), or mm_map meets an area at the start*)
(* of the segment.  The process has no space any more and exits.             *)
LoadRefused ==
    /\ Loading /\ step.pages = <<>> /\ step.segments # <<>>
    /\ \/ areas[cur] = {}
       \/ Len(step.segments) > 1
       \/ Covering(cur, Segment.from) # {}
    /\ Release(cur)
    /\ state' = [state EXCEPT ![cur] = "zombie"]
    /\ step' = Schedule
    /\ UNCHANGED <<stored, kstack, cur, swapVars, cr3, tlb>>

(* An area that begins inside the segment is met by check_vma_overlap only. *)
LoadOverlap ==
    /\ Loading /\ step.pages = <<>> /\ step.segments # <<>>
    /\ Covering(cur, Segment.from) = {} /\ Overlapped # {}
    /\ step' = Panic("areas overlap")
    /\ UNCHANGED <<frameVars, spaceVars, processVars, swapVars, cr3, tlb>>

(* pgdir_alloc_page takes the page first and page_insert the table, if there *)
(* is none; a stack page keeps what the frame held.                          *)
LoadPage ==
    /\ Loading /\ step.pages # <<>>
    /\ LET v == Head(step.pages)
           f == Frame
           bare == tab[cur][Table(v)] = None
           t == Min(free \ {f})
       IN /\ Cardinality(free) >= IF bare THEN 2 ELSE 1
          /\ free' = free \ (IF bare THEN {f, t} ELSE {f})
          /\ tab' = IF bare THEN [tab EXCEPT ![cur][Table(v)] = t] ELSE tab
          /\ ref' = [g \in Frames |-> IF g = f THEN ref[f] + 1
                                      ELSE IF bare /\ g = t THEN 1 ELSE ref[g]]
          /\ \E x \in IF step.fill = None THEN Vals ELSE {step.fill} :
                content' = [content EXCEPT ![f] = x]
          /\ Insert(cur, v, f, step.w)
    /\ step' = [step EXCEPT !.pages = Tail(@)]
    /\ UNCHANGED <<stored, dir, areas, processVars, swapVars, cr3>>

LoadEnd ==
    /\ Loading /\ step.pages = <<>> /\ step.segments = <<>>
    /\ lcr3(dir[cur])
    /\ step' = User
    /\ UNCHANGED <<frameVars, spaceVars, processVars, swapVars>>

(* do_exit *)
Exit ==
    /\ ~checking /\ step = User /\ cur # Idle
    /\ Release(cur)
    /\ lcr3(Boot)
    /\ state' = [state EXCEPT ![cur] = "zombie"]
    /\ step' = Schedule
    /\ UNCHANGED <<stored, kstack, cur, swapVars>>

(* put_kstack, called by do_wait. *)
Reap(q) ==
    /\ ~checking /\ step = User
    /\ state[q] = "zombie"
    /\ free' = free \union (kstack[q]..(kstack[q] + KSTACKPAGE - 1))
    /\ kstack' = [kstack EXCEPT ![q] = None]
    /\ state' = [state EXCEPT ![q] = "unused"]
    /\ UNCHANGED <<stored, ref, content, spaceVars, cur, swapVars, cr3, tlb, step>>

(* proc_run *)
Switch(p) ==
    /\ ~checking /\ step \in {User, Schedule}
    /\ p # cur /\ state[p] = "alive"
    /\ cur' = p
    /\ lcr3(IF dir[p] = None THEN Boot ELSE dir[p])
    /\ step' = User
    /\ UNCHANGED <<frameVars, spaceVars, state, kstack, swapVars>>

(* alloc_page() with nothing free and check_mm_struct = NULL: swap_out reads *)
(* through the null pointer.                                                 *)
FramesWanted ==
    CASE step.op = "fault" -> 1
      [] step.op = "copy"  -> IF dir[step.to] = None \/ step.todo # {} THEN 1 ELSE 0
      [] step.op = "load"  -> IF dir[cur] = None THEN 1
                              ELSE IF step.pages = <<>> THEN 0
                              ELSE IF tab[cur][Table(Head(step.pages))] = None THEN 2 ELSE 1
      [] OTHER             -> 0

OutOfMemory ==
    /\ ~checking
    /\ Cardinality(free) < FramesWanted
    /\ step' = Panic("out of memory")
    /\ UNCHANGED <<frameVars, spaceVars, processVars, swapVars, cr3, tlb>>

Access == \E v \in VPages : \/ Read(v)
                            \/ \E x \in Vals : Write(v, x)
                            \/ \E write \in BOOLEAN : Fault(v, write) \/ FaultRefused(v, write)

Next ==
    \/ Access \/ FaultPage \/ FaultSwapIn \/ Evict \/ EndCheck
    \/ \E q \in Procs : Spawn(q) \/ Fork(q) \/ Reap(q)
    \/ CopyDir \/ CopyTable \/ CopyPage \/ CopyEnd
    \/ \E image \in Images : Exec(image)
    \/ LoadDir \/ LoadArea \/ LoadRefused \/ LoadOverlap \/ LoadPage \/ LoadEnd
    \/ Exit
    \/ \E p \in Spaces : Switch(p)
    \/ OutOfMemory

Spec == Init /\ [][Next]_vars

-----------------------------------------------------------------------------
(* What each frame is used for; a frame used twice is listed twice. *)
StackFrames(p) == IF kstack[p] = None THEN {} ELSE kstack[p]..(kstack[p] + KSTACKPAGE - 1)
Uses(f) ==
    {<<"stack", p>> : p \in {q \in Procs : f \in StackFrames(q)}}
    \union {<<"dir", s>> : s \in {t \in Spaces : dir[t] = f}}
    \union {<<"table", u[1], u[2]>> : u \in {x \in Spaces \X Tables : tab[x[1]][x[2]] = f}}
    \union {<<"page", u[1], u[2]>> : u \in {x \in Spaces \X VPages :
                /\ Present(x[1], x[2]) /\ pte[x[1]][x[2]].frame = f}}
References(f) == {u \in Uses(f) : u[1] \in {"table", "page"}}
Lost == IF checking THEN {} ELSE 0..CheckTable

(* Through every fork, exec, exit, fault, eviction and failure each frame is *)
(* free, put aside or used for exactly one thing, its reference count says   *)
(* how many tables and pages use it, and the only frames that are ever lost  *)
(* are those check_swap leaves behind (alloc_pages, free_pages, page_insert, *)
(* page_remove_pte, put_kstack, put_pgdir).                                  *)
PagesAccounted ==
    \A f \in Frames :
        /\ Cardinality(Uses(f)) = IF f \in free \union stored \union Lost THEN 0 ELSE 1
        /\ ref[f] = Cardinality(References(f))
        /\ free \intersect (stored \union Lost) = {}

(* While a program can touch its memory, a cached translation is one that    *)
(* its page table still holds (tlb_invalidate, lcr3 in proc_run, do_execve,  *)
(* do_exit and load_icode).                                                  *)
TlbCoherent ==
    step = User /\ areas[Active] # {} =>
        \A e \in tlb : Present(Active, e.page) /\ e = Entry(e.page)

(* A page is mapped only inside an area, of which there is one, with the     *)
(* permission of the area, so a fault on a present page is never one that    *)
(* the area allows and do_pgfault's "error write a non-writable pte" is      *)
(* unreachable; and a page that faults has its page table (mm_map, dup_mmap, *)
(* copy_range, load_icode, do_pgfault).                                      *)
EntriesFollowAreas ==
    /\ \A s \in Spaces : step = User /\ state[s] = "alive" =>
         \A v \in Mapped(s) : \E a \in areas[s] :
            Covering(s, v) = {a} /\ pte[s][v].w = a.w
    /\ step.op = "fault" => tab[Active][Table(step.page)] # None
    /\ (step.op = "panic" => step # Panic("error write a non-writable pte"))

(* pra_list_head lists each present page of the checked mm once, with its    *)
(* frame, and a page that was swapped out keeps its slot (swap_fifo.c,       *)
(* swap_out, swap_in).                                                       *)
FifoExact ==
    checking =>
        /\ IsInjective(fifo)
        /\ ToSet(fifo) = {[frame |-> pte[Idle][v].frame, page |-> v] : v \in Mapped(Idle)}
        /\ \A v \in VPages : (pte[Idle][v] = Swapped) <=> (disk[v] # None)

(* Every space implements a private memory: a page keeps what was last       *)
(* written to it, a fork copies, and swapping and the other processes are    *)
(* invisible (do_pgfault, swap_out, swap_in, copy_range, exit_mmap).         *)
Status(s) == IF step.op = "load" /\ s = cur THEN "loading"
             ELSE IF areas[s] # {} THEN "live" ELSE "none"
Shown(s, v) == IF Status(s) # "live" \/ pte[s][v] = None THEN None
               ELSE IF pte[s][v] = Swapped THEN disk[v]
               ELSE content[pte[s][v].frame]
Memories == [s \in Spaces |-> [v \in VPages |-> Shown(s, v)]]
Statuses == [s \in Spaces |-> Status(s)]

UM == INSTANCE UserMemory WITH mem <- Memories, status <- Statuses, Checked <- Idle

ImplementsUserMemory == UM!Spec
=============================================================================
