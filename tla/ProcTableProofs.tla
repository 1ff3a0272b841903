--------------------------- MODULE ProcTableProofs ---------------------------
(***************************************************************************)
(* The tables of proc.c and sched.c, and the stride class that schedules   *)
(* their processes, for any number of processes, any pid range, any bound  *)
(* on the timers and any number of strides. get_pid never hands out a pid  *)
(* in use, whatever the order of the process list. The family pointers     *)
(* always form sibling lists that do_wait's walk follows to every child    *)
(* and to its end, and fork, exit and wait on them do what ProcFamily      *)
(* promises. The timer list, a list of differences, does what Timers       *)
(* promises. The skew heap of the stride class loses no process, and its   *)
(* strides stay comparable if whoever joins it has one that is.            *)
(***************************************************************************)
EXTENDS ProcTable, Stride, FiniteSetTheorems, WellFoundedInduction, TLAPS

-----------------------------------------------------------------------------
(* get_pid.                                                                *)

LEMMA PidInit == Init => IndInv
  BY PidAssumption
     DEF Init, IndInv, TypeOK, GapFree, PidFresh, CandidateFree, Pid

LEMMA PidStep == IndInv /\ [Next]_vars => IndInv'
<1> SUFFICES ASSUME IndInv, [Next]_vars PROVE IndInv'
  OBVIOUS
<1> USE PidAssumption DEF IndInv, TypeOK, GapFree, PidFresh, CandidateFree, Pid
<1>1. CASE Call
  <2>1. CASE pc' = "scan"
    BY <1>1, <2>1 DEF Call, Inside
  <2>2. CASE pc' = "return"
    <3>1. /\ last_pid' = last_pid + 1 /\ last_pid + 1 < next_safe
          /\ UNCHANGED <<pids, next_safe, seen>>
      BY <1>1, <2>2 DEF Call, Inside
    <3>2. last_pid + 1 \in Pid \ pids
      BY <1>1, <3>1 DEF Call
    <3> QED
      BY <1>1, <2>2, <3>1, <3>2 DEF Call
  <2> QED
    BY <1>1, <2>1, <2>2 DEF Call, Inside
<1>2. CASE ScanTaken
  <2>1. CASE last_pid + 1 < next_safe
    <3>1. last_pid + 1 \in Pid \ (seen \cup {last_pid})
      BY <1>2, <2>1 DEF ScanTaken
    <3>2. /\ last_pid' = last_pid + 1 /\ seen' = seen \cup {last_pid}
          /\ UNCHANGED <<pids, next_safe, pc>> /\ pc = "scan"
      BY <1>2, <2>1 DEF ScanTaken, Inside
    <3> QED
      BY <1>2, <2>1, <3>1, <3>2 DEF ScanTaken
  <2>2. CASE last_pid + 1 >= next_safe
    BY <1>2, <2>2 DEF ScanTaken, Inside
  <2> QED
    BY <2>1, <2>2
<1>3. CASE ScanEnd
  BY <1>3 DEF ScanEnd
<1>4. CASE \E pid \in Pid : ScanOther(pid)
  BY <1>4 DEF ScanOther
<1>5. CASE Fork
  BY <1>5 DEF Fork
<1>6. CASE \E pid \in Pid : Reap(pid)
  BY <1>6 DEF Reap
<1>7. CASE UNCHANGED vars
  BY <1>7 DEF vars
<1> QED
  BY <1>1, <1>2, <1>3, <1>4, <1>5, <1>6, <1>7 DEF Next, Scan

LEMMA PidInductive == Spec => []IndInv
  BY PidInit, PidStep, PTL DEF Spec

(* The pid that get_pid returns is in range and belongs to no process in   *)
(* the list.                                                               *)
THEOREM PidFreshCorrect == Spec => []PidFresh
<1>1. IndInv => PidFresh
  BY DEF IndInv
<1> QED
  BY <1>1, PidInductive, PTL

(* The gap that lets get_pid skip the scan stays free of pids in use       *)
(* across any sequence of forks and reaps.                                 *)
THEOREM GapFreeCorrect == Spec => []GapFree
<1>1. IndInv => GapFree
  BY DEF IndInv
<1> QED
  BY <1>1, PidInductive, PTL

-----------------------------------------------------------------------------
(* The family pointers.                                                    *)

LinksOK ==
    /\ LinksTypeOK
    /\ {Idle, InitProc} \subseteq used /\ dead \subseteq used
    /\ exiter \in dead \cup {NULL}

\* The processes that are somebody's child.
Children == used \ {Idle}

\* A process is the child of a live one, or of the one that is exiting; a
\* process that is gone or has exited has no child.
ParentsOK ==
    /\ \A c \in Children : /\ parent[c] \in used
                           /\ parent[c] \in dead => parent[c] = exiter
                           /\ parent[c] = Idle <=> c = InitProc
    /\ parent[Idle] = NULL /\ cptr[Idle] = InitProc
    /\ \A c \in Proc \ used : parent[c] = NULL
    /\ \A c \in (Proc \ used) \cup (dead \ {exiter}) : cptr[c] = NULL

\* cptr is the first of the list of children.
YoungestOK ==
    \A p \in used : cptr[p] # NULL =>
        /\ cptr[p] \in Children
        /\ parent[cptr[p]] = p
        /\ p # exiter => yptr[cptr[p]] = NULL

\* optr and yptr are each other's inverse but for the child that do_exit moves
\* next: its yptr is NULL or the child that has moved already.
SiblingsOK ==
    \A c \in Children :
        /\ optr[c] # NULL => /\ optr[c] \in Children
                             /\ yptr[optr[c]] = c
                             /\ parent[optr[c]] = parent[c]
        /\ yptr[c] # NULL /\ ~Stale(c) => yptr[c] \in Children /\ optr[yptr[c]] = c
        /\ yptr[c] # NULL /\ Stale(c) => parent[yptr[c]] = InitProc
        /\ yptr[c] = NULL => cptr[parent[c]] = c

\* No list of siblings is a ring: some child is the oldest of a set of them,
\* and some child is the youngest.
Oldest(S) == \E c \in S : optr[c] \notin S
Youngest(S) == \E c \in S : \A d \in S : optr[d] # c
NoRing == \A S \in SUBSET Children : S # {} => Oldest(S) /\ Youngest(S)

LinksInv == LinksOK /\ ParentsOK /\ YoungestOK /\ SiblingsOK /\ NoRing

\* The operations on the pointers, without the tables around them.
LinksNext ==
    \/ \E p \in Proc, c \in User : SetLinks(p, c) \/ RemoveLinks(p, c)
    \/ \E p \in Proc : ExitBegin(p)
    \/ ExitMove
    \/ ExitEnd

LEMMA TableLinks == [TableNext]_tableVars => [LinksNext]_linkVars
<1> SUFFICES ASSUME [TableNext]_tableVars PROVE [LinksNext]_linkVars
  OBVIOUS
<1>1. CASE \E p \in Proc : DoFork(p)
  BY <1>1 DEF DoFork, SetLinks, LinksNext
<1>2. CASE \E p \in Proc : DoExit(p)
  BY <1>2 DEF DoExit, LinksNext
<1>3. CASE DoExitLoop
  BY <1>3 DEF DoExitLoop, LinksNext
<1>4. CASE \E p \in Proc, c \in User : DoWait(p, c)
  BY <1>4 DEF DoWait, LinksNext
<1>5. CASE UNCHANGED linkVars
  BY <1>5
<1> QED
  BY <1>1, <1>2, <1>3, <1>4, <1>5
     DEF TableNext, tableVars, GetPidCall, GetPidScan, DoSleep, SleepKilled, Tick

LEMMA LinksStart == LinksInit => LinksInv
  BY LinkAssumption
     DEF LinksInit, LinksInv, LinksOK, LinksTypeOK, ParentsOK, YoungestOK, SiblingsOK,
         NoRing, Oldest, Youngest, Children, Stale, Proc, Pointer

\* A process without a youngest child has no child.
LEMMA NoKids ==
    ASSUME LinksInv, NEW p \in used, cptr[p] = NULL
    PROVE  \A c \in Children : parent[c] # p
<1> DEFINE S == {c \in Children : parent[c] = p}
<1> SUFFICES ASSUME S # {} PROVE FALSE
  OBVIOUS
<1>1. PICK c \in S : \A d \in S : optr[d] # c
  BY DEF LinksInv, NoRing, Youngest
<1>2. ~Stale(c) /\ yptr[c] # NULL
  BY <1>1, LinkAssumption
     DEF LinksInv, Stale, SiblingsOK, YoungestOK, LinksOK, Children, Proc, LinksTypeOK
<1>3. yptr[c] \in Children /\ optr[yptr[c]] = c
  BY <1>1, <1>2 DEF LinksInv, SiblingsOK
<1>4. parent[yptr[c]] = parent[c]
  BY <1>1, <1>3, LinkAssumption DEF LinksInv, SiblingsOK, Children, LinksOK, LinksTypeOK, Proc
<1> QED
  BY <1>1, <1>3, <1>4

LEMMA SetLinksInv ==
    ASSUME LinksInv, NEW p \in Proc, NEW c \in User, SetLinks(p, c)
    PROVE  LinksInv'
<1> DEFINE h == cptr[p]
<1>1. /\ exiter = NULL /\ exiter' = NULL /\ dead' = dead /\ c # p /\ NULL \notin used
      /\ p \in used /\ p \notin dead /\ p # Idle
      /\ c \in Proc /\ c \notin used /\ c # Idle /\ c # InitProc
      /\ used' = used \cup {c}
      /\ used \subseteq Proc /\ NULL \notin Proc /\ NULL \notin Children
      /\ Idle \in used /\ InitProc \in used /\ dead \subseteq used
  BY LinkAssumption DEF SetLinks, Children, LinksInv, LinksOK, LinksTypeOK, Proc
<1>2. /\ parent' \in Pointer /\ cptr' \in Pointer /\ optr' \in Pointer /\ yptr' \in Pointer
  BY <1>1 DEF SetLinks, Push, LinksInv, LinksOK, LinksTypeOK, Pointer
<1>3. \A q \in Proc : /\ parent'[q] = IF q = c THEN p ELSE parent[q]
                      /\ cptr'[q] = IF q = c THEN NULL ELSE IF q = p THEN c ELSE cptr[q]
                      /\ optr'[q] = IF q = c THEN h ELSE optr[q]
                      /\ yptr'[q] = IF q = c THEN NULL ELSE IF q = h THEN c ELSE yptr[q]
  <2>1. cptr' = [cptr EXCEPT ![p] = c, ![c] = NULL] /\ cptr \in [Proc -> Proc \cup {NULL}]
    BY DEF SetLinks, LinksInv, LinksOK, LinksTypeOK, Pointer
  <2>2. \A q \in Proc : cptr'[q] = IF q = c THEN NULL ELSE IF q = p THEN c ELSE cptr[q]
    BY <2>1, <1>1
  <2>3. \A q \in Proc : parent'[q] = IF q = c THEN p ELSE parent[q]
    BY <1>1 DEF SetLinks, Push, LinksInv, LinksOK, LinksTypeOK, Pointer
  <2>4. \A q \in Proc : optr'[q] = IF q = c THEN h ELSE optr[q]
    BY <1>1 DEF SetLinks, Push, LinksInv, LinksOK, LinksTypeOK, Pointer
  <2>5. \A q \in Proc : yptr'[q] = IF q = c THEN NULL ELSE IF q = h THEN c ELSE yptr[q]
    BY <1>1 DEF SetLinks, Push, LinksInv, LinksOK, LinksTypeOK, Pointer
  <2> QED
    BY <2>2, <2>3, <2>4, <2>5
<1>4. h # NULL => h \in Children /\ parent[h] = p /\ yptr[h] = NULL
  BY <1>1 DEF LinksInv, YoungestOK
<1>5. Children' = Children \cup {c} /\ Children \subseteq Proc /\ c \notin Children
  BY <1>1 DEF Children
<1>6. \A d \in Children : optr[d] # c /\ parent[d] # c
  BY <1>1 DEF LinksInv, SiblingsOK, ParentsOK, Children
<1>t. LinksOK'
  BY <1>1, <1>2 DEF LinksInv, LinksOK, LinksTypeOK
<1> HIDE DEF h
<1>p. ParentsOK'
  BY <1>1, <1>3, <1>5, LinkAssumption DEF LinksInv, ParentsOK, LinksOK, Proc
<1>y. YoungestOK'
  <2> SUFFICES ASSUME NEW q \in used \cup {c}, cptr'[q] # NULL
      PROVE  /\ cptr'[q] \in Children \cup {c}
             /\ parent'[cptr'[q]] = q
             /\ yptr'[cptr'[q]] = NULL
    BY <1>1, <1>5 DEF YoungestOK
  <2>1. CASE q = p
    BY <2>1, <1>1, <1>3
  <2>2. CASE q # p
    <3>1. /\ q # c /\ q \in used /\ cptr'[q] = cptr[q]
      BY <2>2, <1>1, <1>3
    <3>2. cptr[q] \in Children /\ parent[cptr[q]] = q /\ yptr[cptr[q]] = NULL
      BY <3>1, <1>1 DEF LinksInv, YoungestOK
    <3>3. cptr[q] # c /\ cptr[q] # h
      BY <3>2, <2>2, <1>1, <1>4 DEF Children
    <3> QED
      BY <3>1, <3>2, <3>3, <1>3, <1>5
  <2> QED
    BY <2>1, <2>2
<1>s. SiblingsOK'
  <2> SUFFICES ASSUME NEW d \in Children \cup {c}
      PROVE  /\ optr'[d] # NULL => /\ optr'[d] \in Children \cup {c}
                                   /\ yptr'[optr'[d]] = d
                                   /\ parent'[optr'[d]] = parent'[d]
             /\ yptr'[d] # NULL => yptr'[d] \in Children \cup {c} /\ optr'[yptr'[d]] = d
             /\ yptr'[d] = NULL => cptr'[parent'[d]] = d
    BY <1>1, <1>5 DEF SiblingsOK, Stale
  <2>1. CASE d = c
    BY <2>1, <1>1, <1>3, <1>4, <1>5
  <2>2. CASE d # c
    <3>1. ~Stale(d) /\ d \in Children /\ d \in Proc /\ parent[d] \in used
      BY <2>2, <1>1, <1>5 DEF Stale, LinksInv, ParentsOK
    <3>2. optr'[d] # NULL => /\ optr'[d] \in Children \cup {c}
                             /\ yptr'[optr'[d]] = d
                             /\ parent'[optr'[d]] = parent'[d]
      BY <2>2, <3>1, <1>1, <1>3, <1>4, <1>5, <1>6 DEF LinksInv, SiblingsOK
    <3>3. yptr'[d] # NULL => yptr'[d] \in Children \cup {c} /\ optr'[yptr'[d]] = d
      BY <2>2, <3>1, <1>1, <1>3, <1>4, <1>5, <1>6 DEF LinksInv, SiblingsOK
    <3>4. yptr'[d] = NULL => cptr'[parent'[d]] = d
      BY <2>2, <3>1, <1>1, <1>3, <1>4, <1>5, <1>6 DEF LinksInv, SiblingsOK, h
    <3> QED
      BY <3>2, <3>3, <3>4
  <2> QED
    BY <2>1, <2>2
<1>r. NoRing'
  <2> SUFFICES ASSUME NEW S \in SUBSET (Children \cup {c}), S # {}
               PROVE  Oldest(S)' /\ Youngest(S)'
    BY <1>5 DEF NoRing
  <2>1. CASE S \ {c} # {}
    <3>1. PICK d \in S \ {c} : optr[d] \notin S \ {c}
      BY <2>1 DEF LinksInv, NoRing, Oldest
    <3>2. Oldest(S)'
      BY <3>1, <1>3, <1>5, <1>6, <1>1 DEF Oldest
    <3>3. PICK e \in S \ {c} : \A f \in S \ {c} : optr[f] # e
      BY <2>1 DEF LinksInv, NoRing, Youngest
    <3>4. CASE c \in S
      BY <3>4, <3>2, <1>3, <1>4, <1>5, <1>6, <1>1 DEF Youngest, Children
    <3>5. CASE c \notin S
      BY <3>5, <3>2, <3>3, <1>3, <1>5 DEF Youngest
    <3> QED
      BY <3>4, <3>5
  <2>2. CASE S = {c}
    BY <2>2, <1>1, <1>3, <1>4 DEF Oldest, Youngest, Children
  <2> QED
    BY <2>1, <2>2
<1> QED
  BY <1>t, <1>p, <1>y, <1>s, <1>r DEF LinksInv

LEMMA ExitBeginInv ==
    ASSUME LinksInv, NEW p \in Proc, ExitBegin(p)
    PROVE  LinksInv'
<1>1. /\ exiter = NULL /\ exiter' = p /\ dead' = dead \cup {p} /\ p \in used /\ p \in User
      /\ p \notin dead /\ UNCHANGED <<used, parent, cptr, optr, yptr>>
  BY DEF ExitBegin
<1>2. LinksOK'
  BY <1>1, LinkAssumption DEF LinksInv, LinksOK, LinksTypeOK, Proc
<1>3. ParentsOK'
  BY <1>1, LinkAssumption DEF LinksInv, LinksOK, LinksTypeOK, ParentsOK, Children, Proc
<1>4. YoungestOK'
  BY <1>1, LinkAssumption DEF LinksInv, LinksOK, LinksTypeOK, YoungestOK, Children
<1>5. SiblingsOK'
  BY <1>1, LinkAssumption
     DEF LinksInv, SiblingsOK, YoungestOK, Children, Stale, LinksOK, LinksTypeOK, Proc
<1>6. NoRing'
  BY <1>1 DEF LinksInv, NoRing, Children, Oldest, Youngest
<1> QED
  BY <1>2, <1>3, <1>4, <1>5, <1>6 DEF LinksInv

LEMMA ExitMoveInv ==
    ASSUME LinksInv, ExitMove
    PROVE  LinksInv'
<1> DEFINE x == exiter  c == cptr[x]  h == cptr[InitProc]
<1>1. /\ x # NULL /\ x \in dead /\ x \in used /\ x # InitProc /\ x # Idle
      /\ c # NULL /\ UNCHANGED <<used, dead, exiter>>
      /\ used \subseteq Proc /\ NULL \notin Proc /\ InitProc \in used /\ InitProc \notin dead
      /\ Idle # InitProc /\ NULL \notin used /\ NULL \notin Children /\ Idle \in used
      /\ dead \subseteq used
  BY LinkAssumption DEF Children, ExitMove, LinksInv, LinksOK, LinksTypeOK, Proc
<1>2. c \in Children /\ parent[c] = x /\ c # InitProc /\ c \in Proc /\ c # Idle
  BY <1>1 DEF LinksInv, YoungestOK, ParentsOK, Children
<1>3. /\ parent' \in Pointer /\ cptr' \in Pointer /\ optr' \in Pointer /\ yptr' \in Pointer
  BY <1>1, <1>2 DEF ExitMove, Push, LinksInv, LinksOK, LinksTypeOK, Pointer
<1>4. \A q \in Proc :
         /\ parent'[q] = IF q = c THEN InitProc ELSE parent[q]
         /\ cptr'[q] = IF q = InitProc THEN c ELSE IF q = x THEN optr[c] ELSE cptr[q]
         /\ optr'[q] = IF q = c THEN h ELSE optr[q]
         /\ yptr'[q] = IF q = c THEN NULL ELSE IF q = h THEN c ELSE yptr[q]
  BY <1>1, <1>2 DEF ExitMove, Push, LinksInv, LinksOK, LinksTypeOK, Pointer
<1>5. h # NULL => h \in Children /\ parent[h] = InitProc /\ yptr[h] = NULL
  BY <1>1 DEF LinksInv, YoungestOK
<1>6. Children' = Children /\ Children \subseteq Proc
  BY <1>1 DEF Children
<1>7. \A d \in Children : optr[d] # c
  BY <1>1, <1>2 DEF LinksInv, SiblingsOK, Stale
<1>8. optr[c] # NULL => /\ optr[c] \in Children /\ optr[c] # c /\ yptr[optr[c]] = c
                        /\ parent[optr[c]] = x
  BY <1>2, <1>7 DEF LinksInv, SiblingsOK
<1>t. LinksOK'
  BY <1>1, <1>3 DEF LinksInv, LinksOK, LinksTypeOK
<1> HIDE DEF c, h
<1>p. ParentsOK'
  BY <1>1, <1>2, <1>4, <1>6 DEF LinksInv, ParentsOK
<1>y. YoungestOK'
  BY <1>1, <1>2, <1>4, <1>5, <1>6, <1>8 DEF LinksInv, YoungestOK
<1>s. SiblingsOK'
  <2> SUFFICES ASSUME NEW d \in Children
      PROVE  /\ optr'[d] # NULL => /\ optr'[d] \in Children
                                   /\ yptr'[optr'[d]] = d
                                   /\ parent'[optr'[d]] = parent'[d]
             /\ yptr'[d] # NULL /\ ~Stale(d)' => yptr'[d] \in Children /\ optr'[yptr'[d]] = d
             /\ yptr'[d] # NULL /\ Stale(d)' => parent'[yptr'[d]] = InitProc
             /\ yptr'[d] = NULL => cptr'[parent'[d]] = d
    BY <1>6 DEF SiblingsOK
  <2>0. Stale(d)' <=> optr[c] = d
    BY <1>1, <1>4, <1>6 DEF Stale
  <2>1. CASE d = c
    BY <2>0, <2>1, <1>1, <1>2, <1>4, <1>5, <1>6, <1>8 DEF Children
  <2>2. CASE d # c
    <3>1. ~Stale(d)
      BY <2>2 DEF Stale, c
    <3>2. parent[d] \in Proc
      BY <1>1 DEF LinksInv, ParentsOK
    <3>3. optr'[d] # NULL => /\ optr'[d] \in Children
                             /\ yptr'[optr'[d]] = d
                             /\ parent'[optr'[d]] = parent'[d]
      BY <2>2, <1>4, <1>5, <1>6, <1>7, <1>1 DEF LinksInv, SiblingsOK
    <3>4. yptr'[d] = NULL => cptr'[parent'[d]] = d
      BY <2>2, <3>2, <1>1, <1>2, <1>4, <1>5, <1>6 DEF LinksInv, SiblingsOK, c, h
    <3>5. yptr'[d] # NULL /\ Stale(d)' => parent'[yptr'[d]] = InitProc
      BY <2>0, <2>2, <1>1, <1>2, <1>4, <1>5, <1>6, <1>8
    <3>6. yptr'[d] # NULL /\ ~Stale(d)' => yptr'[d] \in Children /\ optr'[yptr'[d]] = d
      BY <2>0, <2>2, <3>1, <1>1, <1>2, <1>4, <1>5, <1>6 DEF LinksInv, SiblingsOK
    <3> QED
      BY <3>3, <3>4, <3>5, <3>6
  <2> QED
    BY <2>1, <2>2
<1>r. NoRing'
  <2> SUFFICES ASSUME NEW S \in SUBSET Children, S # {}
               PROVE  Oldest(S)' /\ Youngest(S)'
    BY <1>6 DEF NoRing
  <2>1. CASE S \ {c} # {}
    <3>1. PICK d \in S \ {c} : optr[d] \notin S \ {c}
      BY <2>1 DEF LinksInv, NoRing, Oldest
    <3>2. Oldest(S)'
      BY <3>1, <1>4, <1>6, <1>7 DEF Oldest
    <3>3. PICK e \in S \ {c} : \A f \in S \ {c} : optr[f] # e
      BY <2>1 DEF LinksInv, NoRing, Youngest
    <3>4. CASE c \in S
      BY <3>4, <3>2, <1>2, <1>4, <1>5, <1>6, <1>7, <1>1 DEF Youngest
    <3>5. CASE c \notin S
      BY <3>5, <3>2, <3>3, <1>4, <1>6 DEF Youngest
    <3> QED
      BY <3>4, <3>5
  <2>2. CASE S = {c}
    BY <2>2, <1>1, <1>2, <1>4, <1>5 DEF Oldest, Youngest
  <2> QED
    BY <2>1, <2>2
<1> QED
  BY <1>t, <1>p, <1>y, <1>s, <1>r DEF LinksInv

LEMMA ExitEndInv ==
    ASSUME LinksInv, ExitEnd
    PROVE  LinksInv'
<1>1. /\ exiter # NULL /\ exiter' = NULL /\ cptr[exiter] = NULL /\ exiter \in used
      /\ UNCHANGED <<used, dead, parent, cptr, optr, yptr>> /\ Children' = Children
      /\ NULL \notin used
  BY LinkAssumption DEF ExitEnd, Children, LinksInv, LinksOK, LinksTypeOK
<1>2. \A d \in Children : parent[d] # exiter /\ ~Stale(d) /\ ~Stale(d)'
  BY <1>1, NoKids DEF Stale, Children
<1>3. ParentsOK'
  BY <1>1, <1>2 DEF LinksInv, ParentsOK
<1>4. YoungestOK'
  BY <1>1 DEF LinksInv, YoungestOK
<1>5. SiblingsOK'
  BY <1>1, <1>2 DEF LinksInv, SiblingsOK
<1>6. NoRing'
  BY <1>1 DEF LinksInv, NoRing, Oldest, Youngest
<1> QED
  BY <1>1, <1>3, <1>4, <1>5, <1>6 DEF LinksInv, LinksOK, LinksTypeOK

LEMMA RemoveLinksInv ==
    ASSUME LinksInv, NEW p \in Proc, NEW c \in User, RemoveLinks(p, c)
    PROVE  LinksInv'
<1> DEFINE y == yptr[c]  o == optr[c]
<1>1. /\ exiter = NULL /\ exiter' = NULL
      /\ p \in used /\ p \notin dead /\ c \in dead /\ parent[c] = p
      /\ used' = used \ {c} /\ dead' = dead \ {c}
      /\ c \in used /\ c \in Proc /\ c # Idle /\ c # InitProc /\ c # p
      /\ used \subseteq Proc /\ NULL \notin Proc /\ NULL \notin used
  BY LinkAssumption DEF RemoveLinks, LinksInv, LinksOK, LinksTypeOK, Proc
<1>2. /\ parent' \in Pointer /\ cptr' \in Pointer /\ optr' \in Pointer /\ yptr' \in Pointer
  BY <1>1 DEF RemoveLinks, LinksInv, LinksOK, LinksTypeOK, Pointer
<1>3. \A q \in Proc :
         /\ parent'[q] = IF q = c THEN NULL ELSE parent[q]
         /\ cptr'[q] = IF q = p /\ y = NULL THEN o ELSE cptr[q]
         /\ optr'[q] = IF q = c THEN NULL ELSE IF q = y THEN o ELSE optr[q]
         /\ yptr'[q] = IF q = c THEN NULL ELSE IF q = o THEN y ELSE yptr[q]
  BY <1>1 DEF RemoveLinks, LinksInv, LinksOK, LinksTypeOK, Pointer
<1>4. Children' = Children \ {c} /\ Children \subseteq Proc /\ c \in Children
  BY <1>1 DEF Children
<1>5. \A d \in Children : ~Stale(d) /\ ~Stale(d)'
  BY <1>1 DEF Stale
<1>6. y # NULL => y \in Children /\ optr[y] = c /\ parent[y] = p
  BY <1>1, <1>4, <1>5 DEF LinksInv, SiblingsOK
<1>7. o # NULL => o \in Children /\ yptr[o] = c /\ parent[o] = p
  BY <1>1, <1>4 DEF LinksInv, SiblingsOK
<1>8. cptr[c] = NULL /\ \A d \in Children : parent[d] # c
  BY <1>1, NoKids DEF LinksInv, ParentsOK
<1>9. o # c /\ y # c /\ (y # NULL => o # y)
  <2>1. Oldest({c}) /\ (y # NULL => Oldest({c, y}))
    BY <1>4, <1>6 DEF LinksInv, NoRing
  <2>2. o # c
    BY <2>1 DEF Oldest
  <2>3. y # c
    BY <2>2, <1>1, <1>6
  <2>4. ASSUME y # NULL, o = y PROVE FALSE
    BY <2>1, <2>4, <1>6 DEF Oldest
  <2> QED
    BY <2>2, <2>3, <2>4
<1>10. y = NULL => cptr[p] = c
  BY <1>1, <1>4 DEF LinksInv, SiblingsOK
<1>11. \A q \in used : cptr[q] = c => q = p /\ y = NULL
  BY <1>1 DEF LinksInv, YoungestOK
<1>t. LinksOK'
  BY <1>1, <1>2, LinkAssumption DEF LinksInv, LinksOK, LinksTypeOK
<1> HIDE DEF y, o
<1>p. ParentsOK'
  BY <1>1, <1>3, <1>4, <1>8, <1>10, <1>11, LinkAssumption DEF LinksInv, ParentsOK, LinksOK
<1>y. YoungestOK'
  BY <1>1, <1>3, <1>4, <1>7, <1>9, <1>10, <1>11 DEF LinksInv, YoungestOK
<1>s. SiblingsOK'
  <2> SUFFICES ASSUME NEW d \in Children, d # c
      PROVE  /\ optr'[d] # NULL => /\ optr'[d] \in Children \ {c}
                                   /\ yptr'[optr'[d]] = d
                                   /\ parent'[optr'[d]] = parent'[d]
             /\ yptr'[d] # NULL => yptr'[d] \in Children \ {c} /\ optr'[yptr'[d]] = d
             /\ yptr'[d] = NULL => cptr'[parent'[d]] = d
    BY <1>4, <1>5 DEF SiblingsOK
  <2>0. parent[d] \in Proc
    BY <1>1 DEF LinksInv, ParentsOK
  <2>1. optr'[d] # NULL => /\ optr'[d] \in Children \ {c}
                           /\ yptr'[optr'[d]] = d
                           /\ parent'[optr'[d]] = parent'[d]
    <3>1. optr[d] = c => d = y
      BY <1>1 DEF LinksInv, SiblingsOK, y
    <3> QED
      BY <3>1, <1>1, <1>3, <1>4, <1>6, <1>7, <1>9 DEF LinksInv, SiblingsOK
  <2>2. yptr'[d] # NULL => yptr'[d] \in Children \ {c} /\ optr'[yptr'[d]] = d
    <3>1. yptr[d] = c => d = o
      BY <1>1, <1>5 DEF LinksInv, SiblingsOK, o
    <3> QED
      BY <3>1, <1>1, <1>3, <1>4, <1>5, <1>6, <1>7, <1>9 DEF LinksInv, SiblingsOK
  <2>3. yptr'[d] = NULL => cptr'[parent'[d]] = d
    BY <2>0, <1>1, <1>3, <1>4, <1>6, <1>7, <1>9, <1>10 DEF LinksInv, SiblingsOK
  <2> QED
    BY <2>1, <2>2, <2>3
<1>r. NoRing'
  <2> SUFFICES ASSUME NEW S \in SUBSET Children, S # {}, c \notin S
               PROVE  Oldest(S)' /\ Youngest(S)'
    BY <1>4 DEF NoRing
  <2>1. CASE y \in S /\ o \in S
    <3>1. S \cup {c} \in SUBSET Children
      BY <1>4
    <3>2. Oldest(S \cup {c}) /\ Youngest(S \cup {c})
      BY <3>1 DEF LinksInv, NoRing
    <3>3. PICK d \in S \cup {c} : optr[d] \notin S \cup {c}
      BY <3>2 DEF Oldest
    <3>4. d \in S /\ d # y
      BY <3>3, <2>1, <1>1, <1>4, <1>6 DEF o
    <3>5. optr'[d] = optr[d]
      BY <3>4, <1>3, <1>4
    <3>6. PICK e \in S \cup {c} : \A f \in S \cup {c} : optr[f] # e
      BY <3>2 DEF Youngest
    <3>7. e # c /\ e # o
      BY <3>6, <2>1, <1>1, <1>4, <1>6 DEF o
    <3>8. \A f \in S : optr'[f] # e
      BY <3>6, <3>7, <1>3, <1>4
    <3> QED
      BY <3>3, <3>4, <3>5, <3>6, <3>7, <3>8 DEF Oldest, Youngest
  <2>2. CASE y \notin S \/ o \notin S
    <3>1. Oldest(S) /\ Youngest(S)
      BY DEF LinksInv, NoRing
    <3>2. \A f \in S : optr'[f] = optr[f] \/ (f = y /\ optr'[f] \notin S)
      BY <2>2, <1>3, <1>4
    <3>3. Youngest(S)'
      BY <3>1, <3>2 DEF Youngest
    <3>4. Oldest(S)'
      BY <3>1, <3>2 DEF Oldest
    <3> QED
      BY <3>3, <3>4
  <2> QED
    BY <2>1, <2>2
<1> QED
  BY <1>t, <1>p, <1>y, <1>s, <1>r DEF LinksInv

LEMMA LinksStep == LinksInv /\ [LinksNext]_linkVars => LinksInv'
<1> SUFFICES ASSUME LinksInv, [LinksNext]_linkVars PROVE LinksInv'
  OBVIOUS
<1>1. ASSUME NEW p \in Proc, NEW c \in User, SetLinks(p, c) PROVE LinksInv'
  BY <1>1, SetLinksInv
<1>2. ASSUME NEW p \in Proc, NEW c \in User, RemoveLinks(p, c) PROVE LinksInv'
  BY <1>2, RemoveLinksInv
<1>3. ASSUME NEW p \in Proc, ExitBegin(p) PROVE LinksInv'
  BY <1>3, ExitBeginInv
<1>4. CASE ExitMove
  BY <1>4, ExitMoveInv
<1>5. CASE ExitEnd
  BY <1>5, ExitEndInv
<1>6. CASE UNCHANGED linkVars
  BY <1>6
     DEF linkVars, LinksInv, LinksOK, LinksTypeOK, ParentsOK, YoungestOK, SiblingsOK, NoRing,
         Oldest, Youngest, Children, Stale
<1> QED
  BY <1>1, <1>2, <1>3, <1>4, <1>5, <1>6 DEF LinksNext

LEMMA LinksInductive == TableSpec => []LinksInv
<1>1. TableInit => LinksInv
  BY LinksStart DEF TableInit
<1>2. LinksInv /\ [TableNext]_tableVars => LinksInv'
  BY LinksStep, TableLinks
<1> QED
  BY <1>1, <1>2, PTL DEF TableSpec

(* Whatever the order of forks, exits and waits, the sibling lists are     *)
(* doubly linked between children of one parent and start at its cptr; only*)
(* the child that do_exit moves next may have a stale yptr.                *)
THEOREM DoublyLinkedCorrect == TableSpec => []DoublyLinked
<1>1. LinksInv => DoublyLinked
  BY LinkAssumption
     DEF LinksInv, DoublyLinked, YoungestOK, SiblingsOK, Children, Stale
<1> QED
  BY <1>1, LinksInductive, PTL

-----------------------------------------------------------------------------
(* do_wait's walk.                                                         *)

\* A set of numbers has a least one.
LEMMA NatLeast ==
    ASSUME NEW S \in SUBSET Nat, S # {}
    PROVE  \E x \in S : \A y \in S : x <= y
<1> DEFINE R == OpToRel(<, Nat)
<1>1. \A x, y \in Nat : x < y => <<x, y>> \in R
  BY DEF OpToRel
<1>2. IsWellFoundedOn(R, Nat)
  BY NatLessThanWellFounded, Zenon
<1> HIDE DEF R
<1>3. PICK x \in S : \A y \in S : ~ (<<y, x>> \in R)
  BY <1>2, WFMin
<1>4. ASSUME NEW y \in S PROVE x <= y
  <2>1. x \in Nat /\ y \in Nat
    OBVIOUS
  <2>2. ~(y < x)
    BY <1>1, <1>3, <2>1
  <2> QED
    BY <2>1, <2>2
<1> QED
  BY <1>4

\* The length of the walk, and one step of it.
Steps == Cardinality(Proc)
Older(q) == IF q = NULL THEN NULL ELSE optr[q]
IsWalk(w, p, k) ==
    /\ w \in [0..k -> Proc \cup {NULL}]
    /\ w[0] = cptr[p]
    /\ \A n \in 1..k : w[n] = Older(w[n - 1])

LEMMA ProcFinite == IsFiniteSet(Proc) /\ Steps \in Nat
<1>1. IsFiniteSet(0..MAX_PID - 1)
  BY PidAssumption, FS_Interval
<1>2. Proc \subseteq 0..MAX_PID - 1
  <2>1. 0 \in 0..MAX_PID - 1 /\ 1 \in 0..MAX_PID - 1
    BY PidAssumption
  <2> QED
    BY <2>1, PidAssumption, TableAssumption DEF Proc, Pid
<1> QED
  BY <1>1, <1>2, FS_Subset, FS_CardinalityType DEF Steps

\* There is a walk of any length ...
LEMMA WalkExists ==
    ASSUME LinksTypeOK, NEW p \in Proc, NEW k \in Nat
    PROVE  \E w : IsWalk(w, p, k)
<1> DEFINE Bad == {n \in Nat : ~\E w : IsWalk(w, p, n)}
<1> SUFFICES ASSUME Bad # {} PROVE FALSE
  OBVIOUS
<1>1. PICK n \in Bad : \A m \in Bad : n <= m
  BY NatLeast
<1>2. cptr[p] \in Proc \cup {NULL} /\ \A q \in Proc \cup {NULL} : Older(q) \in Proc \cup {NULL}
  BY DEF LinksTypeOK, Pointer, Older
<1>3. n # 0
  <2> DEFINE w == [i \in 0..0 |-> cptr[p]]
  <2>1. IsWalk(w, p, 0)
    BY <1>2 DEF IsWalk
  <2> QED
    BY <2>1
<1>4. n - 1 \in Nat /\ n - 1 \notin Bad
  BY <1>1, <1>3
<1>5. PICK w : IsWalk(w, p, n - 1)
  BY <1>4
<1> DEFINE v == [i \in 0..n |-> IF i = n THEN Older(w[n - 1]) ELSE w[i]]
<1>6. IsWalk(v, p, n)
  <2>1. w[n - 1] \in Proc \cup {NULL} /\ \A i \in 0..n : i # n => w[i] \in Proc \cup {NULL}
    <3>1. w \in [0..n - 1 -> Proc \cup {NULL}] /\ n - 1 \in 0..n - 1
      BY <1>4, <1>5 DEF IsWalk
    <3>2. \A i \in 0..n : i # n => i \in 0..n - 1
      BY <1>4
    <3> QED
      BY <3>1, <3>2
  <2>2. v \in [0..n -> Proc \cup {NULL}]
    BY <1>2, <2>1
  <2>3. v[0] = cptr[p]
    BY <1>3, <1>5 DEF IsWalk
  <2>4. \A i \in 1..n : v[i] = Older(v[i - 1])
    <3> TAKE i \in 1..n
    <3>1. i - 1 \in 0..n /\ i - 1 # n
      OBVIOUS
    <3>2. i # n => w[i] = Older(w[i - 1])
      BY <1>5, <1>4 DEF IsWalk
    <3> QED
      BY <3>1, <3>2
  <2> QED
    BY <2>2, <2>3, <2>4 DEF IsWalk
<1> QED
  BY <1>6

\* ... so the function that Met chooses is one.
LEMMA MetWalks == ASSUME LinksTypeOK, NEW p \in Proc PROVE IsWalk(Met(p), p, Steps)
<1> DEFINE Body(w) == [n \in 0..Cardinality(Proc) |->
                         IF n = 0 THEN cptr[p]
                         ELSE IF w[n - 1] = NULL THEN NULL ELSE optr[w[n - 1]]]
<1>1. PICK w : IsWalk(w, p, Steps)
  BY WalkExists, ProcFinite
<1>2. w = Body(w)
  <2>1. w = [n \in 0..Steps |-> w[n]]
    BY <1>1 DEF IsWalk
  <2>2. \A n \in 0..Steps : w[n] = IF n = 0 THEN cptr[p]
                                   ELSE IF w[n - 1] = NULL THEN NULL ELSE optr[w[n - 1]]
    <3> TAKE n \in 0..Steps
    <3>1. n = 0 \/ n \in 1..Steps
      BY ProcFinite
    <3> QED
      BY <3>1, <1>1 DEF IsWalk, Older
  <2> QED
    BY <2>1, <2>2, Zenon DEF Steps
<1>3. Met(p) = CHOOSE u : u = Body(u)
  BY Zenon DEF Met
<1> HIDE DEF Body
<1>4. Met(p) = Body(Met(p))
  BY <1>2, <1>3, Zenon
<1> USE DEF Body
<1> DEFINE u == Met(p)
<1>5. u = [n \in 0..Steps |-> IF n = 0 THEN cptr[p]
                              ELSE IF u[n - 1] = NULL THEN NULL ELSE optr[u[n - 1]]]
  BY <1>4, Zenon DEF Steps
<1> HIDE DEF u
<1>6. u[0] = cptr[p] /\ \A n \in 1..Steps : u[n] = Older(u[n - 1])
  BY <1>5, ProcFinite DEF Older
<1>7. ASSUME NEW n \in 0..Steps PROVE u[n] \in Proc \cup {NULL}
  <2> DEFINE Bad == {m \in 0..Steps : u[m] \notin Proc \cup {NULL}}
  <2> SUFFICES ASSUME Bad # {} PROVE FALSE
    OBVIOUS
  <2>0. Bad \in SUBSET Nat
    BY ProcFinite
  <2>1. PICK m \in Bad : \A i \in Bad : m <= i
    BY NatLeast, <2>0
  <2>2. cptr[p] \in Proc \cup {NULL} /\ \A q \in Proc \cup {NULL} : Older(q) \in Proc \cup {NULL}
    BY DEF LinksTypeOK, Pointer, Older
  <2>3. m # 0
    BY <1>6, <2>2
  <2>4. m \in 1..Steps /\ m - 1 \in 0..Steps /\ m - 1 \notin Bad
    BY <2>1, <2>3, ProcFinite
  <2> QED
    BY <2>2, <2>4, <1>6
<1>8. IsWalk(u, p, Steps)
  BY <1>5, <1>6, <1>7 DEF IsWalk
<1> QED
  BY <1>8 DEF u

LEMMA WalkMeetsChildren ==
    ASSUME LinksInv, NEW p \in used, NEW w, IsWalk(w, p, Steps)
    PROVE  /\ \A n \in 0..Steps : w[n] # NULL => w[n] \in Children /\ parent[w[n]] = p
           /\ w[Steps] = NULL
           /\ \A c \in Children : parent[c] = p => \E n \in 0..Steps : w[n] = c
<1>0. /\ Steps \in Nat /\ IsFiniteSet(Proc) /\ NULL \notin Proc /\ used \subseteq Proc
      /\ Children \subseteq Proc
  BY ProcFinite, LinkAssumption DEF LinksInv, LinksOK, LinksTypeOK, Children
<1>1. ASSUME NEW n \in 0..Steps, w[n] # NULL PROVE w[n] \in Children /\ parent[w[n]] = p
  <2> DEFINE Bad == {m \in 0..Steps : w[m] # NULL /\ ~(w[m] \in Children /\ parent[w[m]] = p)}
  <2> SUFFICES ASSUME Bad # {} PROVE FALSE
    BY <1>1
  <2>0. Bad \in SUBSET Nat
    BY <1>0
  <2>1. PICK m \in Bad : \A i \in Bad : m <= i
    BY NatLeast, <2>0
  <2>2. m # 0
    BY DEF IsWalk, LinksInv, YoungestOK
  <2>3. m \in 1..Steps /\ m - 1 \in 0..Steps /\ m - 1 \notin Bad
    BY <2>1, <2>2, <1>0
  <2>4. w[m] = Older(w[m - 1])
    BY <2>3 DEF IsWalk
  <2> QED
    BY <2>3, <2>4 DEF Older, LinksInv, SiblingsOK
<1>2. w[Steps] = NULL
  <2> SUFFICES ASSUME w[Steps] # NULL PROVE FALSE
    OBVIOUS
  <2>1. \A n \in 0..Steps : w[n] # NULL
    <3> DEFINE Good == {m \in 0..Steps : w[Steps - m] = NULL}
    <3> SUFFICES ASSUME Good # {} PROVE FALSE
      <4>1. ASSUME NEW n \in 0..Steps, w[n] = NULL PROVE Good # {}
        <5>1. Steps - n \in 0..Steps /\ Steps - (Steps - n) = n
          BY <1>0
        <5> QED
          BY <4>1, <5>1
      <4> QED
        BY <4>1
    <3>0. Good \in SUBSET Nat
      BY <1>0
    <3>1. PICK m \in Good : \A i \in Good : m <= i
      BY NatLeast, <3>0
    <3>2. m # 0
      BY <1>0
    <3>3. m - 1 \in 0..Steps /\ m - 1 \notin Good /\ Steps - (m - 1) \in 1..Steps
          /\ Steps - (m - 1) - 1 = Steps - m
      BY <3>1, <3>2, <1>0
    <3> QED
      BY <3>3 DEF IsWalk, Older
  <2>2. w \in [0..Steps -> Proc]
    BY <2>1, <1>1, <1>0 DEF IsWalk
  <2>3. IsFiniteSet(0..Steps) /\ Cardinality(0..Steps) = Steps + 1
    BY <1>0, FS_Interval
  <2>4. PICK i \in 0..Steps, j \in 0..Steps : i # j /\ w[i] = w[j]
    <3>1. Cardinality(Proc) < Cardinality(0..Steps)
      BY <2>3, <1>0 DEF Steps
    <3> QED
      BY <3>1, <2>2, <2>3, <1>0, FS_PigeonHole
  <2>5. PICK a \in 0..Steps, b \in 0..Steps : a < b /\ w[a] = w[b]
    <3>1. i < j \/ j < i
      BY <2>4, <1>0
    <3> QED
      BY <3>1, <2>4
  <2> DEFINE S == {w[n] : n \in a..b - 1}
  <2>6. S \in SUBSET Children /\ S # {}
    <3>1. \A n \in a..b - 1 : n \in 0..Steps
      BY <1>0
    <3>2. a \in a..b - 1
      BY <2>5, <1>0
    <3> QED
      BY <3>1, <3>2, <2>1, <1>1
  <2>7. PICK c \in S : optr[c] \notin S
    BY <2>6 DEF LinksInv, NoRing, Oldest
  <2>8. PICK n \in a..b - 1 : c = w[n]
    BY <2>7
  <2>9. n \in 0..Steps /\ n + 1 \in 1..Steps /\ n + 1 - 1 = n
    BY <1>0, <2>5
  <2>10. w[n + 1] = optr[c]
    BY <2>8, <2>9, <2>1 DEF IsWalk, Older
  <2>11. CASE n + 1 = b
    <3>1. a \in a..b - 1
      BY <2>5, <1>0
    <3> QED
      BY <2>11, <2>10, <2>7, <2>5, <3>1
  <2>12. CASE n + 1 # b
    <3>1. n + 1 \in a..b - 1
      BY <2>12, <2>5, <1>0
    <3> QED
      BY <2>10, <2>7, <3>1
  <2> QED
    BY <2>11, <2>12
<1>3. ASSUME NEW c0 \in Children, parent[c0] = p PROVE \E n \in 0..Steps : w[n] = c0
  <2> DEFINE S == {c \in Children : parent[c] = p /\ \A n \in 0..Steps : w[n] # c}
  <2> SUFFICES ASSUME S # {} PROVE FALSE
    BY <1>3
  <2>1. PICK c \in S : \A d \in S : optr[d] # c
    BY DEF LinksInv, NoRing, Youngest
  <2>2. w[0] = cptr[p] /\ 0 \in 0..Steps
    BY <1>0 DEF IsWalk
  <2>3. ~Stale(c) /\ yptr[c] # NULL
    <3>1. cptr[p] # c
      BY <2>2
    <3>2. Stale(c) => parent[c] = exiter
      BY <1>0 DEF Stale, LinksInv, LinksOK, YoungestOK, Children
    <3> QED
      BY <3>1, <3>2 DEF LinksInv, SiblingsOK, Stale
  <2>4. yptr[c] \in Children /\ optr[yptr[c]] = c /\ c # NULL
    BY <2>3, <1>0 DEF LinksInv, SiblingsOK
  <2>5. parent[yptr[c]] = p
    BY <2>4 DEF LinksInv, SiblingsOK
  <2>6. PICK n \in 0..Steps : w[n] = yptr[c]
    BY <2>1, <2>4, <2>5
  <2>7. n # Steps /\ w[n] # NULL
    BY <2>6, <2>3, <1>2
  <2>8. n + 1 \in 1..Steps /\ n + 1 - 1 = n /\ n + 1 \in 0..Steps
    BY <2>7, <1>0
  <2>9. w[n + 1] = c
    BY <2>4, <2>6, <2>7, <2>8 DEF IsWalk, Older
  <2> QED
    BY <2>8, <2>9
<1> QED
  BY <1>1, <1>2, <1>3

(* The walk of do_wait over the children of a process meets all of them and*)
(* nothing else, and ends, so do_wait misses no zombie.                    *)
THEOREM WalkFindsChildrenCorrect == TableSpec => []WalkFindsChildren
<1>1. LinksInv => WalkFindsChildren
  <2> SUFFICES ASSUME LinksInv, NEW p \in used
               PROVE  /\ Met(p)[Steps] = NULL
                      /\ {Met(p)[n] : n \in DOMAIN Met(p)} \ {NULL} = {c \in used : parent[c] = p}
    BY Zenon DEF WalkFindsChildren, Steps
  <2>1. p \in Proc /\ LinksTypeOK /\ NULL \notin used /\ parent[Idle] = NULL /\ Steps \in Nat
    BY LinkAssumption, ProcFinite DEF LinksInv, LinksOK, LinksTypeOK, ParentsOK
  <2> DEFINE w == Met(p)
  <2>2. IsWalk(w, p, Steps)
    BY <2>1, MetWalks
  <2> HIDE DEF w
  <2>3. DOMAIN w = 0..Steps
    BY <2>2 DEF IsWalk
  <2>4. /\ \A n \in 0..Steps : w[n] # NULL => w[n] \in Children /\ parent[w[n]] = p
        /\ w[Steps] = NULL
        /\ \A c \in Children : parent[c] = p => \E n \in 0..Steps : w[n] = c
    BY <2>2, WalkMeetsChildren
  <2>5. {w[n] : n \in 0..Steps} \ {NULL} = {c \in used : parent[c] = p}
    BY <2>1, <2>4 DEF Children
  <2> QED
    BY <2>3, <2>4, <2>5 DEF w
<1> QED
  BY <1>1, LinksInductive, PTL

-----------------------------------------------------------------------------
(* The pointers implement ProcFamily: a process is dead from the start of  *)
(* do_exit, and a child that do_exit has not moved yet is already init's.  *)

LEMMA FamilyStart == LinksInit => Family!FamilyInit
BY LinkAssumption DEF LinksInit, Family!FamilyInit, LifeOf, MotherOf, Proc

LEMMA FamilyStep ==
    ASSUME LinksInv, [LinksNext]_linkVars
    PROVE  [Family!FamilyNext]_Family!famVars
<1>0. /\ used \subseteq Proc /\ dead \subseteq used /\ NULL \notin Proc
      /\ \A c \in Proc \ used : parent[c] = NULL
      /\ Idle \notin dead /\ InitProc \notin dead
  BY LinkAssumption DEF LinksInv, LinksOK, LinksTypeOK, ParentsOK
<1>1. ASSUME NEW p \in Proc, NEW c \in User, SetLinks(p, c) PROVE Family!FamilyNext
  <2>1. /\ exiter = NULL /\ exiter' = NULL /\ dead' = dead /\ p \in used \ dead
        /\ c \in Proc \ used /\ used' = used \cup {c}
    BY <1>1 DEF SetLinks, Proc
  <2>2. parent' = [parent EXCEPT ![c] = p] /\ parent \in [Proc -> Proc \cup {NULL}]
    BY <1>1 DEF SetLinks, Push, LinksInv, LinksOK, LinksTypeOK, Pointer
  <2>3. LifeOf(p) = "alive" /\ LifeOf(c) = "free"
    BY <2>1 DEF LifeOf
  <2>4. [q \in Proc |-> LifeOf(q)]' = [[q \in Proc |-> LifeOf(q)] EXCEPT ![c] = "alive"]
    BY <1>0, <2>1 DEF LifeOf
  <2>5. [q \in Proc |-> MotherOf(q)]' = [[q \in Proc |-> MotherOf(q)] EXCEPT ![c] = p]
    BY <2>1, <2>2 DEF MotherOf
  <2>6. Family!Create(p, c)
    BY <2>1, <2>3, <2>4, <2>5, <1>0 DEF Family!Create
  <2> QED
    BY <2>1, <2>6, <1>0 DEF Family!FamilyNext
<1>2. ASSUME NEW p \in Proc, NEW c \in User, RemoveLinks(p, c) PROVE Family!FamilyNext
  <2>1. /\ exiter = NULL /\ exiter' = NULL /\ dead' = dead \ {c} /\ p \in used \ dead
        /\ c \in dead /\ parent[c] = p /\ used' = used \ {c} /\ c \in Proc
    BY <1>2, <1>0 DEF RemoveLinks
  <2>2. parent' = [parent EXCEPT ![c] = NULL] /\ parent \in [Proc -> Proc \cup {NULL}]
    BY <1>2 DEF RemoveLinks, LinksInv, LinksOK, LinksTypeOK, Pointer
  <2>3. LifeOf(p) = "alive" /\ LifeOf(c) = "dead" /\ MotherOf(c) = p
    BY <2>1, <1>0 DEF LifeOf, MotherOf
  <2>4. [q \in Proc |-> LifeOf(q)]' = [[q \in Proc |-> LifeOf(q)] EXCEPT ![c] = "free"]
    BY <1>0, <2>1 DEF LifeOf
  <2>5. [q \in Proc |-> MotherOf(q)]' = [[q \in Proc |-> MotherOf(q)] EXCEPT ![c] = NULL]
    BY <2>1, <2>2 DEF MotherOf
  <2>6. Family!Release(p, c)
    BY <2>1, <2>3, <2>4, <2>5, <1>0 DEF Family!Release
  <2> QED
    BY <2>1, <2>6, <1>0 DEF Family!FamilyNext
<1>3. ASSUME NEW p \in Proc, ExitBegin(p) PROVE Family!FamilyNext
  <2>1. /\ exiter = NULL /\ exiter' = p /\ dead' = dead \cup {p} /\ p \in used \ dead
        /\ used' = used /\ parent' = parent /\ p \notin {Idle, InitProc} /\ p # NULL
    BY <1>3, LinkAssumption DEF ExitBegin, Proc
  <2>2. LifeOf(p) = "alive"
    BY <2>1 DEF LifeOf
  <2>3. [q \in Proc |-> LifeOf(q)]' = [[q \in Proc |-> LifeOf(q)] EXCEPT ![p] = "dead"]
    BY <1>0, <2>1 DEF LifeOf
  <2>4. Family!Offspring(p) = {q \in Proc : parent[q] = p}
    BY <1>0, <2>1 DEF Family!Offspring, LifeOf, MotherOf
  <2>5. [q \in Proc |-> MotherOf(q)]'
           = [q \in Proc |-> IF q \in Family!Offspring(p) THEN InitProc
                             ELSE [r \in Proc |-> MotherOf(r)][q]]
    BY <2>1, <2>4 DEF MotherOf
  <2>6. Family!Die(p)
    BY <2>1, <2>2, <2>3, <2>5 DEF Family!Die
  <2> QED
    BY <2>6 DEF Family!FamilyNext
<1>4. CASE ExitMove
  <2>1. /\ exiter # NULL /\ UNCHANGED <<used, dead, exiter>>
        /\ exiter \in used /\ cptr[exiter] # NULL
    BY <1>4, <1>0 DEF ExitMove, LinksInv, LinksOK
  <2>2. parent[cptr[exiter]] = exiter /\ exiter # InitProc
    BY <2>1, <1>0 DEF LinksInv, YoungestOK, LinksOK
  <2>3. /\ parent' = [parent EXCEPT ![cptr[exiter]] = InitProc]
        /\ parent \in [Proc -> Proc \cup {NULL}]
    BY <1>4 DEF ExitMove, Push, LinksInv, LinksOK, LinksTypeOK, Pointer
  <2>4. \A q \in Proc : LifeOf(q)' = LifeOf(q) /\ MotherOf(q)' = MotherOf(q)
    BY <2>1, <2>2, <2>3 DEF LifeOf, MotherOf
  <2> QED
    BY <2>4 DEF Family!famVars
<1>5. CASE ExitEnd
  <2>1. /\ exiter # NULL /\ exiter \in used /\ cptr[exiter] = NULL /\ exiter' = NULL
        /\ UNCHANGED <<used, dead, parent>>
    BY <1>5, <1>0 DEF ExitEnd, LinksInv, LinksOK
  <2>2. \A q \in Proc : parent[q] # exiter
    <3>1. \A q \in Children : parent[q] # exiter
      BY <2>1, NoKids
    <3>2. parent[Idle] = NULL
      BY DEF LinksInv, ParentsOK
    <3> QED
      BY <3>1, <3>2, <2>1, <1>0 DEF Children
  <2>3. \A q \in Proc : LifeOf(q)' = LifeOf(q) /\ MotherOf(q)' = MotherOf(q)
    BY <2>1, <2>2 DEF LifeOf, MotherOf
  <2> QED
    BY <2>3 DEF Family!famVars
<1>6. CASE UNCHANGED linkVars
  BY <1>6 DEF linkVars, Family!famVars, LifeOf, MotherOf
<1> QED
  BY <1>1, <1>2, <1>3, <1>4, <1>5, <1>6 DEF LinksNext

(* fork, the loop of do_exit and do_wait on the pointers do what           *)
(* ProcFamily promises: a process passes its children to init when it dies *)
(* and is released once, after its death, by the process that is its       *)
(* parent.                                                                 *)
THEOREM LinksImplementFamily == TableSpec => Family!FamilySpec
<1>1. TableInit => Family!FamilyInit
  BY FamilyStart DEF TableInit
<1>2. LinksInv /\ [TableNext]_tableVars => [Family!FamilyNext]_Family!famVars
  BY TableLinks, FamilyStep
<1> QED
  BY <1>1, <1>2, LinksInductive, PTL DEF TableSpec, Family!FamilySpec

(* In the process table too get_pid returns a pid that no process has.     *)
THEOREM TablePidFresh == TableSpec => []PidFresh
<1>1. TableInit => IndInv
  BY PidAssumption, TableAssumption
     DEF TableInit, IndInv, TypeOK, GapFree, PidFresh, CandidateFree, Pid
<1>2. IndInv /\ [TableNext]_tableVars => IndInv'
  <2>1. [TableNext]_tableVars => [Next]_vars
    BY TableAssumption
       DEF TableNext, tableVars, GetPidCall, GetPidScan, DoFork, DoExit, SleepKilled, DoExitLoop,
           DoWait, DoSleep, Tick, Next, Scan
  <2> QED
    BY <2>1, PidStep
<1>3. IndInv => PidFresh
  BY DEF IndInv
<1> QED
  BY <1>1, <1>2, <1>3, PTL DEF TableSpec

-----------------------------------------------------------------------------
(* The timer list.                                                         *)

\* The timers of a list, for any time, and the due times of the first k.
Timing == [proc : Sleeper, expires : Nat]
IsDue(d, l, k) ==
    /\ d \in [0..k -> Nat]
    /\ d[0] = 0
    /\ \A i \in 1..k : d[i] = d[i - 1] + l[i].expires

\* Every sleeper has one timer at most, and no timer is overdue.
TimersOK(l) ==
    /\ l \in Seq(Timing)
    /\ \A i, j \in DOMAIN l : l[i].proc = l[j].proc => i = j
    /\ l # <<>> => l[1].expires > 0

\* Left, for a list of its own.
LeftIn(l) == [p \in Sleeper |->
                 IF p \in {l[i].proc : i \in DOMAIN l}
                 THEN Due(l)[CHOOSE i \in DOMAIN l : l[i].proc = p]
                 ELSE 0]

LEMMA TimingOf ==
    ASSUME NEW l \in Seq(Timing), NEW i \in 1..Len(l)
    PROVE  l[i] \in Timing /\ l[i].proc \in Sleeper /\ l[i].expires \in Nat
<1>1. l[i] \in Timing
  OBVIOUS
<1> QED
  BY <1>1 DEF Timing

LEMMA DueExists ==
    ASSUME NEW l \in Seq(Timing), NEW k \in 0..Len(l)
    PROVE  \E d : IsDue(d, l, k)
<1> DEFINE Bad == {n \in 0..Len(l) : ~\E d : IsDue(d, l, n)}
<1> SUFFICES ASSUME Bad # {} PROVE FALSE
  OBVIOUS
<1>0. Bad \in SUBSET Nat
  OBVIOUS
<1>1. PICK n \in Bad : \A m \in Bad : n <= m
  BY NatLeast, <1>0
<1>2. n # 0
  <2> DEFINE d == [i \in 0..0 |-> 0]
  <2>1. IsDue(d, l, 0)
    BY DEF IsDue
  <2> QED
    BY <2>1
<1>3. n \in 1..Len(l) /\ n - 1 \in 0..Len(l) /\ n - 1 \notin Bad /\ n \in Nat
  BY <1>1, <1>2
<1>4. PICK d : IsDue(d, l, n - 1)
  BY <1>3
<1>5. l[n].expires \in Nat
  BY <1>3, TimingOf
<1> DEFINE e == [i \in 0..n |-> IF i = n THEN d[n - 1] + l[n].expires ELSE d[i]]
<1>6. d[n - 1] \in Nat /\ \A i \in 0..n : i # n => d[i] \in Nat
  <2>1. n - 1 \in 0..n - 1 /\ \A i \in 0..n : i # n => i \in 0..n - 1
    BY <1>3
  <2> QED
    BY <2>1, <1>4 DEF IsDue
<1>7. \A i \in 1..n : e[i] = e[i - 1] + l[i].expires
  <2> TAKE i \in 1..n
  <2>1. i - 1 \in 0..n /\ i - 1 # n /\ i \in 0..n
    BY <1>3
  <2>2. i # n => d[i] = d[i - 1] + l[i].expires
    BY <1>3, <1>4 DEF IsDue
  <2> QED
    BY <2>1, <2>2
<1>8. e \in [0..n -> Nat] /\ e[0] = 0
  BY <1>3, <1>4, <1>5, <1>6 DEF IsDue
<1>9. IsDue(e, l, n)
  BY <1>7, <1>8 DEF IsDue
<1> QED
  BY <1>9

LEMMA DueIsDue == ASSUME NEW l \in Seq(Timing) PROVE IsDue(Due(l), l, Len(l))
<1> DEFINE Body(w) == [i \in 0..Len(l) |-> IF i = 0 THEN 0 ELSE w[i - 1] + l[i].expires]
<1>0. Len(l) \in Nat
  OBVIOUS
<1>1. PICK w : IsDue(w, l, Len(l))
  BY DueExists, <1>0
<1>2. w = Body(w)
  <2>1. w = [n \in 0..Len(l) |-> w[n]]
    BY <1>1 DEF IsDue
  <2>2. \A n \in 0..Len(l) : w[n] = IF n = 0 THEN 0 ELSE w[n - 1] + l[n].expires
    <3> TAKE n \in 0..Len(l)
    <3>1. n = 0 \/ n \in 1..Len(l)
      BY <1>0
    <3> QED
      BY <3>1, <1>1 DEF IsDue
  <2> QED
    BY <2>1, <2>2, Zenon
<1>3. Due(l) = CHOOSE u : u = Body(u)
  BY Zenon DEF Due
<1> HIDE DEF Body
<1>4. Due(l) = Body(Due(l))
  BY <1>2, <1>3, Zenon
<1> USE DEF Body
<1> DEFINE u == Due(l)
<1>5. u = [i \in 0..Len(l) |-> IF i = 0 THEN 0 ELSE u[i - 1] + l[i].expires]
  BY <1>4, Zenon
<1> HIDE DEF u
<1>6. u[0] = 0 /\ \A i \in 1..Len(l) : u[i] = u[i - 1] + l[i].expires
  BY <1>5, <1>0
<1>7. ASSUME NEW n \in 0..Len(l) PROVE u[n] \in Nat
  <2> DEFINE Bad == {m \in 0..Len(l) : u[m] \notin Nat}
  <2> SUFFICES ASSUME Bad # {} PROVE FALSE
    OBVIOUS
  <2>0. Bad \in SUBSET Nat
    OBVIOUS
  <2>1. PICK m \in Bad : \A i \in Bad : m <= i
    BY NatLeast, <2>0
  <2>2. m # 0
    BY <1>6
  <2>3. m \in 1..Len(l) /\ m - 1 \in 0..Len(l) /\ m - 1 \notin Bad
    BY <2>1, <2>2
  <2>4. l[m].expires \in Nat
    BY <2>3, TimingOf
  <2> QED
    BY <2>3, <2>4, <1>6
<1>8. IsDue(u, l, Len(l))
  BY <1>5, <1>6, <1>7 DEF IsDue
<1> QED
  BY <1>8 DEF u

LEMMA DueUnique ==
    ASSUME NEW l, NEW k \in Nat, NEW d, NEW e, IsDue(d, l, k), IsDue(e, l, k)
    PROVE  d = e
<1> DEFINE Bad == {m \in 0..k : d[m] # e[m]}
<1>1. Bad = {}
  <2> SUFFICES ASSUME Bad # {} PROVE FALSE
    OBVIOUS
  <2>0. Bad \in SUBSET Nat
    OBVIOUS
  <2>1. PICK m \in Bad : \A i \in Bad : m <= i
    BY NatLeast, <2>0
  <2>2. m # 0
    BY DEF IsDue
  <2>3. m \in 1..k /\ m - 1 \in 0..k /\ m - 1 \notin Bad
    BY <2>1, <2>2
  <2> QED
    BY <2>3 DEF IsDue
<1>2. d = [i \in 0..k |-> d[i]] /\ e = [i \in 0..k |-> e[i]]
  BY DEF IsDue
<1>3. \A i \in 0..k : d[i] = e[i]
  BY <1>1
<1> QED
  BY <1>2, <1>3

LEMMA DueSorted ==
    ASSUME NEW l \in Seq(Timing), NEW d, IsDue(d, l, Len(l)),
           NEW i \in 0..Len(l), NEW j \in 0..Len(l), i <= j
    PROVE  d[i] <= d[j]
<1> DEFINE Bad == {m \in i..Len(l) : ~(d[i] <= d[m])}
<1> SUFFICES ASSUME Bad # {} PROVE FALSE
  OBVIOUS
<1>0. Bad \in SUBSET Nat
  OBVIOUS
<1>1. PICK m \in Bad : \A n \in Bad : m <= n
  BY NatLeast, <1>0
<1>2. m # i /\ \A n \in 0..Len(l) : d[n] \in Nat
  BY DEF IsDue
<1>3. m \in 1..Len(l) /\ m - 1 \in i..Len(l) /\ m - 1 \notin Bad /\ m - 1 \in 0..Len(l)
  BY <1>1, <1>2
<1>4. l[m].expires \in Nat
  BY <1>3, TimingOf
<1>5. d[m] = d[m - 1] + l[m].expires
  BY <1>3 DEF IsDue
<1> QED
  BY <1>2, <1>3, <1>4, <1>5

\* The places of a list up to some point are as many as the last one says.
LEMMA Prefix ==
    ASSUME NEW n \in Nat, NEW S \in SUBSET (1..n),
           \A i, j \in 1..n : i <= j /\ j \in S => i \in S
    PROVE  /\ Cardinality(S) \in 0..n
           /\ \A i \in 1..n : i \in S <=> i <= Cardinality(S)
<1> DEFINE Out == {k \in 1..n + 1 : k \notin S}
<1>0. Out \in SUBSET Nat /\ n + 1 \in Out
  OBVIOUS
<1>1. PICK m \in Out : \A k \in Out : m <= k
  BY NatLeast, <1>0
<1>2. S = 1..m - 1
  <2>1. \A i \in 1..n : i < m => i \in S
    BY <1>1
  <2>2. \A i \in 1..n : i >= m => i \notin S
    BY <1>1
  <2>3. m \in 1..n + 1
    BY <1>1
  <2>4. \A i \in S : i \in 1..m - 1
    BY <2>2, <2>3
  <2>5. \A i \in 1..m - 1 : i \in S
    BY <2>1, <2>3
  <2> QED
    BY <2>4, <2>5
<1>3. Cardinality(1..m - 1) = m - 1
  BY FS_Interval, <1>1
<1> QED
  BY <1>1, <1>2, <1>3

LEMMA LeftValue ==
    ASSUME NEW l, TimersOK(l), NEW d, IsDue(d, l, Len(l))
    PROVE  /\ LeftIn(l) \in [Sleeper -> Nat]
           /\ \A i \in 1..Len(l) : LeftIn(l)[l[i].proc] = d[i]
           /\ \A p \in Sleeper : (\A i \in 1..Len(l) : l[i].proc # p) => LeftIn(l)[p] = 0
           /\ \A i \in 1..Len(l) : d[i] > 0 /\ l[i].proc \in Sleeper
<1>1. l \in Seq(Timing) /\ DOMAIN l = 1..Len(l) /\ Len(l) \in Nat
      /\ \A i \in 1..Len(l) : l[i] \in Timing /\ l[i].proc \in Sleeper /\ l[i].expires \in Nat
  <2>1. l \in Seq(Timing)
    BY DEF TimersOK
  <2> QED
    BY <2>1, TimingOf
<1>2. Due(l) = d
  BY <1>1, DueIsDue, DueUnique
<1>3. ASSUME NEW p \in Sleeper, NEW i \in 1..Len(l), l[i].proc = p
      PROVE  LeftIn(l)[p] = d[i]
  <2>1. (CHOOSE j \in DOMAIN l : l[j].proc = p) = i
    BY <1>1, <1>3 DEF TimersOK
  <2>2. p \in {l[j].proc : j \in DOMAIN l}
    BY <1>1, <1>3
  <2> QED
    BY <1>2, <2>1, <2>2 DEF LeftIn
<1>4. ASSUME NEW p \in Sleeper, \A i \in 1..Len(l) : l[i].proc # p
      PROVE  LeftIn(l)[p] = 0
  <2>1. p \notin {l[j].proc : j \in DOMAIN l}
    BY <1>1, <1>4
  <2> QED
    BY <2>1 DEF LeftIn
<1>5. \A i \in 0..Len(l) : d[i] \in Nat
  BY DEF IsDue
<1>6. LeftIn(l) \in [Sleeper -> Nat]
  <2>1. \A p \in Sleeper : LeftIn(l)[p] \in Nat
    BY <1>3, <1>4, <1>5
  <2> QED
    BY <2>1 DEF LeftIn
<1>7. ASSUME NEW i \in 1..Len(l) PROVE d[i] > 0
  <2>1. d[1] <= d[i]
    BY <1>1, DueSorted
  <2>2. d[1] = d[0] + l[1].expires /\ d[0] = 0 /\ l # <<>> /\ 1 \in 1..Len(l)
    BY <1>1 DEF IsDue
  <2> QED
    BY <2>1, <2>2, <1>1, <1>5 DEF TimersOK
<1> QED
  BY <1>1, <1>3, <1>4, <1>6, <1>7

\* Sequences and records.
LEMMA SubSeqOf ==
    ASSUME NEW T, NEW s \in Seq(T), NEW a \in Nat \ {0}, NEW b \in Nat,
           a <= b + 1, b <= Len(s)
    PROVE  /\ SubSeq(s, a, b) \in Seq(T) /\ Len(SubSeq(s, a, b)) = b - a + 1
           /\ \A k \in 1..b - a + 1 : SubSeq(s, a, b)[k] = s[a + k - 1]
<1>1. \A k \in 1..b - a + 1 : a + k - 1 \in 1..Len(s) /\ s[a + k - 1] \in T
  OBVIOUS
<1>2. SubSeq(s, a, b) = [k \in 1..b - a + 1 |-> s[a + k - 1]]
  OBVIOUS
<1> QED
  BY <1>1, <1>2

LEMMA ConcatOf ==
    ASSUME NEW T, NEW s \in Seq(T), NEW u \in Seq(T)
    PROVE  /\ s \o u \in Seq(T) /\ Len(s \o u) = Len(s) + Len(u)
           /\ \A k \in 1..Len(s) : (s \o u)[k] = s[k]
           /\ \A k \in Len(s) + 1..Len(s) + Len(u) : (s \o u)[k] = u[k - Len(s)]
OBVIOUS

LEMMA LessBy ==
    ASSUME NEW x \in Timing, NEW q
    PROVE  [x EXCEPT !.expires = @ - q] = [proc |-> x.proc, expires |-> x.expires - q]
BY DEF Timing

\* m is l with a timer of p put behind the first j, all that fire before t.
Added(l, m, p, t, d, j) ==
    /\ m \in Seq(Timing) /\ Len(m) = Len(l) + 1
    /\ \A k \in 1..j : m[k] = l[k]
    /\ m[j + 1] = [proc |-> p, expires |-> t - d[j]]
    /\ j < Len(l) => m[j + 2] = [proc |-> l[j + 1].proc,
                                 expires |-> l[j + 1].expires - (t - d[j])]
    /\ \A k \in j + 3..Len(m) : m[k] = l[k - 1]
LeftSet(l, m, p, t) == LeftIn(m) = [LeftIn(l) EXCEPT ![p] = t]

\* m is l one tick later, when its first f timers have fired.
Ticked(l, m, f) ==
    /\ m \in Seq(Timing) /\ Len(m) = Len(l) - f
    /\ \A k \in 1..Len(m) :
          m[k] = [proc |-> l[k + f].proc,
                  expires |-> IF k + f = 1 THEN l[1].expires - 1 ELSE l[k + f].expires]
LeftTicked(l, m) ==
    LeftIn(m) = [p \in Sleeper |-> IF LeftIn(l)[p] > 0 THEN LeftIn(l)[p] - 1 ELSE 0]

\* Left changes with the list as the due times of its timers do.
LEMMA AddStep ==
    ASSUME NEW l, TimersOK(l), NEW m, NEW p \in Sleeper, NEW t \in Nat \ {0},
           \A i \in 1..Len(l) : l[i].proc # p,
           NEW d, IsDue(d, l, Len(l)),
           NEW j \in 0..Len(l), d[j] <= t, j < Len(l) => t < d[j + 1],
           Added(l, m, p, t, d, j)
    PROVE  TimersOK(m) /\ LeftSet(l, m, p, t)
<1> USE DEF Added, LeftSet
<1> DEFINE n == Len(l)
<1>1. l \in Seq(Timing) /\ n \in Nat /\ DOMAIN l = 1..n /\ DOMAIN m = 1..n + 1
  BY DEF TimersOK
<1>2. \A i \in 1..n : l[i].proc \in Sleeper /\ l[i].expires \in Nat
  BY <1>1, TimingOf
<1>15. \A a \in 1..n, b \in 1..n : l[a].proc = l[b].proc => a = b
  BY <1>1 DEF TimersOK
<1>3. \A i \in 0..n : d[i] \in Nat
  BY DEF IsDue
<1>4. \A i \in 1..n : d[i] = d[i - 1] + l[i].expires
  BY DEF IsDue
<1> DEFINE new == [i \in 1..n |-> IF i <= j THEN i ELSE i + 1]
           e == [k \in 0..n + 1 |-> IF k <= j THEN d[k] ELSE IF k = j + 1 THEN t ELSE d[k - 1]]
<1>5. \A i \in 1..n : m[new[i]].proc = l[i].proc /\ new[i] \in 1..n + 1 /\ new[i] # j + 1
  <2> TAKE i \in 1..n
  <2>1. CASE i <= j
    BY <2>1, <1>1
  <2>2. CASE i = j + 1
    BY <2>2, <1>1
  <2>3. CASE i > j + 1
    BY <2>3, <1>1
  <2> QED
    BY <2>1, <2>2, <2>3, <1>1
<1>6. \A k \in 1..n + 1 : k # j + 1 => \E i \in 1..n : k = new[i]
  <2> TAKE k \in 1..n + 1
  <2>1. CASE k <= j
    BY <2>1, <1>1
  <2>2. CASE k > j + 1
    <3>1. k - 1 \in 1..n /\ new[k - 1] = k
      BY <2>2, <1>1
    <3> QED
      BY <3>1
  <2> QED
    BY <2>1, <2>2, <1>1
<1>7. m[j + 1].proc = p
  OBVIOUS
<1>8. IsDue(e, m, n + 1)
  <2>1. e \in [0..n + 1 -> Nat]
    <3>1. \A k \in 0..n + 1 : e[k] \in Nat
      BY <1>1, <1>3
    <3> QED
      BY <3>1
  <2>2. e[0] = 0
    BY <1>1 DEF IsDue
  <2>3. ASSUME NEW k \in 1..n + 1 PROVE e[k] = e[k - 1] + m[k].expires
    <3>0. k - 1 \in 0..n + 1 /\ k \in 0..n + 1
      BY <1>1
    <3>1. CASE k <= j
      BY <3>0, <3>1, <1>1, <1>4
    <3>2. CASE k = j + 1
      BY <3>0, <3>2, <1>1, <1>3
    <3>3. CASE k = j + 2
      BY <3>0, <3>3, <1>1, <1>2, <1>3, <1>4
    <3>4. CASE k > j + 2
      BY <3>0, <3>4, <1>1, <1>4
    <3> QED
      BY <3>1, <3>2, <3>3, <3>4, <1>1
  <2> QED
    BY <2>1, <2>2, <2>3 DEF IsDue
<1>9. \A i \in 1..n : e[new[i]] = d[i]
  BY <1>1
<1>10. e[j + 1] = t
  BY <1>1
<1> HIDE DEF new, e
<1>11. TimersOK(m)
  <2>1. ASSUME NEW a \in 1..n + 1, NEW b \in 1..n + 1, m[a].proc = m[b].proc PROVE a = b
    <3>1. a = j + 1 \/ \E i \in 1..n : a = new[i]
      BY <1>6
    <3>2. b = j + 1 \/ \E i \in 1..n : b = new[i]
      BY <1>6
    <3>3. \A i \in 1..n : m[new[i]].proc # m[j + 1].proc
      BY <1>5, <1>7
    <3>4. \A i \in 1..n, k \in 1..n : m[new[i]].proc = m[new[k]].proc => i = k
      <4> TAKE i \in 1..n, k \in 1..n
      <4>1. m[new[i]].proc = l[i].proc /\ m[new[k]].proc = l[k].proc
        BY <1>5
      <4> QED
        BY <4>1, <1>15
    <3> QED
      BY ONLY <3>1, <3>2, <3>3, <3>4, <2>1
  <2>2. m[1].expires > 0
    <3>1. CASE j = 0
      BY <3>1, <1>1 DEF IsDue
    <3>2. CASE j # 0
      BY <3>2, <1>1 DEF TimersOK
    <3> QED
      BY <3>1, <3>2
  <2> QED
    BY <2>1, <2>2, <1>1 DEF TimersOK
<1>12. /\ LeftIn(l) \in [Sleeper -> Nat]
       /\ \A i \in 1..n : LeftIn(l)[l[i].proc] = d[i]
       /\ \A q \in Sleeper : (\A i \in 1..n : l[i].proc # q) => LeftIn(l)[q] = 0
  BY LeftValue
<1>13. /\ LeftIn(m) \in [Sleeper -> Nat]
       /\ \A i \in 1..n + 1 : LeftIn(m)[m[i].proc] = e[i]
       /\ \A q \in Sleeper : (\A i \in 1..n + 1 : m[i].proc # q) => LeftIn(m)[q] = 0
  BY <1>8, <1>11, LeftValue
<1>14. ASSUME NEW q \in Sleeper PROVE LeftIn(m)[q] = IF q = p THEN t ELSE LeftIn(l)[q]
  <2>1. CASE q = p
    <3>1. j + 1 \in 1..n + 1
      BY <1>1
    <3> QED
      BY <2>1, <3>1, <1>7, <1>10, <1>13
  <2>2. CASE q # p /\ \E i \in 1..n : l[i].proc = q
    <3>1. PICK i \in 1..n : l[i].proc = q
      BY <2>2
    <3>2. m[new[i]].proc = q /\ new[i] \in 1..n + 1 /\ e[new[i]] = d[i]
      BY <3>1, <1>5, <1>9
    <3>3. LeftIn(m)[q] = e[new[i]]
      BY <3>2, <1>13
    <3>4. LeftIn(l)[q] = d[i]
      BY <3>1, <1>12
    <3> QED
      BY <3>2, <3>3, <3>4, <2>2
  <2>3. CASE q # p /\ \A i \in 1..n : l[i].proc # q
    <3>1. \A k \in 1..n + 1 : m[k].proc # q
      <4> TAKE k \in 1..n + 1
      <4>1. CASE k = j + 1
        BY <4>1, <1>7, <2>3
      <4>2. CASE k # j + 1
        <5>1. PICK i \in 1..n : k = new[i]
          BY <4>2, <1>6
        <5>2. m[k].proc = l[i].proc
          BY <5>1, <1>5
        <5> QED
          BY <5>2, <2>3
      <4> QED
        BY <4>1, <4>2
    <3> QED
      BY <2>3, <3>1, <1>12, <1>13
  <2> QED
    BY <2>1, <2>2, <2>3
<1> QED
  BY <1>11, <1>12, <1>13, <1>14

LEMMA StopStep ==
    ASSUME NEW l, TimersOK(l), NEW m,
           NEW j \in 1..Len(l),
           m \in Seq(Timing), Len(m) = Len(l) - 1,
           \A k \in 1..j - 1 : m[k] = l[k],
           j < Len(l) => m[j] = [proc |-> l[j + 1].proc,
                                 expires |-> l[j + 1].expires + l[j].expires],
           \A k \in j + 1..Len(m) : m[k] = l[k + 1]
    PROVE  TimersOK(m) /\ LeftIn(m) = [LeftIn(l) EXCEPT ![l[j].proc] = 0]
<1> DEFINE n == Len(l)
<1>1. l \in Seq(Timing) /\ n \in Nat /\ DOMAIN l = 1..n /\ DOMAIN m = 1..n - 1
  BY DEF TimersOK
<1>2. \A i \in 1..n : l[i].proc \in Sleeper /\ l[i].expires \in Nat
  BY <1>1, TimingOf
<1>3. \A a \in 1..n, b \in 1..n : l[a].proc = l[b].proc => a = b
  BY <1>1 DEF TimersOK
<1> DEFINE d == Due(l)
<1>4. IsDue(d, l, n)
  BY <1>1, DueIsDue
<1> HIDE DEF d
<1>5. d[0] = 0 /\ (\A i \in 0..n : d[i] \in Nat) /\ \A i \in 1..n : d[i] = d[i - 1] + l[i].expires
  BY <1>4 DEF IsDue
<1> DEFINE old == [k \in 1..n - 1 |-> IF k < j THEN k ELSE k + 1]
           e == [k \in 0..n - 1 |-> IF k < j THEN d[k] ELSE d[k + 1]]
<1>6. \A k \in 1..n - 1 : m[k].proc = l[old[k]].proc /\ old[k] \in 1..n /\ old[k] # j
  <2> TAKE k \in 1..n - 1
  <2>1. CASE k < j
    BY <2>1, <1>1
  <2>2. CASE k = j
    BY <2>2, <1>1
  <2>3. CASE k > j
    BY <2>3, <1>1
  <2> QED
    BY <2>1, <2>2, <2>3, <1>1
<1>7. \A i \in 1..n : i # j => \E k \in 1..n - 1 : i = old[k]
  <2> TAKE i \in 1..n
  <2>1. CASE i < j
    BY <2>1, <1>1
  <2>2. CASE i > j
    <3>1. i - 1 \in 1..n - 1 /\ old[i - 1] = i
      BY <2>2, <1>1
    <3> QED
      BY <3>1
  <2> QED
    BY <2>1, <2>2, <1>1
<1>8. \A a \in 1..n - 1, b \in 1..n - 1 : old[a] = old[b] => a = b
  BY <1>1
<1>9. IsDue(e, m, n - 1)
  <2>1. e \in [0..n - 1 -> Nat]
    <3>1. \A k \in 0..n - 1 : e[k] \in Nat
      BY <1>1, <1>5
    <3> QED
      BY <3>1
  <2>2. e[0] = 0
    BY <1>1, <1>5
  <2>3. ASSUME NEW k \in 1..n - 1 PROVE e[k] = e[k - 1] + m[k].expires
    <3>0. k - 1 \in 0..n - 1 /\ k \in 0..n - 1
      BY <1>1
    <3>1. CASE k < j
      BY <3>0, <3>1, <1>1, <1>5
    <3>2. CASE k = j
      <4>1. d[k + 1] = d[k] + l[k + 1].expires /\ d[k] = d[k - 1] + l[k].expires
        BY <3>2, <1>1, <1>5
      <4>2. m[k].expires = l[k + 1].expires + l[k].expires
        BY <3>2, <1>1
      <4> QED
        BY <3>0, <3>2, <4>1, <4>2, <1>1, <1>2, <1>5
    <3>3. CASE k > j
      <4>0. k + 1 \in 1..n /\ k + 1 - 1 = k /\ k \in j + 1..Len(m)
        BY <3>3, <1>1
      <4>1. d[k + 1] = d[k] + l[k + 1].expires /\ m[k] = l[k + 1]
        BY <4>0, <1>5
      <4> QED
        BY <3>0, <3>3, <4>1, <1>1, <1>5
    <3> QED
      BY <3>1, <3>2, <3>3, <1>1
  <2> QED
    BY <2>1, <2>2, <2>3 DEF IsDue
<1>10. \A k \in 1..n - 1 : e[k] = d[old[k]]
  BY <1>1
<1> HIDE DEF old, e
<1>11. TimersOK(m)
  <2>1. ASSUME NEW a \in 1..n - 1, NEW b \in 1..n - 1, m[a].proc = m[b].proc PROVE a = b
    <3>1. PICK i, k : i = old[a] /\ k = old[b]
      OBVIOUS
    <3>2. i \in 1..n /\ k \in 1..n /\ l[i].proc = l[k].proc
      BY <2>1, <3>1, <1>6
    <3> QED
      BY <3>1, <3>2, <1>3, <1>8
  <2>2. m # <<>> => m[1].expires > 0
    <3> SUFFICES ASSUME n > 1 PROVE m[1].expires > 0
      BY <1>1
    <3>1. l[1].expires > 0 /\ l[2].expires \in Nat
      BY <1>1, <1>2 DEF TimersOK
    <3>2. CASE j = 1
      <4>1. m[1].expires = l[2].expires + l[1].expires
        BY <3>2, <1>1
      <4>2. l[1].expires \in Nat
        BY <1>1, <1>2
      <4> QED
        BY <3>1, <4>1, <4>2
    <3>3. CASE j # 1
      BY <3>1, <3>3, <1>1
    <3> QED
      BY <3>2, <3>3
  <2> QED
    BY <2>1, <2>2, <1>1 DEF TimersOK
<1>12. /\ LeftIn(l) \in [Sleeper -> Nat]
       /\ \A i \in 1..n : LeftIn(l)[l[i].proc] = d[i]
       /\ \A q \in Sleeper : (\A i \in 1..n : l[i].proc # q) => LeftIn(l)[q] = 0
  BY <1>4, LeftValue
<1>13. /\ LeftIn(m) \in [Sleeper -> Nat]
       /\ \A i \in 1..n - 1 : LeftIn(m)[m[i].proc] = e[i]
       /\ \A q \in Sleeper : (\A i \in 1..n - 1 : m[i].proc # q) => LeftIn(m)[q] = 0
  BY <1>9, <1>11, LeftValue
<1>14. ASSUME NEW q \in Sleeper PROVE LeftIn(m)[q] = IF q = l[j].proc THEN 0 ELSE LeftIn(l)[q]
  <2>1. CASE q = l[j].proc \/ \A i \in 1..n : l[i].proc # q
    <3>1. \A k \in 1..n - 1 : m[k].proc # q
      BY <2>1, <1>3, <1>6
    <3> QED
      BY <2>1, <3>1, <1>12, <1>13
  <2>2. CASE q # l[j].proc /\ \E i \in 1..n : l[i].proc = q
    <3>1. PICK i \in 1..n : l[i].proc = q
      BY <2>2
    <3>2. PICK k \in 1..n - 1 : i = old[k]
      BY <3>1, <2>2, <1>7
    <3>3. LeftIn(m)[q] = d[i]
      BY <3>1, <3>2, <1>6, <1>10, <1>13
    <3> QED
      BY <3>1, <3>3, <2>2, <1>12
  <2> QED
    BY <2>1, <2>2
<1> QED
  BY <1>2, <1>11, <1>12, <1>13, <1>14

LEMMA CountStep ==
    ASSUME NEW l, TimersOK(l), l # <<>>, NEW m,
           NEW d, IsDue(d, l, Len(l)),
           NEW f \in 0..Len(l), \A k \in 1..Len(l) : k <= f <=> d[k] = 1,
           Ticked(l, m, f)
    PROVE  TimersOK(m) /\ LeftTicked(l, m)
<1> USE DEF Ticked, LeftTicked
<1> DEFINE n == Len(l)
<1>1. l \in Seq(Timing) /\ n \in Nat /\ DOMAIN l = 1..n /\ DOMAIN m = 1..n - f /\ f \in Nat
  BY DEF TimersOK
<1>2. \A i \in 1..n : l[i].proc \in Sleeper /\ l[i].expires \in Nat
  BY <1>1, TimingOf
<1>3. \A a \in 1..n, b \in 1..n : l[a].proc = l[b].proc => a = b
  BY <1>1 DEF TimersOK
<1>4. d[0] = 0 /\ (\A i \in 0..n : d[i] \in Nat) /\ \A i \in 1..n : d[i] = d[i - 1] + l[i].expires
  BY DEF IsDue
<1>5. /\ LeftIn(l) \in [Sleeper -> Nat]
      /\ \A i \in 1..n : LeftIn(l)[l[i].proc] = d[i] /\ d[i] > 0
      /\ \A q \in Sleeper : (\A i \in 1..n : l[i].proc # q) => LeftIn(l)[q] = 0
  <2> HIDE DEF Ticked, LeftTicked
  <2> QED
    BY LeftValue
<1>6. \A k \in 1..n - f : k + f \in 1..n /\ m[k].proc = l[k + f].proc
  BY <1>1
<1> DEFINE e == [k \in 0..n - f |-> IF k = 0 THEN 0 ELSE d[k + f] - 1]
<1>7. IsDue(e, m, n - f)
  <2>1. e \in [0..n - f -> Nat]
    <3>1. \A k \in 0..n - f : e[k] \in Nat
      <4> TAKE k \in 0..n - f
      <4>0. k # 0 => k + f \in 1..n /\ k + f \in 0..n
        BY <1>1
      <4>1. k # 0 => d[k + f] > 0 /\ d[k + f] \in Nat
        BY <4>0, <1>4, <1>5
      <4> QED
        BY <4>1
    <3> QED
      BY <3>1
  <2>2. e[0] = 0
    BY <1>1
  <2>3. ASSUME NEW k \in 1..n - f PROVE e[k] = e[k - 1] + m[k].expires
    <3>0. /\ k - 1 \in 0..n - f /\ k \in 0..n - f /\ k + f \in 1..n
          /\ d[k + f] = d[k + f - 1] + l[k + f].expires
          /\ l[k + f].expires \in Nat /\ d[k + f] \in Nat /\ d[k + f - 1] \in Nat
      BY <1>1, <1>2, <1>4
    <3>1. CASE k = 1 /\ f = 0
      <4>1. m[k].expires = l[1].expires - 1
        BY <3>1, <1>1
      <4> QED
        BY <4>1, <3>0, <3>1, <1>4
    <3>2. CASE k = 1 /\ f # 0
      <4>1. d[f] = 1 /\ k + f - 1 = f
        BY <3>2, <1>1
      <4>3. e[k] = d[k + f] - 1 /\ e[k - 1] = 0
        BY <3>0, <3>2
      <4>2. m[k].expires = l[k + f].expires
        BY <3>2, <1>1
      <4> QED
        BY <4>1, <4>2, <4>3, <3>0, <3>2
    <3>3. CASE k # 1
      <4>1. m[k].expires = l[k + f].expires
        BY <3>3, <1>1
      <4>2. e[k - 1] = d[k + f - 1] - 1
        BY <3>0, <3>3, <1>1
      <4>3. e[k] = d[k + f] - 1
        BY <3>0
      <4> QED
        BY <4>1, <4>2, <4>3, <3>0
    <3> QED
      BY <3>1, <3>2, <3>3
  <2> QED
    BY <2>1, <2>2, <2>3 DEF IsDue
<1>8. \A k \in 1..n - f : e[k] = d[k + f] - 1
  BY <1>1
<1> HIDE DEF e
<1>9. TimersOK(m)
  <2>1. ASSUME NEW a \in 1..n - f, NEW b \in 1..n - f, m[a].proc = m[b].proc PROVE a = b
    <3>1. a + f = b + f
      BY <2>1, <1>3, <1>6
    <3> QED
      BY <3>1, <1>1
  <2>2. m # <<>> => m[1].expires > 0
    <3> SUFFICES ASSUME n - f > 0 PROVE m[1].expires > 0
      BY <1>1
    <3>1. 1 \in 1..n - f /\ 1 + f \in 1..n
      BY <1>1
    <3>2. d[1 + f] > 1
      BY <3>1, <1>1, <1>4, <1>5
    <3>3. e[1] = e[0] + m[1].expires /\ e[0] = 0 /\ e[1] = d[1 + f] - 1
      BY <3>1, <1>7, <1>8 DEF IsDue
    <3>4. m[1].expires \in Nat
      BY <3>1, TimingOf
    <3> QED
      BY <3>1, <3>2, <3>3, <3>4, <1>4
  <2> QED
    BY <2>1, <2>2, <1>1 DEF TimersOK
<1>10. /\ LeftIn(m) \in [Sleeper -> Nat]
       /\ \A i \in 1..n - f : LeftIn(m)[m[i].proc] = e[i]
       /\ \A q \in Sleeper : (\A i \in 1..n - f : m[i].proc # q) => LeftIn(m)[q] = 0
  BY <1>7, <1>9, LeftValue
<1>11. ASSUME NEW q \in Sleeper
       PROVE  LeftIn(m)[q] = IF LeftIn(l)[q] > 0 THEN LeftIn(l)[q] - 1 ELSE 0
  <2>1. CASE \A i \in 1..n : l[i].proc # q
    <3>1. \A k \in 1..n - f : m[k].proc # q
      BY <2>1, <1>6
    <3> QED
      BY <2>1, <3>1, <1>5, <1>10
  <2>2. CASE \E i \in 1..n : l[i].proc = q
    <3>1. PICK i \in 1..n : l[i].proc = q
      BY <2>2
    <3>2. LeftIn(l)[q] = d[i] /\ d[i] > 0 /\ d[i] \in Nat
      BY <3>1, <1>4, <1>5
    <3>3. CASE i <= f
      <4>1. d[i] = 1
        BY <3>3
      <4>2. \A k \in 1..n - f : m[k].proc # q
        <5> SUFFICES ASSUME NEW k \in 1..n - f, m[k].proc = q PROVE FALSE
          OBVIOUS
        <5>1. k + f = i
          BY <3>1, <1>3, <1>6
        <5> QED
          BY <5>1, <3>3, <1>1
      <4> QED
        BY <3>2, <4>1, <4>2, <1>10
    <3>4. CASE i > f
      <4>1. i - f \in 1..n - f /\ (i - f) + f = i
        BY <3>4, <1>1
      <4>2. m[i - f].proc = q /\ e[i - f] = d[i] - 1
        BY <3>1, <4>1, <1>6, <1>8
      <4>3. LeftIn(m)[q] = d[i] - 1
        BY <4>1, <4>2, <1>10
      <4> QED
        BY <3>2, <4>3
    <3> QED
      BY <3>3, <3>4, <1>1
  <2> QED
    BY <2>1, <2>2
<1> QED
  BY <1>9, <1>10, <1>11

\* The steps of the list on Left.
LEMMA LeftIsLeftIn == Left = LeftIn(timer_list) /\ Left' = LeftIn(timer_list')
BY Zenon DEF Left, LeftIn, Armed

LEMMA ArmStep ==
    ASSUME TimersOK(timer_list), NEW p \in Sleeper, NEW t \in 1..MaxTicks, AddTimer(p, t)
    PROVE  TimersOK(timer_list') /\ Left' = [Left EXCEPT ![p] = t] /\ Left[p] = 0
<1> DEFINE l == timer_list  m == timer_list'  n == Len(l)
           d == Due(l)
           S == {k \in DOMAIN l : d[k] <= t}
           j == Cardinality(S)
           new == [proc |-> p, expires |-> t - d[j]]
           rest == SubSeq(l, j + 1, Len(l))
           head == [rest[1] EXCEPT !.expires = @ - new.expires]
<1>1. l \in Seq(Timing) /\ n \in Nat /\ DOMAIN l = 1..n
  BY DEF TimersOK
<1>2. /\ p \notin Armed
      /\ m = SubSeq(l, 1, j) \o <<new>> \o (IF rest = <<>> THEN <<>> ELSE <<head>> \o Tail(rest))
  BY Zenon DEF AddTimer
<1>3. \A i \in 1..n : l[i].proc # p
  BY <1>1, <1>2 DEF Armed
<1>4. IsDue(d, l, n)
  BY <1>1, DueIsDue
<1> HIDE DEF d
<1>5. d[0] = 0 /\ (\A i \in 0..n : d[i] \in Nat) /\ \A i \in 1..n : d[i] = d[i - 1] + l[i].expires
  BY <1>4 DEF IsDue
<1>6. t \in Nat \ {0}
  BY TimerAssumption
<1>7. j \in 0..n /\ \A i \in 1..n : i \in S <=> i <= j
  <2>1. S \in SUBSET (1..n)
    BY <1>1
  <2>2. \A i, k \in 1..n : i <= k /\ k \in S => i \in S
    <3> SUFFICES ASSUME NEW i \in 1..n, NEW k \in 1..n, i <= k, k \in S PROVE i \in S
      OBVIOUS
    <3>1. d[i] <= d[k] /\ i \in 0..n /\ k \in 0..n
      BY <1>1, <1>4, DueSorted
    <3> QED
      BY <3>1, <1>1, <1>5, <1>6
  <2> HIDE DEF S
  <2> QED
    BY <1>1, <2>1, <2>2, Prefix
<1> HIDE DEF j
<1>8. d[j] <= t /\ (j < n => t < d[j + 1]) /\ d[j] \in Nat
  <2>1. j # 0 => j \in S
    BY <1>7
  <2>2. j < n => j + 1 \in 1..n /\ j + 1 \notin S
    BY <1>7
  <2> QED
    BY <2>1, <2>2, <1>1, <1>5, <1>6, <1>7
<1>9. new \in Timing
  <2>1. t - d[j] \in Nat
    BY <1>6, <1>8
  <2> QED
    BY <2>1 DEF Timing
<1>10. CASE j = n
  <2>1. rest = <<>>
    BY <1>1, <1>10
  <2>2. m = l \o <<new>>
    <3>1. SubSeq(l, 1, j) = l
      BY <1>1, <1>10
    <3>2. m = SubSeq(l, 1, j) \o <<new>> \o <<>>
      BY <1>2, <2>1
    <3>3. <<new>> \in Seq(Timing)
      BY <1>9
    <3>4. l \o <<new>> \in Seq(Timing)
      BY <3>3, <1>1, ConcatOf
    <3>5. \A c \in Seq(Timing) : c \o <<>> = c
      OBVIOUS
    <3> QED
      BY <3>1, <3>2, <3>4, <3>5
  <2> HIDE DEF new
  <2>3. /\ m \in Seq(Timing) /\ Len(m) = n + 1 /\ m[j + 1] = new
        /\ \A k \in 1..j : m[k] = l[k]
    BY <1>1, <1>9, <1>10, <2>2
  <2>4. Added(l, m, p, t, d, j)
    BY <1>1, <1>7, <1>10, <2>3 DEF new, Added
  <2> HIDE DEF m
  <2>5. TimersOK(m) /\ LeftSet(l, m, p, t)
    BY ONLY <1>1, <1>3, <1>4, <1>6, <1>7, <1>8, <2>4, TimersOK(l), p \in Sleeper, AddStep
  <2> QED
    BY <2>5, LeftIsLeftIn, <1>3, <1>4, LeftValue DEF m, LeftSet
<1>11. CASE j < n
  <2>1. /\ rest \in Seq(Timing) /\ Len(rest) = n - j /\ rest # <<>>
        /\ \A k \in 1..n - j : rest[k] = l[j + k]
    <3>1. /\ j + 1 \in Nat \ {0} /\ j + 1 <= n + 1 /\ n \in Nat /\ n <= Len(l)
          /\ n - (j + 1) + 1 = n - j
      BY <1>1, <1>7
    <3>2. /\ rest \in Seq(Timing) /\ Len(rest) = n - j
          /\ \A k \in 1..n - j : rest[k] = l[j + 1 + k - 1]
      BY <3>1, <1>1, SubSeqOf
    <3>3. \A k \in 1..n - j : j + 1 + k - 1 = j + k
      BY <1>1, <1>7
    <3> HIDE DEF rest
    <3> QED
      BY <3>2, <3>3, <1>1, <1>7, <1>11
  <2>2. l[j + 1] \in Timing /\ l[j + 1].expires \in Nat /\ l[j + 1].proc \in Sleeper
    BY <1>1, <1>7, <1>11, TimingOf
  <2>3. head = [proc |-> l[j + 1].proc, expires |-> l[j + 1].expires - (t - d[j])]
    <3>1. rest[1] = l[j + 1]
      BY <2>1, <1>7, <1>11
    <3>2. head = [l[j + 1] EXCEPT !.expires = @ - (t - d[j])]
      BY <3>1
    <3> QED
      BY <3>2, <2>2, LessBy
  <2>4. head \in Timing
    <3>1. d[j + 1] = d[j] + l[j + 1].expires
      BY <1>5, <1>7, <1>11
    <3>2. l[j + 1].expires - (t - d[j]) \in Nat
      BY <3>1, <2>2, <1>6, <1>8, <1>11
    <3> QED
      BY <3>2, <2>2, <2>3 DEF Timing
  <2>5. /\ SubSeq(l, 1, j) \in Seq(Timing) /\ Len(SubSeq(l, 1, j)) = j
        /\ \A k \in 1..j : SubSeq(l, 1, j)[k] = l[k]
    BY <1>1, <1>7
  <2>6. /\ Tail(rest) \in Seq(Timing) /\ Len(Tail(rest)) = n - j - 1
        /\ \A k \in 1..n - j - 1 : Tail(rest)[k] = l[j + k + 1]
    <3> HIDE DEF rest
    <3>1. Tail(rest) \in Seq(Timing) /\ Len(Tail(rest)) = n - j - 1
      BY <2>1, <1>1, <1>7, <1>11
    <3>2. ASSUME NEW k \in 1..n - j - 1 PROVE Tail(rest)[k] = l[j + k + 1]
      <4>1. Tail(rest)[k] = rest[k + 1]
        BY <2>1, <1>1, <1>7, <1>11
      <4>2. k + 1 \in 1..n - j /\ j + (k + 1) = j + k + 1
        BY <1>1, <1>7, <1>11
      <4> QED
        BY <4>1, <4>2, <2>1
    <3> QED
      BY <3>1, <3>2
  <2>7. m = SubSeq(l, 1, j) \o <<new>> \o (<<head>> \o Tail(rest))
    BY <1>2, <2>1
  <2> DEFINE a == SubSeq(l, 1, j)  b == Tail(rest)
  <2> HIDE DEF new, head, a, b, m
  <2>8. /\ m \in Seq(Timing) /\ Len(m) = n + 1 /\ m[j + 1] = new /\ m[j + 2] = head
        /\ \A k \in 1..j : m[k] = a[k]
        /\ \A k \in j + 3..n + 1 : m[k] = b[k - j - 2]
    <3>1. m = a \o <<new>> \o (<<head>> \o b)
      BY <2>7 DEF a, b
    <3>2. a \in Seq(Timing) /\ Len(a) = j
      BY <2>5 DEF a
    <3>3. b \in Seq(Timing) /\ Len(b) = n - j - 1
      BY <2>6 DEF b
    <3> DEFINE c == a \o <<new>>  e == <<head>> \o b
    <3>4. /\ c \in Seq(Timing) /\ Len(c) = j + 1 /\ c[j + 1] = new
          /\ \A k \in 1..j : c[k] = a[k]
      BY ONLY <3>2, <1>9, j \in Nat
    <3>5. /\ e \in Seq(Timing) /\ Len(e) = n - j /\ e[1] = head
          /\ \A k \in 2..n - j : e[k] = b[k - 1]
      BY ONLY <3>3, <2>4, <1>1, <1>7, <1>11
    <3> HIDE DEF c, e
    <3>6. m = c \o e
      BY <3>1 DEF c, e
    <3>7. /\ m \in Seq(Timing) /\ Len(m) = n + 1
          /\ \A k \in 1..j + 1 : m[k] = c[k]
          /\ \A k \in j + 2..n + 1 : m[k] = e[k - (j + 1)]
      <4>1. /\ m \in Seq(Timing) /\ Len(m) = Len(c) + Len(e)
            /\ \A k \in 1..Len(c) : m[k] = c[k]
            /\ \A k \in Len(c) + 1..Len(c) + Len(e) : m[k] = e[k - Len(c)]
        BY ONLY <3>6, <3>4, <3>5, ConcatOf
      <4>2. Len(c) + Len(e) = n + 1 /\ Len(c) = j + 1 /\ Len(c) + 1 = j + 2
        BY ONLY <3>4, <3>5, <1>1, <1>7
      <4> QED
        BY ONLY <4>1, <4>2
    <3>8. ASSUME NEW k \in j + 3..n + 1 PROVE m[k] = b[k - j - 2]
      <4>1. k - (j + 1) \in 2..n - j /\ k - (j + 1) - 1 = k - j - 2
        BY <1>1, <1>7
      <4> QED
        BY ONLY <4>1, <3>5, <3>7, k \in j + 3..n + 1, <1>1, <1>7
    <3>9. m[j + 2] = head
      <4>1. j + 2 \in j + 2..n + 1 /\ j + 2 - (j + 1) = 1
        BY <1>1, <1>7, <1>11
      <4> QED
        BY ONLY <4>1, <3>5, <3>7, <1>1, <1>7
    <3> QED
      BY <3>4, <3>7, <3>8, <3>9, <1>7
  <2>9. /\ \A k \in 1..j : m[k] = l[k]
        /\ \A k \in j + 3..Len(m) : m[k] = l[k - 1]
    <3>1. ASSUME NEW k \in j + 3..n + 1 PROVE m[k] = l[k - 1]
      <4>1. k - j - 2 \in 1..n - j - 1 /\ j + (k - j - 2) + 1 = k - 1
        BY <1>1, <1>7
      <4>2. b[k - j - 2] = l[j + (k - j - 2) + 1]
        BY <4>1, <2>6 DEF b
      <4> QED
        BY <4>1, <4>2, <2>8
    <3> QED
      BY <3>1, <2>5, <2>8 DEF a
  <2>10. Added(l, m, p, t, d, j)
    BY <1>1, <2>3, <2>8, <2>9 DEF new, Added
  <2>11. TimersOK(m) /\ LeftSet(l, m, p, t)
    BY ONLY <1>1, <1>3, <1>4, <1>6, <1>7, <1>8, <2>10, TimersOK(l), p \in Sleeper, AddStep
  <2> QED
    BY <2>11, LeftIsLeftIn, <1>3, <1>4, LeftValue DEF m, LeftSet
<1> QED
  BY <1>7, <1>10, <1>11

LEMMA DelStep ==
    ASSUME TimersOK(timer_list), NEW p \in Sleeper, p \in Armed, DelTimer(p)
    PROVE  TimersOK(timer_list') /\ Left' = [Left EXCEPT ![p] = 0]
<1> DEFINE l == timer_list  m == timer_list'  n == Len(l)
<1>1. l \in Seq(Timing) /\ n \in Nat /\ DOMAIN l = 1..n
  BY DEF TimersOK
<1>2. PICK j \in 1..n : l[j].proc = p /\ m = Unlink(l, j)
  BY <1>1 DEF DelTimer
<1> DEFINE r == IF j < Len(l) THEN [l EXCEPT ![j + 1].expires = @ + l[j].expires] ELSE l
<1>3. l[j].expires \in Nat
  BY <1>1, TimingOf
<1>4. /\ r \in Seq(Timing) /\ Len(r) = n
      /\ \A k \in 1..n : k # j + 1 => r[k] = l[k]
      /\ j < n => r[j + 1] = [proc |-> l[j + 1].proc, expires |-> l[j + 1].expires + l[j].expires]
  <2>1. CASE j < n
    <3>1. /\ j + 1 \in 1..n /\ l[j + 1] \in Timing
          /\ l[j + 1].proc \in Sleeper /\ l[j + 1].expires \in Nat
      BY <2>1, <1>1, TimingOf
    <3> DEFINE u == [l[j + 1] EXCEPT !.expires = @ + l[j].expires]
    <3>2. u = [proc |-> l[j + 1].proc, expires |-> l[j + 1].expires + l[j].expires]
      BY <3>1 DEF Timing
    <3>3. u \in Timing
      BY <3>1, <3>2, <1>3 DEF Timing
    <3>4. r = [l EXCEPT ![j + 1] = u]
      BY <2>1
    <3> HIDE DEF u, r
    <3>5. /\ r \in Seq(Timing) /\ Len(r) = n /\ r[j + 1] = u
          /\ \A k \in 1..n : k # j + 1 => r[k] = l[k]
      BY <3>1, <3>3, <3>4, <1>1
    <3> QED
      BY <3>2, <3>5
  <2>2. CASE j = n
    BY <2>2, <1>1
  <2> QED
    BY <2>1, <2>2, <1>1
<1>5. m = SubSeq(r, 1, j - 1) \o SubSeq(r, j + 1, Len(r))
  BY <1>2, Zenon DEF Unlink, RemoveAt
<1> HIDE DEF r
<1>6. /\ m \in Seq(Timing) /\ Len(m) = n - 1
      /\ \A k \in 1..j - 1 : m[k] = r[k]
      /\ \A k \in j..n - 1 : m[k] = r[k + 1]
  <2> DEFINE a == SubSeq(r, 1, j - 1)  b == SubSeq(r, j + 1, n)
  <2>1. /\ j - 1 \in Nat /\ j + 1 \in Nat \ {0} /\ n - (j + 1) + 1 = n - j
        /\ j + 1 <= n + 1 /\ n <= n /\ 1 <= j - 1 + 1 /\ j - 1 <= n /\ j - 1 - 1 + 1 = j - 1
    BY <1>1
  <2>2. /\ a \in Seq(Timing) /\ Len(a) = j - 1
        /\ \A k \in 1..j - 1 : a[k] = r[k]
    BY <2>1, <1>1, <1>4, SubSeqOf
  <2>3. /\ b \in Seq(Timing) /\ Len(b) = n - j
        /\ \A k \in 1..n - j : b[k] = r[j + 1 + k - 1]
    <3>1. r \in Seq(Timing) /\ n \in Nat /\ n <= Len(r)
      BY <1>1, <1>4
    <3>2. /\ b \in Seq(Timing) /\ Len(b) = n - (j + 1) + 1
          /\ \A k \in 1..n - (j + 1) + 1 : b[k] = r[j + 1 + k - 1]
      <4> DEFINE x == j + 1  z == Len(timer_list)
      <4>1. x \in Nat \ {0} /\ z \in Nat /\ x <= z + 1 /\ z <= Len(r)
        BY ONLY <2>1, <3>1
      <4> HIDE DEF x, z
      <4>2. /\ SubSeq(r, x, z) \in Seq(Timing) /\ Len(SubSeq(r, x, z)) = z - x + 1
            /\ \A k \in 1..z - x + 1 : SubSeq(r, x, z)[k] = r[x + k - 1]
        BY ONLY <4>1, <3>1, SubSeqOf
      <4> QED
        BY ONLY <4>2 DEF x, z
    <3> HIDE DEF b
    <3> QED
      BY ONLY <2>1, <3>2
  <2>4. m = a \o b
    BY <1>4, <1>5
  <2> HIDE DEF m, a, b
  <2>5. /\ m \in Seq(Timing) /\ Len(m) = n - 1
        /\ \A k \in 1..j - 1 : m[k] = a[k]
        /\ \A k \in j..n - 1 : m[k] = b[k - (j - 1)]
    <3>1. /\ m \in Seq(Timing) /\ Len(m) = Len(a) + Len(b)
          /\ \A k \in 1..Len(a) : m[k] = a[k]
          /\ \A k \in Len(a) + 1..Len(a) + Len(b) : m[k] = b[k - Len(a)]
      BY ONLY <2>4, <2>2, <2>3, ConcatOf
    <3>2. Len(a) + Len(b) = n - 1 /\ Len(a) = j - 1 /\ Len(a) + 1 = j
      BY ONLY <2>2, <2>3, <1>1, j \in 1..n
    <3> QED
      BY ONLY <3>1, <3>2
  <2>6. ASSUME NEW k \in j..n - 1 PROVE m[k] = r[k + 1]
    <3>1. k - (j - 1) \in 1..n - j /\ j + 1 + (k - (j - 1)) - 1 = k + 1
      BY <1>1
    <3>2. m[k] = b[k - (j - 1)] /\ b[k - (j - 1)] = r[j + 1 + (k - (j - 1)) - 1]
      BY <3>1, <2>3, <2>5
    <3> QED
      BY <3>1, <3>2
  <2> QED
    BY <2>2, <2>5, <2>6
<1>7. /\ \A k \in 1..j - 1 : m[k] = l[k]
      /\ \A k \in j + 1..Len(m) : m[k] = l[k + 1]
      /\ j < n => m[j] = [proc |-> l[j + 1].proc, expires |-> l[j + 1].expires + l[j].expires]
  <2>1. ASSUME NEW k \in 1..j - 1 PROVE m[k] = l[k]
    BY <1>1, <1>4, <1>6
  <2>2. ASSUME NEW k \in j + 1..n - 1 PROVE m[k] = l[k + 1]
    BY <1>1, <1>4, <1>6
  <2>3. ASSUME j < n PROVE m[j] = r[j + 1]
    BY <2>3, <1>1, <1>6
  <2> QED
    BY <2>1, <2>2, <2>3, <1>4, <1>6
<1> HIDE DEF m
<1>8. TimersOK(m) /\ LeftIn(m) = [LeftIn(l) EXCEPT ![l[j].proc] = 0]
  BY <1>1, <1>6, <1>7, StopStep
<1> QED
  BY <1>2, <1>8, LeftIsLeftIn DEF m

LEMMA TickStep ==
    ASSUME TimersOK(timer_list), RunTimerList
    PROVE  TimersOK(timer_list') /\ (Left' = Left \/ Abstract!CountDown)
<1> DEFINE l == timer_list  m == timer_list'  n == Len(l)
<1>1. CASE l = <<>>
  <2>1. m = l
    BY <1>1 DEF RunTimerList
  <2> QED
    BY <2>1, LeftIsLeftIn
<1>2. CASE l # <<>>
  <2> DEFINE r == [l EXCEPT ![1].expires = @ - 1]
             F == {k \in DOMAIN r : \A i \in 1..k : r[i].expires = 0}
             f == Cardinality(F)
             d == Due(l)
  <2>1. l \in Seq(Timing) /\ n \in Nat \ {0} /\ DOMAIN l = 1..n
    BY <1>2 DEF TimersOK
  <2>2. m = SubSeq(r, f + 1, Len(r))
    BY <1>2, Zenon DEF RunTimerList
  <2>3. IsDue(d, l, n)
    BY <2>1, DueIsDue
  <2>4. d[0] = 0 /\ (\A i \in 0..n : d[i] \in Nat) /\ \A i \in 1..n : d[i] = d[i - 1] + l[i].expires
    BY <2>3 DEF IsDue
  <2> HIDE DEF d
  <2>5. \A i \in 1..n : l[i].proc \in Sleeper /\ l[i].expires \in Nat
    BY <2>1, TimingOf
  <2>6. l[1].expires > 0 /\ l[1] \in Timing
    BY <2>1, <1>2, TimingOf DEF TimersOK
  <2>7. /\ r \in Seq(Timing) /\ Len(r) = n /\ DOMAIN r = 1..n
        /\ \A k \in 1..n : r[k] = [proc |-> l[k].proc,
                                   expires |-> IF k = 1 THEN l[1].expires - 1 ELSE l[k].expires]
    <3> DEFINE u == [l[1] EXCEPT !.expires = @ - 1]
    <3>1. u = [proc |-> l[1].proc, expires |-> l[1].expires - 1]
      BY <2>6 DEF Timing
    <3>2. u \in Timing
      BY <3>1, <2>1, <2>5, <2>6 DEF Timing
    <3>3. r = [l EXCEPT ![1] = u]
      OBVIOUS
    <3> HIDE DEF u, r
    <3>4. r \in Seq(Timing) /\ Len(r) = n /\ r[1] = u /\ \A k \in 2..n : r[k] = l[k]
      BY <3>2, <3>3, <2>1
    <3>5. ASSUME NEW k \in 2..n PROVE r[k] = [proc |-> l[k].proc, expires |-> l[k].expires]
      <4>1. l[k] \in Timing
        BY <2>1, TimingOf
      <4>2. l[k] = [proc |-> l[k].proc, expires |-> l[k].expires]
        BY <4>1 DEF Timing
      <4> QED
        BY <3>4, <4>2
    <3> QED
      BY <3>1, <3>4, <3>5, <2>1
  <2> HIDE DEF r
  <2>8. \A k \in 1..n : k \in F <=> d[k] = 1
    <3> DEFINE Bad == {k \in 1..n : ~(k \in F <=> d[k] = 1)}
    <3> SUFFICES ASSUME Bad # {} PROVE FALSE
      OBVIOUS
    <3>0. Bad \in SUBSET Nat
      OBVIOUS
    <3>1. PICK k \in Bad : \A i \in Bad : k <= i
      BY NatLeast, <3>0
    <3>2. CASE k = 1
      <4>1. d[1] = l[1].expires /\ r[1].expires = l[1].expires - 1
        BY <2>1, <2>4, <2>5, <2>7
      <4>2. k \in F <=> r[1].expires = 0
        BY <3>2, <2>1, <2>7
      <4> QED
        BY <3>1, <3>2, <4>1, <4>2, <2>1, <2>5
    <3>3. CASE k # 1
      <4>1. k - 1 \in 1..n /\ k - 1 \notin Bad /\ k \in 1..n
        BY <3>1, <3>3, <2>1
      <4>2. r[k].expires = l[k].expires /\ d[k] = d[k - 1] + l[k].expires
        BY <4>1, <3>3, <2>4, <2>7
      <4>3. k \in F <=> k - 1 \in F /\ r[k].expires = 0
        BY <4>1, <2>7
      <4>4. d[k - 1] > 0 /\ d[k - 1] \in Nat /\ d[k] \in Nat /\ l[k].expires \in Nat
        BY <4>1, <2>3, <2>4, <2>5, LeftValue
      <4> QED
        BY <3>1, <4>1, <4>2, <4>3, <4>4
    <3> QED
      BY <3>2, <3>3
  <2>9. f \in 0..n /\ \A k \in 1..n : k \in F <=> k <= f
    <3>1. F \in SUBSET (1..n)
      BY <2>7
    <3>2. \A i, k \in 1..n : i <= k /\ k \in F => i \in F
      BY <2>1, <2>7
    <3> HIDE DEF F
    <3> QED
      BY <2>1, <3>1, <3>2, Prefix
  <2> HIDE DEF f, F
  <2>10. m \in Seq(Timing) /\ Len(m) = n - f /\ \A k \in 1..Len(m) : m[k] = r[k + f]
    <3>1. f \in Nat /\ f <= n
      BY <2>9, <2>1
    <3> QED
      BY ONLY <2>1, <2>2, <2>7, <3>1
  <2>11. \A k \in 1..Len(m) :
            m[k] = [proc |-> l[k + f].proc,
                    expires |-> IF k + f = 1 THEN l[1].expires - 1 ELSE l[k + f].expires]
    <3> TAKE k \in 1..Len(m)
    <3>1. k + f \in 1..n
      BY <2>1, <2>9, <2>10
    <3> QED
      BY <3>1, <2>7, <2>10
  <2>12. \A k \in 1..n : k <= f <=> d[k] = 1
    BY <2>8, <2>9
  <2>13. Ticked(l, m, f)
    BY <2>10, <2>11 DEF Ticked
  <2> HIDE DEF m
  <2>14. TimersOK(m) /\ LeftTicked(l, m)
    BY ONLY <1>2, <2>3, <2>9, <2>12, <2>13, TimersOK(l), CountStep
  <2> QED
    BY <2>14, LeftIsLeftIn DEF m, Abstract!CountDown, LeftTicked
<1> QED
  BY <1>1, <1>2

LEMMA TimersStep ==
    ASSUME TimersOK(timer_list), [TableNext]_tableVars
    PROVE  TimersOK(timer_list') /\ [Abstract!TimersNext]_Left
<1>1. ASSUME NEW p \in Sleeper, NEW t \in 1..MaxTicks, DoSleep(p, t)
      PROVE  TimersOK(timer_list') /\ [Abstract!TimersNext]_Left
  <2>1. AddTimer(p, t)
    BY <1>1 DEF DoSleep
  <2>2. TimersOK(timer_list') /\ Abstract!Arm(p, t)
    BY <2>1, ArmStep DEF Abstract!Arm
  <2> QED
    BY <2>2 DEF Abstract!TimersNext
<1>2. ASSUME NEW p \in Proc, SleepKilled(p)
      PROVE  TimersOK(timer_list') /\ [Abstract!TimersNext]_Left
  <2>1. p \in Armed /\ DelTimer(p)
    BY <1>2 DEF SleepKilled
  <2>2. p \in Sleeper
    <3>1. timer_list \in Seq(Timing)
      BY DEF TimersOK
    <3> QED
      BY <2>1, <3>1, TimingOf DEF Armed
  <2>3. TimersOK(timer_list') /\ Abstract!Stop(p)
    BY <2>1, <2>2, DelStep DEF Abstract!Stop
  <2> QED
    BY <2>2, <2>3 DEF Abstract!TimersNext
<1>3. CASE Tick
  <2>1. RunTimerList
    BY <1>3 DEF Tick
  <2> QED
    BY <2>1, TickStep DEF Abstract!TimersNext
<1>4. CASE UNCHANGED timer_list
  BY <1>4, LeftIsLeftIn
<1> QED
  BY <1>1, <1>2, <1>3, <1>4
     DEF TableNext, tableVars, GetPidCall, GetPidScan, DoFork, DoExit, DoExitLoop, DoWait

(* The timer list implements Timers: a timer armed for t ticks fires at the*)
(* t-th tick unless it is deleted first, wherever in the list it is put    *)
(* and whatever is inserted or deleted around it.                          *)
THEOREM TimersCorrect == TableSpec => ImplementsTimers
<1>1. TableInit => TimersOK(timer_list) /\ Abstract!TimersInit
  BY DEF TableInit, TimersInit, TimersOK, Abstract!TimersInit, Left, Armed
<1>2. TimersOK(timer_list) /\ [TableNext]_tableVars
      => TimersOK(timer_list)' /\ [Abstract!TimersNext]_Left
  BY TimersStep
<1> QED
  BY <1>1, <1>2, PTL DEF TableSpec, ImplementsTimers, Abstract!TimersSpec

-----------------------------------------------------------------------------
(* Stride: the skew heap, for any number of processes and any strides.     *)

(* A call of skew_heap_merge in the course of a merge: the entries N, with *)
(* None as the head, are in the part that is merged already, or below a or *)
(* b.  The processes that were chosen, D, lead from the head to `at' by    *)
(* left pointers.                                                          *)
CallOK(l, r, at, a, b, N, D) ==
    /\ l \in Links /\ r \in Links /\ N \in SUBSET Entry /\ D \in SUBSET N
    /\ None \in D /\ at \in D /\ a \in N /\ b \in N
    /\ \A p \in N : (p # at => l[p] \in N) /\ r[p] \in N
    /\ r[None] = None
    /\ \A p \in Entry \ N : l[p] = None /\ r[p] = None
    /\ \A p, q \in N :
        /\ p # at /\ l[p] # None => l[p] # r[q] /\ (p # q /\ q # at => l[p] # l[q])
        /\ r[p] # None /\ p # q => r[p] # r[q]
    /\ a # None => a # b
    /\ \A p \in N : /\ a # None => r[p] # a /\ (p # at => l[p] # a)
                    /\ b # None => r[p] # b /\ (p # at => l[p] # b)
    /\ \A q \in D \ {None} : \E p \in D \ {at} : l[p] = q
    /\ \A X \in SUBSET N : None \in X /\ (\A p \in X \cap D : p # at => l[p] \in X) => D \subseteq X
    /\ \A X \in SUBSET N :
        {None, a, b} \subseteq X /\ (\A p \in X : (p # at => l[p] \in X) /\ r[p] \in X) => X = N

\* A numbering of the processes that no pointer goes against.
CallOrdered(l, r, at, a, b, N, v) ==
    /\ \A p \in N \ {None} : /\ p # at /\ l[p] # None => v[p] <= v[l[p]]
                             /\ r[p] # None => v[p] <= v[r[p]]
    /\ at # None => \A q \in {a, b} \ {None} : v[at] <= v[q]
HeapOrdered(h, Q, v) ==
    \A p \in Q : /\ h.left[p] # None => v[p] <= v[h.left[p]]
                 /\ h.right[p] # None => v[p] <= v[h.right[p]]

\* The pointers after a is chosen, and after the last call has returned b.
Chosen(l, r, at, a, k, s) == k = [l EXCEPT ![at] = a] /\ s = [r EXCEPT ![a] = l[a]]
Returned(l, r, at, b, h) == h.left = [l EXCEPT ![at] = b] /\ h.right = r

\* The two arguments of a call can be exchanged.
LEMMA CallSwap ==
    ASSUME NEW l, NEW r, NEW at, NEW a, NEW b, NEW N, NEW D, CallOK(l, r, at, a, b, N, D)
    PROVE  CallOK(l, r, at, b, a, N, D)
  BY DEF CallOK

\* The call that is made when a is chosen.
LEMMA CallStep ==
    ASSUME NEW l, NEW r, NEW at, NEW a, NEW b, NEW N, NEW D, CallOK(l, r, at, a, b, N, D),
           a # None, NEW k, NEW s, Chosen(l, r, at, a, k, s)
    PROVE  CallOK(k, s, a, r[a], b, N, D \cup {a}) /\ a \notin D
<1> DEFINE E == D \cup {a}
<1>0. /\ l \in Links /\ r \in Links /\ N \in SUBSET Entry /\ D \in SUBSET N
      /\ None \in D /\ at \in D /\ a \in N /\ b \in N
      /\ None \in N /\ at \in N
  BY DEF CallOK
<1>1. a \notin D /\ a # at
  BY <1>0 DEF CallOK
<1>2. /\ k \in Links /\ s \in Links
      /\ \A p \in N : k[p] = IF p = at THEN a ELSE l[p]
      /\ \A p \in N : s[p] = IF p = a THEN l[a] ELSE r[p]
      /\ \A p \in Entry \ N : k[p] = l[p] /\ s[p] = r[p]
  BY <1>0 DEF Links, Chosen
<1>3. \A p \in N : (p # a => k[p] \in N) /\ s[p] \in N
  BY <1>0, <1>1, <1>2 DEF CallOK
<1>4. s[None] = None /\ \A p \in Entry \ N : k[p] = None /\ s[p] = None
  BY <1>0, <1>2 DEF CallOK
<1>5. \A p, q \in N :
        /\ p # a /\ k[p] # None => k[p] # s[q] /\ (p # q /\ q # a => k[p] # k[q])
        /\ s[p] # None /\ p # q => s[p] # s[q]
  BY <1>0, <1>1, <1>2 DEF CallOK
<1>6. r[a] # None => r[a] # b
  BY <1>0 DEF CallOK
<1>7. \A p \in N : /\ r[a] # None => s[p] # r[a] /\ (p # a => k[p] # r[a])
                   /\ b # None => s[p] # b /\ (p # a => k[p] # b)
  BY <1>0, <1>1, <1>2 DEF CallOK
<1>8. \A q \in E \ {None} : \E p \in E \ {a} : k[p] = q
  <2> TAKE q \in E \ {None}
  <2>1. CASE q = a
    BY <2>1, <1>0, <1>1, <1>2
  <2>2. CASE q # a
    <3>1. PICK p \in D \ {at} : l[p] = q
      BY <2>2 DEF CallOK
    <3> QED
      BY <3>1, <1>0, <1>1, <1>2
  <2> QED
    BY <2>1, <2>2
<1>9. ASSUME NEW X \in SUBSET N, None \in X, \A p \in X \cap E : p # a => k[p] \in X
      PROVE  E \subseteq X
  <2>1. \A p \in X \cap D : p # at => l[p] \in X
    BY <1>9, <1>0, <1>1, <1>2
  <2>2. D \subseteq X
    BY <1>9, <2>1 DEF CallOK
  <2> QED
    BY <2>2, <1>9, <1>0, <1>1, <1>2
<1>10. ASSUME NEW X \in SUBSET N, {None, r[a], b} \subseteq X,
              \A p \in X : (p # a => k[p] \in X) /\ s[p] \in X
       PROVE  X = N
  <2>1. E \subseteq X
    BY <1>9, <1>10
  <2>2. \A p \in X : (p # at => l[p] \in X) /\ r[p] \in X
    BY <2>1, <1>10, <1>0, <1>1, <1>2
  <2>3. {None, a, b} \subseteq X
    BY <2>1, <1>10
  <2> QED
    BY <2>2, <2>3 DEF CallOK
<1>11. E \in SUBSET N /\ None \in E /\ a \in E /\ r[a] \in N
  BY <1>0 DEF CallOK
<1>12. CallOK(k, s, a, r[a], b, N, E)
  BY <1>0, <1>2, <1>3, <1>4, <1>5, <1>6, <1>7, <1>8, <1>9, <1>10, <1>11 DEF CallOK
<1> QED
  BY <1>1, <1>12

\* It keeps an order that the choice respects.
LEMMA CallStepOrdered ==
    ASSUME NEW l, NEW r, NEW at, NEW a, NEW b, NEW N, NEW D, CallOK(l, r, at, a, b, N, D),
           a # None, NEW v, CallOrdered(l, r, at, a, b, N, v), b # None => v[a] <= v[b],
           NEW k, NEW s, Chosen(l, r, at, a, k, s)
    PROVE  CallOrdered(k, s, a, r[a], b, N, v)
<1>0. /\ l \in Links /\ r \in Links /\ N \in SUBSET Entry /\ at \in N /\ a \in N /\ b \in N
      /\ at \in D /\ None \in D
  BY DEF CallOK
<1>1. a # at
  BY <1>0 DEF CallOK
<1>2. /\ \A p \in N : k[p] = IF p = at THEN a ELSE l[p]
      /\ \A p \in N : s[p] = IF p = a THEN l[a] ELSE r[p]
  BY <1>0 DEF Links, Chosen
<1>3. \A p \in N \ {None} : p # a /\ k[p] # None => v[p] <= v[k[p]]
  BY <1>1, <1>2, <1>0 DEF CallOrdered
<1>4. \A p \in N \ {None} : s[p] # None => v[p] <= v[s[p]]
  BY <1>1, <1>2, <1>0 DEF CallOrdered
<1>5. \A q \in {r[a], b} \ {None} : v[a] <= v[q]
  BY <1>0 DEF CallOrdered
<1> QED
  BY <1>3, <1>4, <1>5 DEF CallOrdered

\* What a call that makes no other returns completes the heap.
LEMMA CallReturn ==
    ASSUME NEW l, NEW r, NEW at, NEW a, NEW b, NEW N, NEW D, CallOK(l, r, at, a, b, N, D),
           a = None, NEW h, Returned(l, r, at, b, h)
    PROVE  /\ IsHeap(h, N \ {None})
           /\ \A v : CallOrdered(l, r, at, a, b, N, v) => HeapOrdered(h, N \ {None}, v)
<1> DEFINE k == [l EXCEPT ![at] = b]
<1>0. /\ l \in Links /\ r \in Links /\ N \in SUBSET Entry /\ D \in SUBSET N
      /\ None \in D /\ at \in D /\ a \in N /\ b \in N
      /\ None \in N /\ at \in N
  BY DEF CallOK
<1>1. N = (N \ {None}) \cup {None}
  BY <1>0
<1>2. /\ \A p \in N : k[p] = IF p = at THEN b ELSE l[p]
      /\ \A p \in Entry \ N : k[p] = None /\ r[p] = None
      /\ k \in Links
  <2>1. \A p \in Entry \ N : l[p] = None /\ r[p] = None
    BY DEF CallOK
  <2> QED
    BY <1>0, <2>1 DEF Links
<1>3. h.left = k /\ h.right = r
  BY DEF Returned
<1> HIDE DEF k
<1>4. \A p \in Entry : k[p] \in N /\ r[p] \in N
  BY <1>0, <1>2 DEF CallOK
<1>5. k \in [Entry -> N] /\ r \in [Entry -> N]
  BY <1>0, <1>2, <1>4 DEF Links
<1>6. \A p \in Entry : p \notin N \ {None} => r[p] = None /\ (p # None => k[p] = None)
  BY <1>0, <1>2 DEF CallOK
<1>7. \A p, q \in Entry :
        /\ k[p] # None => k[p] # r[q] /\ (p # q => k[p] # k[q])
        /\ r[p] # None /\ p # q => r[p] # r[q]
  <2>1. ASSUME NEW p \in N, NEW q \in N
        PROVE  /\ k[p] # None => k[p] # r[q] /\ (p # q => k[p] # k[q])
               /\ r[p] # None /\ p # q => r[p] # r[q]
    BY <1>0, <1>2 DEF CallOK
  <2> QED
    BY <1>2, <2>1
<1>8. ASSUME NEW X \in SUBSET N, None \in X, \A p \in X : k[p] \in X /\ r[p] \in X
      PROVE  X = N
  <2>1. \A p \in X : p # at => l[p] \in X
    BY <1>8, <1>2
  <2>2. D \subseteq X
    BY <1>8, <2>1 DEF CallOK
  <2>3. {None, a, b} \subseteq X
    BY <1>8, <2>2, <1>0, <1>2
  <2> QED
    BY <1>8, <2>1, <2>3 DEF CallOK
<1>9. IsHeap(h, N \ {None})
  <2>1. PICK Q : Q = N \ {None}
    OBVIOUS
  <2>2. N = Q \cup {None}
    BY <1>1, <2>1
  <2>3. h.left \in [Entry -> Q \cup {None}] /\ h.right \in [Entry -> Q \cup {None}]
    BY ONLY <2>2, <1>3, <1>5
  <2>4. \A p \in Entry : p \notin Q => h.right[p] = None /\ (p # None => h.left[p] = None)
    BY ONLY <2>1, <1>3, <1>6
  <2>5. \A p, q \in Entry :
            /\ h.left[p] # None => h.left[p] # h.right[q] /\ (p # q => h.left[p] # h.left[q])
            /\ h.right[p] # None /\ p # q => h.right[p] # h.right[q]
    BY ONLY <1>3, <1>7
  <2>6. \A X \in SUBSET (Q \cup {None}) :
            None \in X /\ (\A p \in X : h.left[p] \in X /\ h.right[p] \in X) => X = Q \cup {None}
    BY ONLY <2>2, <1>3, <1>8
  <2> QED
    BY <2>1, <2>3, <2>4, <2>5, <2>6, Zenon DEF IsHeap
<1>10. ASSUME NEW v, CallOrdered(l, r, at, a, b, N, v) PROVE HeapOrdered(h, N \ {None}, v)
  BY <1>10, <1>0, <1>2, <1>3 DEF CallOrdered, HeapOrdered
<1> QED
  BY <1>9, <1>10

-----------------------------------------------------------------------------
(* skew_heap_merge.                                                        *)

\* There are as many rounds as asked for.
LEMMA Induct ==
    ASSUME NEW m \in Nat, NEW S, 0 \in S, \A k \in Nat : k < m /\ k \in S => k + 1 \in S
    PROVE  \A k \in 0..m : k \in S
<1> DEFINE B == {k \in 0..m : k \notin S}
<1> SUFFICES ASSUME B # {} PROVE FALSE
  OBVIOUS
<1>0. B \in SUBSET Nat
  OBVIOUS
<1>1. PICK k \in B : \A y \in B : k <= y
  BY <1>0, NatLeast
<1>2. k \in Nat /\ k <= m /\ k # 0
  BY <1>1
<1>3. k - 1 \in Nat /\ k - 1 < m /\ k - 1 \notin B
  BY <1>1, <1>2
<1>4. k \in S
  BY <1>2, <1>3
<1> QED
  BY <1>1, <1>4

\* The calls of a merge that begins with x, up to the n-th.
IsCalls(c, x, n) == c = [k \in 0..n |-> IF k = 0 THEN x ELSE MergeCall[c[k - 1]]]

\* A merge has such a sequence of calls.
LEMMA CallsExist == ASSUME NEW x, NEW n \in Nat PROVE \E c : IsCalls(c, x, n)
<1> DEFINE S == {k \in Nat : \E c : IsCalls(c, x, k)}
<1>1. 0 \in S
  <2>1. PICK f : f = [k \in 0..0 |-> x]
    OBVIOUS
  <2>2. f = [k \in 0..0 |-> IF k = 0 THEN x ELSE MergeCall[f[k - 1]]]
    BY <2>1
  <2> QED
    BY <2>2 DEF IsCalls
<1>2. ASSUME NEW k \in Nat, k \in S PROVE k + 1 \in S
  <2>1. PICK f : IsCalls(f, x, k)
    BY <1>2
  <2>2. PICK g : g = [j \in 0..k + 1 |-> IF j = k + 1 THEN MergeCall[f[k]] ELSE f[j]]
    OBVIOUS
  <2>3. ASSUME NEW j \in 0..k + 1
        PROVE g[j] = IF j = 0 THEN x ELSE MergeCall[g[j - 1]]
    <3>1. CASE j = k + 1
      BY <2>2, <3>1
    <3>2. CASE j # k + 1
      <4>1. j \in 0..k /\ (j # 0 => j - 1 \in 0..k + 1 /\ j - 1 # k + 1)
        BY <3>2
      <4>2. f[j] = IF j = 0 THEN x ELSE MergeCall[f[j - 1]]
        BY <2>1, <4>1 DEF IsCalls
      <4> QED
        BY <2>2, <3>2, <4>1, <4>2
    <3> QED
      BY <3>1, <3>2
  <2>4. g = [j \in 0..k + 1 |-> g[j]]
    BY <2>2
  <2>5. g = [j \in 0..k + 1 |-> IF j = 0 THEN x ELSE MergeCall[g[j - 1]]]
    BY <2>3, <2>4
  <2> QED
    BY <2>5 DEF IsCalls
<1> HIDE DEF S
<1>3. n \in S
  BY <1>1, <1>2, Induct
<1> QED
  BY <1>3 DEF S

\* The numberings of Q that proc_stride_comp_f goes by.
Numbering(v, Q) == \A p, q \in Q : Before(p, q) <=> v[p] < v[q]

\* The state of a merge of N after n calls.
MergeOK(m, n, N, V) ==
    /\ m \in Calls
    /\ \E D : /\ CallOK(m.left, m.right, m.at, m.a, m.b, N, D)
              /\ Cardinality(D) = n + 1 \/ None \in {m.a, m.b}
    /\ \A v \in V : CallOrdered(m.left, m.right, m.at, m.a, m.b, N, v)

\* A call keeps that state, whichever root it chooses, with one process fewer left
\* to be merged.
LEMMA MergeStep ==
    ASSUME NEW m, NEW n \in Nat, NEW N, NEW V, MergeOK(m, n, N, V),
           \A v \in V : v \in [Thread -> Int] /\ Numbering(v, N \ {None})
    PROVE  MergeOK(MergeCall[m], n + 1, N, V)
<1>0. /\ m \in Calls /\ IsFiniteSet(Entry)
      /\ m.left \in Links /\ m.right \in Links /\ m.at \in Entry /\ m.a \in Entry /\ m.b \in Entry
  BY StrideAssumption, FS_AddElement DEF MergeOK, Calls, Entry
<1>1. PICK D : /\ CallOK(m.left, m.right, m.at, m.a, m.b, N, D)
               /\ Cardinality(D) = n + 1 \/ None \in {m.a, m.b}
  BY DEF MergeOK
<1>2. m.a \in N /\ m.b \in N /\ m.at \in N /\ N \in SUBSET Entry /\ IsFiniteSet(D)
  BY <1>0, <1>1, FS_Subset DEF CallOK
<1>3. CASE None \in {m.a, m.b}
  <2>1. MergeCall[m] = m
    BY <1>0, <1>3 DEF MergeCall
  <2> QED
    BY <2>1, <1>1, <1>3 DEF MergeOK
<1>4. CASE None \notin {m.a, m.b} /\ Before(m.a, m.b)
  <2>1. PICK k : k = MergeCall[m]
    OBVIOUS
  <2>2. k = [m EXCEPT !.left[m.at] = m.a, !.right[m.a] = m.left[m.a],
                      !.at = m.a, !.a = m.right[m.a]]
    BY <1>0, <1>4, <2>1 DEF MergeCall
  <2>3. /\ k \in Calls
        /\ k.left = [m.left EXCEPT ![m.at] = m.a] /\ k.right = [m.right EXCEPT ![m.a] = m.left[m.a]]
        /\ k.at = m.a /\ k.a = m.right[m.a] /\ k.b = m.b
    BY <1>0, <2>2 DEF Calls, Links
  <2>4. /\ CallOK(k.left, k.right, k.at, k.a, k.b, N, D \cup {m.a})
        /\ m.a \notin D
    <3>1. /\ k.left = [m.left EXCEPT ![m.at] = m.a]
          /\ k.right = [m.right EXCEPT ![m.a] = m.left[m.a]]
          /\ m.a # None
      BY <1>4, <2>3
    <3>2. CallOK(m.left, m.right, m.at, m.a, m.b, N, D)
      BY <1>1
    <3>3. Chosen(m.left, m.right, m.at, m.a, k.left, k.right)
      BY <3>1 DEF Chosen
    <3>4. /\ CallOK(k.left, k.right, m.a, m.right[m.a], m.b, N, D \cup {m.a})
          /\ m.a \notin D
      BY ONLY <3>1, <3>2, <3>3, CallStep
    <3> QED
      BY <2>3, <3>4
  <2>5. Cardinality(D \cup {m.a}) = n + 1 + 1
    BY <1>1, <1>2, <1>4, <2>4, FS_AddElement
  <2>6. \A v \in V : v[m.a] <= v[m.b]
    BY <1>2, <1>4 DEF Numbering, Entry
  <2>7. \A v \in V : CallOrdered(k.left, k.right, k.at, k.a, k.b, N, v)
    <3>1. Chosen(m.left, m.right, m.at, m.a, k.left, k.right)
      BY <2>3 DEF Chosen
    <3> QED
      BY <1>1, <1>4, <2>3, <2>6, <3>1, CallStepOrdered DEF MergeOK
  <2> QED
    BY <2>1, <2>3, <2>4, <2>5, <2>7 DEF MergeOK
<1>5. CASE None \notin {m.a, m.b} /\ ~Before(m.a, m.b)
  <2>1. PICK k : k = MergeCall[m]
    OBVIOUS
  <2>2. k = [m EXCEPT !.left[m.at] = m.b, !.right[m.b] = m.left[m.b],
                      !.at = m.b, !.b = m.right[m.b]]
    BY <1>0, <1>5, <2>1 DEF MergeCall
  <2>3. /\ k \in Calls
        /\ k.left = [m.left EXCEPT ![m.at] = m.b] /\ k.right = [m.right EXCEPT ![m.b] = m.left[m.b]]
        /\ k.at = m.b /\ k.b = m.right[m.b] /\ k.a = m.a
    BY <1>0, <2>2 DEF Calls, Links
  <2>0. CallOK(m.left, m.right, m.at, m.b, m.a, N, D)
    BY <1>1, CallSwap
  <2>4. /\ CallOK(k.left, k.right, k.at, k.b, k.a, N, D \cup {m.b})
        /\ m.b \notin D
    <3>1. /\ k.left = [m.left EXCEPT ![m.at] = m.b]
          /\ k.right = [m.right EXCEPT ![m.b] = m.left[m.b]]
          /\ m.b # None
      BY <1>5, <2>3
    <3>2. CallOK(m.left, m.right, m.at, m.b, m.a, N, D)
      BY <2>0
    <3>3. Chosen(m.left, m.right, m.at, m.b, k.left, k.right)
      BY <3>1 DEF Chosen
    <3>4. /\ CallOK(k.left, k.right, m.b, m.right[m.b], m.a, N, D \cup {m.b})
          /\ m.b \notin D
      BY ONLY <3>1, <3>2, <3>3, CallStep
    <3> QED
      BY <2>3, <3>4
  <2>5. Cardinality(D \cup {m.b}) = n + 1 + 1
    BY <1>1, <1>2, <1>5, <2>4, FS_AddElement
  <2>6. \A v \in V : v[m.b] <= v[m.a]
    BY <1>2, <1>5 DEF Numbering, Entry
  <2>7. \A v \in V : CallOrdered(m.left, m.right, m.at, m.b, m.a, N, v)
    BY DEF MergeOK, CallOrdered
  <2>8. \A v \in V : CallOrdered(k.left, k.right, k.at, k.b, k.a, N, v)
    <3>1. Chosen(m.left, m.right, m.at, m.b, k.left, k.right)
      BY <2>3 DEF Chosen
    <3> QED
      BY <2>0, <1>5, <2>3, <2>6, <2>7, <3>1, CallStepOrdered
  <2>9. /\ CallOK(k.left, k.right, k.at, k.a, k.b, N, D \cup {m.b})
        /\ \A v \in V : CallOrdered(k.left, k.right, k.at, k.a, k.b, N, v)
    BY <2>4, <2>8, CallSwap DEF CallOrdered
  <2> QED
    BY <2>1, <2>3, <2>5, <2>9 DEF MergeOK
<1> QED
  BY <1>3, <1>4, <1>5

\* When the calls are used up, none is left to be made.
LEMMA MergeEnds ==
    ASSUME NEW m, NEW N, NEW V, MergeOK(m, Cardinality(Thread), N, V)
    PROVE  None \in {m.a, m.b}
<1> SUFFICES ASSUME None \notin {m.a, m.b} PROVE FALSE
  OBVIOUS
<1>1. PICK D : /\ CallOK(m.left, m.right, m.at, m.a, m.b, N, D)
               /\ Cardinality(D) = Cardinality(Thread) + 1
  BY DEF MergeOK
<1>2. m.a \notin D /\ m.a \in Entry /\ D \subseteq Entry
  <2>1. m.a \in Entry /\ D \subseteq Entry
    BY <1>1 DEF CallOK
  <2>2. PICK k, s : Chosen(m.left, m.right, m.at, m.a, k, s)
    BY DEF Chosen
  <2> QED
    BY <1>1, <2>1, <2>2, CallStep
<1>3. IsFiniteSet(Entry) /\ Cardinality(Entry) = Cardinality(Thread) + 1
  BY StrideAssumption, FS_AddElement DEF Entry
<1>4. /\ IsFiniteSet(Entry \ {m.a})
      /\ Cardinality(Entry \ {m.a}) = Cardinality(Entry) - 1
  BY <1>2, <1>3, FS_RemoveElement
<1>5. Cardinality(D) <= Cardinality(Entry \ {m.a})
  BY <1>2, <1>4, FS_Subset
<1>6. Cardinality(Thread) \in Nat
  BY StrideAssumption, FS_CardinalityType
<1> QED
  BY <1>1, <1>3, <1>4, <1>5, <1>6

\* The heaps below x and y become one, in any order that the comparison has.
LEMMA MergeHeap ==
    ASSUME NEW h, NEW x, NEW y, NEW N, CallOK(h.left, h.right, None, x, y, N, {None}),
           NEW V, \A v \in V : /\ v \in [Thread -> Int] /\ Numbering(v, N \ {None})
                               /\ CallOrdered(h.left, h.right, None, x, y, N, v)
    PROVE  /\ IsHeap(SkewMerge(h, x, y), N \ {None})
           /\ \A v \in V : HeapOrdered(SkewMerge(h, x, y), N \ {None}, v)
<1> DEFINE K == Cardinality(Thread)
           m == [left |-> h.left, right |-> h.right, at |-> None, a |-> x, b |-> y]
           c == CHOOSE c : c = [n \in 0..Cardinality(Thread) |->
                                    IF n = 0 THEN m ELSE MergeCall[c[n - 1]]]
<1>1. SkewMerge(h, x, y) = MergeReturn[c[K]]
  BY Zenon DEF SkewMerge
<1>0. K \in Nat
  BY StrideAssumption, FS_CardinalityType
<1> HIDE DEF m
<1>2. c = [n \in 0..K |-> IF n = 0 THEN m ELSE MergeCall[c[n - 1]]]
  <2>1. PICK d : IsCalls(d, m, K)
    BY <1>0, CallsExist
  <2>2. d = [n \in 0..Cardinality(Thread) |-> IF n = 0 THEN m ELSE MergeCall[d[n - 1]]]
    BY <2>1, Zenon DEF IsCalls
  <2> QED
    BY <2>2, Zenon
<1> HIDE DEF c, K
<1>3. c[0] = m /\ \A n \in Nat : n < K => c[n + 1] = MergeCall[c[n]]
  BY <1>0, <1>2
<1> DEFINE S == {n \in Nat : n <= K => MergeOK(c[n], n, N, V)}
<1>4. 0 \in S
  <2>1. MergeOK(m, 0, N, V)
    <3>1. m \in Calls
      BY DEF m, Calls, CallOK
    <3>2. Cardinality({None}) = 1
      BY FS_Singleton, Zenon
    <3>3. /\ m.left = h.left /\ m.right = h.right /\ m.at = None /\ m.a = x /\ m.b = y
      BY DEF m
    <3> QED
      BY <3>1, <3>2, <3>3 DEF MergeOK
  <2> QED
    BY <1>3, <2>1
<1>5. ASSUME NEW n \in Nat, n < K, n \in S PROVE n + 1 \in S
  <2>1. MergeOK(c[n], n, N, V)
    BY <1>0, <1>5
  <2> QED
    BY <1>3, <1>5, <2>1, MergeStep
<1> HIDE DEF S
<1>6. K \in S
  BY <1>0, <1>4, <1>5, Induct
<1>7. PICK e : e = c[K] /\ MergeOK(e, K, N, V)
  BY <1>0, <1>6 DEF S
<1>8. None \in {e.a, e.b}
  BY <1>7, MergeEnds DEF K
<1>9. PICK D : CallOK(e.left, e.right, e.at, e.a, e.b, N, D)
  BY <1>7 DEF MergeOK
<1>10. PICK g : g = SkewMerge(h, x, y)
  OBVIOUS
<1>11. /\ g.left = [e.left EXCEPT ![e.at] = IF e.a = None THEN e.b ELSE e.a]
       /\ g.right = e.right
  BY <1>1, <1>7, <1>10 DEF MergeReturn, MergeOK
<1>12. CASE e.a = None
  <2>1. Returned(e.left, e.right, e.at, e.b, g)
    BY <1>11, <1>12 DEF Returned
  <2>2. \A v \in V : CallOrdered(e.left, e.right, e.at, e.a, e.b, N, v)
    BY <1>7 DEF MergeOK
  <2>3. /\ IsHeap(g, N \ {None})
        /\ \A v : CallOrdered(e.left, e.right, e.at, e.a, e.b, N, v) => HeapOrdered(g, N \ {None}, v)
    BY <1>9, <1>12, <2>1, CallReturn
  <2> QED
    BY <1>10, <2>2, <2>3
<1>13. CASE e.a # None
  <2>1. CallOK(e.left, e.right, e.at, e.b, e.a, N, D) /\ e.b = None
    BY <1>8, <1>9, <1>13, CallSwap
  <2>2. \A v \in V : CallOrdered(e.left, e.right, e.at, e.b, e.a, N, v)
    BY <1>7 DEF MergeOK, CallOrdered
  <2>3. Returned(e.left, e.right, e.at, e.a, g)
    BY <1>11, <1>13 DEF Returned
  <2>4. /\ IsHeap(g, N \ {None})
        /\ \A v : CallOrdered(e.left, e.right, e.at, e.b, e.a, N, v) => HeapOrdered(g, N \ {None}, v)
    BY <2>1, <2>3, CallReturn
  <2> QED
    BY <1>10, <2>2, <2>4
<1> QED
  BY <1>12, <1>13

\* The root is queued, and no process is numbered below it.
LEMMA RootLeast ==
    ASSUME NEW h, NEW Q \in SUBSET Thread, IsHeap(h, Q)
    PROVE  /\ root(h) = None <=> Q = {}
           /\ root(h) # None => root(h) \in Q
           /\ \A v : v \in [Thread -> Int] /\ HeapOrdered(h, Q, v) /\ root(h) # None =>
                        \A p \in Q : v[root(h)] <= v[p]
<1>1. /\ None \notin Thread /\ None \in Entry /\ root(h) \in Q \cup {None} /\ h.right[None] = None
      /\ \A p \in Q : p \in Entry /\ h.left[p] \in Q \cup {None} /\ h.right[p] \in Q \cup {None}
  BY StrideAssumption DEF IsHeap, root, Entry
<1>2. ASSUME root(h) = None PROVE Q = {}
  <2>1. {None} = Q \cup {None}
    <3> DEFINE X == {None}
    <3>1. X \in SUBSET (Q \cup {None}) /\ None \in X /\ \A p \in X : h.left[p] \in X /\ h.right[p] \in X
      BY <1>1, <1>2 DEF root
    <3> HIDE DEF X
    <3>2. X = Q \cup {None}
      BY <3>1 DEF IsHeap
    <3> QED
      BY <3>2 DEF X
  <2> QED
    BY <1>1, <2>1
<1>3. ASSUME NEW v \in [Thread -> Int], HeapOrdered(h, Q, v), root(h) # None, NEW p \in Q
      PROVE  v[root(h)] <= v[p]
  <2> DEFINE X == {None} \cup {q \in Q : v[root(h)] <= v[q]}
  <2>0. root(h) \in Q /\ \A q \in Q : v[q] \in Int
    BY <1>1, <1>3
  <2>1. X \in SUBSET (Q \cup {None}) /\ None \in X
    OBVIOUS
  <2>2. ASSUME NEW q \in X PROVE h.left[q] \in X /\ h.right[q] \in X
    <3>1. CASE q = None
      BY <3>1, <2>0, <1>1 DEF root
    <3>2. CASE q # None
      <4>1. q \in Q /\ v[root(h)] <= v[q]
        BY <3>2
      <4>2. h.left[q] # None => h.left[q] \in Q /\ v[q] <= v[h.left[q]]
        BY <4>1, <1>1, <1>3 DEF HeapOrdered
      <4>3. h.right[q] # None => h.right[q] \in Q /\ v[q] <= v[h.right[q]]
        BY <4>1, <1>1, <1>3 DEF HeapOrdered
      <4> QED
        BY <4>1, <4>2, <4>3, <2>0
    <3> QED
      BY <3>1, <3>2
  <2> HIDE DEF X
  <2>3. X = Q \cup {None}
    BY <2>1, <2>2 DEF IsHeap
  <2> QED
    BY <2>3, <1>1 DEF X
<1> QED
  BY <1>1, <1>2, <1>3

\* stride_enqueue.
LEMMA EnqueueHeap ==
    ASSUME NEW h, NEW Q \in SUBSET Thread, IsHeap(h, Q), NEW p \in Thread \ Q,
           NEW V, \A v \in V : /\ v \in [Thread -> Int] /\ Numbering(v, Q \cup {p})
                               /\ HeapOrdered(h, Q, v)
    PROVE  /\ IsHeap(Enqueue(h, p), Q \cup {p})
           /\ \A v \in V : HeapOrdered(Enqueue(h, p), Q \cup {p}, v)
<1> DEFINE N == Q \cup {p, None}
<1>1. /\ None \notin Thread /\ N \in SUBSET Entry /\ N \ {None} = Q \cup {p}
      /\ Q \cup {None} \subseteq N /\ p \in Entry /\ p # None
  BY StrideAssumption DEF Entry
<1>2. /\ h.left \in [Entry -> Q \cup {None}] /\ h.right \in [Entry -> Q \cup {None}]
      /\ \A q \in Entry : q \notin Q => h.right[q] = None /\ (q # None => h.left[q] = None)
      /\ root(h) = h.left[None] /\ root(h) \in Q \cup {None} /\ None \in Entry
  BY DEF IsHeap, root, Entry
<1>3. h.left \in Links /\ h.right \in Links
  BY <1>1, <1>2 DEF Links
<1>4. \A q \in Entry : h.left[q] \in Q \cup {None} /\ h.right[q] \in Q \cup {None}
  BY <1>2
<1>5. \A q, t \in N :
        /\ q # None /\ h.left[q] # None => /\ h.left[q] # h.right[t]
                                           /\ q # t /\ t # None => h.left[q] # h.left[t]
        /\ h.right[q] # None /\ q # t => h.right[q] # h.right[t]
  BY <1>1 DEF IsHeap
<1>6. \A q \in N : /\ root(h) # None => h.right[q] # root(h) /\ (q # None => h.left[q] # root(h))
                   /\ h.right[q] # p /\ (q # None => h.left[q] # p)
  BY <1>1, <1>2, <1>4 DEF IsHeap
<1>7. ASSUME NEW X \in SUBSET N, {None, root(h), p} \subseteq X,
             \A q \in X : (q # None => h.left[q] \in X) /\ h.right[q] \in X
      PROVE  X = N
  <2> DEFINE Y == X \ {p}
  <2>1. Y \in SUBSET (Q \cup {None}) /\ None \in Y
    BY <1>1, <1>7
  <2>2. \A q \in Y : h.left[q] \in Y /\ h.right[q] \in Y
    BY <1>1, <1>2, <1>4, <1>7, <2>1
  <2> HIDE DEF Y
  <2>3. Y = Q \cup {None}
    BY <2>1, <2>2 DEF IsHeap
  <2> QED
    BY <1>1, <1>7, <2>3 DEF Y
<1>8. /\ N \in SUBSET Entry /\ {None} \in SUBSET N /\ None \in {None}
      /\ root(h) \in N /\ p \in N /\ h.right[None] = None
      /\ \A q \in N : (q # None => h.left[q] \in N) /\ h.right[q] \in N
      /\ \A q \in Entry \ N : h.left[q] = None /\ h.right[q] = None
      /\ root(h) # None => root(h) # p
  BY <1>1, <1>2, <1>4, StrideAssumption
<1> HIDE DEF N
<1>9. CallOK(h.left, h.right, None, root(h), p, N, {None})
  BY <1>3, <1>5, <1>6, <1>7, <1>8, <1>1 DEF CallOK
<1>10. ASSUME NEW v \in V PROVE CallOrdered(h.left, h.right, None, root(h), p, N, v)
  <2>1. \A q \in Q : /\ h.left[q] # None => v[q] <= v[h.left[q]]
                     /\ h.right[q] # None => v[q] <= v[h.right[q]]
    BY DEF HeapOrdered
  <2>2. h.left[p] = None /\ h.right[p] = None
    BY <1>1, <1>2
  <2> QED
    BY <2>1, <2>2, <1>1 DEF CallOrdered
<1> QED
  <2>1. \A v \in V : v \in [Thread -> Int] /\ Numbering(v, N \ {None})
    BY <1>1
  <2>2. /\ IsHeap(SkewMerge(h, root(h), p), N \ {None})
        /\ \A v \in V : HeapOrdered(SkewMerge(h, root(h), p), N \ {None}, v)
    BY <1>9, <1>10, <2>1, MergeHeap
  <2> QED
    BY <1>1, <2>2 DEF Enqueue

\* stride_dequeue of the root.
LEMMA DequeueHeap ==
    ASSUME NEW h, NEW Q \in SUBSET Thread, IsHeap(h, Q), root(h) # None,
           NEW V, \A v \in V : /\ v \in [Thread -> Int] /\ Numbering(v, Q)
                               /\ HeapOrdered(h, Q, v)
    PROVE  /\ IsHeap(Dequeue(h, root(h)), Q \ {root(h)})
           /\ \A v \in V : HeapOrdered(Dequeue(h, root(h)), Q \ {root(h)}, v)
<1>1. PICK p, N : p = root(h) /\ N = (Q \ {p}) \cup {None}
  OBVIOUS
<1>2. PICK k : k = [left |-> [h.left EXCEPT ![p] = None], right |-> [h.right EXCEPT ![p] = None]]
  OBVIOUS
<1>3. /\ h.left \in [Entry -> Q \cup {None}] /\ h.right \in [Entry -> Q \cup {None}]
      /\ \A q \in Entry : q \notin Q => h.right[q] = None /\ (q # None => h.left[q] = None)
      /\ p = h.left[None] /\ p \in Q /\ None \in Entry /\ None \notin Thread /\ p # None
  BY <1>1, StrideAssumption, RootLeast DEF IsHeap, root, Entry
<1>4. /\ N \in SUBSET Entry /\ N \ {None} = Q \ {p} /\ p \in Entry /\ p \notin N /\ None \in N
      /\ \A q \in Entry \ N : q = p \/ (q \notin Q /\ q # None)
  BY <1>1, <1>3, StrideAssumption DEF Entry
<1>5. /\ k.left \in Links /\ k.right \in Links
      /\ \A q \in Entry : k.left[q] = IF q = p THEN None ELSE h.left[q]
      /\ \A q \in Entry : k.right[q] = IF q = p THEN None ELSE h.right[q]
  <2>1. h.left \in Links /\ h.right \in Links
    BY <1>3, StrideAssumption DEF Links, Entry
  <2> QED
    BY <2>1, <1>2, <1>3 DEF Links
<1>6. \A q \in Entry : h.left[q] \in Q \cup {None} /\ h.right[q] \in Q \cup {None}
  BY <1>3
<1>7. \A q, t \in Entry :
        /\ h.left[q] # None => h.left[q] # h.right[t] /\ (q # t => h.left[q] # h.left[t])
        /\ h.right[q] # None /\ q # t => h.right[q] # h.right[t]
  BY DEF IsHeap
<1>8. \A q \in Entry : (q # None => h.left[q] # p) /\ h.right[q] # p
  BY <1>3, <1>7
<1> DEFINE x == h.left[p]
           y == h.right[p]
<1>9. x \in N /\ y \in N /\ (x # None => x # y)
  BY <1>1, <1>3, <1>4, <1>6, <1>7, <1>8
<1>10. /\ \A q \in N : (q # None => k.left[q] \in N) /\ k.right[q] \in N
       /\ k.right[None] = None
       /\ \A q \in Entry \ N : k.left[q] = None /\ k.right[q] = None
  BY <1>1, <1>3, <1>4, <1>5, <1>6, <1>8
<1>11. \A q, t \in N :
        /\ q # None /\ k.left[q] # None => /\ k.left[q] # k.right[t]
                                           /\ q # t /\ t # None => k.left[q] # k.left[t]
        /\ k.right[q] # None /\ q # t => k.right[q] # k.right[t]
  BY <1>4, <1>5, <1>7
<1>12. \A q \in N : /\ x # None => k.right[q] # x /\ (q # None => k.left[q] # x)
                    /\ y # None => k.right[q] # y /\ (q # None => k.left[q] # y)
  BY <1>4, <1>5, <1>7
<1>13. ASSUME NEW X \in SUBSET N, {None, x, y} \subseteq X,
              \A q \in X : (q # None => k.left[q] \in X) /\ k.right[q] \in X
       PROVE  X = N
  <2> DEFINE Y == X \cup {p}
  <2>1. Y \in SUBSET (Q \cup {None}) /\ None \in Y
    BY <1>1, <1>3, <1>13
  <2>2. \A q \in Y : h.left[q] \in Y /\ h.right[q] \in Y
    BY <1>3, <1>4, <1>5, <1>13
  <2> HIDE DEF Y
  <2>3. Y = Q \cup {None}
    BY <2>1, <2>2 DEF IsHeap
  <2> QED
    BY <1>1, <1>3, <1>4, <2>3 DEF Y
<1> HIDE DEF x, y
<1>14. CallOK(k.left, k.right, None, x, y, N, {None})
  BY <1>4, <1>5, <1>9, <1>10, <1>11, <1>12, <1>13 DEF CallOK
<1>15. ASSUME NEW v \in V PROVE CallOrdered(k.left, k.right, None, x, y, N, v)
  <2>1. \A q \in Q : /\ h.left[q] # None => v[q] <= v[h.left[q]]
                     /\ h.right[q] # None => v[q] <= v[h.right[q]]
    BY DEF HeapOrdered
  <2>2. \A q \in N \ {None} : q \in Q /\ q \in Entry /\ k.left[q] = h.left[q] /\ k.right[q] = h.right[q]
    BY <1>4, <1>5
  <2> QED
    BY <2>1, <2>2 DEF CallOrdered
<1>16. \A v \in V : v \in [Thread -> Int] /\ Numbering(v, N \ {None})
  BY <1>4 DEF Numbering
<1>17. /\ IsHeap(SkewMerge(k, x, y), N \ {None})
       /\ \A v \in V : HeapOrdered(SkewMerge(k, x, y), N \ {None}, v)
  BY <1>14, <1>15, <1>16, MergeHeap
<1> QED
  BY <1>1, <1>2, <1>4, <1>17 DEF Dequeue, x, y

-----------------------------------------------------------------------------
(* Strides, which are counted modulo Mod.                                  *)

\* The remainder, from a quotient.
LEMMA ModIs ==
    ASSUME NEW n \in Nat \ {0}, NEW x \in Int, NEW k \in Int, NEW r \in 0..n - 1, x = n * k + r
    PROVE  x % n = r
<1>1. x % n \in 0..n - 1 /\ x = n * (x \div n) + (x % n) /\ x \div n \in Int
  OBVIOUS
<1>2. PICK d, e : d = (x \div n) - k /\ e = x % n
  OBVIOUS
<1>3. n * d = n * (x \div n) - n * k /\ d \in Int
  BY <1>1, <1>2, SMT
<1>4. n * d = r - e /\ e \in 0..n - 1
  BY <1>1, <1>2, <1>3, SMT
<1>5. d >= 1 => n * d >= n
  BY <1>3, SMT
<1>6. d <= -1 => n * d <= -n
  BY <1>3, SMT
<1>7. d = 0
  BY <1>3, <1>4, <1>5, <1>6, SMT
<1> QED
  BY <1>2, <1>4, <1>7, SMT

\* A sum of which one part was reduced before.
LEMMA ModSum ==
    ASSUME NEW n \in Nat \ {0}, NEW x \in Int, NEW c \in Int
    PROVE  ((x % n) + c) % n = (x + c) % n
<1>1. /\ x % n \in 0..n - 1 /\ x = n * (x \div n) + (x % n) /\ x \div n \in Int
      /\ (x + c) % n \in 0..n - 1 /\ x + c = n * ((x + c) \div n) + ((x + c) % n) /\ (x + c) \div n \in Int
  OBVIOUS
<1>2. PICK p, q, r, t : p = x % n /\ q = x \div n /\ r = (x + c) % n /\ t = (x + c) \div n
  OBVIOUS
<1>3. n * (t - q) = n * t - n * q /\ t - q \in Int
  BY <1>1, <1>2, SMT
<1>4. p + c = n * (t - q) + r /\ p + c \in Int /\ r \in 0..n - 1
  BY <1>1, <1>2, <1>3, SMT
<1>5. (p + c) % n = r
  BY <1>3, <1>4, ModIs
<1> QED
  BY <1>2, <1>5

\* A difference of which both parts were reduced before.
LEMMA ModDiff ==
    ASSUME NEW n \in Nat \ {0}, NEW x \in Int, NEW y \in Int
    PROVE  ((x % n) - (y % n)) % n = (x - y) % n
<1>1. /\ y % n \in 0..n - 1 /\ y = n * (y \div n) + (y % n) /\ y \div n \in Int
      /\ (x - y) % n \in 0..n - 1 /\ x - y = n * ((x - y) \div n) + ((x - y) % n)
      /\ (x - y) \div n \in Int /\ x % n \in Int
  OBVIOUS
<1>2. PICK e, p, q, r, t :
        e = x % n /\ p = y % n /\ q = y \div n /\ r = (x - y) % n /\ t = (x - y) \div n
  OBVIOUS
<1>3. PICK c \in Int : c = 0 - p
  BY <1>1, <1>2
<1>4. n * (t + q) = n * t + n * q /\ t + q \in Int
  BY <1>1, <1>2, SMT
<1>5. x + c = n * (t + q) + r /\ x + c \in Int /\ r \in 0..n - 1
  BY <1>1, <1>2, <1>3, <1>4, SMT
<1>6. (x + c) % n = r
  BY <1>4, <1>5, ModIs
<1>7. ((x % n) + c) % n = (x + c) % n
  BY ModSum
<1>8. (x % n) + c = (x % n) - (y % n)
  BY <1>1, <1>2, <1>3
<1> QED
  BY <1>2, <1>6, <1>7, <1>8

\* A quotient lies between 0 and the dividend.
LEMMA Quotient ==
    ASSUME NEW n \in Nat \ {0}, NEW x \in Nat
    PROVE  x \div n \in 0..x
<1>1. /\ x % n \in 0..n - 1 /\ x = n * (x \div n) + (x % n) /\ x \div n \in Int
  OBVIOUS
<1>2. PICK q : q = x \div n
  OBVIOUS
<1>3. q < 0 => n * q <= -n
  BY <1>1, <1>2, SMT
<1>4. q >= 0 => n * q >= q
  BY <1>1, <1>2, SMT
<1> QED
  BY <1>1, <1>2, <1>3, <1>4, SMT

\* The processes S have strides that are close: they are those of a numbering by
\* integers, at most BIG_STRIDE apart.
Close(v, S) ==
    /\ v \in [Thread -> Int]
    /\ \A p \in Thread : lab6_stride[p] = v[p] % Mod
    /\ \A p, q \in S : v[p] - v[q] <= BIG_STRIDE

\* Close strides are compared as their numbers are.
LEMMA CloseCompares ==
    ASSUME NEW S \in SUBSET Thread, NEW v, Close(v, S), NEW p \in S, NEW q \in S
    PROVE  /\ Before(p, q) <=> v[p] < v[q]
           /\ v[q] <= v[p] => (lab6_stride[p] - lab6_stride[q]) % Mod = v[p] - v[q]
<1>1. /\ Half \in Nat \ {0} /\ Mod \in Nat \ {0} /\ Mod = 2 * Half /\ BIG_STRIDE = Half - 1
      /\ v[p] \in Int /\ v[q] \in Int
      /\ v[p] - v[q] <= BIG_STRIDE /\ v[q] - v[p] <= BIG_STRIDE
  BY StrideAssumption DEF Close, Mod, BIG_STRIDE
<1>2. PICK d : d = v[p] - v[q]
  OBVIOUS
<1>3. (lab6_stride[p] - lab6_stride[q]) % Mod = d % Mod
  BY <1>1, <1>2, ModDiff DEF Close
<1>4. CASE d >= 0
  <2>1. d \in 0..Mod - 1 /\ d \in Int /\ d = Mod * 0 + d
    BY <1>1, <1>2, <1>4
  <2>2. d % Mod = d
    BY <1>1, <2>1, ModIs
  <2> QED
    BY <1>1, <1>2, <1>3, <1>4, <2>2 DEF Before
<1>5. CASE d < 0
  <2>1. d + Mod \in 0..Mod - 1 /\ d \in Int /\ -1 \in Int /\ d = Mod * (-1) + (d + Mod)
    BY <1>1, <1>2, <1>5
  <2>2. d % Mod = d + Mod
    BY <1>1, <2>1, ModIs
  <2> QED
    BY <1>1, <1>2, <1>3, <1>5, <2>2 DEF Before
<1> QED
  BY <1>1, <1>2, <1>4, <1>5

\* Strides that are close to the least of them are close.
LEMMA CloseNumbering ==
    ASSUME lab6_stride \in [Thread -> 0..Mod - 1], NEW S \in SUBSET Thread, AreClose(S)
    PROVE  \E w \in [Thread -> Int] : Close(w, S)
<1>1. Mod \in Nat \ {0} /\ BIG_STRIDE \in Nat
  BY StrideAssumption DEF Mod, BIG_STRIDE
<1>2. PICK least \in S : \A p \in S :
        (lab6_stride[p] - lab6_stride[least]) % Mod <= BIG_STRIDE
  BY DEF AreClose
<1> DEFINE d(p) == (lab6_stride[p] - lab6_stride[least]) % Mod
<1>3. ASSUME NEW p \in Thread
      PROVE  d(p) \in 0..Mod - 1 /\ (d(p) + lab6_stride[least]) % Mod = lab6_stride[p]
  <2>1. PICK x, y : x = lab6_stride[p] /\ y = lab6_stride[least]
    OBVIOUS
  <2>2. x \in Int /\ y \in Int /\ x - y \in Int /\ x \in 0..Mod - 1 /\ x = Mod * 0 + x
    BY <1>1, <1>2, <2>1
  <2>3. (x - y) % Mod \in 0..Mod - 1
    BY <1>1, <2>2
  <2>4. (((x - y) % Mod) + y) % Mod = ((x - y) + y) % Mod
    BY <1>1, <2>2, ModSum
  <2>5. (x - y) + y = x
    BY <2>2
  <2>6. x % Mod = x
    BY <1>1, <2>2, ModIs
  <2> QED
    BY <2>1, <2>3, <2>4, <2>5, <2>6
<1>4. PICK w : w = [p \in Thread |-> d(p) + lab6_stride[least]]
  OBVIOUS
<1> HIDE DEF d
<1>5. w \in [Thread -> Int] /\ \A p \in Thread : w[p] = d(p) + lab6_stride[least]
  BY <1>1, <1>2, <1>3, <1>4
<1>6. \A p \in S : d(p) \in 0..BIG_STRIDE
  BY <1>1, <1>2, <1>3 DEF d
<1>7. \A p, q \in S : w[p] - w[q] <= BIG_STRIDE
  <2> TAKE p, q \in S
  <2>1. /\ d(p) \in 0..BIG_STRIDE /\ d(q) \in 0..BIG_STRIDE
        /\ w[p] = d(p) + lab6_stride[least] /\ w[q] = d(q) + lab6_stride[least]
        /\ lab6_stride[least] \in Int
    BY <1>1, <1>2, <1>5, <1>6
  <2> QED
    BY <1>1, <2>1
<1> QED
  BY <1>3, <1>5, <1>7 DEF Close

\* BIG_STRIDE / priority.
LEMMA PassBound ==
    ASSUME StrideTypeOK, NEW p \in Thread
    PROVE  Pass(p) \in 0..BIG_STRIDE
<1>1. /\ Half \in Nat \ {0} /\ BIG_STRIDE = Half - 1 /\ BIG_STRIDE \in Nat
      /\ lab6_priority[p] \in Nat
  BY StrideAssumption DEF BIG_STRIDE, StrideTypeOK
<1>2. lab6_priority[p] # 0 => BIG_STRIDE \div lab6_priority[p] \in 0..BIG_STRIDE
  BY <1>1, Quotient
<1> QED
  BY <1>1, <1>2 DEF Pass

-----------------------------------------------------------------------------
(* The stride scheduling class.                                            *)

\* The heap is in the order of close strides.
InOrder(v) == Close(v, runnable) /\ HeapOrdered(run_pool, runnable \ {current}, v)

\* It is while all have joined close to the others.
StrideInv == StrideTypeOK /\ (joinedClose => \E v \in [Thread -> Int] : InOrder(v))

\* A heap of nobody.
LEMMA StrideStart == StrideInit => StrideInv
<1> SUFFICES ASSUME StrideInit PROVE StrideInv
  OBVIOUS
<1>0. /\ None \notin Thread /\ idleproc \notin Thread /\ Half \in Nat \ {0} /\ MAX_TIME_SLICE \in Nat
      /\ Mod \in Nat \ {0} /\ BIG_STRIDE \in Nat
  BY StrideAssumption DEF Mod, BIG_STRIDE
<1>1. /\ run_pool.left = [p \in Entry |-> None] /\ run_pool.right = [p \in Entry |-> None]
      /\ runnable \ {current} = {}
  BY DEF StrideInit
<1>2. IsHeap(run_pool, {})
  <2>1. {} \cup {None} = {None}
    OBVIOUS
  <2> QED
    BY <1>1, <2>1 DEF IsHeap
<1>3. StrideTypeOK
  BY <1>0, <1>1, <1>2 DEF StrideInit, StrideTypeOK
<1>4. PICK v : v = [p \in Thread |-> 0]
  OBVIOUS
<1>5. 0 % Mod = 0
  <2>1. 0 \in Int /\ 0 \in 0..Mod - 1 /\ 0 = Mod * 0 + 0
    BY <1>0
  <2> QED
    BY <1>0, <2>1, ModIs
<1>6. InOrder(v) /\ v \in [Thread -> Int]
  BY <1>0, <1>1, <1>4, <1>5 DEF StrideInit, InOrder, Close, HeapOrdered
<1> QED
  BY <1>3, <1>6 DEF StrideInv

\* The run queue with the current process, if that can go on.
WithCurrent == IF current \in runnable THEN Enqueue(run_pool, current) ELSE run_pool

\* In schedule() the heap, with the current process, holds all that can run.
LEMMA CurrentQueued ==
    ASSUME StrideTypeOK
    PROVE  /\ IsHeap(WithCurrent, runnable)
           /\ \A v \in [Thread -> Int] : InOrder(v) => HeapOrdered(WithCurrent, runnable, v)
<1>1. PICK Q : Q = runnable \ {current}
  OBVIOUS
<1>2. /\ Q \in SUBSET Thread /\ IsHeap(run_pool, Q) /\ runnable \in SUBSET Thread
  BY <1>1 DEF StrideTypeOK
<1>3. PICK V : V = {v \in [Thread -> Int] : InOrder(v)}
  OBVIOUS
<1>4. ASSUME NEW v \in V
      PROVE  v \in [Thread -> Int] /\ Numbering(v, runnable) /\ HeapOrdered(run_pool, Q, v)
  <2>1. Close(v, runnable) /\ HeapOrdered(run_pool, Q, v) /\ v \in [Thread -> Int]
    BY <1>1, <1>3 DEF InOrder
  <2>2. Numbering(v, runnable)
    BY <1>2, <2>1, CloseCompares DEF Numbering
  <2> QED
    BY <2>1, <2>2
<1>5. CASE current \in runnable
  <2>1. current \in Thread \ Q /\ Q \cup {current} = runnable
    BY <1>1, <1>2, <1>5
  <2>2. \A v \in V : /\ v \in [Thread -> Int] /\ Numbering(v, Q \cup {current})
                     /\ HeapOrdered(run_pool, Q, v)
    BY <1>4, <2>1
  <2>3. /\ IsHeap(Enqueue(run_pool, current), Q \cup {current})
        /\ \A v \in V : HeapOrdered(Enqueue(run_pool, current), Q \cup {current}, v)
    BY <1>2, <2>1, <2>2, EnqueueHeap
  <2> QED
    BY <1>3, <1>5, <2>1, <2>3 DEF WithCurrent
<1>6. CASE current \notin runnable
  <2>1. Q = runnable
    BY <1>1, <1>6
  <2> QED
    BY <1>2, <1>3, <1>4, <1>6, <2>1 DEF WithCurrent
<1> QED
  BY <1>5, <1>6

\* What schedule() does to the current process and the run queue.
LEMMA ScheduleDoes ==
    ASSUME Schedule
    PROVE  /\ time_slice' = IF current \in runnable
                            THEN [time_slice EXCEPT ![current] = Slice(current)]
                            ELSE time_slice
           /\ UNCHANGED <<lab6_priority, runnable, joinedClose>>
           /\ \/ /\ root(WithCurrent) = None
                 /\ current' = idleproc /\ need_resched' = TRUE
                 /\ UNCHANGED <<run_pool, lab6_stride>>
              \/ /\ root(WithCurrent) # None
                 /\ need_resched' = FALSE
                 /\ PickNext(WithCurrent)
  BY DEF Schedule, WithCurrent

\* schedule(): the stride of the least process grows by no more than BIG_STRIDE.
LEMMA ScheduleKeeps == ASSUME StrideInv, Schedule PROVE StrideInv'
<1>0. /\ None \notin Thread /\ idleproc \notin Thread /\ Half \in Nat \ {0} /\ MAX_TIME_SLICE \in Nat
      /\ Mod \in Nat \ {0} /\ BIG_STRIDE \in Nat
  BY StrideAssumption DEF Mod, BIG_STRIDE
<1>1. /\ StrideTypeOK /\ runnable \in SUBSET Thread /\ IsHeap(WithCurrent, runnable)
      /\ \A v \in [Thread -> Int] : InOrder(v) => HeapOrdered(WithCurrent, runnable, v)
  BY CurrentQueued DEF StrideInv, StrideTypeOK
<1>2. /\ root(WithCurrent) = None <=> runnable = {}
      /\ root(WithCurrent) # None => root(WithCurrent) \in runnable
      /\ \A v \in [Thread -> Int] : InOrder(v) /\ root(WithCurrent) # None =>
              \A p \in runnable : v[root(WithCurrent)] <= v[p]
  BY <1>1, RootLeast
<1>3. /\ time_slice' \in [Thread -> 0..MAX_TIME_SLICE] /\ lab6_priority' \in [Thread -> Nat]
      /\ runnable' = runnable /\ joinedClose' = joinedClose /\ joinedClose' \in BOOLEAN /\ need_resched' \in BOOLEAN
  <2>1. time_slice \in [Thread -> 0..MAX_TIME_SLICE] /\ lab6_priority \in [Thread -> Nat]
        /\ joinedClose \in BOOLEAN
    BY <1>1 DEF StrideTypeOK
  <2>2. \A p \in Thread : Slice(p) \in 0..MAX_TIME_SLICE
    BY <1>0, <2>1 DEF Slice
  <2>3. time_slice' \in [Thread -> 0..MAX_TIME_SLICE]
    <3>1. CASE current \in runnable
      BY <1>1, <2>1, <2>2, <3>1, ScheduleDoes
    <3>2. CASE current \notin runnable
      BY <2>1, <3>2, ScheduleDoes
    <3> QED
      BY <3>1, <3>2
  <2>4. lab6_priority' = lab6_priority /\ runnable' = runnable /\ joinedClose' = joinedClose
    BY ScheduleDoes
  <2>5. need_resched' \in BOOLEAN
    BY ScheduleDoes
  <2> QED
    BY <2>1, <2>3, <2>4, <2>5
<1>4. CASE root(WithCurrent) = None
  <2>1. /\ runnable = {} /\ current' = idleproc /\ run_pool' = run_pool /\ lab6_stride' = lab6_stride
    BY <1>2, <1>4, ScheduleDoes
  <2>2. runnable \ {current} = {} /\ runnable' \ {current'} = {}
    BY <1>3, <2>1
  <2>3. StrideTypeOK'
    BY <1>1, <1>3, <2>1, <2>2 DEF StrideTypeOK
  <2>4. ASSUME NEW v \in [Thread -> Int], InOrder(v) PROVE InOrder(v)'
    BY <2>1, <2>2, <2>4, <1>3 DEF InOrder, Close, HeapOrdered
  <2> QED
    BY <1>3, <2>3, <2>4 DEF StrideInv
<1>5. CASE root(WithCurrent) # None
  <2>1. PICK p : p = root(WithCurrent)
    OBVIOUS
  <2>2. /\ p \in runnable /\ p \in Thread /\ current' = p
        /\ lab6_stride' = [lab6_stride EXCEPT ![p] = (@ + Pass(p)) % Mod]
        /\ run_pool' = Dequeue(WithCurrent, p)
        /\ runnable' \ {current'} = runnable \ {p}
    BY <1>1, <1>2, <1>3, <1>5, <2>1, ScheduleDoes DEF PickNext
  <2>3. Pass(p) \in 0..BIG_STRIDE
    BY <1>1, <2>2, PassBound
  <2>4. lab6_stride' \in [Thread -> 0..Mod - 1]
    <3>1. lab6_stride \in [Thread -> 0..Mod - 1]
      BY <1>1 DEF StrideTypeOK
    <3>2. lab6_stride[p] + Pass(p) \in Int
      BY <1>0, <2>2, <2>3, <3>1
    <3>3. (lab6_stride[p] + Pass(p)) % Mod \in 0..Mod - 1
      BY <1>0, <3>2
    <3> QED
      BY <2>2, <3>1, <3>3
  <2>5. PICK V : V = {v \in [Thread -> Int] : InOrder(v)}
    OBVIOUS
  <2>6. \A v \in V : /\ v \in [Thread -> Int] /\ Numbering(v, runnable)
                     /\ HeapOrdered(WithCurrent, runnable, v)
    BY <1>1, <2>5, CloseCompares DEF Numbering, InOrder
  <2>7. /\ IsHeap(run_pool', runnable \ {p})
        /\ \A v \in V : HeapOrdered(run_pool', runnable \ {p}, v)
    BY <1>1, <1>5, <2>1, <2>2, <2>6, DequeueHeap
  <2>8. StrideTypeOK'
    <3>1. IsHeap(run_pool', runnable' \ {current'})
      BY <2>2, <2>7
    <3>2. IsHeap(run_pool, runnable \ {current})'
      BY <3>1 DEF IsHeap
    <3> QED
      BY <3>2, <1>1, <1>3, <2>2, <2>4 DEF StrideTypeOK
  <2>9. ASSUME NEW v \in [Thread -> Int], InOrder(v) PROVE \E w \in [Thread -> Int] : InOrder(w)'
    <3>1. PICK w : w = [v EXCEPT ![p] = @ + Pass(p)]
      OBVIOUS
    <3>2. /\ w \in [Thread -> Int] /\ w[p] = v[p] + Pass(p) /\ \A q \in Thread : q # p => w[q] = v[q]
      BY <2>2, <2>3, <2>9, <3>1, <1>0
    <3>3. \A q \in Thread : lab6_stride'[q] = w[q] % Mod
      <4> TAKE q \in Thread
      <4>1. lab6_stride \in [Thread -> 0..Mod - 1] /\ \A t \in Thread : lab6_stride[t] = v[t] % Mod
        BY <1>1, <2>9 DEF StrideTypeOK, InOrder, Close
      <4>2. ((v[p] % Mod) + Pass(p)) % Mod = (v[p] + Pass(p)) % Mod
        <5>1. v[p] \in Int /\ Pass(p) \in Int
          BY <1>0, <2>2, <2>3, <2>9
        <5> QED
          BY <1>0, <5>1, ModSum
      <4> QED
        BY <2>2, <3>2, <4>1, <4>2
    <3>4. \A q, t \in runnable : w[q] - w[t] <= BIG_STRIDE
      <4> TAKE q, t \in runnable
      <4>1. /\ v[p] <= v[q] /\ v[p] <= v[t] /\ v[q] - v[p] <= BIG_STRIDE /\ v[q] - v[t] <= BIG_STRIDE
            /\ v[p] \in Int /\ v[q] \in Int /\ v[t] \in Int /\ q \in Thread /\ t \in Thread
        BY <1>1, <1>2, <1>5, <2>1, <2>2, <2>9 DEF InOrder, Close
      <4> QED
        BY <1>0, <2>3, <3>2, <4>1
    <3>5. Close(w, runnable)'
      BY <1>3, <3>2, <3>3, <3>4 DEF Close
    <3>6. HeapOrdered(run_pool', runnable \ {p}, w)
      <4>1. HeapOrdered(run_pool', runnable \ {p}, v)
        BY <2>5, <2>7, <2>9
      <4>2. \A q \in runnable \ {p} : /\ q \in Thread /\ q # p /\ q \in Entry
                                      /\ run_pool'.left[q] \in (runnable \ {p}) \cup {None}
                                      /\ run_pool'.right[q] \in (runnable \ {p}) \cup {None}
        BY <1>1, <2>7 DEF IsHeap, Entry
      <4>3. \A q \in runnable \ {p} : w[q] = v[q]
        BY <3>2, <4>2
      <4> QED
        BY <4>1, <4>2, <4>3 DEF HeapOrdered
    <3>7. HeapOrdered(run_pool, runnable \ {current}, w)'
      BY <2>2, <3>6 DEF HeapOrdered
    <3> QED
      BY <3>2, <3>5, <3>7 DEF InOrder
  <2> QED
    BY <1>3, <2>8, <2>9 DEF StrideInv
<1> QED
  BY <1>4, <1>5

\* wakeup_proc: with the process that joins, the strides have other numbers, but they
\* are in the same order.
LEMMA WakeKeeps == ASSUME StrideInv, NEW p \in Thread, WakeupProc(p) PROVE StrideInv'
<1>0. /\ None \notin Thread /\ idleproc \notin Thread /\ Half \in Nat \ {0} /\ MAX_TIME_SLICE \in Nat
      /\ BIG_STRIDE \in Nat
  BY StrideAssumption DEF BIG_STRIDE
<1>1. /\ StrideTypeOK /\ runnable \in SUBSET Thread
      /\ lab6_stride' = lab6_stride /\ lab6_priority' = lab6_priority /\ current' = current
      /\ need_resched' = need_resched /\ runnable' = runnable \cup {p} /\ p \notin runnable
      /\ joinedClose' => AreClose(runnable \cup {p}) /\ (runnable = {} \/ joinedClose)
  BY DEF WakeupProc, StrideInv, StrideTypeOK
<1>2. /\ time_slice' \in [Thread -> 0..MAX_TIME_SLICE] /\ joinedClose' \in BOOLEAN
      /\ runnable' \subseteq Thread
  BY <1>0, <1>1 DEF WakeupProc, StrideTypeOK, Slice
<1>3. PICK Q : Q = runnable \ {current}
  OBVIOUS
<1>4. Q \in SUBSET Thread /\ Q \subseteq runnable /\ IsHeap(run_pool, Q)
  BY <1>1, <1>3 DEF StrideTypeOK
<1>5. PICK V : V = {w \in [Thread -> Int] :
                      Close(w, runnable \cup {p}) /\ HeapOrdered(run_pool, Q, w)}
  OBVIOUS
<1>6. ASSUME joinedClose' PROVE \E w : w \in V
  <2>1. PICK w \in [Thread -> Int] : Close(w, runnable \cup {p})
    <3>1. /\ lab6_stride \in [Thread -> 0..Mod - 1]
          /\ runnable \cup {p} \in SUBSET Thread /\ AreClose(runnable \cup {p})
      BY <1>1, <1>6 DEF StrideTypeOK
    <3> QED
      BY <3>1, CloseNumbering
  <2>2. CASE runnable = {}
    BY <1>4, <1>5, <2>1, <2>2 DEF HeapOrdered
  <2>3. CASE joinedClose
    <3>1. PICK v \in [Thread -> Int] : Close(v, runnable) /\ HeapOrdered(run_pool, Q, v)
      BY <1>3, <2>3 DEF StrideInv, InOrder
    <3>2. ASSUME NEW q \in Q, NEW t \in Q, v[q] <= v[t] PROVE w[q] <= w[t]
      <4>1. /\ v[q] \in Int /\ v[t] \in Int /\ w[q] \in Int /\ w[t] \in Int
            /\ q \in runnable /\ t \in runnable
            /\ q \in runnable \cup {p} /\ t \in runnable \cup {p}
        BY <1>4, <2>1, <3>1
      <4>2. Before(t, q) <=> v[t] < v[q]
        BY <1>1, <3>1, <4>1, CloseCompares
      <4>3. runnable \cup {p} \in SUBSET Thread
        BY <1>1
      <4>4. Before(t, q) <=> w[t] < w[q]
        BY <2>1, <4>1, <4>3, CloseCompares
      <4> QED
        BY <3>2, <4>1, <4>2, <4>4
    <3>3. \A q \in Q : run_pool.left[q] \in Q \cup {None} /\ run_pool.right[q] \in Q \cup {None}
      BY <1>4 DEF IsHeap, Entry
    <3>4. HeapOrdered(run_pool, Q, w)
      BY <3>1, <3>2, <3>3 DEF HeapOrdered
    <3> QED
      BY <1>5, <2>1, <3>4
  <2> QED
    BY <1>1, <1>6, <2>2, <2>3
<1>7. CASE p = current
  <2>1. runnable' \ {current'} = Q /\ run_pool' = run_pool
    BY <1>1, <1>3, <1>7 DEF WakeupProc
  <2>2. IsHeap(run_pool, runnable \ {current})'
    BY <1>4, <2>1 DEF IsHeap
  <2>3. ASSUME NEW w \in V PROVE w \in [Thread -> Int] /\ InOrder(w)'
    BY <1>1, <1>5, <2>1, <2>3 DEF InOrder, Close, HeapOrdered
  <2> QED
    BY <1>1, <1>2, <1>6, <2>2, <2>3 DEF StrideInv, StrideTypeOK
<1>8. CASE p # current
  <2>1. /\ p \in Thread \ Q /\ runnable' \ {current'} = Q \cup {p}
        /\ run_pool' = Enqueue(run_pool, p)
    BY <1>1, <1>3, <1>8 DEF WakeupProc
  <2>2. ASSUME NEW w \in V
        PROVE  /\ w \in [Thread -> Int] /\ Numbering(w, Q \cup {p}) /\ HeapOrdered(run_pool, Q, w)
               /\ Close(w, runnable \cup {p})
    <3>1. w \in [Thread -> Int] /\ Close(w, runnable \cup {p}) /\ HeapOrdered(run_pool, Q, w)
      BY <1>5
    <3>2. runnable \cup {p} \in SUBSET Thread /\ Q \cup {p} \subseteq runnable \cup {p}
      BY <1>1, <1>3
    <3>3. Numbering(w, Q \cup {p})
      BY <3>1, <3>2, CloseCompares DEF Numbering
    <3> QED
      BY <3>1, <3>3
  <2>3. /\ IsHeap(run_pool', Q \cup {p})
        /\ \A w \in V : HeapOrdered(run_pool', Q \cup {p}, w)
    BY <1>4, <2>1, <2>2, EnqueueHeap
  <2>4. IsHeap(run_pool, runnable \ {current})'
    BY <2>1, <2>3 DEF IsHeap
  <2>5. ASSUME NEW w \in V PROVE w \in [Thread -> Int] /\ InOrder(w)'
    <3>1. Close(w, runnable)'
      BY <1>1, <2>2 DEF Close
    <3>2. HeapOrdered(run_pool, runnable \ {current}, w)'
      BY <2>1, <2>3 DEF HeapOrdered
    <3> QED
      BY <2>2, <3>1, <3>2 DEF InOrder
  <2> QED
    BY <1>1, <1>2, <1>6, <2>4, <2>5 DEF StrideInv, StrideTypeOK
<1> QED
  BY <1>7, <1>8

\* Every other step leaves the heap and the strides as they are.
LEMMA StrideStep == StrideInv /\ [StrideNext]_strideVars => StrideInv'
<1> SUFFICES ASSUME StrideInv, [StrideNext]_strideVars PROVE StrideInv'
  OBVIOUS
<1>0. StrideTypeOK /\ MAX_TIME_SLICE \in Nat
  BY StrideAssumption DEF StrideInv
<1>1. CASE Schedule
  BY <1>1, ScheduleKeeps
<1>2. CASE ProcTick
  <2>1. UNCHANGED <<run_pool, lab6_stride, lab6_priority, runnable, current, joinedClose>>
    BY <1>2 DEF ProcTick
  <2>2. time_slice' \in [Thread -> 0..MAX_TIME_SLICE] /\ need_resched' \in BOOLEAN
    <3>1. /\ time_slice \in [Thread -> 0..MAX_TIME_SLICE] /\ need_resched \in BOOLEAN
          /\ current \in Thread
      BY <1>0, <1>2 DEF ProcTick, StrideTypeOK
    <3>2. CASE time_slice[current] > 0 /\ time_slice' = [time_slice EXCEPT ![current] = @ - 1]
               /\ need_resched' = need_resched
      <4>1. time_slice[current] - 1 \in 0..MAX_TIME_SLICE
        BY <1>0, <3>1, <3>2
      <4> QED
        BY <3>1, <3>2, <4>1
    <3>3. CASE time_slice' = time_slice /\ need_resched' = TRUE
      BY <3>1, <3>3
    <3> QED
      BY <1>2, <3>2, <3>3 DEF ProcTick
  <2> QED
    BY <1>0, <2>1, <2>2 DEF StrideInv, StrideTypeOK, InOrder, Close, HeapOrdered, IsHeap
<1>3. ASSUME NEW p \in Thread, WakeupProc(p) PROVE StrideInv'
  BY <1>3, WakeKeeps
<1>4. CASE Block
  <2>1. /\ UNCHANGED <<run_pool, lab6_stride, lab6_priority, time_slice, current>>
        /\ runnable' \ {current'} = runnable \ {current} /\ runnable' \subseteq runnable
        /\ need_resched' = TRUE /\ joinedClose' = joinedClose
    BY <1>4 DEF Block
  <2>2. ASSUME NEW v \in [Thread -> Int], InOrder(v) PROVE InOrder(v)'
    BY <2>1, <2>2 DEF InOrder, Close, HeapOrdered
  <2>3. StrideTypeOK'
    BY <1>0, <2>1 DEF StrideTypeOK, IsHeap
  <2> QED
    BY <2>1, <2>2, <2>3 DEF StrideInv
<1>5. CASE Yield \/ \E n \in Priority : SetPriority(n)
  <2>1. /\ UNCHANGED <<run_pool, lab6_stride, time_slice, runnable, current, joinedClose>>
        /\ need_resched' \in BOOLEAN
    BY <1>0, <1>5 DEF Yield, SetPriority, StrideTypeOK
  <2>2. lab6_priority' \in [Thread -> Nat]
    BY <1>0, <1>5, StrideAssumption DEF Yield, SetPriority, StrideTypeOK
  <2> QED
    BY <1>0, <2>1, <2>2 DEF StrideInv, StrideTypeOK, InOrder, Close, HeapOrdered, IsHeap
<1>6. CASE UNCHANGED strideVars
  BY <1>6 DEF strideVars, StrideInv, StrideTypeOK, InOrder, Close, HeapOrdered, IsHeap
<1> QED
  BY <1>1, <1>2, <1>3, <1>4, <1>5, <1>6 DEF StrideNext

\* The invariant of the stride class.
LEMMA StrideInductive == StrideSpec => []StrideInv
<1> QED
  BY StrideStart, StrideStep, PTL DEF StrideSpec

(* The skew heap holds the runnable processes but the current one, each at *)
(* one place, whatever the strides are: no enqueue, dequeue or merge loses *)
(* a process or links one twice (stride_enqueue, stride_dequeue,           *)
(* skew_heap_merge).                                                       *)
THEOREM RunPoolCorrect == StrideSpec => []StrideTypeOK
<1>1. StrideInv => StrideTypeOK
  BY DEF StrideInv
<1> QED
  BY <1>1, StrideInductive, PTL

(* Whatever is picked, and with what priorities, the strides of the        *)
(* runnable processes stay within BIG_STRIDE of the least, so that the     *)
(* comparison of proc_stride_comp_f is an order of them, until a process is*)
(* forked or wakes whose stride is not close to theirs.                    *)
THEOREM StridesCloseCorrect == StrideSpec => []StridesClose
<1>1. StrideInv => StridesClose
  <2> SUFFICES ASSUME StrideInv, joinedClose, runnable # {}
               PROVE  \E least \in runnable : \A p \in runnable :
                        (lab6_stride[p] - lab6_stride[least]) % Mod <= BIG_STRIDE
    BY DEF StridesClose, AreClose
  <2>0. runnable \in SUBSET Thread /\ BIG_STRIDE \in Int
    BY StrideAssumption DEF StrideInv, StrideTypeOK, BIG_STRIDE
  <2>1. PICK v \in [Thread -> Int] : Close(v, runnable)
    BY DEF StrideInv, InOrder
  <2>2. PICK q : q \in runnable
    OBVIOUS
  <2> DEFINE S == {v[p] - v[q] + BIG_STRIDE : p \in runnable}
  <2>3. S \in SUBSET Nat /\ S # {}
    BY <2>0, <2>1, <2>2 DEF Close
  <2>4. PICK n \in S : \A m \in S : n <= m
    BY <2>3, NatLeast
  <2>5. PICK least \in runnable : n = v[least] - v[q] + BIG_STRIDE
    BY <2>4
  <2>6. ASSUME NEW p \in runnable
        PROVE  (lab6_stride[p] - lab6_stride[least]) % Mod <= BIG_STRIDE
    <3>1. v[p] \in Int /\ v[q] \in Int /\ v[least] \in Int /\ v[p] - v[least] <= BIG_STRIDE
      BY <2>0, <2>1, <2>2 DEF Close
    <3>2. v[least] - v[q] + BIG_STRIDE <= v[p] - v[q] + BIG_STRIDE
      BY <2>4, <2>5
    <3>3. v[least] <= v[p]
      BY <2>0, <3>1, <3>2
    <3>4. (lab6_stride[p] - lab6_stride[least]) % Mod = v[p] - v[least]
      BY <2>0, <2>1, <3>3, CloseCompares
    <3> QED
      BY <3>1, <3>4
  <2> QED
    BY <2>6
<1> QED
  BY <1>1, StrideInductive, PTL

(* schedule() falls back to idle only if nobody can run, and otherwise     *)
(* takes a process that can; if all have joined with close strides, one    *)
(* whose stride no other's is before.                                      *)
THEOREM PicksLeastCorrect == StrideSpec => PicksLeast
<1>1. ASSUME StrideInv, Schedule
      PROVE  IF runnable = {} THEN current' = idleproc
             ELSE /\ current' \in runnable
                  /\ joinedClose => \A p \in runnable : ~Before(p, current')
  <2>1. /\ runnable \in SUBSET Thread /\ IsHeap(WithCurrent, runnable)
        /\ \A v \in [Thread -> Int] : InOrder(v) => HeapOrdered(WithCurrent, runnable, v)
    BY <1>1, CurrentQueued DEF StrideInv, StrideTypeOK
  <2>2. /\ root(WithCurrent) = None <=> runnable = {}
        /\ root(WithCurrent) # None => root(WithCurrent) \in runnable
        /\ \A v \in [Thread -> Int] : InOrder(v) /\ root(WithCurrent) # None =>
                \A p \in runnable : v[root(WithCurrent)] <= v[p]
    BY <2>1, RootLeast
  <2>3. current' = IF runnable = {} THEN idleproc ELSE root(WithCurrent)
    BY <1>1, <2>2, ScheduleDoes DEF PickNext
  <2>4. ASSUME joinedClose, runnable # {}, NEW p \in runnable PROVE ~Before(p, current')
    <3>1. PICK v \in [Thread -> Int] : InOrder(v)
      BY <1>1, <2>4 DEF StrideInv
    <3>2. current' \in runnable /\ v[current'] <= v[p] /\ v[current'] \in Int /\ v[p] \in Int
      BY <2>1, <2>2, <2>3, <2>4, <3>1
    <3>3. Close(v, runnable)
      BY <3>1 DEF InOrder
    <3> QED
      BY <2>1, <3>2, <3>3, CloseCompares
  <2> QED
    BY <2>2, <2>3, <2>4
<1>2. StrideInv /\ [StrideNext]_strideVars =>
        [Schedule =>
            IF runnable = {} THEN current' = idleproc
            ELSE /\ current' \in runnable
                 /\ joinedClose => \A p \in runnable : ~Before(p, current')]_strideVars
  BY <1>1
<1> QED
  BY <1>2, StrideInductive, PTL DEF StrideSpec, PicksLeast
=============================================================================
