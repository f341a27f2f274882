----------------------------- MODULE AddrSpace ------------------------------
(***************************************************************************)
(* Address spaces: the page tables of src/src/mm/mm.c and the operations   *)
(* that build, copy and free them: execv and fork (task.c), the loader     *)
(* (elf.c), the page fault (protect.c), mem_linear2phy_get (slab.c) and    *)
(* the release of a reaped task.                                           *)
(*                                                                         *)
(* A process in the kernel runs with interrupts off, so a step is what it  *)
(* does between two points where another CPU can see or reuse a page: the  *)
(* tables of a process are touched by nobody else, the free pages by all.  *)
(* hw[p] is the CR3 of the CPU that p runs on, until that CPU has switched *)
(* to another task; a reaped p is a new task only after that.  Pages come  *)
(* from PageAlloc, which hands out the lowest free one; what a page holds  *)
(* that nobody has written is Junk.  Only small pages are mapped in the    *)
(* user half.  The TLB is left out: every change is followed by an invlpg  *)
(* on the only CPU that uses the table.                                    *)
(***************************************************************************)
EXTENDS Integers, FiniteSets, Sequences, SequencesExt, Minimum

CONSTANTS
    Proc,       \* processes and kernel threads
    First,      \* the kernel thread that exists at the start
    NFrames,    \* physical pages: enough for every process at its largest
    Levels,     \* levels of tables, 4 in the code
    Fan,        \* user entries of a table, 512 (256 in the root) in the code
    Programs,   \* executables: sequences of loaded segments
    Touched,    \* the pages that programs touch
    Stored,     \* the words that programs store
    MaxBirths   \* bound of the instance: spawns, forks and execs

Frame == 1 .. NFrames
Slot  == 0 .. Fan - 1
Page  == 0 .. Fan ^ Levels - 1
StackPage == Fan ^ Levels - 1     \* VIRTUAL_ADDR_USER_HIGHEST - 4096

None == 0                         \* an entry without PAGE_PRESENT
vir_ptable4 == -1                 \* the kernel's own tables
Absent == -1                      \* no page
Junk == -2                        \* whatever the page held before
Argv == 0                         \* the page that execv fills with arguments
Word == {Junk, Argv} \cup Stored \cup {s.text : s \in UNION {Range(g) : g \in Programs}}

VARIABLES
    mem,        \* content of every physical page: entries, kernel half, data
    free,       \* the free physical pages
    halted,     \* a halt() was reached
    place,      \* "none", "kernel" thread, "user", "exec", "load", "zombie"
    cr3,        \* pcb->cr3
    hw,         \* CR3 of the CPU the task runs on
    temp,       \* the argument page execv holds
    births      \* spawns, forks and execs so far

vars == <<mem, free, halted, place, cr3, hw, temp, births>>

Empty == [k \in Slot |-> None]
Table == [entry |-> Empty, high |-> FALSE, word |-> Junk]
Root  == [Table EXCEPT !.high = TRUE]
Data(w) == [entry |-> Empty, high |-> FALSE, word |-> w]

Init ==
    /\ mem = [f \in Frame |-> Data(Junk)] /\ free = Frame /\ halted = FALSE
    /\ place = [p \in Proc |-> IF p = First THEN "kernel" ELSE "none"]
    /\ cr3 = [p \in Proc |-> vir_ptable4] /\ hw = cr3
    /\ temp = [p \in Proc |-> None] /\ births = 0

-----------------------------------------------------------------------------
(* The tables.  s is the part of the state they are in: mem, free, halted. *)

Now == [mem |-> mem, free |-> free, halted |-> halted]
Set(s) == mem' = s.mem /\ free' = s.free /\ halted' = s.halted

Taken(s, content) == [s EXCEPT !.free = @ \ {Lowest(s.free)}, !.mem[Lowest(s.free)] = content]

\* decrease_reference_page_4k halts on a page that is free; what a free page holds is not kept track of
kfree(s, f) == IF f \in s.free THEN [s EXCEPT !.halted = TRUE]
               ELSE [s EXCEPT !.free = @ \cup {f}, !.mem[f] = Data(Junk)]

\* entry of page v in a table of level i
layer(v, i) == (v \div Fan ^ (Levels - 1 - i)) % Fan
Upper == [i \in 1 .. Levels - 1 |-> i - 1]      \* the levels above the last
Slots == [k \in 1 .. Fan |-> k - 1]             \* the order of the loops

\* the page that holds v, found as the hardware does
Walk(m, root, v) ==
    FoldLeft(LAMBDA t, i : IF t = None THEN None ELSE m[t].entry[layer(v, i)],
             root, Append(Upper, Levels - 1))

exist_page_4k(s, v, root) == Walk(s.mem, root, v) # None

\* one turn of the loop of __put_page_4k_locked: go down, with a new table if none is there
Descend(a, v, i) ==
    LET k == layer(v, i)
        t == a.s.mem[a.table].entry[k]
        n == Lowest(a.s.free)
    IN  IF t # None THEN [a EXCEPT !.table = t]
        ELSE [s |-> [Taken(a.s, Table) EXCEPT !.mem[a.table].entry[k] = n], table |-> n]

(* __put_page_4k_locked: a page that is mapped already halts.              *)
put_page_4k(s, f, v, root) ==
    LET a == FoldLeft(LAMBDA b, i : Descend(b, v, i), [s |-> s, table |-> root], Upper)
        k == layer(v, Levels - 1)
    IN  IF a.s.mem[a.table].entry[k] # None THEN [a.s EXCEPT !.halted = TRUE]
        ELSE [a.s EXCEPT !.mem[a.table].entry[k] = f]

\* a new page at v: kmalloc(4096), then put_page_4k
Add(s, v, root) == put_page_4k(Taken(s, Data(Junk)), Lowest(s.free), v, root)

(* free_pagetable_level: what an entry points to is freed after its own    *)
(* entries.                                                                *)
RECURSIVE free_pagetable_level(_, _, _)
free_pagetable_level(s, table, level) ==
    FoldLeft(LAMBDA a, k :
               LET n == s.mem[table].entry[k]
               IN  IF n = None THEN a
                   ELSE kfree(IF level < Levels - 1
                              THEN free_pagetable_level(a, n, level + 1) ELSE a, n),
             s, Slots)

\* mutation: the tables below the root are forgotten
free_ptable_and_mem_Shallow(s, root) == IF root = vir_ptable4 THEN s ELSE kfree(s, root)

(* free_ptable_and_mem: the user half, then the root; the kernel's tables  *)
(* are left alone.                                                         *)
free_ptable_and_mem(s, root) ==
    IF root = vir_ptable4 THEN s ELSE kfree(free_pagetable_level(s, root, 0), root)

\* mutation: the child gets pages of its own, and nothing is copied to them
RECURSIVE copy_user_pagetable_Blank(_, _, _, _)
copy_user_pagetable_Blank(s, src, dst, level) ==
    FoldLeft(LAMBDA a, k :
               LET e == a.mem[src].entry[k]
                   n == Lowest(a.free)
               IN  IF e = None THEN [a EXCEPT !.mem[dst].entry[k] = None]
                   ELSE IF level = Levels - 1
                   THEN [Taken(a, Data(Junk)) EXCEPT !.mem[dst].entry[k] = n]
                   ELSE copy_user_pagetable_Blank(
                          [Taken(a, Table) EXCEPT !.mem[dst].entry[k] = n], e, n, level + 1),
             s, Slots)

\* mutation: the child's last tables point to the parent's pages
RECURSIVE copy_user_pagetable_Share(_, _, _, _)
copy_user_pagetable_Share(s, src, dst, level) ==
    FoldLeft(LAMBDA a, k :
               LET e == a.mem[src].entry[k]
                   n == Lowest(a.free)
               IN  IF e = None THEN [a EXCEPT !.mem[dst].entry[k] = None]
                   ELSE IF level = Levels - 1 THEN [a EXCEPT !.mem[dst].entry[k] = e]
                   ELSE copy_user_pagetable_Share(
                          [Taken(a, Table) EXCEPT !.mem[dst].entry[k] = n], e, n, level + 1),
             s, Slots)

(* copy_user_pagetable: a new page for every page, a new table for every   *)
(* table, in the order of the entries.                                     *)
RECURSIVE copy_user_pagetable(_, _, _, _)
copy_user_pagetable(s, src, dst, level) ==
    FoldLeft(LAMBDA a, k :
               LET e == a.mem[src].entry[k]
                   n == Lowest(a.free)
               IN  IF e = None THEN [a EXCEPT !.mem[dst].entry[k] = None]
                   ELSE IF level = Levels - 1
                   THEN [Taken(a, a.mem[e]) EXCEPT !.mem[dst].entry[k] = n]
                   ELSE copy_user_pagetable(
                          [Taken(a, Table) EXCEPT !.mem[dst].entry[k] = n], e, n, level + 1),
             s, Slots)

-----------------------------------------------------------------------------
(* The operations.                                                         *)

Goto(p, l) == place' = [place EXCEPT ![p] = l]
Birth == births < MaxBirths /\ births' = births + 1

\* no task, and no CPU is left on the tables of the last one
Unused(q) == place[q] = "none" /\ hw[q] = vir_ptable4

\* kernel_thread: a task on the kernel's tables
Spawn(p, q) ==
    /\ place[p] = "kernel" /\ Unused(q) /\ Goto(q, "kernel") /\ Birth
    /\ cr3' = [cr3 EXCEPT ![q] = vir_ptable4] /\ hw' = [hw EXCEPT ![q] = vir_ptable4]
    /\ UNCHANGED <<mem, free, halted, temp>>

(* sys_execv up to the release of the old tables: the arguments are copied *)
(* to a page first.  CR3 is not reloaded: the CPU goes on with a root that *)
(* is free.                                                                *)
ExecStart(p) ==
    /\ place[p] \in {"kernel", "user"} /\ Goto(p, "exec") /\ Birth
    /\ temp' = [temp EXCEPT ![p] = Lowest(free)]
    /\ Set(free_ptable_and_mem(Taken(Now, Data(Argv)), cr3[p]))
    /\ cr3' = [cr3 EXCEPT ![p] = vir_ptable4]
    /\ UNCHANGED hw

\* mutation: the new root is not loaded
ExecRoot_NoLoad(p) ==
    /\ place[p] = "exec" /\ Goto(p, "load")
    /\ LET r == Lowest(free)
       IN  /\ Set(put_page_4k(Taken(Now, Root), temp[p], StackPage, r))
           /\ cr3' = [cr3 EXCEPT ![p] = r]
    /\ temp' = [temp EXCEPT ![p] = None]
    /\ UNCHANGED <<hw, births>>

(* ... the new root, with the kernel half of vir_ptable4, is loaded and    *)
(* the arguments become the top page of the stack ...                      *)
ExecRoot(p) ==
    /\ place[p] = "exec" /\ Goto(p, "load")
    /\ LET r == Lowest(free)
       IN  /\ Set(put_page_4k(Taken(Now, Root), temp[p], StackPage, r))
           /\ cr3' = [cr3 EXCEPT ![p] = r] /\ hw' = [hw EXCEPT ![p] = r]
    /\ temp' = [temp EXCEPT ![p] = None]
    /\ UNCHANGED births

\* mutation: a page that two segments share is mapped twice
MapSegment_Again(s, seg, root) ==
    FoldLeft(LAMBDA a, v : Add(a, v, root), s,
             [k \in 1 .. seg.end - seg.start + 1 |-> seg.start + k - 1])

\* the pages of a segment, the one at end_addr included, that are not there yet
MapSegment(s, seg, root) ==
    FoldLeft(LAMBDA a, v : IF exist_page_4k(a, v, root) THEN a ELSE Add(a, v, root),
             s, [k \in 1 .. seg.end - seg.start + 1 |-> seg.start + k - 1])

\* sys_read and the memset behind it, through the tables
FillSegment(s, seg, root) ==
    LET pages == {Walk(s.mem, root, v) : v \in seg.start .. seg.end - 1}
    IN  [s EXCEPT !.mem = [f \in Frame |-> IF f \in pages THEN Data(seg.text) ELSE @[f]]]

elf_file_copy(s, g, root) ==
    FoldLeft(LAMBDA a, seg : FillSegment(MapSegment(a, seg, root), seg, root), s, g)

(* ... and the program is loaded and entered.                              *)
ExecLoad(p, g) ==
    /\ place[p] = "load" /\ Goto(p, "user")
    /\ Set(elf_file_copy(Now, g, cr3[p]))
    /\ UNCHANGED <<cr3, hw, temp, births>>

\* fork_enter, for user processes only
fork_enter(p, q) ==
    /\ place[p] = "user" /\ Unused(q) /\ Goto(q, "user") /\ Birth
    /\ LET r == Lowest(free)
       IN  /\ Set(copy_user_pagetable(Taken(Now, Root), cr3[p], r, 0))
           /\ cr3' = [cr3 EXCEPT ![q] = r] /\ hw' = [hw EXCEPT ![q] = r]
    /\ UNCHANGED temp

(* exception_handler 14, page not present, and mem_linear2phy_get of a     *)
(* buffer: a page is added.  Page 0 ends the process when it is touched;   *)
(* as a buffer it is mapped like any other.                                *)
Fault(p, v) ==
    /\ place[p] = "user" /\ ~exist_page_4k(Now, v, cr3[p])
    /\ Set(Add(Now, v, cr3[p]))
    /\ UNCHANGED <<place, cr3, hw, temp, births>>

\* a store of the program, through the tables of its CPU
Store(p, v, w) ==
    /\ place[p] = "user" /\ Walk(mem, hw[p], v) # None
    /\ mem' = [mem EXCEPT ![Walk(mem, hw[p], v)] = Data(w)]
    /\ UNCHANGED <<free, halted, place, cr3, hw, temp, births>>

\* sys_exit up to the store of TASK_ZOMBIE: the parent may reap the task from here on
Exit(p) ==
    /\ place[p] \in {"kernel", "user"} /\ p # First /\ Goto(p, "zombie")
    /\ UNCHANGED <<mem, free, halted, cr3, hw, temp, births>>

(* schedule_zombie: the CPU goes on with another task and loads its        *)
(* tables, before or after the parent has freed those of p.                *)
schedule_zombie(p) ==
    /\ place[p] \in {"zombie", "none"} /\ hw[p] # vir_ptable4
    /\ hw' = [hw EXCEPT ![p] = vir_ptable4]
    /\ UNCHANGED <<mem, free, halted, place, cr3, temp, births>>

\* free_task, called by whoever reaps p; a kernel thread has nothing to free
free_task(p) ==
    /\ place[p] = "zombie" /\ Goto(p, "none")
    /\ Set(free_ptable_and_mem(Now, cr3[p]))
    /\ cr3' = [cr3 EXCEPT ![p] = vir_ptable4]
    /\ UNCHANGED <<hw, temp, births>>

Next ==
    /\ ~halted
    /\ \E p \in Proc :
         \/ \E q \in Proc : Spawn(p, q) \/ fork_enter(p, q)
         \/ ExecStart(p) \/ ExecRoot(p) \/ \E g \in Programs : ExecLoad(p, g)
         \/ \E v \in Touched : Fault(p, v) \/ \E w \in Stored : Store(p, v, w)
         \/ Exit(p) \/ schedule_zombie(p) \/ free_task(p)

Spec == Init /\ [][Next]_vars

-----------------------------------------------------------------------------
Live == {p \in Proc : cr3[p] # vir_ptable4}

Below(S) == {mem[f].entry[k] : f \in S, k \in Slot} \ {None}

\* the tables of a process; the last ones point to its pages
TablesOf(p) == FoldLeft(LAMBDA S, i : S \cup Below(S), {cr3[p]}, Upper)

\* what execv holds or the tables reach, and the entries they reach it through
Held(p) ==
    (IF p \in Live THEN LET T == TablesOf(p) IN T \cup Below(T) ELSE {})
    \cup ({temp[p]} \ {None})
Entries(p) == {e \in TablesOf(p) \X Slot : mem[e[1]].entry[e[2]] # None}

(* Type invariant of the tables and of the fields of the pcb.              *)
TypeOK ==
    /\ mem \in [Frame -> [entry : [Slot -> Frame \cup {None}], high : BOOLEAN, word : Word]]
    /\ free \subseteq Frame /\ halted \in BOOLEAN
    /\ place \in [Proc -> {"none", "kernel", "user", "exec", "load", "zombie"}]
    /\ cr3 \in [Proc -> Frame \cup {vir_ptable4}] /\ hw \in [Proc -> Frame \cup {vir_ptable4}]
    /\ temp \in [Proc -> Frame \cup {None}] /\ births \in 0 .. MaxBirths

(* copy_pagetable_and_mem, free_ptable_and_mem, put_page_4k and execv keep *)
(* every physical page with at most one owner: what is not free is a table *)
(* or page of exactly one process, reached through exactly one entry, and  *)
(* is given back when the process execs or is reaped.  No halt() of the    *)
(* table code is reached.                                                  *)
FramesOwnedOnce ==
    LET held == [p \in Proc |-> Held(p)]
    IN  /\ ~halted
        /\ Frame \ free = UNION Range(held)
        /\ \A p, q \in Proc : p # q => held[p] \cap held[q] = {}
        /\ \A p \in Live : Cardinality(Entries(p)) = Cardinality(held[p]) - 1

(* The CPU of a task runs on the tables that the pcb names, and they have  *)
(* the kernel half, also that of a zombie whose CPU has still to switch.   *)
(* There are two exceptions, both of the code: execv between the release   *)
(* of the old root and the load of the new one, and a task that its parent *)
(* reaps between sys_exit's store of TASK_ZOMBIE and schedule_zombie's     *)
(* load of CR3: free_task then frees the root under the CPU.               *)
RootLoaded ==
    \A p \in Proc : place[p] \in {"kernel", "user", "load", "zombie"} =>
        \/ hw[p] = cr3[p] /\ hw[p] # vir_ptable4 /\ hw[p] \notin free /\ mem[hw[p]].high
        \/ hw[p] = vir_ptable4 /\ (cr3[p] = vir_ptable4 \/ place[p] = "zombie")

Nothing == [v \in Page |-> Absent]
ImageOf(p) == [v \in Page |-> LET f == Walk(mem, cr3[p], v)
                              IN  IF f = None THEN Absent ELSE mem[f].word]
Image == [p \in Proc |-> IF p \in Live THEN ImageOf(p) ELSE Nothing]

\* what execv starts a program with: the page of arguments
Arguments == [Nothing EXCEPT ![StackPage] = Argv]

SS == INSTANCE SpaceSpec WITH image <- Image, Fresh <- Arguments

(* fork, exec, page faults and exit implement private memory: no process   *)
(* changes another's pages, and memory begins as the arguments of an execv *)
(* or as a copy of a process that forks.                                   *)
ImplementsSpaces == SS!Spec
=============================================================================
