------------------------------ MODULE MCMemory ------------------------------
(***************************************************************************)
(* Memory management for TLC: the page allocator on a small machine (an    *)
(* area below the kernel's end, one that straddles it, a hole, a whole     *)
(* area, and one never-written byte behind), the slabs, the heap, address  *)
(* spaces, the window for registers and the heap of user programs.  They   *)
(* share no variable, so a behaviour picks one of them (`which`) and the   *)
(* others stay at their initial states.                                    *)
(***************************************************************************)
EXTENDS PageAlloc, Slab, SequencesExt

CONSTANTS
    Pages, Requests,
    Proc, First, NFrames, Levels, Fan, Programs, Touched, Stored, MaxBirths,
    IoPages, Unit, Bars, Sizes,
    HEADER, PAGE, HEAP_END, Wanted

MCRegions == << [spa |-> 0, epa |-> 2], [spa |-> 2, epa |-> 7], [spa |-> 8, epa |-> 11] >>
MCGarbage == {0, 1, RefMax + 1}

\* a program whose two segments share a page, and one in other tables
MCPrograms == {<< [start |-> 1, end |-> 2, text |-> 3], [start |-> 2, end |-> 3, text |-> 4] >>,
               << [start |-> 4, end |-> 5, text |-> 5] >>}

VARIABLES
    which,
    next, last, nextf, lastf, start_addr, size, used, live, shp, nfhp, he, hhalted,
    mem, free, ahalted, place, cr3, hw, temp, births,
    pte, held, stop,
    header, free_list, heap_current, given, merged

H == INSTANCE Heap WITH halted <- hhalted
A == INSTANCE AddrSpace WITH halted <- ahalted
R == INSTANCE IoRemap
U == INSTANCE UserHeap

ASSUME SizeAssumption ==
    /\ Pages \in Nat \ {0} /\ Requests \subseteq Nat \ {0}
    /\ {IoPages, Unit} \subseteq Nat \ {0} /\ Bars \subseteq Nat /\ Sizes \subseteq Nat \ {0}
    /\ {HEADER, PAGE, HEAP_END} \subseteq Nat \ {0} /\ Wanted \subseteq Nat \ {0}
    /\ First \in Proc /\ {NFrames, Levels, Fan} \subseteq Nat \ {0}
    /\ Touched \subseteq A!Page /\ Stored \subseteq Nat \ {0} /\ MaxBirths \in Nat
    /\ \A g \in Programs : \A k \in DOMAIN g :
         0 < g[k].start /\ g[k].start < g[k].end /\ g[k].end < A!StackPage

heapVars == <<next, last, nextf, lastf, start_addr, size, used, live, shp, nfhp, he,
              hhalted>>

spaceVars == <<mem, free, ahalted, place, cr3, hw, temp, births>>
ioVars == <<pte, held, stop>>
userVars == <<header, free_list, heap_current, given, merged>>

MemoryInit ==
    /\ which \in {"pages", "slab", "heap", "spaces", "registers", "user"}
    /\ Init /\ SlabInit /\ H!Init /\ A!Init /\ R!Init /\ U!Init
    /\ which # "pages" => \A p \in Unwritten : mrt[p] = Reserved

MemoryNext ==
    \/ which = "pages" /\ Next /\ UNCHANGED <<which, slabVars, heapVars, spaceVars, ioVars, userVars>>
    \/ which = "slab" /\ SlabNext /\ UNCHANGED <<which, vars, heapVars, spaceVars, ioVars, userVars>>
    \/ which = "heap" /\ H!Next /\ UNCHANGED <<which, vars, slabVars, spaceVars, ioVars, userVars>>
    \/ which = "spaces" /\ A!Next /\ UNCHANGED <<which, vars, slabVars, heapVars, ioVars, userVars>>
    \/ which = "registers" /\ R!Next /\ UNCHANGED <<which, vars, slabVars, heapVars, spaceVars, userVars>>
    \/ which = "user" /\ U!Next
         /\ UNCHANGED <<which, vars, slabVars, heapVars, spaceVars, ioVars>>

MemorySpec ==
    MemoryInit /\ [][MemoryNext]_<<which, vars, slabVars, heapVars, spaceVars, ioVars, userVars>>

-----------------------------------------------------------------------------
\* mutation: a used page does not reset the run counter
ScanStep_NoReset(n, acc, p) ==
    IF acc.done \/ mrt[p] # 0 THEN acc
    ELSE [ m |-> acc.m + 1,
           ret |-> IF acc.m = 0 THEN p ELSE acc.ret,
           done |-> acc.m + 1 = n ]

(* The loop of __alloc_n_pages_4k_locked over one area, page by page: m    *)
(* counts the current run, ret is where it started.                        *)
ScanStep(n, acc, p) ==
    IF acc.done THEN acc
    ELSE IF mrt[p] # 0 THEN [acc EXCEPT !.m = 0]
    ELSE [ m |-> acc.m + 1,
           ret |-> IF acc.m = 0 THEN p ELSE acc.ret,
           done |-> acc.m + 1 = n ]

ScanLoop(i, n) ==
    FoldLeft(LAMBDA acc, p : ScanStep(n, acc, p),
             [m |-> 0, ret |-> 0, done |-> FALSE],
             [k \in 1 .. (Epa(i) - nfpa[i]) |-> nfpa[i] + k - 1])

(* The scan with its run counter returns exactly the first run of n free   *)
(* pages that PageAlloc's declarative Runs describes, in every state.      *)
ScanFindsFirstRun ==
    which = "pages" => \A i \in Areas, n \in 1 .. MaxRun :
        fpp[i] > 0 =>
            LET s == ScanLoop(i, n)
            IN  /\ s.done <=> Runs(i, n) # {}
                /\ s.done => s.ret = Lowest(Runs(i, n))

-----------------------------------------------------------------------------
(* What the other modules state, as properties of this composition.        *)

(* Type invariants of the page allocator's tables, of the slab headers, of *)
(* the heap's descriptors, of the page tables, of the register window and  *)
(* of the user heap's headers.                                             *)
TypesOK ==
    /\ which = "pages" => TypeOK
    /\ which = "slab" => SlabTypeOK
    /\ which = "heap" => H!TypeOK
    /\ which = "spaces" => A!TypeOK
    /\ which = "registers" => R!TypeOK
    /\ which = "user" => U!TypeOK

(* heap_alloc and heap_free keep the list of all blocks tiling the heap,   *)
(* the free list exact, in address order and fully merged, and every page  *)
(* that is handed out mapped.  malloc, free and realloc of user programs   *)
(* keep used and free blocks a partition of theirs, until one of the two   *)
(* merges that UserHeap names has run.                                     *)
HeapListsExact ==
    /\ which = "heap" => H!BlocksTile /\ H!FreeListExact /\ H!UsedIsMapped
    /\ which = "user" => U!HeapPartitioned

(* heap_alloc and heap_free implement HeapSpec: no two blocks overlap.     *)
ImplementsHeap == H!ImplementsHeap

(* fork, execv, page faults and the release of a task keep every page with *)
(* one owner, reached through one entry; CPUs run on the tables their task *)
(* names; io_remap gives every driver pages of its own, mapped to its      *)
(* registers, until io_unmap.                                              *)
MappingsOwned ==
    /\ which = "spaces" => A!FramesOwnedOnce /\ A!RootLoaded
    /\ which = "registers" => R!WindowsExact

(* fork, execv, page faults and the release of a task implement SpaceSpec: *)
(* every process has memory of its own, a child a copy of its parent's.    *)
ImplementsSpaces == A!ImplementsSpaces
=============================================================================
