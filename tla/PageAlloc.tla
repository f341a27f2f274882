------------------------------ MODULE PageAlloc ------------------------------
(***************************************************************************)
(* The physical page allocator of src/src/mm/mm.c.                         *)
(*                                                                         *)
(* The boot loader's memory map gives a table of areas pais[1..npai]; each *)
(* area caches how many of its pages are free (fpp) and the lowest free    *)
(* one (nfpa).  The truth is the byte table _mrt_start: 0 = free, 1..0xfe  *)
(* = number of references, 0xff = not usable memory.  Addresses are page   *)
(* numbers (the code's addr >> 12).  Every operation runs under mm.lock    *)
(* (or before the other cores are up), so each one is a single action.     *)
(***************************************************************************)
EXTENDS Integers, FiniteSets, Sequences, Minimum

CONSTANTS
    Regions,   \* the available multiboot entries: a sequence of [spa, epa]
    KEnd,      \* first page behind the kernel image and the reference table
    NPages,    \* mm.hpa >> 12
    RefMax,    \* 0xfe, the largest reference count
    Garbage,   \* bytes the never-written tail of _mrt_start may hold
    MaxRun     \* bound: longest run asked of alloc_n_pages_4k

Reserved == RefMax + 1                                  \* the code's 0xff
Areas    == DOMAIN Regions
Page     == 0 .. NPages - 1

ASSUME BootAssumption ==
    /\ Regions \in Seq([spa : Nat, epa : Nat])
    /\ KEnd \in Nat /\ NPages \in Nat /\ MaxRun \in Nat
    /\ RefMax \in Nat \ {0}
    /\ Garbage \subseteq 0 .. Reserved
    /\ \A i \in Areas : Regions[i].spa < Regions[i].epa /\ Regions[i].epa <= NPages
    /\ \A i, j \in Areas : i < j => Regions[i].epa <= Regions[j].spa

VARIABLES
    mrt,       \* _mrt_start
    fpp,       \* pais[i].fpp
    nfpa,      \* pais[i].nfpa
    got,       \* the pages the last call returned ({} when it returned 0)
    halted     \* "no", or the reason halt() stopped the machine

vars == <<mrt, fpp, nfpa, got, halted>>

-----------------------------------------------------------------------------
(* Boot: get_total_memory and set_mrt_table.                               *)

Epa(i) == Regions[i].epa

(* An area that straddles KEnd is cut; one below it keeps its bounds.      *)
Spa(i) == IF Regions[i].spa < KEnd /\ KEnd < Epa(i) THEN KEnd ELSE Regions[i].spa

PagesOf(i) == Spa(i) .. Epa(i) - 1

\* mutation: an area below the kernel's end keeps its unsigned difference
BootFpp_NoCut(i) == Epa(i) - (IF Epa(i) <= KEnd THEN KEnd ELSE Spa(i))

\* mutation: the boot count includes the page behind the area
BootFpp_OneMore(i) == IF Epa(i) <= KEnd THEN 0 ELSE Epa(i) - Spa(i) + 1

BootFpp(i) == IF Epa(i) <= KEnd THEN 0 ELSE Epa(i) - Spa(i)

(* memset 0xff up to KEnd and over the holes between areas, memset 0 over  *)
(* the areas; nothing writes the bytes behind the last area (Unwritten).   *)
Unwritten ==
    {p \in Page : p >= KEnd /\ \A i \in Areas : p >= Epa(i)}

BootByte(p) ==
    IF p >= KEnd /\ \E i \in Areas : p \in PagesOf(i) THEN 0 ELSE Reserved

Init ==
    /\ \E tail \in [Unwritten -> Garbage] :
         mrt = [p \in Page |-> IF p \in Unwritten THEN tail[p] ELSE BootByte(p)]
    /\ fpp = [i \in Areas |-> BootFpp(i)]
    /\ nfpa = [i \in Areas |-> Spa(i)]
    /\ got = {}
    /\ halted = "no"

-----------------------------------------------------------------------------
Halt(why) ==
    /\ halted' = why
    /\ got' = {}
    /\ UNCHANGED <<mrt, fpp, nfpa>>

(* Both allocators finish alike: the pages `take` of area i are referenced *)
(* once, fpp drops and, unless the area is exhausted, nfpa is searched     *)
(* again from `from`; not finding a free page there halts the machine.     *)
Take(i, take, from) ==
    LET after == [p \in Page |-> IF p \in take THEN mrt[p] + 1 ELSE mrt[p]]
        left  == fpp[i] - Cardinality(take)
        seen  == {p \in from .. Epa(i) - 1 : after[p] = 0}
    IN  /\ mrt' = after
        /\ fpp' = [fpp EXCEPT ![i] = left]
        /\ IF left = 0
             THEN UNCHANGED <<nfpa, halted>>
             ELSE IF seen = {}
                    THEN halted' = "scan" /\ UNCHANGED nfpa
                    ELSE nfpa' = [nfpa EXCEPT ![i] = Lowest(seen)] /\ UNCHANGED halted
        /\ got' = take

(* alloc_page_4k: the cached lowest page of the first area with free pages *)
AllocPage ==
    /\ halted = "no"
    /\ LET open == {i \in Areas : fpp[i] > 0}
       IN  IF open = {} THEN Halt("oom")
           ELSE Take(Lowest(open), {nfpa[Lowest(open)]}, nfpa[Lowest(open)])

\* mutation: the run search stops one page short
Runs_OneShort(i, n) ==
    {r \in nfpa[i] .. Epa(i) - n : \A p \in r .. r + n - 2 : mrt[p] = 0}

(* the starts of the runs of n free pages of area i, from nfpa upwards     *)
Runs(i, n) ==
    {r \in nfpa[i] .. Epa(i) - n : \A p \in r .. r + n - 1 : mrt[p] = 0}

(* alloc_n_pages_4k: the first run of n free pages, 0 when there is none   *)
AllocRun(n) ==
    /\ halted = "no"
    /\ LET fits == {i \in Areas : fpp[i] >= n /\ Runs(i, n) # {}}
       IN  IF n = 0 \/ fits = {}
             THEN got' = {} /\ UNCHANGED <<mrt, fpp, nfpa, halted>>
             ELSE LET i == Lowest(fits)
                      r == Lowest(Runs(i, n))
                  IN  Take(i, r .. r + n - 1, nfpa[i])

\* mutation: nfpa takes the minimum even when the area was exhausted
NextFree_StaleMin(i, freed) ==
    IF freed = {} \/ nfpa[i] < Lowest(freed) THEN nfpa[i] ELSE Lowest(freed)

(* nfpa after the pages `freed` came back: a stale nfpa of an exhausted    *)
(* area does not count.                                                    *)
NextFree(i, freed) ==
    IF freed = {} \/ (fpp[i] > 0 /\ nfpa[i] < Lowest(freed))
    THEN nfpa[i] ELSE Lowest(freed)

(* free_n_pages_4k, and with n = 1 the decrease_reference_page_4k of       *)
(* kfree: n references are dropped; a page whose count reaches 0 returns   *)
(* to its area.  A page that was not allocated, or that lies in no area,   *)
(* halts the machine.                                                      *)
Release(a, n) ==
    /\ halted = "no"
    /\ LET P      == a .. a + n - 1
           bad(p) == \/ p >= NPages
                     \/ mrt[p] \in {0, Reserved}
                     \/ mrt[p] = 1 /\ \A i \in Areas : p \notin PagesOf(i)
           freed(i) == {p \in P \cap PagesOf(i) : mrt[p] = 1}
       IN  IF \E p \in P : bad(p) THEN Halt("misuse")
           ELSE /\ mrt' = [p \in Page |-> IF p \in P THEN mrt[p] - 1 ELSE mrt[p]]
                /\ fpp' = [i \in Areas |-> fpp[i] + Cardinality(freed(i))]
                /\ nfpa' = [i \in Areas |-> NextFree(i, freed(i))]
                /\ got' = {}
                /\ UNCHANGED halted

(* add_reference_page_4k: a count at 0xfe stays there.                     *)
AddReference(p) ==
    /\ halted = "no"
    /\ IF mrt[p] \in {0, Reserved} THEN Halt("misuse")
       ELSE /\ mrt' = [mrt EXCEPT ![p] = IF @ = RefMax THEN @ ELSE @ + 1]
            /\ got' = {}
            /\ UNCHANGED <<fpp, nfpa, halted>>

Next ==
    \/ AllocPage
    \/ \E n \in 0 .. MaxRun : AllocRun(n)
    \/ \E a \in 0 .. NPages, n \in 1 .. MaxRun : Release(a, n)
    \/ \E p \in Page : AddReference(p)

Spec == Init /\ [][Next]_vars

-----------------------------------------------------------------------------
FreeOf(i) == {p \in PagesOf(i) : mrt[p] = 0}

(* Type invariant of the reference table and the area table.               *)
TypeOK ==
    /\ mrt \in [Page -> 0 .. Reserved]
    /\ fpp \in [Areas -> Nat]
    /\ nfpa \in [Areas -> Nat]
    /\ got \subseteq Page
    /\ halted \in {"no", "oom", "scan", "misuse"}

(* The two caches of every area agree with the reference table: fpp counts *)
(* its free pages and, while there are any, nfpa is the lowest of them.    *)
CachesExact ==
    \A i \in Areas :
        /\ fpp[i] = Cardinality(FreeOf(i))
        /\ fpp[i] > 0 => /\ nfpa[i] \in FreeOf(i)
                         /\ \A q \in FreeOf(i) : nfpa[i] <= q

(* The halt() calls behind the two searches for the next free page (lines  *)
(* 116 and 148) are never reached: a positive fpp always finds a page.     *)
ScanNeverFails == halted # "scan"

(* Whatever the history of allocations and releases, the pages a call      *)
(* hands out were all free, are one contiguous run of one area and are now *)
(* referenced exactly once; no other page's count moves with them.         *)
HandsOutFreePages ==
    [][got' # {} =>
         /\ \E i \in Areas : got' \subseteq PagesOf(i)
         /\ \A p \in got' : mrt[p] = 0 /\ mrt'[p] = 1
         /\ \A p, q \in got' : \A r \in p .. q : r \in got'
         /\ \A p \in Page \ got' : mrt'[p] = mrt[p]]_vars
=============================================================================
