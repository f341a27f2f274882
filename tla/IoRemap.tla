------------------------------- MODULE IoRemap -------------------------------
(***************************************************************************)
(* The window for device registers: io_remap and io_unmap of               *)
(* src/src/mm/mm.c, on the page tables of the kernel.  Both run under      *)
(* mm.lock, so a call is one step.  Addresses are counted in units, Unit   *)
(* of them to a page; a driver keeps the address it got and gives it back  *)
(* with the same size, as ehci.c does when the probe of a controller fails.*)
(***************************************************************************)
EXTENDS Integers, FiniteSets

CONSTANTS
    IoPages,    \* pages of the window, IO_REMAP_START to IO_REMAP_END
    Unit,       \* units in a page
    Bars,       \* physical addresses of registers
    Sizes       \* sizes of register blocks

Slot == 0 .. IoPages - 1
NotMapped == -1

VARIABLES
    pte,        \* pte[v]: the physical page at page v of the window
    held,       \* what drivers hold: [vir, phys, size]
    stop        \* rm_page_4k found nothing to remove: halt()

vars == <<pte, held, stop>>

Init == pte = [v \in Slot |-> NotMapped] /\ held = {} /\ stop = FALSE

\* pages that size units from addr on lie in
page_num(addr, size) == (size + (addr % Unit) + Unit - 1) \div Unit

Span(addr, size) == LET first == addr \div Unit IN first .. first + page_num(addr, size) - 1

\* starts of runs of n pages that are not mapped
Runs(n) == {v \in Slot : v + n <= IoPages /\ \A w \in v .. v + n - 1 : pte[w] = NotMapped}

\* mutation: the scan forgets to start again behind a mapped page
Start_NoReset(n) ==
    CHOOSE v \in Slot : pte[v] = NotMapped /\ \A w \in 0 .. v - 1 : pte[w] # NotMapped

\* the scan stops at the first run
Start(n) == CHOOSE v \in Runs(n) : \A w \in Runs(n) : v <= w

io_remap(phys, size) ==
    LET n == page_num(phys, size)
        v == Start(n)
    IN  /\ ~stop /\ Runs(n) # {}
        /\ pte' = [w \in Slot |-> IF w \in v .. v + n - 1 THEN phys \div Unit + w - v ELSE pte[w]]
        /\ held' = held \cup {[vir |-> v * Unit + (phys % Unit), phys |-> phys, size |-> size]}
        /\ UNCHANGED stop

\* no run: 0 is returned and the probe gives up
IoRemapFails(phys, size) ==
    ~stop /\ Runs(page_num(phys, size)) = {} /\ UNCHANGED vars

\* rm_page_4k for every page; one that is not mapped halts
io_unmap(d) ==
    /\ ~stop
    /\ pte' = [v \in Slot |-> IF v \in Span(d.vir, d.size) THEN NotMapped ELSE pte[v]]
    /\ stop' = (\E v \in Span(d.vir, d.size) : v \notin Slot \/ pte[v] = NotMapped)
    /\ held' = held \ {d}

Next ==
    \/ \E phys \in Bars, size \in Sizes : io_remap(phys, size) \/ IoRemapFails(phys, size)
    \/ \E d \in held : io_unmap(d)

-----------------------------------------------------------------------------
(* Type invariant of the window.                                           *)
TypeOK ==
    /\ pte \in [Slot -> Nat \cup {NotMapped}] /\ stop \in BOOLEAN
    /\ held \subseteq [vir : Nat, phys : Bars, size : Sizes]

(* Every register block a driver holds lies, unit for unit, behind the     *)
(* address io_remap gave it; no page is behind two of them, none is left   *)
(* mapped that nobody holds, and io_unmap never halts.                     *)
WindowsExact ==
    /\ ~stop
    /\ \A d \in held : \A k \in 0 .. d.size - 1 :
         pte[(d.vir + k) \div Unit] * Unit + ((d.vir + k) % Unit) = d.phys + k
    /\ \A d, e \in held : d # e => Span(d.vir, d.size) \cap Span(e.vir, e.size) = {}
    /\ {v \in Slot : pte[v] # NotMapped} = UNION {Span(d.vir, d.size) : d \in held}
=============================================================================
