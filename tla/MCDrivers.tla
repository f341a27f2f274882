----------------------------- MODULE MCDrivers -----------------------------
(***************************************************************************)
(* The disk drivers for TLC: the two USB host controllers and the SATA     *)
(* disk.  They share no variable, so a behaviour picks one of them         *)
(* (`which`) and the others stay at their initial states.                  *)
(***************************************************************************)
EXTENDS Integers

CONSTANTS RootPorts, Readers, r1, PacketSize, Transfers,   \* USB
          Users, u1, CommandSlots, Counts              \* SATA

Usb(kinds, faults, rw) == [kinds |-> kinds, faults |-> faults, rw |-> rw]
UhciWorlds == {Usb({"disk", "odd"}, {"nomem"}, FALSE),
               Usb({"none", "other", "disk"}, {"bad"}, FALSE),
               Usb({"disk"}, {"flaky"}, TRUE)}
EhciWorlds == {Usb({"disk", "odd"}, {"nomem"}, FALSE),
               Usb({"none", "other", "disk"}, {"bad", "reset"}, FALSE),
               Usb({"disk"}, {"flaky"}, TRUE)}
AhciWorlds == {[users |-> Users, slots |-> 1, faults |-> {}],
               [users |-> Users, slots |-> 2, faults |-> {"nomem", "slow", "error"}]}

VARIABLES
    which,
    uworld, uhc, umem, ubus, uscan, ureq, uqueue, uactive, uthread, ustranded,
    eworld, ehc, eqhs, elive, epoints, estalled, ebus, escan, ereq, equeue, eactive, ethread,
    aworld, ast, aqueue, aslotreq, aci, atable, arunning, ahalted, areq, athread

U == INSTANCE Uhci WITH
        NPorts <- RootPorts, MaxPacket <- PacketSize, Sizes <- Transfers, Repertoires <- UhciWorlds,
        world <- uworld, hc <- uhc, mem <- umem, bus <- ubus, scan <- uscan, req <- ureq,
        queue <- uqueue, active <- uactive, thread <- uthread, stranded <- ustranded
E == INSTANCE Ehci WITH
        NPorts <- RootPorts, MaxPacket <- PacketSize, Sizes <- Transfers, Repertoires <- EhciWorlds,
        world <- eworld, hc <- ehc, qhs <- eqhs, live <- elive, points <- epoints,
        stalled <- estalled, bus <- ebus, scan <- escan, req <- ereq, queue <- equeue,
        active <- eactive, thread <- ethread
A == INSTANCE Ahci WITH
        NSlots <- CommandSlots, Worlds <- AhciWorlds,
        world <- aworld, st <- ast, queue <- aqueue, slotreq <- aslotreq, ci <- aci,
        table <- atable, running <- arunning, halted <- ahalted, req <- areq, thread <- athread

uvars == <<uworld, uhc, umem, ubus, uscan, ureq, uqueue, uactive, uthread, ustranded>>
evars == <<eworld, ehc, eqhs, elive, epoints, estalled, ebus, escan, ereq, equeue, eactive, ethread>>
avars == <<aworld, ast, aqueue, aslotreq, aci, atable, arunning, ahalted, areq, athread>>

DriversInit ==
    /\ which \in {"uhci", "ehci", "ahci"}
    /\ U!Init /\ E!Init /\ A!Init
    \* the two that rest start in one state
    /\ which # "uhci" => uworld.rw /\ \A p \in 1 .. RootPorts : ubus[p].kind = "disk"
    /\ which # "ehci" => eworld.rw /\ \A p \in 1 .. RootPorts : ebus[p].kind = "disk"
    /\ which # "ahci" => aworld.slots = 1

DriversNext ==
    \/ which = "uhci" /\ U!Next /\ UNCHANGED <<which, evars, avars>>
    \/ which = "ehci" /\ E!Next /\ UNCHANGED <<which, uvars, avars>>
    \/ which = "ahci" /\ A!Next /\ UNCHANGED <<which, uvars, evars>>

DriversSpec == DriversInit /\ [][DriversNext]_<<which, uvars, evars, avars>>

(* The fairness of the FairSpec of Uhci, Ehci and Ahci, each for the       *)
(* behaviours of its own.                                                  *)
Submitters == Readers \cup {"scanner"}

DriversFairSpec ==
    /\ DriversSpec
    /\ WF_uvars(which = "uhci" /\ U!Thread) /\ WF_uvars(which = "uhci" /\ U!Transfer)
    /\ WF_uvars(which = "uhci" /\ U!Scan)
    /\ WF_evars(which = "ehci" /\ E!Thread) /\ WF_evars(which = "ehci" /\ E!Transfer)
    /\ WF_evars(which = "ehci" /\ E!Scan)
    /\ \A s \in Submitters : /\ WF_uvars(which = "uhci" /\ U!Sleep(s))
                             /\ WF_evars(which = "ehci" /\ E!Sleep(s))
    /\ WF_avars(which = "ahci" /\ A!Thread) /\ WF_avars(which = "ahci" /\ A!Succeed)
    /\ \A s \in 0 .. CommandSlots - 1 : SF_avars(which = "ahci" /\ A!Execute(s))
    /\ \A u \in Users : WF_avars(which = "ahci" /\ A!Sleep(u))

-----------------------------------------------------------------------------
(* What the modules state, as properties of this composition.              *)

(* Type invariants of the controllers, requests, and threads.              *)
TypesOK == U!TypeOK /\ E!TypeOK /\ A!TypeOK

(* The request queues of the three disk drivers: as long as its submitter  *)
(* waits a request is in one place and the thread touches no other, and    *)
(* status 0 means that the hardware has executed it (ahci_submit, the      *)
(* submit functions of uhci.c and ehci.c, and the three kernel threads).   *)
RequestsSound == U!RequestsSound /\ E!RequestsSound /\ A!RequestsSound

(* What the controllers read is there and theirs: UHCI's chains cover the  *)
(* transfer and every path frees what it allocated, EHCI's asynchronous    *)
(* list holds exactly the allocated queue heads, none leading to the qTDs  *)
(* of a finished request, and AHCI executes only commands of requests that *)
(* wait, from tables that no other slot writes over, for requests of up to *)
(* eight sectors.  No two devices answer at one address, as long as no     *)
(* port is given up half-way through its enumeration.                      *)
HardwareSeesValid ==
    /\ U!ChainCovers /\ U!MemoryExact
    /\ E!AsyncListSound
    /\ A!IssuedIsWaiting /\ A!TablesDisjoint
    /\ U!AddressesDistinct /\ E!AddressesDistinct

(* Every request submitted to a disk returns, unless the hardware has      *)
(* failed in a way its driver never looks for.  The readers are alike, so  *)
(* one of them stands for all.                                             *)
SubmitterReturns ==
    /\ U!Returns("scanner") /\ U!Returns(r1)
    /\ E!Returns("scanner") /\ E!Returns(r1)
    /\ A!Returns(u1)
=============================================================================
