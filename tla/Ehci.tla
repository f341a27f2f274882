-------------------------------- MODULE Ehci --------------------------------
(***************************************************************************)
(* The EHCI driver, src/src/machine/ehci.c: one controller, the scan of    *)
(* its root ports at boot, the requests, the kernel thread that runs them  *)
(* one at a time, the asynchronous list of queue heads, and the hardware.  *)
(*                                                                         *)
(* As in Uhci the thread holds hc->lock whenever thread.pc # "idle", and a *)
(* request in "queued" has its wait queue locked.  What differs: each      *)
(* endpoint has a queue head (QH) of its own on the asynchronous list, a   *)
(* bulk request runs in three phases on two of them, and an enumeration    *)
(* that fails gives its address back.                                      *)
(***************************************************************************)
EXTENDS Integers, Sequences, FiniteSets, SequencesExt

CONSTANTS
    NPorts,      \* hc->port_num
    Readers,     \* the tasks that read or write the disks after the scan
    MaxPacket,   \* dev->max_packet_size, in units
    Sizes,       \* the lengths of transfers, in units
    Repertoires  \* what may be plugged in, what may go wrong, who reads

None == "none"
scanner == "scanner"                  \* the init task in ehci_initial_scan
Ports == 1 .. NPorts
Submitters == Readers \cup {scanner}

QH(p, ep) == <<p, ep>>                \* a queue head of the device on port p
default_control_qh == QH(0, "control")
NoQH == QH(0, None)

VARIABLES
    world,     \* the member of Repertoires this behaviour is about
    hc,        \* [next_addr, ports], ports[p]: the disk's address, or 0
    qhs,       \* the asynchronous list after the dummy QH
    live,      \* the queue heads that are allocated
    points,    \* QH -> the submitter whose qTDs its next_qtd leads to
    stalled,   \* the queue heads whose overlay is halted
    bus,       \* port -> [kind, enabled, addr]: the devices themselves
    scan,      \* [port, step, dev, asked]: ehci_enumerate_device
    req,       \* submitter -> its request
    queue,     \* hc->req_queue
    active,    \* hc->active_req
    thread     \* [pc, req, next]: ehci_kernel_thread

evars == <<world, hc, qhs, live, points, stalled, bus, scan, req, queue, active, thread>>
lists == <<qhs, live, points, stalled>>
ours == <<req, queue, active, thread>>

AllQHs == {QH(p, ep) : p \in 0 .. NPorts, ep \in {"control", "in", "out"}}

NoRequest == [st |-> None, op |-> None, port |-> 0, data |-> 0, phase |-> 0,
              qtds |-> 0, err |-> FALSE, status |-> 0]
Idle == [pc |-> "idle", req |-> None, next |-> "idle"]

IsBulk(r) == r.op \in {"read", "write", "capacity"}

(* The queue head a phase of the request runs on, if it could be created:  *)
(* the command goes out, the status comes in, the data go as the request   *)
(* says.                                                                   *)
phase_qh(r, phase) ==
    LET out == phase = 0 \/ (phase = 1 /\ r.op = "write")
        q   == IF IsBulk(r) THEN QH(r.port, IF out THEN "out" ELSE "in")
               ELSE QH(r.port, "control")
    IN  IF q \in live THEN q ELSE NoQH

(* ehci_build_request: how many qTDs each phase has.  A control transfer   *)
(* is one phase: setup, data if any, status.                               *)
phase_qtds(r, phase) ==
    IF ~IsBulk(r) THEN (IF r.data > 0 THEN 3 ELSE 2)
    ELSE IF phase = 1 THEN (r.data + MaxPacket - 1) \div MaxPacket ELSE 1

-----------------------------------------------------------------------------
submit(s, op, port, len) ==
    /\ req[s].st = None /\ thread.pc = "idle"
    /\ \/ /\ req' = [req EXCEPT ![s] = [NoRequest EXCEPT !.st = "queued", !.op = op,
                                                        !.port = port, !.data = len]]
          /\ queue' = Append(queue, s)
       \/ /\ "nomem" \in world.faults
          /\ req' = [req EXCEPT ![s] = [NoRequest EXCEPT !.st = "ready", !.op = op,
                                                        !.status = -1]]
          /\ UNCHANGED queue
    /\ UNCHANGED <<active, thread>>

Sleep(s) ==
    /\ req[s].st = "queued"
    /\ req' = [req EXCEPT ![s].st = "asleep"]
    /\ UNCHANGED <<world, hc, lists, bus, scan, queue, active, thread>>

Collect(s) == req[s].st = "ready" /\ req' = [req EXCEPT ![s] = NoRequest]

ehci_submit_rw_request(s) ==
    /\ world.rw /\ scan.step = "over"
    /\ \E p \in Ports, len \in Sizes, op \in {"read", "write"} :
          hc.ports[p] # 0 /\ submit(s, op, p, len)
    /\ UNCHANGED <<world, hc, lists, bus, scan>>

RwReturns(s) ==
    /\ s # scanner /\ Collect(s)
    /\ UNCHANGED <<world, hc, lists, bus, scan, queue, active, thread>>

-----------------------------------------------------------------------------
(* The asynchronous list.  A new QH goes behind the dummy, under hc->lock. *)

Insert(new) == /\ qhs' = new \o qhs
               /\ live' = live \cup ToSet(new)

(* ehci_destroy_qh for every QH of the device.                             *)
Destroy(p) ==
    /\ thread.pc = "idle"
    /\ qhs' = SelectSeq(qhs, LAMBDA q : q[1] # p)
    /\ live' = {q \in live : q[1] # p}
    /\ stalled' = {q \in stalled : q[1] # p}
    /\ UNCHANGED points

-----------------------------------------------------------------------------
(* ehci_initial_scan and ehci_enumerate_device.                            *)

Here == scan.port

NextPort == scan' = [port |-> IF Here = NPorts THEN Here ELSE Here + 1, dev |-> 0,
                     step |-> IF Here = NPorts THEN "over" ELSE "port", asked |-> FALSE]

(* The QH for address 0; without it the controller is skipped.             *)
ehci_initial_scan ==
    /\ scan.step = "boot"
    /\ \/ scan' = [scan EXCEPT !.step = "port"] /\ Insert(<<default_control_qh>>)
       \/ /\ "nomem" \in world.faults
          /\ scan' = [scan EXCEPT !.step = "over"] /\ UNCHANGED <<qhs, live>>
    /\ UNCHANGED <<world, hc, points, stalled, bus, ours>>

(* No device on the port, or its reset fails.                              *)
SkipPort ==
    /\ scan.step = "port"
    /\ bus[Here].kind = None \/ "reset" \in world.faults
    /\ NextPort
    /\ UNCHANGED <<world, hc, lists, bus, ours>>

ehci_port_reset ==
    /\ scan.step = "port" /\ bus[Here].kind # None
    /\ bus' = [bus EXCEPT ![Here].enabled = TRUE]
    /\ scan' = [scan EXCEPT !.step = "desc8"]
    /\ UNCHANGED <<world, hc, lists, ours>>

(* dev = NULL, hence the default control QH, until the address is set.     *)
ehci_submit_control_request ==
    /\ scan.step \in {"desc8", "setaddr", "desc18", "conf4", "conf", "setconf"}
    /\ ~scan.asked
    /\ submit(scanner, scan.step, IF scan.step \in {"desc8", "setaddr"} THEN 0 ELSE Here,
              IF scan.step \in {"setaddr", "setconf"} THEN 0 ELSE 1)
    /\ scan' = [scan EXCEPT !.asked = TRUE]
    /\ UNCHANGED <<world, hc, lists, bus>>

ehci_submit_scsi_command ==
    /\ scan.step = "capacity" /\ ~scan.asked
    /\ submit(scanner, "capacity", Here, 1)
    /\ scan' = [scan EXCEPT !.asked = TRUE]
    /\ UNCHANGED <<world, hc, lists, bus>>

Answered(step) ==
    /\ scan.step = step /\ scan.asked /\ Collect(scanner)
    /\ UNCHANGED <<world, bus, queue, active, thread>>

Granted(step) == Answered(step) /\ req[scanner].status = 0
Refused(step) == Answered(step) /\ req[scanner].status < 0

Ask(step) == scan' = [scan EXCEPT !.step = step, !.asked = FALSE]

GiveAddressBack == hc' = [hc EXCEPT !.next_addr = @ - 1]

(* The label err: queue heads and dev are freed, the address is reclaimed. *)
Err == Destroy(Here) /\ GiveAddressBack /\ NextPort

RefusedEarly ==
    \/ Refused("desc8") /\ NextPort /\ UNCHANGED <<hc, lists>>
    \/ Refused("setaddr") /\ GiveAddressBack /\ NextPort /\ UNCHANGED lists

RefusedLate ==
    \E step \in {"desc18", "conf4", "conf", "setconf", "capacity"} : Refused(step) /\ Err

(* kmalloc(dev), dev->address = hc->next_addr++.                           *)
GotDescriptor8 ==
    /\ Granted("desc8") /\ UNCHANGED lists
    /\ \/ /\ scan' = [scan EXCEPT !.step = "setaddr", !.asked = FALSE, !.dev = hc.next_addr]
          /\ hc' = [hc EXCEPT !.next_addr = @ + 1]
       \/ "nomem" \in world.faults /\ NextPort /\ UNCHANGED hc

(* The control QH at the new address; without it the address is returned.  *)
GotAddress ==
    /\ Granted("setaddr") /\ UNCHANGED <<points, stalled>>
    /\ \/ Ask("desc18") /\ Insert(<<QH(Here, "control")>>) /\ UNCHANGED hc
       \/ "nomem" \in world.faults /\ NextPort /\ GiveAddressBack /\ UNCHANGED <<qhs, live>>

GotDescriptor18 == Granted("desc18") /\ Ask("conf4") /\ UNCHANGED <<hc, lists>>

GotLength ==
    /\ Granted("conf4")
    /\ \/ Ask("conf") /\ UNCHANGED <<hc, lists>>
       \/ "nomem" \in world.faults /\ Err

(* The descriptors are searched for a Mass Storage interface; its bulk     *)
(* endpoints get their queue heads, as far as there is memory for them.    *)
GotConfiguration ==
    /\ Granted("conf")
    /\ \/ bus[Here].kind = "other" /\ Err
       \/ /\ bus[Here].kind # "other" /\ Ask("setconf")
          /\ \E eps \in IF "nomem" \in world.faults THEN {<<>>, <<"in">>, <<"out">>, <<"in", "out">>}
                                                   ELSE {<<"in", "out">>} :
                Insert([i \in 1 .. Len(eps) |-> QH(Here, eps[Len(eps) + 1 - i])])
          /\ UNCHANGED <<hc, points, stalled>>

GotConfigured == Granted("setconf") /\ Ask("capacity") /\ UNCHANGED <<hc, lists>>

GotCapacity ==
    /\ Granted("capacity")
    /\ IF bus[Here].kind = "odd"
       THEN Err
       ELSE NextPort /\ hc' = [hc EXCEPT !.ports[Here] = scan.dev] /\ UNCHANGED lists

Scan ==
    \/ ehci_initial_scan \/ SkipPort \/ ehci_port_reset
    \/ ehci_submit_control_request \/ ehci_submit_scsi_command
    \/ RefusedEarly \/ RefusedLate
    \/ GotDescriptor8 \/ GotAddress \/ GotDescriptor18 \/ GotLength
    \/ GotConfiguration \/ GotConfigured \/ GotCapacity

-----------------------------------------------------------------------------
(* ehci_kernel_thread, one pass under hc->lock.                            *)

(* The last qTD of the phase under way is no longer Active.                *)
PhaseOver == active # None /\ req[active].qtds = 0
NextPhase == req[active].phase + 1
LastPhase(r) == r.phase = IF IsBulk(r) THEN 2 ELSE 0

Clear(r) == [q \in AllQHs |-> IF points[q] = r THEN None ELSE points[q]]

(* The next phase of a bulk request is put on its own queue head.          *)
AdvancePhase ==
    /\ thread.pc = "idle" /\ PhaseOver /\ ~req[active].err /\ ~LastPhase(req[active])
    /\ phase_qh(req[active], NextPhase) # NoQH
    /\ points' = [Clear(active) EXCEPT ![phase_qh(req[active], NextPhase)] = active]
    /\ req' = [req EXCEPT ![active].phase = NextPhase,
                          ![active].qtds = phase_qtds(req[active], NextPhase)]
    /\ UNCHANGED <<world, hc, qhs, live, stalled, bus, scan, queue, active, thread>>

(* The request ends: the last phase is over, one failed, or the next has   *)
(* no queue head.  Its queue heads are cleared before its qTDs are freed.  *)
Complete ==
    /\ thread.pc = "idle" /\ PhaseOver
    /\ \/ req[active].err \/ LastPhase(req[active])
       \/ phase_qh(req[active], NextPhase) = NoQH
    /\ req' = [req EXCEPT ![active].status =
                 IF ~req[active].err /\ LastPhase(req[active]) THEN 0 ELSE -1]
    /\ points' = Clear(active)
    /\ active' = None
    /\ thread' = [pc |-> "wake", req |-> active, next |-> "start"]
    /\ UNCHANGED <<world, hc, qhs, live, stalled, bus, scan, queue>>

Wake ==
    /\ thread.pc = "wake" /\ req[thread.req].st = "asleep"
    /\ req' = [req EXCEPT ![thread.req].st = "ready"]
    /\ thread' = [thread EXCEPT !.pc = "unlock"]
    /\ UNCHANGED <<world, hc, lists, bus, scan, queue, active>>

WakeUnlock ==
    /\ thread.pc = "unlock"
    /\ thread' = [Idle EXCEPT !.pc = thread.next]
    /\ UNCHANGED <<world, hc, lists, bus, scan, req, queue, active>>

(* The first of the queue is built and started on its queue head, or fails *)
(* for want of pages or of a queue head.                                   *)
StartNext ==
    /\ thread.pc = "start" \/ (thread.pc = "idle" /\ ~PhaseOver)
    /\ active = None /\ queue # <<>>
    /\ queue' = Tail(queue)
    /\ LET r == Head(queue)
           q == phase_qh(req[r], 0)
       IN \/ /\ q # NoQH
             /\ req' = [req EXCEPT ![r].phase = 0, ![r].qtds = phase_qtds(req[r], 0)]
             /\ points' = [points EXCEPT ![q] = r]
             /\ active' = r /\ thread' = Idle
          \/ /\ q = NoQH \/ "nomem" \in world.faults
             /\ req' = [req EXCEPT ![r].status = -1]
             /\ thread' = [pc |-> "wake", req |-> r, next |-> "idle"]
             /\ UNCHANGED <<points, active>>
    /\ UNCHANGED <<world, hc, qhs, live, stalled, bus, scan>>

NothingQueued ==
    /\ thread.pc = "start" /\ queue = <<>>
    /\ thread' = Idle
    /\ UNCHANGED <<world, hc, lists, bus, scan, req, queue, active>>

Thread == AdvancePhase \/ Complete \/ Wake \/ WakeUnlock \/ StartNext \/ NothingQueued

-----------------------------------------------------------------------------
(* The controller walks the asynchronous list; the devices (hardware).     *)

Running(q) == q \in ToSet(qhs) /\ points[q] = active /\ active # None
              /\ req[active].qtds > 0 /\ ~req[active].err /\ q \notin stalled

Answering(a) == {p \in Ports : bus[p].enabled /\ bus[p].addr = a}

Transfer ==
    /\ \E q \in AllQHs : Running(q)
    /\ req' = [req EXCEPT ![active].qtds = @ - 1]
    /\ bus' = IF req[active].op = "setaddr" /\ req[active].qtds = 1
              THEN [p \in Ports |-> IF p \in Answering(0) THEN [bus[p] EXCEPT !.addr = scan.dev]
                                                          ELSE bus[p]]
              ELSE bus
    /\ UNCHANGED <<world, hc, lists, scan, queue, active, thread>>

(* A qTD ends in error: the queue head halts and stays on it.              *)
TransferFails ==
    /\ \E q \in AllQHs :
          /\ Running(q)
          /\ \/ "bad" \in world.faults
             \/ "flaky" \in world.faults /\ req[active].op \in {"read", "write"}
          /\ stalled' = stalled \cup {q}
    /\ req' = [req EXCEPT ![active].err = TRUE, ![active].qtds = IF @ = 1 THEN 0 ELSE @]
    /\ UNCHANGED <<world, hc, qhs, live, points, bus, scan, queue, active, thread>>

-----------------------------------------------------------------------------
Init ==
    /\ world \in Repertoires
    /\ hc = [next_addr |-> 1, ports |-> [p \in Ports |-> 0]]
    /\ qhs = <<>> /\ live = {} /\ points = [q \in AllQHs |-> None] /\ stalled = {}
    /\ bus \in [Ports -> [kind : world.kinds, enabled : {FALSE}, addr : {0}]]
    /\ scan = [port |-> 1, step |-> "boot", dev |-> 0, asked |-> FALSE]
    /\ req = [s \in Submitters |-> NoRequest]
    /\ queue = <<>> /\ active = None /\ thread = Idle

Next ==
    \/ Scan \/ Thread \/ Transfer \/ TransferFails
    \/ \E s \in Submitters : Sleep(s)
    \/ \E s \in Readers : ehci_submit_rw_request(s) \/ RwReturns(s)

Fairness ==
    /\ WF_evars(Thread) /\ WF_evars(Transfer) /\ WF_evars(Scan)
    /\ \A s \in Submitters : WF_evars(Sleep(s))

Spec == Init /\ [][Next]_evars
FairSpec == Spec /\ Fairness

-----------------------------------------------------------------------------
(* Types of the requests and of the thread.                                *)
TypeOK ==
    /\ hc.next_addr \in 1 .. NPorts + 1 /\ live \subseteq AllQHs
    /\ \A s \in Submitters : req[s].st \in {None, "queued", "asleep", "ready"}
    /\ active \in Submitters \cup {None}
    /\ thread.pc \in {"idle", "wake", "unlock", "start"}

(* The request queue, as for UHCI: a request whose submitter waits is in   *)
(* one place, and status 0 means that its last phase has run.              *)
RequestsSound ==
    \A s \in Submitters :
       /\ LET places == Cardinality({i \in 1 .. Len(queue) : queue[i] = s})
                        + (IF active = s THEN 1 ELSE 0)
                        + (IF thread.req = s /\ thread.pc = "wake" THEN 1 ELSE 0)
          IN  places = (IF req[s].st \in {"queued", "asleep"} THEN 1 ELSE 0)
       /\ req[s].st = "ready" /\ req[s].status = 0 =>
             req[s].qtds = 0 /\ ~req[s].err /\ LastPhase(req[s])

(* The asynchronous list the controller walks: it holds every allocated    *)
(* queue head once and no freed one, and a queue head leads to qTDs only   *)
(* while their request is the active one (ehci_destroy_qh, Complete).      *)
AsyncListSound ==
    /\ ToSet(qhs) = live /\ Len(qhs) = Cardinality(live)
    /\ \A q \in AllQHs : points[q] # None => points[q] = active /\ q \in live
    /\ \A p \in Ports : hc.ports[p] # 0 => QH(p, "control") \in live

(* ehci_enumerate_device: two devices never answer at the same address     *)
(* other than 0, as long as no port was given up: the address of a device  *)
(* that already took it is returned and given to the next one.             *)
GivenUp == {p \in Ports : /\ bus[p].enabled /\ hc.ports[p] = 0
                          /\ p # Here \/ scan.step = "over"}

AddressesDistinct ==
    GivenUp = {} =>
       \A p, q \in Ports : p # q /\ bus[p].addr = bus[q].addr => bus[p].addr = 0

(* A request that was submitted returns, unless it runs on a queue head    *)
(* that an error has halted: nothing in the driver restarts one.           *)
Jammed == active # None /\ \E q \in stalled : points[q] = active

Returns(s) == req[s].st = "queued" ~> (req[s].st = "ready" \/ Jammed)
SubmitterReturns == \A s \in Submitters : Returns(s)
=============================================================================
