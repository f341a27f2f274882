-------------------------------- MODULE Uhci --------------------------------
(***************************************************************************)
(* The UHCI driver, src/src/machine/uhci.c: one controller, the scan of    *)
(* its root ports at boot, the requests that tasks submit, the kernel      *)
(* thread that runs them one at a time, and the hardware.                  *)
(*                                                                         *)
(* The thread holds hc->lock whenever pc # "idle", so a submitter, who     *)
(* needs that lock to queue, moves only while pc = "idle".  A submitter    *)
(* takes req->wq.lock before the request is visible and sleep_on_locked    *)
(* releases it, so in "queued" a wake_up_all of the request waits.         *)
(* Packets are counted, not filled: a transfer is its chain of TDs.        *)
(***************************************************************************)
EXTENDS Integers, Sequences, FiniteSets, SequencesExt

CONSTANTS
    NPorts,      \* hc->port_num
    Readers,     \* the tasks that read or write the disks after the scan
    MaxPacket,   \* dev->max_packet_size, in units
    Sizes,       \* the lengths of transfers, in units
    Repertoires  \* what may be plugged in, what may go wrong, who reads

None == "none"
scanner == "scanner"                  \* the init task in uhci_initial_scan
Ports == 1 .. NPorts
Submitters == Readers \cup {scanner}
PerPage == 3                          \* NUM_OF_TD_IN_4K_PAGE

VARIABLES
    world,     \* the member of Repertoires this behaviour is about
    hc,        \* [st, next_addr, ports], ports[p]: the address of the disk, or 0
    mem,       \* what the driver has allocated and not freed
    bus,       \* port -> [kind, enabled, addr]: the devices themselves
    scan,      \* [port, step, dev]: uhci_enumerate_device
    req,       \* submitter -> its request
    queue,     \* hc->req_queue
    active,    \* hc->active_req
    thread,    \* [pc, req, next]: uhci_kernel_thread
    stranded   \* ports given up while their device answers at address 0

uvars == <<world, hc, mem, bus, scan, req, queue, active, thread, stranded>>

NoRequest == [st |-> None, op |-> None, addr |-> 0, data |-> 0, tds |-> <<>>,
              err |-> FALSE, status |-> 0]

TD(pid, toggle, len) == [pid |-> pid, toggle |-> toggle, len |-> len]

(* The chain of a control transfer: setup, data if any, status.            *)
ControlTDs(len, dir) ==
    <<TD("setup", 0, 8)>>
    \o (IF len > 0 THEN <<TD(dir, 1, len)>> ELSE <<>>)
    \o <<TD(IF len = 0 \/ dir = "out" THEN "in" ELSE "out", 1, 0)>>

\* mutation: the last, partial packet gets no TD
td_count_RoundedDown(len) == len \div MaxPacket

td_count(len) == (len + MaxPacket - 1) \div MaxPacket

(* The chain of a bulk transfer: command block, data packets, status block.*)
BulkTDs(len, dir) ==
    LET chunk(i) == IF i < td_count(len) THEN MaxPacket ELSE len - (i - 1) * MaxPacket
    IN  <<TD("out", 0, 31)>>
        \o [i \in 1 .. td_count(len) |-> TD(dir, i % 2, chunk(i))]
        \o <<TD("in", 1, 13)>>

page_num(r) ==
    IF r.op = "rw" \/ r.op = "capacity"
    THEN (td_count(r.data) + 2 + PerPage - 1) \div PerPage
    ELSE 1

uhci_build_request(r) ==
    IF r.op = "rw" \/ r.op = "capacity"
    THEN BulkTDs(r.data, "in")
    ELSE ControlTDs(r.data, IF r.data = 0 THEN "out" ELSE "in")

-----------------------------------------------------------------------------
(* Submission.  kmalloc may fail, and then the caller sees -1 at once.     *)

Returned(op) == [NoRequest EXCEPT !.st = "ready", !.op = op, !.status = -1]

submit(s, op, addr, len) ==
    /\ req[s].st = None /\ thread.pc = "idle"
    /\ \/ /\ req' = [req EXCEPT ![s] = [NoRequest EXCEPT !.st = "queued", !.op = op,
                                                        !.addr = addr, !.data = len]]
          /\ queue' = Append(queue, s)
       \/ /\ "nomem" \in world.faults
          /\ req' = [req EXCEPT ![s] = Returned(op)]
          /\ UNCHANGED queue
    /\ UNCHANGED <<active, thread>>

(* sleep_on_locked: the task is on req->wq and off its CPU.                *)
Sleep(s) ==
    /\ req[s].st = "queued"
    /\ req' = [req EXCEPT ![s].st = "asleep"]
    /\ UNCHANGED <<world, hc, mem, bus, scan, queue, active, thread, stranded>>

(* The woken submitter reads req->status and frees the request.            *)
Collect(s) == req[s].st = "ready" /\ req' = [req EXCEPT ![s] = NoRequest]

uhci_submit_rw_request(s) ==
    /\ world.rw /\ scan.step = "over"
    /\ \E p \in Ports, len \in Sizes :
          hc.ports[p] # 0 /\ submit(s, "rw", hc.ports[p], len)
    /\ UNCHANGED <<world, hc, mem, bus, scan, stranded>>

RwReturns(s) ==
    /\ s # scanner /\ Collect(s)
    /\ UNCHANGED <<world, hc, mem, bus, scan, queue, active, thread, stranded>>

-----------------------------------------------------------------------------
(* uhci_alloc_controller and uhci_hw_init: a failure undoes the            *)
(* allocations before it.                                                  *)

Allocations == <<"hc", "frame_list", "global_qh", "idle_td">>

init_uhci_controller ==
    /\ hc.st = "new"
    /\ \/ /\ hc' = [hc EXCEPT !.st = "ready"]
          /\ mem' = [mem EXCEPT !.parts = ToSet(Allocations)]
          /\ scan' = [scan EXCEPT !.step = "port"]
       \/ /\ "nomem" \in world.faults
          /\ hc' = [hc EXCEPT !.st = "absent"]
          /\ scan' = [scan EXCEPT !.step = "over"]
          /\ UNCHANGED mem
    /\ UNCHANGED <<world, bus, req, queue, active, thread, stranded>>

-----------------------------------------------------------------------------
(* uhci_initial_scan and uhci_enumerate_device: scan.step is the answer    *)
(* the enumeration needs next, scan.dev the address given to dev.          *)

Here == scan.port

(* Give up on the port, dev and conf_buf freed, or keep the disk found.    *)
LeavePort(keep) ==
    /\ scan' = [port |-> IF Here = NPorts THEN Here ELSE Here + 1, dev |-> 0,
                step |-> IF Here = NPorts THEN "over" ELSE "port", asked |-> FALSE]
    /\ mem' = [mem EXCEPT !.devs = IF keep THEN @ ELSE @ \ {Here}, !.conf = FALSE]
    /\ stranded' = IF bus[Here].enabled /\ bus[Here].addr = 0
                   THEN stranded \cup {Here} ELSE stranded

SkipPort ==
    /\ scan.step = "port" /\ bus[Here].kind = None
    /\ LeavePort(FALSE)
    /\ UNCHANGED <<world, hc, bus, req, queue, active, thread>>

(* uhci_port_init: the reset enables the port, its device at address 0.    *)
uhci_port_init ==
    /\ scan.step = "port" /\ bus[Here].kind # None
    /\ bus' = [bus EXCEPT ![Here].enabled = TRUE]
    /\ scan' = [scan EXCEPT !.step = "desc8"]
    /\ UNCHANGED <<world, hc, mem, req, queue, active, thread, stranded>>

uhci_submit_control_request ==
    /\ scan.step \in {"desc8", "setaddr", "desc18", "conf4", "conf", "setconf"}
    /\ ~scan.asked
    /\ submit(scanner, scan.step, IF scan.step \in {"desc8", "setaddr"} THEN 0 ELSE scan.dev,
              IF scan.step \in {"setaddr", "setconf"} THEN 0 ELSE 1)
    /\ scan' = [scan EXCEPT !.asked = TRUE]
    /\ UNCHANGED <<world, hc, mem, bus, stranded>>

uhci_submit_scsi_command ==
    /\ scan.step = "capacity" /\ ~scan.asked
    /\ submit(scanner, "capacity", scan.dev, 1)
    /\ scan' = [scan EXCEPT !.asked = TRUE]
    /\ UNCHANGED <<world, hc, mem, bus, stranded>>

(* The answer to `step` is there; ret < 0 ends the enumeration.            *)
Answered(step) ==
    /\ scan.step = step /\ scan.asked /\ Collect(scanner)
    /\ UNCHANGED <<world, bus, queue, active, thread>>

Refused(step) ==
    /\ Answered(step) /\ req[scanner].status < 0
    /\ LeavePort(FALSE)
    /\ UNCHANGED hc

Granted(step) == Answered(step) /\ req[scanner].status = 0

Ask(step) == scan' = [scan EXCEPT !.step = step, !.asked = FALSE]

\* mutation: the address is taken, but the counter does not move
GotDescriptor8_AddressReused ==
    /\ Granted("desc8")
    /\ mem' = [mem EXCEPT !.devs = @ \cup {Here}]
    /\ scan' = [scan EXCEPT !.step = "setaddr", !.asked = FALSE, !.dev = hc.next_addr]
    /\ UNCHANGED <<hc, stranded>>

(* bMaxPacketSize0 is known: kmalloc(dev), dev->address = hc->next_addr++. *)
GotDescriptor8 ==
    /\ Granted("desc8")
    /\ \/ /\ mem' = [mem EXCEPT !.devs = @ \cup {Here}]
          /\ scan' = [scan EXCEPT !.step = "setaddr", !.asked = FALSE, !.dev = hc.next_addr]
          /\ hc' = [hc EXCEPT !.next_addr = @ + 1]
          /\ UNCHANGED stranded
       \/ "nomem" \in world.faults /\ LeavePort(FALSE) /\ UNCHANGED hc

GotAddress == Granted("setaddr") /\ Ask("desc18") /\ UNCHANGED <<hc, mem, stranded>>

GotDescriptor18 == Granted("desc18") /\ Ask("conf4") /\ UNCHANGED <<hc, mem, stranded>>

(* total_len is known: kmalloc(conf_buf).                                  *)
GotLength ==
    /\ Granted("conf4") /\ UNCHANGED hc
    /\ \/ Ask("conf") /\ mem' = [mem EXCEPT !.conf = TRUE] /\ UNCHANGED stranded
       \/ "nomem" \in world.faults /\ LeavePort(FALSE)

(* The descriptors are searched for a Mass Storage interface.              *)
GotConfiguration ==
    /\ Granted("conf") /\ UNCHANGED hc
    /\ IF bus[Here].kind = "other"
       THEN LeavePort(FALSE)
       ELSE Ask("setconf") /\ mem' = [mem EXCEPT !.conf = FALSE] /\ UNCHANGED stranded

GotConfigured == Granted("setconf") /\ Ask("capacity") /\ UNCHANGED <<hc, mem, stranded>>

(* block_size # 512 is refused; else hc->ports[port] = dev and the disk is *)
(* registered with the block layer.                                        *)
GotCapacity ==
    /\ Granted("capacity")
    /\ IF bus[Here].kind = "odd"
       THEN LeavePort(FALSE) /\ UNCHANGED hc
       ELSE LeavePort(TRUE) /\ hc' = [hc EXCEPT !.ports[Here] = scan.dev]

Scan ==
    \/ init_uhci_controller \/ SkipPort \/ uhci_port_init
    \/ uhci_submit_control_request \/ uhci_submit_scsi_command
    \/ GotDescriptor8 \/ GotAddress \/ GotDescriptor18 \/ GotLength
    \/ GotConfiguration \/ GotConfigured \/ GotCapacity
    \/ \E step \in {"desc8", "setaddr", "desc18", "conf4", "conf", "setconf", "capacity"} :
          Refused(step)

-----------------------------------------------------------------------------
(* uhci_kernel_thread, one pass under hc->lock.                            *)

Finished == active # None /\ req[active].tds = <<>>

\* mutation: the request stays the active one
Complete_StaysActive ==
    /\ thread.pc = "idle" /\ Finished
    /\ req' = [req EXCEPT ![active].status = IF req[active].err THEN -1 ELSE 0]
    /\ mem' = [mem EXCEPT !.pages = 0]
    /\ thread' = [pc |-> "wake", req |-> active, next |-> "start"]
    /\ UNCHANGED <<world, hc, bus, scan, queue, active, stranded>>

(* The last TD of the active request is no longer Active.                  *)
Complete ==
    /\ thread.pc = "idle" /\ Finished
    /\ req' = [req EXCEPT ![active].status = IF req[active].err THEN -1 ELSE 0]
    /\ active' = None
    /\ mem' = [mem EXCEPT !.pages = @ - page_num(req[active])]   \* uhci_destroy_request
    /\ thread' = [pc |-> "wake", req |-> active, next |-> "start"]
    /\ UNCHANGED <<world, hc, bus, scan, queue, stranded>>

(* wake_up_all: the submitter is ready before the wait queue's lock, which *)
(* lies in the request, is released.                                       *)
Wake ==
    /\ thread.pc = "wake" /\ req[thread.req].st = "asleep"
    /\ req' = [req EXCEPT ![thread.req].st = "ready"]
    /\ thread' = [thread EXCEPT !.pc = "unlock"]
    /\ UNCHANGED <<world, hc, mem, bus, scan, queue, active, stranded>>

WakeUnlock ==
    /\ thread.pc = "unlock"
    /\ thread' = [pc |-> thread.next, req |-> None, next |-> "idle"]
    /\ UNCHANGED <<world, hc, mem, bus, scan, req, queue, active, stranded>>

(* No active request: the first of the queue is built and started, or ends *)
(* at once if its TDs cannot be allocated.                                 *)
StartNext ==
    /\ thread.pc = "start" \/ (thread.pc = "idle" /\ ~Finished)
    /\ active = None /\ queue # <<>>
    /\ queue' = Tail(queue)
    /\ LET r == Head(queue) IN
       \/ /\ req' = [req EXCEPT ![r].tds = uhci_build_request(req[r])]
          /\ mem' = [mem EXCEPT !.pages = @ + page_num(req[r])]
          /\ active' = r
          /\ thread' = [pc |-> "idle", req |-> None, next |-> "idle"]
       \/ /\ "nomem" \in world.faults
          /\ req' = [req EXCEPT ![r].status = -1]
          /\ thread' = [pc |-> "wake", req |-> r, next |-> "idle"]
          /\ UNCHANGED <<mem, active>>
    /\ UNCHANGED <<world, hc, bus, scan, stranded>>

NothingQueued ==
    /\ thread.pc = "start" /\ queue = <<>>
    /\ thread' = [pc |-> "idle", req |-> None, next |-> "idle"]
    /\ UNCHANGED <<world, hc, mem, bus, scan, req, queue, active, stranded>>

Thread == Complete \/ Wake \/ WakeUnlock \/ StartNext \/ NothingQueued

-----------------------------------------------------------------------------
(* The controller and the devices (hardware).                              *)

Answering(a) == {p \in Ports : bus[p].enabled /\ bus[p].addr = a}
Running == active # None /\ req[active].tds # <<>> /\ ~req[active].err

(* One TD succeeds.  A device takes its new address after the status stage.*)
Transfer ==
    /\ Running /\ Answering(req[active].addr) # {}
    /\ req' = [req EXCEPT ![active].tds = Tail(@)]
    /\ bus' = IF req[active].op = "setaddr" /\ Len(req[active].tds) = 1
              THEN [p \in Ports |-> IF p \in Answering(0) THEN [bus[p] EXCEPT !.addr = scan.dev]
                                                          ELSE bus[p]]
              ELSE bus
    /\ UNCHANGED <<world, hc, mem, scan, queue, active, thread, stranded>>

(* One TD ends in error.  The queue head stays on a TD that failed, so     *)
(* the TDs after it remain Active.                                         *)
TransferFails ==
    /\ Running
    /\ "bad" \in world.faults \/ ("flaky" \in world.faults /\ req[active].op = "rw")
    /\ req' = [req EXCEPT ![active].err = TRUE,
                          ![active].tds = IF Len(@) = 1 THEN <<>> ELSE @]
    /\ UNCHANGED <<world, hc, mem, bus, scan, queue, active, thread, stranded>>

Hardware == Transfer \/ TransferFails

-----------------------------------------------------------------------------
Init ==
    /\ world \in Repertoires
    /\ hc = [st |-> "new", next_addr |-> 1, ports |-> [p \in Ports |-> 0]]
    /\ mem = [parts |-> {}, devs |-> {}, conf |-> FALSE, pages |-> 0]
    /\ bus \in [Ports -> [kind : world.kinds, enabled : {FALSE}, addr : {0}]]
    /\ scan = [port |-> 1, step |-> "boot", dev |-> 0, asked |-> FALSE]
    /\ req = [s \in Submitters |-> NoRequest]
    /\ queue = <<>> /\ active = None
    /\ thread = [pc |-> "idle", req |-> None, next |-> "idle"]
    /\ stranded = {}

Next ==
    \/ Scan \/ Thread \/ Hardware
    \/ \E s \in Submitters : Sleep(s)
    \/ \E s \in Readers : uhci_submit_rw_request(s) \/ RwReturns(s)

Fairness ==
    /\ WF_uvars(Thread) /\ WF_uvars(Transfer) /\ WF_uvars(Scan)
    /\ \A s \in Submitters : WF_uvars(Sleep(s))

Spec == Init /\ [][Next]_uvars
FairSpec == Spec /\ Fairness

-----------------------------------------------------------------------------
(* Types of the controller, of the requests and of the thread.             *)
TypeOK ==
    /\ hc.st \in {"new", "ready", "absent"} /\ hc.next_addr \in 1 .. NPorts + 1
    /\ \A s \in Submitters : req[s].st \in {None, "queued", "asleep", "ready"}
    /\ active \in Submitters \cup {None}
    /\ thread.pc \in {"idle", "wake", "unlock", "start"}

(* The request queue (uhci_submit_* and uhci_kernel_thread): a request is  *)
(* in one place, its submitter waits as long as the thread may write to    *)
(* it, it is never freed under the thread except in the last instruction   *)
(* of wake_up_all, and status 0 means that its whole chain has run.        *)
RequestsSound ==
    /\ \A s \in Submitters :
          LET places == Cardinality({i \in 1 .. Len(queue) : queue[i] = s})
                        + (IF active = s THEN 1 ELSE 0)
                        + (IF thread.req = s /\ thread.pc = "wake" THEN 1 ELSE 0)
          IN  places = (IF req[s].st \in {"queued", "asleep"} THEN 1 ELSE 0)
    /\ \A s \in Submitters :
          req[s].st = "ready" /\ req[s].status = 0 => req[s].tds = <<>> /\ ~req[s].err

(* uhci_build_request: the data packets of the running chain cover the     *)
(* transfer, none is longer than the endpoint takes, and the TDs fit in    *)
(* the pages allocated for them.                                           *)
ChainCovers ==
    \A s \in Submitters :
       LET tds == uhci_build_request(req[s])
           data == SelectSeq(tds, LAMBDA t : t.len <= MaxPacket /\ t.len > 0)
       IN  req[s].op \in {"rw", "capacity"} =>
              /\ FoldLeft(LAMBDA n, t : n + t.len, 0, data) = req[s].data
              /\ Len(data) = Len(tds) - 2
              /\ Len(tds) <= page_num(req[s]) * PerPage

(* uhci_hw_init, uhci_enumerate_device and uhci_destroy_request free what  *)
(* they allocated on every path: pages belong to the active request, a     *)
(* usb_device to a port that has its disk or is being enumerated, and a    *)
(* controller that could not be started leaves nothing.                    *)
MemoryExact ==
    /\ mem.pages = IF active = None THEN 0 ELSE page_num(req[active])
    /\ mem.devs = {p \in Ports : hc.ports[p] # 0}
                  \cup (IF scan.dev # 0 THEN {Here} ELSE {})
    /\ mem.conf => scan.step = "conf"
    /\ mem.parts = IF hc.st = "ready" THEN ToSet(Allocations) ELSE {}

(* uhci_enumerate_device: two devices never answer at the same address     *)
(* other than 0, unless an earlier port was given up before its device     *)
(* took an address, and so hears the SET_ADDRESS of the next.              *)
AddressesDistinct ==
    stranded = {} =>
       \A p, q \in Ports : p # q /\ bus[p].addr = bus[q].addr => bus[p].addr = 0

(* A task that submits a request is woken, unless a TD that is not the     *)
(* last of its chain failed: uhci_kernel_thread looks at the last TD only, *)
(* and then the request, and every request behind it, waits for ever.      *)
Jammed == active # None /\ req[active].err /\ req[active].tds # <<>>

Returns(s) == req[s].st = "queued" ~> (req[s].st = "ready" \/ Jammed)
SubmitterReturns == \A s \in Submitters : Returns(s)
=============================================================================
