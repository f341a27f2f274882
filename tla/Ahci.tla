-------------------------------- MODULE Ahci --------------------------------
(***************************************************************************)
(* The AHCI driver, src/src/machine/ahci.c: one disk, the tasks that       *)
(* submit requests, the kernel thread that issues them into the command    *)
(* slots of the port and collects them, and the port itself.               *)
(*                                                                         *)
(* The thread holds dev->lock whenever thread.pc # "idle".  PxCI is        *)
(* written by both sides: the thread sets a bit by reading the register    *)
(* and writing it back, the port clears bits in between.                   *)
(***************************************************************************)
EXTENDS Integers, Sequences, FiniteSets

CONSTANTS
    Users,     \* the tasks that call ahci_block_read and ahci_block_write
    NSlots,    \* the most command slots a port has (32)
    Counts,    \* lengths of requests, in sectors
    Worlds     \* [users, slots, faults]: who submits, how many slots the port has,
               \* and what may go wrong

None == "none"
NoSlot == -1
Slots == 0 .. NSlots - 1
EntriesPerTable == 16        \* how many PRDT entries are as long as a command table

VARIABLES
    world,     \* the member of Worlds this behaviour is about
    st,        \* "new", then "ready"
    queue,     \* dev->req_queue
    slotreq,   \* dev->active
    ci,        \* PxCI, as a set of slots
    table,     \* slot -> whose command its command table holds
    running,   \* the slot the port is executing (PxTFD busy), or NoSlot
    halted,    \* the port stopped on an error
    req,       \* user -> [st, count, status, done, late, again]
    thread     \* [pc, slot, req, seen]

avars == <<world, st, queue, slotreq, ci, table, running, halted, req, thread>>

NoRequest == [st |-> None, count |-> 0, status |-> 0, done |-> FALSE,
              late |-> FALSE, again |-> FALSE]
Idle == [pc |-> "idle", slot |-> 0, req |-> None, seen |-> {}]

(* ahci_register_device: the command list is set up, then IDENTIFY runs in *)
(* slot 0 and is waited for, before any request exists.                    *)
ahci_register_device ==
    /\ st = "new" /\ st' = "ready"
    /\ table' = [table EXCEPT ![0] = "identify"]
    /\ UNCHANGED <<world, queue, slotreq, ci, running, halted, req, thread>>

-----------------------------------------------------------------------------
ahci_submit(u) ==
    /\ st = "ready" /\ req[u].st = None /\ thread.pc = "idle"
    /\ \/ \E n \in Counts :
             /\ req' = [req EXCEPT ![u] = [NoRequest EXCEPT !.st = "queued", !.count = n]]
             /\ queue' = Append(queue, u)
       \/ /\ "nomem" \in world.faults
          /\ req' = [req EXCEPT ![u] = [NoRequest EXCEPT !.st = "ready", !.status = -1]]
          /\ UNCHANGED queue
    /\ UNCHANGED <<world, st, slotreq, ci, table, running, halted, thread>>

(* sleep_on_locked gives req->wq.lock, held since before the request was   *)
(* queued, back.                                                           *)
Sleep(u) ==
    /\ req[u].st = "queued"
    /\ req' = [req EXCEPT ![u].st = "asleep"]
    /\ UNCHANGED <<world, st, queue, slotreq, ci, table, running, halted, thread>>

Return(u) ==
    /\ req[u].st = "ready"
    /\ req' = [req EXCEPT ![u] = NoRequest]                       \* kfree(req)
    /\ UNCHANGED <<world, st, queue, slotreq, ci, table, running, halted, thread>>

-----------------------------------------------------------------------------
(* ahci_kernel_thread, one pass under dev->lock.                           *)

Completed(s) == slotreq[s] # None /\ s \notin ci

BeginPass ==
    /\ thread.pc = "idle"
    /\ \/ \E s \in Slots : Completed(s)
       \/ queue # <<>> /\ \E s \in Slots : s < world.slots /\ slotreq[s] = None
    /\ thread' = [Idle EXCEPT !.pc = "check"]
    /\ UNCHANGED <<world, st, queue, slotreq, ci, table, running, halted, req>>

\* mutation: one slot too many
NextSlot_Past(from, phase) ==
    IF thread.slot + 1 <= world.slots THEN [Idle EXCEPT !.pc = from, !.slot = thread.slot + 1]
                                      ELSE [Idle EXCEPT !.pc = phase]

(* The loops over the command slots of the port.                           *)
NextSlot(from, phase) ==
    IF thread.slot + 1 < world.slots THEN [Idle EXCEPT !.pc = from, !.slot = thread.slot + 1]
                                     ELSE [Idle EXCEPT !.pc = phase]

(* A slot whose bit in PxCI is clear is done.                              *)
CheckSlot ==
    /\ thread.pc = "check"
    /\ IF Completed(thread.slot)
       THEN /\ req' = [req EXCEPT ![slotreq[thread.slot]].status = 0]
            /\ slotreq' = [slotreq EXCEPT ![thread.slot] = None]
            /\ thread' = [thread EXCEPT !.pc = "wake", !.req = slotreq[thread.slot]]
       ELSE /\ thread' = NextSlot("check", "start")
            /\ UNCHANGED <<req, slotreq>>
    /\ UNCHANGED <<world, st, queue, ci, table, running, halted>>

\* mutation: wake_up_all finds the wait queue before the task is on it
Wake_NoLock ==
    /\ thread.pc = "wake"
    /\ req' = [req EXCEPT ![thread.req].st = IF @ = "asleep" THEN "ready" ELSE @]
    /\ thread' = [thread EXCEPT !.pc = "unlock"]
    /\ UNCHANGED <<world, st, queue, slotreq, ci, table, running, halted>>

(* wake_up_all: the task is ready before the lock in its request is freed. *)
Wake ==
    /\ thread.pc = "wake" /\ req[thread.req].st = "asleep"
    /\ req' = [req EXCEPT ![thread.req].st = "ready"]
    /\ thread' = [thread EXCEPT !.pc = "unlock"]
    /\ UNCHANGED <<world, st, queue, slotreq, ci, table, running, halted>>

WakeUnlock ==
    /\ thread.pc = "unlock"
    /\ thread' = NextSlot("check", "start")
    /\ UNCHANGED <<world, st, queue, slotreq, ci, table, running, halted, req>>

(* PRDT entries of a request: eight sectors each.                          *)
prdtl(count) == ((count - 1) \div 8) + 1

(* Tables lie one after the other.  A table has room for eight entries and *)
(* ahci_send clears prdtl - 1 more than that, so a request of more than    *)
(* one entry writes over the tables of the slots that follow.              *)
Spilled(s, count) ==
    {t \in Slots : t > s /\ prdtl(count) - 1 > EntriesPerTable * (t - s - 1)}

StartSlot ==
    /\ thread.pc = "start"
    /\ IF slotreq[thread.slot] # None
       THEN thread' = NextSlot("start", "idle") /\ UNCHANGED <<queue, slotreq, table>>
       ELSE IF queue = <<>>
       THEN thread' = Idle /\ UNCHANGED <<queue, slotreq, table>>
       ELSE /\ queue' = Tail(queue)
            /\ slotreq' = [slotreq EXCEPT ![thread.slot] = Head(queue)]
            /\ table' = [t \in Slots |->
                           IF t = thread.slot THEN Head(queue)
                           ELSE IF t \in Spilled(thread.slot, req[Head(queue)].count)
                           THEN "spilled" ELSE table[t]]
            /\ thread' = [thread EXCEPT !.pc = "send", !.req = Head(queue)]
    /\ UNCHANGED <<world, st, ci, running, halted, req>>

(* ahci_send waits for the port, then reads PxCI ...                       *)
SendReady ==
    /\ thread.pc = "send" /\ running = NoSlot /\ ~halted
    /\ thread' = [thread EXCEPT !.pc = "issue", !.seen = ci]
    /\ UNCHANGED <<world, st, queue, slotreq, ci, table, running, halted, req>>

(* ... or gives up after 1000000 turns; the thread ignores the -1.         *)
SendTimesOut ==
    /\ thread.pc = "send" /\ (running # NoSlot \/ halted) /\ "slow" \in world.faults
    /\ req' = [req EXCEPT ![thread.req].late = TRUE]
    /\ thread' = NextSlot("start", "idle")
    /\ UNCHANGED <<world, st, queue, slotreq, ci, table, running, halted>>

(* ... and writes it back with the bit of the slot set.                    *)
Issue ==
    /\ thread.pc = "issue"
    /\ ci' = thread.seen \cup {thread.slot}
    /\ req' = [u \in Users |-> IF \E s \in thread.seen \ ci : slotreq[s] = u
                              THEN [req[u] EXCEPT !.again = TRUE] ELSE req[u]]
    /\ thread' = NextSlot("start", "idle")
    /\ UNCHANGED <<world, st, queue, slotreq, table, running, halted>>

Thread ==
    \/ BeginPass \/ CheckSlot \/ Wake \/ WakeUnlock
    \/ StartSlot \/ SendReady \/ SendTimesOut \/ Issue

-----------------------------------------------------------------------------
(* The port: it executes issued slots one at a time.                       *)

Execute(s) ==
    /\ running = NoSlot /\ ~halted /\ s \in ci
    /\ running' = s
    /\ UNCHANGED <<world, st, queue, slotreq, ci, table, halted, req, thread>>

Succeed ==
    /\ running # NoSlot
    /\ ci' = ci \ {running} /\ running' = NoSlot
    /\ req' = IF slotreq[running] # None THEN [req EXCEPT ![slotreq[running]].done = TRUE]
                                         ELSE req
    /\ UNCHANGED <<world, st, queue, slotreq, table, halted, thread>>

(* A task file error stops the port and leaves the bit of the slot set.    *)
Fail ==
    /\ "error" \in world.faults /\ running # NoSlot
    /\ halted' = TRUE /\ running' = NoSlot
    /\ UNCHANGED <<world, st, queue, slotreq, ci, table, req, thread>>

-----------------------------------------------------------------------------
Init ==
    /\ world \in Worlds
    /\ st = "new" /\ queue = <<>>
    /\ slotreq = [s \in Slots |-> None] /\ ci = {} /\ table = [s \in Slots |-> None]
    /\ running = NoSlot /\ halted = FALSE
    /\ req = [u \in Users |-> NoRequest] /\ thread = Idle

Next ==
    \/ ahci_register_device \/ Thread \/ Succeed \/ Fail
    \/ \E s \in Slots : Execute(s)
    \/ \E u \in world.users : ahci_submit(u) \/ Sleep(u) \/ Return(u)

Fairness ==
    /\ WF_avars(Thread) /\ WF_avars(Succeed)
    /\ \A s \in Slots : SF_avars(Execute(s))
    /\ \A u \in Users : WF_avars(Sleep(u))

Spec == Init /\ [][Next]_avars
FairSpec == Spec /\ Fairness

-----------------------------------------------------------------------------
(* Types of the slots, of PxCI and of the thread.                          *)
TypeOK ==
    /\ slotreq \in [Slots -> Users \cup {None}] /\ ci \subseteq Slots
    /\ running \in Slots \cup {NoSlot}
    /\ thread.pc \in {"idle", "check", "wake", "unlock", "start", "send", "issue"}
    /\ thread.slot \in Slots

(* ahci_submit and ahci_kernel_thread: a request is on the queue, in one   *)
(* slot or being completed as long as its submitter waits, and the thread  *)
(* holds no other; status 0 means the disk executed it, unless ahci_send   *)
(* had timed out on it.                                                    *)
RequestsSound ==
    \A u \in Users :
       /\ LET places == Cardinality({i \in 1 .. Len(queue) : queue[i] = u})
                        + Cardinality({s \in Slots : slotreq[s] = u})
                        + (IF thread.pc = "wake" /\ thread.req = u THEN 1 ELSE 0)
          IN  places = (IF req[u].st \in {"queued", "asleep"} THEN 1 ELSE 0)
       /\ req[u].st = "ready" /\ req[u].status = 0 => req[u].done \/ req[u].late

(* Whatever the port executes belongs to a request that still waits: PxCI  *)
(* |= bit may issue a finished slot again, never one that was collected.   *)
IssuedIsWaiting ==
    \A s \in ci \cup (IF running = NoSlot THEN {} ELSE {running}) : slotreq[s] # None

(* The command table of an issued slot holds its own command: ahci_send    *)
(* of one slot does not write over the table of another, as long as no     *)
(* request is longer than one PRDT entry, eight sectors.                   *)
TablesDisjoint == \A s \in ci : table[s] = slotreq[s]

(* A request that was submitted returns, unless the port stops on an       *)
(* error, which ahci_kernel_thread never looks for, or PxCI |= bit issues  *)
(* the finished command again, which can repeat.                           *)
Returns(u) == req[u].st = "queued" ~> (req[u].st = "ready" \/ halted \/ req[u].again)
SubmitterReturns == \A u \in Users : Returns(u)
=============================================================================
