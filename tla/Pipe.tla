-------------------------------- MODULE Pipe --------------------------------
(***************************************************************************)
(* The anonymous pipe of src/src/fs/pipe.c: a ring of PIPE_BUFSIZE bytes   *)
(* between a reading and a writing end.  vfs_read and vfs_write hold the   *)
(* end's file->lock, so each end is one sequential side, "R" or "W", and   *)
(* the release of an end comes after its last call.                        *)
(*                                                                         *)
(* Under pipe->lock a side works byte by byte; what it shares without that *)
(* lock is `single` and the two wait queues.  wake_up_all, and taking a    *)
(* queue's lock, dropping pipe->lock and going to sleep, are one step      *)
(* each: the queue's lock is held from the first to the last.              *)
(***************************************************************************)
EXTENDS Naturals

CONSTANTS
    BUFSIZE,   \* PIPE_BUFSIZE
    Lens,      \* Lens[s]: the lengths side s may ask for
    MinCalls,  \* calls of read or write a side makes before it closes, and
    MaxCalls   \* the most it makes

ASSUME PipeAssumption ==
    /\ BUFSIZE \in Nat \ {0, 1} /\ MinCalls \in Nat /\ MaxCalls \in Nat
    /\ Lens["R"] \subseteq Nat /\ Lens["W"] \subseteq Nat

Side == {"R", "W"}
Other(s) == IF s = "R" THEN "W" ELSE "R"

VARIABLES
    buf, buf_head, buf_tail,  \* the ring
    single,                   \* an end has been released
    lock,                     \* pipe->lock is taken
    asleep,                   \* asleep[s]: side s is in its wait queue
    pc, len, count, newly,    \* locals of pipe_read / pipe_write
    calls, result,            \* calls begun; what the last one returned
    total                     \* total[s]: bytes that passed side s; byte number n of
                              \* the stream is represented by n

ring   == <<buf, buf_head, buf_tail>>
locals == <<len, count, newly>>
vars == <<ring, single, lock, asleep, pc, locals, calls, result, total>>

Init ==                                                       \* new_pipe
    /\ buf = [i \in 0 .. BUFSIZE - 1 |-> 0] /\ buf_head = 0 /\ buf_tail = 0
    /\ single = FALSE /\ lock = FALSE
    /\ asleep = [s \in Side |-> FALSE]
    /\ pc = [s \in Side |-> "idle"] /\ len = [s \in Side |-> 0]
    /\ count = [s \in Side |-> 0] /\ newly = [s \in Side |-> 0]
    /\ calls = [s \in Side |-> 0] /\ result = [s \in Side |-> 0]
    /\ total = [s \in Side |-> 0]

Goto(s, place) == pc' = [pc EXCEPT ![s] = place]

Call(s, n) ==
    /\ pc[s] = "idle" /\ calls[s] < MaxCalls
    /\ calls' = [calls EXCEPT ![s] = @ + 1]
    /\ len' = [len EXCEPT ![s] = n] /\ count' = [count EXCEPT ![s] = 0]
    /\ newly' = [newly EXCEPT ![s] = 0]
    /\ Goto(s, "lock")
    /\ UNCHANGED <<ring, single, lock, asleep, result, total>>

Lock(s) ==
    /\ pc[s] = "lock" /\ ~lock
    /\ lock' = TRUE
    /\ Goto(s, "loop")
    /\ UNCHANGED <<ring, single, asleep, locals, calls, result, total>>

\* mutation: the ring is full only when head meets tail
Blocked_NoGap(s) == buf_head = buf_tail /\ (s = "W" => total["W"] > total["R"])

(* Nothing to read, or no room to write: one place always stays empty.     *)
Blocked(s) ==
    IF s = "R" THEN buf_head = buf_tail
               ELSE (buf_head + 1) % BUFSIZE = buf_tail

\* mutation: a reader gives up at the first release it sees
Ends_AtRelease(s) == count[s] = len[s] \/ single

(* The loop ends: everything asked for, or blocked for good.               *)
Ends(s) == count[s] = len[s] \/ (Blocked(s) /\ single)

Move(s) ==
    /\ pc[s] = "loop" /\ ~Ends(s) /\ ~Blocked(s)
    /\ total' = [total EXCEPT ![s] = @ + 1]
    /\ IF s = "R"
         THEN /\ buf_tail' = (buf_tail + 1) % BUFSIZE
              /\ UNCHANGED <<buf, buf_head>>
         ELSE /\ buf' = [buf EXCEPT ![buf_head] = total["W"] + 1]
              /\ buf_head' = (buf_head + 1) % BUFSIZE
              /\ UNCHANGED buf_tail
    /\ count' = [count EXCEPT ![s] = @ + 1] /\ newly' = [newly EXCEPT ![s] = @ + 1]
    /\ UNCHANGED <<single, lock, asleep, pc, len, calls, result>>

Return(s) ==
    /\ pc[s] = "loop" /\ Ends(s)
    /\ lock' = FALSE
    /\ result' = [result EXCEPT ![s] = count[s]]
    /\ Goto(s, "idle")
    /\ UNCHANGED <<ring, single, asleep, locals, calls, total>>

(* Blocked and the other end still open (`single` has just been read): on  *)
(* to wake the other side, if this call has moved something ...            *)
Wait(s) ==
    /\ pc[s] = "loop" /\ ~Ends(s) /\ Blocked(s)
    /\ Goto(s, IF newly[s] > 0 THEN "wake" ELSE "sleep")
    /\ UNCHANGED <<ring, single, lock, asleep, locals, calls, result, total>>

\* mutation: the side that blocks does not wake the other one
Wake_None(s) ==
    /\ pc[s] = "wake"
    /\ newly' = [newly EXCEPT ![s] = 0]
    /\ Goto(s, "sleep")
    /\ UNCHANGED <<ring, single, lock, asleep, len, count, calls, result, total>>

Wake(s) ==
    /\ pc[s] = "wake"
    /\ asleep' = [asleep EXCEPT ![Other(s)] = FALSE]
    /\ newly' = [newly EXCEPT ![s] = 0]
    /\ Goto(s, "sleep")
    /\ UNCHANGED <<ring, single, lock, len, count, calls, result, total>>

(* ... and to sleep, pipe->lock dropped once the own queue is locked.      *)
Sleep(s) ==
    /\ pc[s] = "sleep"
    /\ asleep' = [asleep EXCEPT ![s] = TRUE]
    /\ lock' = FALSE
    /\ Goto(s, "asleep")
    /\ UNCHANGED <<ring, single, locals, calls, result, total>>

Woken(s) ==
    /\ pc[s] = "asleep" /\ ~asleep[s]
    /\ Goto(s, "lock")
    /\ UNCHANGED <<ring, single, lock, asleep, locals, calls, result, total>>

-----------------------------------------------------------------------------
(* pipe_release, which takes no pipe->lock: test `single`, set it, wake    *)
(* the readers, wake the writers.                                          *)
Release(s) ==
    \/ /\ pc[s] = "idle" /\ calls[s] >= MinCalls
       /\ Goto(s, IF single THEN "closed" ELSE "release")
       /\ UNCHANGED <<single, asleep>>
    \/ /\ pc[s] = "release"
       /\ single' = TRUE
       /\ Goto(s, "wake_R")
       /\ UNCHANGED asleep
    \/ /\ pc[s] = "wake_R"
       /\ asleep' = [asleep EXCEPT !["R"] = FALSE]
       /\ Goto(s, "wake_W")
       /\ UNCHANGED single
    \/ /\ pc[s] = "wake_W"
       /\ asleep' = [asleep EXCEPT !["W"] = FALSE]
       /\ Goto(s, "closed")
       /\ UNCHANGED single

Close(s) == Release(s) /\ UNCHANGED <<ring, lock, locals, calls, result, total>>

Step(s) == Lock(s) \/ Move(s) \/ Return(s) \/ Wait(s) \/ Wake(s) \/ Sleep(s) \/ Woken(s)
Act(s)  == Step(s) \/ Close(s) \/ \E n \in Lens[s] : Call(s, n)
Next == \E s \in Side : Act(s)

Spec == Init /\ [][Next]_vars

(* Each side runs its program to the end: some calls, then close.          *)
FairSpec == Spec /\ \A s \in Side : WF_vars(Act(s)) /\ SF_vars(Lock(s))

-----------------------------------------------------------------------------
Places == {"idle", "lock", "loop", "wake", "sleep", "asleep", "release", "wake_R",
           "wake_W", "closed"}

(* Type invariant of the ring and of the two sides.                        *)
TypeOK ==
    /\ buf \in [0 .. BUFSIZE - 1 -> Nat]
    /\ buf_head \in 0 .. BUFSIZE - 1 /\ buf_tail \in 0 .. BUFSIZE - 1
    /\ single \in BOOLEAN /\ lock \in BOOLEAN
    /\ asleep \in [Side -> BOOLEAN]
    /\ pc \in [Side -> Places]
    /\ len \in [Side -> Nat] /\ count \in [Side -> Nat] /\ newly \in [Side -> Nat]
    /\ calls \in [Side -> 0 .. MaxCalls] /\ result \in [Side -> Nat] /\ total \in [Side -> Nat]

(* The ring is a FIFO of at most BUFSIZE - 1 bytes: what lies between tail *)
(* and head is exactly the part of the stream written and not yet read, in *)
(* order, so no byte is lost, repeated or overwritten.                     *)
RingIsStream ==
    LET n == total["W"] - total["R"] IN
    /\ total["R"] <= total["W"] /\ n < BUFSIZE
    /\ buf_head = (buf_tail + n) % BUFSIZE
    /\ \A k \in 0 .. BUFSIZE - 1 :
         k < n => buf[(buf_tail + k) % BUFSIZE] = total["R"] + k + 1

(* End of file is not early: a read that returns short has the whole       *)
(* stream, though the writer sets `single` without pipe->lock; a write     *)
(* that returns short has filled the ring for a reader that is gone.       *)
ShortOnlyAtEnd ==
    [][\A s \in Side : Return(s) /\ result'[s] < len[s] =>
           /\ pc[Other(s)] \in {"wake_R", "wake_W", "closed"}
           /\ s = "R" => total["R"] = total["W"]
           /\ s = "W" => total["W"] = total["R"] + BUFSIZE - 1]_vars

(* One read and one write of any lengths never end with both sides asleep: *)
(* each wakes the other before it blocks.  (With more calls they may: a    *)
(* call that returns wakes nobody.)                                        *)
NotBothAsleep ==
    calls["R"] <= 1 /\ calls["W"] <= 1 => ~ (asleep["R"] /\ asleep["W"])

(* pipe_read and pipe_write: what is read is what was written, in order,   *)
(* the two ends are never both asleep, and a call moves fewer bytes than   *)
(* it was asked for only when the other side has closed its end.           *)
PipeSound == [](RingIsStream /\ NotBothAsleep) /\ ShortOnlyAtEnd

(* test_pipe.c: the child reads and prints "Child received: ...": a read   *)
(* returns once the writer has written and closed.                         *)
ReadReturns == pc["R"] = "lock" ~> pc["R"] = "idle"
=============================================================================
