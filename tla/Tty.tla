-------------------------------- MODULE Tty ---------------------------------
(***************************************************************************)
(* The terminals: the pseudo-terminal pairs of src/src/console/pty.c, the  *)
(* display server of src/src/console/kconsole.c that owns the master       *)
(* sides, and the tasks on the slave sides.                                *)
(*                                                                         *)
(* A section under pair->lock or ld->lock is one action; the line          *)
(* discipline, which holds ld->lock for a whole batch and takes pair->lock *)
(* for each echo, is one action per character.  A task in "dozing" holds   *)
(* the lock of the wait queue it is about to sleep on, so a wake_up_all of *)
(* that queue waits for it.                                                *)
(***************************************************************************)
EXTENDS Keyboard, SequencesExt

CONSTANTS
    NTtys,            \* MAX_TTYS
    Tasks,            \* the tasks on the slave sides; what they do is board.does[task]
    TtyOf,            \* task -> its terminal
    BufSize,          \* PTY_BUFSIZE
    LineMax,          \* LINE_MAX
    QueueSize,        \* LINE_QUEUE_SIZE
    MaxOut,           \* how many bytes a task writes in a behaviour
    Lengths           \* the lengths tasks read with

Ttys == 1 .. NTtys
Zero == "0"                        \* the byte that ends a line

VARIABLES
    current_tty,
    server,    \* display_server: [pc, batch, wake, at]; "ldisc" while in ldisc_input
    line,      \* tty -> ld->line_buf[0 .. line_pos)
    lines,     \* tty -> ld->completed_lines
    ring,      \* tty -> the s2m buffer
    task,      \* task -> [pc, left]
    typed,     \* tty -> the bytes its line discipline was given
    lost,      \* tty -> which of its lines were dropped, the queue being full
    got,       \* tty -> the bytes its readers were given
    shown      \* tty -> what the display server read from the master

tvars == <<current_tty, server, line, lines, ring, task, typed, lost, got, shown>>
ttyvars == <<kvars, tvars>>

Full(t) == Len(ring[t]) = BufSize - 1
Echo(t, c) == IF Full(t) THEN ring ELSE [ring EXCEPT ![t] = Append(@, <<"echo", c>>)]

-----------------------------------------------------------------------------
(* display_server.                                                         *)

(* One batch of keys: unmodified codes are collected as bytes; Alt with a  *)
(* function key switches the terminal and ends the batch, any other key    *)
(* with Alt is skipped; what was collected is then written to the master   *)
(* of the terminal that is current now.                                    *)
FunctionTty(key) == CASE key.sym = "F1" -> 1 [] key.sym = "F2" -> 2 [] OTHER -> 0

ServerKeys ==
    /\ server.pc = "poll" /\ keys # <<>>
    /\ LET stop == SelectInSeq(keys, LAMBDA k : "alt" \in k.mod /\ FunctionTty(k) \in Ttys)
           seen == IF stop = 0 THEN keys ELSE SubSeq(keys, 1, stop - 1)
           plain == SelectSeq(seen, LAMBDA k : k.mod = {})
           bytes == [i \in 1 .. Len(plain) |-> plain[i].sym]
       IN  /\ current_tty' = IF stop = 0 THEN current_tty ELSE FunctionTty(keys[stop])
           /\ server' = [server EXCEPT !.pc = IF bytes = <<>> THEN "masters" ELSE "ldisc",
                                       !.batch = bytes]
    /\ keys' = <<>>                                        \* keyboard_read
    /\ UNCHANGED <<board, kbd, wire, held, events, press, made, both,
                   line, lines, ring, task, typed, lost, got, shown>>

(* A round without keys (and, so that rounds end, not without output).     *)
NoKeys ==
    /\ server.pc = "poll" /\ keys = <<>> /\ \E t \in Ttys : ring[t] # <<>>
    /\ server' = [server EXCEPT !.pc = "masters"]
    /\ UNCHANGED <<kvars, current_tty, line, lines, ring, task, typed, lost, got, shown>>

(* ldisc_input for one character.                                          *)
Enter(t) ==
    /\ line' = [line EXCEPT ![t] = <<>>]
    /\ IF Len(lines[t]) < QueueSize - 1
       THEN /\ lines' = [lines EXCEPT ![t] = Append(@, line[t] \o <<Zero>>)]
            /\ UNCHANGED lost
       ELSE /\ lost' = [lost EXCEPT ![t] = @ \cup
                          {Cardinality({i \in 1 .. Len(typed[t]) : typed[t][i] = "nl"}) + 1}]
            /\ UNCHANGED lines
    /\ ring' = Echo(t, "nl")

Backspace(t) ==
    /\ IF line[t] = <<>>
       THEN UNCHANGED <<line, ring>>
       ELSE line' = [line EXCEPT ![t] = Front(@)] /\ ring' = Echo(t, "bs")
    /\ UNCHANGED <<lines, lost>>

Ordinary(t, c) ==
    /\ IF Len(line[t]) < LineMax - 1
       THEN line' = [line EXCEPT ![t] = Append(@, c)] /\ ring' = Echo(t, c)
       ELSE UNCHANGED <<line, ring>>
    /\ UNCHANGED <<lines, lost>>

ldisc_input ==
    /\ server.pc = "ldisc" /\ server.batch # <<>>
    /\ LET k == Head(server.batch)
           t == current_tty
       IN  /\ \/ k = "nl" /\ Enter(t)
              \/ k = "bs" /\ Backspace(t)
              \/ k \notin {"nl", "bs"} /\ Ordinary(t, k)
           /\ typed' = [typed EXCEPT ![t] = Append(@, k)]
           /\ server' = [server EXCEPT !.batch = Tail(@), !.wake = @ \/ k = "nl"]
    /\ UNCHANGED <<kvars, current_tty, task, got, shown>>

Woken(place, t) ==
    [x \in Tasks |-> IF task[x].pc = place /\ TtyOf[x] = t
                     THEN [task[x] EXCEPT !.pc = IF place = "asleep_read" THEN "read" ELSE "write"]
                     ELSE task[x]]

\* mutation: only the first reader that sleeps is woken
ldisc_done_WakeOne ==
    /\ server.pc = "ldisc" /\ server.batch = <<>>
    /\ ~\E x \in Tasks : TtyOf[x] = current_tty /\ task[x].pc = "dozing_read" /\ server.wake
    /\ task' = IF server.wake /\ \E x \in Tasks : task[x].pc = "asleep_read" /\ TtyOf[x] = current_tty
               THEN LET x == CHOOSE x \in Tasks : task[x].pc = "asleep_read" /\ TtyOf[x] = current_tty
                    IN [task EXCEPT ![x].pc = "read"]
               ELSE task
    /\ server' = [server EXCEPT !.pc = "masters", !.wake = FALSE]
    /\ UNCHANGED <<kvars, current_tty, line, lines, ring, typed, lost, got, shown>>

(* The end of ldisc_input: wake_up_all if a line was completed.            *)
ldisc_done ==
    /\ server.pc = "ldisc" /\ server.batch = <<>>
    /\ server.wake => ~\E x \in Tasks : TtyOf[x] = current_tty /\ task[x].pc = "dozing_read"
    /\ task' = IF server.wake THEN Woken("asleep_read", current_tty) ELSE task
    /\ server' = [server EXCEPT !.pc = "masters", !.wake = FALSE]
    /\ UNCHANGED <<kvars, current_tty, line, lines, ring, typed, lost, got, shown>>

(* The terminals in turn: pty_master_read takes all its ring holds.        *)
pty_master_read ==
    /\ server.pc = "masters"
    /\ LET t == server.at
       IN  /\ ring[t] # <<>> =>
                  ~\E x \in Tasks : TtyOf[x] = t /\ task[x].pc = "dozing_write"
           /\ shown' = [shown EXCEPT ![t] = @ \o ring[t]]
           /\ ring' = [ring EXCEPT ![t] = <<>>]
           /\ task' = IF ring[t] # <<>> THEN Woken("asleep_write", t) ELSE task
           /\ server' = [server EXCEPT !.pc = IF t = NTtys THEN "poll" ELSE @,
                                       !.at = IF t = NTtys THEN 1 ELSE @ + 1]
    /\ UNCHANGED <<kvars, current_tty, line, lines, typed, lost, got>>

Server == ServerKeys \/ NoKeys \/ ldisc_input \/ ldisc_done \/ pty_master_read

-----------------------------------------------------------------------------
(* The slave sides.                                                        *)

LdFree(t) == ~(server.pc = "ldisc" /\ current_tty = t)
Set(x, pc) == task' = [task EXCEPT ![x].pc = pc]

CallRead(x) ==
    /\ task[x].pc = "idle" /\ "read" \in board.does[x] /\ Set(x, "read")
    /\ UNCHANGED <<kvars, current_tty, server, line, lines, ring, typed, lost, got, shown>>

(* No complete line: the wait queue is locked, then ld->lock released.     *)
ReadEmpty(x) ==
    /\ task[x].pc = "read" /\ LdFree(TtyOf[x]) /\ lines[TtyOf[x]] = <<>>
    /\ Set(x, "dozing_read")
    /\ UNCHANGED <<kvars, current_tty, server, line, lines, ring, typed, lost, got, shown>>

\* mutation: a line longer than the caller's buffer is dropped with its rest
ReadLine_RestDropped(x) ==
    /\ task[x].pc = "read" /\ LdFree(TtyOf[x]) /\ lines[TtyOf[x]] # <<>>
    /\ \E len \in Lengths :
          LET t == TtyOf[x]
              l == Head(lines[t])
          IN  /\ got' = [got EXCEPT ![t] = @ \o SubSeq(l, 1, IF len < Len(l) THEN len ELSE Len(l))]
              /\ lines' = [lines EXCEPT ![t] = Tail(@)]
    /\ Set(x, "idle")
    /\ UNCHANGED <<kvars, current_tty, server, line, ring, typed, lost, shown>>

(* The first line, or the first len bytes of it, the rest moved down.      *)
ReadLine(x) ==
    /\ task[x].pc = "read" /\ LdFree(TtyOf[x]) /\ lines[TtyOf[x]] # <<>>
    /\ \E len \in Lengths :
          LET t == TtyOf[x]
              l == Head(lines[t])
          IN  IF Len(l) > len
              THEN /\ got' = [got EXCEPT ![t] = @ \o SubSeq(l, 1, len)]
                   /\ lines' = [lines EXCEPT ![t][1] = SubSeq(l, len + 1, Len(l))]
              ELSE /\ got' = [got EXCEPT ![t] = @ \o l]
                   /\ lines' = [lines EXCEPT ![t] = Tail(@)]
    /\ Set(x, "idle")
    /\ UNCHANGED <<kvars, current_tty, server, line, ring, typed, lost, shown>>

CallWrite(x) ==
    /\ task[x].pc = "idle" /\ "write" \in board.does[x] /\ task[x].left > 0 /\ Set(x, "write")
    /\ UNCHANGED <<kvars, current_tty, server, line, lines, ring, typed, lost, got, shown>>

(* Bytes go into the ring until it is full or the buffer is written.       *)
WriteSome(x) ==
    /\ task[x].pc = "write" /\ ~Full(TtyOf[x])
    /\ LET t == TtyOf[x]
           room == BufSize - 1 - Len(ring[t])
           n == IF task[x].left <= room THEN task[x].left ELSE room
       IN  /\ ring' = [ring EXCEPT ![t] = @ \o [i \in 1 .. n |-> <<x, MaxOut - task[x].left + i>>]]
           /\ task' = [task EXCEPT ![x] = [pc |-> IF n = @.left THEN "idle" ELSE "write",
                                           left |-> @.left - n]]
    /\ UNCHANGED <<kvars, current_tty, server, line, lines, typed, lost, got, shown>>

WriteFull(x) ==
    /\ task[x].pc = "write" /\ Full(TtyOf[x])
    /\ Set(x, "dozing_write")
    /\ UNCHANGED <<kvars, current_tty, server, line, lines, ring, typed, lost, got, shown>>

(* sleep_on_locked.                                                        *)
Doze(x) ==
    /\ task[x].pc \in {"dozing_read", "dozing_write"}
    /\ Set(x, IF task[x].pc = "dozing_read" THEN "asleep_read" ELSE "asleep_write")
    /\ UNCHANGED <<kvars, current_tty, server, line, lines, ring, typed, lost, got, shown>>

Slave(x) == ReadEmpty(x) \/ ReadLine(x) \/ WriteSome(x) \/ WriteFull(x) \/ Doze(x)

-----------------------------------------------------------------------------
Init ==                            \* pty_init, and the masters are open
    /\ KeyboardInit
    /\ current_tty = 1
    /\ server = [pc |-> "poll", batch |-> <<>>, wake |-> FALSE, at |-> 1]
    /\ line = [t \in Ttys |-> <<>>] /\ lines = [t \in Ttys |-> <<>>]
    /\ ring = [t \in Ttys |-> <<>>]
    /\ task = [x \in Tasks |-> [pc |-> "idle", left |-> MaxOut]]
    /\ typed = [t \in Ttys |-> <<>>] /\ lost = [t \in Ttys |-> {}]
    /\ got = [t \in Ttys |-> <<>>] /\ shown = [t \in Ttys |-> <<>>]

Keyboard == (handle_scancode \/ \E k \in board.keys : KeyEvent(k)) /\ UNCHANGED tvars

Next == Keyboard \/ Server \/ \E x \in Tasks : CallRead(x) \/ CallWrite(x) \/ Slave(x)

Spec == Init /\ [][Next]_ttyvars

-----------------------------------------------------------------------------
(* Types of the buffers: a line fits its buffer with its \0, the ring and  *)
(* the queue of lines their arrays.                                        *)
TypeOK ==
    /\ \A t \in Ttys : /\ Len(line[t]) <= LineMax - 1
                       /\ Len(lines[t]) <= QueueSize - 1 /\ Len(ring[t]) <= BufSize - 1
    /\ server.pc \in {"poll", "ldisc", "masters"}

(* The lines of what was typed, each edited and ended by \0.               *)
Edited(input) ==
    FoldLeft(LAMBDA acc, k :
                IF k = "nl" THEN [all |-> Append(acc.all, acc.cur \o <<Zero>>), cur |-> <<>>]
                ELSE IF k = "bs" THEN [acc EXCEPT !.cur = IF @ = <<>> THEN @ ELSE Front(@)]
                ELSE [acc EXCEPT !.cur = IF Len(@) < LineMax - 1 THEN Append(@, k) ELSE @],
             [all |-> <<>>, cur |-> <<>>], input).all

(* ldisc_input and pty_slave_read: what the readers of a terminal were     *)
(* given, followed by what waits for them, is the sequence of lines typed  *)
(* there less those dropped whole because the queue was full, however long *)
(* the reads and whoever makes them.                                       *)
LinesIntact ==
    \A t \in Ttys :
       LET all == Edited(typed[t])
           kept == SelectSeq([i \in 1 .. Len(all) |-> <<i, all[i]>>],
                             LAMBDA e : e[1] \notin lost[t])
       IN  got[t] \o FlattenSeq(lines[t])
           = FlattenSeq([i \in 1 .. Len(kept) |-> kept[i][2]])

(* pty_slave_write: the bytes of a task reach the screen in order, none    *)
(* lost or twice, although an echo may fall between them.                  *)
OutputIntact ==
    \A x \in Tasks :
       SelectSeq(shown[TtyOf[x]] \o ring[TtyOf[x]], LAMBDA b : b[1] = x)
       = [i \in 1 .. MaxOut - task[x].left |-> <<x, i>>]

(* A reader sleeps only while there is no line, a writer only while the    *)
(* ring is full, except while ldisc_input is about to wake them.           *)
SleepersJustified ==
    \A x \in Tasks :
       /\ task[x].pc = "asleep_read" /\ LdFree(TtyOf[x]) => lines[TtyOf[x]] = <<>>
       /\ task[x].pc = "asleep_write" => Full(TtyOf[x])
=============================================================================
