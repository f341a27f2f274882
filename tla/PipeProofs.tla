----------------------------- MODULE PipeProofs -----------------------------
(* The pipe for every size of the ring, all lengths and any number of      *)
(* calls: the ring is the stream, the two sides do not sleep on each       *)
(* other, and end of file is not early.                                    *)
EXTENDS Pipe, Integers, TLAPS

Holding == {"loop", "wake", "sleep"}                          \* pipe->lock is held
Past   == {"wake_R", "wake_W", "closed"}                     \* pipe_release has set `single`
Out    == {"idle", "release"} \cup Past                      \* in no call

(* Why a side that sleeps may go on sleeping: it is still blocked, or the  *)
(* other side has moved bytes and will wake it before it blocks itself, or *)
(* that side's call is over.                                               *)
Excused(s) ==
    LET o == Other(s) IN
    \/ Blocked(s)
    \/ pc[o] \in {"loop", "wake"} /\ newly[o] > 0
    \/ calls[o] >= 1 /\ pc[o] \in Out
    \/ calls[o] >= 2

(* Only one side is inside, and it blocks only on the ring as it is.       *)
SideOK(s) ==
    /\ pc[s] \in Holding => lock /\ pc[Other(s)] \notin Holding
    /\ pc[s] \in {"wake", "sleep"} => Blocked(s)
    /\ pc[s] = "sleep" => newly[s] = 0
    /\ pc[s] \notin Out => calls[s] >= 1
    /\ asleep[s] => pc[s] = "asleep" /\ Excused(s)

(* `single` was set by a side that is past its calls.                      *)
Sides == (\A s \in Side : SideOK(s)) /\ (single => \E s \in Side : pc[s] \in Past)

PipeInv == TypeOK /\ RingIsStream /\ Sides

(* The indices of the ring stay below twice its size before the remainder  *)
(* is taken.                                                               *)
Turn(i) == IF i < BUFSIZE THEN i ELSE i - BUFSIZE

(* RingIsStream of a ring b with head h and tail t, without remainders.    *)
Stream(b, h, t, r, w) ==
    /\ r <= w /\ w - r < BUFSIZE
    /\ h = Turn(t + (w - r))
    /\ \A k \in 0 .. BUFSIZE - 1 : k < w - r => b[Turn(t + k)] = r + k + 1

LEMMA NextIndex ==
    ASSUME NEW t \in 0 .. BUFSIZE - 1, NEW k \in 0 .. BUFSIZE
    PROVE  (t + k) % BUFSIZE = Turn(t + k)
<1> DEFINE x == t + k
<1>1. BUFSIZE \in Nat \ {0} /\ x \in Nat /\ x < 2 * BUFSIZE
  BY PipeAssumption
<1> HIDE DEF x
<1>2. x % BUFSIZE = Turn(x)
  BY <1>1 DEF Turn
<1> QED
  BY <1>2 DEF x

(* RingIsStream, of any ring.                                              *)
RingOf(b, h, t, r, w) ==
    LET n == w - r IN
    /\ r <= w /\ n < BUFSIZE
    /\ h = (t + n) % BUFSIZE
    /\ \A k \in 0 .. BUFSIZE - 1 : k < n => b[(t + k) % BUFSIZE] = r + k + 1

LEMMA RingWithoutRemainder ==
    ASSUME NEW b, NEW h, NEW t \in 0 .. BUFSIZE - 1, NEW r \in Nat, NEW w \in Nat
    PROVE  Stream(b, h, t, r, w) <=> RingOf(b, h, t, r, w)
<1> DEFINE n == w - r
<1>1. \A k \in 0 .. BUFSIZE - 1 : (t + k) % BUFSIZE = Turn(t + k)
  <2>1. \A k \in 0 .. BUFSIZE - 1 : k \in 0 .. BUFSIZE
    BY PipeAssumption
  <2> QED
    BY <2>1, NextIndex, Zenon
<1>2. r <= w /\ n < BUFSIZE => n \in 0 .. BUFSIZE - 1
  BY PipeAssumption
<1> HIDE DEF n
<1> QED
  BY <1>1, <1>2, Zenon DEF Stream, RingOf, n

(* A byte is taken from the tail ...                                       *)
LEMMA ReadStream ==
    ASSUME NEW b, NEW h, NEW t \in 0 .. BUFSIZE - 1, NEW r \in Nat, NEW w \in Nat,
           Stream(b, h, t, r, w), w # r
    PROVE  Stream(b, h, Turn(t + 1), r + 1, w)
<1>1. BUFSIZE \in Nat \ {0, 1} /\ r <= w /\ w - r < BUFSIZE /\ h = Turn(t + (w - r))
  BY PipeAssumption, Zenon DEF Stream
<1>2. r + 1 <= w /\ w - (r + 1) < BUFSIZE
  BY <1>1
<1>3. h = Turn(Turn(t + 1) + (w - (r + 1)))
  BY <1>1 DEF Turn
<1>4. ASSUME NEW k \in 0 .. BUFSIZE - 1, k < w - (r + 1)
      PROVE  b[Turn(Turn(t + 1) + k)] = (r + 1) + k + 1
  <2>1. k + 1 \in 0 .. BUFSIZE - 1 /\ k + 1 < w - r
    BY <1>1, <1>4
  <2>2. Turn(Turn(t + 1) + k) = Turn(t + (k + 1)) /\ r + (k + 1) + 1 = (r + 1) + k + 1
    BY <1>1, <2>1 DEF Turn
  <2>3. b[Turn(t + (k + 1))] = r + (k + 1) + 1
    BY <2>1, Zenon DEF Stream
  <2> QED
    BY <2>2, <2>3, Zenon
<1> QED
  BY <1>2, <1>3, <1>4, Zenon DEF Stream

(* ... or put at the head.                                                 *)
LEMMA WriteStream ==
    ASSUME NEW b \in [0 .. BUFSIZE - 1 -> Nat], NEW h \in 0 .. BUFSIZE - 1,
           NEW t \in 0 .. BUFSIZE - 1, NEW r \in Nat, NEW w \in Nat,
           Stream(b, h, t, r, w), w # r + BUFSIZE - 1
    PROVE  Stream([b EXCEPT ![h] = w + 1], Turn(h + 1), t, r, w + 1)
<1> DEFINE c == [b EXCEPT ![h] = w + 1]
<1>1. BUFSIZE \in Nat \ {0, 1} /\ r <= w /\ w - r < BUFSIZE /\ h = Turn(t + (w - r))
  BY PipeAssumption, Zenon DEF Stream
<1>2. r <= w + 1 /\ (w + 1) - r < BUFSIZE
  BY <1>1
<1>3. Turn(h + 1) = Turn(t + ((w + 1) - r))
  BY <1>1, <1>2 DEF Turn
<1>4. c[h] = w + 1 /\ \A i \in 0 .. BUFSIZE - 1 : i # h => c[i] = b[i]
  OBVIOUS
<1> HIDE DEF c
<1>5. ASSUME NEW k \in 0 .. BUFSIZE - 1, k < (w + 1) - r
      PROVE  c[Turn(t + k)] = r + k + 1
  <2>1. CASE k = w - r
    <3>1. Turn(t + k) = h /\ w + 1 = r + k + 1
      BY <1>1, <2>1
    <3> QED
      BY <1>4, <3>1, Zenon
  <2>2. CASE k # w - r
    <3>1. k < w - r
      BY <1>1, <1>5, <2>2
    <3>2. Turn(t + k) # h /\ Turn(t + k) \in 0 .. BUFSIZE - 1
      BY <1>1, <3>1 DEF Turn
    <3>3. b[Turn(t + k)] = r + k + 1
      BY <3>1, Zenon DEF Stream
    <3> QED
      BY <1>4, <3>2, <3>3, Zenon
  <2> QED
    BY <2>1, <2>2, Zenon
<1> QED
  BY <1>2, <1>3, <1>5, Zenon DEF Stream, c

LEMMA RingEnds ==
    ASSUME NEW t \in 0 .. BUFSIZE - 1, NEW n \in 0 .. BUFSIZE - 1
    PROVE  /\ Turn(t + n) = t <=> n = 0
           /\ Turn(Turn(t + n) + 1) = t <=> n = BUFSIZE - 1
  BY PipeAssumption DEF Turn

(* The ring in numbers, and when a side is blocked: the ring is empty, or  *)
(* one short of full.                                                      *)
LEMMA BlockedWhen ==
    ASSUME TypeOK, RingIsStream
    PROVE  /\ Stream(buf, buf_head, buf_tail, total["R"], total["W"])
           /\ Blocked("R") <=> total["W"] = total["R"]
           /\ Blocked("W") <=> total["W"] = total["R"] + BUFSIZE - 1
<1>1. /\ buf_tail \in 0 .. BUFSIZE - 1 /\ buf_head \in 0 .. BUFSIZE - 1
      /\ total["R"] \in Nat /\ total["W"] \in Nat
  BY Zenon DEF TypeOK, Side
<1>2. Stream(buf, buf_head, buf_tail, total["R"], total["W"])
  BY <1>1, RingWithoutRemainder, Zenon DEF RingIsStream, RingOf
<1>3. /\ BUFSIZE \in Nat \ {0, 1} /\ total["R"] <= total["W"] /\ total["W"] - total["R"] < BUFSIZE
      /\ buf_head = Turn(buf_tail + (total["W"] - total["R"]))
  BY <1>2, PipeAssumption, Zenon DEF Stream
<1>4. (buf_head + 1) % BUFSIZE = Turn(buf_head + 1)
  <2>1. 1 \in 0 .. BUFSIZE
    BY <1>3
  <2> QED
    BY <1>1, <2>1, NextIndex, Zenon
<1>5. /\ Blocked("R") <=> buf_head = buf_tail
      /\ Blocked("W") <=> Turn(buf_head + 1) = buf_tail
  BY <1>4, Zenon DEF Blocked
<1>6. /\ total["W"] - total["R"] \in 0 .. BUFSIZE - 1
      /\ total["W"] - total["R"] = 0 <=> total["W"] = total["R"]
      /\ total["W"] - total["R"] = BUFSIZE - 1 <=> total["W"] = total["R"] + BUFSIZE - 1
  BY <1>1, <1>3
<1> QED
  BY <1>1, <1>2, <1>3, <1>5, <1>6, RingEnds, Zenon

LEMMA MoveKeepsRing ==
    ASSUME TypeOK, TypeOK', RingIsStream, NEW s \in Side, Move(s)
    PROVE  RingIsStream'
<1>1. /\ buf_tail \in 0 .. BUFSIZE - 1 /\ buf_head \in 0 .. BUFSIZE - 1 /\ buf \in [0 .. BUFSIZE - 1 -> Nat]
      /\ total["R"] \in Nat /\ total["W"] \in Nat /\ total \in [Side -> Nat]
  BY Zenon DEF TypeOK, Side
<1>2. /\ Stream(buf, buf_head, buf_tail, total["R"], total["W"])
      /\ Blocked("R") <=> total["W"] = total["R"]
      /\ Blocked("W") <=> total["W"] = total["R"] + BUFSIZE - 1
  BY BlockedWhen, Zenon
<1>3. /\ (buf_tail + 1) % BUFSIZE = Turn(buf_tail + 1)
      /\ (buf_head + 1) % BUFSIZE = Turn(buf_head + 1)
  <2>1. 1 \in 0 .. BUFSIZE
    BY PipeAssumption
  <2> QED
    BY <1>1, <2>1, NextIndex, Zenon
<1>4. total' = [total EXCEPT ![s] = total[s] + 1] /\ ~Blocked(s)
  BY <1>1, Zenon DEF Move
<1>5. Stream(buf', buf_head', buf_tail', total'["R"], total'["W"])
  <2>1. CASE s = "R"
    <3>1. /\ buf' = buf /\ buf_head' = buf_head /\ buf_tail' = Turn(buf_tail + 1)
      BY <1>3, <2>1, Zenon DEF Move
    <3>2. total'["W"] = total["W"] /\ total'["R"] = total["R"] + 1
      BY <1>1, <1>4, <2>1 DEF Side
    <3> QED
      BY <1>1, <1>2, <1>4, <2>1, <3>1, <3>2, ReadStream, Zenon
  <2>2. CASE s = "W"
    <3>1. /\ buf' = [buf EXCEPT ![buf_head] = total["W"] + 1] /\ buf_tail' = buf_tail
          /\ buf_head' = Turn(buf_head + 1)
      BY <1>3, <2>2 DEF Move
    <3>2. total'["W"] = total["W"] + 1 /\ total'["R"] = total["R"]
      BY <1>1, <1>4, <2>2 DEF Side
    <3>3. total["W"] # total["R"] + BUFSIZE - 1
      BY <1>2, <1>4, <2>2, Zenon
    <3>4. Stream([buf EXCEPT ![buf_head] = total["W"] + 1], Turn(buf_head + 1), buf_tail,
                 total["R"], total["W"] + 1)
      BY <1>1, <1>2, <3>3, WriteStream, Zenon
    <3> QED
      BY <3>1, <3>2, <3>4, Zenon
  <2> QED
    BY <2>1, <2>2 DEF Side
<1> QED
  <2>1. buf_tail' \in 0 .. BUFSIZE - 1 /\ total'["R"] \in Nat /\ total'["W"] \in Nat
    BY Zenon DEF TypeOK, Side
  <2>2. RingOf(buf', buf_head', buf_tail', total'["R"], total'["W"])
    BY <1>5, <2>1, RingWithoutRemainder, Zenon
  <2> QED
    BY <2>2, Zenon DEF RingIsStream, RingOf

LEMMA PipeTypes ==
    ASSUME TypeOK, NEW s \in Side, Act(s)
    PROVE  TypeOK'
<1>0. /\ Lens[s] \subseteq Nat /\ Other(s) \in Side /\ 0 \in Nat
      /\ {"R", "W"} = Side /\ BUFSIZE \in Nat \ {0}
  BY PipeAssumption DEF Side, Other
<1>1. ASSUME NEW n \in Lens[s], Call(s, n) PROVE TypeOK'
  <2>1. calls' \in [Side -> 0 .. MaxCalls]
    BY <1>1, PipeAssumption DEF TypeOK, Call
  <2> QED
    BY <1>0, <1>1, <2>1, Zenon DEF TypeOK, Call, Goto, ring, Places
<1>2. CASE Lock(s)
  BY <1>0, <1>2, Zenon DEF TypeOK, Lock, Goto, ring, locals, Places
<1>3. CASE Return(s)
  BY <1>0, <1>3, Zenon DEF TypeOK, Return, Goto, ring, locals, Places
<1>4. CASE Wait(s)
  BY <1>0, <1>4, Zenon DEF TypeOK, Wait, Goto, ring, locals, Places
<1>6. CASE Woken(s)
  BY <1>0, <1>6, Zenon DEF TypeOK, Woken, Goto, ring, locals, Places
<1>7. CASE Wake(s)
  BY <1>0, <1>7, Zenon DEF TypeOK, Wake, Goto, ring, locals, Places
<1>8. CASE Sleep(s)
  BY <1>0, <1>8, Zenon DEF TypeOK, Sleep, Goto, ring, locals, Places
<1>9. CASE Move(s)
  <2>1. \A i \in 0 .. BUFSIZE - 1 : (i + 1) % BUFSIZE \in 0 .. BUFSIZE - 1
    BY <1>0
  <2>2. \A i \in Nat : i + 1 \in Nat
    OBVIOUS
  <2>3. total' \in [Side -> Nat] /\ count' \in [Side -> Nat] /\ newly' \in [Side -> Nat]
    BY <1>0, <1>9, <2>2, Zenon DEF TypeOK, Move
  <2>4. buf' \in [0 .. BUFSIZE - 1 -> Nat]
    <3>1. total["W"] + 1 \in Nat
      BY <1>0, <2>2, Zenon DEF TypeOK
    <3> QED
      BY <1>9, <3>1, Zenon DEF TypeOK, Move
  <2>5. buf_tail' \in 0 .. BUFSIZE - 1 /\ buf_head' \in 0 .. BUFSIZE - 1
    BY <1>9, <2>1, Zenon DEF TypeOK, Move
  <2> QED
    BY <1>9, <2>3, <2>4, <2>5, Zenon DEF TypeOK, Move
<1>5. CASE Close(s)
  BY <1>0, <1>5, Zenon DEF TypeOK, Close, Release, Goto, ring, locals, Places
<1> QED
  BY <1>1, <1>2, <1>3, <1>4, <1>5, <1>6, <1>7, <1>8, <1>9, Zenon DEF Act, Step

LEMMA SideStepKeeps ==
    ASSUME PipeInv, NEW s \in Side, Act(s)
    PROVE  SideOK(s)' /\ SideOK(Other(s))' /\ (single' => \E x \in Side : pc'[x] \in Past)
<1> DEFINE o == Other(s)
<1>t. TypeOK
  BY DEF PipeInv
<1>o. o \in Side /\ o # s /\ Other(o) = s /\ Side = {s, o}
  BY DEF Side, Other
<1>i. SideOK(s) /\ SideOK(o) /\ (single => pc[s] \in Past \/ pc[o] \in Past)
  BY <1>o DEF PipeInv, Sides
<1>b. UNCHANGED ring => Blocked(s)' = Blocked(s) /\ Blocked(o)' = Blocked(o)
  BY DEF ring, Blocked
<1>1. CASE \E n \in Lens[s] : Call(s, n)
  <2>1. /\ pc[s] = "idle" /\ pc'[s] = "lock" /\ calls'[s] = calls[s] + 1 /\ calls'[o] = calls[o]
        /\ newly'[o] = newly[o] /\ UNCHANGED <<single, lock, asleep>>
        /\ pc'[o] = pc[o] /\ UNCHANGED ring /\ calls[s] \in Nat
    BY <1>t, <1>o, <1>1 DEF TypeOK, Call, Goto, locals
  <2>2. calls'[s] >= 1 /\ (calls[s] >= 1 => calls'[s] >= 2) /\ (calls[s] >= 2 => calls'[s] >= 2)
    BY <2>1
  <2> QED
    BY <1>o, <1>i, <1>b, <2>1, <2>2, Zenon DEF SideOK, Excused, Holding, Out, Past
<1>2. CASE Lock(s)
  <2>1. /\ pc[s] = "lock" /\ pc'[s] = "loop" /\ ~lock /\ lock'
        /\ UNCHANGED <<newly, calls, single, asleep>>
        /\ pc'[o] = pc[o] /\ UNCHANGED ring
    BY <1>t, <1>o, <1>2 DEF TypeOK, Lock, Goto, locals
  <2> QED
    BY <1>t, <1>o, <1>i, <1>b, <2>1 DEF SideOK, Excused, Holding, Out, Past
<1>3. CASE Return(s)
  <2>1. /\ pc[s] = "loop" /\ pc'[s] = "idle" /\ ~lock'
        /\ UNCHANGED <<newly, calls, single, asleep>>
        /\ pc'[o] = pc[o] /\ UNCHANGED ring
    BY <1>t, <1>o, <1>3 DEF TypeOK, Return, Goto, locals
  <2> QED
    BY <1>t, <1>o, <1>i, <1>b, <2>1 DEF SideOK, Excused, Holding, Out, Past
<1>4. CASE Wait(s)
  <2>1. /\ pc[s] = "loop" /\ pc'[s] = (IF newly[s] > 0 THEN "wake" ELSE "sleep") /\ Blocked(s)
        /\ UNCHANGED <<newly, calls, single, lock, asleep>>
        /\ pc'[o] = pc[o] /\ UNCHANGED ring
    BY <1>t, <1>o, <1>4 DEF TypeOK, Wait, Goto, locals
  <2>2. /\ pc'[s] \in {"wake", "sleep"} /\ newly[s] > 0 => pc'[s] = "wake"
        /\ pc'[s] = "sleep" => newly[s] = 0
    BY <1>t, <2>1 DEF TypeOK
  <2> QED
    BY <1>o, <1>i, <1>b, <2>1, <2>2, Zenon DEF SideOK, Excused, Holding, Out, Past
<1>5. CASE Wake(s)
  <2>1. /\ pc[s] = "wake" /\ pc'[s] = "sleep" /\ ~asleep'[o] /\ asleep'[s] = asleep[s]
        /\ newly'[s] = 0 /\ newly'[o] = newly[o] /\ UNCHANGED <<calls, single, lock>>
        /\ pc'[o] = pc[o] /\ UNCHANGED ring
    BY <1>t, <1>o, <1>5, Zenon DEF TypeOK, Wake, Goto, locals
  <2> QED
    BY <1>t, <1>o, <1>i, <1>b, <2>1 DEF SideOK, Excused, Holding, Out, Past
<1>6. CASE Sleep(s)
  <2>1. /\ pc[s] = "sleep" /\ pc'[s] = "asleep" /\ asleep'[s] /\ asleep'[o] = asleep[o] /\ ~lock'
        /\ UNCHANGED <<newly, calls, single>>
        /\ pc'[o] = pc[o] /\ UNCHANGED ring
    BY <1>t, <1>o, <1>6 DEF TypeOK, Sleep, Goto, locals
  <2> QED
    BY <1>t, <1>o, <1>i, <1>b, <2>1 DEF SideOK, Excused, Holding, Out, Past
<1>7. CASE Woken(s)
  <2>1. /\ pc[s] = "asleep" /\ pc'[s] = "lock" /\ ~asleep[s]
        /\ UNCHANGED <<newly, calls, single, lock, asleep>>
        /\ pc'[o] = pc[o] /\ UNCHANGED ring
    BY <1>t, <1>o, <1>7 DEF TypeOK, Woken, Goto, locals
  <2> QED
    BY <1>t, <1>o, <1>i, <1>b, <2>1 DEF SideOK, Excused, Holding, Out, Past
<1>8. CASE Move(s)
  <2>1. /\ pc[s] = "loop" /\ newly'[s] = newly[s] + 1 /\ newly[s] \in Nat /\ newly'[o] = newly[o]
        /\ UNCHANGED <<pc, single, lock, asleep, calls>>
    BY <1>t, <1>o, <1>8 DEF TypeOK, Move
  <2> QED
    BY <1>t, <1>o, <1>i, <2>1 DEF SideOK, Excused, Holding, Out, Past
<1>9. CASE Close(s)
  <2>1. /\ pc[s] \in Out /\ pc'[s] \in Out /\ (single' = single \/ pc'[s] \in Past)
        /\ pc[s] \in Past => pc'[s] \in Past
        /\ \A x \in Side : asleep'[x] => asleep[x]
        /\ pc'[o] = pc[o] /\ UNCHANGED <<ring, lock, newly, calls>>
    <3>1. pc \in [Side -> Places] /\ asleep \in [Side -> BOOLEAN] /\ UNCHANGED <<ring, lock, newly, calls>>
      BY <1>t, <1>9, Zenon DEF TypeOK, Close, locals
    <3>2. CASE pc[s] = "idle"
      BY <1>o, <1>9, <3>1, <3>2 DEF Close, Release, Goto, Out, Past
    <3>3. CASE pc[s] = "release"
      BY <1>o, <1>9, <3>1, <3>3 DEF Close, Release, Goto, Out, Past
    <3>4. CASE pc[s] \in {"wake_R", "wake_W"}
      BY <1>o, <1>9, <3>1, <3>4 DEF Close, Release, Goto, Out, Past
    <3> QED
      BY <1>9, <3>2, <3>3, <3>4, Zenon DEF Close, Release
  <2> QED
    BY <1>t, <1>o, <1>i, <1>b, <2>1 DEF SideOK, Excused, Holding, Out, Past
<1> QED
  BY <1>1, <1>2, <1>3, <1>4, <1>5, <1>6, <1>7, <1>8, <1>9 DEF Act, Step

LEMMA PipeInvariant == Spec => []PipeInv
<1>1. Init => PipeInv
  <2> SUFFICES ASSUME Init PROVE PipeInv
    OBVIOUS
  <2>1. TypeOK
    <3>1. /\ 0 \in Nat /\ 0 \in 0 .. BUFSIZE - 1 /\ 0 \in 0 .. MaxCalls
      BY PipeAssumption
    <3> QED
      BY <3>1, Zenon DEF Init, TypeOK, Places
  <2>2. Sides
    BY DEF Init, Sides, SideOK, Holding, Out, Past, Side, Other
  <2>3. RingIsStream
    <3>1. buf_tail = 0 /\ buf_head = 0 /\ total["R"] = 0 /\ total["W"] = 0 /\ BUFSIZE \in Nat \ {0, 1}
      BY PipeAssumption DEF Init, Side
    <3>2. 0 % BUFSIZE = 0
      BY <3>1
    <3> QED
      BY <3>1, <3>2 DEF RingIsStream
  <2> QED
    BY <2>1, <2>2, <2>3 DEF PipeInv
<1>2. PipeInv /\ [Next]_vars => PipeInv'
  <2> SUFFICES ASSUME PipeInv, [Next]_vars PROVE PipeInv'
    OBVIOUS
  <2>1. ASSUME NEW s \in Side, Act(s) PROVE PipeInv'
    <3>1. TypeOK /\ TypeOK'
      BY <2>1, PipeTypes DEF PipeInv
    <3>2. RingIsStream'
      <4>1. CASE Move(s)
        BY <3>1, <4>1, MoveKeepsRing DEF PipeInv
      <4>2. CASE UNCHANGED <<ring, total>>
        BY <4>2 DEF PipeInv, RingIsStream, ring
      <4> QED
        BY <2>1, <4>1, <4>2 DEF Act, Step, Call, Lock, Return, Wait, Wake, Sleep, Woken, Close
    <3>3. Sides'
      BY <2>1, SideStepKeeps DEF Sides, Side, Other
    <3> QED
      BY <3>1, <3>2, <3>3 DEF PipeInv
  <2>2. CASE UNCHANGED vars
    BY <2>2, Zenon DEF vars, ring, locals, PipeInv, TypeOK, RingIsStream, Sides, SideOK, Excused, Blocked
  <2> QED
    BY <2>1, <2>2 DEF Next
<1> QED
  BY <1>1, <1>2, PTL DEF Spec

(* The pipe, for every size of the ring, all lengths and any number of     *)
(* calls: what is read is what was written, in order; one read and one     *)
(* write never leave both sides asleep; and a call comes back short only   *)
(* when the other end is closed and the ring is drained, or full.          *)
THEOREM PipeIsSound == Spec => PipeSound
<1>1. PipeInv => RingIsStream /\ NotBothAsleep
  <2> SUFFICES ASSUME PipeInv, asleep["R"], asleep["W"], calls["R"] <= 1, calls["W"] <= 1
               PROVE  FALSE
    BY DEF PipeInv, NotBothAsleep
  <2>1. TypeOK /\ calls["R"] \in Nat /\ calls["W"] \in Nat /\ Side = {"R", "W"}
        /\ Other("R") = "W" /\ Other("W") = "R"
    BY DEF PipeInv, TypeOK, Side, Other
  <2>2. pc["R"] = "asleep" /\ pc["W"] = "asleep" /\ Excused("R") /\ Excused("W")
    BY <2>1 DEF PipeInv, Sides, SideOK
  <2>3. Blocked("R") /\ Blocked("W")
    BY <2>1, <2>2 DEF Excused, Out, Past
  <2>4. total["W"] = total["R"] /\ total["W"] = total["R"] + BUFSIZE - 1 /\ total["R"] \in Nat
    BY <2>1, <2>3, BlockedWhen, Zenon DEF PipeInv, TypeOK
  <2> QED
    BY <2>4, PipeAssumption
<1>2. PipeInv /\ [Next]_vars =>
        [\A s \in Side : Return(s) /\ result'[s] < len[s] =>
           /\ pc[Other(s)] \in {"wake_R", "wake_W", "closed"}
           /\ s = "R" => total["R"] = total["W"]
           /\ s = "W" => total["W"] = total["R"] + BUFSIZE - 1]_vars
  <2> SUFFICES ASSUME PipeInv, NEW s \in Side, Return(s), result'[s] < len[s]
               PROVE  /\ pc[Other(s)] \in {"wake_R", "wake_W", "closed"}
                      /\ s = "R" => total["R"] = total["W"]
                      /\ s = "W" => total["W"] = total["R"] + BUFSIZE - 1
    OBVIOUS
  <2>1. pc[s] = "loop" /\ Ends(s) /\ result'[s] = count[s] /\ len[s] \in Nat /\ count[s] \in Nat
    BY DEF PipeInv, TypeOK, Return
  <2>2. Blocked(s) /\ single
    BY <2>1 DEF Ends
  <2>3. \E x \in Side : pc[x] \in Past
    BY <2>2 DEF PipeInv, Sides
  <2>4. pc[Other(s)] \in Past
    BY <2>1, <2>3 DEF Side, Other, Past
  <2> QED
    BY <2>2, <2>4, BlockedWhen DEF PipeInv, Past
<1> QED
  BY PipeInvariant, <1>1, <1>2, PTL DEF Spec, PipeSound, ShortOnlyAtEnd

=============================================================================
