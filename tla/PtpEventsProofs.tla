-------------------------- MODULE PtpEventsProofs --------------------------
(***************************************************************************)
(* Proofs about PtpEvents for any number of files, readers, channels and   *)
(* events and any length of a queue: no wake-up of a reader is lost, and   *)
(* the queues are the bounded FIFOs of module PtpFifo.                     *)
(***************************************************************************)
EXTENDS PtpEvents, SequenceTheorems, TLAPS

USE PtpEventsAssumption DEF PtpEventsAssumption

(***************************************************************************)
(* The inductive invariant.                                                *)
(***************************************************************************)

\* A queue's buffer and its two indices.
Ring == [buf : [0..N-1 -> Nat], head : 0..N-1, tail : 0..N-1]

\* What a reader does, with the want and the tail it has read.
Reading == [pc   : {"none", "prepare", "test", "head", "sleep", "ready", "take"},
            file : Files \cup {NoFile}, want : 0..Batch, tail : 0..N-1]

TypeOK ==
  /\ ring \in [Queues -> Ring]
  /\ mask \in [Queues -> SUBSET Channels]
  /\ listed \in SUBSET Queues
  /\ writer \in [pc : {"idle", "queue"} \cup Queues, todo : SUBSET Queues]
  /\ produced \in 0..MaxEvents
  /\ rd \in [Readers -> Reading]
  /\ waiting \in SUBSET Readers
  /\ taken \in [Queues -> Nat]
  /\ missed \in [Queues -> Nat]
  /\ phase \in {"live", "defunct", "unregistering", "zombie", "released"}

\* A reader has a file that is open, until it returns.
ReadersInside ==
  \A r \in Readers :
    /\ rd[r].pc = "none" => rd[r] = NotReading
    /\ rd[r].pc # "none" => rd[r].file \in Files \cap listed

\* How far ptp_clock_unregister has got bounds what the others do.
PhaseOK ==
  /\ writer.pc # "idle" => phase = "live"
  /\ phase \in {"zombie", "released"} => \A r \in Readers : rd[r].pc = "none"
  /\ phase = "released" => listed = {}
  /\ phase # "released" => Sysfs \in listed

\* A reader on the wait queue has got there to test the condition; once it has,
\* and with no event and no unregistration under way, the clock is live and the
\* tail it read, or the emptiness it found, is still what the queue has.
WaitersOK ==
  \A r \in waiting :
    /\ rd[r].pc \in {"test", "head", "sleep"}
    /\ phase \notin {"live", "defunct"} => rd[r].pc = "test"
    /\ (phase = "live" /\ writer.pc = "idle") =>
         /\ rd[r].pc = "head"  => rd[r].tail = ring[rd[r].file].tail
         /\ rd[r].pc = "sleep" => ring[rd[r].file].tail = ring[rd[r].file].head

\* The writer works on queues of the list, and the one it is in has room.
WriterOK ==
  /\ writer.pc = "idle" => writer.todo = {}
  /\ writer.pc # "idle" => produced > 0
  /\ writer.todo \subseteq listed
  /\ writer.pc \in Queues =>
       /\ writer.pc \in writer.todo
       /\ QueueCnt(writer.pc) < N - 1
       /\ ring[writer.pc].buf[ring[writer.pc].tail] = produced

\* No event in a buffer is newer than the last one, and the last one is only in
\* the queues that the writer is done with, and in the slot it is filling.
EventsOK ==
  \A q \in Queues : \A i \in 0..N-1 :
    /\ ring[q].buf[i] <= produced
    /\ (q \in writer.todo /\ (writer.pc = q => i # ring[q].tail))
         => ring[q].buf[i] < produced

\* A queue that is not on the list is as it will be when it gets there.
ClosedOK ==
  \A q \in Queues \ listed : ring[q] = EmptyRing /\ taken[q] = 0 /\ missed[q] = 0

IInv == /\ TypeOK /\ ReadersInside /\ PhaseOK /\ WaitersOK
        /\ WriterOK /\ EventsOK /\ ClosedOK

-----------------------------------------------------------------------------
(* Facts about the ring's arithmetic. *)

\* Going round the ring is at most one subtraction.
LEMMA Wrap ==
  ASSUME NEW x \in 0..(2 * N - 1)
  PROVE  x % N = IF x < N THEN x ELSE x - N
  OBVIOUS

\* The next index is an index.
LEMMA IncrOK ==
  ASSUME NEW i \in 0..N-1
  PROVE  Incr(i) \in 0..N-1 /\ Incr(i) = IF i = N - 1 THEN 0 ELSE i + 1
  BY Wrap DEF Incr

\* queue_cnt of two indices leaves one slot free.
LEMMA CountOK ==
  ASSUME NEW t \in 0..N-1, NEW h \in 0..N-1
  PROVE  /\ Count(t, h) \in 0..N-1
         /\ Count(t, h) = 0 <=> t = h
         /\ (h + Count(t, h)) % N = t
  BY Wrap DEF Count

\* Moving the head on by n takes n off the count.
LEMMA CountAfterTake ==
  ASSUME NEW t \in 0..N-1, NEW h \in 0..N-1, NEW n \in 0..Count(t, h)
  PROVE  Count(t, (h + n) % N) = Count(t, h) - n
  BY CountOK, Wrap DEF Count

\* The slot at the tail holds none of the queue's events.
LEMMA SlotFree ==
  ASSUME NEW t \in 0..N-1, NEW h \in 0..N-1, NEW i \in 1..Count(t, h)
  PROVE  (h + i - 1) % N \in (0..N-1) \ {t}
<1>1. i \in 1..N-1 /\ (t < h => i <= N + t - h) /\ (~(t < h) => i <= t - h)
  BY DEF Count
<1>2. h + i - 1 \in 0..(2 * N - 1)
  BY <1>1
<1>3. (h + i - 1) % N = IF h + i - 1 < N THEN h + i - 1 ELSE h + i - 1 - N
  BY <1>2, Wrap
<1> QED
  BY <1>1, <1>3

\* Going round from where going round has led.
LEMMA WrapTwice ==
  ASSUME NEW h \in 0..N-1, NEW n \in 0..N-1, NEW i \in 1..N-1, n + i <= N - 1
  PROVE  (((h + n) % N) + i - 1) % N = (h + (n + i) - 1) % N
<1> DEFINE g == (h + n) % N
<1>1. g = IF h + n < N THEN h + n ELSE h + n - N
  BY Wrap
<1> HIDE DEF g
<1>2. g + i - 1 \in 0..(2 * N - 1) /\ h + (n + i) - 1 \in 0..(2 * N - 1)
  BY <1>1
<1>3. (g + i - 1) % N = IF g + i - 1 < N THEN g + i - 1 ELSE g + i - 1 - N
  <2>1. g \in Int
    BY <1>1
  <2> QED
    BY <1>2, <2>1, Wrap
<1>4. (h + (n + i) - 1) % N = IF h + (n + i) - 1 < N THEN h + (n + i) - 1
                                                     ELSE h + (n + i) - 1 - N
  BY <1>2, Wrap
<1>5. (g + i - 1) % N = (h + (n + i) - 1) % N
  <2>1. CASE h + n < N
    BY <1>1, <2>1
  <2>2. CASE ~(h + n < N)
    <3>1. g + i - 1 < N /\ ~(h + (n + i) - 1 < N) /\ g + i - 1 = h + (n + i) - 1 - N
      BY <1>1, <2>2
    <3> QED
      BY <1>3, <1>4, <3>1
  <2> QED
    BY <2>1, <2>2
<1> QED
  BY <1>5 DEF g

\* Moving the tail on adds one, unless the queue was full.
LEMMA CountAfterAdd ==
  ASSUME NEW t \in 0..N-1, NEW h \in 0..N-1, Count(t, h) < N - 1
  PROVE  Count(Incr(t), h) = Count(t, h) + 1
  BY IncrOK DEF Count

-----------------------------------------------------------------------------
(* What the actions do to the rings. *)

\* The parts of a queue have their types, and its count is in range.
LEMMA RingOK ==
  ASSUME TypeOK, NEW q \in Queues
  PROVE  /\ ring[q] \in Ring
         /\ ring[q].buf \in [0..N-1 -> Nat]
         /\ ring[q].head \in 0..N-1
         /\ ring[q].tail \in 0..N-1
         /\ QueueCnt(q) \in 0..N-1
<1>1. ring[q] \in Ring
  BY DEF TypeOK
<1>2. /\ ring[q].buf \in [0..N-1 -> Nat]
      /\ ring[q].head \in 0..N-1
      /\ ring[q].tail \in 0..N-1
  BY <1>1 DEF Ring
<1>3. QueueCnt(q) \in 0..N-1
  BY <1>2, CountOK DEF QueueCnt
<1> QED
  BY <1>1, <1>2, <1>3

\* The step changes queue q, and no other, to what is given.
RingBecomes(q, b, h, t) ==
  /\ ring' \in [Queues -> Ring]
  /\ ring'[q].buf = b /\ ring'[q].head = h /\ ring'[q].tail = t
  /\ \A p \in Queues \ {q} : ring'[p] = ring[p]

\* An action that sets one ring.
LEMMA SetRing ==
  ASSUME TypeOK, NEW q \in Queues,
         NEW b \in [0..N-1 -> Nat], NEW h \in 0..N-1, NEW t \in 0..N-1,
         ring' = [ring EXCEPT ![q] = [buf |-> b, head |-> h, tail |-> t]]
  PROVE  RingBecomes(q, b, h, t)
<1>1. [buf |-> b, head |-> h, tail |-> t] \in Ring
  BY DEF Ring
<1> QED
  BY <1>1 DEF RingBecomes, TypeOK

\* enqueue_external_timestamp: the slot behind the tail, and the head.
LEMMA EnqueueHeadRing ==
  ASSUME TypeOK, NEW q \in Queues, EnqueueHead(q)
  PROVE  RingBecomes(q, [ring[q].buf EXCEPT ![ring[q].tail] = produced],
                     IF QueueFree(q) = 0 THEN Incr(ring[q].head) ELSE ring[q].head,
                     ring[q].tail)
<1> DEFINE b == [ring[q].buf EXCEPT ![ring[q].tail] = produced]
           h == IF QueueFree(q) = 0 THEN Incr(ring[q].head) ELSE ring[q].head
<1>1. b \in [0..N-1 -> Nat]
  BY RingOK DEF TypeOK
<1>2. h \in 0..N-1
  BY RingOK, IncrOK
<1>3. ring' = [ring EXCEPT ![q].buf[ring[q].tail] = produced, ![q].head = h]
  BY DEF EnqueueHead
<1> HIDE DEF h
<1>4. ring'[q] = [buf |-> b, head |-> h, tail |-> ring[q].tail]
  BY <1>3, RingOK DEF TypeOK, Ring
<1>5. ring' = [ring EXCEPT ![q] = [buf |-> b, head |-> h, tail |-> ring[q].tail]]
  BY <1>3, <1>4 DEF TypeOK
<1> QED
  BY <1>1, <1>2, <1>5, RingOK, SetRing DEF h

\* Only the head moves, as ptp_read and extts_fifo_show do it.
LEMMA SetHead ==
  ASSUME TypeOK, NEW q \in Queues, NEW h \in 0..N-1,
         ring' = [ring EXCEPT ![q].head = h]
  PROVE  RingBecomes(q, ring[q].buf, h, ring[q].tail)
<1>1. ring'[q] = [buf |-> ring[q].buf, head |-> h, tail |-> ring[q].tail]
  <2>1. ring[q] \in Ring /\ ring'[q] = [ring[q] EXCEPT !.head = h]
    BY DEF TypeOK
  <2> QED
    BY <2>1 DEF Ring
<1>2. ring' = [ring EXCEPT ![q] = [buf |-> ring[q].buf, head |-> h, tail |-> ring[q].tail]]
  BY <1>1 DEF TypeOK
<1> QED
  BY <1>2, RingOK, SetRing

\* Only the tail moves.
LEMMA EnqueueTailRing ==
  ASSUME TypeOK, NEW q \in Queues, EnqueueTail(q)
  PROVE  RingBecomes(q, ring[q].buf, ring[q].head, Incr(ring[q].tail))
<1> DEFINE t == Incr(ring[q].tail)
<1>1. t \in 0..N-1
  BY RingOK, IncrOK
<1>2. ring' = [ring EXCEPT ![q].tail = t]
  BY DEF EnqueueTail
<1> HIDE DEF t
<1>3. ring'[q] = [buf |-> ring[q].buf, head |-> ring[q].head, tail |-> t]
  <2>1. ring[q] \in Ring /\ ring'[q] = [ring[q] EXCEPT !.tail = t]
    BY <1>2 DEF TypeOK
  <2> QED
    BY <2>1 DEF Ring
<1>4. ring' = [ring EXCEPT ![q] = [buf |-> ring[q].buf, head |-> ring[q].head, tail |-> t]]
  BY <1>2, <1>3 DEF TypeOK
<1> QED
  BY <1>1, <1>4, RingOK, SetRing DEF t

\* Opening and closing a queue empties it.
LEMMA SetEmpty ==
  ASSUME TypeOK, NEW q \in Queues, ring' = [ring EXCEPT ![q] = EmptyRing]
  PROVE  RingBecomes(q, EmptyRing.buf, 0, 0)
<1>1. EmptyRing \in Ring
  BY DEF EmptyRing, Ring
<1> QED
  BY <1>1 DEF RingBecomes, TypeOK, EmptyRing

\* How many events ptp_read takes: at most what the queue holds.
TakeCount(r) ==
  Minimum(Minimum(rd[r].want, Batch), QueueCnt(rd[r].file))

\* The last of the events it takes.
LastTaken(r) ==
  ring[rd[r].file].buf[(ring[rd[r].file].head + TakeCount(r) - 1) % N]

\* ptp_read takes no more than there is.
LEMMA TakeCountOK ==
  ASSUME TypeOK, ReadersInside, NEW r \in Readers, rd[r].pc # "none"
  PROVE  /\ rd[r].file \in Queues
         /\ TakeCount(r) \in 0..QueueCnt(rd[r].file)
<1>1. rd[r].file \in Queues
  BY DEF ReadersInside, Queues
<1>2. rd[r].want \in Nat /\ QueueCnt(rd[r].file) \in Nat
  BY <1>1, RingOK DEF TypeOK, Reading
<1> QED
  BY <1>1, <1>2 DEF TakeCount, Minimum

\* ptp_read: the head goes on by the number of events taken.
LEMMA ReadTakeRing ==
  ASSUME TypeOK, ReadersInside, NEW r \in Readers, ReadTake(r)
  PROVE  /\ RingBecomes(rd[r].file, ring[rd[r].file].buf,
                        (ring[rd[r].file].head + TakeCount(r)) % N,
                        ring[rd[r].file].tail)
         /\ \/ TakeCount(r) = 0 /\ UNCHANGED <<taken, missed>>
            \/ /\ TakeCount(r) # 0 /\ UNCHANGED missed
               /\ taken' = [taken EXCEPT ![rd[r].file] = LastTaken(r)]
            \/ /\ TakeCount(r) # 0 /\ UNCHANGED taken
               /\ missed' = [missed EXCEPT ![rd[r].file] = LastTaken(r)]
         /\ taken' \in [Queues -> Nat] /\ missed' \in [Queues -> Nat]
<1> DEFINE q == rd[r].file
           cnt == TakeCount(r)
           h == (ring[q].head + cnt) % N
<1>1. q \in Queues /\ cnt \in 0..N-1
  BY TakeCountOK, RingOK DEF ReadTake
<1>2. /\ ring' = [ring EXCEPT ![q].head = h]
      /\ \/ cnt = 0 /\ UNCHANGED <<taken, missed>>
         \/ cnt # 0 /\ UNCHANGED missed /\ taken' = [taken EXCEPT ![q] = LastTaken(r)]
         \/ cnt # 0 /\ UNCHANGED taken /\ missed' = [missed EXCEPT ![q] = LastTaken(r)]
  BY DEF ReadTake, TakeCount, LastTaken
<1>3. h \in 0..N-1 /\ (cnt # 0 => (ring[q].head + cnt - 1) % N \in 0..N-1)
  <2> HIDE DEF cnt
  <2>1. ring[q].head \in 0..N-1
    BY <1>1, RingOK
  <2> QED
    BY <1>1, <2>1, Wrap
<1>4. cnt # 0 => LastTaken(r) \in Nat
  BY <1>1, <1>3, RingOK DEF LastTaken
<1> HIDE DEF cnt
<1>5. taken' \in [Queues -> Nat] /\ missed' \in [Queues -> Nat]
  BY <1>1, <1>2, <1>4 DEF TypeOK
<1>6. RingBecomes(q, ring[q].buf, h, ring[q].tail)
  BY <1>1, <1>2, <1>3, SetHead
<1> QED
  BY <1>2, <1>5, <1>6 DEF cnt

-----------------------------------------------------------------------------
(* The invariant's parts, one by one. *)

\* A queue is never one of the writer's other program points.
LEMMA QueueNames == \A q \in Queues : q # "idle" /\ q # "queue"
  OBVIOUS

\* Every action keeps the types.
LEMMA TypeStep == TypeOK /\ ReadersInside /\ [Next]_vars => TypeOK'
<1> SUFFICES ASSUME TypeOK, ReadersInside, [Next]_vars PROVE TypeOK'
  OBVIOUS
<1>1. ASSUME NEW c \in Channels, EventBegin(c) PROVE TypeOK'
  BY <1>1 DEF TypeOK, EventBegin
<1>2. ASSUME NEW q \in Queues, EnqueueHead(q) PROVE TypeOK'
  <2>1. ring' \in [Queues -> Ring]
    BY <1>2, EnqueueHeadRing DEF RingBecomes
  <2> QED
    BY <1>2, <2>1 DEF TypeOK, EnqueueHead
<1>3. ASSUME NEW q \in Queues, EnqueueTail(q) PROVE TypeOK'
  <2>1. ring' \in [Queues -> Ring]
    BY <1>3, EnqueueTailRing DEF RingBecomes
  <2> QED
    BY <1>3, <2>1 DEF TypeOK, EnqueueTail
<1>4. CASE EventWake
  BY <1>4 DEF TypeOK, EventWake
<1>5. ASSUME NEW r \in Readers, NEW f \in Files, NEW w \in 1..Batch, ReadBegin(r, f, w)
      PROVE  TypeOK'
  <2>1. [pc |-> "prepare", file |-> f, want |-> w, tail |-> 0] \in Reading
    BY DEF Reading
  <2> QED
    BY <1>5, <2>1 DEF TypeOK, ReadBegin
<1>6. NotReading \in Reading
  BY DEF NotReading, Reading
<1>7. ASSUME NEW r \in Readers, ReadInterrupted(r) PROVE TypeOK'
  BY <1>6, <1>7 DEF TypeOK, ReadInterrupted
<1>8. CASE FifoShow
  <2>1. Sysfs \in Queues
    BY DEF Queues
  <2>2. ring' \in [Queues -> Ring]
    BY <1>8, <2>1, RingOK, IncrOK, SetHead DEF RingBecomes, FifoShow
  <2>3. taken' \in [Queues -> Nat]
    BY <1>8, <2>1, RingOK DEF TypeOK, FifoShow
  <2> QED
    BY <1>8, <2>2, <2>3 DEF TypeOK, FifoShow
<1>9. ASSUME NEW f \in Files, PtpOpen(f) \/ PtpRelease(f) PROVE TypeOK'
  <2>1. f \in Queues
    BY DEF Queues
  <2>2. ring' \in [Queues -> Ring]
    BY <1>9, <2>1, SetEmpty DEF RingBecomes, PtpOpen, PtpRelease
  <2> QED
    BY <1>9, <2>1, <2>2 DEF TypeOK, PtpOpen, PtpRelease
<1>10. ASSUME NEW f \in Files, MaskClearAll(f) PROVE TypeOK'
  BY <1>10 DEF TypeOK, MaskClearAll
<1>11. ASSUME NEW f \in Files, NEW c \in Channels, MaskEnSingle(f, c) PROVE TypeOK'
  BY <1>11 DEF TypeOK, MaskEnSingle, Queues
<1>12. ASSUME NEW r \in Readers, ReadPrepare(r) \/ ReadWoken(r) \/ ReadAllocate(r) PROVE TypeOK'
  BY <1>6, <1>12 DEF TypeOK, ReadPrepare, ReadWoken, ReadAllocate, Reading
<1>13. ASSUME NEW r \in Readers, ReadTestTail(r) \/ ReadTestHead(r) PROVE TypeOK'
  <2>1. ring[rd[r].file].tail \in 0..N-1
    BY <1>13, RingOK DEF ReadersInside, ReadTestTail, ReadTestHead, Queues
  <2> QED
    BY <1>13, <2>1 DEF TypeOK, ReadTestTail, ReadTestHead, Reading
<1>14. ASSUME NEW r \in Readers, ReadTake(r) PROVE TypeOK'
  <2>1. ring' \in [Queues -> Ring] /\ taken' \in [Queues -> Nat] /\ missed' \in [Queues -> Nat]
    BY <1>14, ReadTakeRing DEF RingBecomes
  <2> QED
    BY <1>6, <1>14, <2>1 DEF TypeOK, ReadTake
<1>15. CASE UnregisterDefunct \/ Unregister
  BY <1>15 DEF TypeOK, UnregisterDefunct, Unregister, UnregisterWake, UnregisterZombie
<1>16. CASE ClockRelease \/ ClockRegister
  <2>1. Sysfs \in Queues
    BY DEF Queues
  <2>2. ring' \in [Queues -> Ring]
    BY <1>16, <2>1, SetEmpty DEF TypeOK, RingBecomes, ClockRelease, ClockRegister
  <2> QED
    BY <1>16, <2>1, <2>2 DEF TypeOK, ClockRelease, ClockRegister
<1>17. CASE UNCHANGED vars
  BY <1>17 DEF TypeOK, vars
<1> QED
  BY <1>1, <1>2, <1>3, <1>4, <1>5, <1>7, <1>8, <1>9, <1>10, <1>11, <1>12, <1>13, <1>14,
     <1>15, <1>16, <1>17 DEF Next, Writer, User, ReaderStep

\* A reader is inside while its file is open: PtpRelease waits for it, and
\* ptp_clock_release comes after posix_clock_unregister has.
LEMMA ReadersInsideStep ==
  TypeOK /\ ReadersInside /\ PhaseOK /\ [Next]_vars => ReadersInside'
<1> SUFFICES ASSUME TypeOK, ReadersInside, PhaseOK, [Next]_vars PROVE ReadersInside'
  OBVIOUS
<1> USE DEF TypeOK, Reading, ReadersInside
<1>1. CASE UNCHANGED <<rd, listed>>
  BY <1>1
<1>2. ASSUME NEW r \in Readers, NEW f \in Files, NEW w \in 1..Batch, ReadBegin(r, f, w)
      PROVE  ReadersInside'
  BY <1>2 DEF ReadBegin
<1>3. ASSUME NEW r \in Readers, ReaderStep(r) \/ ReadInterrupted(r) PROVE ReadersInside'
  BY <1>3 DEF ReaderStep, ReadPrepare, ReadTestTail, ReadTestHead, ReadWoken, ReadAllocate, ReadTake,
              ReadInterrupted, NotReading
<1>4. ASSUME NEW f \in Files, PtpOpen(f) \/ PtpRelease(f) PROVE ReadersInside'
  BY <1>4 DEF PtpOpen, PtpRelease
<1>5. CASE ClockRelease \/ ClockRegister
  BY <1>5 DEF ClockRelease, ClockRegister, PhaseOK
<1> HIDE DEF TypeOK, Reading, ReadersInside
<1>6. CASE Writer
  BY <1>1, <1>6 DEF Writer, EventBegin, EnqueueHead, EnqueueTail, EventWake
<1>7. CASE FifoShow \/ UnregisterDefunct \/ Unregister
  BY <1>1, <1>7 DEF FifoShow, UnregisterDefunct, Unregister, UnregisterWake, UnregisterZombie
<1>8. ASSUME NEW f \in Files,
             MaskClearAll(f) \/ \E c \in Channels : MaskEnSingle(f, c)
      PROVE  ReadersInside'
  BY <1>1, <1>8 DEF MaskClearAll, MaskEnSingle
<1>9. CASE UNCHANGED vars
  BY <1>1, <1>9 DEF vars
<1> QED
  BY <1>2, <1>3, <1>4, <1>5, <1>6, <1>7, <1>8, <1>9 DEF Next, User

\* No event is under way once the clock is defunct, and nobody is inside once it
\* is a zombie.
LEMMA PhaseStep == TypeOK /\ PhaseOK /\ [Next]_vars => PhaseOK'
<1> SUFFICES ASSUME TypeOK, PhaseOK, [Next]_vars PROVE PhaseOK'
  OBVIOUS
<1> USE DEF TypeOK, Reading, PhaseOK
<1>1. CASE Writer
  <2>1. CASE EventWake \/ \E c \in Channels : EventBegin(c)
    BY <2>1 DEF EventWake, EventBegin
  <2>2. ASSUME NEW q \in Queues, EnqueueHead(q) \/ EnqueueTail(q) PROVE PhaseOK'
    BY <2>2, QueueNames DEF EnqueueHead, EnqueueTail
  <2> QED
    BY <1>1, <2>1, <2>2 DEF Writer
<1>2. ASSUME NEW r \in Readers, NEW f \in Files, NEW w \in 1..Batch, ReadBegin(r, f, w)
      PROVE  PhaseOK'
  BY <1>2 DEF ReadBegin, CanEnter
<1>3. ASSUME NEW r \in Readers, ReaderStep(r) \/ ReadInterrupted(r) PROVE PhaseOK'
  BY <1>3 DEF ReaderStep, ReadPrepare, ReadTestTail, ReadTestHead, ReadWoken, ReadAllocate, ReadTake,
              ReadInterrupted, NotReading
<1>4. ASSUME NEW f \in Files, PtpOpen(f) \/ PtpRelease(f) PROVE PhaseOK'
  BY <1>4 DEF PtpOpen, PtpRelease, CanEnter
<1>5. ASSUME NEW f \in Files,
             MaskClearAll(f) \/ \E c \in Channels : MaskEnSingle(f, c)
      PROVE  PhaseOK'
  BY <1>5 DEF MaskClearAll, MaskEnSingle
<1>6. CASE FifoShow
  BY <1>6 DEF FifoShow
<1>7. CASE UnregisterDefunct \/ Unregister \/ ClockRelease \/ ClockRegister
  BY <1>7 DEF UnregisterDefunct, Unregister, UnregisterWake, UnregisterZombie,
              ClockRelease, ClockRegister, NotReading
<1>8. CASE UNCHANGED vars
  BY <1>8 DEF vars
<1> QED
  BY <1>1, <1>2, <1>3, <1>4, <1>5, <1>6, <1>7, <1>8 DEF Next, User

\* The heart of the wake-up argument: a reader's tail is stale only while the
\* event that made it so is still under way, or the reader has been woken.
LEMMA WaitersStep ==
  TypeOK /\ ReadersInside /\ PhaseOK /\ WaitersOK /\ [Next]_vars => WaitersOK'
<1> SUFFICES ASSUME TypeOK, ReadersInside, PhaseOK, WaitersOK, [Next]_vars
             PROVE  WaitersOK'
  OBVIOUS
<1>1. \A r \in waiting : r \in Readers /\ rd[r].file \in Files \cap listed
  BY DEF TypeOK, ReadersInside, WaitersOK
<1>2. CASE Writer
  <2>1. CASE EventWake \/ \E c \in Channels : EventBegin(c)
    BY <2>1 DEF EventWake, EventBegin, WaitersOK
  <2>2. ASSUME NEW q \in Queues, EnqueueHead(q) \/ EnqueueTail(q) PROVE WaitersOK'
    <3>1. writer'.pc \in {q, "queue"} /\ UNCHANGED <<rd, waiting, phase>>
      BY <2>2 DEF EnqueueHead, EnqueueTail, TypeOK
    <3> QED
      BY <3>1, QueueNames DEF WaitersOK
  <2> QED
    BY <1>2, <2>1, <2>2 DEF Writer
<1>3. ASSUME NEW r \in Readers, NEW f \in Files, NEW w \in 1..Batch, ReadBegin(r, f, w)
      PROVE  WaitersOK'
  BY <1>1, <1>3 DEF ReadBegin, NotReading, WaitersOK, TypeOK
<1>4. ASSUME NEW r \in Readers,
             ReadInterrupted(r) \/ ReadPrepare(r) \/ ReadWoken(r) \/ ReadAllocate(r)
      PROVE  WaitersOK'
  BY <1>4 DEF ReadInterrupted, ReadPrepare, ReadWoken, ReadAllocate, NotReading, WaitersOK, TypeOK, Reading
<1>5. ASSUME NEW r \in Readers, ReadTestTail(r) PROVE WaitersOK'
  <2>1. CASE phase # "live"
    BY <1>5, <2>1 DEF ReadTestTail, Defunct, WaitersOK, TypeOK, Reading
  <2>2. CASE phase = "live"
    BY <1>5, <2>2 DEF ReadTestTail, Defunct, WaitersOK, TypeOK, Reading
  <2> QED
    BY <2>1, <2>2
<1>6. ASSUME NEW r \in Readers, ReadTestHead(r) PROVE WaitersOK'
  <2>1. rd[r].file \in Queues /\ rd[r].tail \in 0..N-1
    BY <1>6 DEF ReadTestHead, ReadersInside, TypeOK, Reading, Queues
  <2>2. Count(rd[r].tail, ring[rd[r].file].head) = 0
          => rd[r].tail = ring[rd[r].file].head
    <3>1. ring[rd[r].file].head \in 0..N-1
      BY <2>1, RingOK
    <3> QED
      BY <2>1, <3>1, CountOK
  <2> QED
    BY <1>1, <1>6, <2>2 DEF ReadTestHead, WaitersOK, TypeOK, Reading
<1>7. ASSUME NEW r \in Readers, ReadTake(r) PROVE WaitersOK'
  <2>0. UNCHANGED <<waiting, phase, writer>>
    BY <1>7 DEF ReadTake
  <2> SUFFICES ASSUME NEW s \in waiting PROVE rd'[s] = rd[s] /\
         ring'[rd[s].file].tail = ring[rd[s].file].tail
         /\ (ring[rd[s].file].tail = ring[rd[s].file].head => ring'[rd[s].file].head = ring[rd[s].file].head)
    BY <2>0 DEF WaitersOK
  <2>1. s # r /\ s \in Readers /\ rd'[s] = rd[s] /\ rd[s].file \in Queues
    BY <1>1, <1>7 DEF ReadTake, WaitersOK, TypeOK, Queues
  <2>2. CASE rd[s].file # rd[r].file
    BY <1>7, <2>1, <2>2, ReadTakeRing DEF RingBecomes
  <2>3. CASE rd[s].file = rd[r].file
    <3> DEFINE q == rd[s].file
    <3>1. /\ ring'[q].tail = ring[q].tail
          /\ ring'[q].head = (ring[q].head + TakeCount(r)) % N
      BY <1>7, <2>3, ReadTakeRing DEF RingBecomes
    <3>2. ring[q].tail = ring[q].head => TakeCount(r) = 0
      <4>1. TakeCount(r) \in 0..QueueCnt(q)
        BY <1>7, <2>3, TakeCountOK DEF ReadTake
      <4>2. ring[q].tail = ring[q].head => QueueCnt(q) = 0
        BY <2>1, RingOK, CountOK DEF QueueCnt
      <4> QED
        BY <4>1, <4>2
    <3>3. ring[q].head \in 0..N-1
      BY <2>1, RingOK
    <3>4. (ring[q].head + 0) % N = ring[q].head
      BY <3>3, Wrap
    <3> QED
      BY <2>1, <3>1, <3>2, <3>4
  <2> QED
    BY <2>2, <2>3
<1>8. CASE FifoShow
  <2>1. \A q \in Files : ring'[q] = ring[q]
    BY <1>8 DEF FifoShow, TypeOK, Queues
  <2> QED
    BY <1>1, <1>8, <2>1 DEF FifoShow, WaitersOK
<1>9. ASSUME NEW f \in Files, PtpOpen(f) \/ PtpRelease(f) PROVE WaitersOK'
  <2>1. \A q \in Files \ {f} : ring'[q] = ring[q]
    BY <1>9 DEF PtpOpen, PtpRelease, TypeOK, Queues
  <2> QED
    BY <1>1, <1>9, <2>1 DEF PtpOpen, PtpRelease, WaitersOK
<1>10. ASSUME NEW f \in Files,
              MaskClearAll(f) \/ \E c \in Channels : MaskEnSingle(f, c)
       PROVE  WaitersOK'
  BY <1>10 DEF MaskClearAll, MaskEnSingle, WaitersOK
<1>11. CASE UnregisterDefunct \/ Unregister \/ ClockRelease \/ ClockRegister
  BY <1>1, <1>11 DEF UnregisterDefunct, Unregister, UnregisterWake, UnregisterZombie,
     ClockRelease, ClockRegister, NotReading, PhaseOK, WaitersOK
<1>12. CASE UNCHANGED vars
  BY <1>12 DEF vars, WaitersOK
<1> QED
  BY <1>2, <1>3, <1>4, <1>5, <1>6, <1>7, <1>8, <1>9, <1>10, <1>11, <1>12
     DEF Next, User, ReaderStep

\* A full queue has lost its oldest event before the new one is published, and
\* the queues the writer still has to do stay on the list it holds the lock of.
LEMMA WriterStep ==
  TypeOK /\ ReadersInside /\ PhaseOK /\ WriterOK /\ [Next]_vars => WriterOK'
<1> SUFFICES ASSUME TypeOK, ReadersInside, PhaseOK, WriterOK, [Next]_vars
             PROVE  WriterOK'
  OBVIOUS
<1>1. ASSUME NEW c \in Channels, EventBegin(c) PROVE WriterOK'
  BY <1>1 DEF EventBegin, WriterOK, TypeOK
<1>2. ASSUME NEW q \in Queues, EnqueueHead(q) PROVE WriterOK'
  <2> DEFINE h == IF QueueFree(q) = 0 THEN Incr(ring[q].head) ELSE ring[q].head
  <2>1. /\ writer'.pc = q /\ writer'.todo = writer.todo /\ q \in writer.todo
        /\ UNCHANGED <<listed, produced>> /\ produced > 0
    BY <1>2 DEF EnqueueHead, TypeOK, WriterOK
  <2>2. /\ ring'[q].buf = [ring[q].buf EXCEPT ![ring[q].tail] = produced]
        /\ ring'[q].head = h
        /\ ring'[q].tail = ring[q].tail
    BY <1>2, EnqueueHeadRing DEF RingBecomes
  <2>3. ring'[q].buf[ring'[q].tail] = produced
    BY <2>2, RingOK
  <2>4. Count(ring[q].tail, h) < N - 1
    <3>1. Count(ring[q].tail, ring[q].head) \in 0..N-1
      BY RingOK DEF QueueCnt
    <3>2. CASE QueueFree(q) = 0
      <4>1. Count(ring[q].tail, ring[q].head) = N - 1
        BY <3>1, <3>2 DEF QueueFree, QueueCnt
      <4>2. 1 \in 0..Count(ring[q].tail, ring[q].head)
        BY <4>1
      <4>3. Count(ring[q].tail, (ring[q].head + 1) % N) = N - 2
        <5>1. ring[q].tail \in 0..N-1 /\ ring[q].head \in 0..N-1
          BY RingOK
        <5> QED
          BY <4>1, <4>2, <5>1, CountAfterTake
      <4> QED
        BY <3>2, <4>3 DEF Incr
    <3>3. CASE QueueFree(q) # 0
      BY <3>1, <3>3 DEF QueueFree, QueueCnt
    <3> QED
      BY <3>2, <3>3
  <2>5. QueueCnt(q)' < N - 1
    BY <2>2, <2>4 DEF QueueCnt
  <2> QED
    BY <2>1, <2>3, <2>5, QueueNames DEF WriterOK, QueueCnt
<1>3. ASSUME NEW q \in Queues, EnqueueTail(q) PROVE WriterOK'
  BY <1>3, QueueNames DEF EnqueueTail, WriterOK
<1>4. CASE EventWake
  BY <1>4, QueueNames DEF EventWake, WriterOK, TypeOK
<1>5. ASSUME UNCHANGED <<writer, produced>>, writer.todo \subseteq listed',
             writer.pc \in Queues => ring'[writer.pc] = ring[writer.pc]
      PROVE  WriterOK'
  BY <1>5 DEF WriterOK, QueueCnt
<1>6. ASSUME NEW r \in Readers, ReaderStep(r) PROVE WriterOK'
  <2>1. CASE ReadTake(r)
    <3>1. \A q \in Queues \ {rd[r].file} : ring'[q] = ring[q]
      BY <2>1, ReadTakeRing DEF RingBecomes
    <3> QED
      BY <1>5, <2>1, <3>1 DEF ReadTake, QueueLocked, WriterOK
  <2> QED
    BY <1>5, <1>6, <2>1 DEF ReaderStep, ReadPrepare, ReadTestTail, ReadTestHead, ReadWoken,
                            ReadAllocate, WriterOK
<1>7. CASE FifoShow
  BY <1>5, <1>7 DEF FifoShow, QueueLocked, WriterOK, TypeOK
<1>8. ASSUME NEW f \in Files, PtpOpen(f) \/ PtpRelease(f) PROVE WriterOK'
  BY <1>5, <1>8 DEF PtpOpen, PtpRelease, ListLocked, WriterOK
<1>9. CASE ClockRelease \/ ClockRegister
  BY <1>5, <1>9, QueueNames DEF ClockRelease, ClockRegister, PhaseOK, WriterOK
<1>10. ASSUME NEW f \in Files,
              MaskClearAll(f) \/ \E c \in Channels : MaskEnSingle(f, c)
       PROVE  WriterOK'
  BY <1>5, <1>10 DEF MaskClearAll, MaskEnSingle, WriterOK
<1>11. ASSUME NEW r \in Readers,
              ReadInterrupted(r) \/ \E f \in Files, w \in 1..Batch : ReadBegin(r, f, w)
       PROVE  WriterOK'
  BY <1>5, <1>11 DEF ReadInterrupted, ReadBegin, WriterOK
<1>12. CASE UnregisterDefunct \/ Unregister \/ UNCHANGED vars
  BY <1>5, <1>12 DEF UnregisterDefunct, Unregister, UnregisterWake, UnregisterZombie, vars,
                     WriterOK
<1> QED
  BY <1>1, <1>2, <1>3, <1>4, <1>6, <1>7, <1>8, <1>9, <1>10, <1>11, <1>12
     DEF Next, Writer, User

\* The newest event is last in every queue it gets to.
LEMMA EventsStep ==
  TypeOK /\ ReadersInside /\ PhaseOK /\ WriterOK /\ EventsOK /\ [Next]_vars => EventsOK'
<1> SUFFICES ASSUME TypeOK, ReadersInside, PhaseOK, WriterOK, EventsOK, [Next]_vars
             PROVE  EventsOK'
  OBVIOUS
<1>1. ASSUME NEW c \in Channels, EventBegin(c) PROVE EventsOK'
  <2>1. produced \in Nat /\ \A q \in Queues : \A i \in 0..N-1 : ring[q].buf[i] \in Nat
    BY RingOK DEF TypeOK
  <2> QED
    BY <1>1, <2>1, QueueNames DEF EventBegin, EventsOK
<1>2. ASSUME NEW q \in Queues, EnqueueHead(q) PROVE EventsOK'
  <2>1. /\ ring'[q].buf = [ring[q].buf EXCEPT ![ring[q].tail] = produced]
        /\ ring'[q].tail = ring[q].tail
        /\ \A p \in Queues \ {q} : ring'[p] = ring[p]
    BY <1>2, EnqueueHeadRing DEF RingBecomes
  <2>2. writer.pc = "queue" /\ writer'.todo = writer.todo /\ writer'.pc = q
        /\ produced' = produced
    BY <1>2 DEF EnqueueHead, TypeOK
  <2>3. \A i \in 0..N-1 : ring'[q].buf[i] = IF i = ring[q].tail THEN produced ELSE ring[q].buf[i]
    BY <2>1, RingOK
  <2>4. produced \in Nat
    BY DEF TypeOK
  <2> QED
    <3> SUFFICES ASSUME NEW p \in Queues, NEW i \in 0..N-1
                 PROVE  /\ ring'[p].buf[i] <= produced
                        /\ (p \in writer.todo /\ (q = p => i # ring'[p].tail))
                              => ring'[p].buf[i] < produced
      BY <2>2 DEF EventsOK
    <3>1. /\ ring[p].buf[i] <= produced
          /\ p \in writer.todo => ring[p].buf[i] < produced
      BY <2>2, QueueNames DEF EventsOK
    <3>2. CASE p = q
      <4>1. /\ ring'[p].buf[i] = IF i = ring[p].tail THEN produced ELSE ring[p].buf[i]
            /\ ring'[p].tail = ring[p].tail
        BY <2>1, <2>3, <3>2
      <4> QED
        BY <2>4, <3>1, <3>2, <4>1
    <3>3. CASE p # q
      <4>1. ring'[p] = ring[p]
        BY <2>1, <3>3
      <4> QED
        BY <3>1, <4>1
    <3> QED
      BY <3>2, <3>3
<1>3. ASSUME NEW q \in Queues, EnqueueTail(q) PROVE EventsOK'
  <2>1. /\ ring'[q].buf = ring[q].buf
        /\ \A p \in Queues \ {q} : ring'[p] = ring[p]
    BY <1>3, EnqueueTailRing DEF RingBecomes
  <2> QED
    BY <1>3, <2>1, QueueNames DEF EnqueueTail, EventsOK
<1>4. ASSUME UNCHANGED produced, writer'.todo = writer.todo,
             writer'.pc = writer.pc \/ writer.todo = {},
             \A q \in Queues : \/ ring'[q].buf = ring[q].buf /\ ring'[q].tail = ring[q].tail
                               \/ ring'[q].buf = EmptyRing.buf /\ q \notin writer.todo
      PROVE  EventsOK'
  <2>1. \A i \in 0..N-1 : EmptyRing.buf[i] = 0
    BY DEF EmptyRing
  <2>2. 0 <= produced
    BY DEF TypeOK
  <2> QED
    BY <1>4, <2>1, <2>2 DEF EventsOK
<1>5. ASSUME NEW r \in Readers, ReaderStep(r) PROVE EventsOK'
  <2>1. CASE ReadTake(r)
    <3>1. \A q \in Queues : ring'[q].buf = ring[q].buf /\ ring'[q].tail = ring[q].tail
      BY <2>1, ReadTakeRing DEF RingBecomes
    <3> QED
      BY <1>4, <2>1, <3>1 DEF ReadTake
  <2> QED
    BY <1>4, <1>5, <2>1 DEF ReaderStep, ReadPrepare, ReadTestTail, ReadTestHead, ReadWoken,
                            ReadAllocate
<1>6. CASE FifoShow
  <2>1. RingBecomes(Sysfs, ring[Sysfs].buf, Incr(ring[Sysfs].head), ring[Sysfs].tail)
    BY <1>6, RingOK, IncrOK, SetHead DEF FifoShow, Queues
  <2> QED
    BY <1>4, <1>6, <2>1 DEF FifoShow, RingBecomes
<1>7. ASSUME NEW f \in Files, PtpOpen(f) \/ PtpRelease(f) PROVE EventsOK'
  <2>1. RingBecomes(f, EmptyRing.buf, 0, 0)
    BY <1>7, SetEmpty DEF PtpOpen, PtpRelease, Queues
  <2>2. f \notin writer.todo
    BY <1>7 DEF PtpOpen, PtpRelease, ListLocked, WriterOK
  <2> QED
    BY <1>4, <1>7, <2>1, <2>2 DEF PtpOpen, PtpRelease, RingBecomes
<1>8. CASE ClockRelease \/ ClockRegister
  <2>1. writer.todo = {}
    BY <1>8 DEF ClockRelease, ClockRegister, PhaseOK, WriterOK
  <2>2. CASE ClockRelease
    <3>1. RingBecomes(Sysfs, EmptyRing.buf, 0, 0)
      BY <2>2, SetEmpty DEF ClockRelease, Queues
    <3> QED
      BY <1>4, <2>1, <2>2, <3>1 DEF ClockRelease, RingBecomes
  <2> QED
    BY <1>4, <1>8, <2>2 DEF ClockRegister
<1>9. CASE EventWake
  BY <1>4, <1>9 DEF EventWake, TypeOK
<1>10. ASSUME NEW f \in Files,
              MaskClearAll(f) \/ \E c \in Channels : MaskEnSingle(f, c)
       PROVE  EventsOK'
  BY <1>4, <1>10 DEF MaskClearAll, MaskEnSingle
<1>11. ASSUME NEW r \in Readers,
              ReadInterrupted(r) \/ \E f \in Files, w \in 1..Batch : ReadBegin(r, f, w)
       PROVE  EventsOK'
  BY <1>4, <1>11 DEF ReadInterrupted, ReadBegin
<1>12. CASE UnregisterDefunct \/ Unregister \/ UNCHANGED vars
  BY <1>4, <1>12 DEF UnregisterDefunct, Unregister, UnregisterWake, UnregisterZombie, vars
<1> QED
  BY <1>1, <1>2, <1>3, <1>5, <1>6, <1>7, <1>8, <1>9, <1>10, <1>11, <1>12
     DEF Next, Writer, User

\* A queue is changed only while it is on the list, and left empty when it goes.
LEMMA ClosedStep ==
  TypeOK /\ ReadersInside /\ PhaseOK /\ WriterOK /\ ClosedOK /\ [Next]_vars => ClosedOK'
<1> SUFFICES ASSUME TypeOK, ReadersInside, PhaseOK, WriterOK, ClosedOK, [Next]_vars
             PROVE  ClosedOK'
  OBVIOUS
<1> DEFINE SameQueue(p) == ring'[p] = ring[p] /\ taken'[p] = taken[p] /\ missed'[p] = missed[p]
<1>1. ASSUME NEW q \in listed, listed' = listed,
             \A p \in Queues \ {q} : SameQueue(p)
      PROVE  ClosedOK'
  BY <1>1 DEF ClosedOK
<1>2. CASE UNCHANGED <<ring, taken, missed, listed>>
  BY <1>2 DEF ClosedOK
<1>3. ASSUME NEW q \in Queues, EnqueueHead(q) PROVE ClosedOK'
  BY <1>1, <1>3, EnqueueHeadRing DEF EnqueueHead, RingBecomes, WriterOK
<1>4. ASSUME NEW q \in Queues, EnqueueTail(q) PROVE ClosedOK'
  BY <1>1, <1>4, EnqueueTailRing DEF EnqueueTail, RingBecomes, WriterOK
<1>5. ASSUME NEW r \in Readers, ReadTake(r) PROVE ClosedOK'
  <2>1. rd[r].file \in listed
    BY <1>5 DEF ReadTake, ReadersInside
  <2>2. \A p \in Queues \ {rd[r].file} : SameQueue(p)
    BY <1>5, ReadTakeRing DEF RingBecomes, TypeOK
  <2> QED
    BY <1>1, <1>5, <2>1, <2>2 DEF ReadTake
<1>6. CASE FifoShow
  <2>1. \A p \in Queues \ {Sysfs} : SameQueue(p)
    BY <1>6 DEF FifoShow, TypeOK
  <2> QED
    BY <1>1, <1>6, <2>1 DEF FifoShow, PhaseOK
<1>7. ASSUME NEW f \in Files, PtpOpen(f) \/ PtpRelease(f) PROVE ClosedOK'
  BY <1>7 DEF PtpOpen, PtpRelease, ClosedOK, TypeOK
<1>8. CASE ClockRelease \/ ClockRegister
  BY <1>8 DEF ClockRelease, ClockRegister, ClosedOK, TypeOK, PhaseOK
<1>9. ASSUME NEW r \in Readers,
             \/ ReadPrepare(r) \/ ReadTestTail(r) \/ ReadTestHead(r) \/ ReadWoken(r)
             \/ ReadAllocate(r) \/ ReadInterrupted(r) \/ \E f \in Files, w \in 1..Batch : ReadBegin(r, f, w)
      PROVE  ClosedOK'
  BY <1>2, <1>9 DEF ReadPrepare, ReadTestTail, ReadTestHead, ReadWoken, ReadAllocate, ReadInterrupted,
                    ReadBegin
<1>10. ASSUME NEW f \in Files,
              MaskClearAll(f) \/ \E c \in Channels : MaskEnSingle(f, c)
       PROVE  ClosedOK'
  BY <1>2, <1>10 DEF MaskClearAll, MaskEnSingle
<1>11. CASE EventWake \/ \E c \in Channels : EventBegin(c)
  BY <1>2, <1>11 DEF EventWake, EventBegin
<1>12. CASE UnregisterDefunct \/ Unregister \/ UNCHANGED vars
  BY <1>2, <1>12 DEF UnregisterDefunct, Unregister, UnregisterWake, UnregisterZombie, vars
<1> QED
  BY <1>3, <1>4, <1>5, <1>6, <1>7, <1>8, <1>9, <1>10, <1>11, <1>12
     DEF Next, Writer, User, ReaderStep

-----------------------------------------------------------------------------
\* The invariant holds initially ...
LEMMA IInvInit == Init => IInv
<1> SUFFICES ASSUME Init PROVE IInv
  OBVIOUS
<1>1. EmptyRing \in Ring /\ EmptyRing.head = 0 /\ EmptyRing.tail = 0
      /\ \A i \in 0..N-1 : EmptyRing.buf[i] = 0
  BY DEF EmptyRing, Ring
<1>2. NotReading \in Reading /\ NotReading.pc = "none"
  BY DEF NotReading, Reading
<1>3. TypeOK
  BY <1>1, <1>2 DEF Init, TypeOK, Queues
<1>4. ReadersInside /\ PhaseOK /\ WaitersOK
  BY <1>2 DEF Init, ReadersInside, PhaseOK, WaitersOK
<1>5. WriterOK /\ EventsOK /\ ClosedOK
  BY <1>1 DEF Init, WriterOK, EventsOK, ClosedOK
<1> QED
  BY <1>3, <1>4, <1>5 DEF IInv

\* ... and every step keeps it.
LEMMA IInvStep == IInv /\ [Next]_vars => IInv'
  BY TypeStep, ReadersInsideStep, PhaseStep, WaitersStep, WriterStep, EventsStep, ClosedStep
     DEF IInv

\* The indices, the readers' files and the writer's queues stay what they are
\* meant to be, whatever threads open, read, close and unregister.
THEOREM Invariant == Spec => []IInv
  BY IInvInit, IInvStep, PTL DEF Spec

\* No wake-up is lost (ptp_read against ptp_clock_event and
\* ptp_clock_unregister), for any number of readers, files and events.
THEOREM WakeupsNeverLost == Spec => []NoLostWakeup
<1>1. IInv => NoLostWakeup
  <2> SUFFICES ASSUME IInv, NEW r \in waiting, rd[r].pc = "sleep", writer.pc = "idle",
                      phase # "defunct"
               PROVE  ~Defunct /\ QueueCnt(rd[r].file) = 0
    BY DEF NoLostWakeup
  <2>1. phase = "live"
    BY DEF IInv, WaitersOK
  <2>2. ring[rd[r].file].tail = ring[rd[r].file].head
    BY <2>1 DEF IInv, WaitersOK
  <2>3. rd[r].file \in Queues
    BY DEF IInv, TypeOK, ReadersInside, Queues
  <2>4. ring[rd[r].file].tail \in 0..N-1
    BY <2>3, RingOK DEF IInv
  <2> QED
    BY <2>1, <2>2, <2>4, CountOK DEF Defunct, QueueCnt
<1> QED
  BY <1>1, Invariant, PTL

-----------------------------------------------------------------------------
(* The refinement.  A ring stands for the sequence of its events, oldest   *)
(* first; moving the head on removes from its front, moving the tail on    *)
(* adds what is in the slot there.                                         *)

SeqOf(R) == [i \in 1..Count(R.tail, R.head) |-> R.buf[(R.head + i - 1) % N]]

\* What a ring stands for is a sequence of events with queue_cnt elements.
LEMMA SeqOfOK ==
  ASSUME NEW R \in Ring
  PROVE  /\ Count(R.tail, R.head) \in 0..N-1
         /\ SeqOf(R) \in Seq(Nat)
         /\ Len(SeqOf(R)) = Count(R.tail, R.head)
         /\ \A i \in 1..Count(R.tail, R.head) :
              SeqOf(R)[i] = R.buf[(R.head + i - 1) % N]
<1>1. R.tail \in 0..N-1 /\ R.head \in 0..N-1 /\ R.buf \in [0..N-1 -> Nat]
  BY DEF Ring
<1>2. Count(R.tail, R.head) \in 0..N-1
  BY <1>1, CountOK
<1>3. ASSUME NEW i \in 1..Count(R.tail, R.head)
      PROVE  R.buf[(R.head + i - 1) % N] \in Nat
  <2>1. (R.head + i - 1) % N \in 0..N-1
    <3>1. R.head + i - 1 \in 0..(2 * N - 1)
      BY <1>1, <1>2
    <3> QED
      BY <3>1, Wrap
  <2> QED
    BY <1>1, <2>1
<1> QED
  BY <1>2, <1>3 DEF SeqOf

\* Moving the head on by n removes the n oldest events.
LEMMA SeqOfTake ==
  ASSUME NEW R \in Ring, NEW S \in Ring, NEW n \in 0..Count(R.tail, R.head),
         S.tail = R.tail, S.head = (R.head + n) % N,
         \A j \in (0..N-1) \ {R.tail} : S.buf[j] = R.buf[j]
  PROVE  SeqOf(S) = SubSeq(SeqOf(R), n + 1, Len(SeqOf(R)))
<1> DEFINE c == Count(R.tail, R.head)
<1>1. R.tail \in 0..N-1 /\ R.head \in 0..N-1 /\ c \in 0..N-1
  BY SeqOfOK DEF Ring
<1>2. Count(S.tail, S.head) = c - n
  BY <1>1, CountAfterTake
<1>3. /\ SubSeq(SeqOf(R), n + 1, c) \in Seq(Nat)
      /\ Len(SubSeq(SeqOf(R), n + 1, c)) = c - n
      /\ \A i \in 1..c-n : SubSeq(SeqOf(R), n + 1, c)[i] = SeqOf(R)[n + i]
  <2>1. SeqOf(R) \in Seq(Nat) /\ Len(SeqOf(R)) = c
    BY SeqOfOK
  <2>2. n + 1 \in Int /\ c \in Int /\ \A i \in (n + 1)..c : SeqOf(R)[i] \in Nat
    BY <1>1, <2>1, ElementOfSeq
  <2>3. /\ SubSeq(SeqOf(R), n + 1, c) \in Seq(Nat)
        /\ Len(SubSeq(SeqOf(R), n + 1, c)) = IF n + 1 <= c THEN c - (n + 1) + 1 ELSE 0
        /\ \A i \in 1..(c - (n + 1) + 1) :
             SubSeq(SeqOf(R), n + 1, c)[i] = SeqOf(R)[(n + 1) + i - 1]
    BY <2>2, SubSeqProperties
  <2> HIDE DEF c
  <2>4. c \in Int /\ n \in Int /\ n <= c /\ \A i \in Int : (n + 1) + i - 1 = n + i
    BY <1>1 DEF c
  <2> QED
    BY <2>3, <2>4
<1>4. ASSUME NEW i \in 1..c-n PROVE SeqOf(S)[i] = SeqOf(R)[n + i]
  <2>0. n + i \in 1..c
    BY <1>1
  <2>1. SeqOf(S)[i] = S.buf[(S.head + i - 1) % N]
    BY <1>2, SeqOfOK
  <2>2. SeqOf(R)[n + i] = R.buf[(R.head + (n + i) - 1) % N]
    BY <2>0, SeqOfOK
  <2>3. (S.head + i - 1) % N = (R.head + (n + i) - 1) % N
    <3>1. n \in 0..N-1 /\ i \in 1..N-1 /\ n + i <= N - 1
      BY <1>1, <2>0
    <3> QED
      BY <1>1, <3>1, WrapTwice
  <2>4. (R.head + (n + i) - 1) % N \in (0..N-1) \ {R.tail}
    BY <1>1, <2>0, SlotFree
  <2> QED
    BY <2>1, <2>2, <2>3, <2>4
<1>5. SeqOf(S) \in Seq(Nat) /\ Len(SeqOf(S)) = c - n /\ Len(SeqOf(R)) = c
  BY <1>2, SeqOfOK
<1> QED
  BY <1>1, <1>3, <1>4, <1>5, SeqEqual

\* Moving the tail of a queue with room on adds the event in its slot.
LEMMA SeqOfAdd ==
  ASSUME NEW R \in Ring, NEW S \in Ring, Count(R.tail, R.head) < N - 1,
         S.buf = R.buf, S.head = R.head, S.tail = Incr(R.tail)
  PROVE  SeqOf(S) = Append(SeqOf(R), R.buf[R.tail])
<1> DEFINE c == Count(R.tail, R.head)
<1>1. /\ R.tail \in 0..N-1 /\ R.head \in 0..N-1 /\ c \in 0..N-1
      /\ R.buf[R.tail] \in Nat
  BY SeqOfOK DEF Ring
<1>2. Count(S.tail, S.head) = c + 1
  BY <1>1, CountAfterAdd
<1>3. SeqOf(S) \in Seq(Nat) /\ Len(SeqOf(S)) = c + 1
  BY <1>2, SeqOfOK
<1>4. SeqOf(R) \in Seq(Nat) /\ Len(SeqOf(R)) = c
  BY SeqOfOK
<1>5. /\ Append(SeqOf(R), R.buf[R.tail]) \in Seq(Nat)
      /\ Len(Append(SeqOf(R), R.buf[R.tail])) = c + 1
      /\ \A i \in 1..c : Append(SeqOf(R), R.buf[R.tail])[i] = SeqOf(R)[i]
      /\ Append(SeqOf(R), R.buf[R.tail])[c + 1] = R.buf[R.tail]
  BY <1>1, <1>4, AppendProperties
<1>6. ASSUME NEW i \in 1..c PROVE SeqOf(S)[i] = SeqOf(R)[i]
  <2>1. i \in 1..(c + 1)
    BY <1>1
  <2>2. SeqOf(S)[i] = R.buf[(R.head + i - 1) % N]
    BY <1>2, <2>1, SeqOfOK
  <2> QED
    BY <2>2, SeqOfOK
<1>7. SeqOf(S)[c + 1] = R.buf[R.tail]
  <2>1. SeqOf(S)[c + 1] = R.buf[(R.head + (c + 1) - 1) % N]
    <3>1. c + 1 \in 1..(c + 1)
      BY <1>1
    <3> QED
      BY <1>2, <3>1, SeqOfOK
  <2>2. (R.head + c) % N = R.tail
    BY <1>1, CountOK
  <2> QED
    BY <1>1, <2>1, <2>2
<1> QED
  BY <1>1, <1>3, <1>5, <1>6, <1>7, SeqEqual

\* A step that leaves the sequences, the last events and the list alone is no
\* step of the FIFOs.
LEMMA SameFifo ==
  ASSUME UNCHANGED <<ring, taken, missed, listed>>
  PROVE  UNCHANGED <<[q \in Queues |-> Contents(q)], taken, missed, listed>>
  BY DEF Contents, QueueCnt

\* Each ring stands for its sequence, before and after a step.
LEMMA ContentsAre ==
  ASSUME TypeOK, TypeOK'
  PROVE  /\ \A q \in Queues : /\ ring[q] \in Ring /\ Contents(q) = SeqOf(ring[q])
                              /\ ring'[q] \in Ring /\ Contents(q)' = SeqOf(ring'[q])
         /\ [q \in Queues |-> Contents(q)]' = [q \in Queues |-> SeqOf(ring'[q])]
         /\ [q \in Queues |-> Contents(q)] = [q \in Queues |-> SeqOf(ring[q])]
  BY DEF TypeOK, Contents, QueueCnt, SeqOf

\* A step that changes one ring changes one FIFO.
LEMMA OneFifo ==
  ASSUME TypeOK, TypeOK', NEW q \in Queues, NEW s, SeqOf(ring'[q]) = s,
         \A p \in Queues \ {q} : ring'[p] = ring[p]
  PROVE  [p \in Queues |-> Contents(p)]' = [[p \in Queues |-> Contents(p)] EXCEPT ![q] = s]
<1>1. [p \in Queues |-> SeqOf(ring'[p])] = [[p \in Queues |-> SeqOf(ring[p])] EXCEPT ![q] = s]
  OBVIOUS
<1> QED
  BY <1>1, ContentsAre, Zenon

\* The abstract events, queues and capacity are the concrete ones.
LEMMA FifoStep == IInv /\ IInv' /\ [Next]_vars =>
                    [Fifo!Next]_<<[q \in Queues |-> Contents(q)], taken, missed, listed>>
<1> SUFFICES ASSUME IInv, IInv', [Next]_vars
             PROVE  [Fifo!Next]_<<[q \in Queues |-> Contents(q)], taken, missed, listed>>
  OBVIOUS
<1> USE DEF IInv
<1>1. ASSUME NEW q \in Queues, EnqueueHead(q)
      PROVE  Fifo!DropOldest(q) \/ UNCHANGED <<[p \in Queues |-> Contents(p)], taken, missed, listed>>
  <2> DEFINE n == IF QueueFree(q) = 0 THEN 1 ELSE 0
  <2>1. RingBecomes(q, [ring[q].buf EXCEPT ![ring[q].tail] = produced],
                    (ring[q].head + n) % N, ring[q].tail)
    <3>1. ring[q].head \in 0..N-1
      BY RingOK
    <3>2. (ring[q].head + 0) % N = ring[q].head
      BY <3>1, Wrap
    <3> QED
      BY <1>1, <3>2, EnqueueHeadRing DEF Incr
  <2>2. \A j \in (0..N-1) \ {ring[q].tail} : ring'[q].buf[j] = ring[q].buf[j]
    BY <2>1, RingOK DEF RingBecomes
  <2>3. n \in 0..Count(ring[q].tail, ring[q].head)
    BY RingOK DEF QueueFree, QueueCnt
  <2>4. ring[q] \in Ring /\ ring'[q] \in Ring /\ Contents(q) = SeqOf(ring[q])
    BY ContentsAre
  <2>5. SeqOf(ring'[q]) = SubSeq(Contents(q), n + 1, Len(Contents(q)))
    <3>1. ring'[q].tail = ring[q].tail /\ ring'[q].head = (ring[q].head + n) % N
      BY <2>1 DEF RingBecomes
    <3> HIDE DEF n
    <3> QED
      BY <2>2, <2>3, <2>4, <3>1, SeqOfTake
  <2>6. \A p \in Queues \ {q} : ring'[p] = ring[p]
    BY <2>1 DEF RingBecomes
  <2>7. UNCHANGED <<taken, missed, listed>>
    BY <1>1 DEF EnqueueHead
  <2>8. Contents(q) \in Seq(Nat) /\ Len(Contents(q)) = QueueCnt(q)
    BY <2>4, SeqOfOK DEF QueueCnt
  <2>9. CASE QueueFree(q) = 0
    <3>1. Len(Contents(q)) = N - 1
      BY <2>8, <2>9, RingOK DEF QueueFree
    <3>2. SubSeq(Contents(q), 2, Len(Contents(q))) = Tail(Contents(q))
      <4>1. Contents(q) # <<>>
        BY <3>1
      <4> QED
        BY <2>8, <4>1, TailIsSubSeq
    <3>3. SeqOf(ring'[q]) = Tail(Contents(q))
      BY <2>5, <2>9, <3>2
    <3>4. [p \in Queues |-> Contents(p)]'
            = [[p \in Queues |-> Contents(p)] EXCEPT ![q] = Tail(Contents(q))]
      BY <2>6, <3>3, OneFifo
    <3> QED
      BY <2>7, <3>1, <3>4 DEF Fifo!DropOldest
  <2>10. CASE QueueFree(q) # 0
    <3>1. SeqOf(ring'[q]) = Contents(q)
      BY <2>5, <2>8, <2>10, SubSeqFull
    <3>2. [p \in Queues |-> Contents(p)]'
            = [[p \in Queues |-> Contents(p)] EXCEPT ![q] = Contents(q)]
      BY <2>6, <3>1, OneFifo
    <3> QED
      BY <2>7, <3>2
  <2> QED
    BY <2>9, <2>10
<1>2. ASSUME NEW q \in Queues, EnqueueTail(q) PROVE Fifo!Add(q, produced) /\ produced \in Events
  <2>1. RingBecomes(q, ring[q].buf, ring[q].head, Incr(ring[q].tail))
    BY <1>2, EnqueueTailRing
  <2>2. /\ q \in listed /\ QueueCnt(q) < N - 1 /\ ring[q].buf[ring[q].tail] = produced
        /\ produced \in Events
    BY <1>2, QueueNames DEF EnqueueTail, WriterOK, TypeOK, Events
  <2>3. ring[q] \in Ring /\ ring'[q] \in Ring /\ Contents(q) = SeqOf(ring[q])
    BY ContentsAre
  <2>4. SeqOf(ring'[q]) = Append(Contents(q), produced)
    BY <2>1, <2>2, <2>3, SeqOfAdd DEF RingBecomes, QueueCnt
  <2>5. [p \in Queues |-> Contents(p)]'
          = [[p \in Queues |-> Contents(p)] EXCEPT ![q] = Append(Contents(q), produced)]
    BY <2>1, <2>4, OneFifo DEF RingBecomes
  <2>6. Len(Contents(q)) = QueueCnt(q) /\ QueueCnt(q) = Count(ring[q].tail, ring[q].head)
    BY <2>3, SeqOfOK DEF QueueCnt
  <2>7. ASSUME NEW i \in 1..Len(Contents(q)) PROVE Contents(q)[i] < produced
    <3> DEFINE j == (ring[q].head + i - 1) % N
    <3>1. Contents(q)[i] = ring[q].buf[j]
      BY <2>3, <2>6, SeqOfOK
    <3>2. ring[q].tail \in 0..N-1 /\ ring[q].head \in 0..N-1
      BY RingOK
    <3>3. j \in (0..N-1) \ {ring[q].tail}
      BY <2>6, <3>2, SlotFree
    <3>4. q \in writer.todo
      BY <1>2 DEF EnqueueTail, WriterOK
    <3> HIDE DEF j
    <3>5. ring[q].buf[j] < produced
      BY <3>3, <3>4 DEF EventsOK
    <3> QED
      BY <3>1, <3>5
  <2>8. UNCHANGED <<taken, missed, listed>>
    BY <1>2 DEF EnqueueTail
  <2> QED
    BY <2>2, <2>5, <2>6, <2>7, <2>8 DEF Fifo!Add
<1> DEFINE Moves(q, n) == RingBecomes(q, ring[q].buf, (ring[q].head + n) % N, ring[q].tail)
           Last(q, n) == ring[q].buf[(ring[q].head + n - 1) % N]
<1>3. ASSUME NEW q \in Queues, NEW n \in 1..QueueCnt(q), Moves(q, n), UNCHANGED listed
      PROVE  /\ n \in 1..N-1
             /\ (taken' = [taken EXCEPT ![q] = Last(q, n)] /\ UNCHANGED missed)
                  => Fifo!Remove(q, n)
             /\ (missed' = [missed EXCEPT ![q] = Last(q, n)] /\ UNCHANGED taken)
                  => Fifo!Miss(q, n)
  <2>1. ring[q] \in Ring /\ ring'[q] \in Ring /\ Contents(q) = SeqOf(ring[q])
    BY ContentsAre
  <2>2. /\ Len(Contents(q)) = QueueCnt(q) /\ QueueCnt(q) = Count(ring[q].tail, ring[q].head)
        /\ QueueCnt(q) \in 0..N-1
    BY <2>1, SeqOfOK DEF QueueCnt
  <2>3. SeqOf(ring'[q]) = SubSeq(Contents(q), n + 1, Len(Contents(q)))
    <3>1. n \in 0..Count(ring[q].tail, ring[q].head)
      BY <2>2
    <3>2. /\ ring'[q].tail = ring[q].tail /\ ring'[q].head = (ring[q].head + n) % N
          /\ ring'[q].buf = ring[q].buf
      BY <1>3 DEF RingBecomes
    <3> QED
      BY <2>1, <3>1, <3>2, SeqOfTake
  <2>4. [p \in Queues |-> Contents(p)]'
          = [[p \in Queues |-> Contents(p)]
               EXCEPT ![q] = SubSeq(Contents(q), n + 1, Len(Contents(q)))]
    BY <1>3, <2>3, OneFifo DEF RingBecomes
  <2>5. Contents(q)[n] = ring[q].buf[(ring[q].head + n - 1) % N]
    BY <2>1, <2>2, SeqOfOK
  <2> QED
    <3>1. n \in 1..Len(Contents(q)) /\ n \in 1..N-1 /\ UNCHANGED listed
      BY <1>3, <2>2
    <3>2. [p \in Queues |-> Contents(p)][q] = Contents(q)
      OBVIOUS
    <3>3. ASSUME taken' = [taken EXCEPT ![q] = Last(q, n)], UNCHANGED missed
          PROVE  Fifo!Remove(q, n)
      <4>1. taken' = [taken EXCEPT ![q] = Contents(q)[n]]
        BY <2>5, <3>3
      <4> QED
        BY <2>4, <3>1, <3>2, <3>3, <4>1, Zenon DEF Fifo!Remove
    <3>4. ASSUME missed' = [missed EXCEPT ![q] = Last(q, n)], UNCHANGED taken
          PROVE  Fifo!Miss(q, n)
      <4>1. missed' = [missed EXCEPT ![q] = Contents(q)[n]]
        BY <2>5, <3>4
      <4> QED
        BY <2>4, <3>1, <3>2, <3>4, <4>1, Zenon DEF Fifo!Miss
    <3> QED
      BY <3>1, <3>3, <3>4
<1>4. ASSUME NEW r \in Readers, ReadTake(r)
      PROVE  \/ \E q \in Queues, n \in 1..N-1 : Fifo!Remove(q, n) \/ Fifo!Miss(q, n)
             \/ UNCHANGED <<ring, taken, missed, listed>>
  <2> DEFINE q == rd[r].file
             n == TakeCount(r)
  <2>1. q \in Queues /\ n \in 0..QueueCnt(q) /\ QueueCnt(q) \in 0..N-1
    BY <1>4, TakeCountOK, RingOK DEF ReadTake
  <2>2. /\ Moves(q, n)
        /\ \/ n = 0 /\ UNCHANGED <<taken, missed>>
           \/ n # 0 /\ UNCHANGED missed /\ taken' = [taken EXCEPT ![q] = Last(q, n)]
           \/ n # 0 /\ UNCHANGED taken /\ missed' = [missed EXCEPT ![q] = Last(q, n)]
        /\ UNCHANGED listed
    BY <1>4, ReadTakeRing DEF ReadTake, LastTaken
  <2> HIDE DEF n
  <2>3. CASE n # 0
    <3>1. n \in 1..QueueCnt(q)
      BY <2>1, <2>3
    <3> QED
      BY <1>3, <2>1, <2>2, <2>3, <3>1
  <2>4. CASE n = 0
    <3>1. ring[q].head \in 0..N-1
      BY <2>1, RingOK
    <3>2. (ring[q].head + 0) % N = ring[q].head
      BY <3>1, Wrap
    <3>3. ring'[q].buf = ring[q].buf /\ ring'[q].head = ring[q].head /\ ring'[q].tail = ring[q].tail
      BY <2>2, <2>4, <3>2 DEF RingBecomes
    <3>4. ring'[q] = ring[q]
      <4>1. ring[q] \in Ring /\ ring'[q] \in Ring
        BY <2>1 DEF TypeOK
      <4>2. /\ ring[q] = [buf |-> ring[q].buf, head |-> ring[q].head, tail |-> ring[q].tail]
            /\ ring'[q] = [buf |-> ring'[q].buf, head |-> ring'[q].head, tail |-> ring'[q].tail]
        BY <4>1 DEF Ring
      <4> QED
        BY <3>3, <4>2
    <3>5. \A p \in Queues : ring'[p] = ring[p]
      BY <2>2, <3>4 DEF RingBecomes
    <3>6. ring' = ring
      BY <3>5 DEF TypeOK
    <3> QED
      BY <2>2, <2>4, <3>6
  <2> QED
    BY <2>3, <2>4
<1>5. ASSUME FifoShow PROVE Fifo!Remove(Sysfs, 1) /\ 1 \in 1..N-1 /\ Sysfs \in Queues
  <2>1. Sysfs \in Queues
    BY DEF Queues
  <2>2. ring[Sysfs].head \in 0..N-1 /\ QueueCnt(Sysfs) \in 0..N-1
    BY <2>1, RingOK
  <2>3. 1 \in 1..QueueCnt(Sysfs) /\ UNCHANGED listed
    BY <1>5, <2>2 DEF FifoShow
  <2>4. (ring[Sysfs].head + 1 - 1) % N = ring[Sysfs].head
    BY <2>2, Wrap
  <2>5. Moves(Sysfs, 1)
    <3>1. Incr(ring[Sysfs].head) \in 0..N-1
      BY <2>2, IncrOK
    <3>2. RingBecomes(Sysfs, ring[Sysfs].buf, Incr(ring[Sysfs].head), ring[Sysfs].tail)
      BY <1>5, <2>1, <3>1, SetHead DEF FifoShow
    <3> QED
      BY <3>2 DEF Incr
  <2>6. taken' = [taken EXCEPT ![Sysfs] = Last(Sysfs, 1)] /\ UNCHANGED missed
    BY <1>5, <2>4 DEF FifoShow
  <2> QED
    BY <1>3, <2>1, <2>3, <2>5, <2>6
<1>6. SeqOf(EmptyRing) = <<>>
  BY DEF SeqOf, EmptyRing, Count
<1>7. ASSUME NEW q \in Queues, q \in listed, listed' = listed \ {q},
             ring' = [ring EXCEPT ![q] = EmptyRing],
             taken' = [taken EXCEPT ![q] = 0], missed' = [missed EXCEPT ![q] = 0]
      PROVE  Fifo!Close(q)
  <2>1. ring'[q] = EmptyRing /\ \A p \in Queues \ {q} : ring'[p] = ring[p]
    BY <1>7 DEF TypeOK
  <2>2. [p \in Queues |-> Contents(p)]' = [[p \in Queues |-> Contents(p)] EXCEPT ![q] = <<>>]
    BY <1>6, <2>1, OneFifo
  <2> QED
    BY <1>7, <2>2 DEF Fifo!Close
<1>8. ASSUME NEW f \in Files, PtpOpen(f) PROVE f \in Queues /\ Fifo!Open(f)
  <2>1. f \in Queues /\ f \notin listed
    BY <1>8 DEF PtpOpen, Queues
  <2>2. UNCHANGED <<ring, taken, missed>>
    BY <1>8, <2>1 DEF PtpOpen, ClosedOK, TypeOK
  <2> QED
    BY <1>8, <2>1, <2>2 DEF PtpOpen, Fifo!Open, Contents, QueueCnt
<1>9. ASSUME NEW f \in Files, PtpRelease(f) PROVE f \in Queues /\ Fifo!Close(f)
  BY <1>7, <1>9 DEF PtpRelease, Queues
<1>10. ASSUME ClockRelease PROVE Sysfs \in Queues /\ Fifo!Close(Sysfs)
  <2>1. listed' = listed \ {Sysfs} /\ Sysfs \in listed
    BY <1>10 DEF ClockRelease
  <2> QED
    BY <1>7, <1>10, <2>1 DEF ClockRelease, Queues
<1>11. ASSUME ClockRegister PROVE Sysfs \in Queues /\ Fifo!Open(Sysfs)
  <2>1. listed = {} /\ listed' = {Sysfs} /\ Sysfs \in Queues /\ UNCHANGED <<ring, taken, missed>>
    BY <1>11 DEF ClockRegister, PhaseOK, Queues
  <2> QED
    BY <2>1 DEF Fifo!Open, Contents, QueueCnt
<1>12. ASSUME \/ EventWake \/ \E c \in Channels : EventBegin(c)
              \/ UnregisterDefunct \/ Unregister \/ UNCHANGED vars
              \/ \E f \in Files : MaskClearAll(f) \/ \E c \in Channels : MaskEnSingle(f, c)
       PROVE  UNCHANGED <<ring, taken, missed, listed>>
  BY <1>12 DEF EventWake, EventBegin, UnregisterDefunct, Unregister, UnregisterWake,
     UnregisterZombie, vars, MaskClearAll, MaskEnSingle
<1>13. ASSUME NEW r \in Readers,
              \/ ReadPrepare(r) \/ ReadTestTail(r) \/ ReadTestHead(r) \/ ReadWoken(r)
              \/ ReadAllocate(r) \/ ReadInterrupted(r) \/ \E f \in Files, w \in 1..Batch : ReadBegin(r, f, w)
       PROVE  UNCHANGED <<ring, taken, missed, listed>>
  BY <1>13 DEF ReadPrepare, ReadTestTail, ReadTestHead, ReadWoken, ReadAllocate, ReadInterrupted, ReadBegin
<1>14. \/ \E q \in Queues : \/ \E e \in Events : Fifo!Add(q, e)
                            \/ Fifo!DropOldest(q)
                            \/ \E n \in 1..(N - 1) : Fifo!Remove(q, n) \/ Fifo!Miss(q, n)
                            \/ Fifo!Open(q)
                            \/ Fifo!Close(q)
       \/ UNCHANGED <<[q \in Queues |-> Contents(q)], taken, missed, listed>>
  <2> HIDE DEF IInv
  <2>1. CASE UNCHANGED <<ring, taken, missed, listed>>
    BY <2>1, SameFifo
  <2> QED
    BY <1>1, <1>2, <1>4, <1>5, <1>8, <1>9, <1>10, <1>11, <1>12, <1>13, <2>1, Zenon
       DEF Next, Writer, User, ReaderStep
<1> QED
  BY <1>14 DEF Fifo!Next

\* The queues are FIFOs: whatever readers, openers and the writer do, a queue
\* gives its events in the order they happened, each at most once, and loses
\* only the oldest of a full queue and what a failed read had taken off
\* (enqueue_external_timestamp, ptp_read).
THEOREM QueuesAreFifos == Spec => ImplementsFifo
<1>1. Init => Fifo!Init
  <2> SUFFICES ASSUME Init PROVE Fifo!Init
    OBVIOUS
  <2>1. \A q \in Queues : Contents(q) = <<>>
    BY DEF Init, Contents, QueueCnt, Count, EmptyRing
  <2> QED
    BY <2>1 DEF Init, Fifo!Init
<1> QED
  BY <1>1, Invariant, FifoStep, PTL DEF Spec, ImplementsFifo, Fifo!Spec
=============================================================================
