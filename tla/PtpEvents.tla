----------------------------- MODULE PtpEvents -----------------------------
(***************************************************************************)
(* The external time stamp events of one PTP clock: ptp_clock.c,           *)
(* ptp_chardev.c and ptp_private.h.  ptp_clock_event puts an event on      *)
(* every queue whose mask selects its channel; ptp_read waits until its    *)
(* queue is not empty and takes events off; the sysfs attribute fifo takes *)
(* one off the clock's own queue; ptp_clock_unregister sends the readers   *)
(* away and waits for them.                                                *)
(*                                                                         *)
(* What is done under queue->lock is one step, except that the head and    *)
(* the tail are stored separately: queue_cnt reads them without the lock,  *)
(* the tail first.  The posix clock layer (not in this repository) holds   *)
(* clk->rwsem for reading around open, read and ioctl, and                 *)
(* posix_clock_unregister takes it for writing.                            *)
(***************************************************************************)
EXTENDS Naturals, Sequences

CONSTANTS
  Files,       \* open files of the character device, each with its own queue
  Sysfs,       \* the queue made by ptp_clock_register
  Readers,     \* threads calling ptp_read
  Channels,    \* external time stamp channels, below PTP_MAX_CHANNELS
  N,           \* PTP_MAX_TIMESTAMPS
  Batch,       \* PTP_BUF_TIMESTAMPS, most events one read returns
  MaxEvents,   \* bound: how many events the clock produces
  NoFile       \* a reader that is not reading

Queues == Files \cup {Sysfs}

ASSUME PtpEventsAssumption ==
  /\ Sysfs \notin Files /\ NoFile \notin Files
  /\ "idle" \notin Queues /\ "queue" \notin Queues    \* writer.pc tells them apart
  /\ N \in Nat /\ N > 1
  /\ Batch \in Nat \ {0}
  /\ MaxEvents \in Nat

Events == 1..MaxEvents        \* events are numbered in the order they happen

VARIABLES
  ring,      \* buf, head and tail of each queue
  mask,      \* the channels each queue wants
  listed,    \* the queues on ptp->tsevqs
  writer,    \* ptp_clock_event: where it is, its event, the queues still to do
  produced,  \* number of events so far
  rd,        \* what each reader does
  waiting,   \* readers on tsev_wq and not woken since they got there
  taken,     \* last event a reader got from each queue
  missed,    \* last event taken off each queue by a read that failed
  phase      \* registered, and the progress of ptp_clock_unregister

vars == <<ring, mask, listed, writer, produced, rd, waiting, taken, missed, phase>>

EmptyRing == [buf |-> [i \in 0..N-1 |-> 0], head |-> 0, tail |-> 0]

\* queue_cnt on given values of the tail and the head.
Count(tail, head) == IF tail < head THEN N + tail - head ELSE tail - head

QueueCnt(q)  == Count(ring[q].tail, ring[q].head)
QueueFree(q) == N - QueueCnt(q) - 1

Incr(i) == (i + 1) % N

NotReading == [pc |-> "none", file |-> NoFile, want |-> 0, tail |-> 0]

Defunct == phase # "live"

-----------------------------------------------------------------------------
(* ptp_clock_event.  The clock's driver stops producing events before it   *)
(* unregisters the clock (mock_phc_destroy).                               *)

\* The queues on the list whose mask has the channel, under tsevqs_lock.
EventBegin(chan) ==
  /\ phase = "live" /\ writer.pc = "idle" /\ produced < MaxEvents
  /\ produced' = produced + 1
  /\ writer' = [pc |-> "queue", todo |-> {q \in listed : chan \in mask[q]}]
  /\ UNCHANGED <<ring, mask, listed, rd, waiting, taken, missed, phase>>

\* Mutant: the head of a full queue stays, so the new event empties the queue.
EnqueueHeadKept(q) ==
  /\ writer.pc = "queue" /\ q \in writer.todo
  /\ ring' = [ring EXCEPT ![q].buf[ring[q].tail] = produced]
  /\ writer' = [writer EXCEPT !.pc = q]
  /\ UNCHANGED <<mask, listed, produced, rd, waiting, taken, missed, phase>>

\* enqueue_external_timestamp: store the event, make room by advancing the
\* head of a full queue ...
EnqueueHead(q) ==
  /\ writer.pc = "queue" /\ q \in writer.todo
  /\ ring' = [ring EXCEPT ![q].buf[ring[q].tail] = produced,
                          ![q].head = IF QueueFree(q) = 0 THEN Incr(@) ELSE @]
  /\ writer' = [writer EXCEPT !.pc = q]
  /\ UNCHANGED <<mask, listed, produced, rd, waiting, taken, missed, phase>>

\* ... and publish it by advancing the tail.
EnqueueTail(q) ==
  /\ writer.pc = q
  /\ ring' = [ring EXCEPT ![q].tail = Incr(@)]
  /\ writer' = [pc |-> "queue", todo |-> writer.todo \ {q}]
  /\ UNCHANGED <<mask, listed, produced, rd, waiting, taken, missed, phase>>

EventWake ==
  /\ writer.pc = "queue" /\ writer.todo = {}
  /\ waiting' = {}
  /\ writer' = [writer EXCEPT !.pc = "idle"]
  /\ UNCHANGED <<ring, mask, listed, produced, rd, taken, missed, phase>>

\* tsevqs_lock is held from EventBegin until the last queue is done.
ListLocked == writer.pc # "idle" /\ writer.todo # {}

\* queue->lock of q is held between the two stores of an enqueue.
QueueLocked(q) == writer.pc = q

-----------------------------------------------------------------------------
(* ptp_read. *)

\* The read lock of the posix clock: granted until the clock is a zombie, but
\* not past a waiting posix_clock_unregister.
CanEnter == phase \in {"live", "defunct"}

ReadBegin(r, f, want) ==
  /\ CanEnter /\ rd[r] = NotReading /\ f \in listed
  /\ rd' = [rd EXCEPT ![r] = [pc |-> "prepare", file |-> f, want |-> want, tail |-> 0]]
  /\ UNCHANGED <<ring, mask, listed, writer, produced, waiting, taken, missed, phase>>

\* wait_event_interruptible gets on the wait queue before it tests the
\* condition.  (An earlier test off the queue only lets it skip the waiting.)
ReadPrepare(r) ==
  /\ rd[r].pc = "prepare"
  /\ waiting' = waiting \cup {r}
  /\ rd' = [rd EXCEPT ![r].pc = "test"]
  /\ UNCHANGED <<ring, mask, listed, writer, produced, taken, missed, phase>>

\* The condition: defunct, or queue_cnt, which loads the tail ...
ReadTestTail(r) ==
  /\ rd[r].pc = "test"
  /\ IF Defunct
     THEN /\ rd' = [rd EXCEPT ![r].pc = "ready"]
          /\ waiting' = waiting \ {r}
     ELSE /\ rd' = [rd EXCEPT ![r].pc = "head", ![r].tail = ring[rd[r].file].tail]
          /\ UNCHANGED waiting
  /\ UNCHANGED <<ring, mask, listed, writer, produced, taken, missed, phase>>

\* Mutant: the reader gets on the wait queue after it has tested the condition.
ReadTestHeadJoinsLate(r) ==
  /\ rd[r].pc = "head"
  /\ IF Count(rd[r].tail, ring[rd[r].file].head) # 0
     THEN /\ rd' = [rd EXCEPT ![r].pc = "ready", ![r].tail = 0]
          /\ waiting' = waiting \ {r}
     ELSE /\ rd' = [rd EXCEPT ![r].pc = "sleep", ![r].tail = 0]
          /\ waiting' = waiting \cup {r}
  /\ UNCHANGED <<ring, mask, listed, writer, produced, taken, missed, phase>>

\* ... and then the head.
ReadTestHead(r) ==
  /\ rd[r].pc = "head"
  /\ IF Count(rd[r].tail, ring[rd[r].file].head) # 0
     THEN /\ rd' = [rd EXCEPT ![r].pc = "ready", ![r].tail = 0]
          /\ waiting' = waiting \ {r}
     ELSE /\ rd' = [rd EXCEPT ![r].pc = "sleep", ![r].tail = 0]
          /\ UNCHANGED waiting
  /\ UNCHANGED <<ring, mask, listed, writer, produced, taken, missed, phase>>

\* A sleeping reader goes on when it has been woken.
ReadWoken(r) ==
  /\ rd[r].pc = "sleep" /\ r \notin waiting
  /\ rd' = [rd EXCEPT ![r].pc = "prepare"]
  /\ UNCHANGED <<ring, mask, listed, writer, produced, waiting, taken, missed, phase>>

\* A signal ends the wait with -ERESTARTSYS.
ReadInterrupted(r) ==
  /\ rd[r].pc = "sleep"
  /\ rd' = [rd EXCEPT ![r] = NotReading]
  /\ waiting' = waiting \ {r}
  /\ UNCHANGED <<ring, mask, listed, writer, produced, taken, missed, phase>>

Minimum(a, b) == IF a < b THEN a ELSE b

\* A defunct clock answers -ENODEV, and kmalloc may fail; otherwise the read
\* goes on, and the clock may become defunct before it takes the queue's lock.
ReadAllocate(r) ==
  /\ rd[r].pc = "ready"
  /\ \/ rd' = [rd EXCEPT ![r] = NotReading]
     \/ ~Defunct /\ rd' = [rd EXCEPT ![r].pc = "take"]
  /\ UNCHANGED <<ring, mask, listed, writer, produced, waiting, taken, missed, phase>>

\* Take up to want events off (a queue that another reader has emptied gives
\* none).  They are gone from the queue when copy_to_user fails.
ReadTake(r) ==
  LET q    == rd[r].file
      cnt  == Minimum(Minimum(rd[r].want, Batch), QueueCnt(q))
      last == ring[q].buf[(ring[q].head + cnt - 1) % N]
  IN
  /\ rd[r].pc = "take" /\ ~QueueLocked(q)
  /\ ring' = [ring EXCEPT ![q].head = (@ + cnt) % N]
  /\ \/ cnt = 0 /\ UNCHANGED <<taken, missed>>
     \/ cnt # 0 /\ taken' = [taken EXCEPT ![q] = last] /\ UNCHANGED missed
     \/ cnt # 0 /\ missed' = [missed EXCEPT ![q] = last] /\ UNCHANGED taken
  /\ rd' = [rd EXCEPT ![r] = NotReading]
  /\ UNCHANGED <<mask, listed, writer, produced, waiting, phase>>

\* Reader r, within the posix clock's read lock.
ReaderStep(r) ==
  \/ ReadPrepare(r) \/ ReadTestTail(r) \/ ReadTestHead(r) \/ ReadWoken(r)
  \/ ReadAllocate(r) \/ ReadTake(r)

\* extts_fifo_show takes one event off the clock's own queue.
FifoShow ==
  /\ phase = "live" /\ ~QueueLocked(Sysfs) /\ QueueCnt(Sysfs) # 0
  /\ taken' = [taken EXCEPT ![Sysfs] = ring[Sysfs].buf[ring[Sysfs].head]]
  /\ ring' = [ring EXCEPT ![Sysfs].head = Incr(@)]
  /\ UNCHANGED <<mask, listed, writer, produced, rd, waiting, missed, phase>>

-----------------------------------------------------------------------------
(* Opening and closing files, and their masks. *)

PtpOpen(f) ==
  /\ CanEnter /\ f \notin listed /\ ~ListLocked
  /\ ring' = [ring EXCEPT ![f] = EmptyRing]
  /\ mask' = [mask EXCEPT ![f] = Channels]
  /\ taken' = [taken EXCEPT ![f] = 0] /\ missed' = [missed EXCEPT ![f] = 0]
  /\ listed' = listed \cup {f}
  /\ UNCHANGED <<writer, produced, rd, waiting, phase>>

\* The last reference to the file is gone; nobody reads from it.  (What a freed
\* queue contains is not looked at; it is set to its initial value.)
PtpRelease(f) ==
  /\ f \in listed \cap Files /\ ~ListLocked
  /\ \A r \in Readers : rd[r].file # f
  /\ listed' = listed \ {f}
  /\ ring' = [ring EXCEPT ![f] = EmptyRing]
  /\ mask' = [mask EXCEPT ![f] = Channels]
  /\ taken' = [taken EXCEPT ![f] = 0] /\ missed' = [missed EXCEPT ![f] = 0]
  /\ UNCHANGED <<writer, produced, rd, waiting, phase>>

MaskClearAll(f) ==
  /\ CanEnter /\ f \in listed \cap Files
  /\ mask' = [mask EXCEPT ![f] = {}]
  /\ UNCHANGED <<ring, listed, writer, produced, rd, waiting, taken, missed, phase>>

MaskEnSingle(f, chan) ==
  /\ CanEnter /\ f \in listed \cap Files
  /\ mask' = [mask EXCEPT ![f] = @ \cup {chan}]
  /\ UNCHANGED <<ring, listed, writer, produced, rd, waiting, taken, missed, phase>>

-----------------------------------------------------------------------------
(* ptp_clock_unregister. *)

UnregisterDefunct ==
  /\ phase = "live" /\ writer.pc = "idle"
  /\ phase' = "defunct"
  /\ UNCHANGED <<ring, mask, listed, writer, produced, rd, waiting, taken, missed>>

\* Mutant: the readers are not woken.
UnregisterNoWake ==
  /\ phase = "defunct"
  /\ phase' = "unregistering"
  /\ UNCHANGED <<ring, mask, listed, writer, produced, rd, waiting, taken, missed>>

UnregisterWake ==
  /\ phase = "defunct"
  /\ waiting' = {}
  /\ phase' = "unregistering"
  /\ UNCHANGED <<ring, mask, listed, writer, produced, rd, taken, missed>>

\* posix_clock_unregister gets the write lock once no reader is inside.
UnregisterZombie ==
  /\ phase = "unregistering"
  /\ \A r \in Readers : rd[r] = NotReading
  /\ phase' = "zombie"
  /\ UNCHANGED <<ring, mask, listed, writer, produced, rd, waiting, taken, missed>>

\* ptp_clock_release, when the last reference to the device is dropped.
ClockRelease ==
  /\ phase = "zombie" /\ listed = {Sysfs}
  /\ listed' = {}
  /\ ring' = [ring EXCEPT ![Sysfs] = EmptyRing]
  /\ taken' = [taken EXCEPT ![Sysfs] = 0] /\ missed' = [missed EXCEPT ![Sysfs] = 0]
  /\ phase' = "released"
  /\ UNCHANGED <<mask, writer, produced, rd, waiting>>

\* ptp_clock_register makes a new clock with its own queue.
ClockRegister ==
  /\ phase = "released"
  /\ listed' = {Sysfs}
  /\ mask' = [mask EXCEPT ![Sysfs] = Channels]
  /\ phase' = "live"
  /\ UNCHANGED <<ring, writer, produced, rd, waiting, taken, missed>>

-----------------------------------------------------------------------------
Init ==
  /\ ring = [q \in Queues |-> EmptyRing]
  /\ mask = [q \in Queues |-> Channels]
  /\ listed = {Sysfs}
  /\ writer = [pc |-> "idle", todo |-> {}]
  /\ produced = 0
  /\ rd = [r \in Readers |-> NotReading]
  /\ waiting = {}
  /\ taken = [q \in Queues |-> 0] /\ missed = [q \in Queues |-> 0]
  /\ phase = "live"

Writer ==
  \/ \E c \in Channels : EventBegin(c)
  \/ \E q \in Queues : EnqueueHead(q) \/ EnqueueTail(q)
  \/ EventWake

User ==
  \/ \E r \in Readers, f \in Files, w \in 1..Batch : ReadBegin(r, f, w)
  \/ \E r \in Readers : ReadInterrupted(r)
  \/ FifoShow
  \/ \E f \in Files : PtpOpen(f) \/ PtpRelease(f) \/ MaskClearAll(f)
  \/ \E f \in Files, c \in Channels : MaskEnSingle(f, c)

Unregister == UnregisterWake \/ UnregisterZombie

Next ==
  \/ Writer \/ User \/ \E r \in Readers : ReaderStep(r)
  \/ UnregisterDefunct \/ Unregister \/ ClockRelease \/ ClockRegister

Spec == Init /\ [][Next]_vars

\* An event under way is finished, a runnable reader runs, and an unregistration
\* that has begun goes on; nobody has to produce events, read or close.
Fairness ==
  /\ WF_vars(\E q \in Queues : EnqueueHead(q) \/ EnqueueTail(q)) /\ WF_vars(EventWake)
  /\ \A r \in Readers : WF_vars(ReaderStep(r))
  /\ WF_vars(Unregister)

FairSpec == Spec /\ Fairness

-----------------------------------------------------------------------------
(* Properties. *)

\* No wake-up is lost: a reader asleep without one on its way has an empty
\* queue and a live clock, although queue_cnt reads tail and head at different
\* times and without the lock (ptp_read, ptp_clock_event, ptp_clock_unregister).
NoLostWakeup ==
  \A r \in waiting :
    (rd[r].pc = "sleep" /\ writer.pc = "idle" /\ phase # "defunct")
      => ~Defunct /\ QueueCnt(rd[r].file) = 0

\* The contents of a queue, oldest first.
Contents(q) == [i \in 1..QueueCnt(q) |-> ring[q].buf[(ring[q].head + i - 1) % N]]

\* Each queue is the bounded FIFO of module PtpFifo: a reader gets the oldest
\* events, and the only events lost are the oldest of a full queue and those of
\* a read whose buffer could not be written (enqueue_external_timestamp,
\* ptp_read, extts_fifo_show).
Fifo == INSTANCE PtpFifo WITH fifo <- [q \in Queues |-> Contents(q)], open <- listed,
                              Capacity <- N - 1, OpenFirst <- {Sysfs}
ImplementsFifo == Fifo!Spec

\* ptp_clock_unregister gets past the readers: it is not stuck behind one that
\* sleeps with the posix clock's lock held.
UnregisterCompletes == (phase = "defunct") ~> (phase = "zombie")
=============================================================================
