------------------------------ MODULE PtpFifo ------------------------------
(***************************************************************************)
(* What a PTP clock promises about its time stamp event queues: while a    *)
(* queue is open it is a first-in first-out queue of at most Capacity      *)
(* events.  Events come in the order they happened.  An event that no      *)
(* reader gets was the oldest one, given up to make room for a new one, or *)
(* was taken off, as one of the oldest, by a read that then failed.        *)
(***************************************************************************)
EXTENDS Naturals, Sequences

CONSTANTS
  Queues,    \* the queues: one per open file, and the one behind sysfs
  Events,    \* the time stamps, numbered in the order they happen
  Capacity,  \* how many events a queue holds
  OpenFirst  \* the queues that are open initially

VARIABLES
  fifo,      \* the contents of each queue, oldest first
  taken,     \* the last event a reader of each queue got, 0 before the first
  missed,    \* the last event taken off each queue by a read that failed
  open       \* the queues in use

Init == /\ fifo = [q \in Queues |-> <<>>]
        /\ taken = [q \in Queues |-> 0]
        /\ missed = [q \in Queues |-> 0]
        /\ open = OpenFirst

\* A new event goes behind the older ones.
Add(q, e) ==
  /\ q \in open
  /\ Len(fifo[q]) < Capacity
  /\ \A i \in 1..Len(fifo[q]) : fifo[q][i] < e
  /\ fifo' = [fifo EXCEPT ![q] = Append(@, e)]
  /\ UNCHANGED <<taken, missed, open>>

\* Without a reader only a full queue loses an event, and it is the oldest.
DropOldest(q) ==
  /\ Len(fifo[q]) = Capacity
  /\ fifo' = [fifo EXCEPT ![q] = Tail(@)]
  /\ UNCHANGED <<taken, missed, open>>

\* A reader gets the n oldest events.
Remove(q, n) ==
  /\ n \in 1..Len(fifo[q])
  /\ fifo' = [fifo EXCEPT ![q] = SubSeq(@, n + 1, Len(@))]
  /\ taken' = [taken EXCEPT ![q] = fifo[q][n]]
  /\ UNCHANGED <<missed, open>>

\* A read that fails to hand over the n oldest events has taken them off.
Miss(q, n) ==
  /\ n \in 1..Len(fifo[q])
  /\ fifo' = [fifo EXCEPT ![q] = SubSeq(@, n + 1, Len(@))]
  /\ missed' = [missed EXCEPT ![q] = fifo[q][n]]
  /\ UNCHANGED <<taken, open>>

Open(q) ==
  /\ q \notin open
  /\ open' = open \cup {q}
  /\ UNCHANGED <<fifo, taken, missed>>

\* What is in a queue is lost when it is closed.
Close(q) ==
  /\ q \in open
  /\ open' = open \ {q}
  /\ fifo' = [fifo EXCEPT ![q] = <<>>]
  /\ taken' = [taken EXCEPT ![q] = 0]
  /\ missed' = [missed EXCEPT ![q] = 0]

Next == \E q \in Queues :
          \/ \E e \in Events : Add(q, e)
          \/ DropOldest(q)
          \/ \E n \in 1..Capacity : Remove(q, n) \/ Miss(q, n)
          \/ Open(q)
          \/ Close(q)

Spec == Init /\ [][Next]_<<fifo, taken, missed, open>>
=============================================================================
