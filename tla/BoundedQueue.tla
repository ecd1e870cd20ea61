---------------------------- MODULE BoundedQueue ----------------------------
(* What library/queue.c promises its callers: a FIFO of at most Capacity      *)
(* permission events.  Put is a q_enqueue() that returns 0, Take a            *)
(* q_dequeue() or q_timed_dequeue() that returns 1; a refused enqueue and a   *)
(* dequeue that returns 0 change nothing.                                     *)
EXTENDS Integers, Sequences

CONSTANTS
    Event,          \* the events a caller may hand over
    Capacity        \* num_entries of q_open()

VARIABLES
    queue,          \* events accepted and not yet taken, oldest first
    out             \* the event most recently handed to the consumer

vars == <<queue, out>>

NoEvent == 0

Init == queue = <<>> /\ out = NoEvent

Put(e) ==
    /\ Len(queue) < Capacity
    /\ queue' = Append(queue, e)
    /\ UNCHANGED out

Take ==
    /\ queue # <<>>
    /\ out' = Head(queue)
    /\ queue' = Tail(queue)

Next == (\E e \in Event : Put(e)) \/ Take

Spec == Init /\ [][Next]_vars

=============================================================================
