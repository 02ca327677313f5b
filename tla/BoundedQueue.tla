---------------------------- MODULE BoundedQueue ----------------------------
(***************************************************************************)
(* What a concurrent_buffer promises its clients (Classes1/Task2.c and     *)
(* Task6.c): a first-in first-out queue of at most Capacity values.  Every *)
(* value put in is handed out once, in the order of the puts.              *)
(***************************************************************************)
EXTENDS Naturals, Sequences

CONSTANTS Capacity,      \* the number of slots of the buffer
          Values,        \* what a writer may put in
          Nothing        \* handed out before any value was

VARIABLES queue,         \* the values written and not yet read, oldest first
          got            \* the last value handed to a reader

Init == queue = <<>> /\ got = Nothing

Put == /\ Len(queue) < Capacity
       /\ \E v \in Values : queue' = Append(queue, v)
       /\ UNCHANGED got

Get == /\ queue # <<>>
       /\ got' = Head(queue)
       /\ queue' = Tail(queue)

Next == Put \/ Get

Spec == Init /\ [][Next]_<<queue, got>>
=============================================================================
