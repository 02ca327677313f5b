----------------------------- MODULE RingBuffer -----------------------------
(***************************************************************************)
(* What Classes1/Task2.c and Task6.c have in common: a ring of Size slots  *)
(* under one mutex and one condition variable, size_cond.  They differ in  *)
(* the condition a call waits for and in when it broadcasts; both are      *)
(* arguments here.                                                         *)
(*                                                                         *)
(* A call is split where another thread can run: at the lock, at the test  *)
(* of the while loop, at the wait, and at the unlock.                      *)
(***************************************************************************)
EXTENDS ForkJoin

CONSTANTS Size,                      \* buffer_size
          Values,                    \* what rand() may return
          Garbage,                   \* what malloc leaves in a slot
          MaxSpurious                \* bound on spurious wakeups

ASSUME SizeAssumption == Size \in Nat \ {0}

ASSUME ValuesAssumption == Values # {} /\ Garbage \notin Values

ASSUME SpuriousAssumption == MaxSpurious \in Nat

\* The comment beside writer_runs in main.
Balanced == /\ IsFiniteSet(Threads)
            /\ Cardinality(Readers) * ReaderRuns = WriterRuns * Cardinality(Writers)

VARIABLES data, number_items, reading_point, writing_point,  \* concurrent_buffer
          index_mutex,   \* its owner, or Nobody
          got,           \* the last value a reader printed
          spurious       \* spurious wakeups so far

ring == <<data, number_items, reading_point, writing_point, got>>
buffer == <<ring, index_mutex, spurious>>

Slots == 0 .. Size - 1

\* What a slot may hold: malloc leaves garbage in it.
Cells == Values \cup {Garbage}

\* reading_point and writing_point move on to the next slot.
AdvanceUnwrapped(point) == point + 1                \* mutant
Advance(point) == (point + 1) % Size

\* allocate_buffer
InitBuffer == /\ data = [i \in Slots |-> Garbage] /\ got = Garbage
              /\ number_items = 0 /\ reading_point = 0 /\ writing_point = 0
              /\ index_mutex = Nobody /\ spurious = 0

\* pthread_mutex_lock at the top of both calls.
Lock(t) == /\ pc[t] = Start
           /\ Acquire(index_mutex, t)
           /\ Goto(t, "test")
           /\ UNCHANGED <<ring, spurious>>

\* The while loop goes on as long as mustWait: pthread_cond_wait releases the
\* mutex and blocks in one step.
Test(t, mustWait) == /\ pc[t] = "test"
                     /\ IF mustWait
                        THEN Release(index_mutex) /\ Goto(t, Waiting)
                        ELSE UNCHANGED index_mutex /\ Goto(t, "body")
                     /\ UNCHANGED <<ring, spurious>>

WakeUntested(t) == /\ pc[t] = Signalled             \* mutant: if, not while
                   /\ Acquire(index_mutex, t)
                   /\ Goto(t, "body")
                   /\ UNCHANGED <<ring, spurious>>

\* pthread_cond_wait returns with the mutex; the while loop tests again.
Wake(t) == /\ pc[t] = Signalled
           /\ Acquire(index_mutex, t)
           /\ Goto(t, "test")
           /\ UNCHANGED <<ring, spurious>>

\* pthread_cond_wait may return without a broadcast.
SpuriousWakeup(t) == /\ pc[t] = Waiting /\ spurious < MaxSpurious
                     /\ spurious' = spurious + 1
                     /\ Goto(t, Signalled)
                     /\ UNCHANGED <<ring, index_mutex>>

\* Broadcast if asked to, release the mutex, and return.
Finish(t, broadcast) == /\ Return(t, IF broadcast THEN Broadcast(pc) ELSE pc)
                        /\ Release(index_mutex)
                        /\ UNCHANGED spurious

\* A reader takes the item at reading_point.
Take(t) == /\ pc[t] = "body" /\ t \in Readers
           /\ number_items' = number_items - 1
           /\ got' = data[reading_point]
           /\ reading_point' = Advance(reading_point)
           /\ UNCHANGED <<data, writing_point>>

\* A writer fills the slot at writing_point.
Fill(t) == /\ pc[t] = "body" /\ t \in Writers
           /\ number_items' = number_items + 1
           /\ \E val \in Values : data' = [data EXCEPT ![writing_point] = val]
           /\ writing_point' = Advance(writing_point)
           /\ UNCHANGED <<reading_point, got>>

JoinAll == Join(Threads)

\* main creates the readers first, then the writers; it joins them all and
\* then calls deallocate_buffer.
Main == /\ (\E t \in Threads : Create(t, Readers)) \/ Created \/ JoinAll
        /\ UNCHANGED buffer

BufferOK == /\ data \in [Slots -> Cells] /\ got \in Cells
            /\ number_items \in 0 .. Size
            /\ reading_point \in Slots /\ writing_point \in Slots
            /\ index_mutex \in Threads \cup {Nobody}
            /\ spurious \in 0 .. MaxSpurious
            /\ ControlOK({"test", "body", Waiting, Signalled})

\* deallocate_buffer frees the slots only when no thread can use them again.
NoUseAfterFree == main = "joined" => \A t \in Threads : pc[t] = Done

\* The ring holds, from reading_point on, what the queue of values holds.
Contents == [i \in 1 .. number_items |-> data[(reading_point + i - 1) % Size]]

Queue == INSTANCE BoundedQueue WITH Capacity <- Size, Nothing <- Garbage,
                                    queue <- Contents

\* The two calls implement a bounded first-in first-out queue: no reader gets
\* a value twice, out of order, or from a slot nobody has written.
ImplementsQueue == Queue!Spec

\* When the readers make as many calls as the writers, every call returns,
\* main joins every thread and frees the buffer: the program, which
\* deadlock_test.py runs over and over, never hangs.
Termination == <>(main = "joined")

-----------------------------------------------------------------------------
(***************************************************************************)
(* The inductive invariant of the ring, which the proofs about both        *)
(* programs start from.                                                    *)
(***************************************************************************)
\* index_mutex is owned by the thread between its lock and its unlock.
Ownership == \A t \in Threads : pc[t] \in {"test", "body"} <=> index_mutex = t

\* A thread that has not returned has an iteration left.
RunsLeft == \A t \in Threads : pc[t] # Done => runs[t] > 0

\* The items lie between the two points, which wrap at Size.
Points == \/ writing_point = reading_point + number_items
          \/ writing_point = reading_point + number_items - Size

BufferInv == BufferOK /\ Ownership /\ RunsLeft /\ NoUseAfterFree /\ Points

\* Every place a thread can be at.
Labels == {"test", "body", Waiting, Signalled, Unborn, Start, Done}
=============================================================================
