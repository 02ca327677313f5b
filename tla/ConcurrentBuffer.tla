-------------------------- MODULE ConcurrentBuffer --------------------------
(***************************************************************************)
(* Classes1/Task2.c: readers wait while the ring is empty, writers while   *)
(* it is full.  Readers broadcast size_cond only when they find the ring   *)
(* full and writers only when they find it empty, so that no wakeup is     *)
(* lost is not evident.                                                    *)
(***************************************************************************)
EXTENDS RingBuffer

vars == <<buffer, control>>

\* The condition of the while loop around pthread_cond_wait.
MustWait(t) == IF t \in Readers THEN number_items = 0 ELSE number_items = Size

\* When a call broadcasts, asked before it changes number_items.
ReaderBroadcasts == number_items = Size
WriterBroadcastsLate == number_items = 1            \* mutant
WriterBroadcasts == number_items = 0

Init == InitBuffer /\ InitControl

\* The rest of read_from_concurrent_buffer, with the mutex held.
Read(t) == Take(t) /\ Finish(t, ReaderBroadcasts)

\* The rest of write_to_concurrent_buffer, with the mutex held.
Write(t) == Fill(t) /\ Finish(t, WriterBroadcasts)

Step(t) == Lock(t) \/ Test(t, MustWait(t)) \/ Wake(t) \/ Read(t) \/ Write(t)

Next == \/ \E t \in Threads : Step(t) \/ SpuriousWakeup(t)
        \/ Main

Spec == Init /\ [][Next]_vars

\* Some thread that can run does run.  Nothing is assumed of which one gets
\* the mutex: every thread makes a bounded number of calls.
FairSpec == Spec /\ WF_vars(Main \/ \E t \in Threads : Step(t))

-----------------------------------------------------------------------------
\* The types of Task2's state: no point leaves the ring, which is never overfilled
\* or overdrained.
TypeOK == BufferOK

\* No wakeup is lost: a thread blocked in pthread_cond_wait is one whose
\* condition is still false.  The calls broadcast only when they leave the
\* full or the empty ring, so this is what makes that enough.
NoLostWakeup == \A t \in Threads : pc[t] = Waiting => MustWait(t)
=============================================================================
