------------------------- MODULE AlternatingBuffer -------------------------
(***************************************************************************)
(* Classes1/Task6.c: the ring is filled to the last slot, then drained to  *)
(* the last item, then filled again.  reading_time says whose turn it is;  *)
(* the call that ends a turn flips it and broadcasts size_cond.            *)
(***************************************************************************)
EXTENDS RingBuffer

ASSUME FiniteAssumption == IsFiniteSet(Threads)

VARIABLES reading_time

vars == <<buffer, reading_time, control>>

\* The condition of the while loop around pthread_cond_wait.
MustWait(t) == IF t \in Readers THEN reading_time = 0 ELSE reading_time = 1

\* Whether the call is the last of its turn, asked before number_items changes.
LastReadEarly == number_items = 2                   \* mutant
LastRead == number_items = 1
LastWriteLate == number_items = Size                \* mutant
LastWrite == number_items = Size - 1

\* allocate_buffer
Init == InitBuffer /\ reading_time = 0 /\ InitControl

ReadQuiet(t) == /\ Take(t)                          \* mutant: no broadcast
                /\ reading_time' = IF LastRead THEN 0 ELSE reading_time
                /\ Finish(t, FALSE)

\* The rest of read_from_concurrent_buffer, with the mutex held.
Read(t) == /\ Take(t)
           /\ reading_time' = IF LastRead THEN 0 ELSE reading_time
           /\ Finish(t, LastRead)

\* The rest of write_to_concurrent_buffer, with the mutex held.
Write(t) == /\ Fill(t)
            /\ reading_time' = IF LastWrite THEN 1 ELSE reading_time
            /\ Finish(t, LastWrite)

Step(t) == \/ Read(t) \/ Write(t)
           \/ /\ Lock(t) \/ Test(t, MustWait(t)) \/ Wake(t)
              /\ UNCHANGED reading_time

TurnMain == Main /\ UNCHANGED reading_time

Next == \/ \E t \in Threads : Step(t)
        \/ \E t \in Threads : SpuriousWakeup(t) /\ UNCHANGED reading_time
        \/ TurnMain

Spec == Init /\ [][Next]_vars

\* Some thread that can run does run; see ConcurrentBuffer.
FairSpec == Spec /\ WF_vars(TurnMain \/ \E t \in Threads : Step(t))

-----------------------------------------------------------------------------
\* The comment beside buffer_size in main: without it the last turn of the
\* writers never ends and the readers wait for ever.
WholeTurns == (Cardinality(Readers) * ReaderRuns) % Size = 0

\* The types of Task6's state: no point leaves the ring, which is never overfilled
\* or overdrained, and reading_time is a flag.
TypeOK == BufferOK /\ reading_time \in {0, 1}

\* The calls the threads of a group have completed, each thread's numbered
\* from 1.
Calls(group) == UNION {{t} \X (1 .. Runs(t) - runs[t]) : t \in group}
Completed(group) == Cardinality(Calls(group))

\* The turns are whole: readers read only when the writers have completed a
\* multiple of Size calls, writers write only when the readers have.
TurnsAreWhole == IF reading_time = 1 THEN Completed(Writers) % Size = 0
                                     ELSE Completed(Readers) % Size = 0

\* No wakeup is lost: the last call of a turn wakes everybody who waits for
\* the next turn, and a thread that waits is one whose turn it is not.
NoLostWakeup == \A t \in Threads : pc[t] = Waiting => MustWait(t)
=============================================================================
