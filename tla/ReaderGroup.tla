---------------------------- MODULE ReaderGroup ----------------------------
(***************************************************************************)
(* The readers' side of Classes1/Task1.c and Task4.c, which is the same in *)
(* both: the reader that finds readers_count at 1 locks writer_mutex for   *)
(* all of them, WHILE IT HOLDS reader_mutex, and the one that leaves it at *)
(* 0 unlocks it, which may be another thread.                              *)
(***************************************************************************)
EXTENDS ForkJoin

ASSUME FiniteAssumption == IsFiniteSet(Readers)

VARIABLES readers_count, reader_mutex,
          writer_mutex   \* owned by another thread, or by the reader that
                         \* locked it for all

group == <<readers_count, reader_mutex, writer_mutex>>

InitGroup == /\ readers_count = 0
             /\ reader_mutex = Nobody /\ writer_mutex = Nobody

\* reader_mutex is locked and the reader counted.
Register(r) == /\ pc[r] = Start
               /\ Acquire(reader_mutex, r)
               /\ readers_count' = readers_count + 1
               /\ Goto(r, "entering")
               /\ UNCHANGED writer_mutex

EnterUnlocked(r) == /\ pc[r] = "entering"           \* mutant
                    /\ Release(reader_mutex)
                    /\ Goto(r, "reading")
                    /\ UNCHANGED <<readers_count, writer_mutex>>

\* The first reader locks writer_mutex, then reader_mutex is unlocked.
Enter(r) == /\ pc[r] = "entering"
            /\ IF readers_count = 1 THEN Acquire(writer_mutex, r)
                                    ELSE UNCHANGED writer_mutex
            /\ Release(reader_mutex)
            /\ Goto(r, "reading")
            /\ UNCHANGED readers_count

\* A reader at "reading" prints object->data.  Then it locks reader_mutex
\* again and is no longer counted.
Unregister(r) == /\ pc[r] = "reading"
                 /\ Acquire(reader_mutex, r)
                 /\ readers_count' = readers_count - 1
                 /\ Goto(r, "leaving")
                 /\ UNCHANGED writer_mutex

LeaveLate(r) == /\ pc[r] = "leaving"                \* mutant: an off-by-one
                /\ IF readers_count = 1 THEN Release(writer_mutex)
                                        ELSE UNCHANGED writer_mutex
                /\ Release(reader_mutex)
                /\ Return(r, pc)
                /\ UNCHANGED readers_count

\* The last reader unlocks writer_mutex, then reader_mutex is unlocked.
Leave(r) == /\ pc[r] = "leaving"
            /\ IF readers_count = 0 THEN Release(writer_mutex)
                                    ELSE UNCHANGED writer_mutex
            /\ Release(reader_mutex)
            /\ Return(r, pc)
            /\ UNCHANGED readers_count

Read(r) == Register(r) \/ Enter(r) \/ Unregister(r) \/ Leave(r)

ReaderLabels == {"entering", "reading", "leaving"}

\* The readers whose prints of object->data may happen now.
Reading == {r \in Readers : pc[r] = "reading"}

GroupOK == /\ readers_count \in 0 .. Cardinality(Readers)
           /\ reader_mutex \in Readers \cup {Nobody}

\* writer_mutex belongs to the readers as long as one of them reads or is on
\* its way out; which reader locked it does not matter, and a reader that is
\* on its way in relies on the others.
HeldForReaders == writer_mutex \in Readers <=>
                  \E r \in Readers : pc[r] \in {"reading", "leaving"}
=============================================================================
