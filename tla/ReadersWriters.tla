-------------------------- MODULE ReadersWriters ---------------------------
(***************************************************************************)
(* Classes1/Task1.c: readers and writers of one object.  The readers'      *)
(* side is ReaderGroup; a writer locks writer_mutex around its store.      *)
(***************************************************************************)
EXTENDS ReaderGroup

CONSTANTS Values,        \* what rand() may return
          Initial        \* initial_data

VARIABLES data

vars == <<data, group, control>>

\* allocate_concurrent_object
Init == data = Initial /\ InitGroup /\ InitControl

LockWrite(w) == /\ pc[w] = Start
                /\ Acquire(writer_mutex, w)
                /\ Goto(w, "writing")
                /\ UNCHANGED <<data, readers_count, reader_mutex>>

\* data = rand()
Store(w) == /\ pc[w] = "writing"
            /\ data' \in Values
            /\ Goto(w, "wrote")
            /\ UNCHANGED group

\* After it has printed what it has just stored, the writer unlocks.
UnlockWrite(w) == /\ pc[w] = "wrote"
                  /\ Release(writer_mutex)
                  /\ Return(w, pc)
                  /\ UNCHANGED <<data, readers_count, reader_mutex>>

\* write_to_concurrent_object
Write(w) == LockWrite(w) \/ Store(w) \/ UnlockWrite(w)

\* Readers are created first.
Main == /\ (\E t \in Threads : Create(t, Readers)) \/ Created \/ Join(Threads)
        /\ UNCHANGED <<data, group>>

Next == \/ \E r \in Readers : Read(r) /\ UNCHANGED data
        \/ \E w \in Writers : Write(w)
        \/ Main

Spec == Init /\ [][Next]_vars

\* Some thread that can run does run: the calls of every thread are bounded,
\* so nothing need be assumed of who gets a mutex.
FairSpec == Spec /\ WF_vars(Next)

-----------------------------------------------------------------------------
\* The types of Task1's state; readers_count stays within the number of readers.
TypeOK == /\ data \in Values \cup {Initial}
          /\ GroupOK /\ writer_mutex \in Threads \cup {Nobody}
          /\ ControlOK(ReaderLabels \cup {"writing", "wrote"})

\* The writers that may use data now.
Writing == {w \in Writers : pc[w] \in {"writing", "wrote"}}

Object == INSTANCE SharedObject WITH reading <- Reading, writing <- Writing

\* Readers share the object, a writer has it alone, and nothing is stored
\* while a reader prints data or between a writer's store and its print.
ImplementsObject == Object!Spec

\* Every call returns: a reader that waits for writer_mutex with reader_mutex
\* in its hands stops the other readers, never the writer it waits for.
Termination == <>(main = "joined")
=============================================================================
