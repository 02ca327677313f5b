----------------------------- MODULE ObjectArray -----------------------------
(***************************************************************************)
(* What Classes1/Task3.c and Task5.c have in common: an array of objects,  *)
(* each with its readers_mutex and writers_mutex.  A call works on an      *)
(* object chosen at random; it never waits for writers_mutex but returns   *)
(* false when it is taken, and the loop of the thread then calls again, of *)
(* another object perhaps, without counting the call.                      *)
(***************************************************************************)
EXTENDS ForkJoin

CONSTANTS NumObjects,    \* num_objects
          Values,        \* what rand() may return
          Initial        \* initial_data

ASSUME ObjectsAssumption == NumObjects \in Nat \ {0}
ASSUME FiniteAssumption == IsFiniteSet(Readers)

Objects == 0 .. NumObjects - 1

VARIABLES data, readers_count, readers_mutex, writers_mutex,  \* of each object
          at             \* the object each thread has chosen

objects == <<data, readers_count, readers_mutex, writers_mutex>>

\* allocate_object, for each index
InitObjects == /\ data = [o \in Objects |-> Initial]
               /\ readers_count = [o \in Objects |-> 0]
               /\ readers_mutex = [o \in Objects |-> Nobody]
               /\ writers_mutex = [o \in Objects |-> Nobody]
               /\ at = [t \in Threads |-> 0]

\* The argument of the call: &object_array[rand() % *array_size]
Choose(t, o) == /\ pc[t] = Start
                /\ at' = [at EXCEPT ![t] = o]
                /\ Goto(t, "chosen")
                /\ UNCHANGED objects

\* The call returns false.
Refused(t) == Goto(t, Start)

-----------------------------------------------------------------------------
TryWriteUntested(w) == /\ pc[w] = "chosen"          \* mutant: result not tested
                       /\ writers_mutex' = [writers_mutex EXCEPT ![at[w]] = w]
                       /\ Goto(w, "writing")
                       /\ UNCHANGED <<data, readers_count, readers_mutex>>

\* The trylock of write_to_object.
TryWrite(w) == /\ pc[w] = "chosen"
               /\ \/ AcquireAt(writers_mutex, at[w], w) /\ Goto(w, "writing")
                  \/ /\ TakenAt(writers_mutex, at[w]) /\ Refused(w)
                     /\ UNCHANGED writers_mutex
               /\ UNCHANGED <<data, readers_count, readers_mutex>>

\* object->data = value
Store(w) == /\ pc[w] = "writing"
            /\ \E value \in Values : data' = [data EXCEPT ![at[w]] = value]
            /\ Goto(w, "wrote")
            /\ UNCHANGED <<readers_count, readers_mutex, writers_mutex>>

UnlockWrite(w) == /\ pc[w] = "wrote"
                  /\ ReleaseAt(writers_mutex, at[w])
                  /\ Return(w, pc)
                  /\ UNCHANGED <<data, readers_count, readers_mutex>>

Write(w) == /\ TryWrite(w) \/ Store(w) \/ UnlockWrite(w)
            /\ UNCHANGED at

-----------------------------------------------------------------------------
\* readers_mutex is locked at the top of read_from_object.
LockRead(r) == /\ pc[r] = "chosen"
               /\ AcquireAt(readers_mutex, at[r], r)
               /\ Goto(r, "entering")
               /\ UNCHANGED <<data, readers_count, writers_mutex>>

\* The first reader cannot lock writers_mutex for the readers.
RefuseTaken(r) == LET o == at[r] IN
  /\ pc[r] = "entering"
  /\ readers_count[o] = 0 /\ TakenAt(writers_mutex, o)
  /\ ReleaseAt(readers_mutex, o)
  /\ Refused(r)
  /\ UNCHANGED <<data, readers_count, writers_mutex>>

\* The first reader has, or another reader had, locked writers_mutex.
LockedForReaders(r) == IF readers_count[at[r]] = 0
                       THEN AcquireAt(writers_mutex, at[r], r)
                       ELSE UNCHANGED writers_mutex

EnterAnyway(r) ==                                   \* mutant: no trylock
  /\ pc[r] = "entering"
  /\ readers_count' = [readers_count EXCEPT ![at[r]] = @ + 1]
  /\ ReleaseAt(readers_mutex, at[r])
  /\ Goto(r, "reading")
  /\ UNCHANGED <<data, writers_mutex>>

\* The reader is counted and readers_mutex unlocked.
Enter(r) == /\ pc[r] = "entering"
            /\ LockedForReaders(r)
            /\ readers_count' = [readers_count EXCEPT ![at[r]] = @ + 1]
            /\ ReleaseAt(readers_mutex, at[r])
            /\ Goto(r, "reading")
            /\ UNCHANGED data

\* After the print of object->data the reader is no longer counted.
Unregister(r) == /\ pc[r] = "reading"
                 /\ AcquireAt(readers_mutex, at[r], r)
                 /\ readers_count' = [readers_count EXCEPT ![at[r]] = @ - 1]
                 /\ Goto(r, "leaving")
                 /\ UNCHANGED <<data, writers_mutex>>

LeaveHeld(r) == /\ pc[r] = "leaving"                \* mutant: an off-by-one
                /\ IF readers_count[at[r]] = 1
                   THEN ReleaseAt(writers_mutex, at[r]) ELSE UNCHANGED writers_mutex
                /\ ReleaseAt(readers_mutex, at[r])
                /\ Return(r, pc)
                /\ UNCHANGED <<data, readers_count>>

\* The last reader unlocks writers_mutex.
Leave(r) == /\ pc[r] = "leaving"
            /\ IF readers_count[at[r]] = 0
               THEN ReleaseAt(writers_mutex, at[r]) ELSE UNCHANGED writers_mutex
            /\ ReleaseAt(readers_mutex, at[r])
            /\ Return(r, pc)
            /\ UNCHANGED <<data, readers_count>>

\* main creates the writers, then the readers, and joins them all.
Main == /\ (\E t \in Threads : Create(t, Writers)) \/ Created \/ Join(Threads)
        /\ UNCHANGED <<objects, at>>

-----------------------------------------------------------------------------
\* The threads that may use the data of object o now.
ReadingAt(o) == {r \in Readers : pc[r] = "reading" /\ at[r] = o}
WritingAt(o) == {w \in Writers : pc[w] \in {"writing", "wrote"} /\ at[w] = o}

Object(o) == INSTANCE SharedObject WITH data <- data[o],
                       reading <- ReadingAt(o), writing <- WritingAt(o)

\* In every object readers share the value and a writer has it alone: what
\* happens to the array is, for each object, a step of that object's
\* specification or nothing.
ImplementsObjects ==
  /\ \A o \in Objects : Object(o)!Init
  /\ [][\A o \in Objects : [Object(o)!Next]_(Object(o)!vars)]_<<objects, at, pc>>

\* Somebody is at object o who will unlock its writers_mutex.
InUse(o) == \/ WritingAt(o) # {}
            \/ \E r \in Readers : at[r] = o /\ pc[r] \in {"reading", "leaving"}
=============================================================================
