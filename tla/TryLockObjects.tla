--------------------------- MODULE TryLockObjects ---------------------------
(***************************************************************************)
(* Classes1/Task3.c: the array of objects, with no limit on the readers of *)
(* an object.                                                              *)
(***************************************************************************)
EXTENDS ObjectArray

vars == <<objects, at, control>>

Init == InitObjects /\ InitControl

\* read_from_object
Read(r) == /\ LockRead(r) \/ RefuseTaken(r) \/ Enter(r) \/ Unregister(r) \/ Leave(r)
           /\ UNCHANGED at

\* A thread in its loop, whatever rand() returns.
Thread(t) == \/ \E o \in Objects : Choose(t, o)
             \/ t \in Readers /\ Read(t)
             \/ t \in Writers /\ Write(t)

Next == (\E t \in Threads : Thread(t)) \/ Main

Spec == Init /\ [][Next]_vars

-----------------------------------------------------------------------------
\* writers_mutex is locked exactly while somebody is at the object who will
\* unlock it: a refused call leaves no mutex behind.
NoLockLeft == \A o \in Objects : TakenAt(writers_mutex, o) <=> InUse(o)
=============================================================================
