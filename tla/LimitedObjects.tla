--------------------------- MODULE LimitedObjects ---------------------------
(***************************************************************************)
(* Classes1/Task5.c: as Task3, but an object that has readers_limit        *)
(* readers refuses the next one.                                           *)
(*                                                                         *)
(* main passes the arguments of allocate_object in the wrong order, so     *)
(* that the limit of an object is its index.  The object with index 0 has  *)
(* the limit 0: the first reader that gets its writers_mutex is refused    *)
(* with the mutex locked, and nobody gets at that object again.            *)
(***************************************************************************)
EXTENDS ObjectArray

CONSTANT ReadersLimitMax             \* readers_limit_max

VARIABLES readers_limit, array_idx   \* of each object

vars == <<objects, at, control, readers_limit, array_idx>>

\* The call allocate_object(initial_data, i, 1 + rand() % readers_limit_max):
\* the second argument is the limit, the third the index that is printed.
Init == /\ InitObjects /\ InitControl
        /\ readers_limit = [i \in Objects |-> i]
        /\ array_idx \in [Objects -> 1 .. ReadersLimitMax]

FullLate(o) == readers_count[o] > readers_limit[o]  \* mutant: an off-by-one
Full(o) == readers_count[o] = readers_limit[o]

RefuseFullHeld(r) == /\ pc[r] = "entering"          \* mutant: readers_mutex kept
                     /\ Full(at[r])
                     /\ LockedForReaders(r)
                     /\ Refused(r)
                     /\ UNCHANGED <<data, readers_count, readers_mutex>>

\* The limit is reached.  writers_mutex, if this call has locked it, stays.
RefuseFull(r) == /\ pc[r] = "entering"
                 /\ Full(at[r])
                 /\ LockedForReaders(r)
                 /\ ReleaseAt(readers_mutex, at[r])
                 /\ Refused(r)
                 /\ UNCHANGED <<data, readers_count>>

EnterLimited(r) == ~Full(at[r]) /\ Enter(r)

\* read_from_object
Read(r) == /\ \/ LockRead(r) \/ RefuseTaken(r) \/ RefuseFull(r)
              \/ EnterLimited(r) \/ Unregister(r) \/ Leave(r)
           /\ UNCHANGED at

Call(t) == (t \in Readers /\ Read(t)) \/ (t \in Writers /\ Write(t))

Thread(t) == (\E o \in Objects : Choose(t, o)) \/ Call(t)

\* Nothing changes the two fields after allocate_object.
fields == <<readers_limit, array_idx>>

Next == \/ (\E t \in Threads : Thread(t)) /\ UNCHANGED fields
        \/ Main /\ UNCHANGED fields

Spec == Init /\ [][Next]_vars

-----------------------------------------------------------------------------
\* No object has more readers than its limit.
LimitKept == \A o \in Objects : readers_count[o] <= readers_limit[o]

\* writers_mutex is locked while somebody is at the object who will unlock it.
\* Only an object whose limit is 0 keeps it locked for good.
LockLeftAtLimitZero ==
  \A o \in Objects : /\ InUse(o) => TakenAt(writers_mutex, o)
                     /\ TakenAt(writers_mutex, o) => InUse(o) \/ readers_limit[o] = 0

\* What readers_limit_max is for: no object has more readers at once.
AtMostLimitMax == \A o \in Objects : Cardinality(ReadingAt(o)) <= ReadersLimitMax
=============================================================================
