---------------------------- MODULE ArrayPrograms ----------------------------
(***************************************************************************)
(* Classes1/Task3.c and Task5.c side by side: the two programs share the   *)
(* array of objects, and differ in the limit of readers that Task5 adds.   *)
(***************************************************************************)
EXTENDS ObjectArray

CONSTANT ReadersLimitMax   \* of Task5

ASSUME LimitAssumption == ReadersLimitMax \in Nat \ {0}

VARIABLES readers_limit, array_idx,
          task           \* which of the two runs

Task3 == INSTANCE TryLockObjects
Task5 == INSTANCE LimitedObjects

\* What the programs do not change while they run.
given == <<readers_limit, array_idx, task>>
allVars == <<objects, at, control, given>>

Init == \/ task = 3 /\ Task3!Init /\ readers_limit = <<>> /\ array_idx = <<>>
        \/ task = 5 /\ Task5!Init

Next == \/ task = 3 /\ Task3!Next /\ UNCHANGED given
        \/ task = 5 /\ Task5!Next /\ UNCHANGED task

Spec == Init /\ [][Next]_allVars

\* Every thread that can run does run.  Of rand() nothing is assumed in Task3:
\* a call is refused only while another is inside, and the calls that get in
\* are bounded.  In Task5 it goes on choosing every object, and a thread that
\* waits for readers_mutex gets it when it is unlocked again and again; without
\* the first the threads may call the object with the limit 0 for ever.
FairSpec ==
  /\ Spec
  /\ WF_allVars(Main /\ UNCHANGED given)
  /\ \A t \in Threads :
       /\ WF_allVars(task = 3 /\ Task3!Thread(t) /\ UNCHANGED given)
       /\ SF_allVars(task = 5 /\ Task5!Call(t) /\ UNCHANGED given)
       /\ \A o \in Objects :
            SF_allVars(task = 5 /\ Task5!Choose(t, o) /\ UNCHANGED given)

-----------------------------------------------------------------------------
\* In Task5 no object has more readers than its limit.
LimitKept == task = 5 => Task5!LimitKept

\* In Task3 writers_mutex is locked exactly while somebody is at the object who
\* will unlock it: a refused call leaves no mutex behind.  In Task5 an object
\* with the limit 0, and no other, keeps it locked for good.
NoLockLeft == \/ task = 3 /\ Task3!NoLockLeft
              \/ task = 5 /\ Task5!LockLeftAtLimitZero

\* An object whose writers_mutex is locked with nobody there to unlock it is
\* never read or written again.
DeadForGood ==
  [][\A o \in Objects : TakenAt(writers_mutex, o) /\ ~InUse(o) =>
       writers_mutex'[o] = writers_mutex[o] /\ ~InUse(o)' /\ data'[o] = data[o]]_allVars

\* Every thread completes its runs, although refused calls do not count: in
\* Task5 on the objects whose limit is not 0.
Termination == <>(main = "joined")
=============================================================================
