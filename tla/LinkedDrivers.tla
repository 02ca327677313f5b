--------------------------- MODULE LinkedDrivers ----------------------------
(***************************************************************************)
(* The four linked_buffer drivers side by side: insmod loads one of them,  *)
(* and the programs that use /dev/linked cannot tell which.                *)
(***************************************************************************)
EXTENDS LinkedBuffer

VARIABLE variant         \* which of the four is loaded

Mutex == INSTANCE MutexBuffer
Semaphore == INSTANCE SemaphoreBuffer
Spinlock == INSTANCE SpinlockBuffer
Rcu == INSTANCE RcuBuffer

Init == InitDriver /\ variant \in {"mutex", "semaphore", "spinlock", "rcu"}

Next == \/ variant = "mutex" /\ Mutex!Next /\ UNCHANGED variant
        \/ variant = "semaphore" /\ Semaphore!Next /\ UNCHANGED variant
        \/ variant = "spinlock" /\ Spinlock!Next /\ UNCHANGED variant
        \/ variant = "rcu" /\ Rcu!Next /\ UNCHANGED variant

Spec == Init /\ [][Next]_<<vars, variant>>

\* Some process that can run does run: calls are bounded, and so nothing need
\* be assumed of who gets a lock.  Nobody has to remove the driver below a
\* call or to send a signal: a call that hangs is not saved by either.
Unasked == UnloadUnderCall \/ (variant = "mutex" /\ Mutex!Signalled)

FairSpec == Spec /\ WF_<<vars, variant>>(Next /\ ~Unasked)
=============================================================================
