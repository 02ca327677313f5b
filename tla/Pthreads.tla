------------------------------ MODULE Pthreads ------------------------------
(***************************************************************************)
(* The part of the pthread library the programs of Classes1 rely on.  The  *)
(* library is not in the repository: it is modelled from how the programs  *)
(* use it.  All mutexes are initialised with default attributes, which in  *)
(* glibc means that pthread_mutex_unlock releases the mutex whoever calls  *)
(* it; Task1, Task3, Task4 and Task5 depend on that, because the reader    *)
(* that leaves last unlocks what the reader that entered first has locked. *)
(*                                                                         *)
(* A thread's control state is a string kept in a function pc.  The states *)
(* named here are shared by every program; each program adds its own.      *)
(***************************************************************************)

CONSTANT Nobody          \* the owner of a free mutex, no thread

\* pthread_mutex_lock returns with the mutex m owned by thread t; it cannot
\* return while m is owned.
Acquire(m, t) == m = Nobody /\ m' = t

\* pthread_mutex_unlock.
Release(m) == m' = Nobody

\* The same for the i-th of an array of mutexes; pthread_mutex_trylock is
\* AcquireAt where it succeeds and fails where TakenAt.
AcquireAt(m, i, t) == m[i] = Nobody /\ m' = [m EXCEPT ![i] = t]
ReleaseAt(m, i) == m' = [m EXCEPT ![i] = Nobody]
TakenAt(m, i) == m[i] # Nobody

\* The states of a thread before pthread_create, at the head of its for loop,
\* inside pthread_cond_wait before and after a signal, and after its return.
Unborn    == "unborn"
Start     == "start"
Waiting   == "waiting"
Signalled == "signalled"
Done      == "done"

\* pthread_cond_broadcast: every waiting thread is signalled, and will return
\* from pthread_cond_wait once it has the mutex again.
Broadcast(pc) ==
  [t \in DOMAIN pc |-> IF pc[t] = Waiting THEN Signalled ELSE pc[t]]

\* Where a thread goes when its for loop has n iterations left.
LoopHead(n) == IF n = 0 THEN Done ELSE Start
=============================================================================
