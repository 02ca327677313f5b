---------------------------- MODULE MutexBuffer -----------------------------
(***************************************************************************)
(* Classes5/linked_buffer/mutex: gbl_mutex for readers and writers alike.  *)
(* mutex_lock_interruptible fails when a signal arrives, and the call then *)
(* returns EINTR.                                                          *)
(***************************************************************************)
EXTENDS LinkedBuffer

\* gbl_mutex is free.
Free == reading = {} /\ writing = {}

\* A signal ends a read that waits for gbl_mutex.
InterruptRead(r) ==
  /\ pc[r] = "lock"
  /\ Return(r)
  /\ UNCHANGED <<list, heap, counters, locks, module, left, files, cleared>>

\* A signal ends a write: the node not yet linked is freed, those of the
\* chunks before it stay in the list.
InterruptLeak(w) ==                                 \* mutant: no kfree
  /\ pc[w] = "lock"
  /\ Return(w)
  /\ UNCHANGED <<list, heap, counters, locks, module, left, files, cleared>>
InterruptWrite(w) ==
  /\ pc[w] = "lock"
  /\ heap' = heap \ {call[w].node}
  /\ Return(w)
  /\ UNCHANGED <<list, counters, locks, module, left, files, cleared>>

\* What happens only when somebody sends a signal.
Signalled == \/ \E r \in Readers : InterruptRead(r)
             \/ \E w \in Writers : InterruptWrite(w)

FailingLocked(r) == \/ \E count \in ReadCounts : BeginRead(r, count)  \* mutant: no
                    \/ Free /\ EnterRead(r)                          \* unlock
                    \/ InterruptRead(r)
                    \/ Walk(r) \/ LeaveRead(r) \/ FailLocked(r)
                    \/ LoadCount(r) \/ StoreCount(r)
linked_read(r) == \/ \E count \in ReadCounts : BeginRead(r, count)
                  \/ Free /\ EnterRead(r)
                  \/ InterruptRead(r)
                  \/ Walk(r) \/ LeaveRead(r) \/ FailRead(r)
                  \/ LoadCount(r) \/ StoreCount(r)

linked_write(w) == \/ \E count \in WriteCounts : BeginWrite(w, count)
                   \/ Chunk(w)
                   \/ Free /\ EnterWrite(w)
                   \/ InterruptWrite(w)
                   \/ Link(w, "account") \/ LoadTotal(w) \/ StoreTotal(w)
                   \/ Clean(w)
                   \/ StoreCount(w)

Next == \/ \E r \in Readers : linked_read(r)
        \/ \E w \in Writers : linked_write(w)
        \/ linked_init \/ linked_exit

Spec == InitDriver /\ [][Next]_vars
=============================================================================
