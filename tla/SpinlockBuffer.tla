-------------------------- MODULE SpinlockBuffer ----------------------------
(***************************************************************************)
(* Classes5/linked_buffer/spinlock: gbl_lock, a read-write spinlock.  The  *)
(* processes spin where those of the semaphore driver sleep; a reader gets *)
(* the lock also past a writer that waits.  lock_flags is never used.      *)
(***************************************************************************)
EXTENDS LinkedBuffer

\* read_lock returns while other readers have the lock, write_lock only when
\* nobody has it.
read_lock == writing = {}
write_lock == reading = {} /\ writing = {}

linked_read(r) == \/ \E count \in ReadCounts : BeginRead(r, count)
                  \/ read_lock /\ EnterRead(r)
                  \/ Walk(r) \/ LeaveRead(r) \/ FailRead(r)
                  \/ LoadCount(r) \/ StoreCount(r)

linked_write(w) == \/ \E count \in WriteCounts : BeginWrite(w, count)
                   \/ Chunk(w)
                   \/ write_lock /\ EnterWrite(w)
                   \/ Link(w, "account") \/ LoadTotal(w) \/ StoreTotal(w)
                   \/ Clean(w)
                   \/ StoreCount(w)

Next == \/ \E r \in Readers : linked_read(r)
        \/ \E w \in Writers : linked_write(w)
        \/ linked_init \/ linked_exit

Spec == InitDriver /\ [][Next]_vars
=============================================================================
