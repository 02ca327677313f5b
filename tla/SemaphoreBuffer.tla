-------------------------- MODULE SemaphoreBuffer ---------------------------
(***************************************************************************)
(* Classes5/linked_buffer/semaphore: gbl_semaphore, a read-write semaphore *)
(* taken with down_read and down_write, neither of which can fail.  Who of *)
(* several waiting processes gets it is left open.                         *)
(***************************************************************************)
EXTENDS LinkedBuffer

\* down_read returns while readers have the semaphore, down_write only when
\* nobody has it.
down_read == writing = {}
down_write == reading = {} /\ writing = {}

linked_read(r) == \/ \E count \in ReadCounts : BeginRead(r, count)
                  \/ down_read /\ EnterRead(r)
                  \/ Walk(r) \/ LeaveRead(r) \/ FailRead(r)
                  \/ LoadCount(r) \/ StoreCount(r)

linked_write(w) == \/ \E count \in WriteCounts : BeginWrite(w, count)
                   \/ Chunk(w)
                   \/ down_write /\ EnterWrite(w)
                   \/ Link(w, "account") \/ LoadTotal(w) \/ StoreTotal(w)
                   \/ Clean(w)
                   \/ StoreCount(w)

Next == \/ \E r \in Readers : linked_read(r)
        \/ \E w \in Writers : linked_write(w)
        \/ linked_init \/ linked_exit

Spec == InitDriver /\ [][Next]_vars
=============================================================================
