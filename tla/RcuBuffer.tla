----------------------------- MODULE RcuBuffer ------------------------------
(***************************************************************************)
(* Classes5/linked_buffer/rcu: readers only announce themselves with       *)
(* rcu_read_lock, and walk the list while writers add to it.  writer_lock  *)
(* keeps writers apart; after each node a writer waits in synchronize_rcu  *)
(* until the readers that were inside have left.                           *)
(***************************************************************************)
EXTENDS LinkedBuffer

linked_read(r) == \/ \E count \in ReadCounts : BeginRead(r, count)
                  \/ EnterRead(r)
                  \/ Walk(r) \/ LeaveRead(r) \/ FailRead(r)
                  \/ LoadCount(r) \/ StoreCount(r)

\* writer_lock is free.
NeverTaken == TRUE                                  \* mutant: no writer_lock
Free == writing = {}

\* synchronize_rcu starts: it will wait for the readers now inside.
Synchronize(w) == /\ pc[w] = "synchronize"
                  /\ grace' = [grace EXCEPT ![w] = reading]
                  /\ Goto(w, "grace")
                  /\ UNCHANGED <<list, heap, counters, reading, writing, module, call, left,
                                 files, cleared>>

\* They have left, and synchronize_rcu returns.
GracePeriodEnds(w) == /\ pc[w] = "grace" /\ grace[w] = {}
                      /\ Goto(w, "account")
                      /\ UNCHANGED <<list, heap, counters, locks, module, call, left, files,
                                     cleared>>

linked_write(w) == \/ \E count \in WriteCounts : BeginWrite(w, count)
                   \/ Chunk(w)
                   \/ Free /\ EnterWrite(w)
                   \/ Link(w, "synchronize") \/ Synchronize(w) \/ GracePeriodEnds(w)
                   \/ LoadTotal(w) \/ StoreTotal(w)
                   \/ Clean(w)
                   \/ StoreCount(w)

Next == \/ \E r \in Readers : linked_read(r)
        \/ \E w \in Writers : linked_write(w)
        \/ linked_init \/ linked_exit

Spec == InitDriver /\ [][Next]_vars
=============================================================================
