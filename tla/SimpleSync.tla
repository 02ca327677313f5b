----------------------------- MODULE SimpleSync -----------------------------
(***************************************************************************)
(* Classes5/simple_sync: the three drivers behind /dev/simple, which lock  *)
(* msg_pos with a mutex, a semaphore or a spinlock.  A read fills a buffer *)
(* under the lock, one character every 100 ms, and copies it to user space *)
(* after the unlock.                                                       *)
(*                                                                         *)
(* The spinlock driver sleeps with its lock held, while the others spin    *)
(* with interrupts off and keep their processors.                          *)
(***************************************************************************)
EXTENDS Integers, Sequences, FiniteSets

CONSTANTS Readers, Counts,
          Calls,         \* bound on the calls of a reader
          msg_len,
          INT_MAX,       \* of msg_pos
          Outside,       \* what stands in memory before msg_str
          Processors,
          Nobody         \* the owner of a free lock

ASSUME SimpleAssumption ==
  /\ Nobody \notin Readers /\ IsFiniteSet(Readers)
  /\ Counts \subseteq Nat /\ Calls \in Nat
  /\ msg_len \in Nat \ {0} /\ INT_MAX \in Nat /\ Processors \in Nat \ {0}

VARIABLES variant,       \* which of the three is loaded
          module,        \* what insmod and rmmod have made of it
          msg_pos,
          owner,         \* of my_mutex, my_sem or my_lock
          pc, call, left,
          taken          \* history: the text of each reader's last read

driver == <<variant, module>>
vars == <<driver, msg_pos, owner, pc, call, left, taken>>

Blank == [count |-> 0, length_to_copy |-> 0, local_buf |-> << >>]

Init == /\ variant \in {"mutex", "semaphore", "spinlock"}
        /\ module = "absent" /\ msg_pos = 0 /\ owner = Nobody
        /\ pc = [r \in Readers |-> "user"] /\ call = [r \in Readers |-> Blank]
        /\ left = [r \in Readers |-> Calls] /\ taken = [r \in Readers |-> << >>]

Goto(r, label) == pc' = [pc EXCEPT ![r] = label]
Return(r) == Goto(r, "user") /\ call' = [call EXCEPT ![r] = Blank]

\* The remainder of C, which has the sign of msg_pos.
Remainder(n) == IF n >= 0 THEN n % msg_len ELSE -((-n) % msg_len)

\* msg_pos++ on an int; the kernel is built so that it wraps.
Increment(n) == IF n = INT_MAX THEN -INT_MAX - 1 ELSE n + 1

Char(n) == IF Remainder(n) >= 0 THEN Remainder(n) ELSE Outside

\* The processors of the readers that spin; nothing else runs on them.
Spinning == IF variant = "spinlock" THEN {r \in Readers : pc[r] = "lock"} ELSE {}

\* The spinlock's owner has a processor of its own as long as it is awake.
Awake == IF variant = "spinlock" /\ owner # Nobody /\ pc[owner] # "asleep" THEN 1 ELSE 0

\* A processor is left for a reader that neither spins nor has the spinlock.
ProcessorFree == Cardinality(Spinning) + Awake < Processors

-----------------------------------------------------------------------------
\* A read starts.
Begin(r, count) ==
  /\ module = "loaded" /\ pc[r] = "user" /\ left[r] > 0
  /\ ProcessorFree
  /\ left' = [left EXCEPT ![r] = @ - 1]
  /\ call' = [call EXCEPT ![r].count = count]
  /\ Goto(r, "lock")
  /\ UNCHANGED <<driver, msg_pos, owner, taken>>

LockTaken(r) ==                                      \* mutant: no lock
  LET rest == msg_len - Remainder(msg_pos) IN
  /\ pc[r] = "lock"
  /\ owner' = r
  /\ call' = [call EXCEPT ![r].length_to_copy =
                IF rest > call[r].count THEN call[r].count ELSE rest]
  /\ Goto(r, "allocate")
  /\ UNCHANGED <<driver, msg_pos, left, taken>>

\* The lock is taken; the text may go up to the end of the message.
Lock(r) ==
  LET rest == msg_len - Remainder(msg_pos) IN
  /\ pc[r] = "lock" /\ owner = Nobody
  /\ owner' = r
  /\ call' = [call EXCEPT ![r].length_to_copy =
                IF rest > call[r].count THEN call[r].count ELSE rest]
  /\ Goto(r, "allocate")
  /\ UNCHANGED <<driver, msg_pos, left, taken>>

\* A signal ends the wait: the call returns EINTR.
Interrupt(r) == /\ pc[r] = "lock"
                /\ Return(r)
                /\ UNCHANGED <<driver, msg_pos, owner, left, taken>>

AllocateLocked(r) ==                                 \* mutant: no unlock by the
  /\ pc[r] = "allocate"                              \* mutex driver
  /\ \/ Goto(r, "fill") /\ UNCHANGED <<owner, call>>
     \/ owner' = (IF variant = "mutex" THEN owner ELSE Nobody) /\ Return(r)
  /\ UNCHANGED <<driver, msg_pos, left, taken>>

\* kmalloc; when it fails the call unlocks and returns ENOMEM.
Allocate(r) == /\ pc[r] = "allocate"
               /\ \/ Goto(r, "fill") /\ UNCHANGED <<owner, call>>
                  \/ owner' = Nobody /\ Return(r)
               /\ UNCHANGED <<driver, msg_pos, left, taken>>

\* One turn of the loop: a character, and msleep.
Fill(r) == /\ pc[r] = "fill" /\ Len(call[r].local_buf) < call[r].length_to_copy
           /\ call' = [call EXCEPT ![r].local_buf = Append(@, Char(msg_pos))]
           /\ msg_pos' = Increment(msg_pos)
           /\ Goto(r, "asleep")
           /\ UNCHANGED <<driver, owner, left, taken>>

\* msleep returns when there is a processor to return on.
Wake(r) == /\ pc[r] = "asleep"
           /\ ProcessorFree
           /\ Goto(r, "fill")
           /\ UNCHANGED <<driver, msg_pos, owner, call, left, taken>>

Unlock(r) == /\ pc[r] = "fill" /\ Len(call[r].local_buf) = call[r].length_to_copy
             /\ owner' = Nobody
             /\ taken' = [taken EXCEPT ![r] = call[r].local_buf]
             /\ Goto(r, "send")
             /\ UNCHANGED <<driver, msg_pos, call, left>>

\* copy_to_user never returns less than 0: the call returns the length of the
\* text also when user space has not got it.
Send(r) == /\ pc[r] = "send" /\ ProcessorFree
           /\ Return(r)
           /\ UNCHANGED <<driver, msg_pos, owner, left, taken>>

Body(r) == Allocate(r) \/ Fill(r) \/ Wake(r) \/ Unlock(r) \/ Send(r)

\* simple_read of the three drivers; only the spinlock cannot be interrupted.
MutexRead(r) == /\ variant = "mutex"
                /\ \/ \E count \in Counts : Begin(r, count)
                   \/ Lock(r) \/ Interrupt(r) \/ Body(r)

SemaphoreRead(r) == /\ variant = "semaphore"
                    /\ \/ \E count \in Counts : Begin(r, count)
                       \/ Lock(r) \/ Interrupt(r) \/ Body(r)

SpinlockRead(r) == /\ variant = "spinlock"
                   /\ \/ \E count \in Counts : Begin(r, count)
                      \/ Lock(r) \/ Body(r)

-----------------------------------------------------------------------------
\* insmod; register_chrdev may find the number in use.
simple_init == /\ module = "absent"
               /\ module' \in {"loaded", "refused"}
               /\ UNCHANGED <<variant, msg_pos, owner, pc, call, left, taken>>

\* rmmod.  simple_fops names no owner, so that the calls under way do not keep
\* the module: they lose their code and are killed where they are.
simple_exit == /\ module = "loaded" /\ ProcessorFree
               /\ module' = "removed"
               /\ pc' = [r \in Readers |-> IF pc[r] = "user" THEN "user" ELSE "killed"]
               /\ UNCHANGED <<variant, msg_pos, owner, call, left, taken>>

simple_read == \E r \in Readers : MutexRead(r) \/ SemaphoreRead(r) \/ SpinlockRead(r)

Next == simple_init \/ simple_exit \/ simple_read

Spec == Init /\ [][Next]_vars

\* Some process that can run does run; the calls are bounded.  Nobody has to
\* remove the driver, or to send a signal to a process that waits for the lock.
Signalled == \E r \in Readers : Interrupt(r)

FairSpec == Spec /\ WF_vars((simple_init \/ simple_read) /\ ~Signalled)

-----------------------------------------------------------------------------
\* Where the text of the owner begins.
Start == IF owner = Nobody THEN msg_pos ELSE msg_pos - Len(call[owner].local_buf)

Message == INSTANCE CyclicMessage WITH Length <- msg_len, next <- Start % msg_len

\* Reads take stretches of the message one after the other, each within the
\* message, although a read sleeps between its characters; until msg_pos,
\* which is never reduced, overflows.
ImplementsMessage ==
  Message!Init /\ [][Message!Next \/ Start < 0 \/ Start' < 0]_(Message!vars)

\* Every processor is taken by a reader that waits for an owner that sleeps.
Starved == owner # Nobody /\ pc[owner] = "asleep" /\ Cardinality(Spinning) = Processors

\* All calls return, unless the owner of the spinlock is starved; no other call
\* is lost but those that rmmod meets.
Returned(r) == \/ module = "removed" /\ pc[r] \in {"user", "killed"}
               \/ pc[r] = "user" /\ (left[r] = 0 \/ module = "refused")

Termination == <>(Starved \/ \A r \in Readers : Returned(r))
=============================================================================
