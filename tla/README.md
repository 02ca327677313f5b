# A TLA+ development of AGH_Systems_Programming

The repository holds the exercises of a systems programming course: six pthread
programs (`Classes1`), three groups of Linux drivers (`Classes3`, `Classes5`,
`Classes7`) and a few system calls (`Classes6`). None of them is long. Almost all of
them are about sharing: which thread, process or interrupt may be where, who unlocks
what, who wakes whom, what is left behind when a step fails. This directory states
what each of them promises and shows it: on small instances with TLC, and for
all six programs of `Classes1`, the linked_buffer drivers, interrupt_module and Circular for any
number of threads, processes, objects, calls, slots, interrupts and bytes with TLAPS.

Contents

1. Inventory of the system
2. Plan
3. Modules and how they correspond to the code
4. Runs: what each shows, its bounds and its fairness
5. Proofs
6. What the models found
7. What is not modelled, and what is abstracted away

---

## 1. Inventory of the system

All paths are below `src/`.

### 1.1 `Classes1/Task1.c` - readers and writers of one object

*State.* `data`, `readers_count`, `reader_mutex` (guards the count), `writer_mutex`
(guards the data; taken by the first reader on behalf of all of them, given back by the
last). *Operations.* `read_from_concurrent_object`, `write_to_concurrent_object`, each
called a fixed number of times by every reader and every writer; `main` creates readers,
then writers, and joins them. *Hard.* A mutex locked by one thread and unlocked by
another; the first reader waits for `writer_mutex` with `reader_mutex` in its hands.
*Correct when* readers share the object, a writer has it alone, nobody waits for ever.

### 1.2 `Classes1/Task2.c` - bounded buffer

*State.* A ring of `size` slots, `number_items`, `reading_point`, `writing_point`, one
mutex and one condition variable for both sides. *Operations.*
`read_from_concurrent_buffer`, `write_to_concurrent_buffer`, allocation, `main`.
*Hard.* A call broadcasts only when it leaves the full ring (a read) or the empty one
(a write); signalled threads compete for the mutex with new ones; wakeups may be
spurious. *Correct when* it is a bounded first-in first-out queue, no wakeup is lost,
and the program ends if the calls of the two sides are equally many.

### 1.3 `Classes1/Task3.c` - array of objects with trylock

*State.* Per object what Task1 has for its one object. *Operations.* As Task1, but
every lock of `writers_mutex` is a `pthread_mutex_trylock`; a call that fails returns 0
and does not count as a run. Every iteration chooses an object at random. *Hard.* The
way out of a refused call has to undo what the call did; retries are unbounded.
*Correct when* every object is a shared object and no refused call leaves a lock.

### 1.4 `Classes1/Task4.c` - object with a critic

*State.* As Task1, and the round: a flag per writer, their number, and `critic_cond`.
*Operations.* Reads, writes that end the round when the last writer has written,
the critic, which saves the value and opens the next round, its cancellation by `main`
and its cleanup handler. *Hard.* Writers and critic wait for opposite conditions on
one condition variable; writers end after their runs while others wait for the round;
the cancellation may meet the critic in the wait or in `printf`. *Correct when* every
round is saved once with the value of its last writer, and `main` reaches the end.

### 1.5 `Classes1/Task5.c` - objects with a limit of readers

As Task3; an object with `readers_limit` readers refuses the next one. *Hard.* The limit
is tested after the mutex was taken; the arguments that set it are passed in the wrong
order, so the limit of an object is its index. *Correct when* limits are kept and the
damage is confined to the object whose limit is 0.

### 1.6 `Classes1/Task6.c` - buffer filled and drained in turns

As Task2, but the ring is filled to the last slot, then drained to the last item.
`reading_time` says whose turn it is; the last call of a turn flips it and broadcasts.
*Hard.* No call tests whether there is an item or a slot: only the turns keep the ring
from being overrun. *Correct when* turns are whole, no wakeup is lost, the queue is the
same as Task2's.

### 1.7 `Classes5/linked_buffer` - four drivers for `/dev/linked`

`mutex`, `semaphore` (a read-write semaphore), `spinlock` (a read-write spinlock) and
`rcu` are the same driver with four ways of locking. *State.* A list of nodes of at most
`INTERNAL_SIZE` bytes, `total_length`, `read_count`, `write_count`, the position of each
file. *Operations.* `linked_read`, `linked_write` (in chunks; the chunk `xxx&` calls
`clean_list`), `/proc/linked`, `linked_init`, `linked_exit`. *Hard.* `clean_list` takes
no lock; `linked_fops` names no owner, so that rmmod does not wait for calls; `total_length` and the counters are updated outside the lock; under rcu the
list grows while it is read; a write may fail or be interrupted after some chunks.
*Correct when* every read returns what the list holds at one moment, no node is lost,
leaked, or returned twice, no process follows a pointer to a freed node, all calls return.

### 1.8 `Classes5/simple_sync` - three drivers for `/dev/simple`

*State.* `msg_pos`, the next character of a message that is returned cyclically.
*Operations.* `simple_read`, which under the lock copies up to `count` characters and
sleeps 100 ms after each; `simple_init`, `simple_exit`. *Hard.* The spinlock variant sleeps with interrupts off;
`msg_pos` is an `int` that only grows. *Correct when* reads take consecutive stretches
of the message and all calls return.

### 1.9 `Classes3/Circular` - a ring of text behind `/dev/circular`

*State.* `buffer`, `buff_size`, `curr_position`; the last byte of the buffer is always 0.
*Operations.* `circular_write` (byte by byte, each moving `curr_position` round the ring
before the last byte in two assignments), `circular_read` (`strlen`, then all of the text whatever the
caller's `count`), `circular_proc_write` (a new size), `circular_init`, `circular_exit`.
*Hard.* There is no lock; between the two assignments `curr_position` is past the ring;
the byte is stored after a copy that may sleep; the new size may be 0 or 1; a bigger buffer has bytes no call
has written; the buffer is freed under whoever is inside. *Correct when* position and
terminator stay inside, which two writers that meet may break, and calls that do not meet see a ring of text.

### 1.10 `Classes3/Advanced` - the name of a process behind `/dev/prname`

*State.* `proc_id`, `prname_written`. *Operations.* `prname_write` (a pid),
`prname_read` (the name of the process that has it), `advanced_init` and
`advanced_exit` for two devices; `jiffies_read` of the other device. *Hard.* The process
may end, and its pid go to another, between write and read and inside a read; its name
may grow between `strlen` and `strcpy`; `kstrtol` stores the number before it is
checked; nothing is locked. *Correct when* a read answers for the last pid written.

### 1.11 `Classes7/interrupt_module` - interrupt, tasklet, timer, work

*State.* Kernel objects: the interrupt line, `my_tasklet`, `my_timer`, `wq`, `wq_task`.
*Operations.* `handler` schedules the tasklet and queues the work, `tasklet_handler` sets
the timer, `timer_handler` and `wq_handler` print; `interrupt_init`, `interrupt_exit`.
*Hard.* Each of the four may be on its way or running when the module is removed, and
each may be asked for again while it runs. *Correct when* nothing of the module outlives
`interrupt_exit` and every interrupt is served.

### 1.12 `Classes6/labsyscalls` - system calls

`kernelps` counts the processes and copies their names to an array of the caller,
`timeuser` returns the user whose processes have used the most time, `pidtoname` the
name of a process. *State.* None of their own; they walk over the kernel's. *Hard.*
`tasklist_lock` keeps processes from coming and going, not from changing name, user and time;
the array may be too small; a maximum has no initial value. *Correct when* the
answer was true at a moment of the call. `freeblocks` passes one query on to the file system;
`topuser` does not compile as committed (no semicolons at lines 32 and 35).

### 1.13 The rest

`Classes1/deadlock_test.py` runs a program again and again to see whether it hangs;
the Termination properties are what it tests. `Classes6/labsyscalls_tests/*.c` print
what the calls return, `Classes6/utils` is the kernel's table with the new numbers,
`Classes5/linked_buffer/tests/*.sh` are clients of the driver: the clients of the models
take their place.

### 1.14 How the parts interact

The programs and modules do not call one another. Inside a program, threads interact
through the shared object, its mutexes and its condition variable, and with `main`
through creation, join and cancellation. Inside a driver, processes interact through
the module's globals, and with insmod and rmmod; a file position belongs to one process.
The system calls and `/dev/prname` meet at the kernel's processes. What the code calls
outside the repository - pthreads, the kernel's locks, rcu, allocation, copies to and
from user space, the process table - is modelled from how the code uses it.

---

## 2. Plan

1. *Done:* `Pthreads`, `ForkJoin`; Task2 and Task6 over `RingBuffer`, with
   `BoundedQueue` as what they promise; Task1 and Task4 over `ReaderGroup`, with
   `SharedObject`; Task3 and Task5 over `ObjectArray`, with `SharedObject` per object.
2. *Done:* the linked_buffer drivers, with `SharedLog`; simple_sync, with
   `CyclicMessage`; both with insmod and with rmmod at any moment.
3. *Done:* `InterruptModule`; `Circular`, with `CircularText`; `ProcessTable` under
   `SystemCalls` and `Advanced`, which `Kernel` puts side by side.
4. *Done:* as theorems, the safety properties and the refinement of Task1 to Task6; that
   nothing outlives interrupt_module; that Circular keeps to its buffer and is a ring of text; that
   nobody follows a stray pointer in a linked_buffer driver and no node is leaked, what its files read, that its
   counter does not run ahead, and that all four drivers implement `SharedLog`.
5. *Next to prove:* simple_sync and `CyclicMessage`, `/dev/prname`, and the walk of `ProcessTable` under the system calls.
   The project's modules declare no RECURSIVE operator, so that theorems can be added to any of them.

---

## 3. Modules and how they correspond to the code

A call is one action per stretch of code in which no other thread can observe or change
anything that matters: it is split at each lock, wait, unlock, at each access to shared
data outside a lock, and where a thread can block. A thread's place is `pc[t]`; the
runs it has left are `runs[t]`.

### 3.1 Classes1

| module | what it is |
|---|---|
| `Pthreads` | mutexes, trylock, condition variables, as operators. A mutex holds its owner; `pthread_mutex_unlock` releases it whoever calls, which is what glibc does for default mutexes and what Task1, 3, 4 and 5 rely on |
| `ForkJoin` | `main`: create one thread after the other, join them; the thread loops |
| `RingBuffer` | the ring, `index_mutex`, `size_cond` of Task2 and Task6; the wait condition and the broadcast condition are arguments |
| `ConcurrentBuffer` (Task2), `AlternatingBuffer` (Task6) | their conditions, `Next`, fairness, properties |
| `ReaderGroup` | the readers' side of Task1 and Task4: `Register`, `Enter`, `Unregister`, `Leave` |
| `ReadersWriters` (Task1) | the writers |
| `CriticObject` (Task4) | the writers' round, the critic, its cancellation, the cleanup handler |
| `ObjectArray` | what Task3 and Task5 share: the array, the random choice, the trylocks, the writers |
| `TryLockObjects` (Task3), `LimitedObjects` (Task5) | the reads of each |
| `ArrayPrograms` | the two side by side: `task` says which of them runs; the fairness of each, and their properties |
| `BoundedQueue`, `SharedObject` | the abstract specifications |
| `MCConcurrentBuffer`, `MCAlternatingBuffer` | the assumptions under which the two programs end, as the comments in their `main` state them: equal numbers of reads and writes, for Task6 also whole turns; here TLC evaluates them for the instance |

Refinement mappings: the queue is the `number_items` slots from `reading_point` on;
the reading and the writing threads of a shared object are the sets of threads that are
between the lock and the unlock that make the access legal; in Task3 and Task5 there is
an instance of `SharedObject` per object.

A value is one of two model values; printing is left out, except where a thread may be
cancelled in `printf` (Task4) and where a read must return the value that was stored.
Task4's cancellation is deferred: it takes effect at the wait or in `printf`, the two
cancellation points the critic can meet.

### 3.2 linked_buffer

`LinkedBuffer` holds everything the four variants share, step by step; `MutexBuffer`,
`SemaphoreBuffer`, `SpinlockBuffer` and `RcuBuffer` add the locking of each, its
interruptions (mutex only) and its `Next`. `LinkedDrivers` loads one of the four:
the variable `variant` is chosen at the start and never changes.

| model | code |
|---|---|
| `buffer`, `tail` | the list from its head on; `prev` of the head, which can differ from the last node only after `clean_list` has met another call |
| `heap` | the nodes between `kzalloc` and `kfree` |
| `Nexts(nodes, d)` | `d->next`. Of a deleted node it is the poison value - the process that follows it is killed with the lock it holds - or, when the memory is used again, any node |
| `BeginRead`, `Walk`, `LeaveRead`, `LoadCount`, `StoreCount` | `linked_read`: the test of `f_pos` before the lock; one turn of `list_for_each_entry` (skip, copy, or a fault of `copy_to_user`); unlock; `read_count++` as load and store |
| `BeginWrite`, `Chunk`, `EnterWrite`, `Link`, `LoadTotal`, `StoreTotal` | `linked_write`: allocation and its failures, the lock, `list_add_tail`, the unlock, `total_length +=` as load and store |
| `StartClean`, `Clean` | `clean_list`, one node per step, without a lock, as the code has it |
| `reading`, `writing`, `grace` | the holders of the lock; for rcu, the readers a `synchronize_rcu` still waits for |
| `linked_init`, `linked_exit` | insmod (succeeds; succeeds without a device when `proc_create` fails, as `result` is still 0; fails) and rmmod, at any moment: with nobody inside it is `Unload`, else `UnloadUnderCall`, which kills those inside, as the driver's code and variables are gone when they run again |
| `cleared`, `got` | history, for the properties only: whether `clean_list` ran, and whether it, or rmmod, ever met another call; what reads returned |

Bytes are counted; with `INTERNAL_SIZE = 2` a write of three bytes makes a full and
a partial node, and a read of three bytes ends inside a node. The contents of a node are
its identity: which writer made it, in which call, from which offset.

`SharedLog` is what the drivers promise: a log; a write appends a node at one moment, a
read returns a segment of the log as it is at one moment, a clear empties it. The
moment of a read is the end of its walk: the mapping moves `f_pos` and the result
there. That a rcu read, which other writes overlap, still has such a moment is the
point of the run. `SharedLog` also states what is less expected and no text of the
repository contradicts: the position moves past the whole last node even if `count` ended inside it, so
that the rest of it is never returned to that file.

### 3.3 simple_sync

`SimpleSync` has the three drivers as `MutexRead`, `SemaphoreRead`, `SpinlockRead`,
chosen by `variant`. A read locks, allocates (and may fail), fills one character per
step and sleeps after each, unlocks, sends. Integers wrap at `INT_MAX`, as the
kernel is compiled with wrapping arithmetic, and `%` is C's remainder, negative for a
negative `msg_pos`. A spinning process keeps its processor. `CyclicMessage`
is the promise: each read takes the next stretch of the message, never past its end.
`simple_init` may find the number in use; `simple_exit` may come at any moment a processor is
free for it, since `simple_fops` names no owner, and the calls it meets are killed.

### 3.4 Circular

| model | code |
|---|---|
| `buffer` | a function from `0 .. buff_size - 1` to bytes; empty before insmod and after rmmod |
| `build` | whether the compiler makes one store or two of the assignments `curr_position += 1` and `curr_position %= buff_size - 1` (lines 69-70); nothing in the code decides it, so that both are modelled. It is chosen at the start and never changes |
| `Address`, `Store`, `StoreAstray`, `StoreFails` | line 65: the place `buffer + curr_position` is computed, and the byte is stored there later, as `copy_from_user` may sleep. After the first byte the compiler may use the value it has just stored instead of loading `curr_position` again. A byte that goes over the last byte or beyond is `StoreAstray` |
| `Load`, then `Advance`, or `Increment`, `Reload`, `Reduce` | lines 69-70, with one store or with two; for the second assignment the value may be loaded again or not |
| `Scan`, `Measure`, `EndOfFile`, `Copy`, `EndRead` | `circular_read`, byte by byte: `strlen`, the test of `f_pos`, `copy_to_user` of the whole text |
| `RefuseResize`, `BeginResize`, `Replace`, `ReplaceByNothing` | `circular_proc_write`: its early returns; the new buffer, whose bytes may be `Garbage` where nothing was copied; the sizes 0 and 1 |
| `CreateEntry`, `Register`, `Allocate` | `circular_init`, which makes `/proc/circular`, the device and the buffer in this order, goes on when `misc_register` fails, and returns 0 when `proc_create` does |
| `Unregister`, `Remove` | `circular_exit` |
| `trouble` | a resize, insmod or rmmod has met another call (`met`), a process is killed (`killed`), or a byte was stored past the ring (`astray`): the driver may then do anything and the model stops |
| `stored`, `race` | history, for the properties: what was stored during each read; whether two writers are or were inside together |

`CircularText` is the promise of the device when its calls do not meet. It says what the code does and
its name suggests: a byte goes to the next place, a read gets the text up to the first
empty place - all of it, or nothing when the file has returned as many bytes as it is long - and a
resize keeps text and position.

### 3.5 interrupt_module

One action per call a handler makes; the handler, the tasklet, the timer and the worker run
on processors of their own. `tasklet`, `timer` and `work` are sets: asked for, running, both or neither,
as each may be asked for again while it runs. `exit_calls` is the list of the calls of `interrupt_exit`, each of
which waits for what the kernel's function of that name waits for; `free_irq` takes the handler off the line and then
waits until it has returned. `interrupt_init` may fail without the queue or with it.

### 3.6 System calls and Advanced

| module | what it is |
|---|---|
| `ProcessTable` | the kernel's processes: the list, and of each the pid, the length of its name, its user and its time; fork, exit, exec, setuid, tick; `tasklist_lock`, which keeps off only the first two. Pids are used again, task_structs are not while somebody may refer to them |
| `SystemCalls` | `kernelps`, `timeuser`, `pidtoname`, one process of the walk per step; a name is read twice, its length first |
| `Advanced` | `/dev/prname`: `Parse` stores `proc_id`, `Find` and `Flag` test it and set `prname_written`; `Test`, `FindPid`, `GetTask`, `Measure`, `Terminate`, `Copy`, `Send` are `prname_read`; insmod of two devices, of which the second may fail; rmmod |
| `Kernel` | the two parts, each with the processes changing below it; `part` says which is looked at, as they share nothing else |

A name stands for its length, and no two names are equally long, so that the length and the text tell which name they come from. A
pid is a number; what `find_get_pid` returns is known by the process that has the pid. The device of `Advanced` stops
at a failed `kmalloc` in `prname_write`, which is written to before it is tested (`killed`), at a name that has outgrown
its buffer (`overrun`), and when a call meets rmmod or a device whose module is gone (`met`).

---

## 4. Runs: what each shows, its bounds and its fairness

| run | module, cfg | instance | distinct states |
|---|---|---|---|
| `readers_writers` | `ReadersWriters` | 3 readers, 2 writers, 2 calls each, 2 values | 50,892 |
| `concurrent_buffer` | `MCConcurrentBuffer` | 3 readers x 2 calls, 2 writers x 3, 2 slots, 1 spurious wakeup | 428,569 |
| `alternating_buffer` | `MCAlternatingBuffer` | the same calls, 3 slots, 1 spurious wakeup | 277,645 |
| `array_programs` | `ArrayPrograms` | Task3 and Task5: 2 readers, 1 writer x 2 runs, 2 objects, in Task5 with limits 0 and 1 | 33,896 |
| `limited_objects_limit` | `LimitedObjects_limit.cfg` | 2 readers, 1 writer, 3 objects, `ReadersLimitMax = 1` | violation |
| `critic_object` | `CriticObject` | 2 readers, 3 writers x 2 runs, 1 spurious wakeup, cancellation anywhere | 155,022 |
| `linked_drivers` | `LinkedDrivers` | four variants; 1 reader x 2 calls, 2 writers x 1 call of 2 chunks, one may clear; rmmod at any moment | 448,264 |
| `linked_drivers_total` | `LinkedDrivers_total.cfg` | the same without clearing, 1 read | violation |
| `simple_sync` | `SimpleSync` | three variants; 3 readers x 2 calls, 2 processors, `INT_MAX = 6`; rmmod at any moment | 214,155 |
| `interrupt_module` | `InterruptModule` | 4 interrupts, 2 insmods | 3,335 |
| `circular` | `Circular` | both builds; 1 reader x 2 calls, 2 writers x 1 write of 0 or 2 bytes, 1 resize to 0, 1, 2 or 5, 3 bytes at the start | 3,962,048 |
| `kernel` | `Kernel` | 3 processes, 3 users, 2 names, 3 changes of the table; 1 system call; 2 writers x 1 call, 1 reader x 2 calls | 4,430,332 |

**readers_writers.** `HeldForReaders`: `writer_mutex` belongs to the group of readers
exactly while one of them is counted in. `ImplementsObject`, `Termination`. Three readers
are needed for one to leave while a second stays and a third arrives; two writers for
a writer to meet a writer; two calls for a thread to return.

**concurrent_buffer.** `NoLostWakeup`: a thread blocked in the wait is one whose condition
is still false - so a broadcast only at the two ends is enough. `ImplementsQueue`,
`Termination`. Fewer slots than threads on either side, so that threads of
a side wait together and one of them finds its item gone; two slots, so that the points
wrap.

**alternating_buffer.** Besides these, `TurnsAreWhole`: a side calls only when the other
has completed a multiple of the ring's size. Three slots and six calls on each side
give two whole turns, each made of calls of several threads.

**array_programs.** `NoLockLeft`: in Task3 a `writers_mutex` is locked exactly while somebody is at
the object who will unlock it; in Task5 only an object with limit 0 keeps it otherwise, and
`DeadForGood` says that it is then lost for ever, but in a state no thread can read or write. `LimitKept`: the
count, tested with `==`, never jumps over the limit. `ImplementsObjects`; `Termination`, in spite of
refusals, in Task5 on the other objects. One writer with two runs keeps an object busy while two readers meet there.

**critic_object.** `NoLostWakeup` for both sides of `critic_cond`; `EveryRoundSaved`: never twice,
and only a critic cancelled in `printf` loses the last round; `RoundFrozen`: from the end of a round
until its value is printed - also between the clearing of the round and the print - nobody stores but the writer that ended it; `ImplementsObject`; `Termination`: `main` frees the object.
Three writers with two runs each are needed for a round to be ended by a writer while a second waits
and a third has no runs left.

**linked_drivers.** `ImplementsLog` (3.2); `NoStrayPointer`: a process inside its lock is at a
node of the list, and links behind its last node; `NothingLeaked`: what is allocated is in the list or in
the hands of one call; `EachNodeOnce`: successive reads of a file return the nodes from the first
on, each once, as long as nobody clears; `NeverOverstated`: `total_length` may lag behind the
list but never runs ahead, apart from a clear in progress; `Termination`. A call of `clean_list` or an rmmod
that meets another call voids them (`Overlapped`): that the run passes shows
that these two are the *only* ways to a stray pointer, a leak or a call that does not return. Two
writers of two chunks interleave in every order with a read of up to four nodes and with a
second read that begins where the first ended.

**simple_sync.** `ImplementsMessage` until `msg_pos` overflows, which it does within the run;
`Termination`: every call returns unless the state `Starved` is reached - the owner of the spinlock
sleeps and every processor spins for it - or rmmod has met it, and no signal is needed for it. Three readers on two processors reach the former.

**interrupt_module.** `NothingOutlives`: without the module in memory no handler, tasklet, timer or work is
queued or running, and work is queued only in a queue that exists. It depends on the order of the calls of `interrupt_exit`:
with the timer deleted before the tasklet is killed it fails. `EveryInterruptServed`: the tasklet runs and sets the timer,
work queued while it runs is done once more, also when rmmod begins in between; only `interrupt_exit` may take the
timer back. `Termination`: rmmod returns. Four interrupts let tasklet, timer and work each be asked
for again while it is on its way, while it runs, and after it; the second insmod meets what the first rmmod left.

**circular.** `InBounds`: as long as only reads and writes meet no byte is stored
outside the buffer or over its last byte, so that `strlen` ends inside: with one store to `curr_position` however they meet, with two unless
two writers meet. In that case a byte does go over the last one: one writer has stored the sum and not yet the remainder, when another takes its address.
The run reaches this state (`StoreAstray`), and the property says that there is no other way to it. `ImplementsText` (3.4): a call that meets no other
behaves as the ring of text; a read that meets a write still takes its text at one moment unless a byte is stored meanwhile; the ring
goes on from what two writers that met have left. `LengthOfOneMoment`: the length `strlen` finds is
that of the text at the moment it ends, although bytes are written over meanwhile, unless one of them is 0 (a 0 behind the
place `strlen` has reached would make the text shorter). A write of two bytes to a ring of two places moves back to the first one, and a second write comes to it; sizes 2 and 5 shrink and
grow the ring, and 5 has places no call has written.

**kernel.** `OneMoment`: the number and the names `kernelps` returns are those of the list at one moment, and an
array that is too small makes it fail, with no name written past it and the lock given back; a name may be half old and half new only if its process has changed it during the call.
`BusiestUser`: at its return no user had used more time when `timeuser` began than the one it returns has now, if nobody has changed users;
`max_user` is undefined only if no time was used at all. `NameOfPid`: the name is that of a process that had the pid when the call began,
also when the pid has gone to another. `AnswerOfLast`: a read of `/dev/prname` that meets no write answers for the last pid written, if that write met none:
refused if it found no process, else the name of a process that has or had the pid, or nothing if it has ended. Three task_structs with
three pids let a process end and its pid be used again; three changes are an exit, a fork with the old pid and an exec in one call.

### Bounds

Every bound is a constant with a name: the calls (`ReaderRuns`, `WriterRuns`, `ReadCalls`, `WriteCalls`,
`Calls`) are parameters of the programs themselves in Classes1, and the length of the
observation for the drivers; `MaxSpurious` caps spurious wakeups, of which one is enough to send a thread
to its test at a moment nobody signalled; `Interrupts` and `Loads` cap the card and insmod, `Changes` what happens to the
kernel's processes, `ResizeCalls` the writes to `/proc/circular`. In the cfgs with `CHECK_DEADLOCK FALSE` the program stops when `main`
returns, the module is gone, or, in `Circular` and `Kernel`, all calls are made or the driver may do anything; that a program
or a driver with locks does not stop before is the liveness property. No symmetry
is used, since most runs check liveness.

### Fairness

* *Task1, 2, 4, 6:* weak fairness of the whole next-state relation (without spurious
  wakeups, where there are any): some thread that can run does run. The calls of every
  thread are bounded, so nothing need be assumed of who gets a mutex or who is scheduled.
* *linked_buffer, simple_sync:* the same without an rmmod that meets a call (linked_buffer) or any rmmod (simple_sync), and without the signals
  that interrupt a wait for the lock: nobody has to remove the driver or to send a signal, and a call that hangs is saved by neither.
* *interrupt_module:* weak fairness of the handler, the tasklet, the timer, the worker and `interrupt_exit`, each for itself: what has begun goes
  on. Nobody has to interrupt, to load or to remove. A timer that is set again within 300 ms does not run; that the interrupts are bounded stands for a card that pauses once.
* *Circular, Kernel:* none. No call waits for another there, so that nothing can hang, and their properties are of safety.
* *Task3:* weak fairness of every thread. A thread that is refused tries again for ever, so that each
  of the others must be scheduled; a scheduler does that. Nothing is assumed of `rand()`.
* *Task5:* the threads could try the lost object again and again, so that `rand()` must go on choosing every
  object, and a thread that waits for a mutex that is unlocked again and again gets it: strong
  fairness of each call and of each choice.

---

## 5. Proofs

All for any sets of threads, any numbers of objects and runs, any buffer size and any values. The assumptions are
those of the modules: readers and writers are disjoint and do not contain `Nobody`, numbers of runs and
slots are positive, Circular's buffer has at least two bytes at the start, there is a value and the garbage of `malloc` is none; the list head and the
poison of a deleted node are different and are no nodes, processes that clear are writers, and a node holds at least one byte.
Threads that the code or a proof counts are finitely many: those of Task1 and Task6, the readers of
Task3 and Task5, and readers and writers of Task4, which has at least one writer (`num_writers` is 100; without one no
round could end). `Balanced` and `WholeTurns`, which termination needs, are not assumed.

| module | theorems |
|---|---|
| `ConcurrentBufferProofs` (Task2) | lemmas: each step of the ring preserves `BufferInv`, and what it does to the other threads, which Task6 uses too; `TypeCorrect`, `WakeupsKept`, `FreedLast`, `Refinement` |
| `AlternatingBufferProofs` (Task6) | `TypeCorrect`, `WakeupsKept`, `TurnsWhole`, `Refinement` |
| `ReadersWritersProofs` (Task1) | lemmas: each step of a reader preserves `GroupInv`, which Task4 uses too; `TypeCorrect`, `HandedOver`, `Refinement` |
| `ArrayProgramsProofs` (Task3, Task5) | `Invariance`, `NoLockIsLeft`, `LimitIsKept`, `StaysDead`, `Refinement` |
| `CriticObjectProofs` (Task4) | `Invariance`, `WakeupsKept`, `RoundsSaved`, `Frozen`, `Refinement` |
| `InterruptModuleProofs` | `Invariance`, `Quiescence` |
| `CircularProofs` | `Invariance`, `Bounded`, `LengthIsOfOneMoment`, `Refinement` |
| `LinkedDriversProofs` | lemmas: sums of lengths along a list (`OffsetsIs`, `OffsetsGrow`, `OffsetsFrom`, ...), what `SharedLog` returns (`SegmentIs`), one turn of the walk (`TurnStep`); `Invariance`, `NoneStray`, `NoneLeaked`, `LogInvariance`, `NoneOverstated`, `EachOnce`, `Implements` |

**Task2 and Task6.** `NoLostWakeup` is not inductive: it needs that a thread in its body found the condition
false when it held the mutex and has held it since. `BufferInv` says who owns the mutex (`Ownership`), that a thread that is not done
has a run left (`RunsLeft`, so that the ring is not freed under it), and that the points are
`number_items` apart modulo the size (`Points`). It is proved for Task2; `AlternatingBufferProofs` instantiates that
module, as both programs have the same ring. `Tested` adds that a thread in its body may go on. The core
of Task2's proof is that a read which does not broadcast did not find the ring full, so no writer
was waiting, and the same for writes. In Task6 the room of a call comes from the turn alone: `TurnHasRoom`
says that in the readers' turn there is an item, in the writers' turn a slot; the call that would break it is the one that flips
`reading_time`. The type invariant - the ring is never overfilled - follows from it, though the code
never tests for it. `TurnsAreWhole` speaks of the calls of the other side only; inductive is `TurnCounted`, which
says that within a turn the completed calls of the side whose turn it is go with `number_items` modulo the size while those of
the other stay at a multiple of it, so that the ring is full or empty exactly when a turn is whole.
*Refinement:* under the invariant, a read maps to `Get`, a write to
`Put` and every other step to a stutter; the work is in showing that the sequence of slots from `reading_point` on
loses its head or gains an end, both with wrapping.

**Task1.** `Counted` ties `readers_count` to the number of readers between registering and unregistering,
`ReaderOwns` says who holds `reader_mutex`, `HeldForReaders` when `writer_mutex` is the group's, `WriterOwns` when
it is a writer's. None is inductive without the others. The counting steps use the library's facts on the
cardinality of finite sets. *Refinement:* under the invariant a writer inside excludes everybody
else (`Exclusion`), so that entering and leaving map to the steps of `SharedObject`.

**Task3 and Task5.** `NextIsEither` first reads both programs as one, in which an object is never `Full` in Task3. The invariant
is then that of Task1 once per object (`ObjectInv`), and `Elsewhere` says that a thread touches no object but the one it has
chosen. Two things differ from Task1. A refused call must leave the object as it found it, so that `Counted` counts only
readers that read; and `HeldForReaders` excuses an object with limit 0, whose first reader goes with `writers_mutex` locked. `WithinLimit` is
inductive because the count grows by one from a value that the test has shown to differ from the limit, hence below it. `DeadForGood` follows: with
limit 0 and the lock gone nobody gets past the trylock.

**Task4.** The readers are Task1's: `CriticObjectProofs` instantiates `ReadersWritersProofs` and takes `GroupInv` from it. The rest is about
`writer_mutex`. `Owned` says that whoever tests, ends or saves a round has it, the cancelled critic for ever; `Recorded` that `writers_count`
counts the flags; `Found` that what a writer or the critic has tested still holds when it acts on it. With these `NoLostWakeup` and `EveryRoundSaved`
are inductive: a writer goes to wait only when the round is over, and then the critic is not waiting unsignalled, since the broadcast and the
count's last step are under one lock; the critic goes to wait only when the round is open, and then no writer is. A cancellation
that meets the critic in the wait loses nothing, since it changes no count; one that meets it in `printf` leaves the round unsaved and the mutex locked, which is the
exception `EveryRoundSaved` states. *Refinement:* as for Task1, with the storing writer in place of the writer inside.

**interrupt_module.** `NothingOutlives` speaks of the module when it is gone; inductive is how far each thing that can be under way
may reach into `interrupt_exit` (`Until`): the handler to the end of `free_irq`, the tasklet, which only the handler schedules,
one call further, the timer, which only the tasklet sets, one more, and the work to the last. Each call of
`interrupt_exit` shortens the list by one; in another order the invariant has no such reading.

**Circular.** `InBounds` is not inductive, since it speaks of loaded modules only and not of who is inside. `Inv` adds, for the states in which the model
goes on: a process outside has no local variables left and nobody is inside a module that is not loaded (`AtRest`), whoever replaces the buffer is alone
(`Alone`), nothing moves before the buffer is there (`Fresh`). That a byte goes astray only with two stores and in a race is `PosInv`: with one store
`curr_position` and every value a writer has loaded of it are places of the ring, whatever the others have done since (`OneStore`); with two,
`curr_position` is one unless some writer is between its two stores (`Settled`), and a writer that is alone has `curr_position` itself at hand (`AtHand`,
`OneWriter`), reduced when it takes its address. `strlen` meets the last byte at the latest; and a resize, being alone, leaves nobody with a place in the old buffer.

`LengthOfOneMoment` and the refinement rest on `TextInv`, which says what each process inside has at hand while no resize has met it:
besides `PosInv`, the places `strlen` has passed
were not 0 and are not unless a 0 was stored since (`Scanned`), and what a reader has copied is what is there (`Copied`) unless a byte was stored since. Each store, load and advance of a
writer then maps to a step of `CircularText` or a stutter, and the loop of `strlen` to a stutter until it ends.

**linked_buffer.** Until calls overlap (`Overlapped`) the invariant is `ListInv`. The four drivers are read as one (`AnyNext`), whose lock keeps
a writer out while another is inside and promises nothing about readers: all four keep more, and nothing more is needed. One writer links at a time (`OneLinks`), so that the tail it loaded
when it entered is the tail it links behind (`AtNodes`, `Linear`). A reader at a node stays at a node of the list whatever is linked
behind it meanwhile. `clean_list`, when it meets nobody, is alone (`CleansAlone`), so that the pointer it loads ahead of a deletion
still leads to a node. For `NothingLeaked` a node must be in one place only: it is known by its writer, call and chunk (`Chunked`), and those in the
list are of earlier calls or chunks than the one at work (`Older`), so that what a failed, interrupted or clearing call frees is in
nobody else's hands and not in the list.

What the calls read and count rests on `DataInv`, which needs `ListInv`. All of it is in terms of `Offsets`, the sums of the lengths
of the first nodes of a list. `WalkedTo` says of a reader's walk that it is at the j-th node, that `f_pos` is behind all nodes
it has skipped, and that what it has copied is what a read of the log would return of the nodes up to there (`Taken`). Linking a node behind the
last one leaves the first j nodes and their sums as they are, so this outlasts every write, and that is all rcu needs: when the
walk ends, at the end of the list or with `count` bytes, what it has taken is what the log holds at that moment (`SegmentIs`). `FirstOnes`
says that a file has received the first nodes of the list and stands behind them, a read that is on its way out included:
the next read skips those and no others. `Seconds` gives `clean_list` the first node and the pointer to the second, so that the list is empty
when its walk is back at the head. For the counter, `CountInv` compares `total_length`, and every value a writer has loaded of it, with the sum over the nodes
whose writers have counted them already: a writer that stores an old value plus its own chunk stores at most that sum,
as its node joins the sum at this step and the sum never falls while nobody clears.
*Refinement:* under these invariants linking maps to `AddTail`, the last turn of a walk to the `Read` of what it took,
the start of `clean_list` and rmmod to `Clear`, and all else to a stutter, as the log is empty while the list is taken apart.

The sums are a recursive function, and the library's induction theorems, which take an operator as a parameter, cannot be instantiated by the
provers installed. The lemmas argue by least counterexample instead: the set of the lengths at which a claim fails would have a least element
(`LeastElement`, from the library's `NatLessThanWellFounded`), which is not 0, and the claim one below it gives the claim there (`CountTo`).

**Only model-checked.** Liveness, which the prover cannot treat, for all programs; simple_sync, `/dev/prname` and the
system calls, for which TLC's instances are the evidence so far. `TypeOK` of Task1 is the other way round: it is proved, and no run repeats it.

---

## 6. What the models found

* **Task5, line 110.** `allocate_object(int initial_data, int readers_limit, int array_idx)` is called
  with index and limit swapped. Objects with a high index admit more readers than
  `readers_limit_max` (`AtMostLimitMax` is violated), and object 0 gets the limit 0, which makes the first
  reader return with `writers_mutex` locked; `DeadForGood` shows what that means for the object, `Termination` that
  the program survives it.
* **linked_buffer, `total_length`.** `/proc/linked` shows it as `total length`; it is updated without a lock,
  so that an addition is lost when two writers meet, and it stays below the length of the list after all calls have returned
  (`TotalLengthShown` is violated). Readers test their position against it before they look at the list.
  `EachNodeOnce` shows that this costs a reader only the nodes at the end, never one in between.

Met while modelling, and not stated as violations, since but for the last of them no text of the
repository says otherwise: insmod of linked_buffer succeeds without a device when `proc_create` fails;
the rest of a partly read node is never returned; simple_sync returns the length although
`copy_to_user` failed; its spinlock variant can starve the owner of the lock; `msg_pos` overflows. None of the
drivers names an owner in its file operations, so that rmmod does not wait for calls. In Circular two writers that meet can
overwrite the final 0 if the compiler makes two stores of lines 69-70; a size of 1
divides by 0 and a size of 0 writes before the buffer; the temporary buffer of a refused resize is lost; insmod that fails leaves `/proc/circular`
behind, and insmod that cannot make it succeeds, after which rmmod is fatal. In Advanced the buffer of a write is written to
before it is tested and never freed, references to processes are never dropped, and a failed insmod leaves one device. In
interrupt_module a failed `request_irq` leaves the queue, the messages at lines 36 and 45 say the opposite of what has
happened, and the handler always returns `IRQ_NONE`. `timeuser` has no user
above `MAX_UID`, and none when no time was used. `kernelps` and `pidtoname` copy names without the final 0, into memory that the tests
have from `malloc` and print with `%s` (`test_kernelps.c:31`, `test_pidtoname.c:21`): after the name they print what the memory held. This one
is seen by reading; a name stands for its length in the model, so that no run shows it.

---

## 7. What is not modelled, and what is abstracted away

* `topuser`, which does not compile; `freeblocks`, which is one query; `jiffies_read`, which prints one load of a counter; the
  test programs and scripts; the kernel's tables.
* Circular after a resize, insmod or rmmod has met another call, since the buffer is freed memory then, and after a byte has gone past the ring; the sizes 0
  and 1. Advanced after a call has met
  rmmod or a name has outgrown its buffer. `timeuser` after a user beyond its array.
* Calls on a file that is still open after rmmod; what a signal does to a process that was killed in a driver.
* kernelps: that `copy_to_user` may sleep under `tasklist_lock`.
* Classes1: the texts printed; failures of `pthread_create` and `malloc`, which the programs do not
  test either.
* linked_buffer: the contents of a node beyond its identity; reads of `/proc/linked` have no effect, so
  that what they show is an operator (`linked_proc_show`); two processes that share one open
  file, and so its position.
* Delays (`mdelay` in linked_write, the length of `msleep`), which only change how likely an
  interleaving is.
* The kernel: signals interrupt a process only where the code asks for it (`mutex_lock_interruptible`);
  memory is sequentially consistent, apart from loads and stores that the code leaves unprotected, which are
  steps of their own. Where the compiler may store twice or load again (`curr_position` of Circular), both builds are modelled.

To repeat the checks, run `tlc -config X.cfg M` with the module and the cfg of a
run, and `tlapm M.tla` for a module of section 5.
