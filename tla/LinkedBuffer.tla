---------------------------- MODULE LinkedBuffer ----------------------------
(***************************************************************************)
(* Classes5/linked_buffer: what the four drivers behind /dev/linked have   *)
(* in common.  They differ only in how linked_read and linked_write lock   *)
(* the list; each has a module of its own, which adds that.                *)
(*                                                                         *)
(* A call is split where another process can run: where the list or a      *)
(* counter is read or written outside a lock, and at each node of a walk,  *)
(* because clean_list takes no lock and the readers of the rcu driver hold *)
(* off no writer.                                                          *)
(***************************************************************************)
EXTENDS Integers, Sequences, FiniteSets, SequencesExt

CONSTANTS Readers, Writers,   \* processes, each with a file of its own
          Clearers,           \* the writers that may send xxx&
          INTERNAL_SIZE,
          ReadCounts, WriteCounts,   \* the lengths user space asks for
          ReadCalls, WriteCalls,     \* bounds on the calls of a process
          ListHead,           \* the list head, struct list_head buffer
          Poison              \* the next pointer of a deleted node

Processes == Readers \cup Writers

ASSUME ProcessesAssumption ==
  /\ Readers \cap Writers = {} /\ Clearers \subseteq Writers
  /\ INTERNAL_SIZE \in Nat \ {0} /\ ReadCalls \in Nat /\ WriteCalls \in Nat
  /\ ReadCounts \subseteq Nat /\ WriteCounts \subseteq Nat

\* The nodes the calls may add: which writer's, of which of its calls, at which i.
Nodes == [by : Writers, nth : 0 .. WriteCalls, length : 1 .. INTERNAL_SIZE,
          i : UNION {0 .. count - 1 : count \in WriteCounts}]

ASSUME PointersAssumption == ListHead # Poison /\ {ListHead, Poison} \cap Nodes = {}

VARIABLES buffer,        \* the nodes from the head on
          tail,          \* the prev pointer of the head
          heap,          \* the nodes that are allocated
          total_length, read_count, write_count,
          reading,       \* the readers inside their lock
          writing,       \* the writers inside theirs
          grace,         \* the readers each synchronize_rcu still waits for
          module,        \* what insmod and rmmod have made of the driver
          pc, call,      \* where each process is, and its local variables
          left,          \* the calls it may still make
          f_pos,
          got,           \* history: what the reads have returned
          cleared        \* history: has clean_list run, alone or overlapped by
                         \* other calls; overlapped, too, when rmmod met a call

list == <<buffer, tail>>
counters == <<total_length, read_count, write_count>>
locks == <<reading, writing, grace>>
files == <<f_pos, got>>
vars == <<list, heap, counters, locks, module, pc, call, left, files, cleared>>

\* A process outside the driver, and one killed by an invalid pointer.
User == "user"
Dead == "dead"

Least(a, b) == IF a < b THEN a ELSE b

\* struct data: the node for the bytes from i on.
Node(w, i, count) == [by |-> w, nth |-> left[w], i |-> i,
                      length |-> Least(INTERNAL_SIZE, count - i)]

\* The local variables of a call before it starts.
Blank == [count |-> 0, i |-> 0, node |-> ListHead, at |-> ListHead, next |-> ListHead,
          pos |-> 0, copied |-> 0, real_length |-> 0, user |-> << >>, register |-> 0]

\* The nodes d->next may lead to.  A deleted node holds a poisoned pointer,
\* unless its memory is already that of another node.
Nexts(nodes, d) ==
  LET ring == <<ListHead>> \o nodes \o <<ListHead>>
      found == {k \in 1 .. Len(nodes) + 1 : ring[k] = d}
  IN IF found = {} THEN {Poison} \cup Range(ring)
                   ELSE {ring[k + 1] : k \in found}

InitDriver == /\ buffer = << >> /\ tail = ListHead /\ heap = {}
              /\ total_length = 0 /\ read_count = 0 /\ write_count = 0
              /\ reading = {} /\ writing = {} /\ grace = [w \in Writers |-> {}]
              /\ module = "absent"
              /\ pc = [p \in Processes |-> User] /\ call = [p \in Processes |-> Blank]
              /\ left = [p \in Processes |-> IF p \in Readers THEN ReadCalls ELSE WriteCalls]
              /\ f_pos = [p \in Processes |-> 0] /\ got = [r \in Readers |-> << >>]
              /\ cleared = "never"

Goto(p, label) == pc' = [pc EXCEPT ![p] = label]

\* The call goes on at label with its local variables changed.
Continue(p, label, locals) == Goto(p, label) /\ call' = [call EXCEPT ![p] = locals]

\* The call returns to user space.
Return(p) == Continue(p, User, Blank)

\* The process is killed inside the driver, with whatever lock it holds.
Die(p) == Goto(p, Dead) /\ UNCHANGED <<call, list, heap, counters>>

\* A call of p starts.
Begin(p) == /\ pc[p] = User /\ module = "loaded" /\ left[p] > 0
            /\ left' = [left EXCEPT ![p] = @ - 1]
            /\ cleared' = IF \E q \in Processes : pc[q] = "clean"
                          THEN "overlapped" ELSE cleared
            /\ UNCHANGED <<list, heap, counters, locks, module, files>>

-----------------------------------------------------------------------------
\* The end of file is tested before the lock is taken.
BeginRead(r, count) ==
  /\ Begin(r)
  /\ IF f_pos[r] > total_length
     THEN Return(r)
     ELSE Continue(r, "lock", [Blank EXCEPT !.count = count])

EnterRead(r) == /\ pc[r] = "lock" /\ r \in Readers
                /\ reading' = reading \cup {r}
                /\ Goto(r, "walk")
                /\ UNCHANGED <<list, heap, counters, writing, grace, module, call, left,
                               files, cleared>>

\* The walk has not come to f_pos yet.
BeforeOrAt(r) == call[r].pos <= f_pos[r]            \* mutant
Before(r) == call[r].pos < f_pos[r]

\* Before f_pos a node is skipped.
Skip(r, d) == /\ Before(r)
              /\ Continue(r, "walk", [call[r] EXCEPT !.at = d, !.pos = @ + d.length])

\* At f_pos or after it, what is left of count is copied.
Copy(r, d) ==
  LET to_copy == Least(d.length, call[r].count - call[r].copied)
      copied == call[r].copied + to_copy
  IN /\ ~Before(r)
     /\ Continue(r, IF copied >= call[r].count THEN "leave" ELSE "walk",
                 [call[r] EXCEPT !.at = d, !.copied = copied, !.pos = @ + to_copy,
                                 !.real_length = @ + d.length,
                                 !.user = Append(@, [node |-> d, bytes |-> to_copy])])

\* copy_to_user meets an address that is not the reader's.
CopyFaults(r) == ~Before(r) /\ Goto(r, "fault") /\ UNCHANGED call

\* list_for_each_entry: one turn of the loop.
Walk(r) == /\ pc[r] = "walk"
           /\ \E d \in Nexts(buffer, call[r].at) :
                \/ d = Poison /\ Die(r)
                \/ d = ListHead /\ Goto(r, "leave") /\ UNCHANGED call
                \/ d \notin {ListHead, Poison} /\ (Skip(r, d) \/ Copy(r, d) \/ CopyFaults(r))
           /\ UNCHANGED <<list, heap, counters, locks, module, left, files, cleared>>

\* The readers' unlock, which may be what a synchronize_rcu waits for.
UnlockRead(r) == /\ reading' = reading \ {r}
                 /\ grace' = [w \in Writers |-> grace[w] \ {r}]
                 /\ UNCHANGED writing

\* Unlock, and move the file past the nodes read.
LeaveRead(r) == /\ pc[r] = "leave"
                /\ UnlockRead(r)
                /\ f_pos' = [f_pos EXCEPT ![r] = @ + call[r].real_length]
                /\ got' = [got EXCEPT ![r] = @ \o call[r].user]
                /\ Goto(r, "count")
                /\ UNCHANGED <<list, heap, counters, module, call, left, cleared>>

\* The call fails with EFAULT.
FailLocked(r) == /\ pc[r] = "fault"                 \* mutant: no unlock
                 /\ Return(r)
                 /\ UNCHANGED <<list, heap, counters, locks, module, left, files, cleared>>
FailRead(r) == /\ pc[r] = "fault"
               /\ UnlockRead(r)
               /\ Return(r)
               /\ UNCHANGED <<list, heap, counters, module, left, files, cleared>>

\* read_count++ is a load and a store, as is write_count++ below.
LoadCount(r) ==
  /\ pc[r] = "count"
  /\ Continue(r, "increment", [call[r] EXCEPT !.register = read_count])
  /\ UNCHANGED <<list, heap, counters, locks, module, left, files, cleared>>

StoreCount(p) ==
  /\ pc[p] = "increment"
  /\ IF p \in Readers
     THEN read_count' = call[p].register + 1 /\ UNCHANGED write_count
     ELSE write_count' = call[p].register + 1 /\ UNCHANGED read_count
  /\ Return(p)
  /\ UNCHANGED <<list, heap, total_length, locks, module, left, files, cleared>>

-----------------------------------------------------------------------------
BeginWrite(w, count) == Begin(w) /\ Continue(w, "chunk", [Blank EXCEPT !.count = count])

\* A node is allocated and filled for the next chunk; both may fail, and the
\* call then returns an error whatever it has already written.
Allocate(w, d) == \/ Return(w) /\ UNCHANGED heap
                  \/ /\ Continue(w, "lock", [call[w] EXCEPT !.node = d])
                     /\ heap' = heap \cup {d}

\* The chunk is xxx&: clean_list starts, and loads two pointers.
StartClean(w, d) ==
  /\ w \in Clearers /\ d.length = INTERNAL_SIZE
  /\ \E e \in Nexts(buffer, ListHead) : \E f \in Nexts(buffer, e) :
       Continue(w, "clean", [call[w] EXCEPT !.node = d, !.at = e, !.next = f])
  /\ heap' = heap \cup {d}
  /\ cleared' = IF \E p \in Processes \ {w} : pc[p] # User THEN "overlapped"
                ELSE IF cleared = "never" THEN "alone" ELSE cleared

\* The for loop is over, and write_count++ loads.
EndLoop(w) ==
  /\ call[w].i >= call[w].count
  /\ Continue(w, "increment", [call[w] EXCEPT !.register = write_count])
  /\ UNCHANGED heap

\* One turn of the for loop of linked_write, up to the lock.
Chunk(w) ==
  LET d == Node(w, call[w].i, call[w].count) IN
  /\ pc[w] = "chunk"
  /\ \/ EndLoop(w) /\ UNCHANGED cleared
     \/ call[w].i < call[w].count /\ Allocate(w, d) /\ UNCHANGED cleared
     \/ call[w].i < call[w].count /\ StartClean(w, d)
  /\ UNCHANGED <<list, counters, locks, module, left, files>>

\* The writer has its lock, and loads the tail of the list.
EnterWrite(w) == /\ pc[w] = "lock" /\ w \in Writers
                 /\ writing' = writing \cup {w}
                 /\ Continue(w, "link", [call[w] EXCEPT !.at = tail])
                 /\ UNCHANGED <<list, heap, counters, reading, grace, module, left, files,
                                cleared>>

\* list_add_tail: the node is linked behind the tail that was loaded.  When
\* clean_list has deleted that one, the head does not lead to the new node.
AddHead(w) == /\ UNCHANGED tail                      \* mutant: list_add
              /\ buffer' = <<call[w].node>> \o buffer
AddTail(w) == /\ tail' = call[w].node
              /\ buffer' = IF call[w].at = Last(<<ListHead>> \o buffer)
                           THEN Append(buffer, call[w].node) ELSE buffer

\* Link the node, unlock, and go on at label.
Link(w, label) == /\ pc[w] = "link"
                  /\ AddTail(w)
                  /\ writing' = writing \ {w}
                  /\ Goto(w, label)
                  /\ UNCHANGED <<heap, counters, reading, grace, module, call, left, files,
                                 cleared>>

\* total_length += to_copy, a load and a store after the unlock.
LoadTotal(w) == /\ pc[w] = "account"
                /\ Continue(w, "add", [call[w] EXCEPT !.register = total_length])
                /\ UNCHANGED <<list, heap, counters, locks, module, left, files, cleared>>

StoreTotal(w) ==
  LET to_copy == call[w].node.length IN
  /\ pc[w] = "add"
  /\ total_length' = call[w].register + to_copy
  /\ f_pos' = [f_pos EXCEPT ![w] = @ + to_copy]
  /\ Continue(w, "chunk", [Blank EXCEPT !.count = call[w].count,
                                        !.i = call[w].i + INTERNAL_SIZE])
  /\ UNCHANGED <<list, heap, read_count, write_count, locks, module, left, got, cleared>>

\* list_del and kfree, and the pointer of the next turn.  list_del writes
\* through the poisoned pointers of a node already deleted.
Delete(w) ==
  LET d == call[w].at
      places == {k \in DOMAIN buffer : buffer[k] = d}
  IN \/ places = {} /\ Die(w)
     \/ \E k \in places :
          /\ buffer' = RemoveAt(buffer, k)
          /\ tail' = IF k = Len(buffer) THEN Last(<<ListHead>> \o buffer') ELSE tail
          /\ heap' = heap \ {d}
          /\ \E e \in Nexts(buffer', call[w].next) :
               Continue(w, IF call[w].next = Poison THEN Dead ELSE "clean",
                        [call[w] EXCEPT !.at = call[w].next, !.next = e])
          /\ UNCHANGED counters

\* At the end total_length is reset; the node of the chunk is freed and the
\* call returns count.
EndUncounted(w) == /\ call[w].at = ListHead          \* mutant: no reset
                   /\ heap' = heap \ {call[w].node}
                   /\ Return(w)
                   /\ UNCHANGED <<list, counters>>
EndClean(w) == /\ call[w].at = ListHead
               /\ total_length' = 0
               /\ heap' = heap \ {call[w].node}
               /\ Return(w)
               /\ UNCHANGED <<list, read_count, write_count>>

\* clean_list takes no lock.
Clean(w) == /\ pc[w] = "clean"
            /\ EndClean(w) \/ (call[w].at # ListHead /\ Delete(w))
            /\ UNCHANGED <<locks, module, left, files, cleared>>

-----------------------------------------------------------------------------
\* When /proc/linked cannot be made, result is still 0 and insmod succeeds;
\* when the device cannot be registered it fails.
linked_init == /\ module = "absent"
               /\ module' \in {"loaded", "useless", "refused"}
               /\ UNCHANGED <<list, heap, counters, locks, pc, call, left, files, cleared>>

\* Nobody is inside the driver.
Empty == \A p \in Processes : pc[p] = User

\* rmmod: the rest of the list is freed.
Unload ==
  /\ module \in {"loaded", "useless"} /\ Empty
  /\ module' = "removed"
  /\ buffer' = << >> /\ tail' = ListHead /\ heap' = heap \ Range(buffer)
  /\ total_length' = 0
  /\ UNCHANGED <<read_count, write_count, locks, pc, call, left, files, cleared>>

\* linked_fops has no owner, so that rmmod does not wait for the processes
\* that are inside.  The driver's code and variables are gone when they run
\* again, and each is killed.
UnloadUnderCall ==
  /\ module = "loaded" /\ ~Empty
  /\ module' = "removed" /\ cleared' = "overlapped"
  /\ pc' = [p \in Processes |-> IF pc[p] = User THEN User ELSE Dead]
  /\ call' = [p \in Processes |-> Blank]
  /\ buffer' = << >> /\ tail' = ListHead /\ heap' = heap \ Range(buffer)
  /\ total_length' = 0 /\ read_count' = 0 /\ write_count' = 0
  /\ reading' = {} /\ writing' = {} /\ grace' = [w \in Writers |-> {}]
  /\ UNCHANGED <<left, files>>

linked_exit == Unload \/ UnloadUnderCall

\* What /proc/linked shows.
linked_proc_show == [reads |-> read_count, writes |-> write_count,
                     total_length |-> total_length]

-----------------------------------------------------------------------------
\* A call of clean_list or rmmod has met another call.  Nothing is promised
\* from then on: the other one may walk on a node that was freed, or link
\* behind it.
Overlapped == cleared = "overlapped"

\* clean_list is running.
Cleaning == \E w \in Writers : pc[w] = "clean"

\* A node a writer has allocated and not yet linked, or will free.
Unlinked(w) == pc[w] \in {"lock", "link", "clean"}

Log == INSTANCE SharedLog WITH
         log   <- IF Cleaning THEN << >> ELSE buffer,
         f_pos <- [r \in Readers |-> IF pc[r] = "leave" THEN f_pos[r] + call[r].real_length
                                                       ELSE f_pos[r]],
         got   <- [r \in Readers |-> IF pc[r] = "leave" THEN got[r] \o call[r].user
                                                       ELSE got[r]],
         Counts <- ReadCounts

\* Every read returns what the list holds at one moment, the one at which it
\* meets the end of the list or of the user's buffer, also under rcu, where
\* the list grows during the walk; and a write adds its nodes at the end,
\* each at one moment.  (The first disjunct is implied by the subscript; TLC
\* decides it before it tries Log!Next.)
ImplementsLog ==
  Log!Init /\ [][UNCHANGED Log!vars \/ Overlapped' \/ Log!Next]_(Log!vars)

\* A process inside its lock is at a node of the list, or at the head, and
\* the tail a writer links behind is the last node.
NoStrayPointer ==
  \/ Overlapped
  \/ \A p \in Processes :
       /\ pc[p] # Dead
       /\ pc[p] \in {"walk", "link", "clean"} => call[p].at \in Range(buffer) \cup {ListHead}
       /\ pc[p] = "link" => call[p].at = Last(<<ListHead>> \o buffer)

\* What is allocated is in the list or in the hands of one call: no failed,
\* interrupted or clearing call leaks its node, and rmmod frees the rest.
NothingLeaked ==
  \/ Overlapped
  \/ heap = Range(buffer) \cup {call[w].node : w \in {v \in Writers : Unlinked(v)}}

\* The successive reads of a file return the nodes from the first one on,
\* each once, although total_length, against which they are tested first, and
\* the list change between them and during them.
EachNodeOnce ==
  cleared = "never" =>
    \A r \in Readers : \/ module = "removed"
                       \/ IsPrefix([k \in DOMAIN got[r] |-> got[r][k].node], buffer)

\* total_length, which is updated without a lock, may fall behind the list
\* but never runs ahead of it, except while clean_list takes the list apart.
NeverOverstated == Overlapped \/ Cleaning \/ total_length <= Log!LengthOf(buffer)

\* What /proc/linked calls total length is the length of the list whenever no
\* call is in progress.
TotalLengthShown ==
  Empty =>
     linked_proc_show.total_length = Log!LengthOf(buffer)

\* Every call returns, and the driver can be removed, unless a process was
\* killed inside it.
Termination == <>(module \in {"removed", "refused"} \/ Overlapped)
=============================================================================
