----------------------- MODULE ConcurrentBufferProofs -----------------------
(***************************************************************************)
(* Proofs about Classes1/Task2.c for any number of readers, writers and    *)
(* slots.  First what it shares with Task6.c, whose proofs take it from    *)
(* here: a thread is between its lock and its unlock exactly when it owns  *)
(* index_mutex, and a call that finds an item, or room, moves the ring as  *)
(* the queue of its contents moves.                                        *)
(*                                                                         *)
(* That a call does find an item or room is for each program to show.  In  *)
(* Task2 number_items changes only in the hands of the owner of            *)
(* index_mutex, so what its while loop has just seen still holds in the    *)
(* body; and a call that leaves the full or the empty ring empties the set *)
(* of waiting threads.                                                     *)
(***************************************************************************)
EXTENDS ConcurrentBuffer, Sequences, TLAPS

\* A point advances by one, or from the last slot to the first.
LEMMA AdvancePoint ==
  ASSUME NEW p \in Slots
  PROVE  /\ Advance(p) \in Slots
         /\ Advance(p) = IF p = Size - 1 THEN 0 ELSE p + 1
  BY SizeAssumption DEF Slots, Advance
\* After a broadcast no thread waits, and no thread moved otherwise.
LEMMA BroadcastEffect ==
  ASSUME pc \in [Threads -> Labels]
  PROVE  /\ Broadcast(pc) \in [Threads -> Labels]
         /\ \A t \in Threads :
              Broadcast(pc)[t] = IF pc[t] = Waiting THEN Signalled ELSE pc[t]
  BY DEF Broadcast, Labels, Waiting, Signalled

-----------------------------------------------------------------------------
\* allocate_buffer makes an empty ring.
LEMMA InitBufferInv ==
  ASSUME InitBuffer, InitControl
  PROVE  BufferInv
  BY ThreadsAssumption, SizeAssumption, SpuriousAssumption
     DEF InitBuffer, InitControl, BufferInv, BufferOK, ControlOK, Ownership, RunsLeft,
         NoUseAfterFree, Points, Slots, Cells, Runs,
         Unborn, Start, Waiting, Signalled, Done

\* A return from either call, once the ring it leaves is known.
LEMMA FinishStep ==
  ASSUME BufferInv, NEW t \in Threads, pc[t] = "body", NEW STATE b, b \in BOOLEAN, Finish(t, b)
  PROVE  /\ pc' \in [Threads -> Labels] /\ runs' \in [Threads -> Nat]
         /\ pc'[t] \in {Start, Done}
         /\ \A u \in Threads \ {t} :
               pc'[u] = IF b /\ pc[u] = Waiting THEN Signalled ELSE pc[u]
         /\ Ownership' /\ RunsLeft'
  <1>. USE DEF Start, Done, Waiting, Signalled, Unborn
  <1> DEFINE woken == IF b THEN Broadcast(pc) ELSE pc
  <1>1. runs[t] \in Nat /\ runs[t] > 0 /\ index_mutex = t
    BY DEF BufferInv, BufferOK, ControlOK, RunsLeft, Ownership
  <1>2. pc \in [Threads -> Labels]
    BY DEF BufferInv, BufferOK, ControlOK, Labels
  <1>3. /\ woken \in [Threads -> Labels]
        /\ \A u \in Threads : woken[u] = IF b /\ pc[u] = Waiting THEN Signalled ELSE pc[u]
    BY <1>2, BroadcastEffect
  <1>4. /\ pc' = [woken EXCEPT ![t] = LoopHead(runs[t] - 1)]
        /\ runs' = [runs EXCEPT ![t] = @ - 1]
        /\ index_mutex' = Nobody
    BY DEF Finish, Return, Release
  <1>5. LoopHead(runs[t] - 1) = IF runs[t] - 1 = 0 THEN Done ELSE Start
    BY DEF LoopHead
  <1>. HIDE DEF woken
  <1>6. /\ pc' \in [Threads -> Labels] /\ runs' \in [Threads -> Nat]
        /\ pc'[t] = IF runs'[t] = 0 THEN Done ELSE Start
        /\ \A u \in Threads \ {t} : pc'[u] = woken[u] /\ runs'[u] = runs[u]
    BY <1>1, <1>3, <1>4, <1>5 DEF BufferInv, BufferOK, ControlOK, Labels
  <1>7. Ownership'
    BY <1>1, <1>3, <1>4, <1>6, ThreadsAssumption DEF BufferInv, Ownership
  <1>8. RunsLeft'
    BY <1>1, <1>3, <1>6 DEF BufferInv, RunsLeft, BufferOK, ControlOK
  <1>. QED  BY <1>3, <1>6, <1>7, <1>8

\* A thread that has the lock and moves on, waits, or wakes.
LEMMA LockStep ==
  ASSUME BufferInv, NEW t \in Threads, Lock(t) \/ Wake(t)
  PROVE  /\ BufferInv' /\ UNCHANGED ring
         /\ pc'[t] = "test" /\ \A u \in Threads \ {t} : pc'[u] = pc[u]
  <1>. USE DEF Start, Done, Waiting, Signalled, Unborn, ring
  <1>. QED
    BY ThreadsAssumption
       DEF Lock, Wake, Acquire, Goto, BufferInv, BufferOK, ControlOK, Labels,
           Ownership, RunsLeft, NoUseAfterFree, Points

\* The test of the while loop: the thread keeps the mutex or gives it up.
LEMMA TestStep ==
  ASSUME BufferInv, NEW t \in Threads, NEW STATE mustWait, mustWait \in BOOLEAN, Test(t, mustWait)
  PROVE  /\ BufferInv' /\ UNCHANGED ring
         /\ pc'[t] = IF mustWait THEN Waiting ELSE "body"
         /\ \A u \in Threads \ {t} : pc'[u] = pc[u]
  <1>. USE DEF Start, Done, Waiting, Signalled, Unborn, ring
  <1>. QED
    BY ThreadsAssumption
       DEF Test, Release, Goto, BufferInv, BufferOK, ControlOK, Labels,
           Ownership, RunsLeft, NoUseAfterFree, Points

\* A spurious wakeup changes nothing but the state of its thread.
LEMMA SpuriousStep ==
  ASSUME BufferInv, NEW t \in Threads, SpuriousWakeup(t)
  PROVE  /\ BufferInv' /\ UNCHANGED ring
         /\ pc'[t] = Signalled /\ \A u \in Threads \ {t} : pc'[u] = pc[u]
  <1>. USE DEF Start, Done, Waiting, Signalled, Unborn, ring
  <1>. QED
    BY SpuriousAssumption
       DEF SpuriousWakeup, Goto, BufferInv, BufferOK, ControlOK, Labels,
           Ownership, RunsLeft, NoUseAfterFree, Points

\* main creates and joins threads; the ring stays as it is.
LEMMA MainStep ==
  ASSUME BufferInv, Main
  PROVE  /\ BufferInv' /\ UNCHANGED ring
         /\ \A t \in Threads : pc'[t] = pc[t] \/ pc'[t] = Start
  <1>. USE DEF Start, Done, Waiting, Signalled, Unborn, ring
  <1>. QED
    BY DEF Main, Create, Created, JoinAll, Join, Goto, buffer, BufferInv, BufferOK,
           ControlOK, Labels, Ownership, RunsLeft, NoUseAfterFree, Points

\* A reader that finds an item keeps the ring in shape.
LEMMA TakeStep ==
  ASSUME BufferInv, NEW t \in Threads, NEW STATE b, b \in BOOLEAN,
         number_items > 0, Take(t), Finish(t, b)
  PROVE  /\ BufferInv'
         /\ pc'[t] \in {Start, Done}
         /\ \A u \in Threads \ {t} :
               pc'[u] = IF b /\ pc[u] = Waiting THEN Signalled ELSE pc[u]
  <1>1. /\ t \in Readers /\ pc[t] = "body"
        /\ number_items \in Nat /\ number_items <= Size
        /\ reading_point \in Slots /\ data[reading_point] \in Cells
    BY SizeAssumption DEF Take, BufferInv, BufferOK
  <1>2. /\ pc' \in [Threads -> Labels] /\ runs' \in [Threads -> Nat]
        /\ pc'[t] \in {Start, Done}
        /\ \A u \in Threads \ {t} :
             pc'[u] = IF b /\ pc[u] = Waiting THEN Signalled ELSE pc[u]
        /\ Ownership' /\ RunsLeft'
    BY <1>1, FinishStep
  <1>3. /\ number_items' = number_items - 1 /\ got' = data[reading_point]
        /\ reading_point' = IF reading_point = Size - 1 THEN 0 ELSE reading_point + 1
        /\ reading_point' \in Slots /\ UNCHANGED <<data, writing_point, main, spurious>>
    BY <1>1, AdvancePoint DEF Take, Finish, Return
  <1>4. BufferOK'
    BY <1>1, <1>2, <1>3, SizeAssumption
       DEF BufferInv, BufferOK, ControlOK, Labels, Finish, Release
  <1>5. Points'
    BY <1>1, <1>3, SizeAssumption DEF BufferInv, BufferOK, Points, Slots
  <1>6. NoUseAfterFree'
    BY <1>1, <1>2, <1>3 DEF BufferInv, NoUseAfterFree, Done
  <1>. QED  BY <1>2, <1>4, <1>5, <1>6 DEF BufferInv

\* A writer that finds room keeps the ring in shape.
LEMMA FillStep ==
  ASSUME BufferInv, NEW t \in Threads, NEW STATE b, b \in BOOLEAN,
         number_items < Size, Fill(t), Finish(t, b)
  PROVE  /\ BufferInv'
         /\ pc'[t] \in {Start, Done}
         /\ \A u \in Threads \ {t} :
               pc'[u] = IF b /\ pc[u] = Waiting THEN Signalled ELSE pc[u]
  <1>1. /\ t \in Writers /\ pc[t] = "body"
        /\ number_items \in Nat /\ writing_point \in Slots
    BY SizeAssumption DEF Fill, BufferInv, BufferOK
  <1>2. /\ pc' \in [Threads -> Labels] /\ runs' \in [Threads -> Nat]
        /\ pc'[t] \in {Start, Done}
        /\ \A u \in Threads \ {t} :
             pc'[u] = IF b /\ pc[u] = Waiting THEN Signalled ELSE pc[u]
        /\ Ownership' /\ RunsLeft'
    BY <1>1, FinishStep
  <1>3. /\ number_items' = number_items + 1
        /\ writing_point' = IF writing_point = Size - 1 THEN 0 ELSE writing_point + 1
        /\ writing_point' \in Slots /\ data' \in [Slots -> Cells]
        /\ UNCHANGED <<reading_point, got, main, spurious>>
    BY <1>1, AdvancePoint DEF Fill, Finish, Return, BufferInv, BufferOK, Cells
  <1>4. BufferOK'
    BY <1>1, <1>2, <1>3, SizeAssumption
       DEF BufferInv, BufferOK, ControlOK, Labels, Finish, Release
  <1>5. Points'
    BY <1>1, <1>3, SizeAssumption DEF BufferInv, BufferOK, Points, Slots
  <1>6. NoUseAfterFree'
    BY <1>1, <1>2, <1>3 DEF BufferInv, NoUseAfterFree, Done
  <1>. QED  BY <1>2, <1>4, <1>5, <1>6 DEF BufferInv

-----------------------------------------------------------------------------
(***************************************************************************)
(* The ring implements the queue.  A slot is reached from reading_point by *)
(* at most one wrap, which the following lemma puts in linear form.        *)
(***************************************************************************)
\* Positions in the ring, as sums that wrap at Size.
LEMMA Wrap ==
  ASSUME NEW p \in Slots, NEW i \in 1 .. Size
  PROVE  /\ (p + i - 1) % Size = IF p + i - 1 < Size THEN p + i - 1 ELSE p + i - 1 - Size
         /\ (p + i - 1) % Size \in Slots
  BY SizeAssumption DEF Slots

\* The slot of the i-th item from slot p on.
SlotOf(p, i) == IF p + i - 1 < Size THEN p + i - 1 ELSE p + i - 1 - Size

\* n items of the slots d, from slot p on: Contents is such a stretch.
Stretch(d, p, n) == [i \in 1 .. n |-> d[(p + i - 1) % Size]]

\* A stretch is a sequence, and its items are found by at most one wrap.
LEMMA StretchIsSeq ==
  ASSUME NEW d \in [Slots -> Cells], NEW p \in Slots, NEW n \in 0 .. Size
  PROVE  /\ Stretch(d, p, n) \in Seq(Cells) /\ Len(Stretch(d, p, n)) = n
         /\ \A i \in 1 .. n :
              Stretch(d, p, n)[i] = d[SlotOf(p, i)]
  <1>1. \A i \in 1 .. n : i \in 1 .. Size
    BY SizeAssumption
  <1>2. \A i \in 1 .. n :
          Stretch(d, p, n)[i] = d[SlotOf(p, i)]
    BY <1>1, Wrap DEF Stretch, SlotOf
  <1>3. \A i \in 1 .. n : d[(p + i - 1) % Size] \in Cells
    BY <1>1, Wrap
  <1>4. Stretch(d, p, n) \in Seq(Cells) /\ Len(Stretch(d, p, n)) = n
    BY <1>3, SizeAssumption DEF Stretch
  <1>. QED  BY <1>2, <1>4

\* The empty ring is the empty queue.
LEMMA InitQueue == InitBuffer => Queue!Init
  BY DEF InitBuffer, Queue!Init, Contents

\* A reader takes the oldest item.
LEMMA TakeIsGet ==
  ASSUME BufferInv, BufferInv', NEW t \in Threads, Take(t), number_items > 0
  PROVE  Queue!Get
  <1>1. /\ number_items \in 1 .. Size /\ number_items' \in 0 .. Size
        /\ reading_point \in Slots /\ reading_point' \in Slots
        /\ data \in [Slots -> Cells] /\ data' \in [Slots -> Cells]
    BY SizeAssumption DEF Take, BufferInv, BufferOK
  <1>2. /\ number_items' = number_items - 1 /\ got' = data[reading_point]
        /\ reading_point' = IF reading_point = Size - 1 THEN 0 ELSE reading_point + 1
        /\ data' = data
    BY <1>1, AdvancePoint DEF Take
  <1>3. /\ Contents \in Seq(Cells) /\ Len(Contents) = number_items
        /\ \A i \in 1 .. number_items :
             Contents[i] = data[SlotOf(reading_point, i)]
    <2>1. number_items \in 0 .. Size /\ Contents = Stretch(data, reading_point, number_items)
      BY <1>1, SizeAssumption DEF Contents, Stretch
    <2>. QED  BY <1>1, <2>1, StretchIsSeq
  <1>4. /\ Contents' \in Seq(Cells) /\ Len(Contents') = number_items'
        /\ \A i \in 1 .. number_items' :
             Contents'[i] = data'[SlotOf(reading_point', i)]
    <2>1. Contents' = Stretch(data', reading_point', number_items')
      BY DEF Contents, Stretch
    <2>. QED  BY <1>1, <2>1, StretchIsSeq
  <1>5. Contents # <<>> /\ Head(Contents) = data[reading_point]
    BY <1>1, <1>3, SizeAssumption DEF Slots, SlotOf
  <1>6. \A i \in 1 .. number_items - 1 : Contents'[i] = Contents[i + 1]
    BY <1>1, <1>2, <1>3, <1>4, SizeAssumption DEF Slots, SlotOf
  <1>7. Contents' = Tail(Contents)
    <2>1. /\ Tail(Contents) \in Seq(Cells) /\ Len(Tail(Contents)) = number_items - 1
          /\ \A i \in 1 .. number_items - 1 : Tail(Contents)[i] = Contents[i + 1]
      BY <1>1, <1>3, <1>5
    <2>. QED  BY <1>2, <1>4, <1>6, <2>1
  <1>. QED  BY <1>2, <1>5, <1>7 DEF Queue!Get

\* A writer appends an item.
LEMMA FillIsPut ==
  ASSUME BufferInv, BufferInv', NEW t \in Threads, Fill(t), number_items < Size
  PROVE  Queue!Put
  <1>1. /\ number_items \in 0 .. Size - 1 /\ number_items' \in 0 .. Size
        /\ reading_point \in Slots /\ writing_point \in Slots
        /\ data \in [Slots -> Cells] /\ data' \in [Slots -> Cells]
    BY SizeAssumption DEF BufferInv, BufferOK
  <1>2. PICK val \in Values : data' = [data EXCEPT ![writing_point] = val]
    BY DEF Fill
  <1>3. /\ number_items' = number_items + 1
        /\ UNCHANGED <<reading_point, got>>
        /\ writing_point = IF reading_point + number_items < Size
                           THEN reading_point + number_items
                           ELSE reading_point + number_items - Size
    BY <1>1, SizeAssumption DEF Fill, BufferInv, Points, Slots
  <1>4. /\ Contents \in Seq(Cells) /\ Len(Contents) = number_items
        /\ \A i \in 1 .. number_items :
             Contents[i] = data[SlotOf(reading_point, i)]
    <2>1. number_items \in 0 .. Size /\ Contents = Stretch(data, reading_point, number_items)
      BY <1>1, SizeAssumption DEF Contents, Stretch
    <2>. QED  BY <1>1, <2>1, StretchIsSeq
  <1>5. /\ Contents' \in Seq(Cells) /\ Len(Contents') = number_items + 1
        /\ \A i \in 1 .. number_items + 1 :
             Contents'[i] = data'[SlotOf(reading_point, i)]
    <2>1. /\ number_items + 1 \in 0 .. Size
          /\ Contents' = Stretch(data', reading_point, number_items + 1)
      BY <1>1, <1>3 DEF Contents, Stretch
    <2>. QED  BY <1>1, <2>1, StretchIsSeq
  <1>6. Contents'[number_items + 1] = val
    BY <1>1, <1>2, <1>3, <1>5, SizeAssumption DEF Slots, SlotOf
  <1>7. \A i \in 1 .. number_items : Contents'[i] = Contents[i]
    BY <1>1, <1>2, <1>3, <1>4, <1>5, SizeAssumption DEF Slots, SlotOf
  <1>8. Contents' = Append(Contents, val)
    BY <1>1, <1>4, <1>5, <1>6, <1>7, <1>2 DEF Cells
  <1>. QED  BY <1>1, <1>2, <1>3, <1>4, <1>8, SizeAssumption DEF Queue!Put

-----------------------------------------------------------------------------
\* What the while loop has established still holds in the body.
Tested == \A t \in Threads : pc[t] = "body" => ~MustWait(t)

IInv == BufferInv /\ Tested /\ NoLostWakeup

\* At first no thread waits or is in its body.
LEMMA InitIInv == Init => IInv
  <1>1. Init => Tested /\ NoLostWakeup
    BY DEF Init, InitControl, Tested, NoLostWakeup, Unborn, Waiting
  <1>. QED  BY <1>1, InitBufferInv DEF Init, IInv

\* In the body there is an item for a reader and room for a writer.
LEMMA BodyHasRoom ==
  ASSUME IInv, NEW t \in Threads, pc[t] = "body"
  PROVE  /\ t \in Readers => number_items > 0
         /\ t \in Writers => number_items < Size
  BY ThreadsAssumption, SizeAssumption DEF IInv, Tested, MustWait, BufferInv, BufferOK

\* One disjunct per action; a read that finds the ring full and a write that
\* finds it empty leave nobody waiting, any other leaves the conditions of
\* the waiting threads as they are.
LEMMA StepIInv == IInv /\ [Next]_vars => IInv'
  <1>. SUFFICES ASSUME IInv, [Next]_vars PROVE IInv'
    OBVIOUS
  <1>. USE DEF Start, Done, Waiting, Signalled, Unborn
  <1>1. ASSUME NEW t \in Threads, Lock(t) \/ Wake(t)
        PROVE  IInv'
    BY <1>1, LockStep DEF IInv, Tested, NoLostWakeup, MustWait, ring
  <1>2. ASSUME NEW t \in Threads, Test(t, MustWait(t))
        PROVE  IInv'
    <2>1. MustWait(t) \in BOOLEAN
      BY DEF MustWait
    <2>2. /\ BufferInv' /\ UNCHANGED ring
          /\ pc'[t] = IF MustWait(t) THEN Waiting ELSE "body"
          /\ \A u \in Threads \ {t} : pc'[u] = pc[u]
      BY <1>2, <2>1, TestStep DEF IInv
    <2>. QED  BY <2>2 DEF IInv, Tested, NoLostWakeup, MustWait, ring
  <1>3. ASSUME NEW t \in Threads, SpuriousWakeup(t)
        PROVE  IInv'
    BY <1>3, SpuriousStep DEF IInv, Tested, NoLostWakeup, MustWait, ring
  <1>4. ASSUME NEW t \in Threads, Read(t)
        PROVE  IInv'
    <2>1. /\ t \in Readers /\ pc[t] = "body" /\ number_items > 0
          /\ number_items' = number_items - 1 /\ index_mutex = t
          /\ number_items \in 0 .. Size
      BY <1>4, BodyHasRoom DEF Read, Take, IInv, BufferInv, Ownership, BufferOK
    <2>2. ReaderBroadcasts \in BOOLEAN
      BY DEF ReaderBroadcasts
    <2>3. /\ BufferInv' /\ pc'[t] \in {Start, Done}
          /\ \A u \in Threads \ {t} :
               pc'[u] = IF ReaderBroadcasts /\ pc[u] = Waiting THEN Signalled ELSE pc[u]
      BY <1>4, <2>1, <2>2, TakeStep DEF Read, IInv
    <2>4. Tested'
      BY <2>1, <2>3, ThreadsAssumption DEF IInv, Tested, BufferInv, Ownership
    <2>5. NoLostWakeup'
      BY <2>1, <2>3, SizeAssumption DEF IInv, NoLostWakeup, MustWait, ReaderBroadcasts
    <2>. QED  BY <2>3, <2>4, <2>5 DEF IInv
  <1>5. ASSUME NEW t \in Threads, Write(t)
        PROVE  IInv'
    <2>1. /\ t \in Writers /\ pc[t] = "body" /\ number_items < Size
          /\ number_items' = number_items + 1 /\ index_mutex = t
          /\ number_items \in 0 .. Size
      BY <1>5, BodyHasRoom DEF Write, Fill, IInv, BufferInv, Ownership, BufferOK
    <2>2. WriterBroadcasts \in BOOLEAN
      BY DEF WriterBroadcasts
    <2>3. /\ BufferInv' /\ pc'[t] \in {Start, Done}
          /\ \A u \in Threads \ {t} :
               pc'[u] = IF WriterBroadcasts /\ pc[u] = Waiting THEN Signalled ELSE pc[u]
      BY <1>5, <2>1, <2>2, FillStep DEF Write, IInv
    <2>4. Tested'
      BY <2>1, <2>3, ThreadsAssumption DEF IInv, Tested, BufferInv, Ownership
    <2>5. NoLostWakeup'
      BY <2>1, <2>3, SizeAssumption DEF IInv, NoLostWakeup, MustWait, WriterBroadcasts
    <2>. QED  BY <2>3, <2>4, <2>5 DEF IInv
  <1>6. CASE Main
    BY <1>6, MainStep DEF IInv, Tested, NoLostWakeup, MustWait, ring
  <1>7. CASE UNCHANGED vars
    BY <1>7 DEF vars, buffer, ring, control, IInv, Tested, NoLostWakeup, MustWait,
       BufferInv, BufferOK, ControlOK, Ownership, RunsLeft, NoUseAfterFree, Points
  <1>. QED
    BY <1>1, <1>2, <1>3, <1>4, <1>5, <1>6, <1>7 DEF Next, Step

\* The inductive invariant holds in every reachable state.
THEOREM Invariance == Spec => []IInv
  BY InitIInv, StepIInv, PTL DEF Spec

\* The types of Task2's state, for any threads and any buffer_size: no point
\* leaves the ring and number_items stays between 0 and size.
THEOREM TypeCorrect == Spec => []TypeOK
  <1>1. IInv => TypeOK  BY DEF IInv, BufferInv, TypeOK
  <1>. QED  BY Invariance, <1>1, PTL

\* One condition variable for both sides, broadcast only at the two ends of
\* the ring, loses no wakeup.
THEOREM WakeupsKept == Spec => []NoLostWakeup
  <1>1. IInv => NoLostWakeup  BY DEF IInv
  <1>. QED  BY Invariance, <1>1, PTL

\* deallocate_buffer runs after the last access to the slots.
THEOREM FreedLast == Spec => []NoUseAfterFree
  <1>1. IInv => NoUseAfterFree  BY DEF IInv, BufferInv
  <1>. QED  BY Invariance, <1>1, PTL

-----------------------------------------------------------------------------
\* Task2 implements the bounded queue: every step of a thread or of main is a
\* put, a get, or leaves the queue alone.
THEOREM Refinement == Spec => ImplementsQueue
  <1>1. IInv /\ IInv' /\ [Next]_vars => [Queue!Next]_<<Contents, got>>
    <2>. SUFFICES ASSUME IInv, IInv', [Next]_vars
                  PROVE  [Queue!Next]_<<Contents, got>>
      OBVIOUS
    <2>1. ASSUME NEW t \in Threads, Read(t)
          PROVE  Queue!Next
      BY <2>1, BodyHasRoom, TakeIsGet DEF Read, Take, IInv, Queue!Next
    <2>2. ASSUME NEW t \in Threads, Write(t)
          PROVE  Queue!Next
      BY <2>2, BodyHasRoom, FillIsPut DEF Write, Fill, IInv, Queue!Next
    <2>3. CASE UNCHANGED ring
      BY <2>3 DEF ring, Contents
    <2>. QED
      BY <2>1, <2>2, <2>3 DEF Next, Step, Main, vars, buffer, Lock, Test, Wake,
         SpuriousWakeup
  <1>2. Init => Queue!Init
    BY InitQueue DEF Init
  <1>. QED
    BY <1>1, <1>2, Invariance, PTL DEF Spec, ImplementsQueue, Queue!Spec
=============================================================================
