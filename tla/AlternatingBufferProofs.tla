---------------------- MODULE AlternatingBufferProofs ----------------------
(***************************************************************************)
(* Proofs about Classes1/Task6.c for any number of readers, writers and    *)
(* slots.  The while loops look at reading_time and never at number_items: *)
(* that the ring is not read empty or written full rests on the turn       *)
(* having room, which is the invariant the calls keep by ending their turn *)
(* one call before.                                                        *)
(*                                                                         *)
(* What the calls do to the ring is proved in ConcurrentBufferProofs.  The *)
(* part of Task2 that Task6 shares is the same here, and its lemmas are    *)
(* restated for this module.                                               *)
(***************************************************************************)
EXTENDS AlternatingBuffer, Sequences, FiniteSetTheorems, TLAPS

Task2 == INSTANCE ConcurrentBufferProofs

\* The assumptions of ConcurrentBufferProofs are those of this module.
LEMMA Assumed == /\ Readers \cap Writers = {} /\ Nobody \notin Task2!Threads
                 /\ ReaderRuns \in Nat \ {0} /\ WriterRuns \in Nat \ {0}
                 /\ Size \in Nat \ {0} /\ Values # {} /\ Garbage \notin Values
                 /\ MaxSpurious \in Nat
  BY ThreadsAssumption, SizeAssumption, ValuesAssumption, SpuriousAssumption
     DEF Threads, Task2!Threads

\* The ring and the calls are those of Task2.
LEMMA SameInv == (BufferInv <=> Task2!BufferInv) /\ (BufferInv' <=> Task2!BufferInv')
  BY DEF BufferInv, Task2!BufferInv, BufferOK, Task2!BufferOK, ControlOK, Task2!ControlOK,
         Slots, Task2!Slots, Cells, Task2!Cells, Ownership, Task2!Ownership, RunsLeft,
         Task2!RunsLeft, NoUseAfterFree, Task2!NoUseAfterFree, Points, Task2!Points, Threads,
         Task2!Threads, Unborn, Task2!Unborn, Start, Task2!Start, Done, Task2!Done, Waiting,
         Task2!Waiting, Signalled, Task2!Signalled

\* At the ends of a call.
LEMMA SameLabels == /\ Threads = Task2!Threads /\ Start = Task2!Start /\ Done = Task2!Done
                    /\ Waiting = Task2!Waiting /\ Signalled = Task2!Signalled
                    /\ ring = Task2!ring /\ ring' = Task2!ring'
                    /\ Contents = Task2!Contents /\ Contents' = Task2!Contents'
  BY DEF Threads, Task2!Threads, ring, Task2!ring, Contents, Task2!Contents, Unborn,
         Task2!Unborn, Start, Task2!Start, Done, Task2!Done, Waiting, Task2!Waiting,
         Signalled, Task2!Signalled

\* allocate_buffer makes an empty ring.
LEMMA InitBufferInv == InitBuffer /\ InitControl => BufferInv
  BY Assumed, SameInv, Task2!InitBufferInv
     DEF InitBuffer, Task2!InitBuffer, InitControl, Task2!InitControl, Slots, Task2!Slots,
         Threads, Task2!Threads, Runs, Task2!Runs, Unborn, Task2!Unborn, Start, Task2!Start,
         Done, Task2!Done, Waiting, Task2!Waiting, Signalled, Task2!Signalled

\* The empty ring is the empty queue.
LEMMA InitQueue == InitBuffer => Queue!Init
  BY Task2!InitQueue DEF InitBuffer, Task2!InitBuffer, Slots, Task2!Slots, Contents,
                         Task2!Contents, Queue!Init, Task2!Queue!Init

\* A thread that gets the mutex, at first or when it wakes, leaves the ring alone.
LEMMA LockStep ==
  ASSUME BufferInv, NEW t \in Threads, Lock(t) \/ Wake(t)
  PROVE  /\ BufferInv' /\ UNCHANGED ring
         /\ pc'[t] = "test" /\ \A u \in Threads \ {t} : pc'[u] = pc[u]
  <1>1. Task2!Lock(t) \/ Task2!Wake(t)
    BY DEF Lock, Task2!Lock, Wake, Task2!Wake, Acquire, Task2!Acquire, Goto, Task2!Goto,
           ring, Task2!ring, Start, Task2!Start, Signalled, Task2!Signalled
  <1>. QED BY <1>1, Assumed, SameInv, SameLabels, Task2!LockStep

\* The test of the while loop: the thread keeps the mutex or gives it up.
LEMMA TestStep ==
  ASSUME BufferInv, NEW t \in Threads, Test(t, MustWait(t))
  PROVE  /\ BufferInv' /\ UNCHANGED ring
         /\ pc'[t] = IF MustWait(t) THEN Waiting ELSE "body"
         /\ \A u \in Threads \ {t} : pc'[u] = pc[u]
  <1>1. Task2!Test(t, MustWait(t)) /\ MustWait(t) \in BOOLEAN
    BY DEF Test, Task2!Test, Release, Task2!Release, Goto, Task2!Goto, ring, Task2!ring,
           Waiting, Task2!Waiting, MustWait
  <1>. QED BY <1>1, Assumed, SameInv, SameLabels, Task2!TestStep

\* A spurious wakeup changes nothing but the state of its thread.
LEMMA SpuriousStep ==
  ASSUME BufferInv, NEW t \in Threads, SpuriousWakeup(t)
  PROVE  /\ BufferInv' /\ UNCHANGED ring
         /\ pc'[t] = Signalled /\ \A u \in Threads \ {t} : pc'[u] = pc[u]
  <1>1. Task2!SpuriousWakeup(t)
    BY DEF SpuriousWakeup, Task2!SpuriousWakeup, Goto, Task2!Goto, ring, Task2!ring,
           Waiting, Task2!Waiting, Signalled, Task2!Signalled
  <1>. QED BY <1>1, Assumed, SameInv, SameLabels, Task2!SpuriousStep

\* main creates and joins threads.
LEMMA MainStep ==
  ASSUME BufferInv, Main
  PROVE  /\ BufferInv' /\ UNCHANGED ring
         /\ \A t \in Threads : pc'[t] = pc[t] \/ pc'[t] = Start
  <1>1. Task2!Main
    BY DEF Main, Task2!Main, Create, Task2!Create, Created, Task2!Created, JoinAll,
           Task2!JoinAll, Join, Task2!Join, Goto, Task2!Goto, buffer, Task2!buffer, ring,
           Task2!ring, Threads, Task2!Threads, Unborn, Task2!Unborn, Start, Task2!Start,
           Done, Task2!Done
  <1>. QED BY <1>1, Assumed, SameInv, SameLabels, Task2!MainStep

\* A reader that finds an item keeps the ring in shape, and takes the oldest.
LEMMA TakeStep ==
  ASSUME BufferInv, NEW t \in Threads, NEW STATE b, b \in BOOLEAN,
         number_items > 0, Take(t), Finish(t, b)
  PROVE  /\ BufferInv' /\ Queue!Get
         /\ pc'[t] \in {Start, Done}
         /\ \A u \in Threads \ {t} :
               pc'[u] = IF b /\ pc[u] = Waiting THEN Signalled ELSE pc[u]
  <1>1. Task2!Take(t) /\ Task2!Finish(t, b)
    BY DEF Take, Task2!Take, Finish, Task2!Finish, Return, Task2!Return, Release,
           Task2!Release, Advance, Task2!Advance, Broadcast, Task2!Broadcast, LoopHead,
           Task2!LoopHead, Start, Task2!Start, Done, Task2!Done, Waiting, Task2!Waiting,
           Signalled, Task2!Signalled
  <1>2. /\ Task2!BufferInv' /\ pc'[t] \in {Start, Done}
        /\ \A u \in Threads \ {t} :
              pc'[u] = IF b /\ pc[u] = Waiting THEN Signalled ELSE pc[u]
    BY <1>1, Assumed, SameInv, SameLabels, Task2!TakeStep
  <1>3. Task2!Queue!Get
    BY <1>1, <1>2, Assumed, SameInv, SameLabels, Task2!TakeIsGet
  <1>. QED BY <1>2, <1>3, SameInv, SameLabels DEF Queue!Get, Task2!Queue!Get

\* A writer that finds room keeps the ring in shape, and appends an item.
LEMMA FillStep ==
  ASSUME BufferInv, NEW t \in Threads, NEW STATE b, b \in BOOLEAN,
         number_items < Size, Fill(t), Finish(t, b)
  PROVE  /\ BufferInv' /\ Queue!Put
         /\ pc'[t] \in {Start, Done}
         /\ \A u \in Threads \ {t} :
               pc'[u] = IF b /\ pc[u] = Waiting THEN Signalled ELSE pc[u]
  <1>1. Task2!Fill(t) /\ Task2!Finish(t, b)
    BY DEF Fill, Task2!Fill, Finish, Task2!Finish, Return, Task2!Return, Release,
           Task2!Release, Advance, Task2!Advance, Broadcast, Task2!Broadcast, LoopHead,
           Task2!LoopHead, Start, Task2!Start, Done, Task2!Done, Waiting, Task2!Waiting,
           Signalled, Task2!Signalled
  <1>2. /\ Task2!BufferInv' /\ pc'[t] \in {Start, Done}
        /\ \A u \in Threads \ {t} :
              pc'[u] = IF b /\ pc[u] = Waiting THEN Signalled ELSE pc[u]
    BY <1>1, Assumed, SameInv, SameLabels, Task2!FillStep
  <1>3. Task2!Queue!Put
    BY <1>1, <1>2, Assumed, SameInv, SameLabels, Task2!FillIsPut
  <1>. QED BY <1>2, <1>3, SameInv, SameLabels DEF Queue!Put, Task2!Queue!Put

-----------------------------------------------------------------------------
\* The turn of the readers has items to read, that of the writers free slots.
TurnHasRoom == IF reading_time = 1 THEN number_items > 0 ELSE number_items < Size

\* What the while loop has established still holds in the body.
Tested == \A t \in Threads : pc[t] = "body" => ~MustWait(t)

IInv == BufferInv /\ reading_time \in {0, 1} /\ TurnHasRoom /\ Tested /\ NoLostWakeup

\* The turn of the writers, with every slot free, comes first.
LEMMA InitIInv == Init => IInv
  <1>1. Init => Tested /\ NoLostWakeup /\ TurnHasRoom
    BY SizeAssumption
       DEF Init, InitControl, InitBuffer, Tested, NoLostWakeup, TurnHasRoom, Unborn, Waiting
  <1>. QED  BY <1>1, InitBufferInv DEF Init, IInv

\* In the body there is an item for a reader and room for a writer.
LEMMA BodyHasRoom ==
  ASSUME IInv, NEW t \in Threads, pc[t] = "body"
  PROVE  /\ t \in Readers => number_items > 0 /\ reading_time = 1
         /\ t \in Writers => number_items < Size /\ reading_time = 0
  BY ThreadsAssumption DEF IInv, Tested, MustWait, TurnHasRoom

\* Only the last call of a turn changes reading_time, and it wakes everybody.
LEMMA StepIInv == IInv /\ [Next]_vars => IInv'
  <1>. SUFFICES ASSUME IInv, [Next]_vars PROVE IInv'
    OBVIOUS
  <1>. USE DEF Start, Done, Waiting, Signalled, Unborn
  <1>1. ASSUME NEW t \in Threads, Lock(t) \/ Wake(t), UNCHANGED reading_time
        PROVE  IInv'
    BY <1>1, LockStep DEF IInv, TurnHasRoom, Tested, NoLostWakeup, MustWait, ring
  <1>2. ASSUME NEW t \in Threads, Test(t, MustWait(t)), UNCHANGED reading_time
        PROVE  IInv'
    <2>1. MustWait(t) \in BOOLEAN
      BY DEF MustWait
    <2>2. /\ BufferInv' /\ UNCHANGED ring
          /\ pc'[t] = IF MustWait(t) THEN Waiting ELSE "body"
          /\ \A u \in Threads \ {t} : pc'[u] = pc[u]
      BY <1>2, <2>1, TestStep DEF IInv
    <2>. QED  BY <1>2, <2>2 DEF IInv, TurnHasRoom, Tested, NoLostWakeup, MustWait, ring
  <1>3. ASSUME NEW t \in Threads, SpuriousWakeup(t), UNCHANGED reading_time
        PROVE  IInv'
    BY <1>3, SpuriousStep DEF IInv, TurnHasRoom, Tested, NoLostWakeup, MustWait, ring
  <1>4. ASSUME NEW t \in Threads, Read(t)
        PROVE  IInv'
    <2>1. /\ t \in Readers /\ pc[t] = "body" /\ number_items > 0 /\ reading_time = 1
          /\ number_items' = number_items - 1 /\ index_mutex = t
          /\ number_items \in 0 .. Size
      BY <1>4, BodyHasRoom DEF Read, Take, IInv, BufferInv, Ownership, BufferOK
    <2>2. LastRead \in BOOLEAN /\ reading_time' = IF LastRead THEN 0 ELSE 1
      BY <1>4, <2>1 DEF LastRead, Read
    <2>3. /\ BufferInv' /\ pc'[t] \in {Start, Done}
          /\ \A u \in Threads \ {t} :
               pc'[u] = IF LastRead /\ pc[u] = Waiting THEN Signalled ELSE pc[u]
      BY <1>4, <2>1, <2>2, TakeStep DEF Read, IInv
    <2>4. Tested'
      BY <2>1, <2>3, ThreadsAssumption DEF IInv, Tested, BufferInv, Ownership
    <2>5. NoLostWakeup'
      BY <2>1, <2>2, <2>3 DEF IInv, NoLostWakeup, MustWait
    <2>6. TurnHasRoom'
      BY <2>1, <2>2, SizeAssumption DEF TurnHasRoom, LastRead
    <2>. QED  BY <2>2, <2>3, <2>4, <2>5, <2>6 DEF IInv
  <1>5. ASSUME NEW t \in Threads, Write(t)
        PROVE  IInv'
    <2>1. /\ t \in Writers /\ pc[t] = "body" /\ number_items < Size /\ reading_time = 0
          /\ number_items' = number_items + 1 /\ index_mutex = t
          /\ number_items \in 0 .. Size
      BY <1>5, BodyHasRoom DEF Write, Fill, IInv, BufferInv, Ownership, BufferOK
    <2>2. LastWrite \in BOOLEAN /\ reading_time' = IF LastWrite THEN 1 ELSE 0
      BY <1>5, <2>1 DEF LastWrite, Write
    <2>3. /\ BufferInv' /\ pc'[t] \in {Start, Done}
          /\ \A u \in Threads \ {t} :
               pc'[u] = IF LastWrite /\ pc[u] = Waiting THEN Signalled ELSE pc[u]
      BY <1>5, <2>1, <2>2, FillStep DEF Write, IInv
    <2>4. Tested'
      BY <2>1, <2>3, ThreadsAssumption DEF IInv, Tested, BufferInv, Ownership
    <2>5. NoLostWakeup'
      BY <2>1, <2>2, <2>3 DEF IInv, NoLostWakeup, MustWait
    <2>6. TurnHasRoom'
      BY <2>1, <2>2, SizeAssumption DEF TurnHasRoom, LastWrite
    <2>. QED  BY <2>2, <2>3, <2>4, <2>5, <2>6 DEF IInv
  <1>6. CASE TurnMain
    BY <1>6, MainStep DEF TurnMain, IInv, TurnHasRoom, Tested, NoLostWakeup, MustWait, ring
  <1>7. CASE UNCHANGED vars
    BY <1>7 DEF vars, buffer, ring, control, IInv, TurnHasRoom, Tested, NoLostWakeup,
       MustWait, BufferInv, BufferOK, ControlOK, Ownership, RunsLeft, NoUseAfterFree, Points
  <1>. QED
    BY <1>1, <1>2, <1>3, <1>4, <1>5, <1>6, <1>7 DEF Next, Step

\* The inductive invariant holds in every reachable state.
THEOREM Invariance == Spec => []IInv
  BY InitIInv, StepIInv, PTL DEF Spec

\* The types of Task6's state: although no call tests number_items before it
\* changes it, it stays between 0 and size.
THEOREM TypeCorrect == Spec => []TypeOK
  <1>1. IInv => TypeOK  BY DEF IInv, BufferInv, TypeOK
  <1>. QED  BY Invariance, <1>1, PTL

\* A broadcast at the end of each turn is enough: no wakeup is lost.
THEOREM WakeupsKept == Spec => []NoLostWakeup
  <1>1. IInv => NoLostWakeup  BY DEF IInv
  <1>. QED  BY Invariance, <1>1, PTL

-----------------------------------------------------------------------------
RunsBound == \A t \in Threads : runs[t] <= Runs(t)

\* Within a turn the completed calls go with number_items, modulo Size.
TurnCounted ==
  IF reading_time = 1
  THEN Completed(Writers) % Size = 0 /\ Completed(Readers) % Size = Size - number_items
  ELSE Completed(Readers) % Size = 0 /\ Completed(Writers) % Size = number_items

TurnInv == RunsBound /\ TurnCounted

\* Counting up modulo Size.
LEMMA CountUp ==
  ASSUME NEW n \in Nat
  PROVE  /\ n % Size \in 0 .. Size - 1
         /\ (n + 1) % Size = IF n % Size = Size - 1 THEN 0 ELSE (n % Size) + 1
  <1>. DEFINE q == n \div Size
              r == n % Size
  <1>1. q \in Nat /\ r \in 0 .. Size - 1 /\ n = Size * q + r
    BY SizeAssumption
  <1>2. ASSUME NEW k \in Nat, NEW m \in 0 .. Size - 1 PROVE (Size * k + m) % Size = m
    BY SizeAssumption
  <1>. HIDE DEF q, r
  <1>3. CASE r = Size - 1
    <2>1. n + 1 = Size * (q + 1) + 0 /\ q + 1 \in Nat
      BY <1>1, <1>3, SizeAssumption
    <2>2. (n + 1) % Size = 0
      BY <1>2, <2>1, SizeAssumption
    <2>. QED  BY <1>1, <1>3, <2>2 DEF r
  <1>4. CASE r # Size - 1
    <2>1. n + 1 = Size * q + (r + 1) /\ r + 1 \in 0 .. Size - 1
      BY <1>1, <1>4, SizeAssumption
    <2>2. (n + 1) % Size = r + 1
      BY <1>1, <1>2, <2>1
    <2>. QED  BY <1>1, <1>4, <2>2 DEF r
  <1>. QED  BY <1>3, <1>4

\* The completed calls of a group are a finite set.
LEMMA CallsFinite ==
  ASSUME BufferInv, RunsBound, NEW group \in SUBSET Threads
  PROVE  IsFiniteSet(Calls(group)) /\ Completed(group) \in Nat
  <1>1. Calls(group) \subseteq group \X (1 .. ReaderRuns + WriterRuns)
    BY ThreadsAssumption DEF Calls, RunsBound, Runs, BufferInv, BufferOK, ControlOK
  <1>2. IsFiniteSet(group) /\ IsFiniteSet(1 .. ReaderRuns + WriterRuns)
    BY FiniteAssumption, FS_Subset, FS_Interval, ThreadsAssumption
  <1>3. IsFiniteSet(group \X (1 .. ReaderRuns + WriterRuns))
    BY <1>2, FS_Product
  <1>4. IsFiniteSet(Calls(group))
    BY <1>1, <1>3, FS_Subset
  <1>. QED  BY <1>4, FS_CardinalityType DEF Completed, Calls

\* A return is one more call of the thread's group, and none of the other.
LEMMA OneMoreCall ==
  ASSUME BufferInv, RunsBound, NEW t \in Threads, runs[t] > 0,
         runs' = [runs EXCEPT ![t] = @ - 1], NEW group \in SUBSET Threads
  PROVE  /\ RunsBound'
         /\ Completed(group)' = IF t \in group THEN Completed(group) + 1 ELSE Completed(group)
  <1>. USE DEF BufferInv, BufferOK, ControlOK
  <1>1. /\ runs \in [Threads -> Nat] /\ runs' \in [Threads -> Int]
        /\ runs'[t] = runs[t] - 1 /\ \A u \in Threads \ {t} : runs'[u] = runs[u]
        /\ \A u \in Threads : Runs(u) \in Nat
    BY ThreadsAssumption DEF Runs
  <1>2. RunsBound'
    BY <1>1 DEF RunsBound, Runs
  <1>. DEFINE c == <<t, Runs(t) - runs[t] + 1>>
  <1>3. CASE t \in group
    <2>1. \A x : x \in Calls(group)' <=> x \in Calls(group) \cup {c}
      BY <1>1, <1>3 DEF Calls, RunsBound, Runs
    <2>2. c \notin Calls(group)
      BY <1>1 DEF Calls
    <2>3. Calls(group)' = Calls(group) \cup {c}
      BY <2>1
    <2>. HIDE DEF c
    <2>4. Cardinality(Calls(group) \cup {c}) = Cardinality(Calls(group)) + 1
      BY <2>2, CallsFinite, FS_AddElement
    <2>5. /\ Completed(group) = Cardinality(Calls(group))
          /\ Completed(group)' = Cardinality(Calls(group)')
      BY DEF Completed, Calls
    <2>. QED  BY <1>2, <1>3, <2>3, <2>4, <2>5
  <1>4. CASE t \notin group
    <2>1. \A u \in group : runs'[u] = runs[u]
      BY <1>1, <1>4
    <2>2. Calls(group)' = Calls(group)
      BY <2>1 DEF Calls, Runs
    <2>. QED  BY <1>2, <1>4, <2>2 DEF Completed, Calls
  <1>. QED  BY <1>3, <1>4

\* At first no call is completed and the ring is empty.
LEMMA InitTurns == Init => TurnInv
  <1>. SUFFICES ASSUME Init PROVE TurnInv
    OBVIOUS
  <1>1. RunsBound /\ \A t \in Threads : runs[t] = Runs(t) /\ Runs(t) \in Nat
    BY ThreadsAssumption DEF Init, InitControl, RunsBound, Runs
  <1>2. Calls(Readers) = {} /\ Calls(Writers) = {}
    BY <1>1 DEF Calls, Threads
  <1>3. Completed(Readers) = 0 /\ Completed(Writers) = 0
    BY <1>2, FS_EmptySet DEF Completed, Calls
  <1>. QED
    BY <1>1, <1>3, SizeAssumption DEF Init, InitBuffer, TurnInv, TurnCounted

\* A call moves number_items and the completed calls of its group together.
LEMMA StepTurns == IInv /\ TurnInv /\ [Next]_vars => TurnInv'
  <1>. SUFFICES ASSUME IInv, TurnInv, [Next]_vars PROVE TurnInv'
    OBVIOUS
  <1>. USE DEF Start, Done, Waiting, Signalled, Unborn
  <1>1. /\ BufferInv /\ RunsBound /\ Completed(Readers) \in Nat /\ Completed(Writers) \in Nat
        /\ number_items \in 0 .. Size /\ Readers \cap Writers = {}
    BY CallsFinite, ThreadsAssumption DEF IInv, BufferInv, BufferOK, TurnInv, Threads
  <1>2. ASSUME NEW t \in Threads, Read(t)
        PROVE  TurnInv'
    <2>1. /\ t \in Readers /\ number_items > 0 /\ reading_time = 1 /\ pc[t] = "body"
          /\ number_items' = number_items - 1
          /\ reading_time' = IF number_items = 1 THEN 0 ELSE 1
          /\ runs' = [runs EXCEPT ![t] = @ - 1]
      BY <1>2, BodyHasRoom DEF Read, Take, LastRead, Finish, Return
    <2>2. runs[t] > 0
      BY <1>1, <2>1 DEF BufferInv, RunsLeft
    <2>3. /\ RunsBound' /\ Completed(Readers)' = Completed(Readers) + 1
          /\ Completed(Writers)' = Completed(Writers)
      BY <1>1, <2>1, <2>2, OneMoreCall DEF Threads
    <2>. QED
      BY <1>1, <2>1, <2>3, CountUp, SizeAssumption DEF TurnInv, TurnCounted
  <1>3. ASSUME NEW t \in Threads, Write(t)
        PROVE  TurnInv'
    <2>1. /\ t \in Writers /\ number_items < Size /\ reading_time = 0 /\ pc[t] = "body"
          /\ number_items' = number_items + 1
          /\ reading_time' = IF number_items = Size - 1 THEN 1 ELSE 0
          /\ runs' = [runs EXCEPT ![t] = @ - 1]
      BY <1>3, BodyHasRoom DEF Write, Fill, LastWrite, Finish, Return
    <2>2. runs[t] > 0
      BY <1>1, <2>1 DEF BufferInv, RunsLeft
    <2>3. /\ RunsBound' /\ Completed(Writers)' = Completed(Writers) + 1
          /\ Completed(Readers)' = Completed(Readers)
      BY <1>1, <2>1, <2>2, OneMoreCall DEF Threads
    <2>. QED
      BY <1>1, <2>1, <2>3, CountUp, SizeAssumption DEF TurnInv, TurnCounted
  <1>4. CASE UNCHANGED <<number_items, reading_time, runs>>
    BY <1>4 DEF TurnInv, RunsBound, TurnCounted, Completed, Calls, Runs
  <1>. QED
    BY <1>2, <1>3, <1>4
       DEF Next, Step, Lock, Test, Wake, SpuriousWakeup, TurnMain, Main, Create, Created, JoinAll,
           Join, Goto, buffer, ring, vars, control

\* The turns are whole: when one begins, the group whose turn ended has
\* completed a multiple of Size calls.
THEOREM TurnsWhole == Spec => []TurnsAreWhole
  <1>1. TurnInv => TurnsAreWhole
    BY DEF TurnInv, TurnCounted, TurnsAreWhole
  <1>. QED  BY InitTurns, StepTurns, Invariance, <1>1, PTL DEF Spec

-----------------------------------------------------------------------------
\* Task6 implements the bounded queue, with the calls in turns.
THEOREM Refinement == Spec => ImplementsQueue
  <1>1. IInv /\ IInv' /\ [Next]_vars => [Queue!Next]_<<Contents, got>>
    <2>. SUFFICES ASSUME IInv, IInv', [Next]_vars
                  PROVE  [Queue!Next]_<<Contents, got>>
      OBVIOUS
    <2>1. ASSUME NEW t \in Threads, Read(t)
          PROVE  Queue!Next
      BY <2>1, BodyHasRoom, TakeStep DEF Read, Take, LastRead, IInv, Queue!Next
    <2>2. ASSUME NEW t \in Threads, Write(t)
          PROVE  Queue!Next
      BY <2>2, BodyHasRoom, FillStep DEF Write, Fill, LastWrite, IInv, Queue!Next
    <2>3. CASE UNCHANGED ring
      BY <2>3 DEF ring, Contents
    <2>. QED
      BY <2>1, <2>2, <2>3 DEF Next, Step, Main, TurnMain, vars, buffer, Lock, Test,
         Wake, SpuriousWakeup
  <1>2. Init => Queue!Init
    BY InitQueue DEF Init
  <1>. QED
    BY <1>1, <1>2, Invariance, PTL DEF Spec, ImplementsQueue, Queue!Spec
=============================================================================
