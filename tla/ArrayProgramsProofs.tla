------------------------- MODULE ArrayProgramsProofs -------------------------
(***************************************************************************)
(* Classes1/Task3.c and Task5.c, for any number of threads, iterations,    *)
(* objects and limits.  The argument is that of one object, once for each: *)
(* a thread is inside the one object it has chosen, and what it does there *)
(* is out of the reach of the other objects (Elsewhere).                   *)
(***************************************************************************)
EXTENDS ArrayPrograms, FiniteSetTheorems, TLAPS

\* The steps of the two programs as one program: Full is never true in Task3.
Full(o) == task = 5 /\ readers_count[o] = readers_limit[o]

RefuseFull(r) == /\ pc[r] = "entering"
                 /\ Full(at[r])
                 /\ LockedForReaders(r)
                 /\ ReleaseAt(readers_mutex, at[r])
                 /\ Refused(r)
                 /\ UNCHANGED <<data, readers_count>>

Read(r) == /\ \/ LockRead(r) \/ RefuseTaken(r) \/ RefuseFull(r)
              \/ (~Full(at[r]) /\ Enter(r)) \/ Unregister(r) \/ Leave(r)
           /\ UNCHANGED at

EitherNext == \/ \E t \in Threads, o \in Objects : Choose(t, o)
              \/ \E r \in Readers : Read(r)
              \/ \E w \in Writers : Write(w)
              \/ Main

\* A thread that has not returned has an iteration left.
ControlInv == /\ pc = [t \in Threads |-> pc[t]] /\ runs \in [Threads -> Nat]
              /\ \A t \in Threads : pc[t] # Done => runs[t] > 0

TypeInv == /\ readers_count \in [Objects -> Nat]
           /\ readers_mutex \in [Objects -> Threads \cup {Nobody}]
           /\ writers_mutex \in [Objects -> Threads \cup {Nobody}]
           /\ data = [o \in Objects |-> data[o]]
           /\ at \in [Threads -> Objects]
           /\ task \in {3, 5}
           /\ task = 5 => readers_limit = [i \in Objects |-> i]

\* readers_count counts the readers that read.
Counted(o) == readers_count[o] = Cardinality(ReadingAt(o))

\* readers_mutex is held by the reader that is coming in or going out.
ReaderOwns(o) == \A r \in Readers :
  at[r] = o /\ pc[r] \in {"entering", "leaving"} <=> readers_mutex[o] = r

\* writers_mutex is a writer's from its trylock to its unlock.
WriterOwns(o) == \A w \in Writers : w \in WritingAt(o) <=> writers_mutex[o] = w

ReadersIn(o) == \E r \in Readers : at[r] = o /\ pc[r] \in {"reading", "leaving"}

\* It is the readers' exactly while one of them is inside, but for the object
\* whose limit is 0.
HeldForReaders(o) ==
  /\ ReadersIn(o) => writers_mutex[o] \in Readers
  /\ writers_mutex[o] \in Readers => ReadersIn(o) \/ (task = 5 /\ readers_limit[o] = 0)

WithinLimit(o) == task = 5 => readers_count[o] <= readers_limit[o]

ObjectInv(o) == /\ Counted(o) /\ ReaderOwns(o) /\ WriterOwns(o)
                /\ HeldForReaders(o) /\ WithinLimit(o)

\* A thread that ObjectInv(o) is about.
Inside(t, o) == /\ at[t] = o
                /\ pc[t] \in {"entering", "reading", "leaving", "writing", "wrote"}

IInv == TypeInv /\ ControlInv /\ \A o \in Objects : ObjectInv(o)

\* Both programs are this one: what differs is Full.
LEMMA NextIsEither == [Next]_allVars /\ TypeInv =>
                        (EitherNext /\ UNCHANGED given) \/ UNCHANGED allVars
  <1>. SUFFICES ASSUME Next, TypeInv PROVE EitherNext /\ UNCHANGED given
    OBVIOUS
  <1>1. CASE task = 3 /\ Task3!Next /\ UNCHANGED given
    <2>1. ASSUME NEW t \in Threads, Task3!Thread(t)
          PROVE  EitherNext
      <3>1. CASE \E o \in Objects : Task3!Choose(t, o)
        BY <3>1 DEF Task3!Choose, Choose, EitherNext, Task3!Objects, Objects, Task3!Goto, Goto,
           Task3!objects, objects, Task3!Start, Start
      <3>2. CASE t \in Readers /\ Task3!Read(t)
        BY <1>1, <3>2
           DEF EitherNext, Task3!Read, Read, Full, Task3!LockRead, LockRead,
               Task3!RefuseTaken, RefuseTaken,
               Task3!Enter, Enter, Task3!Unregister, Unregister, Task3!Leave, Leave,
               Task3!LockedForReaders, LockedForReaders, Task3!AcquireAt, AcquireAt,
               Task3!ReleaseAt, ReleaseAt, Task3!TakenAt, TakenAt, Task3!Refused, Refused,
               Task3!Goto, Goto, Task3!Return, Return, Task3!LoopHead, LoopHead,
               Task3!Start, Start, Task3!Done, Done
      <3>3. CASE t \in Writers /\ Task3!Write(t)
        BY <3>3
           DEF EitherNext, Task3!Write, Write, Task3!TryWrite, TryWrite, Task3!Store, Store,
               Task3!UnlockWrite, UnlockWrite, Task3!AcquireAt, AcquireAt,
               Task3!ReleaseAt, ReleaseAt, Task3!TakenAt, TakenAt, Task3!Refused, Refused,
               Task3!Goto, Goto, Task3!Return, Return, Task3!LoopHead, LoopHead,
               Task3!Start, Start, Task3!Done, Done
      <3>. QED  BY <2>1, <3>1, <3>2, <3>3 DEF Task3!Thread, Task3!Objects, Objects
    <2>2. ASSUME Task3!Main PROVE Main
      BY <2>2 DEF Task3!Main, Main, Task3!Threads, Threads, Task3!Create, Create,
         Task3!Created, Created, Task3!Join, Join, Task3!Goto, Goto, Task3!objects, objects,
         Task3!Unborn, Unborn, Task3!Start, Start, Task3!Done, Done
    <2>. QED  BY <1>1, <2>1, <2>2 DEF Task3!Next, EitherNext, Task3!Threads, Threads
  <1>2. CASE task = 5 /\ Task5!Next /\ UNCHANGED task
    <2>1. ASSUME NEW t \in Threads, Task5!Thread(t)
          PROVE  EitherNext
      <3>1. CASE \E o \in Objects : Task5!Choose(t, o)
        BY <3>1 DEF Task5!Choose, Choose, EitherNext, Task5!Objects, Objects, Task5!Goto, Goto,
           Task5!objects, objects, Task5!Start, Start
      <3>2. CASE t \in Readers /\ Task5!Read(t)
        BY <1>2, <3>2
           DEF EitherNext, Task5!Read, Read, Full, Task5!Full, Task5!LockRead, LockRead,
               Task5!RefuseTaken, RefuseTaken, Task5!RefuseFull, RefuseFull, Task5!EnterLimited,
               Task5!Enter, Enter, Task5!Unregister, Unregister, Task5!Leave, Leave,
               Task5!LockedForReaders, LockedForReaders, Task5!AcquireAt, AcquireAt,
               Task5!ReleaseAt, ReleaseAt, Task5!TakenAt, TakenAt, Task5!Refused, Refused,
               Task5!Goto, Goto, Task5!Return, Return, Task5!LoopHead, LoopHead,
               Task5!Start, Start, Task5!Done, Done
      <3>3. CASE t \in Writers /\ Task5!Write(t)
        BY <3>3
           DEF EitherNext, Task5!Write, Write, Task5!TryWrite, TryWrite, Task5!Store, Store,
               Task5!UnlockWrite, UnlockWrite, Task5!AcquireAt, AcquireAt,
               Task5!ReleaseAt, ReleaseAt, Task5!TakenAt, TakenAt, Task5!Refused, Refused,
               Task5!Goto, Goto, Task5!Return, Return, Task5!LoopHead, LoopHead,
               Task5!Start, Start, Task5!Done, Done
      <3>. QED  BY <2>1, <3>1, <3>2, <3>3
            DEF Task5!Thread, Task5!Call, Task5!Objects, Objects
    <2>2. ASSUME Task5!Main PROVE Main
      BY <2>2 DEF Task5!Main, Main, Task5!Threads, Threads, Task5!Create, Create,
         Task5!Created, Created, Task5!Join, Join, Task5!Goto, Goto, Task5!objects, objects,
         Task5!Unborn, Unborn, Task5!Start, Start, Task5!Done, Done
    <2>. QED
      BY <1>2, <2>1, <2>2
         DEF Task5!Next, Task5!fields, EitherNext, Task5!Threads, Threads, given
  <1>. QED  BY <1>1, <1>2 DEF Next

-----------------------------------------------------------------------------
\* A finite set of readers is counted one up and one down.
LEMMA CountOneReader ==
  ASSUME NEW S \in SUBSET Readers, NEW x \in Readers
  PROVE  /\ Cardinality(S) \in Nat /\ (Cardinality(S) = 0 <=> S = {})
         /\ x \notin S => Cardinality(S \cup {x}) = Cardinality(S) + 1
         /\ x \in S => Cardinality(S \ {x}) = Cardinality(S) - 1
  <1>1. IsFiniteSet(S)
    BY FiniteAssumption, FS_Subset
  <1>. QED
    BY <1>1, FS_CardinalityType, FS_EmptySet, FS_AddElement, FS_RemoveElement

\* At first no object is in use.
LEMMA InitIInv == Init => IInv
  <1>. SUFFICES ASSUME Init PROVE IInv
    OBVIOUS
  <1>. USE DEF Unborn, Done, Start
  <1>1. /\ InitObjects /\ InitControl /\ task \in {3, 5}
        /\ task = 5 => readers_limit = [i \in Objects |-> i]
    BY DEF Init, Task3!Init, Task5!Init, Task3!InitObjects, Task5!InitObjects, InitObjects,
       Task3!InitControl, Task5!InitControl, InitControl, Task3!Objects, Task5!Objects, Objects,
       Task3!Threads, Task5!Threads, Threads, Task3!Runs, Task5!Runs, Runs,
       Task3!Unborn, Task5!Unborn
  <1>2. 0 \in Objects
    BY ObjectsAssumption DEF Objects
  <1>3. TypeInv
    BY <1>1, <1>2 DEF InitObjects, TypeInv
  <1>4. ControlInv
    BY <1>1, ThreadsAssumption DEF InitControl, ControlInv, Runs
  <1>5. ASSUME NEW o \in Objects PROVE ObjectInv(o)
    <2>1. ReadingAt(o) = {} /\ WritingAt(o) = {} /\ ~ReadersIn(o)
      BY <1>1 DEF InitControl, ReadingAt, WritingAt, ReadersIn, Threads
    <2>2. /\ readers_count[o] = 0 /\ readers_mutex[o] = Nobody /\ writers_mutex[o] = Nobody
          /\ task = 5 => readers_limit[o] = o
      BY <1>1 DEF InitObjects
    <2>. o \in Nat
      BY ObjectsAssumption DEF Objects
    <2>3. Cardinality({}) = 0
      BY FS_EmptySet
    <2>4. ReaderOwns(o)
      BY <1>1, <2>2, ThreadsAssumption DEF InitControl, ReaderOwns, Threads
    <2>. QED
      BY <2>1, <2>2, <2>3, <2>4, ThreadsAssumption
         DEF ObjectInv, Counted, WriterOwns, HeldForReaders, WithinLimit, Threads
  <1>. QED  BY <1>3, <1>4, <1>5 DEF IInv

\* What no thread inside an object does leaves the object's invariant alone.
LEMMA Elsewhere ==
  ASSUME NEW o \in Objects, ObjectInv(o), UNCHANGED <<task, readers_limit>>,
         readers_count'[o] = readers_count[o], readers_mutex'[o] = readers_mutex[o],
         writers_mutex'[o] = writers_mutex[o],
         \A t \in Threads : \/ pc'[t] = pc[t] /\ at'[t] = at[t]
                            \/ ~Inside(t, o) /\ ~Inside(t, o)'
  PROVE  /\ ObjectInv(o)' /\ ReadingAt(o)' = ReadingAt(o) /\ WritingAt(o)' = WritingAt(o)
         /\ ReadersIn(o)' = ReadersIn(o)
  <1>1. ReadingAt(o)' = ReadingAt(o)
    BY DEF ReadingAt, Inside, Threads
  <1>2. WritingAt(o)' = WritingAt(o)
    BY DEF WritingAt, Inside, Threads
  <1>3. ReadersIn(o)' = ReadersIn(o)
    BY DEF ReadersIn, Inside, Threads
  <1>4. ReaderOwns(o)'
    BY DEF ObjectInv, ReaderOwns, Inside, Threads
  <1>. QED
    BY <1>1, <1>2, <1>3, <1>4
       DEF ObjectInv, Counted, WriterOwns, HeldForReaders, WithinLimit

\* A thread returns from its call.
LEMMA ReturnStep ==
  ASSUME ControlInv, NEW t \in Threads, pc[t] # Done, Return(t, pc)
  PROVE  /\ ControlInv' /\ pc'[t] \in {Start, Done}
         /\ \A u \in Threads \ {t} : pc'[u] = pc[u]
  <1>1. runs[t] \in Nat /\ runs[t] > 0
    BY DEF ControlInv
  <1>2. LoopHead(runs[t] - 1) = IF runs[t] - 1 = 0 THEN Done ELSE Start
    BY DEF LoopHead
  <1>. QED  BY <1>1, <1>2 DEF Return, ControlInv, Start, Done

\* A step within a call.
LEMMA GotoStep ==
  ASSUME ControlInv, NEW t \in Threads, pc[t] # Done, NEW label, Goto(t, label)
  PROVE  /\ ControlInv' /\ pc'[t] = label
         /\ \A u \in Threads \ {t} : pc'[u] = pc[u]
  BY DEF Goto, ControlInv, Done

\* A reader's step changes the place of that reader only, and one object.
LEMMA ReaderFrame ==
  ASSUME IInv, NEW r \in Readers, Read(r)
  PROVE  /\ ControlInv' /\ at' = at /\ data' = data
         /\ \A t \in Threads \ {r} : pc'[t] = pc[t]
         /\ \A o \in Objects \ {at[r]} :
              /\ readers_count'[o] = readers_count[o]
              /\ readers_mutex'[o] = readers_mutex[o]
              /\ writers_mutex'[o] = writers_mutex[o]
  <1>. USE DEF Start, Done
  <1>1. r \in Threads /\ at[r] \in Objects
    BY DEF Threads, IInv, TypeInv
  <1>2. ControlInv' /\ \A t \in Threads \ {r} : pc'[t] = pc[t]
    <2>1. CASE Leave(r)
      BY <1>1, <2>1, ReturnStep DEF Leave, IInv
    <2>2. CASE LockRead(r) \/ RefuseTaken(r) \/ RefuseFull(r) \/ Enter(r) \/ Unregister(r)
      BY <1>1, <2>2, GotoStep
         DEF LockRead, RefuseTaken, RefuseFull, Enter, Unregister, Refused, IInv
    <2>. QED  BY <2>1, <2>2 DEF Read
  <1>3. \A o \in Objects \ {at[r]} :
              /\ readers_count'[o] = readers_count[o]
              /\ readers_mutex'[o] = readers_mutex[o]
              /\ writers_mutex'[o] = writers_mutex[o]
    BY <1>1 DEF Read, LockRead, RefuseTaken, RefuseFull, Enter, Unregister, Leave,
       LockedForReaders, AcquireAt, ReleaseAt, IInv, TypeInv
  <1>. QED
    BY <1>2, <1>3 DEF Read, LockRead, RefuseTaken, RefuseFull, Enter, Unregister, Leave

\* What all steps of a reader at object o have in common.
LEMMA ReaderHere ==
  ASSUME IInv, NEW r \in Readers, Read(r), NEW o \in Objects, at[r] = o, UNCHANGED given
  PROVE  /\ WriterOwns(o)' <=> \A w \in Writers : w \in WritingAt(o) <=> writers_mutex'[o] = w
         /\ WritingAt(o)' = WritingAt(o)
         /\ ReadingAt(o)' = IF pc'[r] = "reading" THEN ReadingAt(o) \cup {r} ELSE ReadingAt(o) \ {r}
         /\ \A q \in Readers : at'[q] = at[q] /\ (q # r => pc'[q] = pc[q])
         /\ task' = task /\ readers_limit' = readers_limit /\ ObjectInv(o)
         /\ r \notin Writers /\ Nobody \notin Readers /\ Nobody \notin Writers
         /\ task = 5 => readers_limit[o] \in Nat
  <1>1. r \in Threads /\ r \notin Writers /\ Nobody \notin Readers /\ Nobody \notin Writers
    BY ThreadsAssumption DEF Threads
  <1>2. at' = at /\ \A t \in Threads \ {r} : pc'[t] = pc[t]
    BY ReaderFrame
  <1>3. WritingAt(o)' = WritingAt(o)
    BY <1>1, <1>2 DEF WritingAt, Threads
  <1>4. ReadingAt(o)' = IF pc'[r] = "reading" THEN ReadingAt(o) \cup {r} ELSE ReadingAt(o) \ {r}
    BY <1>1, <1>2 DEF ReadingAt, Threads
  <1>5. task = 5 => readers_limit[o] \in Nat
    BY ObjectsAssumption DEF IInv, TypeInv, Objects
  <1>. QED
    BY <1>1, <1>2, <1>3, <1>4, <1>5 DEF WriterOwns, IInv, given, Threads

\* readers_mutex is locked.
LEMMA LockReadStep ==
  ASSUME IInv, NEW r \in Readers, Read(r), LockRead(r), NEW o \in Objects, at[r] = o,
         UNCHANGED given
  PROVE  ObjectInv(o)'
  <1>1. pc'[r] = "entering"
    BY GotoStep DEF LockRead, IInv, Threads, Done, Start
  <1>2. /\ pc[r] = "chosen" /\ readers_mutex[o] = Nobody /\ readers_mutex'[o] = r
        /\ readers_count'[o] = readers_count[o] /\ writers_mutex'[o] = writers_mutex[o]
    BY DEF LockRead, AcquireAt, IInv, TypeInv
  <1>3. ReadingAt(o)' = ReadingAt(o)
    BY <1>1, <1>2, ReaderHere DEF ReadingAt
  <1>4. ReadersIn(o)' = ReadersIn(o)
    BY <1>1, <1>2, ReaderHere DEF ReadersIn
  <1>5. ReaderOwns(o)'
    BY <1>1, <1>2, ReaderHere DEF ObjectInv, ReaderOwns
  <1>. QED
    BY <1>2, <1>3, <1>4, <1>5, ReaderHere
       DEF ObjectInv, Counted, WriterOwns, HeldForReaders, WithinLimit

\* The call is refused: readers_mutex is unlocked.
LEMMA RefuseStep ==
  ASSUME IInv, NEW r \in Readers, Read(r), RefuseTaken(r) \/ RefuseFull(r),
         NEW o \in Objects, at[r] = o, UNCHANGED given
  PROVE  ObjectInv(o)'
  <1>1. pc'[r] = Start /\ pc[r] = "entering"
    BY GotoStep DEF RefuseTaken, RefuseFull, Refused, IInv, Threads, Done, Start
  <1>2. /\ readers_mutex'[o] = Nobody /\ readers_count'[o] = readers_count[o]
        /\ \/ writers_mutex'[o] = writers_mutex[o]
           \/ /\ writers_mutex[o] = Nobody /\ writers_mutex'[o] = r
              /\ task = 5 /\ readers_limit[o] = 0
    BY DEF RefuseTaken, RefuseFull, Full, LockedForReaders, AcquireAt, ReleaseAt, IInv, TypeInv
  <1>3. ReadingAt(o)' = ReadingAt(o)
    BY <1>1, <1>2, ReaderHere DEF ReadingAt, Start
  <1>4. ReadersIn(o)' = ReadersIn(o)
    BY <1>1, <1>2, ReaderHere DEF ReadersIn, Start
  <1>5. readers_mutex[o] = r /\ ReaderOwns(o)'
    BY <1>1, <1>2, ReaderHere DEF ObjectInv, ReaderOwns, Start
  <1>6. WriterOwns(o)' /\ HeldForReaders(o)'
    BY <1>2, <1>4, ReaderHere DEF ObjectInv, WriterOwns, HeldForReaders
  <1>. QED
    BY <1>2, <1>3, <1>5, <1>6, ReaderHere DEF ObjectInv, Counted, WithinLimit

\* The reader is let in and counted.  When it is not the first, another one
\* reads, for whom writers_mutex is the readers' already.
LEMMA EnterStep ==
  ASSUME IInv, NEW r \in Readers, Read(r), Enter(r), ~Full(at[r]),
         NEW o \in Objects, at[r] = o, UNCHANGED given
  PROVE  ObjectInv(o)'
  <1>1. pc'[r] = "reading" /\ pc[r] = "entering"
    BY GotoStep DEF Enter, IInv, Threads, Done
  <1>2. /\ readers_mutex'[o] = Nobody /\ readers_count'[o] = readers_count[o] + 1
        /\ IF readers_count[o] = 0
           THEN writers_mutex[o] = Nobody /\ writers_mutex'[o] = r
           ELSE writers_mutex'[o] = writers_mutex[o]
        /\ readers_count[o] \in Nat
    BY DEF Enter, LockedForReaders, AcquireAt, ReleaseAt, IInv, TypeInv
  <1>3. /\ r \notin ReadingAt(o) /\ ReadingAt(o)' = ReadingAt(o) \cup {r}
        /\ ReadingAt(o) \in SUBSET Readers
    BY <1>1, ReaderHere DEF ReadingAt
  <1>4. Counted(o)'
    BY <1>2, <1>3, CountOneReader, ReaderHere DEF ObjectInv, Counted
  <1>5. readers_mutex[o] = r /\ ReaderOwns(o)'
    BY <1>1, <1>2, ReaderHere DEF ObjectInv, ReaderOwns
  <1>6. writers_mutex'[o] \in Readers
    <2>1. CASE readers_count[o] # 0
      <3>1. ReadingAt(o) # {}
        BY <2>1, <1>3, CountOneReader, ReaderHere DEF ObjectInv, Counted
      <3>. QED
        BY <1>2, <2>1, <3>1, ReaderHere DEF ObjectInv, HeldForReaders, ReadersIn, ReadingAt
    <2>. QED  BY <1>2, <2>1
  <1>7. ReadersIn(o)'
    BY <1>1, ReaderHere DEF ReadersIn
  <1>8. WriterOwns(o)' /\ HeldForReaders(o)'
    BY <1>2, <1>6, <1>7, ReaderHere, ThreadsAssumption
       DEF ObjectInv, WriterOwns, HeldForReaders, Threads
  <1>9. WithinLimit(o)'
    BY <1>2, ReaderHere DEF Full, ObjectInv, WithinLimit
  <1>. QED  BY <1>4, <1>5, <1>8, <1>9 DEF ObjectInv

\* The reader takes itself out of the count.
LEMMA UnregisterStep ==
  ASSUME IInv, NEW r \in Readers, Read(r), Unregister(r),
         NEW o \in Objects, at[r] = o, UNCHANGED given
  PROVE  ObjectInv(o)'
  <1>1. pc'[r] = "leaving" /\ pc[r] = "reading"
    BY GotoStep DEF Unregister, IInv, Threads, Done
  <1>2. /\ readers_mutex[o] = Nobody /\ readers_mutex'[o] = r
        /\ readers_count'[o] = readers_count[o] - 1
        /\ writers_mutex'[o] = writers_mutex[o]
        /\ readers_count[o] \in Nat
    BY DEF Unregister, AcquireAt, IInv, TypeInv
  <1>3. /\ r \in ReadingAt(o) /\ ReadingAt(o)' = ReadingAt(o) \ {r}
        /\ ReadingAt(o) \in SUBSET Readers
    BY <1>1, ReaderHere DEF ReadingAt
  <1>4. Counted(o)'
    BY <1>2, <1>3, CountOneReader, ReaderHere DEF ObjectInv, Counted
  <1>5. ReaderOwns(o)'
    BY <1>1, <1>2, ReaderHere DEF ObjectInv, ReaderOwns
  <1>6. ReadersIn(o) /\ ReadersIn(o)'
    BY <1>1, ReaderHere DEF ReadersIn
  <1>7. WriterOwns(o)' /\ HeldForReaders(o)'
    BY <1>2, <1>6, ReaderHere DEF ObjectInv, WriterOwns, HeldForReaders
  <1>8. WithinLimit(o)'
    BY <1>2, ReaderHere DEF ObjectInv, WithinLimit
  <1>. QED  BY <1>4, <1>5, <1>7, <1>8 DEF ObjectInv

\* The reader that leaves has readers_mutex, so nobody is on the way in or out:
\* when the count is 0 no reader is inside, and when it is not, one reads.
LEMMA LeaveStep ==
  ASSUME IInv, NEW r \in Readers, Read(r), Leave(r),
         NEW o \in Objects, at[r] = o, UNCHANGED given
  PROVE  ObjectInv(o)'
  <1>1. pc'[r] \in {Start, Done} /\ pc[r] = "leaving"
    BY ReturnStep DEF Leave, IInv, Threads, Done
  <1>2. /\ readers_mutex'[o] = Nobody /\ readers_count'[o] = readers_count[o]
        /\ writers_mutex'[o] = IF readers_count[o] = 0 THEN Nobody ELSE writers_mutex[o]
    BY DEF Leave, ReleaseAt, IInv, TypeInv
  <1>3. ReadingAt(o)' = ReadingAt(o) /\ ReadingAt(o) \in SUBSET Readers
    BY <1>1, ReaderHere DEF ReadingAt, Start, Done
  <1>4. /\ readers_mutex[o] = r
        /\ \A q \in Readers \ {r} : at[q] = o => pc[q] \notin {"entering", "leaving"}
    BY <1>1, ReaderHere DEF ObjectInv, ReaderOwns
  <1>5. ReaderOwns(o)'
    BY <1>1, <1>2, <1>4, ReaderHere DEF ReaderOwns, Start, Done
  <1>6. ReadersIn(o)' <=> ReadingAt(o) # {}
    BY <1>1, <1>4, ReaderHere DEF ReadersIn, ReadingAt, Start, Done
  <1>7. readers_count[o] = 0 <=> ReadingAt(o) = {}
    BY <1>3, CountOneReader, ReaderHere DEF ObjectInv, Counted
  <1>8. writers_mutex[o] \in Readers
    BY <1>1, ReaderHere DEF ObjectInv, HeldForReaders, ReadersIn
  <1>9. WriterOwns(o)' /\ HeldForReaders(o)'
    BY <1>2, <1>6, <1>7, <1>8, ReaderHere, ThreadsAssumption
       DEF ObjectInv, WriterOwns, HeldForReaders, Threads
  <1>. QED
    BY <1>2, <1>3, <1>5, <1>9, ReaderHere DEF ObjectInv, Counted, WithinLimit

\* A step of a reader.
LEMMA ReaderStep ==
  ASSUME IInv, NEW r \in Readers, Read(r), UNCHANGED given
  PROVE  IInv'
  <1>1. at[r] \in Objects /\ ObjectInv(at[r])'
    <2>1. PICK o \in Objects : at[r] = o
      BY DEF IInv, TypeInv, Threads
    <2>2. ObjectInv(o)'
      BY <2>1, LockReadStep, RefuseStep, EnterStep, UnregisterStep, LeaveStep DEF Read
    <2>3. at' = at
      BY ReaderFrame
    <2>. QED  BY <2>1, <2>2, <2>3
  <1>2. ASSUME NEW o \in Objects \ {at[r]} PROVE ObjectInv(o)'
    BY <1>2, ReaderFrame, Elsewhere DEF IInv, Inside, given, Threads
  <1>3. TypeInv'
    <2>1. UNCHANGED <<at, data, task, readers_limit>>
      BY ReaderFrame DEF given
    <2>2. at[r] \in Objects /\ r \in Threads /\ TypeInv /\ Counted(at[r])
      BY DEF IInv, TypeInv, Threads, ObjectInv
    <2>3. readers_mutex' \in [Objects -> Threads \cup {Nobody}]
      BY <2>2 DEF Read, LockRead, RefuseTaken, RefuseFull, Enter, Unregister, Leave,
         LockedForReaders, AcquireAt, ReleaseAt, TypeInv
    <2>4. writers_mutex' \in [Objects -> Threads \cup {Nobody}]
      BY <2>2 DEF Read, LockRead, RefuseTaken, RefuseFull, Enter, Unregister, Leave,
         LockedForReaders, AcquireAt, ReleaseAt, TypeInv
    <2>5. readers_count' \in [Objects -> Nat]
      <3>1. CASE Unregister(r)
        <4>1. readers_count'[at[r]] \in Nat
          BY <1>1, <2>1, CountOneReader DEF ObjectInv, Counted, ReadingAt
        <4>. QED  BY <2>2, <3>1, <4>1 DEF Unregister, TypeInv
      <3>2. CASE ~Unregister(r)
        BY <2>2, <3>2 DEF Read, LockRead, RefuseTaken, RefuseFull, Enter, Leave, TypeInv
      <3>. QED  BY <3>1, <3>2
    <2>. QED  BY <2>1, <2>2, <2>3, <2>4, <2>5 DEF TypeInv
  <1>. QED  BY <1>1, <1>2, <1>3, ReaderFrame DEF IInv

\* A writer's step changes the place of that writer only, and one object; the
\* readers' state it leaves alone.
LEMMA WriterFrame ==
  ASSUME IInv, NEW w \in Writers, Write(w)
  PROVE  /\ ControlInv' /\ at' = at
         /\ \A t \in Threads \ {w} : pc'[t] = pc[t]
         /\ readers_count' = readers_count /\ readers_mutex' = readers_mutex
         /\ \A o \in Objects \ {at[w]} : /\ writers_mutex'[o] = writers_mutex[o]
                                         /\ data'[o] = data[o]
         /\ w \notin Readers /\ Nobody \notin Threads
  <1>. USE DEF Start, Done
  <1>1. w \in Threads /\ w \notin Readers /\ Nobody \notin Threads
    BY ThreadsAssumption DEF Threads
  <1>2. ControlInv' /\ \A t \in Threads \ {w} : pc'[t] = pc[t]
    <2>1. CASE UnlockWrite(w)
      BY <1>1, <2>1, ReturnStep DEF UnlockWrite, IInv
    <2>2. CASE TryWrite(w) \/ Store(w)
      BY <1>1, <2>2, GotoStep DEF TryWrite, Store, Refused, IInv
    <2>. QED  BY <2>1, <2>2 DEF Write
  <1>3. \A o \in Objects \ {at[w]} : writers_mutex'[o] = writers_mutex[o] /\ data'[o] = data[o]
    BY DEF Write, TryWrite, Store, UnlockWrite, AcquireAt, ReleaseAt, IInv, TypeInv
  <1>. QED
    BY <1>1, <1>2, <1>3 DEF Write, TryWrite, Store, UnlockWrite

\* What a writer does at its object: the four outcomes of its steps.
LEMMA WriterHere ==
  ASSUME IInv, NEW w \in Writers, Write(w), NEW o \in Objects, at[w] = o
  PROVE  \/ /\ pc[w] = "chosen" /\ pc'[w] = "writing"
            /\ writers_mutex[o] = Nobody /\ writers_mutex'[o] = w /\ data'[o] = data[o]
         \/ /\ pc[w] = "chosen" /\ pc'[w] = Start
            /\ writers_mutex[o] # Nobody
            /\ writers_mutex'[o] = writers_mutex[o] /\ data'[o] = data[o]
         \/ /\ pc[w] = "writing" /\ pc'[w] = "wrote"
            /\ writers_mutex'[o] = writers_mutex[o] /\ data'[o] \in Values
         \/ /\ pc[w] = "wrote" /\ pc'[w] \in {Start, Done}
            /\ writers_mutex'[o] = Nobody /\ data'[o] = data[o]
  <1>. USE DEF Start, Done
  <1>1. w \in Threads
    BY DEF Threads
  <1>2. CASE TryWrite(w)
    BY <1>1, <1>2, GotoStep DEF TryWrite, Refused, AcquireAt, TakenAt, IInv, TypeInv
  <1>3. CASE Store(w)
    BY <1>1, <1>3, GotoStep DEF Store, IInv, TypeInv
  <1>4. CASE UnlockWrite(w)
    BY <1>1, <1>4, ReturnStep DEF UnlockWrite, ReleaseAt, IInv, TypeInv
  <1>. QED  BY <1>2, <1>3, <1>4 DEF Write

\* A step of a writer.
LEMMA WriterStep ==
  ASSUME IInv, NEW w \in Writers, Write(w), UNCHANGED given
  PROVE  IInv'
  <1>1. w \in Threads /\ w \notin Readers /\ Nobody \notin Threads
    BY WriterFrame DEF Threads
  <1>2. TypeInv'
    <2>1. at[w] \in Objects /\ TypeInv
      BY <1>1 DEF IInv, TypeInv
    <2>2. UNCHANGED <<at, readers_count, readers_mutex, task, readers_limit>>
      BY WriterFrame DEF given
    <2>3. /\ writers_mutex' \in [Objects -> Threads \cup {Nobody}]
          /\ data' = [o \in Objects |-> data'[o]]
      BY <1>1, <2>1 DEF Write, TryWrite, Store, UnlockWrite, AcquireAt, ReleaseAt, TypeInv
    <2>. QED  BY <2>1, <2>2, <2>3 DEF TypeInv
  <1>3. ASSUME NEW o \in Objects, at[w] = o PROVE ObjectInv(o)'
    <2>1. \A r \in Readers : at'[r] = at[r] /\ pc'[r] = pc[r]
      BY <1>1, WriterFrame DEF Threads
    <2>2. ReadingAt(o)' = ReadingAt(o) /\ ReadersIn(o)' = ReadersIn(o)
      BY <2>1 DEF ReadingAt, ReadersIn
    <2>3. ObjectInv(o) /\ UNCHANGED <<readers_count, readers_mutex, task, readers_limit>>
      BY WriterFrame DEF IInv, given
    <2>4. WritingAt(o)' = IF pc'[w] \in {"writing", "wrote"} THEN WritingAt(o) \cup {w}
                                                             ELSE WritingAt(o) \ {w}
      BY <1>1, <1>3, WriterFrame DEF WritingAt, Threads
    <2>5. WriterOwns(o)' /\ HeldForReaders(o)'
      BY <1>1, <1>3, <2>2, <2>3, <2>4, WriterHere
         DEF ObjectInv, WriterOwns, WritingAt, HeldForReaders, Start, Done, Threads
    <2>6. ReaderOwns(o)'
      BY <2>1, <2>3 DEF ObjectInv, ReaderOwns
    <2>. QED  BY <2>2, <2>3, <2>5, <2>6 DEF ObjectInv, Counted, WithinLimit
  <1>4. ASSUME NEW o \in Objects, at[w] # o PROVE ObjectInv(o)'
    <2>1. \A t \in Threads : (pc'[t] = pc[t] /\ at'[t] = at[t]) \/ (~Inside(t, o) /\ ~Inside(t, o)')
      BY <1>4, WriterFrame DEF Inside
    <2>. QED  BY <1>4, <2>1, WriterFrame, Elsewhere DEF IInv, given
  <1>. QED  BY <1>2, <1>3, <1>4, WriterFrame DEF IInv

\* A thread chooses an object, or main does something: nobody goes in or out.
LEMMA OutsideStep ==
  ASSUME IInv, Main \/ \E t \in Threads, o \in Objects : Choose(t, o), UNCHANGED given
  PROVE  /\ IInv' /\ UNCHANGED objects
         /\ \A o \in Objects : /\ ReadingAt(o)' = ReadingAt(o) /\ WritingAt(o)' = WritingAt(o)
                               /\ ReadersIn(o)' = ReadersIn(o)
  <1>. USE DEF Start, Done, Unborn
  <1>1. UNCHANGED objects /\ at' \in [Threads -> Objects]
    BY DEF Main, Choose, IInv, TypeInv
  <1>2. ControlInv'
    BY DEF Main, Create, Created, Join, Choose, Goto, IInv, ControlInv
  <1>3. \A t \in Threads : \/ pc'[t] = pc[t] /\ at'[t] = at[t]
                           \/ pc[t] \in {Start, Unborn} /\ pc'[t] \in {"chosen", Start}
    BY DEF Main, Create, Created, Join, Choose, Goto, IInv, ControlInv, TypeInv
  <1>4. ASSUME NEW o \in Objects
        PROVE  /\ ObjectInv(o)' /\ ReadingAt(o)' = ReadingAt(o) /\ WritingAt(o)' = WritingAt(o)
               /\ ReadersIn(o)' = ReadersIn(o)
    <2>1. \A t \in Threads : (pc'[t] = pc[t] /\ at'[t] = at[t]) \/ (~Inside(t, o) /\ ~Inside(t, o)')
      BY <1>3 DEF Inside
    <2>. QED  BY <1>1, <2>1, Elsewhere DEF IInv, objects, given
  <1>5. TypeInv'
    BY <1>1 DEF objects, given, IInv, TypeInv
  <1>. QED  BY <1>1, <1>2, <1>4, <1>5 DEF IInv

\* Every step keeps the invariant.
LEMMA StepIInv == IInv /\ [Next]_allVars => IInv'
  <1>. SUFFICES ASSUME IInv, (EitherNext /\ UNCHANGED given) \/ UNCHANGED allVars
                PROVE  IInv'
    BY NextIsEither DEF IInv
  <1>1. CASE UNCHANGED allVars
    <2>1. UNCHANGED <<data, readers_count, readers_mutex, writers_mutex, at, pc, runs,
                      readers_limit, task>>
      BY <1>1 DEF allVars, objects, control, given
    <2>2. TypeInv' /\ ControlInv'
      BY <2>1 DEF IInv, TypeInv, ControlInv
    <2>. QED  BY <2>1, <2>2, Elsewhere DEF IInv
  <1>. QED
    BY <1>1, ReaderStep, WriterStep, OutsideStep DEF EitherNext

\* The inductive invariant holds in every reachable state of both programs.
THEOREM Invariance == Spec => []IInv
  BY InitIInv, StepIInv, PTL DEF Spec

\* What the invariant says of one object: who uses it has its writers_mutex,
\* and only an object with the limit 0 keeps it locked without a user.
LEMMA TakenInUse ==
  ASSUME IInv, NEW o \in Objects
  PROVE  /\ InUse(o) => TakenAt(writers_mutex, o)
         /\ TakenAt(writers_mutex, o) => InUse(o) \/ (task = 5 /\ readers_limit[o] = 0)
         /\ InUse(o) <=> WritingAt(o) # {} \/ ReadersIn(o)
  <1>1. InUse(o) <=> WritingAt(o) # {} \/ ReadersIn(o)
    BY DEF InUse, ReadersIn
  <1>2. writers_mutex[o] \in Readers \cup Writers \cup {Nobody}
    BY DEF IInv, TypeInv, Threads
  <1>3. ObjectInv(o) /\ WritingAt(o) \subseteq Writers
    BY DEF IInv, WritingAt
  <1>. QED
    BY <1>1, <1>2, <1>3, ThreadsAssumption
       DEF ObjectInv, WriterOwns, HeldForReaders, TakenAt, Threads

\* In Task5 no object has more readers than its limit.
THEOREM LimitIsKept == Spec => []LimitKept
  <1>1. IInv => LimitKept
    BY DEF IInv, ObjectInv, WithinLimit, LimitKept, Task5!LimitKept, Task5!Objects, Objects
  <1>. QED  BY Invariance, <1>1, PTL

\* A refused call of Task3 leaves no mutex locked; one of Task5 does so only at
\* an object with the limit 0.
THEOREM NoLockIsLeft == Spec => []NoLockLeft
  <1>1. IInv => NoLockLeft
    <2>. SUFFICES ASSUME IInv PROVE NoLockLeft
      OBVIOUS
    <2>1. ASSUME NEW o \in Objects
          PROVE  /\ Task3!InUse(o) <=> InUse(o)
                 /\ Task5!InUse(o) <=> InUse(o)
                 /\ Task3!TakenAt(writers_mutex, o) <=> TakenAt(writers_mutex, o)
                 /\ Task5!TakenAt(writers_mutex, o) <=> TakenAt(writers_mutex, o)
      BY DEF Task3!InUse, Task5!InUse, InUse, Task3!WritingAt, Task5!WritingAt, WritingAt,
             Task3!TakenAt, Task5!TakenAt, TakenAt
    <2>2. CASE task = 3
      BY <2>1, <2>2, TakenInUse DEF NoLockLeft, Task3!NoLockLeft, Task3!Objects, Objects
    <2>3. CASE task = 5
      BY <2>1, <2>3, TakenInUse DEF NoLockLeft, Task5!LockLeftAtLimitZero, Task5!Objects, Objects
    <2>. QED  BY <2>2, <2>3 DEF IInv, TypeInv
  <1>. QED  BY Invariance, <1>1, PTL

-----------------------------------------------------------------------------
\* An object that is taken with nobody there is one of limit 0: no reader is
\* let in and no writer gets its lock.
LEMMA DeadStep ==
  ASSUME IInv, IInv', [Next]_allVars, NEW o \in Objects,
         TakenAt(writers_mutex, o), ~InUse(o)
  PROVE  writers_mutex'[o] = writers_mutex[o] /\ ~InUse(o)' /\ data'[o] = data[o]
  <1>. USE DEF Start, Done
  <1>1. /\ task = 5 /\ readers_limit[o] = 0
        /\ WritingAt(o) = {} /\ ~ReadersIn(o) /\ writers_mutex[o] # Nobody
    BY TakenInUse DEF TakenAt
  <1>2. readers_count[o] = 0
    BY <1>1 DEF IInv, TypeInv, ObjectInv, WithinLimit
  <1>3. InUse(o)' <=> WritingAt(o)' # {} \/ ReadersIn(o)'
    BY DEF InUse, ReadersIn
  <1>4. CASE UNCHANGED allVars
    BY <1>1, <1>3, <1>4 DEF allVars, objects, control, ReadersIn, WritingAt
  <1>5. ASSUME NEW r \in Readers, Read(r), UNCHANGED given
        PROVE  writers_mutex'[o] = writers_mutex[o] /\ ~InUse(o)' /\ data'[o] = data[o]
    <2>1. data' = data /\ at' = at /\ \A t \in Threads \ {r} : pc'[t] = pc[t]
      BY <1>5, ReaderFrame
    <2>2. writers_mutex'[o] = writers_mutex[o]
      <3>1. CASE at[r] = o
        BY <1>1, <1>2, <1>5, <3>1
           DEF Read, LockRead, RefuseTaken, RefuseFull, Enter, Unregister, Leave,
               LockedForReaders, AcquireAt, ReadersIn
      <3>. QED  BY <1>5, <3>1, ReaderFrame
    <2>3. readers_count'[o] = 0
      BY <1>1, <1>5 DEF IInv, TypeInv, ObjectInv, WithinLimit, given
    <2>4. pc'[r] \in {"reading", "leaving"} => at[r] # o
      <3>1. CASE at[r] = o
        <4>1. Leave(r) \/ Unregister(r) \/ Enter(r) => FALSE
          BY <1>1, <1>2, <1>5, <3>1
             DEF Leave, Unregister, Enter, Read, LockedForReaders, AcquireAt, ReadersIn
        <4>2. r \in Threads
          BY DEF Threads
        <4>. QED
          BY <1>5, <4>1, <4>2, GotoStep DEF Read, LockRead, RefuseTaken, RefuseFull, Refused, IInv
      <3>. QED  BY <3>1
    <2>5. ~ReadersIn(o)'
      BY <1>1, <2>1, <2>4 DEF ReadersIn, Threads
    <2>6. WritingAt(o)' = {}
      BY <1>1, <2>1, ThreadsAssumption DEF WritingAt, Threads
    <2>. QED  BY <1>3, <2>1, <2>2, <2>5, <2>6
  <1>6. ASSUME NEW w \in Writers, Write(w), UNCHANGED given
        PROVE  writers_mutex'[o] = writers_mutex[o] /\ ~InUse(o)' /\ data'[o] = data[o]
    <2>1. /\ at' = at /\ \A t \in Threads \ {w} : pc'[t] = pc[t]
          /\ w \notin Readers
      BY <1>6, WriterFrame
    <2>2. ~ReadersIn(o)'
      BY <1>1, <2>1 DEF ReadersIn, Threads
    <2>3. CASE at[w] = o
      <3>1. writers_mutex'[o] = writers_mutex[o] /\ pc'[w] = Start /\ data'[o] = data[o]
        BY <1>1, <1>6, <2>3, WriterHere DEF WritingAt
      <3>. QED  BY <1>1, <1>3, <2>1, <2>2, <3>1 DEF WritingAt, Threads
    <2>4. CASE at[w] # o
      BY <1>1, <1>3, <1>6, <2>1, <2>2, <2>4, WriterFrame DEF WritingAt, Threads
    <2>. QED  BY <2>3, <2>4
  <1>7. ASSUME Main \/ \E t \in Threads, p \in Objects : Choose(t, p), UNCHANGED given
        PROVE  writers_mutex'[o] = writers_mutex[o] /\ ~InUse(o)' /\ data'[o] = data[o]
    BY <1>1, <1>3, <1>7, OutsideStep DEF objects
  <1>. QED
    BY <1>4, <1>5, <1>6, <1>7, NextIsEither DEF EitherNext, IInv

\* An object that keeps its lock with nobody there is never used again.
THEOREM StaysDead == Spec => DeadForGood
  <1>1. IInv /\ IInv' /\ [Next]_allVars =>
          [\A o \in Objects : TakenAt(writers_mutex, o) /\ ~InUse(o) =>
             writers_mutex'[o] = writers_mutex[o] /\ ~InUse(o)' /\ data'[o] = data[o]]_allVars
    BY DeadStep
  <1>. QED  BY <1>1, Invariance, PTL DEF Spec, DeadForGood

-----------------------------------------------------------------------------
\* A step of a reader, at its object or elsewhere, in the words of SharedObject.
LEMMA ReaderRefines ==
  ASSUME IInv, IInv', NEW r \in Readers, Read(r), UNCHANGED given, NEW o \in Objects
  PROVE  [Object(o)!Next]_(Object(o)!vars)
  <1>. USE DEF Start, Done
  <1>1. /\ data' = data /\ at' = at /\ \A t \in Threads \ {r} : pc'[t] = pc[t]
        /\ r \in Threads /\ r \notin Writers /\ Nobody \notin Threads
    BY ReaderFrame, ThreadsAssumption DEF Threads
  <1>2. WritingAt(o)' = WritingAt(o)
    BY <1>1 DEF WritingAt, Threads
  <1>3. ReadingAt(o)' = IF pc'[r] = "reading" /\ at[r] = o THEN ReadingAt(o) \cup {r}
                                                           ELSE ReadingAt(o) \ {r}
    BY <1>1 DEF ReadingAt, Threads
  <1>4. CASE at[r] = o /\ Enter(r)
    <2>1. pc[r] = "entering" /\ pc'[r] = "reading"
      BY <1>1, <1>4, GotoStep DEF Enter, IInv
    <2>2. ReadersIn(o)'
      BY <1>1, <1>4, <2>1 DEF ReadersIn
    <2>3. writers_mutex'[o] \in Readers /\ WriterOwns(o)'
      BY <2>2 DEF IInv, ObjectInv, HeldForReaders
    <2>4. WritingAt(o)' = {}
      <3>1. WritingAt(o)' \subseteq Writers
        BY DEF WritingAt
      <3>. QED  BY <2>3, <3>1, ThreadsAssumption DEF WriterOwns
    <2>5. r \notin ReadingAt(o)
      BY <2>1 DEF ReadingAt
    <2>. QED
      BY <1>1, <1>2, <1>3, <1>4, <2>1, <2>4, <2>5 DEF Object!Next, Object!BeginRead
  <1>5. CASE at[r] = o /\ Unregister(r)
    <2>1. pc[r] = "reading" /\ pc'[r] = "leaving"
      BY <1>1, <1>5, GotoStep DEF Unregister, IInv
    <2>2. r \in ReadingAt(o)
      BY <1>5, <2>1 DEF ReadingAt
    <2>. QED
      BY <1>1, <1>2, <1>3, <2>1, <2>2 DEF Object!Next, Object!EndRead
  <1>6. CASE at[r] # o \/ ~(Enter(r) \/ Unregister(r))
    <2>1. CASE at[r] = o
      <3>1. pc[r] # "reading" /\ pc'[r] # "reading"
        BY <1>1, <1>6, <2>1, ReturnStep, GotoStep
           DEF Read, LockRead, RefuseTaken, RefuseFull, Refused, Leave, IInv
      <3>. QED  BY <1>1, <1>2, <1>3, <3>1 DEF Object!vars, ReadingAt
    <2>2. CASE at[r] # o
      BY <1>1, <1>2, <1>3, <2>2 DEF Object!vars, ReadingAt
    <2>. QED  BY <2>1, <2>2
  <1>. QED  BY <1>4, <1>5, <1>6

\* A step of a writer.
LEMMA WriterRefines ==
  ASSUME IInv, NEW w \in Writers, Write(w), UNCHANGED given, NEW o \in Objects
  PROVE  [Object(o)!Next]_(Object(o)!vars)
  <1>. USE DEF Start, Done
  <1>1. /\ at' = at /\ \A t \in Threads \ {w} : pc'[t] = pc[t]
        /\ w \in Threads /\ w \notin Readers /\ Nobody \notin Threads
    BY WriterFrame DEF Threads
  <1>2. ReadingAt(o)' = ReadingAt(o)
    BY <1>1 DEF ReadingAt, Threads
  <1>3. WritingAt(o)' = IF pc'[w] \in {"writing", "wrote"} /\ at[w] = o
                        THEN WritingAt(o) \cup {w} ELSE WritingAt(o) \ {w}
    BY <1>1 DEF WritingAt, Threads
  <1>4. /\ WritingAt(o) \subseteq Writers /\ ReadingAt(o) \subseteq Readers
        /\ WriterOwns(o) /\ HeldForReaders(o)
        /\ Readers \cap Writers = {} /\ Nobody \notin Readers /\ Nobody \notin Writers
    BY ThreadsAssumption DEF WritingAt, ReadingAt, IInv, ObjectInv, Threads
  <1>5. /\ writers_mutex[o] = Nobody => WritingAt(o) = {} /\ ReadingAt(o) = {}
        /\ writers_mutex[o] = w => WritingAt(o) = {w} /\ ReadingAt(o) = {}
    BY <1>4 DEF WriterOwns, HeldForReaders, ReadersIn, ReadingAt
  <1>6. CASE at[w] # o
    BY <1>2, <1>3, <1>6, WriterFrame DEF Object!vars, WritingAt
  <1>7. CASE at[w] = o
    <2>1. w \in WritingAt(o) <=> pc[w] \in {"writing", "wrote"}
      BY <1>7 DEF WritingAt
    <2>2. pc[w] \in {"writing", "wrote"} => writers_mutex[o] = w
      BY <1>4, <2>1 DEF WriterOwns
    <2>. QED
      BY <1>2, <1>3, <1>5, <1>7, <2>1, <2>2, WriterHere
         DEF Object!Next, Object!BeginWrite, Object!Store, Object!EndWrite, Object!vars
  <1>. QED  BY <1>6, <1>7

\* For each object of the array, both programs implement the shared object.
THEOREM Refinement == Spec => ImplementsObjects
  <1>1. Init => \A o \in Objects : Object(o)!Init
    <2>1. Init => InitObjects /\ InitControl
      BY DEF Init, Task3!Init, Task5!Init, Task3!InitObjects, Task5!InitObjects, InitObjects,
         Task3!InitControl, Task5!InitControl, InitControl, Task3!Objects, Task5!Objects, Objects,
         Task3!Threads, Task5!Threads, Threads, Task3!Runs, Task5!Runs, Runs,
         Task3!Unborn, Task5!Unborn, Unborn
    <2>. QED
      BY <2>1 DEF InitObjects, InitControl, Object!Init, ReadingAt, WritingAt, Unborn, Threads
  <1>2. IInv /\ IInv' /\ [Next]_allVars =>
          [\A o \in Objects : [Object(o)!Next]_(Object(o)!vars)]_<<objects, at, pc>>
    <2>. SUFFICES ASSUME IInv, IInv', [Next]_allVars, NEW o \in Objects,
                         ~UNCHANGED <<objects, at, pc>>
                  PROVE  [Object(o)!Next]_(Object(o)!vars)
      OBVIOUS
    <2>1. CASE UNCHANGED allVars
      BY <2>1 DEF allVars, control
    <2>2. ASSUME Main \/ \E t \in Threads, p \in Objects : Choose(t, p), UNCHANGED given
          PROVE  [Object(o)!Next]_(Object(o)!vars)
      BY <2>2, OutsideStep DEF objects, Object!vars
    <2>. QED
      BY <2>1, <2>2, ReaderRefines, WriterRefines, NextIsEither DEF EitherNext, IInv
  <1>. QED  BY <1>1, <1>2, Invariance, PTL DEF Spec, ImplementsObjects
=============================================================================
