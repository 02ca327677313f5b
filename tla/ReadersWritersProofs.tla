------------------------ MODULE ReadersWritersProofs ------------------------
(***************************************************************************)
(* Classes1/Task1.c implements SharedObject for any number of readers,     *)
(* writers and iterations.                                                 *)
(*                                                                         *)
(* First what the readers keep true, as long as nobody else touches        *)
(* reader_mutex and readers_count: the count is the number of readers      *)
(* inside, and writer_mutex is theirs exactly while one of them is.  Task4 *)
(* has the same readers, and CriticObjectProofs cites these lemmas.  Then  *)
(* the program: writer_mutex has one owner, a writer at its store or the   *)
(* readers as a group.                                                     *)
(***************************************************************************)
EXTENDS ReadersWriters, FiniteSetTheorems, TLAPS

\* The readers that readers_count counts.
Registered == {r \in Readers : pc[r] \in {"entering", "reading"}}

Counted == readers_count = Cardinality(Registered)

\* reader_mutex is held by the reader that is coming in or going out.
ReaderOwns == \A r \in Readers : pc[r] \in {"entering", "leaving"} <=> reader_mutex = r

GroupInv == GroupOK /\ Counted /\ ReaderOwns /\ HeldForReaders

\* A thread that has not returned has an iteration left.
ControlInv == /\ pc = [t \in Threads |-> pc[t]] /\ runs \in [Threads -> Nat]
              /\ \A t \in Threads : pc[t] # Done => runs[t] > 0

\* The counted readers are a finite set, so that they can be counted one up
\* and one down.
LEMMA CountIn ==
  ASSUME NEW S, IsFiniteSet(S), NEW x, x \notin S
  PROVE  /\ IsFiniteSet(S \cup {x})
         /\ Cardinality(S \cup {x}) = Cardinality(S) + 1
  BY FS_AddElement

\* And down.
LEMMA CountOut ==
  ASSUME NEW S, IsFiniteSet(S), NEW x \in S
  PROVE  /\ IsFiniteSet(S \ {x})
         /\ Cardinality(S \ {x}) = Cardinality(S) - 1
  BY FS_RemoveElement

\* At most all readers are registered.
LEMMA RegisteredFinite ==
  /\ IsFiniteSet(Registered) /\ Cardinality(Registered) \in Nat
  /\ Cardinality(Registered) <= Cardinality(Readers)
  /\ (Cardinality(Registered) = 0) <=> (Registered = {})
  <1>1. Registered \subseteq Readers
    BY DEF Registered
  <1>2. IsFiniteSet(Registered) /\ Cardinality(Registered) <= Cardinality(Readers)
    BY <1>1, FiniteAssumption, FS_Subset
  <1>. QED  BY <1>2, FS_CardinalityType, FS_EmptySet

\* At first no reader is registered and both mutexes are free.
LEMMA InitGroupInv ==
  ASSUME InitGroup, InitControl
  PROVE  GroupInv /\ ControlInv
  <1>1. Registered = {}
    BY DEF InitControl, Registered, Unborn, Threads
  <1>2. Cardinality(Readers) \in Nat /\ Cardinality({}) = 0
    BY FiniteAssumption, FS_CardinalityType, FS_EmptySet
  <1>3. GroupOK /\ Counted
    BY <1>1, <1>2 DEF InitGroup, GroupOK, Counted
  <1>4. ReaderOwns /\ HeldForReaders
    BY ThreadsAssumption
       DEF InitGroup, InitControl, ReaderOwns, HeldForReaders, Threads, Unborn
  <1>5. ControlInv
    BY ThreadsAssumption DEF InitControl, ControlInv, Runs, Unborn, Done
  <1>. QED  BY <1>3, <1>4, <1>5 DEF GroupInv

\* A thread returns from its call.
LEMMA ReturnStep ==
  ASSUME ControlInv, NEW t \in Threads, pc[t] # Done, Return(t, pc)
  PROVE  /\ ControlInv' /\ pc'[t] \in {Start, Done}
         /\ \A u \in Threads \ {t} : pc'[u] = pc[u]
  <1>1. runs[t] \in Nat /\ runs[t] > 0
    BY DEF ControlInv
  <1>2. LoopHead(runs[t] - 1) = IF runs[t] - 1 = 0 THEN Done ELSE Start
    BY DEF LoopHead
  <1>. QED  BY <1>1, <1>2 DEF Return, ControlInv, Start, Done

-----------------------------------------------------------------------------
\* A reader that has reader_mutex counts itself.
LEMMA RegisterStep ==
  ASSUME GroupInv, ControlInv, NEW r \in Readers, Register(r)
  PROVE  GroupInv' /\ ControlInv'
  <1>. USE DEF Start, Done
  <1>1. /\ r \notin Registered /\ Registered' = Registered \cup {r}
        /\ ControlInv' /\ pc'[r] = "entering"
        /\ \A q \in Readers \ {r} : pc'[q] = pc[q]
    <2>1. /\ ControlInv' /\ pc'[r] = "entering"
          /\ \A t \in Threads \ {r} : pc'[t] = pc[t]
      BY DEF Register, Goto, ControlInv, Threads
    <2>. QED  BY <2>1 DEF Register, Registered, Threads
  <1>2. readers_count' = Cardinality(Registered')
    BY <1>1, RegisteredFinite, CountIn DEF Register, GroupInv, Counted
  <1>3. GroupOK'
    <2>1. Registered' \subseteq Readers
      BY DEF Registered
    <2>2. /\ Cardinality(Registered') <= Cardinality(Readers)
          /\ Cardinality(Registered') \in Nat
      BY <2>1, FiniteAssumption, FS_Subset, FS_CardinalityType
    <2>. QED
      BY <1>2, <2>2, FiniteAssumption, FS_CardinalityType
         DEF Register, Acquire, GroupInv, GroupOK
  <1>4. ReaderOwns'
    BY <1>1, ThreadsAssumption DEF Register, Acquire, GroupInv, ReaderOwns, Threads
  <1>. QED
    BY <1>1, <1>2, <1>3, <1>4
       DEF Register, Goto, GroupInv, Counted, HeldForReaders

\* When readers_count is not 1, another reader is inside and the readers have
\* writer_mutex already.
LEMMA EnterStep ==
  ASSUME GroupInv, ControlInv, NEW r \in Readers, Enter(r)
  PROVE  GroupInv' /\ ControlInv'
  <1>. USE DEF Start, Done
  <1>1. /\ r \in Registered /\ Registered' = Registered
        /\ ControlInv' /\ pc'[r] = "reading"
        /\ \A q \in Readers \ {r} : pc'[q] = pc[q]
    <2>1. /\ ControlInv' /\ pc'[r] = "reading"
          /\ \A t \in Threads \ {r} : pc'[t] = pc[t]
      BY DEF Enter, Goto, ControlInv, Threads
    <2>. QED  BY <2>1 DEF Enter, Registered, Threads
  <1>2. writer_mutex' \in Readers
    <2>1. CASE readers_count = 1
      BY <2>1 DEF Enter, Acquire
    <2>2. CASE readers_count # 1
      <3>1. Cardinality(Registered \ {r}) # 0 /\ IsFiniteSet(Registered \ {r})
        BY <1>1, <2>2, RegisteredFinite, CountOut DEF GroupInv, Counted
      <3>2. PICK q \in Registered \ {r} : TRUE
        BY <3>1, FS_EmptySet
      <3>3. pc[q] = "reading"
        BY <3>2, ThreadsAssumption DEF Enter, GroupInv, ReaderOwns, Registered, Threads
      <3>. QED
        BY <2>2, <3>2, <3>3 DEF Enter, GroupInv, HeldForReaders, Registered
    <2>. QED  BY <2>1, <2>2
  <1>3. ReaderOwns' /\ GroupOK'
    BY <1>1, <1>2, ThreadsAssumption
       DEF Enter, Release, GroupInv, GroupOK, ReaderOwns, Threads
  <1>. QED
    BY <1>1, <1>2, <1>3 DEF Enter, Goto, GroupInv, Counted, HeldForReaders

\* A reader takes itself out of the count once it has reader_mutex again.
LEMMA UnregisterStep ==
  ASSUME GroupInv, ControlInv, NEW r \in Readers, Unregister(r)
  PROVE  GroupInv' /\ ControlInv'
  <1>. USE DEF Start, Done
  <1>1. /\ r \in Registered /\ Registered' = Registered \ {r}
        /\ ControlInv' /\ pc'[r] = "leaving"
        /\ \A q \in Readers \ {r} : pc'[q] = pc[q]
    <2>1. /\ ControlInv' /\ pc'[r] = "leaving"
          /\ \A t \in Threads \ {r} : pc'[t] = pc[t]
      BY DEF Unregister, Goto, ControlInv, Threads
    <2>. QED  BY <2>1 DEF Unregister, Registered, Threads
  <1>2. /\ readers_count' = Cardinality(Registered')
        /\ readers_count' \in Nat
    BY <1>1, RegisteredFinite, CountOut, FS_CardinalityType
       DEF Unregister, GroupInv, Counted
  <1>3. ReaderOwns' /\ GroupOK'
    BY <1>1, <1>2, ThreadsAssumption, FiniteAssumption, FS_CardinalityType
       DEF Unregister, Acquire, GroupInv, GroupOK, ReaderOwns, Threads
  <1>. QED
    BY <1>1, <1>2, <1>3 DEF Unregister, Goto, GroupInv, Counted, HeldForReaders

\* The reader that leaves has reader_mutex, so nobody is on the way in: when
\* the count is 0, no reader is left, and when it is not, one reads.
LEMMA LeaveStep ==
  ASSUME GroupInv, ControlInv, NEW r \in Readers, Leave(r)
  PROVE  GroupInv' /\ ControlInv'
  <1>. USE DEF Start, Done
  <1>1. /\ r \notin Registered /\ Registered' = Registered
        /\ ControlInv' /\ pc'[r] \in {Start, Done}
        /\ \A q \in Readers \ {r} : pc'[q] = pc[q]
    <2>1. /\ ControlInv' /\ pc'[r] \in {Start, Done}
          /\ \A t \in Threads \ {r} : pc'[t] = pc[t]
      BY ReturnStep DEF Leave, Threads
    <2>. QED  BY <2>1 DEF Leave, Registered, Threads
  <1>2. reader_mutex = r /\ \A q \in Readers \ {r} : pc[q] # "leaving" /\ pc[q] # "entering"
    BY ThreadsAssumption DEF Leave, GroupInv, ReaderOwns, Threads
  <1>3. readers_count = 0 <=> \A q \in Readers : pc[q] # "reading"
    BY <1>2, RegisteredFinite DEF Leave, GroupInv, Counted, Registered
  <1>4. HeldForReaders'
    BY <1>1, <1>2, <1>3, ThreadsAssumption
       DEF Leave, Release, GroupInv, HeldForReaders, Threads
  <1>5. ReaderOwns' /\ GroupOK'
    BY <1>1, <1>2, ThreadsAssumption
       DEF Leave, Release, GroupInv, GroupOK, ReaderOwns, Threads
  <1>. QED
    BY <1>1, <1>4, <1>5 DEF Leave, GroupInv, Counted

\* A step of the readers keeps the group's invariant.
LEMMA ReadStep ==
  ASSUME GroupInv, ControlInv, NEW r \in Readers, Read(r)
  PROVE  GroupInv' /\ ControlInv'
  BY RegisterStep, EnterStep, UnregisterStep, LeaveStep DEF Read

\* What the other threads do is out of the group's sight, as long as they
\* take writer_mutex when no reader has it.
LEMMA GroupFrame ==
  ASSUME GroupInv, UNCHANGED <<readers_count, reader_mutex>>,
         \A r \in Readers : pc'[r] = pc[r] \/ {pc[r], pc'[r]} \cap ReaderLabels = {},
         writer_mutex' = writer_mutex \/ {writer_mutex, writer_mutex'} \cap Readers = {}
  PROVE  GroupInv'
  <1>1. Registered' = Registered
    BY DEF Registered, ReaderLabels
  <1>2. GroupOK' /\ HeldForReaders'
    BY DEF GroupInv, GroupOK, HeldForReaders, ReaderLabels
  <1>. QED
    BY <1>1, <1>2 DEF GroupInv, Counted, ReaderOwns, ReaderLabels

-----------------------------------------------------------------------------
WriterLabels == {"writing", "wrote"}

\* writer_mutex is a writer's from its lock to its unlock.
WriterOwns == \A w \in Writers : pc[w] \in WriterLabels <=> writer_mutex = w

IInv == TypeOK /\ GroupInv /\ ControlInv /\ WriterOwns

\* At first no mutex is owned.
LEMMA InitIInv == Init => IInv
  <1>. SUFFICES ASSUME Init PROVE IInv
    OBVIOUS
  <1>1. GroupInv /\ ControlInv
    BY InitGroupInv DEF Init
  <1>2. TypeOK
    BY <1>1, ThreadsAssumption
       DEF Init, InitGroup, InitControl, TypeOK, ControlOK, GroupInv, Runs, Unborn
  <1>3. WriterOwns
    BY ThreadsAssumption DEF Init, InitGroup, InitControl, WriterOwns, WriterLabels, Threads, Unborn
  <1>. QED  BY <1>1, <1>2, <1>3 DEF IInv

\* A step of a reader: the writers' claim on writer_mutex stays.
LEMMA ReaderStep ==
  ASSUME IInv, NEW r \in Readers, Read(r), UNCHANGED data
  PROVE  IInv'
  <1>. USE DEF Start, Done, Unborn
  <1>1. GroupInv' /\ ControlInv'
    BY ReadStep DEF IInv
  <1>2. r \in Threads /\ r \notin Writers
    BY ThreadsAssumption DEF Threads
  <1>3. /\ pc'[r] \in ReaderLabels \cup {Start, Done}
        /\ \A t \in Threads \ {r} : pc'[t] = pc[t]
        /\ main' = main
    <2>1. CASE Leave(r)
      BY <1>2, <2>1, ReturnStep DEF Leave, IInv, Return
    <2>2. CASE Register(r) \/ Enter(r) \/ Unregister(r)
      BY <1>2, <2>2 DEF Register, Enter, Unregister, Goto, IInv, ControlInv, ReaderLabels
    <2>. QED  BY <2>1, <2>2 DEF Read
  <1>4. TypeOK'
    BY <1>1, <1>2, <1>3
       DEF Read, Register, Enter, Unregister, Leave, Acquire, Release,
            IInv, TypeOK, GroupInv, ControlInv, ControlOK
  <1>5. \/ writer_mutex' = writer_mutex
        \/ {writer_mutex, writer_mutex'} \subseteq Readers \cup {Nobody}
    BY DEF Read, Register, Enter, Unregister, Leave, Acquire, Release,
           IInv, TypeOK, GroupInv, HeldForReaders
  <1>6. WriterOwns'
    BY <1>2, <1>3, <1>5, ThreadsAssumption DEF IInv, WriterOwns, Threads
  <1>. QED  BY <1>1, <1>4, <1>6 DEF IInv

\* A step of a writer: the group stays as it is.
LEMMA WriterStep ==
  ASSUME IInv, NEW w \in Writers, Write(w)
  PROVE  IInv'
  <1>. USE DEF Start, Done, Unborn
  <1>1. w \in Threads /\ w \notin Readers
    BY ThreadsAssumption DEF Threads
  <1>2. /\ ControlInv' /\ main' = main
        /\ pc'[w] \in WriterLabels \cup {Start, Done}
        /\ \A t \in Threads \ {w} : pc'[t] = pc[t]
    <2>1. CASE UnlockWrite(w)
      BY <1>1, <2>1, ReturnStep DEF UnlockWrite, IInv, Return
    <2>2. CASE LockWrite(w) \/ Store(w)
      BY <1>1, <2>2 DEF LockWrite, Store, Goto, IInv, ControlInv, WriterLabels
    <2>. QED  BY <2>1, <2>2 DEF Write
  <1>3. /\ writer_mutex' = writer_mutex \/ {writer_mutex, writer_mutex'} \cap Readers = {}
        /\ UNCHANGED <<readers_count, reader_mutex>>
    BY <1>1, ThreadsAssumption
       DEF Write, LockWrite, Store, UnlockWrite, Acquire, Release, group,
           IInv, WriterOwns, WriterLabels, Threads
  <1>4. GroupInv'
    BY <1>1, <1>2, <1>3, GroupFrame DEF IInv, Threads
  <1>5. TypeOK'
    BY <1>1, <1>2, <1>4
       DEF IInv, TypeOK, GroupInv, ControlInv, ControlOK, WriterLabels, Write, LockWrite,
           Store, UnlockWrite, Acquire, Release, group
  <1>6. WriterOwns'
    BY <1>1, <1>2, ThreadsAssumption
       DEF Write, LockWrite, Store, UnlockWrite, Acquire, Release, group, Goto, Return,
           LoopHead, IInv, ControlInv, WriterOwns, WriterLabels, Threads
  <1>. QED  BY <1>2, <1>4, <1>5, <1>6 DEF IInv

\* main touches no mutex.
LEMMA MainStep ==
  ASSUME IInv, Main
  PROVE  IInv'
  <1>. USE DEF Start, Done, Unborn
  <1>1. /\ ControlInv' /\ main' \in {"create", "join", "joined"}
        /\ \A t \in Threads : pc'[t] = pc[t] \/ (pc[t] = Unborn /\ pc'[t] = Start)
    BY DEF Main, Create, Created, Join, Goto, IInv, ControlInv, TypeOK, ControlOK
  <1>2. UNCHANGED <<data, readers_count, reader_mutex, writer_mutex>>
    BY DEF Main, group
  <1>4. GroupInv'
    BY <1>1, <1>2, GroupFrame DEF IInv, ReaderLabels, Threads
  <1>5. TypeOK'
    BY <1>1, <1>2, <1>4 DEF IInv, TypeOK, GroupInv, ControlInv, ControlOK
  <1>6. WriterOwns'
    BY <1>1, <1>2 DEF IInv, WriterOwns, WriterLabels, Threads
  <1>. QED  BY <1>1, <1>4, <1>5, <1>6 DEF IInv

\* Every step keeps the invariant.
LEMMA StepIInv == IInv /\ [Next]_vars => IInv'
  <1>1. ASSUME IInv, UNCHANGED vars
        PROVE  IInv'
    BY <1>1 DEF vars, group, control, IInv, TypeOK, ControlOK, GroupInv, GroupOK,
       Counted, Registered, ReaderOwns, HeldForReaders, ControlInv, WriterOwns
  <1>. QED
    BY <1>1, ReaderStep, WriterStep, MainStep DEF Next

\* The inductive invariant holds in every reachable state.
THEOREM Invariance == Spec => []IInv
  BY InitIInv, StepIInv, PTL DEF Spec

\* The types of Task1's state; readers_count never exceeds the readers and
\* never falls below 0.
THEOREM TypeCorrect == Spec => []TypeOK
  <1>1. IInv => TypeOK  BY DEF IInv
  <1>. QED  BY Invariance, <1>1, PTL

\* writer_mutex is the readers' exactly while one of them needs it.
THEOREM HandedOver == Spec => []HeldForReaders
  <1>1. IInv => HeldForReaders  BY DEF IInv, GroupInv
  <1>. QED  BY Invariance, <1>1, PTL

-----------------------------------------------------------------------------
\* While the readers have writer_mutex no writer is at the object, and while
\* nobody has it nobody is.
LEMMA Exclusion ==
  ASSUME IInv
  PROVE  /\ writer_mutex \notin Writers => Writing = {}
         /\ writer_mutex \notin Readers => Reading = {}
         /\ \A w \in Writing : Writing = {w} /\ Reading = {}
  BY ThreadsAssumption
     DEF IInv, WriterOwns, WriterLabels, GroupInv, HeldForReaders, Reading, Writing, Threads

\* A reader's steps begin a read, end one, or leave the object alone.
LEMMA ReaderRefines ==
  ASSUME IInv, IInv', NEW r \in Readers, Read(r), UNCHANGED data
  PROVE  Object!Next \/ UNCHANGED <<data, Reading, Writing>>
  <1>1. r \in Threads /\ r \notin Writers
    BY ThreadsAssumption DEF Threads
  <1>2. \A t \in Threads \ {r} : pc'[t] = pc[t]
    BY <1>1, ReturnStep DEF Read, Register, Enter, Unregister, Leave, Goto, IInv, ControlInv, Done
  <1>3. Writing' = Writing
    BY <1>1, <1>2 DEF Writing, Threads
  <1>4. CASE Register(r) \/ Leave(r)
    <2>1. pc[r] # "reading" /\ pc'[r] # "reading"
      BY <1>1, <1>4, ReturnStep
         DEF Register, Leave, Goto, IInv, ControlInv, Start, Done
    <2>. QED  BY <1>2, <1>3, <2>1 DEF Reading, Threads
  <1>5. CASE Enter(r)
    <2>1. pc[r] = "entering" /\ pc'[r] = "reading"
      BY <1>1, <1>5 DEF Enter, Goto, IInv, ControlInv
    <2>2. r \notin Reading /\ Reading' = Reading \cup {r}
      BY <1>2, <2>1 DEF Reading, Threads
    <2>3. writer_mutex' \in Readers
      BY <2>1 DEF IInv, GroupInv, HeldForReaders
    <2>4. Writing' = {}
      BY <2>3, <1>1, ThreadsAssumption DEF IInv, WriterOwns, WriterLabels, Writing, Threads
    <2>. QED  BY <1>3, <2>2, <2>4 DEF Object!Next, Object!BeginRead
  <1>6. CASE Unregister(r)
    <2>1. pc[r] = "reading" /\ pc'[r] = "leaving"
      BY <1>1, <1>6 DEF Unregister, Goto, IInv, ControlInv
    <2>2. r \in Reading /\ Reading' = Reading \ {r}
      BY <1>2, <2>1 DEF Reading, Threads
    <2>. QED  BY <1>3, <2>2 DEF Object!Next, Object!EndRead
  <1>. QED  BY <1>4, <1>5, <1>6 DEF Read

\* A writer's steps begin a write, store, and end the write.
LEMMA WriterRefines ==
  ASSUME IInv, NEW w \in Writers, Write(w)
  PROVE  Object!Next
  <1>1. w \in Threads /\ w \notin Readers
    BY ThreadsAssumption DEF Threads
  <1>2. \A t \in Threads \ {w} : pc'[t] = pc[t]
    BY <1>1, ReturnStep DEF Write, LockWrite, Store, UnlockWrite, Goto, IInv, ControlInv, Done
  <1>3. Reading' = Reading
    BY <1>1, <1>2 DEF Reading, Threads
  <1>4. CASE LockWrite(w)
    <2>1. writer_mutex = Nobody /\ pc'[w] = "writing" /\ data' = data
      BY <1>1, <1>4 DEF LockWrite, Acquire, Goto, IInv, ControlInv
    <2>2. Reading = {} /\ Writing = {}
      BY <2>1, Exclusion, ThreadsAssumption DEF Threads
    <2>3. Writing' = {w}
      BY <1>2, <2>1, <2>2 DEF Writing, Threads
    <2>. QED  BY <1>3, <2>1, <2>2, <2>3 DEF Object!Next, Object!BeginWrite
  <1>5. CASE Store(w)
    <2>1. pc[w] = "writing" /\ pc'[w] = "wrote" /\ data' \in Values
      BY <1>1, <1>5 DEF Store, Goto, IInv, ControlInv
    <2>2. Writing = {w} /\ Writing' = {w}
      BY <1>1, <1>2, <2>1, Exclusion DEF Writing, Threads
    <2>. QED  BY <1>3, <2>1, <2>2 DEF Object!Next, Object!Store
  <1>6. CASE UnlockWrite(w)
    <2>1. pc[w] = "wrote" /\ pc'[w] \in {Start, Done} /\ data' = data
      BY <1>1, <1>6, ReturnStep DEF UnlockWrite, IInv, Done
    <2>2. Writing = {w} /\ Writing' = {}
      BY <1>1, <1>2, <2>1, Exclusion DEF Writing, Threads, Start, Done
    <2>. QED  BY <1>3, <2>1, <2>2 DEF Object!Next, Object!EndWrite
  <1>. QED  BY <1>4, <1>5, <1>6 DEF Write

\* Task1 implements the shared object: readers together or one writer alone,
\* and no store while anybody reads.
THEOREM Refinement == Spec => ImplementsObject
  <1>1. Init => Object!Init
    BY DEF Init, InitControl, Object!Init, Reading, Writing, Unborn, Threads
  <1>2. IInv /\ IInv' /\ [Next]_vars => [Object!Next]_<<data, Reading, Writing>>
    <2>. SUFFICES ASSUME IInv, IInv', [Next]_vars
                  PROVE  Object!Next \/ UNCHANGED <<data, Reading, Writing>>
      OBVIOUS
    <2>1. CASE Main
      BY <2>1 DEF Main, Create, Created, Join, Goto, IInv, ControlInv, Reading, Writing,
                  Threads, Start, Unborn
    <2>2. CASE UNCHANGED vars
      BY <2>2 DEF vars, control, Reading, Writing
    <2>. QED
      BY <2>1, <2>2, ReaderRefines, WriterRefines DEF Next
  <1>. QED
    BY <1>1, <1>2, Invariance, PTL DEF Spec, ImplementsObject, Object!Spec, Object!vars
=============================================================================
