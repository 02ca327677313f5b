------------------------- MODULE CriticObjectProofs -------------------------
(***************************************************************************)
(* Classes1/Task4.c for any number of readers, writers and iterations: no  *)
(* wakeup is lost, every round is saved, nobody stores between the end of  *)
(* a round and its saving, and the object is a SharedObject.               *)
(*                                                                         *)
(* The readers are those of Task1, and ReadersWritersProofs has shown what *)
(* they keep.  The rest is about writer_mutex: who tests, ends or saves a  *)
(* round owns it, so that nobody sees a round half ended or half saved.    *)
(***************************************************************************)
EXTENDS CriticObject, FiniteSetTheorems, TLAPS

Task1 == INSTANCE ReadersWritersProofs

WriterLabels == {"test", "body", "store", "wrote"}
CriticLabels == {"test", "body", "saving"}

\* Who is where.
Placed == /\ \A r \in Readers : pc[r] \in ReaderLabels \cup {Unborn, Start, Done}
          /\ \A w \in Writers : pc[w] \in WriterLabels \cup
                                          {Unborn, Start, Done, Waiting, Signalled}
          /\ critic \in CriticLabels \cup {Unborn, Start, Done, Waiting, Signalled}
          /\ main = "joined" => \A t \in Threads : pc[t] = Done

\* A thread that has not returned has an iteration left.
ControlInv == /\ pc = [t \in Threads |-> pc[t]] /\ runs \in [Threads -> Nat]
              /\ \A t \in Threads : pc[t] # Done => runs[t] > 0

\* writer_mutex is a writer's or the critic's from its lock to its unlock; the
\* cancelled critic never unlocks it.
Owned == /\ \A w \in Writers : pc[w] \in WriterLabels <=> writer_mutex = w
         /\ critic \in CriticLabels \cup {Done} <=> writer_mutex = Critic

\* writers_count counts the flags that are set.
Recorded == /\ writers_record \subseteq Writers
            /\ writers_count = Cardinality(writers_record)

\* What a writer and the critic have found holds while they have the mutex.
Found == /\ \A w \in Writers : pc[w] = "body" => ~RoundOver
         /\ critic = "body" => RoundOver
         /\ critic = "saving" => writers_count = 0
         /\ \A w \in Writers : pc[w] = "store" /\ RoundOver => w = closer

RoundInv == /\ Placed /\ Owned /\ Recorded /\ Found
            /\ rounds \in Nat /\ saves \in Nat
            /\ NoLostWakeup /\ EveryRoundSaved

IInv == Task1!GroupInv /\ ControlInv /\ RoundInv

\* There are writers, as many as NumWriters, and a round that nobody has been
\* recorded for is not over.
LEMMA SomeWriters ==
  /\ NumWriters \in Nat \ {0}
  /\ writers_count = 0 => ~RoundOver
  BY CriticAssumption, FS_CardinalityType, FS_EmptySet DEF NumWriters, RoundOver

\* The assumptions of ReadersWritersProofs are those of this module.
LEMMA Assumed == /\ Task1!IsFiniteSet(Readers)
                 /\ Readers \cap Writers = {} /\ Nobody \notin Task1!Threads
                 /\ ReaderRuns \in Nat \ {0} /\ WriterRuns \in Nat \ {0}
  BY FiniteAssumption, ThreadsAssumption
     DEF IsFiniteSet, Task1!IsFiniteSet, Threads, Task1!Threads

\* The readers, the writers and the critic are different owners.
LEMMA Owners == /\ Readers \cap Writers = {} /\ Critic \notin Threads
                /\ Nobody \notin Threads \cup {Critic}
                /\ Threads = Readers \cup Writers
  BY ThreadsAssumption, CriticAssumption DEF Threads

-----------------------------------------------------------------------------
\* At first no mutex is owned and no round has begun.
LEMMA InitIInv == Init => IInv
  <1>. SUFFICES ASSUME Init PROVE IInv
    OBVIOUS
  <1>. USE DEF Unborn, Start, Done, Waiting, Signalled
  <1>1. Task1!GroupInv
    <2>1. Task1!InitGroup /\ Task1!InitControl
      BY DEF Init, InitGroup, InitControl, Runs, Threads, Task1!InitGroup,
         Task1!InitControl, Task1!Runs, Task1!Threads, Task1!Unborn
    <2>. QED BY <2>1, Assumed, Task1!InitGroupInv
  <1>2. ControlInv
    BY ThreadsAssumption DEF Init, InitControl, ControlInv, Runs, Threads
  <1>3. Placed /\ Owned
    BY Owners DEF Init, InitControl, InitGroup, Placed, Owned, WriterLabels, CriticLabels
  <1>4. Recorded /\ ~RoundOver
    BY SomeWriters, FS_EmptySet DEF Init, Recorded
  <1>5. Found
    BY <1>4, Owners DEF Init, InitControl, Found
  <1>6. NoLostWakeup /\ EveryRoundSaved
    BY <1>4, Owners DEF Init, InitControl, NoLostWakeup, EveryRoundSaved
  <1>. QED BY <1>1, <1>2, <1>3, <1>4, <1>5, <1>6 DEF IInv, RoundInv, Init

\* A thread goes on within its call.
LEMMA GotoStep ==
  ASSUME ControlInv, NEW t \in Threads, pc[t] # Done, NEW label, label # Done, Goto(t, label)
  PROVE  /\ ControlInv' /\ main' = main /\ pc'[t] = label
         /\ \A u \in Threads \ {t} : pc'[u] = pc[u]
  BY DEF Goto, ControlInv

\* A thread returns from its call.
LEMMA ReturnStep ==
  ASSUME ControlInv, NEW t \in Threads, pc[t] # Done, Return(t, pc)
  PROVE  /\ ControlInv' /\ main' = main /\ pc'[t] \in {Start, Done}
         /\ \A u \in Threads \ {t} : pc'[u] = pc[u]
  <1>1. runs[t] \in Nat /\ runs[t] > 0
    BY DEF ControlInv
  <1>2. LoopHead(runs[t] - 1) = IF runs[t] - 1 = 0 THEN Done ELSE Start
    BY DEF LoopHead
  <1>. QED BY <1>1, <1>2 DEF Return, ControlInv, Start, Done

\* The threads that wait on critic_cond are signalled.
LEMMA BroadcastStep ==
  ASSUME ControlInv
  PROVE  /\ Broadcast(pc) = [t \in Threads |-> Broadcast(pc)[t]]
         /\ \A t \in Threads :
              Broadcast(pc)[t] = IF pc[t] = Waiting THEN Signalled ELSE pc[t]
  BY DEF ControlInv, Broadcast

\* The lemma GroupFrame of ReadersWritersProofs for the threads of Task4.
LEMMA GroupStays ==
  ASSUME Task1!GroupInv, UNCHANGED <<readers_count, reader_mutex>>,
         \A r \in Readers : pc'[r] = pc[r] \/ {pc[r], pc'[r]} \cap ReaderLabels = {},
         writer_mutex' = writer_mutex \/ {writer_mutex, writer_mutex'} \cap Readers = {}
  PROVE  Task1!GroupInv'
  <1>1. \A r \in Readers : pc'[r] = pc[r] \/ {pc[r], pc'[r]} \cap Task1!ReaderLabels = {}
    BY DEF ReaderLabels, Task1!ReaderLabels
  <1>. QED BY <1>1, Assumed, Task1!GroupFrame

\* The readers have writer_mutex while one of them reads or leaves.
LEMMA HeldForAll == Task1!GroupInv => HeldForReaders
  BY DEF Task1!GroupInv, Task1!HeldForReaders, HeldForReaders

-----------------------------------------------------------------------------
\* A step of a reader: whoever has writer_mutex among the others keeps it.
LEMMA ReaderStep ==
  ASSUME IInv, NEW r \in Readers, ReadObject(r)
  PROVE  IInv'
  <1>. USE DEF Unborn, Start, Done, Waiting, Signalled
  <1>. r \in Threads /\ r \notin Writers
    BY Owners
  <1>1. Task1!Read(r) /\ Task1!ControlInv
    BY DEF IInv, ControlInv, Threads, ReadObject, Read, Register, Enter, Unregister, Leave,
       Acquire, Release, Goto, Return, LoopHead,
       Task1!Read, Task1!Register, Task1!Enter, Task1!Unregister, Task1!Leave,
       Task1!Acquire, Task1!Release, Task1!Goto, Task1!Return, Task1!LoopHead,
       Task1!Start, Task1!Done, Task1!ControlInv, Task1!Threads
  <1>2. Task1!GroupInv'
    BY <1>1, Assumed, Task1!ReadStep DEF IInv
  <1>3. /\ ControlInv' /\ main' = main
        /\ pc[r] # Done /\ pc'[r] \in ReaderLabels \cup {Start, Done}
        /\ \A t \in Threads \ {r} : pc'[t] = pc[t]
    <2>1. CASE Leave(r)
      BY <2>1, ReturnStep DEF Leave, IInv
    <2>2. CASE Register(r) \/ Enter(r) \/ Unregister(r)
      BY <2>2, GotoStep DEF Register, Enter, Unregister, IInv, ReaderLabels
    <2>. QED BY <2>1, <2>2 DEF ReadObject, Read
  <1>4. \/ writer_mutex' = writer_mutex
        \/ {writer_mutex, writer_mutex'} \subseteq Readers \cup {Nobody}
    BY HeldForAll
       DEF ReadObject, Read, Register, Enter, Unregister, Leave, Acquire, Release, IInv,
           HeldForReaders
  <1>5. UNCHANGED <<round, critic, saves>>
    BY DEF ReadObject
  <1>6. Placed' /\ Owned'
    BY <1>3, <1>4, <1>5, Owners DEF IInv, RoundInv, Placed, Owned
  <1>7. Recorded' /\ Found' /\ NoLostWakeup' /\ EveryRoundSaved'
    BY <1>3, <1>5, Owners DEF IInv, RoundInv, round, Recorded, Found, NoLostWakeup,
       EveryRoundSaved, RoundOver
  <1>. QED BY <1>2, <1>3, <1>5, <1>6, <1>7 DEF IInv, RoundInv, round

\* A writer takes writer_mutex, in its call or in pthread_cond_wait.
LEMMA LockStep ==
  ASSUME IInv, NEW w \in Writers, LockWrite(w) \/ Wake(w), UNCHANGED saves
  PROVE  IInv'
  <1>. USE DEF Unborn, Start, Done, Waiting, Signalled
  <1>. w \in Threads /\ w \notin Readers
    BY Owners
  <1>1. /\ ControlInv' /\ main' = main /\ pc[w] \in {Start, Signalled} /\ pc'[w] = "test"
        /\ \A t \in Threads \ {w} : pc'[t] = pc[t]
        /\ writer_mutex = Nobody /\ writer_mutex' = w
        /\ UNCHANGED <<readers_count, reader_mutex, round, critic, saves>>
    BY GotoStep DEF LockWrite, Wake, Acquire, IInv
  <1>2. Task1!GroupInv'
    BY <1>1, GroupStays, Owners DEF IInv
  <1>3. Placed' /\ Owned'
    BY <1>1, Owners DEF IInv, RoundInv, Placed, Owned, WriterLabels, CriticLabels
  <1>4. Recorded' /\ Found' /\ NoLostWakeup' /\ EveryRoundSaved'
    BY <1>1, Owners DEF IInv, RoundInv, round, Recorded, Found, NoLostWakeup,
       EveryRoundSaved, RoundOver
  <1>. QED BY <1>1, <1>2, <1>3, <1>4 DEF IInv, RoundInv, round

\* A writer that finds the round over waits, and leaves writer_mutex.
LEMMA TestStep ==
  ASSUME IInv, NEW w \in Writers, TestWrite(w), UNCHANGED saves
  PROVE  IInv'
  <1>. USE DEF Unborn, Start, Done, Waiting, Signalled
  <1>. w \in Threads /\ w \notin Readers
    BY Owners
  <1>1. /\ ControlInv' /\ main' = main /\ pc[w] = "test"
        /\ \A t \in Threads \ {w} : pc'[t] = pc[t]
        /\ \/ RoundOver /\ pc'[w] = Waiting /\ writer_mutex' = Nobody
           \/ ~RoundOver /\ pc'[w] = "body" /\ writer_mutex' = writer_mutex
        /\ UNCHANGED <<readers_count, reader_mutex, round, critic, saves>>
    BY GotoStep DEF TestWrite, Release, IInv
  <1>2. writer_mutex = w
    BY <1>1 DEF IInv, RoundInv, Owned, WriterLabels
  <1>3. Task1!GroupInv'
    BY <1>1, <1>2, GroupStays, Owners DEF IInv
  <1>4. Placed' /\ Owned'
    BY <1>1, <1>2, Owners DEF IInv, RoundInv, Placed, Owned, WriterLabels, CriticLabels
  <1>5. Recorded' /\ Found' /\ NoLostWakeup' /\ EveryRoundSaved'
    BY <1>1, Owners DEF IInv, RoundInv, round, Recorded, Found, NoLostWakeup,
       EveryRoundSaved, RoundOver
  <1>. QED BY <1>1, <1>3, <1>4, <1>5 DEF IInv, RoundInv, round

\* A writer counts itself once in a round.
LEMMA CountStep ==
  ASSUME Recorded, NEW w \in Writers,
         writers_record' = writers_record \cup {w}, writers_count' = CountWith(w)
  PROVE  Recorded'
  <1>1. IsFiniteSet(writers_record)
    BY CriticAssumption, FS_Subset DEF Recorded
  <1>. QED BY <1>1, FS_AddElement DEF Recorded, CountWith

\* The writer that ends the round wakes the others and the critic; those that
\* are woken find nobody else at the object.
LEMMA RecordStep ==
  ASSUME IInv, NEW w \in Writers, Record(w), UNCHANGED saves
  PROVE  IInv'
  <1>. USE DEF Unborn, Start, Done, Waiting, Signalled
  <1>. w \in Threads /\ w \notin Readers
    BY Owners
  <1>1. /\ pc[w] = "body" /\ ~RoundOver /\ writer_mutex = w
        /\ critic \notin CriticLabels \cup {Done}
    BY Owners DEF Record, IInv, RoundInv, Found, Owned, WriterLabels
  <1>2. /\ ControlInv' /\ main' = main /\ pc'[w] = "store"
        /\ \A t \in Threads \ {w} :
             pc'[t] = IF CountWith(w) = NumWriters /\ pc[t] = Waiting THEN Signalled ELSE pc[t]
    <2>1. CASE CountWith(w) = NumWriters
      <3>1. /\ pc' = [Broadcast(pc) EXCEPT ![w] = "store"] /\ UNCHANGED <<runs, main>>
        BY <2>1 DEF Record
      <3>. QED BY <1>1, <2>1, <3>1, BroadcastStep DEF IInv, ControlInv
    <2>2. CASE CountWith(w) # NumWriters
      BY <1>1, <2>2, GotoStep DEF Record, IInv
    <2>. QED BY <2>1, <2>2
  <1>3. critic' = IF CountWith(w) = NumWriters /\ critic = Waiting THEN Signalled ELSE critic
    BY DEF Record
  <1>4. Task1!GroupInv'
    BY <1>2, GroupStays, Owners DEF Record, IInv, RoundInv, Placed, ReaderLabels, group
  <1>5. Placed' /\ Owned'
    <2>1. writer_mutex' = writer_mutex
      BY DEF Record, group
    <2>2. main' # "joined"
      BY <1>1, <1>2 DEF IInv, RoundInv, Placed
    <2>. QED
      BY <1>1, <1>2, <1>3, <2>1, <2>2, Owners
         DEF IInv, RoundInv, Placed, Owned, ReaderLabels, WriterLabels, CriticLabels
  <1>6. RoundOver' <=> CountWith(w) = NumWriters
    BY DEF Record, RoundOver
  <1>7. IF CountWith(w) = NumWriters THEN rounds' = rounds + 1 /\ closer' = w
                                     ELSE UNCHANGED <<rounds, closer>>
    BY <1>1 DEF Record, Note
  <1>8. Recorded'
    BY CountStep DEF Record, IInv, RoundInv
  <1>9. Found'
    <2>1. \A v \in Writers \ {w} : pc[v] \notin WriterLabels
      BY <1>1 DEF IInv, RoundInv, Owned
    <2>. QED
      BY <1>1, <1>2, <1>3, <1>6, <1>7, <2>1, Owners DEF Found, WriterLabels, CriticLabels
  <1>10. NoLostWakeup'
    BY <1>1, <1>2, <1>3, <1>6, Owners DEF IInv, RoundInv, NoLostWakeup, CriticLabels
  <1>11. EveryRoundSaved'
    BY <1>1, <1>3, <1>6, <1>7 DEF IInv, RoundInv, EveryRoundSaved, CriticLabels
  <1>12. rounds' \in Nat
    BY <1>7 DEF IInv, RoundInv
  <1>. QED BY <1>2, <1>4, <1>5, <1>8, <1>9, <1>10, <1>11, <1>12 DEF IInv, RoundInv

\* A writer stores and unlocks.
LEMMA StoreStep ==
  ASSUME IInv, NEW w \in Writers, Store(w) \/ UnlockWrite(w), UNCHANGED saves
  PROVE  IInv'
  <1>. USE DEF Unborn, Start, Done, Waiting, Signalled
  <1>. w \in Threads /\ w \notin Readers
    BY Owners
  <1>1. /\ ControlInv' /\ main' = main /\ pc[w] \in WriterLabels
        /\ \A t \in Threads \ {w} : pc'[t] = pc[t]
        /\ \/ pc'[w] = "wrote" /\ writer_mutex' = writer_mutex
           \/ pc'[w] \in {Start, Done} /\ writer_mutex' = Nobody
        /\ UNCHANGED <<readers_count, reader_mutex, round, critic, saves>>
    BY GotoStep, ReturnStep DEF Store, UnlockWrite, Release, IInv, WriterLabels, group
  <1>2. writer_mutex = w
    BY <1>1 DEF IInv, RoundInv, Owned, WriterLabels
  <1>3. Task1!GroupInv'
    BY <1>1, <1>2, GroupStays, Owners DEF IInv
  <1>4. Placed' /\ Owned'
    BY <1>1, <1>2, Owners DEF IInv, RoundInv, Placed, Owned, WriterLabels, CriticLabels
  <1>5. Recorded' /\ Found' /\ NoLostWakeup' /\ EveryRoundSaved'
    BY <1>1, Owners DEF IInv, RoundInv, round, Recorded, Found, NoLostWakeup,
       EveryRoundSaved, RoundOver
  <1>. QED BY <1>1, <1>3, <1>4, <1>5 DEF IInv, RoundInv, round

-----------------------------------------------------------------------------
\* The critic takes writer_mutex, tests the round, waits or clears the record.
LEMMA CriticStep ==
  ASSUME IInv, LockCritic \/ TestCritic \/ Clear
  PROVE  IInv'
  <1>. USE DEF Unborn, Start, Done, Waiting, Signalled
  <1>1. UNCHANGED <<readers_count, reader_mutex, control, rounds, closer, saves>>
    BY DEF LockCritic, TestCritic, Clear, round, group
  <1>2. ControlInv'
    BY <1>1 DEF control, IInv, ControlInv
  <1>3. CASE LockCritic
    <2>1. /\ writer_mutex = Nobody /\ writer_mutex' = Critic /\ critic' = "test"
          /\ critic \in {Start, Signalled} /\ UNCHANGED <<writers_count, writers_record>>
      BY <1>3 DEF LockCritic, Acquire, round
    <2>. QED
      BY <1>1, <1>2, <2>1, GroupStays, Owners
         DEF control, IInv, RoundInv, Placed, Owned, Recorded, Found, NoLostWakeup,
             EveryRoundSaved, RoundOver, WriterLabels, CriticLabels
  <1>4. CASE TestCritic
    <2>1. /\ critic = "test" /\ writer_mutex = Critic
          /\ \/ RoundOver /\ critic' = "body" /\ writer_mutex' = Critic
             \/ ~RoundOver /\ critic' = Waiting /\ writer_mutex' = Nobody
          /\ UNCHANGED <<writers_count, writers_record>>
      BY <1>4 DEF TestCritic, Release, round, IInv, RoundInv, Owned, CriticLabels
    <2>. QED
      BY <1>1, <1>2, <2>1, GroupStays, Owners
         DEF control, IInv, RoundInv, Placed, Owned, Recorded, Found, NoLostWakeup,
             EveryRoundSaved, RoundOver, WriterLabels, CriticLabels
  <1>5. CASE Clear
    <2>1. /\ critic = "body" /\ critic' = "saving" /\ RoundOver /\ writer_mutex = Critic
          /\ writer_mutex' = Critic /\ writers_count' = 0 /\ writers_record' = {}
      BY <1>5 DEF Clear, group, IInv, RoundInv, Owned, Found, CriticLabels
    <2>2. \A w \in Writers : pc[w] \notin WriterLabels
      BY <2>1, Owners DEF IInv, RoundInv, Owned
    <2>3. Recorded'
      BY <2>1, FS_EmptySet DEF Recorded
    <2>4. Found'
      BY <1>1, <2>1, <2>2 DEF Found, control, WriterLabels
    <2>5. Placed' /\ Owned' /\ NoLostWakeup' /\ EveryRoundSaved'
      BY <1>1, <2>1, Owners
         DEF control, IInv, RoundInv, Placed, Owned, NoLostWakeup, EveryRoundSaved, CriticLabels
    <2>. QED
      BY <1>1, <1>2, <2>1, <2>3, <2>4, <2>5, GroupStays DEF control, IInv, RoundInv
  <1>. QED BY <1>3, <1>4, <1>5

\* The critic saves the round and wakes the writers.
LEMMA SaveStep ==
  ASSUME IInv, Save
  PROVE  IInv'
  <1>. USE DEF Unborn, Start, Done, Waiting, Signalled
  <1>1. /\ critic = "saving" /\ critic' = Start /\ saves' = saves + 1
        /\ writer_mutex = Critic /\ writer_mutex' = Nobody
        /\ UNCHANGED <<readers_count, reader_mutex, writers_count, writers_record, rounds, closer>>
    BY DEF Save, Release, round, IInv, RoundInv, Owned, CriticLabels
  <1>2. /\ ControlInv' /\ main' = main
        /\ \A t \in Threads : pc'[t] = IF pc[t] = Waiting THEN Signalled ELSE pc[t]
    BY BroadcastStep DEF Save, IInv, ControlInv
  <1>3. ~RoundOver /\ ~RoundOver'
    BY <1>1, SomeWriters DEF IInv, RoundInv, Found, RoundOver
  <1>4. Task1!GroupInv'
    BY <1>1, <1>2, GroupStays, Owners DEF IInv, RoundInv, Placed, ReaderLabels
  <1>5. Placed' /\ Owned'
    BY <1>1, <1>2, Owners
       DEF IInv, RoundInv, Placed, Owned, ReaderLabels, WriterLabels, CriticLabels
  <1>6. Recorded' /\ Found'
    BY <1>1, <1>2, <1>3, Owners DEF IInv, RoundInv, Recorded, Found
  <1>7. NoLostWakeup' /\ EveryRoundSaved'
    BY <1>1, <1>2, <1>3, Owners DEF IInv, RoundInv, NoLostWakeup, EveryRoundSaved
  <1>. QED BY <1>1, <1>2, <1>4, <1>5, <1>6, <1>7 DEF IInv, RoundInv

\* The cancelled critic saves a round that is over, or has printed or not.
LEMMA CancelStep ==
  ASSUME IInv, CancelledWaiting \/ CancelledSaving
  PROVE  IInv'
  <1>. USE DEF Unborn, Start, Done, Waiting, Signalled
  <1>1. /\ UNCHANGED <<readers_count, reader_mutex, control, round>>
        /\ main = "joined" /\ critic' = Done /\ writer_mutex' = Critic
        /\ writer_mutex \in {Nobody, Critic}
    BY DEF CancelledWaiting, CancelledSaving, Acquire, group, IInv, RoundInv, Owned, CriticLabels
  <1>2. ControlInv' /\ Task1!GroupInv'
    BY <1>1, GroupStays, Owners DEF control, IInv, ControlInv
  <1>3. Placed' /\ Owned'
    BY <1>1, Owners DEF control, IInv, RoundInv, Placed, Owned, WriterLabels, CriticLabels
  <1>4. Recorded' /\ Found'
    BY <1>1 DEF control, round, IInv, RoundInv, Recorded, Found, RoundOver
  <1>5. NoLostWakeup'
    BY <1>1, Owners DEF control, round, IInv, RoundInv, Placed, NoLostWakeup
  <1>6. EveryRoundSaved' /\ saves' \in Nat
    <2>1. CASE CancelledWaiting
      BY <1>1, <2>1, SomeWriters
         DEF CancelledWaiting, round, IInv, RoundInv, EveryRoundSaved, RoundOver
    <2>2. CASE CancelledSaving
      <3>1. critic = "saving" /\ (saves' = saves \/ saves' = saves + 1) /\ rounds' = rounds
        BY <2>2 DEF CancelledSaving, round
      <3>2. rounds - saves = 1 /\ rounds \in Nat /\ saves \in Nat
        BY <3>1 DEF IInv, RoundInv, EveryRoundSaved
      <3>3. writers_count' = 0
        BY <1>1, <3>1 DEF round, IInv, RoundInv, Found
      <3>4. saves' \in Nat /\ (rounds' - saves' = 0 \/ rounds' - saves' = 1)
        BY <3>1, <3>2
      <3>. QED BY <1>1, <3>3, <3>4 DEF EveryRoundSaved
    <2>. QED BY <2>1, <2>2
  <1>. QED
    BY <1>1, <1>2, <1>3, <1>4, <1>5, <1>6 DEF round, IInv, RoundInv

\* main creates, joins and frees; it touches no mutex and no round.
LEMMA MainStep ==
  ASSUME IInv, Main
  PROVE  IInv'
  <1>. USE DEF Unborn, Start, Done, Waiting, Signalled
  <1>1. UNCHANGED <<group, round, saves>>
    BY DEF Main, CreateThread, CreateCritic, Free
  <1>2. /\ ControlInv'
        /\ \A t \in Threads : pc'[t] = pc[t] \/ (pc[t] = Unborn /\ pc'[t] = Start)
        /\ main' = "joined" => \A t \in Threads : pc'[t] = Done
    BY DEF Main, CreateThread, CreateCritic, Free, Create, Created, Join, Goto, control,
           IInv, ControlInv, RoundInv, Placed
  <1>3. critic' = critic \/ (critic = Unborn /\ critic' = Start)
    BY DEF Main, CreateThread, CreateCritic, Free
  <1>4. Task1!GroupInv'
    BY <1>1, <1>2, GroupStays, Owners DEF group, IInv, ReaderLabels
  <1>5. Placed' /\ Owned'
    BY <1>1, <1>2, <1>3, Owners
       DEF group, IInv, RoundInv, Placed, Owned, WriterLabels, CriticLabels
  <1>6. Recorded' /\ Found' /\ NoLostWakeup' /\ EveryRoundSaved'
    BY <1>1, <1>2, <1>3, Owners
       DEF round, IInv, RoundInv, Recorded, Found, NoLostWakeup, EveryRoundSaved, RoundOver
  <1>. QED BY <1>1, <1>2, <1>4, <1>5, <1>6 DEF round, IInv, RoundInv

\* A thread that wakes by itself goes to its test.
LEMMA SpuriousStep ==
  ASSUME IInv, SpuriousWakeup
  PROVE  IInv'
  <1>. USE DEF Unborn, Start, Done, Waiting, Signalled
  <1>1. UNCHANGED <<group, round, saves>>
    BY DEF SpuriousWakeup
  <1>2. /\ ControlInv' /\ main' = main
        /\ \A t \in Threads : pc'[t] = pc[t] \/ (pc[t] = Waiting /\ pc'[t] = Signalled)
    BY GotoStep, Owners DEF SpuriousWakeup, control, IInv, ControlInv
  <1>3. critic' = critic \/ (critic = Waiting /\ critic' = Signalled)
    BY DEF SpuriousWakeup
  <1>4. Task1!GroupInv'
    BY <1>1, <1>2, GroupStays, Owners DEF group, IInv, ReaderLabels
  <1>5. Placed' /\ Owned'
    BY <1>1, <1>2, <1>3, Owners
       DEF group, IInv, RoundInv, Placed, Owned, ReaderLabels, WriterLabels, CriticLabels
  <1>6. Recorded' /\ Found' /\ NoLostWakeup' /\ EveryRoundSaved'
    BY <1>1, <1>2, <1>3, Owners
       DEF round, IInv, RoundInv, Recorded, Found, NoLostWakeup, EveryRoundSaved, RoundOver
  <1>. QED BY <1>1, <1>2, <1>4, <1>5, <1>6 DEF round, IInv, RoundInv

\* Every step keeps the invariant.
LEMMA StepIInv == IInv /\ [Next]_vars => IInv'
  <1>1. ASSUME IInv, UNCHANGED vars PROVE IInv'
    <2>1. UNCHANGED <<group, control, round, critic, saves>>
      BY <1>1 DEF vars
    <2>2. Task1!GroupInv'
      BY <1>1, <2>1, GroupStays DEF group, control, IInv
    <2>. QED
      BY <1>1, <2>1, <2>2
         DEF group, control, round, IInv, ControlInv, RoundInv, Placed, Owned, Recorded,
             Found, NoLostWakeup, EveryRoundSaved, RoundOver
  <1>2. ASSUME IInv, NEW w \in Writers, Write(w) PROVE IInv'
    BY <1>2, LockStep, TestStep, RecordStep, StoreStep DEF Write
  <1>3. ASSUME IInv, CriticRound PROVE IInv'
    BY <1>3, CriticStep, SaveStep DEF CriticRound
  <1>. QED
    BY <1>1, <1>2, <1>3, ReaderStep, CancelStep, MainStep, SpuriousStep DEF Next, Step

\* The inductive invariant holds in every reachable state.
THEOREM Invariance == Spec => []IInv
  BY InitIInv, StepIInv, PTL DEF Spec

\* A writer waits only while the round is over and not saved, the critic only
\* while it is not over.
THEOREM WakeupsKept == Spec => []NoLostWakeup
  <1>1. IInv => NoLostWakeup  BY DEF IInv, RoundInv
  <1>. QED BY Invariance, <1>1, PTL

\* No round is saved twice, and only a critic cancelled in its printf may lose
\* the last one.
THEOREM RoundsSaved == Spec => []EveryRoundSaved
  <1>1. IInv => EveryRoundSaved  BY DEF IInv, RoundInv
  <1>. QED BY Invariance, <1>1, PTL

\* From the end of a round to its saving nobody stores but the writer that has
\* ended it.
THEOREM Frozen == Spec => RoundFrozen
  <1>1. IInv /\ [Next]_vars
          => [data' # data => critic # "saving" /\ (RoundOver => pc[closer] = "store")]_vars
    <2>. SUFFICES ASSUME IInv, Next, data' # data
                  PROVE  critic # "saving" /\ (RoundOver => pc[closer] = "store")
      OBVIOUS
    <2>1. PICK w \in Writers : Store(w)
      BY DEF Next, Step, ReadObject, Write, LockWrite, TestWrite, Wake, Record, UnlockWrite,
         CriticRound, LockCritic, TestCritic, Clear, Save, CancelledWaiting, CancelledSaving,
         Main, CreateThread, CreateCritic, Free, SpuriousWakeup
    <2>2. critic # "saving"
      BY <2>1, Owners DEF Store, IInv, RoundInv, Owned, WriterLabels, CriticLabels
    <2>3. RoundOver => pc[closer] = "store"
      BY <2>1 DEF Store, IInv, RoundInv, Found
    <2>. QED BY <2>2, <2>3
  <1>. QED BY <1>1, Invariance, PTL DEF Spec, RoundFrozen

-----------------------------------------------------------------------------
\* Whoever has writer_mutex has the object to itself.
LEMMA Exclusion ==
  ASSUME IInv
  PROVE  /\ writer_mutex \notin Writers => Writing = {}
         /\ writer_mutex \notin Readers => Reading = {}
         /\ \A w \in Writing : Writing = {w} /\ Reading = {}
  BY HeldForAll, Owners
     DEF IInv, RoundInv, Owned, WriterLabels, HeldForReaders, Reading, Writing

\* The steps of everybody but the readers and the writers leave the object
\* alone, and so do those of a waiting writer.
LEMMA QuietRefines ==
  ASSUME data' = data,
         \A r \in Readers : (pc'[r] = "reading") <=> (pc[r] = "reading"),
         \A w \in Writers : pc'[w] = pc[w] \/
                            {pc[w], pc'[w]} \cap {"body", "store", "wrote"} = {}
  PROVE  UNCHANGED <<data, Reading, Writing>>
  BY DEF Reading, Writing

\* A reader's steps begin a read, end one, or leave the object alone.
LEMMA ReaderRefines ==
  ASSUME IInv, IInv', NEW r \in Readers, ReadObject(r)
  PROVE  Object!Next \/ UNCHANGED <<data, Reading, Writing>>
  <1>. USE DEF Unborn, Start, Done, Waiting, Signalled
  <1>1. /\ r \in Threads /\ r \notin Writers /\ data' = data
        /\ \A t \in Threads \ {r} : pc'[t] = pc[t]
    BY Owners, GotoStep, ReturnStep DEF ReadObject, Read, Register, Enter, Unregister, Leave, IInv
  <1>2. Writing' = Writing
    BY <1>1, Owners DEF Writing
  <1>3. CASE Register(r) \/ Leave(r)
    <2>1. pc[r] # "reading" /\ pc'[r] # "reading"
      BY <1>1, <1>3, GotoStep, ReturnStep DEF Register, Leave, IInv
    <2>. QED BY <1>1, <2>1, QuietRefines, Owners
  <1>4. CASE Enter(r)
    <2>1. pc[r] = "entering" /\ pc'[r] = "reading"
      BY <1>1, <1>4, GotoStep DEF Enter, IInv
    <2>2. r \notin Reading /\ Reading' = Reading \cup {r}
      BY <1>1, <2>1, Owners DEF Reading
    <2>3. Writing' = {}
      <3>1. HeldForReaders'
        BY DEF IInv, Task1!GroupInv, Task1!HeldForReaders, HeldForReaders
      <3>2. writer_mutex' \in Readers
        BY <2>1, <3>1 DEF HeldForReaders
      <3>. QED BY <3>2, Owners DEF IInv, RoundInv, Owned, WriterLabels, Writing
    <2>. QED BY <1>1, <1>2, <2>2, <2>3 DEF Object!Next, Object!BeginRead
  <1>5. CASE Unregister(r)
    <2>1. pc[r] = "reading" /\ pc'[r] = "leaving"
      BY <1>1, <1>5, GotoStep DEF Unregister, IInv
    <2>2. r \in Reading /\ Reading' = Reading \ {r}
      BY <1>1, <2>1, Owners DEF Reading
    <2>. QED BY <1>1, <1>2, <2>2 DEF Object!Next, Object!EndRead
  <1>. QED BY <1>3, <1>4, <1>5 DEF ReadObject, Read

\* A writer begins to write when it has found the round open, stores and ends;
\* that it waits or wakes others is not seen.
LEMMA WriterRefines ==
  ASSUME IInv, IInv', NEW w \in Writers, Write(w)
  PROVE  Object!Next \/ UNCHANGED <<data, Reading, Writing>>
  <1>. USE DEF Unborn, Start, Done, Waiting, Signalled
  <1>. w \in Threads /\ w \notin Readers
    BY Owners
  <1>1. CASE LockWrite(w) \/ Wake(w)
    <2>1. /\ pc[w] \in {Start, Signalled} /\ pc'[w] = "test" /\ data' = data
          /\ \A t \in Threads \ {w} : pc'[t] = pc[t]
      BY <1>1, GotoStep DEF LockWrite, Wake, IInv
    <2>. QED BY <2>1, QuietRefines, Owners
  <1>2. CASE TestWrite(w)
    <2>1. /\ pc[w] = "test" /\ writer_mutex = w /\ pc'[w] \in {Waiting, "body"} /\ data' = data
          /\ \A t \in Threads \ {w} : pc'[t] = pc[t]
      BY <1>2, GotoStep DEF TestWrite, IInv, RoundInv, Owned, WriterLabels
    <2>2. CASE pc'[w] = Waiting
      BY <2>1, <2>2, QuietRefines, Owners
    <2>3. CASE pc'[w] = "body"
      <3>1. \A v \in Writers \ {w} : pc[v] \notin WriterLabels
        BY <2>1 DEF IInv, RoundInv, Owned
      <3>2. Writing = {} /\ Writing' = {w}
        BY <2>1, <2>3, <3>1, Owners DEF Writing, WriterLabels
      <3>3. Reading = {} /\ Reading' = {}
        BY <2>1, Exclusion, Owners DEF Reading
      <3>. QED BY <2>1, <3>2, <3>3 DEF Object!Next, Object!BeginWrite
    <2>. QED BY <2>1, <2>2, <2>3
  <1>3. CASE Record(w)
    <2>1. /\ pc[w] = "body" /\ pc'[w] = "store" /\ data' = data
          /\ \A t \in Threads \ {w} : pc'[t] = pc[t] \/ (pc[t] = Waiting /\ pc'[t] = Signalled)
      BY <1>3, GotoStep, BroadcastStep DEF Record, IInv, ControlInv
    <2>2. Writing' = Writing
      BY <2>1, Owners DEF Writing
    <2>3. Reading' = Reading
      BY <2>1, Owners DEF Reading
    <2>. QED BY <2>1, <2>2, <2>3
  <1>4. CASE Store(w)
    <2>1. /\ pc[w] = "store" /\ pc'[w] = "wrote" /\ data' \in Values
          /\ \A t \in Threads \ {w} : pc'[t] = pc[t]
      BY <1>4, GotoStep DEF Store, IInv
    <2>2. w \in Writing
      BY <2>1 DEF Writing
    <2>3. Writing = {w} /\ Writing' = Writing /\ Reading' = Reading
      <3>1. Writing = {w}
        BY <2>2, Exclusion
      <3>. QED BY <2>1, <3>1, Owners DEF Writing, Reading
    <2>. QED BY <2>1, <2>3 DEF Object!Next, Object!Store
  <1>5. CASE UnlockWrite(w)
    <2>1. /\ pc[w] = "wrote" /\ pc'[w] \in {Start, Done} /\ data' = data
          /\ \A t \in Threads \ {w} : pc'[t] = pc[t]
      BY <1>5, ReturnStep DEF UnlockWrite, IInv
    <2>2. w \in Writing
      BY <2>1 DEF Writing
    <2>3. Writing = {w}
      BY <2>2, Exclusion
    <2>4. Writing' = {} /\ Reading' = Reading
      BY <2>1, <2>3, Owners DEF Writing, Reading
    <2>. QED BY <2>1, <2>3, <2>4 DEF Object!Next, Object!EndWrite
  <1>. QED BY <1>1, <1>2, <1>3, <1>4, <1>5 DEF Write

\* Task4 implements the shared object, whatever the critic does and whenever it
\* is cancelled.
THEOREM Refinement == Spec => ImplementsObject
  <1>1. Init => Object!Init
    BY Owners DEF Init, InitControl, Object!Init, Reading, Writing, Unborn
  <1>2. IInv /\ IInv' /\ [Next]_vars => [Object!Next]_<<data, Reading, Writing>>
    <2>. SUFFICES ASSUME IInv, IInv', [Next]_vars
                  PROVE  Object!Next \/ UNCHANGED <<data, Reading, Writing>>
      OBVIOUS
    <2>. USE DEF Unborn, Start, Done, Waiting, Signalled
    <2>1. ASSUME data' = data, \A t \in Threads : \/ pc'[t] = pc[t]
                                                  \/ pc[t] = Unborn /\ pc'[t] = Start
                                                  \/ pc[t] = Waiting /\ pc'[t] = Signalled
          PROVE  UNCHANGED <<data, Reading, Writing>>
      BY <2>1, QuietRefines, Owners
    <2>2. CASE Main
      BY <2>1, <2>2 DEF Main, CreateThread, CreateCritic, Free, Create, Created, Join, Goto,
         control, IInv, ControlInv
    <2>3. CASE SpuriousWakeup
      BY <2>1, <2>3, Owners DEF SpuriousWakeup, Goto, control, IInv, ControlInv
    <2>4. CASE CriticRound \/ CancelledWaiting \/ CancelledSaving
      <3>1. CASE Save
        BY <2>1, <3>1, BroadcastStep DEF Save, IInv
      <3>2. CASE ~Save
        BY <2>1, <2>4, <3>2 DEF CriticRound, LockCritic, TestCritic, Clear, CancelledWaiting,
           CancelledSaving, control
      <3>. QED BY <3>1, <3>2
    <2>5. CASE UNCHANGED vars
      BY <2>1, <2>5 DEF vars, control
    <2>. QED
      BY <2>2, <2>3, <2>4, <2>5, ReaderRefines, WriterRefines DEF Next, Step
  <1>. QED
    BY <1>1, <1>2, Invariance, PTL DEF Spec, ImplementsObject, Object!Spec, Object!vars
=============================================================================
