---------------------------- MODULE CriticObject ----------------------------
(***************************************************************************)
(* Classes1/Task4.c: readers, writers and one critic.  A round is over     *)
(* when every writer has written at least once; the writers then wait for  *)
(* the critic to save the value and to open the next round.  Writers and   *)
(* critic wait on one condition variable, critic_cond.  main cancels the   *)
(* critic when all others have returned.                                   *)
(*                                                                         *)
(* A cancelled thread ends where it waits on critic_cond, or in printf;    *)
(* the cleanup handler then saves a round nobody has saved.                *)
(***************************************************************************)
EXTENDS ReaderGroup

CONSTANTS Values,        \* what rand() may return
          Initial,       \* initial_data
          Critic,        \* the critic as owner of a mutex
          MaxSpurious    \* bound on spurious wakeups

ASSUME CriticAssumption == /\ Critic \notin Threads \cup {Nobody}
                           /\ IsFiniteSet(Writers) /\ Writers # {}

VARIABLES data, writers_count,
          writers_record,          \* the writers whose flag is set
          critic,                  \* where the critic is
          freed,                   \* main has called deallocate_object
          spurious,                \* spurious wakeups so far
          rounds, saves,           \* history: rounds completed, values saved
          closer                   \* history: the writer that completed the round

round == <<writers_count, writers_record, rounds, closer>>
vars == <<data, group, control, round, critic, freed, spurious, saves>>

\* num_writers
NumWriters == Cardinality(Writers)

RoundOver == writers_count = NumWriters

\* allocate_object
Init == /\ data = Initial /\ writers_count = 0 /\ writers_record = {}
        /\ InitGroup /\ InitControl
        /\ critic = Unborn /\ freed = FALSE
        /\ spurious = 0 /\ rounds = 0 /\ saves = 0 /\ closer = Nobody

-----------------------------------------------------------------------------
\* read_from_object
ReadObject(r) == Read(r) /\ UNCHANGED <<data, round, critic, freed, spurious, saves>>

LockWrite(w) == /\ pc[w] = Start
                /\ Acquire(writer_mutex, w)
                /\ Goto(w, "test")
                /\ UNCHANGED <<data, readers_count, reader_mutex, round, critic>>

Wake(w) == /\ pc[w] = Signalled
           /\ Acquire(writer_mutex, w)
           /\ Goto(w, "test")
           /\ UNCHANGED <<data, readers_count, reader_mutex, round, critic>>

\* The while loop of write_to_object.
TestWrite(w) == /\ pc[w] = "test"
                /\ IF RoundOver
                   THEN Release(writer_mutex) /\ Goto(w, Waiting)
                   ELSE UNCHANGED writer_mutex /\ Goto(w, "body")
                /\ UNCHANGED <<data, readers_count, reader_mutex, round, critic>>

\* The writer is recorded, once in a round; the one that completes the round
\* broadcasts.
CountWith(w) == IF w \in writers_record THEN writers_count ELSE writers_count + 1

\* For the history: this call is the one that ends the round.
Note(w) == IF ~RoundOver /\ CountWith(w) = NumWriters
           THEN rounds' = rounds + 1 /\ closer' = w
           ELSE UNCHANGED <<rounds, closer>>

RecordQuiet(w) == /\ pc[w] = "body"                 \* mutant: no broadcast
                  /\ writers_count' = CountWith(w)
                  /\ writers_record' = writers_record \cup {w}
                  /\ Goto(w, "store") /\ Note(w)
                  /\ UNCHANGED <<data, group, critic>>

Record(w) ==
  /\ pc[w] = "body"
  /\ writers_count' = CountWith(w)
  /\ writers_record' = writers_record \cup {w}
  /\ IF CountWith(w) = NumWriters
     THEN /\ pc' = [Broadcast(pc) EXCEPT ![w] = "store"] /\ UNCHANGED <<runs, main>>
          /\ critic' = IF critic = Waiting THEN Signalled ELSE critic
     ELSE Goto(w, "store") /\ UNCHANGED critic
  /\ Note(w)
  /\ UNCHANGED <<data, group>>

\* data = rand()
Store(w) == /\ pc[w] = "store"
            /\ data' \in Values
            /\ Goto(w, "wrote")
            /\ UNCHANGED <<group, round, critic>>

UnlockWrite(w) == /\ pc[w] = "wrote"
                  /\ Release(writer_mutex)
                  /\ Return(w, pc)
                  /\ UNCHANGED <<data, readers_count, reader_mutex, round, critic>>

\* write_to_object
Write(w) == /\ \/ LockWrite(w) \/ TestWrite(w) \/ Wake(w) \/ Record(w) \/ Store(w) \/ UnlockWrite(w)
            /\ UNCHANGED <<freed, spurious, saves>>

-----------------------------------------------------------------------------
\* critic_round
LockCritic == /\ critic \in {Start, Signalled}
              /\ Acquire(writer_mutex, Critic)
              /\ critic' = "test"
              /\ UNCHANGED <<data, readers_count, reader_mutex, round, control, saves>>

TestCritic == /\ critic = "test"
              /\ IF RoundOver
                 THEN critic' = "body" /\ UNCHANGED writer_mutex
                 ELSE critic' = Waiting /\ Release(writer_mutex)
              /\ UNCHANGED <<data, readers_count, reader_mutex, round, control, saves>>

ClearUnlocked == /\ critic = "body"                  \* mutant: unlocks too early
                 /\ writers_count' = 0 /\ writers_record' = {}
                 /\ critic' = "saving"
                 /\ Release(writer_mutex)
                 /\ UNCHANGED <<data, readers_count, reader_mutex, rounds, closer, control,
                                saves>>

\* The record is cleared before the value is saved.
Clear == /\ critic = "body"
         /\ writers_count' = 0 /\ writers_record' = {}
         /\ critic' = "saving"
         /\ UNCHANGED <<data, group, rounds, closer, control, saves>>

\* The value is printed, the writers are woken and the mutex is unlocked.
Save == /\ critic = "saving"
        /\ saves' = saves + 1
        /\ pc' = Broadcast(pc) /\ UNCHANGED <<runs, main>>
        /\ Release(writer_mutex)
        /\ critic' = Start
        /\ UNCHANGED <<data, readers_count, reader_mutex, round>>

CriticRound == /\ LockCritic \/ TestCritic \/ Clear \/ Save
               /\ UNCHANGED <<freed, spurious>>

\* The cancelled critic gets the mutex back from pthread_cond_wait, and
\* critic_clean_up saves the round if it is over.
CancelledUntested ==                            \* mutant: condition not tested
  /\ main = "joined" /\ critic \in {Waiting, Signalled}
  /\ Acquire(writer_mutex, Critic)
  /\ saves' = saves + 1
  /\ critic' = Done
  /\ UNCHANGED <<data, readers_count, reader_mutex, round, control, freed, spurious>>

CancelledWaiting ==
  /\ main = "joined" /\ critic \in {Waiting, Signalled}
  /\ Acquire(writer_mutex, Critic)
  /\ saves' = IF RoundOver THEN saves + 1 ELSE saves
  /\ critic' = Done
  /\ UNCHANGED <<data, readers_count, reader_mutex, round, control, freed, spurious>>

\* The critic may also be cancelled in printf, before or after it has printed:
\* the round is no longer recorded as over, so the cleanup does nothing.
CancelledSaving ==
  /\ main = "joined" /\ critic = "saving"
  /\ saves' \in {saves, saves + 1}
  /\ critic' = Done
  /\ UNCHANGED <<data, group, round, control, freed, spurious>>

-----------------------------------------------------------------------------
\* main: the writers are created first, then the readers, then the critic;
\* pthread_cancel takes effect once the others are joined.
CreateThread == /\ (\E t \in Threads : Create(t, Writers)) \/ Join(Threads)
                /\ UNCHANGED <<data, group, round, critic, freed, spurious, saves>>

CreateCritic == /\ critic = Unborn /\ Created
                /\ critic' = Start
                /\ UNCHANGED <<data, group, round, freed, spurious, saves>>

\* pthread_join(critic), then deallocate_object.
Free == /\ main = "joined" /\ critic = Done /\ ~freed
        /\ freed' = TRUE
        /\ UNCHANGED <<data, group, control, round, critic, spurious, saves>>

Main == CreateThread \/ CreateCritic \/ Free

\* pthread_cond_wait may return without a broadcast.
SpuriousWakeup ==
  /\ spurious < MaxSpurious
  /\ spurious' = spurious + 1
  /\ \/ /\ critic = Waiting /\ critic' = Signalled /\ UNCHANGED control
     \/ /\ \E w \in Writers : pc[w] = Waiting /\ Goto(w, Signalled)
        /\ UNCHANGED critic
  /\ UNCHANGED <<data, group, round, freed, saves>>

Step == \/ \E r \in Readers : ReadObject(r)
        \/ \E w \in Writers : Write(w)
        \/ CriticRound \/ CancelledWaiting \/ CancelledSaving
        \/ Main

Next == Step \/ SpuriousWakeup

Spec == Init /\ [][Next]_vars

\* Some thread that can run does run.  The critic loops for ever, but each of
\* its rounds uses up a broadcast, so nothing more is needed.
FairSpec == Spec /\ WF_vars(Step)

-----------------------------------------------------------------------------
\* The writers that may use data now.
Writing == {w \in Writers : pc[w] \in {"body", "store", "wrote"}}

Object == INSTANCE SharedObject WITH reading <- Reading, writing <- Writing

\* Readers share the object and a writer has it alone.
ImplementsObject == Object!Spec

\* No wakeup is lost although writers and critic share critic_cond: a writer
\* waits only while the round is over and not yet saved, the critic only
\* while it is not over.
NoLostWakeup ==
  /\ \A w \in Writers : pc[w] = Waiting => RoundOver \/ critic = "saving"
  /\ critic = Waiting => ~RoundOver

\* Every round is saved once, by the critic or by its cleanup handler.  Only a
\* critic cancelled in its printf may lose the last round; no round is ever
\* saved twice.
EveryRoundSaved ==
  rounds - saves \in IF critic = Done
                     THEN IF writers_count = 0 THEN {0, 1} ELSE {0}
                     ELSE IF RoundOver \/ critic = "saving" THEN {1} ELSE {0}

\* The value the critic saves is that of the writer that completed the round:
\* from then on nobody else stores, neither while the round is over nor after
\* the critic has cleared the record and before it has saved the value.
RoundFrozen ==
  [][data' # data => critic # "saving" /\ (RoundOver => pc[closer] = "store")]_vars

\* Every call of a reader and a writer returns and the critic is joined: no
\* writer waits for a round that the others, which may have finished their
\* runs, can no longer complete.
Termination == <>freed
=============================================================================
