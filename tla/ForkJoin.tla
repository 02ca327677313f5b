------------------------------ MODULE ForkJoin ------------------------------
(***************************************************************************)
(* The shape every program of Classes1 has: main creates one group of      *)
(* threads and then the other, joins them all and ends; a thread makes a   *)
(* fixed number of calls.  The programs extend this module and add the     *)
(* object their threads share.                                             *)
(***************************************************************************)
EXTENDS Integers, FiniteSets, Pthreads

CONSTANTS Readers, Writers,          \* the threads main creates
          ReaderRuns, WriterRuns     \* iterations of their for loops

Threads == Readers \cup Writers

ASSUME ThreadsAssumption ==
  /\ Readers \cap Writers = {}
  /\ Nobody \notin Threads
  /\ ReaderRuns \in Nat \ {0} /\ WriterRuns \in Nat \ {0}

VARIABLES pc,            \* where each thread is
          runs,          \* iterations each thread has left
          main           \* where main is

control == <<pc, runs, main>>

Runs(t) == IF t \in Readers THEN ReaderRuns ELSE WriterRuns

InitControl == /\ pc = [t \in Threads |-> Unborn]
               /\ runs = [t \in Threads |-> Runs(t)]
               /\ main = "create"

\* Within a call.
Goto(t, label) == /\ pc' = [pc EXCEPT ![t] = label]
                  /\ UNCHANGED <<runs, main>>

\* The call returns to the for loop, other threads being as in pcs.
Return(t, pcs) == /\ runs' = [runs EXCEPT ![t] = @ - 1]
                  /\ pc' = [pcs EXCEPT ![t] = LoopHead(runs[t] - 1)]
                  /\ UNCHANGED main

\* pthread_create: the threads of the group first come before the others.
Create(t, first) == /\ main = "create" /\ pc[t] = Unborn
                    /\ t \notin first => \A u \in first : pc[u] # Unborn
                    /\ Goto(t, Start)

\* All are created: main goes on to the joins.
Created == /\ main = "create" /\ \A t \in Threads : pc[t] # Unborn
           /\ main' = "join" /\ UNCHANGED <<pc, runs>>

\* All pthread_join have returned, for the threads of joined; in which order
\* main waits for them makes no difference.
Join(joined) == /\ main = "join" /\ \A t \in joined : pc[t] = Done
                /\ main' = "joined" /\ UNCHANGED <<pc, runs>>

ControlOK(states) == /\ pc \in [Threads -> states \cup {Unborn, Start, Done}]
                     /\ runs \in [Threads -> Nat]
                     /\ main \in {"create", "join", "joined"}
=============================================================================
