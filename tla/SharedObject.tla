---------------------------- MODULE SharedObject ----------------------------
(***************************************************************************)
(* What the objects of Classes1/Task1.c, Task3.c, Task4.c and Task5.c      *)
(* promise the threads that share them: many readers or one writer at a    *)
(* time, and a value that stays as it is while anybody reads it.           *)
(***************************************************************************)
EXTENDS FiniteSets

CONSTANTS Readers, Writers,
          Values,        \* what a writer may store
          Initial        \* initial_data

VARIABLES data,
          reading,       \* the readers that have access
          writing        \* the writers that have access, at most one

vars == <<data, reading, writing>>

Init == data = Initial /\ reading = {} /\ writing = {}

BeginRead(r) == /\ writing = {} /\ r \notin reading
                /\ reading' = reading \cup {r}
                /\ UNCHANGED <<data, writing>>

EndRead(r) == /\ r \in reading
              /\ reading' = reading \ {r}
              /\ UNCHANGED <<data, writing>>

BeginWrite(w) == /\ reading = {} /\ writing = {}
                 /\ writing' = {w}
                 /\ UNCHANGED <<data, reading>>

Store(w) == /\ writing = {w}
            /\ data' \in Values
            /\ UNCHANGED <<reading, writing>>

EndWrite(w) == /\ writing = {w}
               /\ writing' = {}
               /\ UNCHANGED <<data, reading>>

Next == \/ \E r \in Readers : BeginRead(r) \/ EndRead(r)
        \/ \E w \in Writers : BeginWrite(w) \/ Store(w) \/ EndWrite(w)

Spec == Init /\ [][Next]_vars
=============================================================================
