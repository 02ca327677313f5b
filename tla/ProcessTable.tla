---------------------------- MODULE ProcessTable ----------------------------
(***************************************************************************)
(* The kernel's processes, as far as Classes6/labsyscalls and              *)
(* Classes3/Advanced look at them.  Whoever holds tasklist_lock for        *)
(* reading keeps processes from coming and going, but not from changing    *)
(* their name, their user and their time.                                  *)
(***************************************************************************)
EXTENDS Integers, Sequences, FiniteSets, SequencesExt

CONSTANTS Tasks,         \* the task_structs there may be, 1 .. n
          Pids, Uids,
          Names,         \* a name stands for its length: no two are equally long
          Changes        \* bound on the changes of the table

ASSUME TableAssumption == /\ Tasks = 1 .. Cardinality(Tasks) /\ 2 \in Tasks
                          /\ Pids \subseteq Nat \ {0} /\ {1, 2} \subseteq Pids
                          /\ Uids \subseteq Nat /\ 0 \in Uids /\ Names \subseteq Nat \ {0}
                          /\ Changes \in Nat

VARIABLES tasks,         \* the list that for_each_process goes through
          proc,          \* each task_struct; execs and setuids are histories
          tasklist_lock, \* who holds it for reading
          changes

table == <<tasks, proc, tasklist_lock, changes>>

\* A task_struct that was never used.
Unused == [pid |-> 0, comm |-> 0, uid |-> 0, utime |-> 0, execs |-> 0, setuids |-> 0]

\* The first process is root's; its name is fixed until it execs.  There is
\* another with the next pid.  They may have run before.
InitTable ==
  /\ tasks = <<1, 2>>
  /\ \E name \in Names, user \in Uids, time \in 0 .. 1 :
       proc = [t \in Tasks |->
                 CASE t = 1 -> [Unused EXCEPT !.pid = 1, !.comm = CHOOSE n \in Names : TRUE,
                                            !.utime = time]
                   [] t = 2 -> [Unused EXCEPT !.pid = 2, !.comm = name, !.utime = time,
                                            !.uid = user]
                   [] OTHER -> Unused]
  /\ tasklist_lock = {} /\ changes = 0

Live == Range(tasks)

Unborn == {t \in Tasks : proc[t].pid = 0}

\* The child has its parent's name and user, a task_struct that nobody has
\* used, and a pid that nobody uses now.
Fork(parent) ==
  /\ tasklist_lock = {} /\ Unborn # {}
  /\ \E t \in Unborn, id \in Pids \ {proc[q].pid : q \in Live} :
       /\ \A q \in Unborn : t <= q
       /\ proc' = [proc EXCEPT ![t] = [Unused EXCEPT !.pid = id, !.comm = proc[parent].comm,
                                                     !.uid = proc[parent].uid]]
       /\ tasks' = Append(tasks, t)

\* The first process never exits.
Exit(t) == /\ tasklist_lock = {} /\ t # 1
           /\ tasks' = SelectSeq(tasks, LAMBDA q : q # t)
           /\ UNCHANGED proc

Exec(t) == /\ \E name \in Names \ {proc[t].comm} :
                proc' = [proc EXCEPT ![t].comm = name, ![t].execs = @ + 1]
           /\ UNCHANGED tasks

Setuid(t) == /\ \E user \in Uids \ {proc[t].uid} :
                  proc' = [proc EXCEPT ![t].uid = user, ![t].setuids = @ + 1]
             /\ UNCHANGED tasks

Tick(t) == /\ proc' = [proc EXCEPT ![t].utime = @ + 1]
           /\ UNCHANGED tasks

Bounded == changes < Changes /\ changes' = changes + 1 /\ UNCHANGED tasklist_lock

\* What those see that look at pids and names only, and what all see.
ChangeNames == Bounded /\ \E t \in Live : Fork(t) \/ Exit(t) \/ Exec(t)
Change == ChangeNames \/ (Bounded /\ \E t \in Live : Setuid(t) \/ Tick(t))

-----------------------------------------------------------------------------
ReadLock(c) == tasklist_lock' = tasklist_lock \cup {c} /\ UNCHANGED <<tasks, proc, changes>>
ReadUnlock(c) == tasklist_lock' = tasklist_lock \ {c} /\ UNCHANGED <<tasks, proc, changes>>

\* find_get_pid.  There is one struct pid for a pid as long as a process has
\* it; it is known by that process.
WithPid(id) == {t \in Live : proc[t].pid = id}

\* The time all processes of a user have used, in a list of them.
TimeOf(user, list, state) ==
  FoldLeft(LAMBDA sum, t : IF state[t].uid = user THEN sum + state[t].utime ELSE sum, 0, list)
=============================================================================
