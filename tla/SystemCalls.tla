----------------------------- MODULE SystemCalls -----------------------------
(***************************************************************************)
(* Classes6/labsyscalls: kernelps, timeuser and pidtoname, each while      *)
(* processes fork, exit, change their names, their users and their times.  *)
(***************************************************************************)
EXTENDS ProcessTable

CONSTANTS Callers,       \* processes that make a call each
          Sizes,         \* the pointers in the array of kernelps before NULL
          MAX_UID,
          Count,         \* instead of a size: kernelps has no array
          Undefined      \* what is in max_user before it is assigned

ASSUME CallsAssumption == /\ Callers \cap Tasks = {} /\ Sizes \subseteq Nat
                          /\ MAX_UID \in Nat \ {0} /\ Count \notin Nat

VARIABLES pc, call       \* of each caller

local == <<pc, call>>
callVars == <<table, local>>

\* seen and list: the processes when the call began, for the properties.
Blank == [size |-> 0, id |-> 0, i |-> 0, task |-> 0, length |-> 0, names |-> << >>,
          time |-> << >>, max_cpu |-> 0, max_user |-> Undefined, ps_count |-> 0,
          list |-> << >>, seen |-> << >>]

InitCalls == /\ pc = [c \in Callers |-> "user"]
             /\ call = [c \in Callers |-> Blank]

Continue(c, label, locals) == /\ pc' = [pc EXCEPT ![c] = label]
                              /\ call' = [call EXCEPT ![c] = locals]

Begin(c, label, locals) ==
  /\ pc[c] = "user"
  /\ Continue(c, label, [locals EXCEPT !.list = tasks, !.seen = proc])

\* Of a name that is being changed a call may have the old length and the new
\* text.
Name(t, length) == [task |-> t, text |-> proc[t].comm, length |-> length]

-----------------------------------------------------------------------------
BeginPsUnlocked(c, size) ==                          \* mutant: no lock
  /\ Begin(c, "ps", [Blank EXCEPT !.size = size, !.i = 1])
  /\ UNCHANGED table

\* The list is locked before the walk.
BeginPs(c, size) == /\ Begin(c, "ps", [Blank EXCEPT !.size = size, !.i = 1])
                    /\ ReadLock(c)

\* The next process is counted, and strlen has the length of its name.
CountProcess(c) ==
  LET me == call[c] IN
  /\ pc[c] = "ps" /\ me.i <= Len(tasks)
  /\ LET counted == [me EXCEPT !.ps_count = @ + 1] IN
     IF me.size = Count
     THEN Continue(c, "ps", [counted EXCEPT !.i = @ + 1]) /\ UNCHANGED table
     ELSE IF me.i > me.size
     THEN Continue(c, "failed", counted) /\ ReadUnlock(c)
     ELSE /\ Continue(c, "pscopy", [counted EXCEPT !.task = tasks[me.i],
                                                   !.length = proc[tasks[me.i]].comm])
          /\ UNCHANGED table

\* The name is copied to the array, or copy_to_user fails.
CopyToArray(c) ==
  LET me == call[c] IN
  /\ pc[c] = "pscopy"
  /\ \/ /\ Continue(c, "ps", [me EXCEPT !.i = @ + 1, !.names = Append(@, Name(me.task, me.length))])
        /\ UNCHANGED table
     \/ Continue(c, "failed", me) /\ ReadUnlock(c)

EndPs(c) == /\ pc[c] = "ps" /\ call[c].i > Len(tasks)
            /\ Continue(c, "psdone", call[c])
            /\ ReadUnlock(c)

kernelps(c) == \/ \E size \in Sizes \cup {Count} : BeginPs(c, size)
               \/ CountProcess(c) \/ CopyToArray(c) \/ EndPs(c)

-----------------------------------------------------------------------------
BeginTime(c) ==
  \/ /\ Begin(c, "time", [Blank EXCEPT !.i = 1, !.time = [user \in 0 .. MAX_UID - 1 |-> 0]])
     /\ ReadLock(c)
  \/ Begin(c, "failed", Blank) /\ UNCHANGED table    \* kmalloc fails

ComparedAlone(sum, utime) == utime                   \* mutant: not the sum
Compared(sum, utime) == sum

\* The next process: its user is read once, and so is its time.
AddTime(c) ==
  LET me == call[c]
      task == proc[tasks[me.i]]
      sum == me.time[task.uid] + task.utime
      added == [me EXCEPT !.i = @ + 1, !.time[task.uid] = sum]
  IN /\ pc[c] = "time" /\ me.i <= Len(tasks) /\ task.uid < MAX_UID
     /\ Continue(c, "time", IF Compared(sum, task.utime) > me.max_cpu
                            THEN [added EXCEPT !.max_cpu = sum, !.max_user = task.uid]
                            ELSE added)
     /\ UNCHANGED table

\* A user beyond the array: nothing is known of the call from here on.
AddBeyond(c) == /\ pc[c] = "time" /\ call[c].i <= Len(tasks)
                /\ proc[tasks[call[c].i]].uid >= MAX_UID
                /\ Continue(c, "beyond", call[c])
                /\ ReadUnlock(c)

EndTime(c) == /\ pc[c] = "time" /\ call[c].i > Len(tasks)
              /\ Continue(c, "timedone", call[c])
              /\ ReadUnlock(c)

timeuser(c) == BeginTime(c) \/ AddTime(c) \/ AddBeyond(c) \/ EndTime(c)

-----------------------------------------------------------------------------
\* find_get_pid.
FindPid(c, id) ==
  \/ \E t \in WithPid(id) : Begin(c, "found", [Blank EXCEPT !.id = id, !.task = t])
  \/ WithPid(id) = {} /\ Begin(c, "failed", [Blank EXCEPT !.id = id])

GetAgain(c) == /\ pc[c] = "found"                   \* mutant: by number again
               /\ \E t \in WithPid(call[c].id) :
                    Continue(c, "named", [call[c] EXCEPT !.task = t])

\* get_pid_task: the process may have ended since.
GetTask(c) == /\ pc[c] = "found"
              /\ IF call[c].task \in Live THEN Continue(c, "named", call[c])
                                          ELSE Continue(c, "failed", call[c])

\* strlen; the reference keeps the task_struct also when the process has ended.
MeasureName(c) == /\ pc[c] = "named"
                  /\ Continue(c, "measured", [call[c] EXCEPT !.length = proc[call[c].task].comm])

SendName(c) == /\ pc[c] = "measured"
               /\ \/ Continue(c, "namedone",
                              [call[c] EXCEPT !.names = <<Name(call[c].task, call[c].length)>>])
                  \/ Continue(c, "failed", call[c])

pidtoname(c) == /\ (\E id \in Pids : FindPid(c, id)) \/ GetTask(c) \/ MeasureName(c) \/ SendName(c)
                /\ UNCHANGED table

-----------------------------------------------------------------------------
NextCall == \E c \in Callers : kernelps(c) \/ timeuser(c) \/ pidtoname(c)

Returns(c, label) == pc[c] # label /\ pc'[c] = label

\* A name is whole unless its process has changed it during the call.
Whole(c, name) == \/ name.text = name.length
                  \/ proc[name.task].execs > call[c].seen[name.task].execs

\* kernelps returns the number, and in the array the names, of the processes
\* there are at one moment, in the order of the list, however many fork and
\* exit while it walks; or it fails.  It fills no more of the array than there
\* is, and however it returns it gives the lock back.
OneMoment ==
  [][\A c \in Callers :
       LET me == call'[c] IN
       /\ Returns(c, "psdone") =>
            /\ me.ps_count = Len(tasks)
            /\ me.size # Count => [k \in DOMAIN me.names |-> me.names[k].task] = tasks
            /\ \A k \in DOMAIN me.names : Whole(c, me.names[k])
       /\ Returns(c, "psdone") \/ Returns(c, "failed") =>
            /\ c \notin tasklist_lock'
            /\ me.size # Count => Len(me.names) <= me.size]_callVars

\* The user that timeuser returns has used, when it returns, as much time as any
\* other had when it began, though the times grow during the walk; provided no
\* process has changed its user.  When nobody has used time yet the result is
\* undefined.
BusiestUser ==
  [][\A c \in Callers : Returns(c, "timedone") =>
       LET me == call'[c]
           Before(user) == TimeOf(user, me.list, me.seen)
       IN \/ \E t \in Live : proc[t].setuids > me.seen[t].setuids
          \/ me.max_user = Undefined /\ \A user \in Uids : Before(user) = 0
          \/ /\ me.max_user \in Uids
             /\ \A user \in Uids : TimeOf(me.max_user, tasks, proc) >= Before(user)]_callVars

\* The name that pidtoname returns is, whole, one that a process had which had
\* the pid when the call began, also when it has ended meanwhile and the pid
\* belongs to another.
NameOfPid ==
  [][\A c \in Callers : Returns(c, "namedone") =>
       LET me == call'[c] IN
       \A k \in DOMAIN me.names :
         /\ me.names[k].task \in Range(me.list)
         /\ me.seen[me.names[k].task].pid = me.id
         /\ Whole(c, me.names[k])]_callVars
=============================================================================
