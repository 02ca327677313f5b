------------------------------ MODULE Advanced ------------------------------
(***************************************************************************)
(* Classes3/Advanced/advanced.c: a process writes a pid to /dev/prname and *)
(* another reads the name of the process that has it.  Nothing is locked.  *)
(* After a process was killed, or ran on without the module's code, or     *)
(* wrote past its buffer, the model stops.                                 *)
(***************************************************************************)
EXTENDS ProcessTable

CONSTANTS Writers, Readers,   \* processes, each with a file of its own
          WriteCalls, ReadCalls,      \* bounds on the calls of each
          Ids                 \* the numbers written

VARIABLES proc_id, prname_written,
          module,        \* how far insmod and rmmod are
          at, mine,      \* where each process is, and its local variables
          f_pos,
          last,          \* history: the last write that was alone, if no other
                         \* has stored anything since
          writes,        \* history: the calls of prname_write
          trouble        \* none, killed, met or overrun: see above

device == <<proc_id, prname_written>>
advancedVars == <<table, device, module, at, mine, f_pos, last, writes, trouble>>

Users == Writers \cup Readers

\* nth: how many calls the process has made.  writes and quiet: the calls of
\* prname_write when this one began, and whether none of them was inside; for
\* the property.
Blank == [id |-> 0, found |-> FALSE, task |-> 0, length |-> 0, name |-> 0,
          nth |-> 0, writes |-> 0, quiet |-> TRUE, answer |-> "none"]

Unknown == [id |-> 0, found |-> FALSE, known |-> FALSE]

InitAdvanced ==
  /\ proc_id = -1 /\ prname_written = FALSE /\ module = "absent"
  /\ at = [p \in Users |-> "user"] /\ mine = [p \in Users |-> Blank]
  /\ f_pos = [r \in Readers |-> 0]
  /\ last = [Unknown EXCEPT !.known = TRUE] /\ writes = 0 /\ trouble = "none"

Inside(group) == {p \in group : at[p] # "user"}

Continue(p, label, locals) == /\ at' = [at EXCEPT ![p] = label]
                              /\ mine' = [mine EXCEPT ![p] = locals]

Return(p, answer) == Continue(p, "user", [Blank EXCEPT !.nth = mine[p].nth, !.answer = answer])

\* A call begins.  The device may be there without the module.
Begin(p, label) ==
  /\ at[p] = "user" /\ mine[p].nth < (IF p \in Writers THEN WriteCalls ELSE ReadCalls)
  /\ module \in {"first", "loaded", "left"}
  /\ Continue(p, label, [Blank EXCEPT !.nth = mine[p].nth + 1, !.writes = writes,
                               !.quiet = Inside(Writers) = {}])
  /\ trouble' = IF module = "left" THEN "met" ELSE trouble

-----------------------------------------------------------------------------
BeginWrite(w) == /\ Begin(w, "written")
                 /\ writes' = writes + 1
                 /\ UNCHANGED <<device, last>>

\* The text is terminated before kmalloc's result is tested.
NoBuffer(w) == /\ at[w] = "written"
               /\ trouble' = "killed"
               /\ UNCHANGED <<device, at, mine, last, writes>>

\* The text is not read, or not a number: proc_id stays.
Refuse(w) == /\ at[w] = "written"
             /\ Return(w, "error")
             /\ UNCHANGED <<device, last, writes, trouble>>

\* kstrtol stores the number in proc_id itself.
Parse(w) == /\ at[w] = "written"
            /\ \E id \in Ids : /\ proc_id' = id
                               /\ Continue(w, "stored", [mine[w] EXCEPT !.id = id])
            /\ last' = Unknown
            /\ UNCHANGED <<prname_written, writes, trouble>>

\* find_get_pid, of what proc_id is now.
Find(w) == /\ at[w] = "stored"
           /\ Continue(w, "flag", [mine[w] EXCEPT !.found = WithPid(proc_id) # {}])
           /\ UNCHANGED <<device, last, writes, trouble>>

\* No other write has been inside since this one began.
Alone(w) == mine[w].quiet /\ writes = mine[w].writes + 1

Noted(w) == last' = IF Alone(w) THEN [id |-> mine[w].id, found |-> mine[w].found, known |-> TRUE]
                                ELSE Unknown

FlagKept(w) == /\ at[w] = "flag"                     \* mutant: never reset
               /\ prname_written' = (prname_written \/ mine[w].found)
               /\ Noted(w) /\ Return(w, "stored")
               /\ UNCHANGED <<proc_id, writes, trouble>>

Flag(w) == /\ at[w] = "flag"
           /\ prname_written' = mine[w].found
           /\ Noted(w) /\ Return(w, "stored")
           /\ UNCHANGED <<proc_id, writes, trouble>>

prname_write(w) == /\ \/ BeginWrite(w) \/ NoBuffer(w) \/ Refuse(w)
                      \/ Parse(w) \/ Find(w) \/ Flag(w)
                   /\ UNCHANGED <<table, module, f_pos>>

-----------------------------------------------------------------------------
\* prname_written is tested before proc_id is loaded.
BeginRead(r) == /\ Begin(r, "test")
                /\ UNCHANGED f_pos

Test(r) == /\ at[r] = "test"
           /\ IF prname_written THEN Continue(r, "load", mine[r]) ELSE Return(r, "refused")
           /\ UNCHANGED <<f_pos, trouble>>

\* find_get_pid.
FindPid(r) == /\ at[r] = "load"
              /\ \/ \E t \in WithPid(proc_id) :
                      Continue(r, "found", [mine[r] EXCEPT !.id = proc_id, !.task = t])
                 \/ WithPid(proc_id) = {} /\ Return(r, "nobody")
              /\ UNCHANGED <<f_pos, trouble>>

\* get_pid_task: the process may have ended since.
GetTask(r) == /\ at[r] = "found"
              /\ IF mine[r].task \in Live THEN Continue(r, "measure", mine[r])
                                          ELSE Return(r, "nobody")
              /\ UNCHANGED <<f_pos, trouble>>

\* kmalloc of the length that the name has now.
Measure(r) == /\ at[r] = "measure"
              /\ \/ Continue(r, "terminate", [mine[r] EXCEPT !.length = proc[mine[r].task].comm])
                 \/ Return(r, "nomemory")
              /\ UNCHANGED <<f_pos, trouble>>

\* What does not fit in what was allocated.
Overrun(r) == trouble' = IF proc[mine[r].task].comm > mine[r].length THEN "overrun" ELSE trouble

\* A 0 is stored behind the length that the name has now.
Terminate(r) == /\ at[r] = "terminate"
                /\ Continue(r, "copy", mine[r])
                /\ Overrun(r)
                /\ UNCHANGED f_pos

\* strcpy of the name that the process has now, which may be longer.
Copy(r) == /\ at[r] = "copy"
           /\ Continue(r, "send", [mine[r] EXCEPT !.name = proc[mine[r].task].comm])
           /\ Overrun(r)
           /\ UNCHANGED f_pos

\* A file returns names until it has returned as many bytes as the name has.
Send(r) == /\ at[r] = "send"
           /\ \/ f_pos[r] >= mine[r].name /\ Return(r, "nothing") /\ UNCHANGED f_pos
              \/ /\ f_pos[r] < mine[r].name
                 /\ \/ Return(r, "name") /\ f_pos' = [f_pos EXCEPT ![r] = @ + mine[r].name]
                    \/ Return(r, "fault") /\ UNCHANGED f_pos
           /\ UNCHANGED trouble

prname_read(r) == /\ \/ BeginRead(r) \/ Test(r) \/ FindPid(r) \/ GetTask(r)
                     \/ Measure(r) \/ Terminate(r) \/ Copy(r) \/ Send(r)
                  /\ UNCHANGED <<table, device, module, last, writes>>

-----------------------------------------------------------------------------
\* insmod registers two devices.  When the second fails the first is left.
advanced_init == \/ module = "absent" /\ module' \in {"first", "refused"} /\ UNCHANGED trouble
                 \/ /\ module = "first" /\ module' \in {"loaded", "left"}
                    /\ trouble' = IF module' = "left" /\ Inside(Users) # {} THEN "met"
                                                                          ELSE trouble

\* rmmod.  The file_operations name no owner: calls under way do not keep the
\* module.
advanced_exit == /\ module = "loaded" /\ module' = "removed"
                 /\ trouble' = IF Inside(Users) # {} THEN "met" ELSE trouble

Next ==
  /\ trouble = "none"
  /\ \/ \E w \in Writers : prname_write(w)
     \/ \E r \in Readers : prname_read(r)
     \/ /\ advanced_init \/ advanced_exit
        /\ UNCHANGED <<table, device, at, mine, f_pos, last, writes>>

-----------------------------------------------------------------------------
\* No write has been inside during the read that ends now.
Quiet(r) == mine[r].quiet /\ writes = mine[r].writes /\ Inside(Writers) = {}

\* A read refers to the last write, unless it or that write has met another:
\* it is refused if that write found no process, and else gets the name of a
\* process that has or had the pid, or nothing, but only when the process that
\* had it has ended or has been read.
AnswerOfLast ==
  [][\A r \in Readers :
       at[r] # "user" /\ at'[r] = "user" /\ Quiet(r) /\ last.known =>
         LET answer == mine'[r].answer IN
         /\ answer = "refused" <=> ~last.found
         /\ answer = "name" => /\ proc[mine[r].task].pid = last.id
                               /\ mine[r].name \in Names
         /\ answer = "nobody" => \E t \in Tasks \ Live : proc[t].pid = last.id]_advancedVars
=============================================================================
