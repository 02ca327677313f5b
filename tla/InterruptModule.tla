-------------------------- MODULE InterruptModule --------------------------
(***************************************************************************)
(* Classes7/interrupt_module.c: a network card interrupts; the handler     *)
(* schedules a tasklet and queues work; the tasklet sets a timer.  Each of *)
(* the four may be on its way or under way when the module is removed, and *)
(* interrupt_exit has to stop them in an order in which none of them can   *)
(* start another again.                                                    *)
(*                                                                         *)
(* The handler, the tasklet, the timer and the worker run on processors of *)
(* their own: any of their steps may come between any two others.          *)
(***************************************************************************)
EXTENDS Naturals

CONSTANTS Interrupts,    \* bound on the interrupts of the card
          Loads          \* bound on the calls of insmod

ASSUME BoundsAssumption == Interrupts \in Nat /\ Loads \in Nat

VARIABLES module,        \* absent, loaded, exiting, removed or refused
          step,          \* the call interrupt_exit is in
          irq,           \* whose the interrupt line is: free or taken by the handler
          handler,       \* where the interrupt handler is
          tasklet,       \* my_tasklet: scheduled, running, both or neither
          timer,         \* my_timer: pending, running, both or neither
          wq,            \* the queue: none or live
          work,          \* wq_task: queued, running, both or neither
          interrupts, loads        \* how many there have been

deferred == <<tasklet, timer, work>>
bounds == <<interrupts, loads>>
vars == <<module, step, irq, handler, deferred, wq, bounds>>

\* The calls of interrupt_exit, in their order; synchronize_irq is the part of
\* free_irq that waits.
exit_timer_first ==                                  \* mutant
  <<"free_irq", "synchronize_irq", "del_timer_sync", "tasklet_kill", "destroy_workqueue">>
exit_calls ==
  <<"free_irq", "synchronize_irq", "tasklet_kill", "del_timer_sync", "destroy_workqueue">>

Init == /\ module = "absent" /\ step = 1
        /\ irq = "free" /\ handler = "idle" /\ wq = "none"
        /\ tasklet = {} /\ timer = {} /\ work = {}
        /\ interrupts = 0 /\ loads = 0

-----------------------------------------------------------------------------
\* What the kernel calls back runs when it was asked for and does not run yet;
\* it may be asked for again while it runs.
Starts(state, asked) == asked \in state /\ "running" \notin state /\ state' = {"running"}
Returns(state) == "running" \in state /\ state' = state \ {"running"}

\* insmod.  Nobody else is at the module until request_irq has succeeded.
\* When that fails the queue is not destroyed.
interrupt_init ==
  /\ module \in {"absent", "removed", "refused"} /\ loads < Loads
  /\ loads' = loads + 1
  /\ step' = 1
  /\ \/ module' = "refused" /\ UNCHANGED <<irq, wq>>
     \/ module' = "refused" /\ wq' = "live" /\ UNCHANGED irq
     \/ module' = "loaded" /\ wq' = "live" /\ irq' = "taken"
  /\ UNCHANGED <<handler, deferred, interrupts>>

\* The card interrupts.  The line is masked while the handler runs.
Interrupt == /\ irq = "taken" /\ handler = "idle" /\ interrupts < Interrupts
             /\ interrupts' = interrupts + 1
             /\ handler' = "tasklet_schedule"
             /\ UNCHANGED <<module, step, irq, deferred, wq, loads>>

\* A tasklet that is scheduled already is not scheduled again.
ScheduleTasklet == /\ handler = "tasklet_schedule"
                   /\ tasklet' = tasklet \cup {"scheduled"}
                   /\ handler' = "queue_work"
                   /\ UNCHANGED <<module, step, irq, timer, work, wq, bounds>>

QueueIdle == /\ handler = "queue_work"               \* mutant: lost while it runs
             /\ work' = IF work = {} THEN {"queued"} ELSE work
             /\ handler' = "idle"
             /\ UNCHANGED <<module, step, irq, tasklet, timer, wq, bounds>>

\* queue_work, and the return of the handler.
QueueWork == /\ handler = "queue_work"
             /\ work' = work \cup {"queued"}
             /\ handler' = "idle"
             /\ UNCHANGED <<module, step, irq, tasklet, timer, wq, bounds>>

RunTasklet == /\ Starts(tasklet, "scheduled")
              /\ UNCHANGED <<module, step, irq, handler, timer, work, wq, bounds>>

TaskletAgain == /\ "running" \in tasklet              \* mutant: schedules itself
                /\ tasklet' = {"scheduled"} /\ timer' = timer \cup {"pending"}
                /\ UNCHANGED <<module, step, irq, handler, work, wq, bounds>>

\* mod_timer sets the timer, or moves it when it was set already.
tasklet_handler == /\ Returns(tasklet)
                   /\ timer' = timer \cup {"pending"}
                   /\ UNCHANGED <<module, step, irq, handler, work, wq, bounds>>

RunTimer == /\ Starts(timer, "pending")
            /\ UNCHANGED <<module, step, irq, handler, tasklet, work, wq, bounds>>

timer_handler == /\ Returns(timer)
                 /\ UNCHANGED <<module, step, irq, handler, tasklet, work, wq, bounds>>

RunWork == /\ Starts(work, "queued")
           /\ UNCHANGED <<module, step, irq, handler, tasklet, timer, wq, bounds>>

wq_handler == /\ Returns(work)
              /\ UNCHANGED <<module, step, irq, handler, tasklet, timer, wq, bounds>>

-----------------------------------------------------------------------------
\* rmmod.
Remove == /\ module = "loaded"
          /\ module' = "exiting"
          /\ UNCHANGED <<step, irq, handler, deferred, wq, bounds>>

\* interrupt_exit is in the call, and goes on to the next when it returns.
Exits(call) == /\ module = "exiting" /\ exit_calls[step] = call
               /\ step' = step + 1
               /\ UNCHANGED <<handler, work, bounds>>

\* free_irq takes the handler from the line, and waits until it has returned.
FreeIrq == /\ Exits("free_irq")
           /\ irq' = "free"
           /\ UNCHANGED <<module, tasklet, timer, wq>>

FreeIrqReturns == /\ Exits("synchronize_irq")
                  /\ handler = "idle"
                  /\ UNCHANGED <<module, irq, tasklet, timer, wq>>

\* tasklet_kill lets a tasklet that is scheduled run, and waits for it.
KillTasklet == /\ Exits("tasklet_kill")
               /\ tasklet = {}
               /\ UNCHANGED <<module, irq, tasklet, timer, wq>>

\* del_timer_sync takes the timer back, and waits for one that runs.
DelTimer == /\ Exits("del_timer_sync")
            /\ "running" \notin timer
            /\ timer' = {}
            /\ UNCHANGED <<module, irq, tasklet, wq>>

\* destroy_workqueue lets the work run that is queued.
DestroyWorkqueue == /\ Exits("destroy_workqueue")
                    /\ work = {}
                    /\ wq' = "none"
                    /\ module' = "removed"
                    /\ UNCHANGED <<irq, tasklet, timer>>

interrupt_exit == FreeIrq \/ FreeIrqReturns \/ KillTasklet \/ DelTimer \/ DestroyWorkqueue

Handle == ScheduleTasklet \/ QueueWork
Tasklet == RunTasklet \/ tasklet_handler
Timer == RunTimer \/ timer_handler
Worker == RunWork \/ wq_handler

Next == \/ interrupt_init \/ Interrupt \/ Remove
        \/ Handle \/ Tasklet \/ Timer \/ Worker
        \/ interrupt_exit

Spec == Init /\ [][Next]_vars

\* What has begun goes on: the processors, softirqs and the worker get their
\* turn.  Nobody has to load the module, to remove it or to interrupt.
FairSpec == /\ Spec
            /\ WF_vars(Handle) /\ WF_vars(Tasklet) /\ WF_vars(Timer) /\ WF_vars(Worker)
            /\ WF_vars(interrupt_exit)

-----------------------------------------------------------------------------
\* The types of the module's state.
TypeOK == /\ module \in {"absent", "loaded", "exiting", "removed", "refused"}
          /\ step \in 1 .. 6            \* past the last of exit_calls
          /\ irq \in {"free", "taken"} /\ wq \in {"none", "live"}
          /\ handler \in {"idle", "tasklet_schedule", "queue_work"}
          /\ tasklet \in SUBSET {"scheduled", "running"}
          /\ timer \in SUBSET {"pending", "running"}
          /\ work \in SUBSET {"queued", "running"}
          /\ interrupts \in 0 .. Interrupts /\ loads \in 0 .. Loads

\* Nothing of the module runs or is going to run.
Quiet == irq = "free" /\ handler = "idle" /\ tasklet = {} /\ timer = {} /\ work = {}

\* When the module is not in memory nothing is left that would call into it,
\* and interrupt_exit leaves no queue; work is queued only in a queue that
\* exists.
NothingOutlives ==
  /\ module \notin {"loaded", "exiting"} => Quiet
  /\ module = "removed" => wq = "none"
  /\ handler # "idle" \/ work # {} => wq = "live"

\* What an interrupt has asked for happens, also when the module is removed
\* meanwhile: the tasklet runs, and sets the timer, which only interrupt_exit
\* may take back; the work is done, also when it is queued while it runs.
EveryInterruptServed ==
  /\ (handler = "tasklet_schedule" /\ tasklet = {}) ~> "running" \in tasklet
  /\ "running" \in tasklet ~> "running" \in timer \/ module = "exiting"
  /\ (handler = "queue_work" /\ work = {"running"}) ~> work = {"queued"}
  /\ "queued" \in work ~> work = {"running"}

\* rmmod returns.
Termination == module = "exiting" ~> module = "removed"
=============================================================================
