----------------------- MODULE InterruptModuleProofs -----------------------
(***************************************************************************)
(* For any number of interrupts and of insmods, nothing of interrupt_module *)
(* outlives interrupt_exit.  The invariant says how far each thing that    *)
(* can be under way may still reach into interrupt_exit: the handler to    *)
(* the end of free_irq, the tasklet, which only the handler schedules, one *)
(* call further, the timer, which only the tasklet sets, one more.         *)
(***************************************************************************)
EXTENDS InterruptModule, TLAPS

\* Before the n-th call of interrupt_exit has returned.
Until(n) == module = "loaded" \/ (module = "exiting" /\ step <= n)

IInv == /\ TypeOK
        /\ module = "exiting" => step <= 5
        /\ module \in {"absent", "loaded", "refused"} => step = 1
        /\ irq = "taken" => Until(1)
        /\ handler # "idle" => Until(2)
        /\ tasklet # {} => Until(3)
        /\ timer # {} => Until(4)
        /\ work # {} => Until(5)
        /\ Until(5) => wq = "live"
        /\ module = "removed" => wq = "none"

\* Before the first insmod nothing is under way.
LEMMA InitIInv == Init => IInv
  BY BoundsAssumption DEF Init, IInv, TypeOK, Until

\* insmod meets a quiet module.
LEMMA InitStep == IInv /\ interrupt_init => IInv'
  BY BoundsAssumption DEF IInv, TypeOK, Until, interrupt_init, deferred

\* What runs while the module is loaded or is being removed.
LEMMA WorkStep ==
  ASSUME IInv, Interrupt \/ Remove \/ Handle \/ Tasklet \/ Timer \/ Worker
  PROVE  IInv'
  <1>1. CASE Interrupt
    BY <1>1, BoundsAssumption DEF IInv, TypeOK, Until, Interrupt, deferred
  <1>2. CASE Remove
    BY <1>2 DEF IInv, TypeOK, Until, Remove, deferred, bounds
  <1>3. CASE ScheduleTasklet
    BY <1>3 DEF IInv, TypeOK, Until, ScheduleTasklet, bounds
  <1>4. CASE QueueWork
    BY <1>4 DEF IInv, TypeOK, Until, QueueWork, bounds
  <1>7. CASE RunTasklet
    BY <1>7 DEF IInv, TypeOK, Until, RunTasklet, Starts, bounds
  <1>8. CASE tasklet_handler
    BY <1>8 DEF IInv, TypeOK, Until, tasklet_handler, Returns, bounds
  <1>5. CASE Timer
    BY <1>5 DEF IInv, TypeOK, Until, Timer, RunTimer, timer_handler, Starts, Returns, bounds
  <1>6. CASE Worker
    BY <1>6 DEF IInv, TypeOK, Until, Worker, RunWork, wq_handler, Starts, Returns, bounds
  <1>. QED BY <1>1, <1>2, <1>3, <1>4, <1>5, <1>6, <1>7, <1>8 DEF Handle, Tasklet

\* The five calls of interrupt_exit.
LEMMA CallOrder ==
  /\ exit_calls[1] = "free_irq" /\ exit_calls[2] = "synchronize_irq"
  /\ exit_calls[3] = "tasklet_kill" /\ exit_calls[4] = "del_timer_sync"
  /\ exit_calls[5] = "destroy_workqueue"
  BY DEF exit_calls

\* Each call of interrupt_exit leaves one thing less that can be under way.
LEMMA ExitStep ==
  ASSUME IInv, interrupt_exit
  PROVE  IInv'
  <1>0. module = "exiting"
    BY DEF interrupt_exit, FreeIrq, FreeIrqReturns, KillTasklet, DelTimer, DestroyWorkqueue,
           Exits
  <1>. step \in {1, 2, 3, 4, 5}
    BY <1>0 DEF IInv, TypeOK
  <1>1. CASE FreeIrq
    <2>1. step = 1
      BY <1>1, CallOrder DEF FreeIrq, Exits
    <2>. QED
      BY <1>1, <2>1 DEF FreeIrq, Exits, IInv, TypeOK, Until, bounds
  <1>2. CASE FreeIrqReturns
    <2>1. step = 2
      BY <1>2, CallOrder DEF FreeIrqReturns, Exits
    <2>. QED
      BY <1>2, <2>1 DEF FreeIrqReturns, Exits, IInv, TypeOK, Until, bounds
  <1>3. CASE KillTasklet
    <2>1. step = 3
      BY <1>3, CallOrder DEF KillTasklet, Exits
    <2>. QED
      BY <1>3, <2>1 DEF KillTasklet, Exits, IInv, TypeOK, Until, bounds
  <1>4. CASE DelTimer
    <2>1. step = 4
      BY <1>4, CallOrder DEF DelTimer, Exits
    <2>. QED
      BY <1>4, <2>1 DEF DelTimer, Exits, IInv, TypeOK, Until, bounds
  <1>5. CASE DestroyWorkqueue
    <2>1. step = 5
      BY <1>5, CallOrder DEF DestroyWorkqueue, Exits
    <2>. QED
      BY <1>5, <2>1 DEF DestroyWorkqueue, Exits, IInv, TypeOK, Until, bounds
  <1>. QED BY <1>1, <1>2, <1>3, <1>4, <1>5 DEF interrupt_exit

\* Every step keeps the invariant.
LEMMA StepIInv == IInv /\ [Next]_vars => IInv'
  <1>1. ASSUME IInv, UNCHANGED vars PROVE IInv'
    BY <1>1 DEF vars, deferred, bounds, IInv, TypeOK, Until
  <1>2. ASSUME IInv, Next PROVE IInv'
    BY <1>2, InitStep, WorkStep, ExitStep DEF Next
  <1>. QED BY <1>1, <1>2

\* The inductive invariant holds in every reachable state.
THEOREM Invariance == Spec => []IInv
  BY InitIInv, StepIInv, PTL DEF Spec

\* When interrupt_module is not in memory no interrupt, tasklet, timer or work
\* is left that would call into it, and its queue is not used before it exists
\* or after it is destroyed, however often it is loaded and interrupted.
THEOREM Quiescence == Spec => []NothingOutlives
  <1>1. IInv => NothingOutlives
    BY DEF IInv, TypeOK, Until, NothingOutlives, Quiet
  <1>. QED BY <1>1, Invariance, PTL
=============================================================================
