------------------------------- MODULE Kernel -------------------------------
(***************************************************************************)
(* The parts of the repository that look at the kernel's processes, each   *)
(* with the processes as they come, change and go: the system calls of     *)
(* Classes6 and the device of Classes3/Advanced.                           *)
(***************************************************************************)
EXTENDS SystemCalls

CONSTANTS Writers, Readers, WriteCalls, ReadCalls, Ids    \* of Advanced

ASSUME PrnameAssumption == /\ Writers \cap Readers = {}
                           /\ Ids \subseteq Nat
                           /\ WriteCalls \in Nat /\ ReadCalls \in Nat

VARIABLES proc_id, prname_written, module, at, mine, f_pos, last, writes, trouble,
          part           \* which of the two is looked at

Prname == INSTANCE Advanced

prname == <<proc_id, prname_written, module, at, mine, f_pos, last, writes, trouble>>
kernelVars == <<callVars, prname, part>>

Init == /\ InitTable /\ InitCalls /\ Prname!InitAdvanced
        /\ \/ part = "calls"
           \/ part = "device" /\ proc[2].uid = 0 /\ proc[2].utime = 0   \* not looked at

Next == \/ part = "calls" /\ Change /\ UNCHANGED <<local, prname, part>>
        \/ part = "calls" /\ NextCall /\ UNCHANGED <<prname, part>>
        \/ part = "device" /\ trouble = "none" /\ ChangeNames /\ UNCHANGED <<local, prname, part>>
        \/ part = "device" /\ Prname!Next /\ UNCHANGED <<local, part>>

Spec == Init /\ [][Next]_kernelVars

\* In either part.
AnswerOfLast == Prname!AnswerOfLast
=============================================================================
