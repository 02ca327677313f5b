--------------------------- MODULE CyclicMessage ----------------------------
(***************************************************************************)
(* What the simple_sync drivers promise the readers of /dev/simple: they   *)
(* share one message, and each read takes the next stretch of it, at one   *)
(* moment and never past the end of the message.                           *)
(***************************************************************************)
EXTENDS Integers, Sequences

CONSTANTS Readers,
          Length,        \* the characters of the message are 0 .. Length - 1
          Counts         \* the lengths a reader may ask for

VARIABLES next,          \* the next character
          taken          \* the stretch each reader took last

vars == <<next, taken>>

Init == next = 0 /\ taken = [r \in Readers |-> << >>]

Stretch(from, n) == [k \in 1 .. n |-> from + k - 1]

Read(r, count) ==
  LET n == IF count < Length - next THEN count ELSE Length - next IN
  /\ taken' = [taken EXCEPT ![r] = Stretch(next, n)]
  /\ next' = (next + n) % Length

Next == \E r \in Readers, count \in Counts : Read(r, count)

Spec == Init /\ [][Next]_vars
=============================================================================
