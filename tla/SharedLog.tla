----------------------------- MODULE SharedLog ------------------------------
(***************************************************************************)
(* What the linked_buffer drivers promise the programs that open           *)
(* /dev/linked: one log of nodes.  A write adds nodes at the end, a read   *)
(* returns at one moment what the log then holds from the position of the  *)
(* file on, and a clear empties the log.                                   *)
(***************************************************************************)
EXTENDS Integers, Sequences, FiniteSets

CONSTANTS Readers,
          Nodes,         \* records with a field length
          Counts         \* the lengths a reader may ask for

VARIABLES log,
          f_pos,         \* the position of each reader's file
          got            \* the parts of nodes each reader has received

vars == <<log, f_pos, got>>

\* The number of bytes in a sequence of nodes.
LengthOf(nodes) ==
  LET upTo[k \in 0 .. Len(nodes)] == IF k = 0 THEN 0 ELSE upTo[k - 1] + nodes[k].length
  IN upTo[Len(nodes)]

\* The bytes before the k-th node.
Offset(k) == LengthOf(SubSeq(log, 1, k - 1))

\* What a read of count bytes at position pos returns: from the first node
\* that begins at pos or after it, whole nodes until count bytes are reached;
\* only of the last one there may be less than all.
Segment(pos, count) ==
  LET ahead == {k \in 1 .. Len(log) : Offset(k) >= pos}
      first == CHOOSE k \in ahead : \A j \in ahead : k <= j
      nodes == {k \in ahead : k = first \/ Offset(k) - Offset(first) < count}
      part(k) == LET room == count - (Offset(k) - Offset(first))
                 IN [node  |-> log[k],
                     bytes |-> IF room < log[k].length THEN room ELSE log[k].length]
  IN [j \in 1 .. Cardinality(nodes) |-> part(first + j - 1)]

Init == log = << >> /\ f_pos = [r \in Readers |-> 0] /\ got = [r \in Readers |-> << >>]

AddTail(d) == /\ log' = Append(log, d)
              /\ UNCHANGED <<f_pos, got>>

\* The file moves past all of the last node, also past what was not returned.
Read(r, count) ==
  LET parts == Segment(f_pos[r], count) IN
  /\ got' = [got EXCEPT ![r] = @ \o parts]
  /\ f_pos' = [f_pos EXCEPT ![r] = @ + LengthOf([k \in DOMAIN parts |-> parts[k].node])]
  /\ UNCHANGED log

\* The positions stay as they are.
Clear == log' = << >> /\ UNCHANGED <<f_pos, got>>

Next == \/ \E d \in Nodes : AddTail(d)
        \/ \E r \in Readers, count \in Counts : Read(r, count)
        \/ Clear

Spec == Init /\ [][Next]_vars
=============================================================================
