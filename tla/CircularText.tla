---------------------------- MODULE CircularText ----------------------------
(***************************************************************************)
(* What /dev/circular promises when its calls come one after the other: a  *)
(* ring of places for bytes.  A byte goes to the next place, a read gets   *)
(* the text up to the first empty place, and the ring may be resized.      *)
(***************************************************************************)
EXTENDS Naturals, Sequences, FiniteSets

CONSTANTS Readers,
          Bytes,         \* what may be written, Nul included
          Nul,           \* the byte of an empty place
          Garbage,       \* a byte that no call has written
          Places, NewPlaces  \* how many there are, and may come to be

VARIABLES cells,         \* the byte at each place, from 0 on
          next,          \* the place of the next byte
          f_pos, got     \* of each reader: its position, and its last text

vars == <<cells, next, f_pos, got>>

Ring(n) == 0 .. n - 1

Init == /\ cells = [k \in Ring(Places) |-> Nul] /\ next = 0
        /\ f_pos = [r \in Readers |-> 0] /\ got = [r \in Readers |-> << >>]

\* The number of bytes before the first empty place of a ring.
Length(ring) == CHOOSE n \in 0 .. Cardinality(DOMAIN ring) :
                  /\ \A k \in Ring(n) : ring[k] # Nul
                  /\ n \in DOMAIN ring => ring[n] = Nul

Text == [k \in 1 .. Length(cells) |-> cells[k - 1]]

Write(byte) == /\ cells' = [cells EXCEPT ![next] = byte]
               /\ next' = (next + 1) % Cardinality(DOMAIN cells)
               /\ UNCHANGED <<f_pos, got>>

\* The whole text, also to a reader that has had a part of it; nothing to one
\* that has had as many bytes as it is long.
Read(r) == LET new == IF f_pos[r] >= Len(Text) THEN << >> ELSE Text IN
           /\ got' = [got EXCEPT ![r] = new]
           /\ f_pos' = [f_pos EXCEPT ![r] = @ + Len(new)]
           /\ UNCHANGED <<cells, next>>

\* The places that stay keep their bytes.  The first of the new ones is empty,
\* so that the text ends where it did; of the others nothing is known.
Resize(n) == LET old == Cardinality(DOMAIN cells) IN
  /\ cells' \in [Ring(n) -> Bytes \cup {Garbage}]
  /\ \A k \in Ring(n) \cap DOMAIN cells : cells'[k] = cells[k]
  /\ old \in Ring(n) => cells'[old] = Nul
  /\ next' = next % n
  /\ UNCHANGED <<f_pos, got>>

Next == \/ \E byte \in Bytes : Write(byte)
        \/ \E r \in Readers : Read(r)
        \/ \E n \in NewPlaces : Resize(n)

Spec == Init /\ [][Next]_vars
=============================================================================
