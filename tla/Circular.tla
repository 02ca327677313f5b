------------------------------ MODULE Circular ------------------------------
(***************************************************************************)
(* Classes3/Circular/circular.c: a ring of bytes behind /dev/circular,     *)
(* resized through /proc/circular.  It has no lock.                        *)
(*                                                                         *)
(* Writers and readers are followed wherever they meet.  What writers do   *)
(* to each other depends on the build: the compiler may make one store of  *)
(* the two assignments to curr_position, or two.                           *)
(*                                                                         *)
(* A write to /proc/circular replaces and frees the buffer, insmod makes   *)
(* it after the device, and rmmod frees it: when one of these meets        *)
(* another call, or a process is killed, or a byte goes past the ring, the *)
(* driver may do anything, and the model stops.                            *)
(***************************************************************************)
EXTENDS Integers, Sequences, FiniteSets

CONSTANTS Readers, Writers, Sizers,   \* processes, each with a file of its own
          ReadCalls, WriteCalls, ResizeCalls,   \* bounds on the calls of a process
          Counts,        \* the lengths of the writes
          Letters,       \* the bytes other than 0
          Nul, Garbage,  \* the byte 0; a byte of memory that was never written
          Size,          \* buff_size at the start
          Values         \* the numbers written to /proc/circular

Processes == Readers \cup Writers \cup Sizers
Bytes == Letters \cup {Nul}

ASSUME CircularAssumption ==
  /\ Readers \cap Writers = {} /\ Sizers \cap (Readers \cup Writers) = {}
  /\ ReadCalls \in Nat /\ WriteCalls \in Nat /\ ResizeCalls \in Nat
  /\ Counts \subseteq Nat /\ Values \subseteq Int
  /\ Size \in Nat \ {0, 1} /\ Garbage \notin Bytes /\ Nul \notin Letters

VARIABLES build,         \* the stores made of the two assignments to curr_position
          buffer, buff_size, curr_position,
          proc_entry,    \* /proc/circular: none or made
          module,        \* how far insmod and rmmod are
          pc, call,      \* where each process is, and its local variables
          left, f_pos, got,
          stored,        \* history: the bytes stored during each read
          race,          \* history: on from when two writers are inside until
                         \* none is, else off
          trouble        \* none, met, killed or astray: see above

ring == <<buffer, buff_size, curr_position>>
loading == <<proc_entry, module>>
files == <<f_pos, got>>
vars == <<build, ring, loading, pc, call, left, files, stored, race, trouble>>

\* register: the value of curr_position the process has loaded or stored last.
Blank == [count |-> 0, i |-> 0, register |-> 0, length |-> 0, text |-> << >>, value |-> 0]

Init == /\ build \in {"one store", "two stores"}
        /\ buffer = << >> /\ buff_size = Size /\ curr_position = 0
        /\ proc_entry = "none" /\ module = "absent"
        /\ pc = [p \in Processes |-> "user"] /\ call = [p \in Processes |-> Blank]
        /\ left = [p \in Processes |-> IF p \in Readers THEN ReadCalls
                                       ELSE IF p \in Writers THEN WriteCalls ELSE ResizeCalls]
        /\ f_pos = [r \in Readers |-> 0] /\ got = [r \in Readers |-> << >>]
        /\ stored = [r \in Readers |-> {}] /\ race = "off" /\ trouble = "none"

Inside(group) == {p \in group : pc[p] # "user"}

Continue(p, label, locals) == /\ pc' = [pc EXCEPT ![p] = label]
                              /\ call' = [call EXCEPT ![p] = locals]
Return(p) == Continue(p, "user", Blank)

Starts(p) == /\ pc[p] = "user" /\ left[p] > 0
             /\ left' = [left EXCEPT ![p] = @ - 1]

\* A call of /dev/circular, which is there before the buffer is, begins.
Begin(p) == /\ module \in {"registered", "loaded", "leaving"}
            /\ Starts(p)
            /\ trouble' = IF module = "loaded" /\ Inside(Sizers) = {} THEN trouble ELSE "met"
            /\ UNCHANGED <<ring, loading, files>>

-----------------------------------------------------------------------------
BeginWrite(w, count) ==
  /\ Begin(w)
  /\ IF count = 0 THEN Return(w) ELSE Continue(w, "address", [Blank EXCEPT !.count = count])
  /\ race' = IF Inside(Writers) # {} /\ count > 0 THEN "on" ELSE race
  /\ UNCHANGED stored

\* buffer + curr_position, for copy_from_user.  After the first byte the compiler
\* may use the value this process has stored instead of loading it again.
Address(w) ==
  /\ pc[w] = "address"
  /\ \E place \in {curr_position} \cup (IF call[w].i = 0 THEN {} ELSE {call[w].register}) :
       Continue(w, "store", [call[w] EXCEPT !.register = place])
  /\ UNCHANGED <<ring, stored, race, trouble>>

\* The byte is stored there, which may be much later: copy_from_user may sleep.
Store(w) ==
  /\ pc[w] = "store" /\ call[w].register < buff_size - 1
  /\ \E byte \in Bytes :
       /\ buffer' = [buffer EXCEPT ![call[w].register] = byte]
       /\ stored' = [r \in Readers |-> IF pc[r] = "user" THEN {} ELSE stored[r] \cup {byte}]
  /\ Continue(w, "load", call[w])
  /\ UNCHANGED <<buff_size, curr_position, race, trouble>>

\* The byte goes over the last byte of the buffer or beyond.
StoreAstray(w) ==
  /\ pc[w] = "store" /\ call[w].register >= buff_size - 1
  /\ trouble' = "astray"
  /\ UNCHANGED <<ring, pc, call, stored, race>>

\* The last writer inside leaves.
EndRace(w) == race' = IF Inside(Writers) = {w} THEN "off" ELSE race

\* copy_from_user fails; the call returns EFAULT.
StoreFails(w) == /\ pc[w] = "store"
                 /\ Return(w) /\ EndRace(w)
                 /\ UNCHANGED <<ring, stored, trouble>>

Load(w) == /\ pc[w] = "load"
           /\ Continue(w, "advance", [call[w] EXCEPT !.register = curr_position])
           /\ UNCHANGED <<ring, stored, race, trouble>>

ReducedFar(n) == n % buff_size                       \* mutant: over the terminator
Reduced(n) == n % (buff_size - 1)

\* The position is stored; the next byte, or the end of the call.
Proceed(w, position) ==
  /\ curr_position' = position
  /\ IF call[w].i + 1 < call[w].count
     THEN /\ Continue(w, "address", [call[w] EXCEPT !.i = @ + 1, !.register = position])
          /\ UNCHANGED race
     ELSE Return(w) /\ EndRace(w)
  /\ UNCHANGED <<buffer, buff_size, stored, trouble>>

\* The two assignments to curr_position as one store.
Advance(w) == /\ build = "one store" /\ pc[w] = "advance"
              /\ Proceed(w, Reduced(call[w].register + 1))

\* As two: the sum is seen by others before it is reduced, and it may be loaded
\* again for that.
Increment(w) ==
  LET sum == call[w].register + 1 IN
  /\ build = "two stores" /\ pc[w] = "advance"
  /\ curr_position' = sum
  /\ Continue(w, "reload", [call[w] EXCEPT !.register = sum])
  /\ UNCHANGED <<buffer, buff_size, stored, race, trouble>>

Reload(w) == /\ pc[w] = "reload"
             /\ \E n \in {call[w].register, curr_position} :
                  Continue(w, "reduce", [call[w] EXCEPT !.register = n])
             /\ UNCHANGED <<ring, stored, race, trouble>>

Reduce(w) == pc[w] = "reduce" /\ Proceed(w, Reduced(call[w].register))

circular_write(w) ==
  \/ \E count \in Counts : BeginWrite(w, count)
  \/ /\ \/ Address(w) \/ Store(w) \/ StoreAstray(w) \/ StoreFails(w)
        \/ Load(w) \/ Advance(w) \/ Increment(w) \/ Reload(w) \/ Reduce(w)
     /\ UNCHANGED <<loading, left, files>>

-----------------------------------------------------------------------------
BeginRead(r) == /\ Begin(r)
                /\ Continue(r, "strlen", Blank)
                /\ UNCHANGED <<stored, race>>

ReturnRead(r) == Return(r) /\ stored' = [stored EXCEPT ![r] = {}]

\* The next byte for strlen.
Scan(r) == /\ pc[r] = "strlen" /\ buffer[call[r].length] # Nul
           /\ Continue(r, "strlen", [call[r] EXCEPT !.length = @ + 1])
           /\ UNCHANGED <<files, stored>>

ScanPast(r) == /\ pc[r] = "strlen" /\ buffer[call[r].length] = Nul   \* mutant
               /\ f_pos[r] < call[r].length
               /\ Continue(r, "copy", [call[r] EXCEPT !.length = @ + 1])
               /\ UNCHANGED <<files, stored>>

\* strlen has the length, and the reader has not had as many bytes.
Measure(r) == /\ pc[r] = "strlen" /\ buffer[call[r].length] = Nul
              /\ f_pos[r] < call[r].length
              /\ Continue(r, "copy", call[r])
              /\ UNCHANGED <<files, stored>>

\* The reader has had as many bytes as the text is long: the call returns 0.
EndOfFile(r) == /\ pc[r] = "strlen" /\ buffer[call[r].length] = Nul
                /\ f_pos[r] >= call[r].length
                /\ got' = [got EXCEPT ![r] = << >>]
                /\ ReturnRead(r)
                /\ UNCHANGED f_pos

\* The next byte for copy_to_user, whatever the count of the caller.
Copy(r) == LET n == Len(call[r].text) IN
           /\ pc[r] = "copy" /\ n < call[r].length
           /\ Continue(r, "copy", [call[r] EXCEPT !.text = Append(@, buffer[n])])
           /\ UNCHANGED <<files, stored>>

CopyFails(r) == /\ pc[r] = "copy"
                /\ ReturnRead(r)
                /\ UNCHANGED files

EndRead(r) == /\ pc[r] = "copy" /\ Len(call[r].text) = call[r].length
              /\ got' = [got EXCEPT ![r] = call[r].text]
              /\ f_pos' = [f_pos EXCEPT ![r] = @ + call[r].length]
              /\ ReturnRead(r)

circular_read(r) ==
  \/ BeginRead(r)
  \/ /\ Scan(r) \/ Measure(r) \/ EndOfFile(r) \/ Copy(r) \/ CopyFails(r) \/ EndRead(r)
     /\ UNCHANGED <<ring, loading, left, race, trouble>>

-----------------------------------------------------------------------------
\* The write to /proc/circular fails before it comes to the buffer: its text is
\* not read or not a number, or memory is short, as for a number below 0.
RefuseResize(s) == /\ module = "loaded" /\ Starts(s)
                   /\ UNCHANGED <<pc, call, ring, loading, files, stored, race, trouble>>

\* A new buffer is there to be filled.
BeginResize(s, value) ==
  /\ proc_entry = "made" /\ value >= 0
  /\ Starts(s)
  /\ Continue(s, "replace", [Blank EXCEPT !.value = value])
  /\ trouble' = IF module = "loaded" /\ Inside(Processes) = {} THEN trouble ELSE "met"
  /\ UNCHANGED <<ring, loading, files, stored, race>>

\* The bytes that fit are copied; the others are what the memory holds.
Moved(new, size) ==
  \A k \in 0 .. size - 2 : IF k < buff_size THEN new[k] = buffer[k]
                                            ELSE new[k] \in {Nul, Garbage}

ReplaceReset(s) ==                                   \* mutant: starts again at 0
  LET size == call[s].value IN
  /\ pc[s] = "replace" /\ size > 1
  /\ \E new \in [0 .. size - 1 -> Bytes \cup {Garbage}] :
       Moved(new, size) /\ new[size - 1] = Nul /\ buffer' = new
  /\ buff_size' = size /\ curr_position' = 0
  /\ Return(s)
  /\ UNCHANGED trouble

\* The buffer is replaced, curr_position reduced and the terminator written.
Replace(s) ==
  LET size == call[s].value IN
  /\ pc[s] = "replace" /\ size > 1
  /\ \E new \in [0 .. size - 1 -> Bytes \cup {Garbage}] :
       Moved(new, size) /\ new[size - 1] = Nul /\ buffer' = new
  /\ buff_size' = size
  /\ curr_position' = curr_position % (size - 1)
  /\ Return(s)
  /\ UNCHANGED trouble

\* With the size 1 the process divides by 0, with the size 0 it writes to the
\* byte before a buffer that has none.
ReplaceByNothing(s) ==
  /\ pc[s] = "replace" /\ call[s].value \in {0, 1}
  /\ trouble' = "killed"
  /\ UNCHANGED <<ring, pc, call>>

circular_proc_write(s) ==
  \/ RefuseResize(s)
  \/ \E value \in Values : BeginResize(s, value)
  \/ /\ Replace(s) \/ ReplaceByNothing(s)
     /\ UNCHANGED <<loading, left, files, stored, race>>

-----------------------------------------------------------------------------
\* insmod makes /proc/circular first.  When it cannot, it returns 0.
CreateEntry == /\ module = "absent"
               /\ \/ module' = "useless" /\ UNCHANGED proc_entry
                  \/ module' = "entry" /\ proc_entry' = "made"
               /\ UNCHANGED <<buffer, trouble>>

\* misc_register; insmod goes on when it fails.
Register == /\ module = "entry"
            /\ module' \in {"registered", "unregistered"}
            /\ UNCHANGED <<buffer, proc_entry, trouble>>

\* The buffer; insmod fails without it and without the device, and leaves
\* /proc/circular behind.
Allocate == \/ /\ module = "registered"
               /\ module' = "loaded" /\ buffer' = [k \in 0 .. Size - 1 |-> Nul]
               /\ UNCHANGED <<proc_entry, trouble>>
            \/ /\ module \in {"registered", "unregistered"}
               /\ module' = "refused"
               /\ UNCHANGED <<buffer, proc_entry, trouble>>

circular_init == CreateEntry \/ Register \/ Allocate

\* rmmod begins.  device_fops has no owner: calls under way do not keep the
\* module.  misc_deregister of a device that was never registered is fatal.
Unregister ==
  /\ \/ module = "useless" /\ trouble' = "killed" /\ UNCHANGED module
     \/ /\ module = "loaded" /\ module' = "leaving"
        /\ trouble' = IF Inside(Processes) # {} THEN "met" ELSE trouble
  /\ UNCHANGED <<buffer, proc_entry>>

\* kfree and proc_remove.
Remove == /\ module = "leaving"
          /\ module' = "removed" /\ buffer' = << >> /\ proc_entry' = "none"
          /\ UNCHANGED trouble

circular_exit == Unregister \/ Remove

Next ==
  /\ trouble = "none" /\ UNCHANGED build
  /\ \/ \E w \in Writers : circular_write(w)
     \/ \E r \in Readers : circular_read(r)
     \/ \E s \in Sizers : circular_proc_write(s)
     \/ /\ circular_init \/ circular_exit
        /\ UNCHANGED <<buff_size, curr_position, pc, call, left, files, stored, race>>

Spec == Init /\ [][Next]_vars

-----------------------------------------------------------------------------
\* Nothing but reads and writes meets.
Calm == module = "loaded" /\ trouble = "none"

\* As long as nothing but reads and writes meets, strlen and copy_to_user end
\* inside the buffer, whose last byte is 0, and no byte is stored over that one
\* or outside: with one store to curr_position however reads and writes meet,
\* with two unless writes meet.
InBounds ==
  /\ Calm => /\ DOMAIN buffer = 0 .. buff_size - 1 /\ buffer[buff_size - 1] = Nul
             /\ \A r \in Readers : call[r].length \in 0 .. buff_size - 1
             /\ Inside(Writers) = {} => curr_position \in 0 .. buff_size - 2
  /\ trouble = "astray" => build = "two stores" /\ race = "on"

There == module = "loaded" \/ module = "leaving"

\* A writer that is alone has stored its byte and not yet moved on.
Moving == \E w \in Writers : pc[w] \in {"load", "advance"}

Text == INSTANCE CircularText WITH
          cells <- IF There THEN [k \in 0 .. buff_size - 2 |-> buffer[k]]
                            ELSE [k \in 0 .. Size - 2 |-> Nul],
          next <- Reduced(IF Moving THEN curr_position + 1 ELSE curr_position),
          Places <- Size - 1,
          NewPlaces <- {value - 1 : value \in Values \ {0, 1}}

\* A read that returns now, and beside which bytes were stored.
Torn == \E r \in Readers : stored[r] # {} /\ files' # files /\ pc'[r] # pc[r]

\* One call after the other, the device is the ring of CircularText.  A read
\* takes its text at one moment unless a byte is stored meanwhile; writes keep
\* their order unless two are inside at once, after which the ring goes on
\* from what they have left; a resize keeps text and position.
ImplementsText ==
  /\ Text!Init
  /\ [][\/ UNCHANGED Text!vars \/ race = "on" \/ race' = "on" \/ Torn
        \/ trouble' # "none" \/ module' = "removed"
        \/ Text!Next]_(Text!vars)

\* The length strlen finds is that of the text at the moment it ends, however
\* many bytes are written over meanwhile, unless one of them is 0.
LengthOfOneMoment ==
  [][\A r \in Readers :
       pc[r] = "strlen" /\ pc'[r] = "copy" /\ Nul \notin stored[r] =>
         call'[r].length = Len(Text!Text)]_vars
=============================================================================
