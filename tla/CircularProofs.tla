--------------------------- MODULE CircularProofs ---------------------------
(***************************************************************************)
(* However many processes read and write /dev/circular, and whatever they  *)
(* write, they stay inside its buffer, of any size, and keep its last byte *)
(* 0: in a build that makes one store of the two assignments to            *)
(* curr_position, and in one that makes two as long as no two writes meet. *)
(* So they do after every resize that meets no other call.                 *)
(***************************************************************************)
EXTENDS Circular, FiniteSetTheorems, TLAPS

Contents == Bytes \cup {Garbage}

Labels == {"user", "address", "store", "load", "advance", "reload", "reduce", "strlen", "copy",
           "replace"}

Locals == [count : Nat, i : Nat, register : Nat, length : Nat, text : Seq(Contents), value : Int]

Typed == /\ buff_size \in Nat \ {0, 1} /\ curr_position \in Nat
         /\ pc \in [Processes -> Labels] /\ call \in [Processes -> Locals]

\* Until the buffer is allocated nothing has moved.
Fresh == module \in {"absent", "entry", "registered", "unregistered"} =>
           buff_size = Size /\ curr_position = 0

\* Only a process inside has local variables, and only in a loaded module is
\* one inside.
AtRest == \A p \in Processes : /\ pc[p] = "user" => call[p] = Blank
                               /\ pc[p] # "user" => module = "loaded"

\* Whoever replaces the buffer is alone.
Alone == \A s \in Processes : pc[s] = "replace" =>
           s \in Sizers /\ \A p \in Processes \ {s} : pc[p] = "user"

\* The bytes of the buffer, and those that a reader is about to use.
Filled == /\ buffer \in [0 .. buff_size - 1 -> Contents] /\ buffer[buff_size - 1] = Nul

Within(locals, size) == locals.length \in 0 .. size - 1

Placed == module = "loaded" => Filled /\ \A p \in Processes : Within(call[p], buff_size)

Inv == Typed /\ Fresh /\ AtRest /\ Alone /\ Placed

\* Nothing is said where the model has stopped.
IInv == trouble = "none" => Inv

\* A remainder is less than the divisor.
LEMMA Remainder ==
  ASSUME NEW n \in Nat, NEW d \in Nat \ {0}
  PROVE  n % d \in 0 .. d - 1
  OBVIOUS

\* The local variables of a call before it starts are in range in any buffer.
LEMMA BlankWithin ==
  ASSUME NEW size \in Nat \ {0, 1}
  PROVE  Blank \in Locals /\ Within(Blank, size)
  BY DEF Blank, Locals, Within

\* Before insmod nobody is inside and nothing has moved.
LEMMA InitInv == Init => IInv
  <1>. SUFFICES ASSUME Init PROVE Inv
    BY DEF IInv
  <1>1. Size \in Nat \ {0, 1}
    BY CircularAssumption
  <1>2. Typed
    BY <1>1, BlankWithin DEF Init, Typed, Labels
  <1>3. Fresh /\ AtRest /\ Alone /\ Placed
    BY DEF Init, Fresh, AtRest, Alone, Placed
  <1>. QED BY <1>2, <1>3 DEF Inv

\* A call of /dev/circular begins, in a module that stays without trouble.
LEMMA BeginFacts ==
  ASSUME Inv, NEW p \in Processes, Begin(p), trouble' = "none"
  PROVE  /\ module = "loaded" /\ pc[p] = "user"
         /\ \A s \in Processes : pc[s] # "replace"
  <1>1. module = "loaded" /\ Inside(Sizers) = {} /\ pc[p] = "user"
    BY DEF Begin, Starts
  <1>2. \A s \in Sizers : pc[s] = "user"
    BY <1>1 DEF Inside
  <1>. QED BY <1>1, <1>2 DEF Inv, Alone

\* A process goes on inside the driver, or returns, while the buffer keeps its
\* size.
LEMMA Continues ==
  ASSUME Inv, NEW p \in Processes, NEW label \in Labels \ {"replace"}, NEW locals,
         locals \in Locals, Within(locals, buff_size),
         label = "user" => locals = Blank,
         module = "loaded", \A s \in Processes : pc[s] # "replace",
         Continue(p, label, locals),
         buff_size' = buff_size, curr_position' \in Nat, module' = module,
         Filled'
  PROVE  Inv'
  <1>1. Typed'
    BY DEF Inv, Typed, Continue
  <1>2. Fresh' /\ AtRest' /\ Alone'
    BY DEF Inv, Typed, Fresh, AtRest, Alone, Continue, Labels
  <1>3. Placed'
    BY DEF Inv, Typed, Placed, Continue
  <1>. QED BY <1>1, <1>2, <1>3 DEF Inv

\* A byte stored within the ring leaves the last byte alone.
LEMMA StoreFills ==
  ASSUME Inv, module = "loaded", NEW byte \in Bytes, NEW place \in 0 .. buff_size - 2,
         buffer' = [buffer EXCEPT ![place] = byte], buff_size' = buff_size
  PROVE  Filled'
  BY DEF Inv, Typed, Placed, Filled, Contents

\* What a process finds that goes on inside a call of /dev/circular.
LEMMA InsideFacts ==
  ASSUME Inv, NEW p \in Processes,
         pc[p] \in Labels \ {"user", "replace"}
  PROVE  /\ module = "loaded" /\ \A s \in Processes : pc[s] # "replace"
         /\ Filled /\ buff_size \in Nat \ {0, 1} /\ curr_position \in Nat
         /\ call[p] \in Locals /\ Within(call[p], buff_size)
  BY DEF Inv, Typed, AtRest, Alone, Placed, Labels

\* A write begins, or returns at once when it has no bytes.
LEMMA BeginWriteStep ==
  ASSUME Inv, NEW w \in Writers, NEW count \in Counts, BeginWrite(w, count), trouble' = "none"
  PROVE  Inv'
  <1>. w \in Processes
    BY DEF Processes
  <1>. DEFINE locals == [Blank EXCEPT !.count = count]
  <1>1. /\ module = "loaded" /\ pc[w] = "user" /\ \A s \in Processes : pc[s] # "replace"
        /\ UNCHANGED <<buffer, buff_size, curr_position, module>>
    BY BeginFacts DEF BeginWrite, Begin, ring, loading
  <1>2. buff_size \in Nat \ {0, 1} /\ Filled' /\ curr_position' \in Nat
    BY <1>1 DEF Inv, Typed, Placed, Filled
  <1>3. /\ Blank \in Locals /\ Within(Blank, buff_size)
        /\ locals \in Locals /\ Within(locals, buff_size)
    BY <1>2, BlankWithin, CircularAssumption DEF Locals, Within
  <1>4. CASE Continue(w, "user", Blank)
    BY <1>1, <1>2, <1>3, <1>4, Continues DEF Labels
  <1>5. CASE Continue(w, "address", locals)
    BY <1>1, <1>2, <1>3, <1>5, Continues DEF Labels
  <1>. QED BY <1>4, <1>5 DEF BeginWrite, Return

\* The byte of a write goes to a place before the last.
LEMMA StoreStep ==
  ASSUME Inv, NEW w \in Processes, Store(w), module' = module
  PROVE  Inv'
  <1>1. /\ module = "loaded" /\ \A s \in Processes : pc[s] # "replace"
        /\ buff_size \in Nat \ {0, 1} /\ curr_position \in Nat
        /\ call[w] \in Locals /\ Within(call[w], buff_size)
    BY InsideFacts DEF Store, Labels
  <1>2. PICK byte \in Bytes : buffer' = [buffer EXCEPT ![call[w].register] = byte]
    BY DEF Store
  <1>3. call[w].register \in 0 .. buff_size - 2
    BY <1>1 DEF Store, Locals
  <1>4. Filled'
    BY <1>1, <1>2, <1>3, StoreFills DEF Store
  <1>. QED BY <1>1, <1>4, Continues DEF Store, Labels

\* A write stores a new curr_position and goes on, or returns.
LEMMA ProceedStep ==
  ASSUME Inv, NEW w \in Processes, NEW position \in Nat, Proceed(w, position),
         pc[w] \in {"advance", "reduce"}, module' = module
  PROVE  Inv'
  <1>. DEFINE locals == [call[w] EXCEPT !.i = @ + 1, !.register = position]
  <1>1. /\ module = "loaded" /\ \A s \in Processes : pc[s] # "replace" /\ Filled
        /\ call[w] \in Locals /\ Within(call[w], buff_size) /\ buff_size \in Nat \ {0, 1}
    BY InsideFacts DEF Labels
  <1>2. UNCHANGED <<buffer, buff_size>> /\ curr_position' \in Nat /\ Filled'
    BY <1>1 DEF Proceed, Filled
  <1>3. locals \in Locals /\ Within(locals, buff_size)
    <2>1. call[w].i + 1 \in Nat
      BY <1>1 DEF Locals
    <2>. QED BY <1>1, <2>1 DEF Locals, Within
  <1>4. CASE Continue(w, "address", locals)
    BY <1>1, <1>2, <1>3, <1>4, Continues DEF Labels
  <1>5. CASE Continue(w, "user", Blank)
    BY <1>1, <1>2, <1>5, BlankWithin, Continues DEF Labels
  <1>. QED BY <1>4, <1>5 DEF Proceed, Return

\* A position is reduced to a place before the last.
LEMMA ReducedPlace ==
  ASSUME Inv, NEW n \in Nat
  PROVE  Reduced(n) \in 0 .. buff_size - 2
  <1>1. buff_size - 1 \in Nat \ {0} /\ buff_size \in Nat
    BY DEF Inv, Typed
  <1>2. n % (buff_size - 1) \in 0 .. (buff_size - 1) - 1
    BY <1>1, Remainder
  <1>. QED BY <1>1, <1>2 DEF Reduced

\* Steps that change neither the ring nor where they would use it.
LEMMA QuietStep ==
  ASSUME Inv, NEW p \in Processes, UNCHANGED <<ring, module>>,
         pc[p] \in Labels \ {"user", "replace"},
         NEW label \in Labels \ {"user", "replace"}, NEW locals \in Locals,
         Within(locals, buff_size),
         Continue(p, label, locals) \/ Return(p)
  PROVE  Inv'
  <1>1. /\ module = "loaded" /\ \A s \in Processes : pc[s] # "replace" /\ Filled
        /\ curr_position' \in Nat /\ buff_size \in Nat \ {0, 1}
        /\ buff_size' = buff_size /\ Filled'
    BY InsideFacts DEF Filled, ring
  <1>2. CASE Continue(p, label, locals)
    BY <1>1, <1>2, Continues DEF Labels
  <1>3. CASE Continue(p, "user", Blank)
    BY <1>1, <1>3, BlankWithin, Continues DEF Labels
  <1>. QED BY <1>2, <1>3 DEF Return

\* Every step of circular_write.
LEMMA WriteStep ==
  ASSUME Inv, NEW w \in Writers, circular_write(w), trouble' = "none"
  PROVE  Inv'
  <1>. w \in Processes
    BY DEF Processes
  <1>1. ASSUME NEW count \in Counts, BeginWrite(w, count) PROVE Inv'
    BY <1>1, BeginWriteStep
  <1>2. CASE Store(w) /\ UNCHANGED loading
    BY <1>2, StoreStep DEF loading
  <1>3. CASE StoreFails(w) /\ UNCHANGED loading
    <2>. DEFINE locals == call[w]
    <2>1. locals \in Locals /\ Within(locals, buff_size)
      BY <1>3, InsideFacts DEF StoreFails, Labels
    <2>. QED BY <1>3, <2>1, QuietStep DEF StoreFails, loading, Labels
  <1>4. CASE (Address(w) \/ Load(w) \/ Reload(w)) /\ UNCHANGED loading
    <2>1. /\ pc[w] \in {"address", "load", "reload"} /\ UNCHANGED ring
          /\ \E n \in {call[w].register, curr_position}, label \in {"store", "advance", "reduce"} :
               Continue(w, label, [call[w] EXCEPT !.register = n])
      BY <1>4 DEF Address, Load, Reload
    <2>2. PICK n \in {call[w].register, curr_position}, label \in {"store", "advance", "reduce"} :
            Continue(w, label, [call[w] EXCEPT !.register = n])
      BY <2>1
    <2>. DEFINE locals == [call[w] EXCEPT !.register = n]
    <2>3. call[w] \in Locals /\ Within(call[w], buff_size) /\ curr_position \in Nat
      BY <2>1, InsideFacts DEF Labels
    <2>4. locals \in Locals /\ Within(locals, buff_size)
      BY <2>3 DEF Locals, Within
    <2>. QED BY <1>4, <2>1, <2>2, <2>4, QuietStep DEF loading, Labels
  <1>5. CASE (Advance(w) \/ Reduce(w)) /\ UNCHANGED loading
    <2>1. pc[w] \in {"advance", "reduce"}
      BY <1>5 DEF Advance, Reduce
    <2>2. call[w].register \in Nat /\ call[w].register + 1 \in Nat
      BY DEF Inv, Typed, Locals
    <2>3. \A n \in Nat : Reduced(n) \in Nat
      BY ReducedPlace
    <2>4. \E n \in Nat : Proceed(w, Reduced(n))
      BY <1>5, <2>2 DEF Advance, Reduce
    <2>. QED BY <1>5, <2>1, <2>3, <2>4, ProceedStep DEF loading
  <1>6. CASE Increment(w) /\ UNCHANGED loading
    <2>. DEFINE locals == [call[w] EXCEPT !.register = call[w].register + 1]
    <2>1. /\ module = "loaded" /\ \A s \in Processes : pc[s] # "replace" /\ Filled
          /\ call[w] \in Locals /\ Within(call[w], buff_size) /\ buff_size \in Nat \ {0, 1}
      BY <1>6, InsideFacts DEF Increment, Labels
    <2>2. locals \in Locals /\ Within(locals, buff_size) /\ curr_position' \in Nat
      <3>1. call[w].register + 1 \in Nat
        BY <2>1 DEF Locals
      <3>. QED BY <1>6, <2>1, <3>1 DEF Locals, Within, Increment
    <2>3. Filled'
      BY <1>6, <2>1 DEF Increment, Filled
    <2>. QED BY <1>6, <2>1, <2>2, <2>3, Continues DEF Increment, loading, Labels
  <1>7. CASE StoreAstray(w)
    BY <1>7 DEF StoreAstray
  <1>. QED BY <1>1, <1>2, <1>3, <1>4, <1>5, <1>6, <1>7 DEF circular_write

\* A read begins.
LEMMA BeginReadStep ==
  ASSUME Inv, NEW r \in Readers, BeginRead(r), trouble' = "none"
  PROVE  Inv'
  <1>. r \in Processes
    BY DEF Processes
  <1>1. /\ module = "loaded" /\ pc[r] = "user" /\ \A s \in Processes : pc[s] # "replace"
        /\ UNCHANGED <<buffer, buff_size, curr_position, module>>
    BY BeginFacts DEF BeginRead, Begin, ring, loading
  <1>2. buff_size \in Nat \ {0, 1} /\ Filled' /\ curr_position' \in Nat
    BY <1>1 DEF Inv, Typed, Placed, Filled
  <1>. QED BY <1>1, <1>2, BlankWithin, Continues DEF BeginRead, Labels

\* strlen stops at the last byte at the latest.
LEMMA ScanStep ==
  ASSUME Inv, NEW r \in Processes, Scan(r), UNCHANGED <<ring, module>>
  PROVE  Inv'
  <1>. DEFINE locals == [call[r] EXCEPT !.length = @ + 1]
  <1>1. /\ call[r] \in Locals /\ Within(call[r], buff_size) /\ Filled
        /\ buff_size \in Nat \ {0, 1}
    BY InsideFacts DEF Scan, Labels
  <1>2. call[r].length \in 0 .. buff_size - 2
    BY <1>1 DEF Scan, Filled, Within
  <1>3. locals \in Locals
    <2>1. call[r].length + 1 \in Nat
      BY <1>1, <1>2
    <2>. QED BY <1>1, <2>1 DEF Locals
  <1>4. Within(locals, buff_size)
    BY <1>1, <1>2 DEF Locals, Within
  <1>. QED BY <1>3, <1>4, QuietStep DEF Scan, Labels

\* copy_to_user gets bytes of the buffer only.
LEMMA CopyStep ==
  ASSUME Inv, NEW r \in Processes, Copy(r), UNCHANGED <<ring, module>>
  PROVE  Inv'
  <1>. DEFINE n == Len(call[r].text)
              locals == [call[r] EXCEPT !.text = Append(@, buffer[n])]
  <1>1. /\ call[r] \in Locals /\ Within(call[r], buff_size) /\ Filled
        /\ buff_size \in Nat \ {0, 1}
    BY InsideFacts DEF Copy, Labels
  <1>2. call[r].text \in Seq(Contents) /\ n \in 0 .. buff_size - 1
    BY <1>1 DEF Copy, Locals, Within
  <1>3. Append(call[r].text, buffer[n]) \in Seq(Contents)
    BY <1>1, <1>2 DEF Filled
  <1>4. locals \in Locals
    BY <1>1, <1>3 DEF Locals
  <1>5. Within(locals, buff_size)
    BY <1>1 DEF Locals, Within
  <1>. QED BY <1>4, <1>5, QuietStep DEF Copy, Labels

\* Every step of circular_read.
LEMMA ReadStep ==
  ASSUME Inv, NEW r \in Readers, circular_read(r), trouble' = "none"
  PROVE  Inv'
  <1>. r \in Processes
    BY DEF Processes
  <1>. DEFINE Kept == UNCHANGED <<ring, module>>
              locals == call[r]
  <1>1. CASE BeginRead(r)
    BY <1>1, BeginReadStep
  <1>2. CASE Scan(r) /\ Kept
    BY <1>2, ScanStep
  <1>3. CASE Copy(r) /\ Kept
    BY <1>3, CopyStep
  <1>4. CASE Kept /\ (Measure(r) \/ EndOfFile(r) \/ CopyFails(r) \/ EndRead(r))
    <2>1. pc[r] \in {"strlen", "copy"}
      BY <1>4 DEF Measure, EndOfFile, CopyFails, EndRead
    <2>2. locals \in Locals /\ Within(locals, buff_size)
      BY <2>1, InsideFacts DEF Labels
    <2>3. Continue(r, "copy", locals) \/ Return(r)
      BY <1>4 DEF Measure, EndOfFile, CopyFails, EndRead, ReturnRead
    <2>. QED BY <1>4, <2>1, <2>2, <2>3, QuietStep DEF Labels
  <1>. QED BY <1>1, <1>2, <1>3, <1>4 DEF circular_read, loading

\* The process that replaces the buffer leaves one of its own size, with
\* nobody else inside.
LEMMA ReplaceStep ==
  ASSUME Inv, NEW s \in Sizers, Replace(s), module' = module
  PROVE  Inv'
  <1>. s \in Processes
    BY DEF Processes
  <1>. DEFINE size == call[s].value
  <1>1. /\ pc[s] = "replace" /\ module = "loaded" /\ curr_position \in Nat
        /\ size \in Nat \ {0, 1} /\ buff_size' = size
    BY DEF Replace, Inv, Typed, AtRest, Locals
  <1>2. Filled'
    BY <1>1 DEF Replace, Filled, Contents
  <1>3. curr_position' \in Nat
    <2>1. size - 1 \in Nat \ {0}
      BY <1>1
    <2>2. curr_position % (size - 1) \in 0 .. (size - 1) - 1
      BY <1>1, <2>1, Remainder
    <2>. QED BY <1>1, <2>2 DEF Replace
  <1>4. Blank \in Locals /\ Within(Blank, size)
    BY <1>1, BlankWithin
  <1>5. \A p \in Processes : pc'[p] = "user" /\ call'[p] = Blank
    BY <1>1 DEF Replace, Return, Continue, Inv, Typed, Alone, AtRest
  <1>6. Typed'
    BY <1>1, <1>3, <1>4 DEF Typed, Inv, Replace, Return, Continue, Labels
  <1>7. Fresh' /\ AtRest' /\ Alone'
    BY <1>1, <1>5 DEF Fresh, AtRest, Alone
  <1>8. Placed'
    BY <1>1, <1>2, <1>3, <1>4, <1>5 DEF Placed
  <1>. QED BY <1>6, <1>7, <1>8 DEF Inv

\* Every step of circular_proc_write.
LEMMA ResizeStep ==
  ASSUME Inv, NEW s \in Sizers, circular_proc_write(s), trouble' = "none"
  PROVE  Inv'
  <1>. s \in Processes
    BY DEF Processes
  <1>1. CASE RefuseResize(s)
    BY <1>1 DEF RefuseResize, ring, loading, Inv, Typed, Fresh, AtRest, Alone, Placed, Filled
  <1>2. ASSUME NEW value \in Values, BeginResize(s, value) PROVE Inv'
    <2>. DEFINE locals == [Blank EXCEPT !.value = value]
    <2>1. /\ module = "loaded" /\ \A p \in Processes : pc[p] = "user"
          /\ UNCHANGED <<buffer, buff_size, curr_position, module>>
          /\ Continue(s, "replace", locals)
      BY <1>2 DEF BeginResize, Inside, ring, loading
    <2>2. buff_size \in Nat \ {0, 1} /\ Filled'
      BY <2>1 DEF Inv, Typed, Placed, Filled
    <2>3. locals \in Locals /\ Within(locals, buff_size)
      BY <2>2, BlankWithin, CircularAssumption DEF Locals, Within
    <2>. HIDE DEF locals
    <2>4. Typed'
      BY <2>1, <2>3 DEF Inv, Typed, Continue, Labels
    <2>5. Fresh' /\ AtRest' /\ Alone'
      BY <2>1 DEF Inv, Typed, Fresh, AtRest, Alone, Continue
    <2>6. Placed'
      BY <2>1, <2>2, <2>3 DEF Inv, Typed, Placed, Continue, Within
    <2>. QED BY <2>4, <2>5, <2>6 DEF Inv
  <1>3. CASE Replace(s) /\ UNCHANGED loading
    BY <1>3, ReplaceStep DEF loading
  <1>4. CASE ReplaceByNothing(s)
    BY <1>4 DEF ReplaceByNothing
  <1>. QED BY <1>1, <1>2, <1>3, <1>4 DEF circular_proc_write

\* insmod fills the buffer with 0; rmmod that meets nobody leaves nobody.
LEMMA ModuleStep ==
  ASSUME Inv, circular_init \/ circular_exit, trouble' = "none",
         UNCHANGED <<buff_size, curr_position, pc, call>>
  PROVE  Inv'
  <1>1. Typed' /\ Alone'
    BY DEF Inv, Typed, Alone
  <1>2. CASE CreateEntry \/ Register
    BY <1>1, <1>2 DEF CreateEntry, Register, Inv, Fresh, AtRest, Placed
  <1>3. CASE Allocate
    <2>1. Fresh' /\ AtRest' /\ Fresh /\ module # "loaded"
      BY <1>3 DEF Allocate, Inv, Fresh, AtRest
    <2>2. ASSUME module' = "loaded" PROVE Placed'
      <3>1. /\ module = "registered" /\ buff_size' = Size /\ curr_position' = 0
            /\ buffer' = [k \in 0 .. Size - 1 |-> Nul]
        BY <1>3, <2>1, <2>2 DEF Allocate, Fresh
      <3>2. Filled'
        BY <3>1, CircularAssumption DEF Filled, Contents, Bytes
      <3>3. \A p \in Processes : call'[p] = Blank
        BY <2>1 DEF Inv, AtRest
      <3>4. Within(Blank, Size)
        BY BlankWithin, CircularAssumption
      <3>. QED BY <3>1, <3>2, <3>3, <3>4 DEF Placed
    <2>. QED BY <1>1, <2>1, <2>2 DEF Inv, Placed
  <1>4. CASE Unregister
    BY <1>1, <1>4 DEF Unregister, Inside, Inv, Fresh, AtRest, Placed
  <1>5. CASE Remove
    BY <1>1, <1>5 DEF Remove, Inv, Fresh, AtRest, Placed
  <1>. QED BY <1>2, <1>3, <1>4, <1>5 DEF circular_init, circular_exit

\* Every step keeps the invariant.
LEMMA StepInv == IInv /\ [Next]_vars => IInv'
  <1>1. ASSUME IInv, UNCHANGED vars PROVE IInv'
    BY <1>1 DEF vars, ring, loading, IInv, Inv, Typed, Fresh, AtRest, Alone, Placed, Filled
  <1>2. ASSUME IInv, Next, trouble' = "none" PROVE Inv'
    <2>. Inv
      BY <1>2 DEF IInv, Next
    <2>. QED BY <1>2, WriteStep, ReadStep, ResizeStep, ModuleStep DEF Next
  <1>. QED BY <1>1, <1>2 DEF IInv

\* The inductive invariant holds in every reachable state.
THEOREM Invariance == Spec => []IInv
  BY InitInv, StepInv, PTL DEF Spec

-----------------------------------------------------------------------------
\* What writers do to curr_position.  Outside a race one writer is inside, and
\* what it has at hand is curr_position.
OneWriter == race = "off" =>
  \A v, w \in Writers : pc[v] # "user" /\ pc[w] # "user" => v = w

AtHand == race = "off" => \A w \in Writers :
  /\ pc[w] = "address" /\ call[w].i # 0 => call[w].register = curr_position
  /\ pc[w] \in {"store", "advance", "reload", "reduce"} => call[w].register = curr_position

\* A writer that has stored the sum and not yet the remainder.
Between(w) == pc[w] \in {"reload", "reduce"}

\* Whoever is the last to store stores a remainder.
Settled == curr_position \in 0 .. buff_size - 2 \/ \E w \in Writers : Between(w)

\* With one store nobody ever sees the sum.
OneStore == build = "one store" =>
  \A w \in Writers : ~Between(w) /\ call[w].register \in 0 .. buff_size - 2

PosInv == race \in {"on", "off"} /\ OneWriter /\ AtHand /\ Settled /\ OneStore

\* The last conjunct is what the model stops with.
PInv == /\ build \in {"one store", "two stores"}
        /\ trouble = "none" => PosInv
        /\ trouble = "astray" => build = "two stores" /\ race = "on"

\* Before insmod nobody is inside.
LEMMA InitPos == Init => PInv
  <1>. SUFFICES ASSUME Init PROVE PInv
    OBVIOUS
  <1>1. \A p \in Processes : pc[p] = "user" /\ call[p] = Blank
    BY DEF Init
  <1>2. curr_position \in 0 .. buff_size - 2 /\ Blank.register \in 0 .. buff_size - 2
    <2>1. curr_position = 0 /\ buff_size = Size /\ Blank.register = 0
      BY DEF Init, Blank
    <2>. QED BY <2>1, CircularAssumption
  <1>3. OneWriter /\ AtHand /\ Settled /\ OneStore
    BY <1>1, <1>2 DEF OneWriter, AtHand, Settled, OneStore, Between, Processes
  <1>. QED BY <1>3 DEF Init, PInv, PosInv

\* The others at a step of a writer.
LEMMA WriterFrame ==
  ASSUME Inv, NEW w \in Writers, NEW label, NEW locals, Continue(w, label, locals)
  PROVE  /\ pc'[w] = label /\ call'[w] = locals
         /\ \A p \in Processes \ {w} : pc'[p] = pc[p] /\ call'[p] = call[p]
         /\ \A p \in Writers \ {w} : pc'[p] = pc[p] /\ call'[p] = call[p]
         /\ \A p \in Readers \cup Sizers : pc'[p] = pc[p] /\ call'[p] = call[p]
         /\ w \in Processes
  BY CircularAssumption DEF Continue, Processes, Inv, Typed

\* When a race ends, or there is none, only one writer was inside.
LEMMA RaceEnds ==
  ASSUME PosInv, NEW w \in Writers, pc[w] # "user", race' = race \/ EndRace(w)
  PROVE  /\ race' \in {"on", "off"}
         /\ race' = "off" => \A v \in Writers \ {w} : pc[v] = "user"
  BY DEF PosInv, OneWriter, EndRace, Inside

\* A write begins: nothing is at hand yet.
LEMMA BeginWritePos ==
  ASSUME Inv, PosInv, NEW w \in Writers, NEW count \in Counts, BeginWrite(w, count),
         build' = build
  PROVE  PosInv'
  <1>1. /\ pc[w] = "user" /\ UNCHANGED <<buff_size, curr_position>>
        /\ race' = IF Inside(Writers) # {} /\ count > 0 THEN "on" ELSE race
        /\ \/ Continue(w, "user", Blank) /\ count = 0
           \/ Continue(w, "address", [Blank EXCEPT !.count = count]) /\ count # 0
    BY DEF BeginWrite, Begin, Starts, Return, ring
  <1>2. /\ Blank.i = 0 /\ Blank.register = 0 /\ 0 \in 0 .. buff_size - 2
        /\ [Blank EXCEPT !.count = count].i = 0 /\ [Blank EXCEPT !.count = count].register = 0
    BY DEF Blank, Inv, Typed
  <1>3. /\ \A v \in Writers \ {w} : pc'[v] = pc[v] /\ call'[v] = call[v]
        /\ call'[w].i = 0 /\ call'[w].register = 0
        /\ (pc'[w] = "user" /\ count = 0) \/ (pc'[w] = "address" /\ count # 0)
    <2>. DEFINE begun == [Blank EXCEPT !.count = count]
    <2>1. begun.i = 0 /\ begun.register = 0
      BY <1>2
    <2>. HIDE DEF begun
    <2>2. CASE Continue(w, "user", Blank) /\ count = 0
      BY <1>2, <2>2, WriterFrame
    <2>3. CASE Continue(w, "address", begun) /\ count # 0
      BY <2>1, <2>3, WriterFrame
    <2>. QED BY <1>1, <2>2, <2>3 DEF begun
  <1>4. count \in Nat /\ race' \in {"on", "off"} /\ (race' = "off" => race = "off")
    BY <1>1, CircularAssumption DEF PosInv
  <1>5. OneWriter'
    BY <1>1, <1>3, <1>4 DEF PosInv, OneWriter, Inside
  <1>6. AtHand' /\ Settled' /\ OneStore'
    BY <1>1, <1>2, <1>3, <1>4 DEF PosInv, AtHand, Settled, OneStore, Between
  <1>. QED BY <1>4, <1>5, <1>6 DEF PosInv

\* A writer loads curr_position or keeps what it has, and stores no position.
LEMMA KeepPos ==
  ASSUME Inv, PosInv, NEW w \in Writers, NEW label, NEW n,
         Continue(w, label, [call[w] EXCEPT !.register = n]),
         UNCHANGED <<build, buff_size, curr_position, race>>,
         \/ pc[w] \in {"address", "load"} /\ label \in {"store", "advance"}
         \/ pc[w] = "store" /\ label = "load"
         \/ pc[w] = "reload" /\ label = "reduce",
         n \in {call[w].register, curr_position},
         label # "load" /\ race = "off" => n = curr_position,
         build = "one store" => n \in 0 .. buff_size - 2
  PROVE  PosInv'
  <1>1. call[w] \in Locals
    BY DEF Inv, Typed, Processes
  <1>. DEFINE locals == [call[w] EXCEPT !.register = n]
  <1>2. locals.register = n /\ Continue(w, label, locals)
    BY <1>1 DEF Locals
  <1>. HIDE DEF locals
  <1>3. /\ \A v \in Writers \ {w} : pc'[v] = pc[v] /\ call'[v] = call[v]
        /\ pc'[w] = label /\ call'[w].register = n
    BY <1>2, WriterFrame
  <1>4. OneWriter' /\ AtHand'
    BY <1>3 DEF PosInv, OneWriter, AtHand
  <1>5. Settled' /\ OneStore'
    BY <1>3 DEF PosInv, Settled, OneStore, Between
  <1>. QED BY <1>4, <1>5 DEF PosInv

\* A write fails.
LEMMA FailPos ==
  ASSUME Inv, PosInv, NEW w \in Writers, StoreFails(w), build' = build
  PROVE  PosInv'
  <1>1. /\ pc[w] = "store" /\ UNCHANGED <<buff_size, curr_position>> /\ EndRace(w)
        /\ Continue(w, "user", Blank)
    BY DEF StoreFails, Return, ring
  <1>2. Blank.register = 0 /\ 0 \in 0 .. buff_size - 2
    BY DEF Blank, Inv, Typed
  <1>3. /\ \A v \in Writers \ {w} : pc'[v] = pc[v] /\ call'[v] = call[v]
        /\ pc'[w] = "user" /\ call'[w].register = 0
    BY <1>1, <1>2, WriterFrame
  <1>4. /\ race' \in {"on", "off"}
        /\ race' = "off" => \A v \in Writers \ {w} : pc[v] = "user"
    BY <1>1, RaceEnds
  <1>5. OneWriter' /\ AtHand'
    BY <1>3, <1>4 DEF OneWriter, AtHand
  <1>6. Settled' /\ OneStore'
    BY <1>1, <1>2, <1>3 DEF PosInv, Settled, OneStore, Between
  <1>. QED BY <1>4, <1>5, <1>6 DEF PosInv

\* A writer stores a remainder: curr_position is a place again.
LEMMA ProceedPos ==
  ASSUME Inv, PosInv, NEW w \in Writers, NEW position \in 0 .. buff_size - 2,
         Proceed(w, position), pc[w] \in {"advance", "reduce"}, build' = build
  PROVE  PosInv'
  <1>. DEFINE locals == [call[w] EXCEPT !.i = @ + 1, !.register = position]
  <1>1. /\ curr_position' = position /\ buff_size' = buff_size
        /\ \/ Continue(w, "address", locals) /\ race' = race
           \/ Continue(w, "user", Blank) /\ EndRace(w)
    BY DEF Proceed, Return
  <1>2. call[w] \in Locals /\ Blank.register = 0 /\ 0 \in 0 .. buff_size - 2
    BY DEF Inv, Typed, Processes, Blank
  <1>3. locals.register = position
    BY <1>2 DEF Locals
  <1>. HIDE DEF locals
  <1>4. /\ \A v \in Writers \ {w} : pc'[v] = pc[v] /\ call'[v] = call[v]
        /\ \/ pc'[w] = "address" /\ call'[w].register = position /\ race' = race
           \/ pc'[w] = "user" /\ call'[w].register = 0 /\ EndRace(w)
    BY <1>1, <1>2, <1>3, WriterFrame
  <1>5. /\ race' \in {"on", "off"}
        /\ race' = "off" => \A v \in Writers \ {w} : pc[v] = "user"
    BY <1>4, RaceEnds
  <1>6. OneWriter' /\ AtHand'
    BY <1>1, <1>4, <1>5 DEF OneWriter, AtHand
  <1>7. Settled' /\ OneStore'
    BY <1>1, <1>2, <1>4 DEF PosInv, Settled, OneStore, Between
  <1>. QED BY <1>5, <1>6, <1>7 DEF PosInv

\* A writer stores the sum: it is between its two stores.
LEMMA IncrementPos ==
  ASSUME Inv, PosInv, NEW w \in Writers, Increment(w), build' = build
  PROVE  PosInv'
  <1>. DEFINE sum == call[w].register + 1
  <1>1. /\ build = "two stores" /\ pc[w] = "advance" /\ curr_position' = sum
        /\ UNCHANGED <<buff_size, race>>
        /\ Continue(w, "reload", [call[w] EXCEPT !.register = sum])
    BY DEF Increment
  <1>2. call[w] \in Locals
    BY DEF Inv, Typed, Processes
  <1>3. [call[w] EXCEPT !.register = sum].register = sum
    BY <1>2 DEF Locals
  <1>. HIDE DEF sum
  <1>4. /\ \A v \in Writers \ {w} : pc'[v] = pc[v] /\ call'[v] = call[v]
        /\ pc'[w] = "reload" /\ call'[w].register = sum
    BY <1>1, <1>3, WriterFrame
  <1>5. race' = "off" => \A v \in Writers \ {w} : pc[v] = "user"
    BY <1>1, RaceEnds
  <1>6. OneWriter' /\ AtHand'
    BY <1>1, <1>4, <1>5 DEF OneWriter, AtHand
  <1>7. Settled' /\ OneStore'
    BY <1>1, <1>4 DEF Settled, OneStore, Between
  <1>. QED BY <1>1, <1>6, <1>7 DEF PosInv

\* Every step of a writer.
LEMMA WritePos ==
  ASSUME Inv, PosInv, NEW w \in Writers, circular_write(w), trouble' = "none", build' = build
  PROVE  PosInv'
  <1>1. call[w] \in Locals /\ curr_position \in Nat /\ buff_size \in Nat \ {0, 1}
    BY DEF Inv, Typed, Processes
  <1>2. /\ build = "one store" => /\ curr_position \in 0 .. buff_size - 2
                                  /\ call[w].register \in 0 .. buff_size - 2
    BY DEF PosInv, Settled, OneStore
  <1>3. ASSUME NEW count \in Counts, BeginWrite(w, count) PROVE PosInv'
    BY <1>3, BeginWritePos
  <1>4. CASE Address(w)
    <2>1. PICK place \in {curr_position} \cup
                         (IF call[w].i = 0 THEN {} ELSE {call[w].register}) :
            Continue(w, "store", [call[w] EXCEPT !.register = place])
      BY <1>4 DEF Address
    <2>2. race = "off" => place = curr_position
      BY <1>4, <2>1 DEF Address, PosInv, AtHand
    <2>. QED BY <1>2, <1>4, <2>1, <2>2, KeepPos DEF Address, ring
  <1>5. CASE Store(w)
    <2>. DEFINE n == call[w].register
    <2>1. [call[w] EXCEPT !.register = n] = call[w]
      BY <1>1 DEF Locals
    <2>2. Continue(w, "load", [call[w] EXCEPT !.register = n])
      BY <1>5, <2>1 DEF Store
    <2>. QED BY <1>2, <1>5, <2>2, KeepPos DEF Store
  <1>6. CASE Load(w)
    BY <1>2, <1>6, KeepPos DEF Load, ring
  <1>7. CASE Reload(w)
    <2>1. PICK n \in {call[w].register, curr_position} :
            Continue(w, "reduce", [call[w] EXCEPT !.register = n])
      BY <1>7 DEF Reload
    <2>2. race = "off" => n = curr_position
      BY <1>7, <2>1 DEF Reload, PosInv, AtHand
    <2>. QED BY <1>2, <1>7, <2>1, <2>2, KeepPos DEF Reload, ring
  <1>8. CASE StoreFails(w)
    BY <1>8, FailPos
  <1>9. CASE Advance(w) \/ Reduce(w)
    <2>1. PICK n \in Nat : Proceed(w, Reduced(n)) /\ pc[w] \in {"advance", "reduce"}
      <3>1. call[w].register \in Nat /\ call[w].register + 1 \in Nat
        BY <1>1 DEF Locals
      <3>. QED BY <1>9, <3>1 DEF Advance, Reduce
    <2>. QED BY <2>1, ReducedPlace, ProceedPos
  <1>10. CASE Increment(w)
    BY <1>10, IncrementPos
  <1>11. CASE StoreAstray(w)
    BY <1>11 DEF StoreAstray
  <1>. QED
    BY <1>3, <1>4, <1>5, <1>6, <1>7, <1>8, <1>9, <1>10, <1>11 DEF circular_write

\* The steps of all others but a resize leave curr_position and writers alone.
LEMMA OthersPos ==
  ASSUME PosInv, UNCHANGED <<build, buff_size, curr_position, race>>,
         \A w \in Writers : pc'[w] = pc[w] /\ call'[w] = call[w]
  PROVE  PosInv'
  <1>1. OneWriter' /\ AtHand'
    BY DEF PosInv, OneWriter, AtHand
  <1>2. Settled' /\ OneStore'
    BY DEF PosInv, Settled, OneStore, Between
  <1>. QED BY <1>1, <1>2 DEF PosInv

\* Every step of a reader.
LEMMA ReadPos ==
  ASSUME Inv, PosInv, NEW r \in Readers, circular_read(r), build' = build
  PROVE  PosInv'
  <1>1. /\ UNCHANGED <<buff_size, curr_position, race>>
        /\ \E label, locals : Continue(r, label, locals)
    BY DEF circular_read, BeginRead, Begin, Scan, Measure, EndOfFile, Copy, CopyFails,
       EndRead, ReturnRead, Return, ring
  <1>2. \A w \in Writers : pc'[w] = pc[w] /\ call'[w] = call[w]
    BY <1>1, CircularAssumption DEF Continue, Processes, Inv, Typed
  <1>. QED BY <1>1, <1>2, OthersPos

\* Every step of a sizer: no writer is inside when it replaces the buffer.
LEMMA ResizePos ==
  ASSUME Inv, PosInv, NEW s \in Sizers, circular_proc_write(s), trouble' = "none",
         build' = build
  PROVE  PosInv'
  <1>. s \in Processes /\ s \notin Writers /\ Writers \subseteq Processes
    BY CircularAssumption DEF Processes
  <1>1. ASSUME NEW value \in Values, RefuseResize(s) \/ BeginResize(s, value) PROVE PosInv'
    <2>1. /\ UNCHANGED <<buff_size, curr_position, race>>
          /\ UNCHANGED <<pc, call>> \/ \E label, locals : Continue(s, label, locals)
      BY <1>1 DEF RefuseResize, BeginResize, ring
    <2>2. \A w \in Writers : pc'[w] = pc[w] /\ call'[w] = call[w]
      BY <2>1 DEF Continue, Inv, Typed
    <2>. QED BY <2>1, <2>2, OthersPos
  <1>2. CASE RefuseResize(s)
    BY <1>2, OthersPos DEF RefuseResize, ring
  <1>3. CASE Replace(s) /\ UNCHANGED race
    <2>. DEFINE size == call[s].value
    <2>1. /\ pc[s] = "replace" /\ size \in Nat \ {0, 1} /\ curr_position \in Nat
          /\ buff_size' = size /\ curr_position' = curr_position % (size - 1)
      BY <1>3 DEF Replace, Inv, Typed, Locals
    <2>2. curr_position' \in 0 .. size - 2
      <3>1. size - 1 \in Nat \ {0}
        BY <2>1
      <3>2. curr_position % (size - 1) \in 0 .. (size - 1) - 1
        BY <2>1, <3>1, Remainder
      <3>. QED BY <2>1, <3>2
    <2>3. \A w \in Writers : pc'[w] = "user" /\ call'[w] = Blank
      BY <1>3, <2>1 DEF Replace, Return, Continue, Inv, Typed, Alone, AtRest
    <2>4. Blank.register = 0 /\ 0 \in 0 .. size - 2
      BY <2>1 DEF Blank
    <2>5. OneWriter' /\ AtHand'
      BY <2>3 DEF OneWriter, AtHand
    <2>6. Settled' /\ OneStore'
      BY <2>1, <2>2, <2>3, <2>4 DEF Settled, OneStore, Between
    <2>. QED BY <1>3, <2>5, <2>6 DEF PosInv
  <1>4. CASE ReplaceByNothing(s)
    BY <1>4 DEF ReplaceByNothing
  <1>. QED BY <1>1, <1>2, <1>3, <1>4 DEF circular_proc_write

\* A byte goes astray only with two stores and in a race: else the place the
\* writer has is one of the ring.
LEMMA AstrayPos ==
  ASSUME Inv, PosInv, NEW w \in Writers, StoreAstray(w)
  PROVE  build # "one store" /\ race = "on"
  <1>1. /\ pc[w] = "store" /\ call[w].register \in Nat /\ call[w].register >= buff_size - 1
        /\ buff_size \in Nat \ {0, 1}
    BY DEF StoreAstray, Inv, Typed, Locals, Processes
  <1>2. build # "one store"
    <2>. DEFINE place == call[w].register
    <2>1. place \in Nat /\ place >= buff_size - 1 => place \notin 0 .. buff_size - 2
      <3>. HIDE DEF place
      <3>. QED BY <1>1
    <2>. QED BY <1>1, <2>1 DEF PosInv, OneStore
  <1>3. race # "off"
    <2>. SUFFICES ASSUME race = "off" PROVE FALSE
      OBVIOUS
    <2>1. call[w].register = curr_position /\ \A v \in Writers \ {w} : pc[v] = "user"
      BY <1>1 DEF PosInv, AtHand, OneWriter
    <2>2. curr_position \in 0 .. buff_size - 2
      BY <1>1, <2>1 DEF PosInv, Settled, Between
    <2>. QED BY <1>1, <2>1, <2>2
  <1>. QED BY <1>2, <1>3 DEF PosInv

\* Every step keeps what is said of curr_position.
LEMMA StepPos == IInv /\ PInv /\ [Next]_vars => PInv'
  <1>1. ASSUME PInv, UNCHANGED vars PROVE PInv'
    BY <1>1 DEF vars, ring, PInv, PosInv, OneWriter, AtHand, Settled, OneStore, Between
  <1>. SUFFICES ASSUME IInv, PInv, Next PROVE PInv'
    BY <1>1
  <1>2. Inv /\ PosInv /\ build' = build /\ build \in {"one store", "two stores"}
    BY DEF IInv, PInv, Next
  <1>3. ASSUME trouble' = "none" PROVE PosInv'
    <2>1. ASSUME NEW w \in Writers, circular_write(w) PROVE PosInv'
      BY <1>2, <1>3, <2>1, WritePos
    <2>2. ASSUME NEW r \in Readers, circular_read(r) PROVE PosInv'
      BY <1>2, <2>2, ReadPos
    <2>3. ASSUME NEW s \in Sizers, circular_proc_write(s) PROVE PosInv'
      BY <1>2, <1>3, <2>3, ResizePos
    <2>4. CASE UNCHANGED <<buff_size, curr_position, pc, call, race>>
      BY <1>2, <2>4, OthersPos
    <2>. QED BY <2>1, <2>2, <2>3, <2>4 DEF Next
  <1>4. ASSUME trouble' = "astray" PROVE build' = "two stores" /\ race' = "on"
    <2>1. PICK w \in Writers : StoreAstray(w)
      BY <1>4 DEF Next, circular_write, BeginWrite, Begin, Address, Store, StoreFails, Load,
         Advance, Increment, Reload, Reduce, Proceed, circular_read, BeginRead,
         circular_proc_write, RefuseResize, BeginResize, Replace, ReplaceByNothing,
         circular_init, CreateEntry, Register, Allocate, circular_exit, Unregister, Remove
    <2>. QED BY <1>2, <2>1, AstrayPos DEF StoreAstray
  <1>. QED BY <1>2, <1>3, <1>4 DEF PInv

\* What is said of curr_position holds in every reachable state.
LEMMA PosInvariance == Spec => []PInv
  BY InitPos, StepPos, Invariance, PTL DEF Spec

\* Reads and writes of /dev/circular stay inside its buffer and keep the 0 at
\* its end, whatever size the buffer has been given, as long as no resize,
\* insmod or rmmod meets them: in a build with one store to curr_position
\* however many processes are inside at once, in one with two stores unless
\* writes meet.
THEOREM Bounded == Spec => []InBounds
  <1>1. IInv /\ PInv => InBounds
    <2>. SUFFICES ASSUME IInv, PInv, Calm
                  PROVE  /\ DOMAIN buffer = 0 .. buff_size - 1 /\ buffer[buff_size - 1] = Nul
                         /\ \A r \in Readers : call[r].length \in 0 .. buff_size - 1
                         /\ Inside(Writers) = {} => curr_position \in 0 .. buff_size - 2
      BY DEF InBounds, PInv
    <2>1. Filled /\ \A p \in Processes : Within(call[p], buff_size)
      BY DEF Calm, IInv, Inv, Placed
    <2>2. \A r \in Readers : call[r].length \in 0 .. buff_size - 1
      BY <2>1 DEF Within, Processes
    <2>3. Inside(Writers) = {} => curr_position \in 0 .. buff_size - 2
      BY DEF Calm, PInv, PosInv, Settled, Between, Inside
    <2>. QED BY <2>1, <2>2, <2>3 DEF Filled
  <1>. QED BY <1>1, Invariance, PosInvariance, PTL

-----------------------------------------------------------------------------
\* The calls of one process and the text.
\* n bytes without a 0.
Solid(n) == \A k \in 0 .. n - 1 : buffer[k] # Nul

\* What strlen has passed is still no 0, unless one has been written since.
Scanned == \A r \in Readers : pc[r] = "strlen" =>
  call[r].text = << >> /\ (Nul \notin stored[r] => Solid(call[r].length))

\* What copy_to_user has taken is still the text, unless it has been written to.
Copied == \A r \in Readers : pc[r] = "copy" /\ stored[r] = {} =>
  /\ Solid(call[r].length) /\ buffer[call[r].length] = Nul
  /\ f_pos[r] < call[r].length /\ Len(call[r].text) <= call[r].length
  /\ \A k \in 1 .. Len(call[r].text) : call[r].text[k] = buffer[k - 1]

Asked == \A s \in Sizers : pc[s] = "replace" => call[s].value \in Values

Kept == /\ stored = [r \in Readers |-> stored[r]]
        /\ f_pos \in [Readers -> Nat] /\ got = [r \in Readers |-> got[r]]

TextInv == Kept /\ Scanned /\ Copied /\ Asked

TInv == trouble = "none" => TextInv

\* Before insmod nobody is inside.
LEMMA InitText == Init => TInv
  <1>. SUFFICES ASSUME Init PROVE TextInv
    BY DEF TInv
  <1>1. \A p \in Processes : pc[p] = "user"
    BY DEF Init
  <1>2. Kept
    BY DEF Init, Kept
  <1>. QED
    BY <1>1, <1>2 DEF TextInv, Scanned, Copied, Asked, Processes

\* What the readers and the sizers rely on stays when no byte is stored.
LEMMA OthersKeep ==
  ASSUME TextInv, UNCHANGED <<buffer, stored, files>>,
         \A p \in Readers \cup Sizers : pc'[p] = pc[p] /\ call'[p] = call[p]
  PROVE  TextInv'
  <1>1. Kept' /\ Asked'
    BY DEF TextInv, Kept, Asked, files
  <1>2. Scanned'
    BY DEF TextInv, Scanned, Solid
  <1>3. Copied'
    BY DEF TextInv, Copied, Solid, files
  <1>. QED BY <1>1, <1>2, <1>3 DEF TextInv

\* Every step of a writer: only a Store changes what the readers look at.
LEMMA WriteText ==
  ASSUME Inv, TextInv, NEW w \in Writers, circular_write(w), trouble' = "none"
  PROVE  TextInv'
  <1>1. CASE Store(w) /\ UNCHANGED files
    <2>1. \A p \in Readers \cup Sizers : pc'[p] = pc[p] /\ call'[p] = call[p]
      BY <1>1, WriterFrame DEF Store
    <2>2. PICK byte \in Bytes :
            /\ buffer' = [buffer EXCEPT ![call[w].register] = byte]
            /\ stored' = [r \in Readers |-> IF pc[r] = "user" THEN {} ELSE stored[r] \cup {byte}]
      BY <1>1 DEF Store
    <2>3. Kept' /\ Asked'
      BY <1>1, <2>1, <2>2 DEF TextInv, Kept, Asked, files
    <2>4. ASSUME NEW r \in Readers, pc'[r] = "strlen", Nul \notin stored'[r]
          PROVE  \A k \in 0 .. call'[r].length - 1 : buffer'[k] # Nul
      <3>1. pc[r] = "strlen" /\ Nul \notin stored[r] /\ byte # Nul /\ call'[r] = call[r]
        BY <2>1, <2>2, <2>4
      <3>2. /\ Filled /\ call[r].length \in 0 .. buff_size - 1 /\ buff_size \in Nat
            /\ Solid(call[r].length)
        BY <3>1, InsideFacts DEF Within, TextInv, Scanned, Processes, Labels
      <3>. QED BY <2>2, <3>1, <3>2 DEF Solid, Filled
    <2>5. Scanned'
      BY <2>1, <2>4 DEF TextInv, Scanned, Solid
    <2>6. Copied'
      BY <2>1, <2>2 DEF Copied
    <2>. QED BY <2>3, <2>5, <2>6 DEF TextInv
  <1>2. CASE ~(Store(w) /\ UNCHANGED files)
    <2>1. /\ UNCHANGED <<buffer, stored, files>>
          /\ \E label, locals : Continue(w, label, locals)
      BY <1>2 DEF circular_write, BeginWrite, Begin, Address, StoreAstray, StoreFails, Load,
         Advance, Increment, Reload, Reduce, Proceed, Return, ring
    <2>. QED BY <2>1, WriterFrame, OthersKeep
  <1>. QED BY <1>1, <1>2 DEF circular_write

\* The writers and the sizers at a step of a reader.
LEMMA ReaderFrame ==
  ASSUME Inv, NEW r \in Readers, NEW label, NEW locals, Continue(r, label, locals)
  PROVE  /\ pc'[r] = label /\ call'[r] = locals
         /\ \A p \in Processes \ {r} : pc'[p] = pc[p] /\ call'[p] = call[p]
         /\ \A p \in Writers \cup Sizers : pc'[p] = pc[p] /\ call'[p] = call[p]
         /\ \A p \in Readers \ {r} : pc'[p] = pc[p] /\ call'[p] = call[p]
         /\ r \in Processes
  BY CircularAssumption DEF Continue, Processes, Inv, Typed

\* A step of a reader concerns that reader only.
LEMMA ReaderAlone ==
  ASSUME TextInv, NEW r \in Readers, UNCHANGED ring,
         \A p \in Writers \cup Sizers : pc'[p] = pc[p] /\ call'[p] = call[p],
         \A p \in Readers \ {r} : /\ pc'[p] = pc[p] /\ call'[p] = call[p]
                                  /\ stored'[p] = stored[p] /\ f_pos'[p] = f_pos[p],
         Kept',
         pc'[r] = "strlen" =>
           call'[r].text = << >> /\ (Nul \notin stored'[r] => Solid(call'[r].length)),
         pc'[r] = "copy" /\ stored'[r] = {} =>
           /\ Solid(call'[r].length) /\ buffer[call'[r].length] = Nul
           /\ f_pos'[r] < call'[r].length /\ Len(call'[r].text) <= call'[r].length
           /\ \A k \in 1 .. Len(call'[r].text) : call'[r].text[k] = buffer[k - 1]
  PROVE  TextInv'
  <1>1. Asked'
    BY DEF TextInv, Asked
  <1>2. Scanned'
    BY DEF TextInv, Scanned, Solid, ring
  <1>3. Copied'
    BY DEF TextInv, Copied, Solid, ring
  <1>. QED BY <1>1, <1>2, <1>3 DEF TextInv

\* Every step of a reader.
LEMMA ReadText ==
  ASSUME Inv, TextInv, NEW r \in Readers, circular_read(r), trouble' = "none"
  PROVE  TextInv'
  <1>. r \in Processes
    BY DEF Processes
  <1>1. CASE BeginRead(r)
    <2>1. /\ Continue(r, "strlen", Blank) /\ UNCHANGED <<ring, files, stored>>
      BY <1>1 DEF BeginRead, Begin
    <2>2. Kept' /\ Solid(0)
      BY <2>1 DEF TextInv, Kept, files, Solid
    <2>3. Blank.length = 0 /\ Blank.text = << >>
      BY DEF Blank
    <2>. QED BY <2>1, <2>2, <2>3, ReaderFrame, ReaderAlone DEF files
  <1>. SUFFICES ASSUME ~BeginRead(r), UNCHANGED ring PROVE TextInv'
    BY <1>1 DEF circular_read
  <1>2. /\ call[r] \in Locals
        /\ \A label, locals : Continue(r, label, locals) =>
             /\ pc'[r] = label /\ call'[r] = locals
             /\ \A p \in Writers \cup Sizers : pc'[p] = pc[p] /\ call'[p] = call[p]
             /\ \A p \in Readers \ {r} : pc'[p] = pc[p] /\ call'[p] = call[p]
    BY ReaderFrame DEF Inv, Typed
  <1>3. CASE Scan(r)
    <2>. DEFINE locals == [call[r] EXCEPT !.length = @ + 1]
    <2>1. /\ Continue(r, "strlen", locals) /\ UNCHANGED <<files, stored>>
          /\ pc[r] = "strlen" /\ buffer[call[r].length] # Nul
      BY <1>3 DEF Scan
    <2>2. locals.length = call[r].length + 1 /\ call[r].length \in Nat /\ locals.text = << >>
      BY <1>2, <2>1 DEF Locals, TextInv, Scanned
    <2>. HIDE DEF locals
    <2>3. Nul \notin stored[r] => Solid(call[r].length + 1)
      BY <2>1, <2>2 DEF TextInv, Scanned, Solid
    <2>4. Kept'
      BY <2>1 DEF TextInv, Kept, files
    <2>. QED BY <1>2, <2>1, <2>2, <2>3, <2>4, ReaderAlone DEF files
  <1>4. CASE Measure(r)
    <2>1. /\ Continue(r, "copy", call[r]) /\ UNCHANGED <<files, stored>>
          /\ pc[r] = "strlen" /\ buffer[call[r].length] = Nul /\ f_pos[r] < call[r].length
      BY <1>4 DEF Measure
    <2>2. stored[r] = {} => Solid(call[r].length)
      BY <2>1 DEF TextInv, Scanned
    <2>3. Kept'
      BY <2>1 DEF TextInv, Kept, files
    <2>4. call[r].text = << >> /\ call[r].length \in Nat
      BY <1>2, <2>1 DEF Locals, TextInv, Scanned
    <2>. QED BY <1>2, <2>1, <2>2, <2>3, <2>4, ReaderAlone DEF files
  <1>5. CASE Copy(r)
    <2>. DEFINE n == Len(call[r].text)
                text == Append(call[r].text, buffer[n])
                locals == [call[r] EXCEPT !.text = Append(@, buffer[n])]
    <2>1. /\ Continue(r, "copy", locals) /\ UNCHANGED <<files, stored>>
          /\ pc[r] = "copy" /\ n < call[r].length
      BY <1>5 DEF Copy
    <2>2. /\ locals.length = call[r].length /\ locals.text = text
          /\ call[r].text \in Seq(Contents) /\ call[r].length \in Nat
      BY <1>2 DEF Locals
    <2>3. Kept'
      BY <2>1 DEF TextInv, Kept, files
    <2>4. /\ Len(text) = n + 1 /\ n \in Nat
          /\ \A k \in 1 .. n + 1 : text[k] = IF k = n + 1 THEN buffer[n] ELSE call[r].text[k]
      BY <2>2
    <2>. HIDE DEF locals, text
    <2>5. stored[r] = {} => \A k \in 1 .. n + 1 : text[k] = buffer[k - 1]
      BY <2>1, <2>4 DEF TextInv, Copied
    <2>6. stored[r] = {} =>
           /\ Solid(call[r].length) /\ buffer[call[r].length] = Nul
           /\ f_pos[r] < call[r].length
      BY <2>1 DEF TextInv, Copied
    <2>7. Len(text) <= call[r].length
      BY <2>1, <2>2, <2>4
    <2>. QED BY <1>2, <2>1, <2>2, <2>3, <2>4, <2>5, <2>6, <2>7, ReaderAlone DEF files
  <1>6. CASE EndOfFile(r) \/ CopyFails(r) \/ EndRead(r)
    <2>1. /\ Continue(r, "user", Blank) /\ stored' = [stored EXCEPT ![r] = {}]
          /\ got' = got \/ \E new : got' = [got EXCEPT ![r] = new]
          /\ f_pos' = f_pos \/ f_pos' = [f_pos EXCEPT ![r] = @ + call[r].length]
      BY <1>6 DEF EndOfFile, CopyFails, EndRead, ReturnRead, Return, files
    <2>2. call[r].length \in Nat
      BY <1>2 DEF Locals
    <2>3. \A p \in Readers \ {r} : stored'[p] = stored[p] /\ f_pos'[p] = f_pos[p]
      BY <2>1 DEF TextInv, Kept
    <2>4. f_pos' \in [Readers -> Nat]
      BY <2>1, <2>2 DEF TextInv, Kept
    <2>5. got' = [q \in Readers |-> got'[q]]
      <3>1. CASE got' = got
        BY <3>1 DEF TextInv, Kept
      <3>2. ASSUME NEW new, got' = [got EXCEPT ![r] = new] PROVE got' = [q \in Readers |-> got'[q]]
        BY <3>2 DEF TextInv, Kept
      <3>. QED BY <2>1, <3>1, <3>2
    <2>6. Kept'
      BY <2>1, <2>4, <2>5 DEF TextInv, Kept
    <2>. QED BY <1>2, <2>1, <2>3, <2>6, ReaderAlone
  <1>. QED BY <1>3, <1>4, <1>5, <1>6 DEF circular_read

\* Every step of a process that writes to /proc/circular: when it replaces the
\* buffer, no other is inside.
LEMMA ResizeText ==
  ASSUME Inv, TextInv, NEW s \in Sizers, circular_proc_write(s), trouble' = "none"
  PROVE  TextInv'
  <1>. s \in Processes /\ s \notin Readers /\ s \notin Writers
    BY CircularAssumption DEF Processes
  <1>1. CASE RefuseResize(s)
    BY <1>1 DEF RefuseResize, TextInv, Kept, Scanned, Copied, Asked, Solid, ring, files
  <1>2. ASSUME NEW value \in Values, BeginResize(s, value) PROVE TextInv'
    <2>. DEFINE locals == [Blank EXCEPT !.value = value]
    <2>1. /\ \A p \in Processes : pc[p] = "user"
          /\ UNCHANGED <<files, stored>> /\ Continue(s, "replace", locals)
      BY <1>2 DEF BeginResize, Inside
    <2>2. locals.value = value
      BY DEF Blank
    <2>. HIDE DEF locals
    <2>3. /\ pc'[s] = "replace" /\ call'[s].value = value
          /\ \A p \in Processes \ {s} : pc'[p] = "user"
      BY <2>1, <2>2 DEF Continue, Inv, Typed
    <2>4. Kept'
      BY <2>1 DEF TextInv, Kept, files
    <2>. QED
      BY <2>3, <2>4 DEF TextInv, Scanned, Copied, Asked, Processes
  <1>3. CASE Replace(s) /\ UNCHANGED <<files, stored>>
    <2>1. \A p \in Processes : pc'[p] = "user"
      BY <1>3 DEF Replace, Return, Continue, Inv, Typed, Alone
    <2>2. Kept'
      BY <1>3 DEF TextInv, Kept, files
    <2>. QED
      BY <2>1, <2>2 DEF TextInv, Scanned, Copied, Asked, Processes
  <1>4. CASE ReplaceByNothing(s)
    BY <1>4 DEF ReplaceByNothing
  <1>. QED BY <1>1, <1>2, <1>3, <1>4 DEF circular_proc_write

\* insmod and rmmod meet nobody inside.
LEMMA ModuleText ==
  ASSUME Inv, TextInv, circular_init \/ circular_exit, trouble' = "none",
         UNCHANGED <<buff_size, curr_position, pc, call, files, stored>>
  PROVE  TextInv'
  <1>1. UNCHANGED buffer \/ \A p \in Processes : pc[p] = "user"
    <2>1. CASE Allocate
      BY <2>1 DEF Allocate, Inv, AtRest
    <2>2. CASE Remove
      BY <2>2 DEF Remove, Inv, AtRest
    <2>. QED
      BY <2>1, <2>2 DEF circular_init, circular_exit, CreateEntry, Register, Unregister
  <1>2. Kept' /\ Asked'
    BY DEF TextInv, Kept, Asked, files
  <1>3. Scanned' /\ Copied'
    BY <1>1 DEF TextInv, Scanned, Copied, Solid, Processes, files
  <1>. QED BY <1>2, <1>3 DEF TextInv

\* Every step keeps what is said of the text.
LEMMA StepText == IInv /\ TInv /\ [Next]_vars => TInv'
  <1>1. ASSUME TInv, UNCHANGED vars PROVE TInv'
    BY <1>1 DEF vars, ring, files, TInv, TextInv, Kept, Scanned, Copied, Asked, Solid
  <1>2. ASSUME IInv, TInv, Next, trouble' = "none" PROVE TextInv'
    <2>. Inv /\ TextInv
      BY <1>2 DEF IInv, TInv, Next
    <2>. QED BY <1>2, WriteText, ReadText, ResizeText, ModuleText DEF Next
  <1>. QED BY <1>1, <1>2 DEF TInv

\* What is said of the text holds in every reachable state.
LEMMA TextInvariance == Spec => []TInv
  BY InitText, StepText, Invariance, PTL DEF Spec

-----------------------------------------------------------------------------
\* The variables of CircularText, and its actions on them.
Cells == IF There THEN [k \in 0 .. buff_size - 2 |-> buffer[k]]
                  ELSE [k \in 0 .. Size - 2 |-> Nul]
Place == Reduced(IF Moving THEN curr_position + 1 ELSE curr_position)

\* A place of the ring is its own remainder.
LEMMA PlaceReduced ==
  ASSUME Inv, NEW place \in 0 .. buff_size - 2
  PROVE  Reduced(place) = place
  <1>. DEFINE d == buff_size - 1
  <1>1. d \in Nat \ {0} /\ place \in 0 .. d - 1
    BY DEF Inv, Typed
  <1>. HIDE DEF d
  <1>2. place % d = place
    BY <1>1
  <1>. QED BY <1>2 DEF Reduced, d

\* CircularText counts as this module does.
LEMMA SameCardinality == ASSUME NEW S PROVE Text!Cardinality(S) = Cardinality(S)
  BY DEF Text!Cardinality, Cardinality

\* In a loaded module the ring of CircularText is the buffer but for its end.
LEMMA LoadedCells ==
  ASSUME Inv, module = "loaded"
  PROVE  /\ Cells = [k \in 0 .. buff_size - 2 |-> buffer[k]]
         /\ DOMAIN Cells = 0 .. buff_size - 2 /\ Cardinality(DOMAIN Cells) = buff_size - 1
         /\ buff_size \in Nat \ {0, 1} /\ Filled
  <1>1. Cells = [k \in 0 .. buff_size - 2 |-> buffer[k]] /\ DOMAIN Cells = 0 .. buff_size - 2
    BY DEF Cells, There
  <1>2. buff_size \in Nat \ {0, 1} /\ Filled
    BY DEF Inv, Typed, Placed
  <1>3. Cardinality(0 .. buff_size - 2) = buff_size - 1
    BY <1>2, FS_Interval
  <1>. QED BY <1>1, <1>2, <1>3

\* The text is what comes before the first 0.
LEMMA TextUpTo ==
  ASSUME Inv, module = "loaded", NEW n \in 0 .. buff_size - 1, Solid(n), buffer[n] = Nul
  PROVE  Text!Text = [k \in 1 .. n |-> buffer[k - 1]] /\ Len(Text!Text) = n
  <1>. DEFINE IsLength(m) == /\ \A k \in Text!Ring(m) : Cells[k] # Nul
                             /\ m \in DOMAIN Cells => Cells[m] = Nul
  <1>1. Text!Text = [k \in 1 .. Text!Length(Cells) |-> Cells[k - 1]]
    BY DEF Text!Text, Cells
  <1>2. Text!Length(Cells) = CHOOSE m \in 0 .. buff_size - 1 : IsLength(m)
    <2>1. Text!Length(Cells) = CHOOSE m \in 0 .. Cardinality(DOMAIN Cells) : IsLength(m)
      BY SameCardinality DEF Text!Length
    <2>2. Cardinality(DOMAIN Cells) = buff_size - 1
      BY LoadedCells
    <2>. HIDE DEF IsLength
    <2>. QED BY <2>1, <2>2
  <1>3. IsLength(n)
    BY LoadedCells DEF Solid, Filled, Text!Ring
  <1>4. ASSUME NEW m \in 0 .. buff_size - 1, IsLength(m) PROVE m = n
    <2>1. \A k \in 0 .. buff_size - 2 : Cells[k] = buffer[k]
      BY LoadedCells
    <2>2. ~(m < n)
      BY <1>4, <2>1, LoadedCells DEF Solid
    <2>3. ~(n < m)
      BY <1>4, <2>1, LoadedCells DEF Text!Ring
    <2>. QED BY <2>2, <2>3, LoadedCells
  <1>. HIDE DEF IsLength
  <1>5. Text!Length(Cells) = n
    BY <1>2, <1>3, <1>4
  <1>6. Text!Text = [k \in 1 .. n |-> buffer[k - 1]]
    BY <1>1, <1>5, LoadedCells
  <1>. QED BY <1>6

\* The length strlen finds is the text's at the moment it ends, unless a 0 has
\* been written meanwhile.
THEOREM LengthIsOfOneMoment == Spec => LengthOfOneMoment
  <1>1. IInv /\ TInv /\ [Next]_vars =>
          [\A r \in Readers :
             pc[r] = "strlen" /\ pc'[r] = "copy" /\ Nul \notin stored[r] =>
               call'[r].length = Len(Text!Text)]_vars
    <2>. SUFFICES ASSUME IInv, TInv, Next, NEW r \in Readers,
                         pc[r] = "strlen", pc'[r] = "copy", Nul \notin stored[r]
                  PROVE  call'[r].length = Len(Text!Text)
      OBVIOUS
    <2>. r \in Processes /\ Inv /\ TextInv
      BY DEF Processes, IInv, TInv, Next
    <2>1. Measure(r)
      <3>1. ASSUME NEW w \in Writers, circular_write(w) PROVE FALSE
        <4>1. (\E label, locals : Continue(w, label, locals)) \/ UNCHANGED pc
          BY <3>1 DEF circular_write, BeginWrite, Address, Store, StoreAstray, StoreFails, Load,
             Advance, Increment, Reload, Reduce, Proceed, Return
        <4>. QED BY <4>1, WriterFrame
      <3>2. ASSUME NEW q \in Readers, circular_read(q) PROVE Measure(r)
        <4>1. q = r
          <5>1. \E label, locals : Continue(q, label, locals)
            BY <3>2 DEF circular_read, BeginRead, Scan, Measure, EndOfFile, Copy, CopyFails,
               EndRead, ReturnRead, Return
          <5>. QED BY <5>1, ReaderFrame
        <4>. QED
          BY <3>2, <4>1, ReaderFrame
             DEF circular_read, BeginRead, Begin, Starts, Scan, EndOfFile, Copy, CopyFails,
                 EndRead, ReturnRead, Return
      <3>3. ASSUME NEW s \in Sizers, circular_proc_write(s) PROVE FALSE
        <4>1. (\E label, locals : label # "copy" /\ Continue(s, label, locals)) \/ UNCHANGED pc
          BY <3>3 DEF circular_proc_write, RefuseResize, BeginResize, Replace, ReplaceByNothing,
                      Return
        <4>. QED BY <4>1 DEF Continue, Inv, Typed
      <3>. QED BY <3>1, <3>2, <3>3 DEF Next
    <2>2. /\ module = "loaded" /\ call[r] \in Locals /\ Within(call[r], buff_size)
          /\ call'[r] = call[r] /\ buffer[call[r].length] = Nul
      BY <2>1, InsideFacts, ReaderFrame DEF Measure, Labels
    <2>3. call[r].length \in 0 .. buff_size - 1 /\ Solid(call[r].length)
      BY <2>2 DEF Within, TextInv, Scanned
    <2>. QED BY <2>2, <2>3, TextUpTo
  <1>. QED BY <1>1, Invariance, TextInvariance, PTL DEF Spec, LengthOfOneMoment

-----------------------------------------------------------------------------
\* A step of a process that neither stores, advances nor replaces: the ring and
\* the next place stay.
LEMMA QuietText ==
  ASSUME UNCHANGED <<ring, files>>, There' = There, Moving' = Moving
  PROVE  UNCHANGED Text!vars
  BY DEF Text!vars, ring, files, Reduced

\* Outside a race the steps of a write are one write of a byte, at its Store.
LEMMA WriteRefines ==
  ASSUME Inv, PosInv, NEW w \in Writers, circular_write(w), trouble' = "none", race = "off"
  PROVE  (\E byte \in Bytes : Text!Write(byte)) \/ UNCHANGED Text!vars
  <1>1. /\ \A v \in Writers \ {w} : pc[w] # "user" => pc[v] = "user"
        /\ \A label, locals : Continue(w, label, locals) =>
             /\ pc'[w] = label /\ \A v \in Writers \ {w} : pc'[v] = pc[v]
    BY WriterFrame DEF PosInv, OneWriter
  <1>2. /\ curr_position \in Nat /\ call[w].register \in Nat /\ buff_size \in Nat \ {0, 1}
        /\ pc[w] \in {"store", "advance", "reduce"} => call[w].register = curr_position
        /\ pc[w] = "store" => curr_position \in 0 .. buff_size - 2 /\ module = "loaded"
    BY <1>1 DEF Inv, Typed, Locals, Processes, PosInv, AtHand, Settled, Between, AtRest
  <1>3. ASSUME NEW count \in Counts, BeginWrite(w, count) PROVE UNCHANGED Text!vars
    <2>1. /\ UNCHANGED <<ring, loading, files>> /\ pc[w] = "user"
          /\ \E label \in {"user", "address"} : \E locals : Continue(w, label, locals)
      BY <1>3 DEF BeginWrite, Begin, Starts, Return
    <2>. QED BY <1>1, <2>1, QuietText DEF There, Moving, loading
  <1>4. CASE (Address(w) \/ StoreFails(w) \/ Load(w) \/ Reload(w)) /\ UNCHANGED <<loading, files>>
    <2>1. /\ UNCHANGED ring
          /\ \E label, locals : /\ Continue(w, label, locals)
                                /\ \/ pc[w] = "address" /\ label = "store"
                                   \/ pc[w] = "store" /\ label = "user"
                                   \/ pc[w] = "load" /\ label = "advance"
                                   \/ pc[w] = "reload" /\ label = "reduce"
      BY <1>4 DEF Address, StoreFails, Load, Reload, Return
    <2>2. Moving' = Moving
      BY <1>1, <2>1 DEF Moving
    <2>. QED BY <1>4, <2>1, <2>2, QuietText DEF There, loading
  <1>5. CASE Store(w) /\ UNCHANGED <<loading, files>>
    <2>1. /\ pc[w] = "store" /\ pc'[w] = "load" /\ \A v \in Writers \ {w} : pc[v] = "user"
          /\ UNCHANGED <<buff_size, curr_position>> /\ module = "loaded"
          /\ curr_position \in 0 .. buff_size - 2
      BY <1>1, <1>2, <1>5 DEF Store
    <2>2. PICK byte \in Bytes : buffer' = [buffer EXCEPT ![curr_position] = byte]
      BY <1>2, <1>5 DEF Store
    <2>3. ~Moving /\ Moving'
      BY <2>1 DEF Moving
    <2>4. There /\ There'
      BY <1>5, <2>1 DEF There, loading
    <2>5. Cells' = [Cells EXCEPT ![curr_position] = byte]
      <3>1. Cells = [k \in 0 .. buff_size - 2 |-> buffer[k]]
        BY <2>1, LoadedCells
      <3>2. Cells' = [k \in 0 .. buff_size - 2 |-> buffer'[k]]
        BY <2>1, <2>4 DEF Cells
      <3>3. buff_size \in Nat \ {0, 1} /\ DOMAIN buffer = 0 .. buff_size - 1
        BY <2>1, LoadedCells DEF Filled
      <3>. QED BY <2>1, <2>2, <3>1, <3>2, <3>3
    <2>6. Place = curr_position /\ Place' = (Place + 1) % Cardinality(DOMAIN Cells)
      <3>1. Place = curr_position
        BY <2>1, <2>3, PlaceReduced DEF Place
      <3>2. Place' = (curr_position + 1) % (buff_size - 1)
        BY <2>1, <2>3 DEF Place, Reduced
      <3>. QED BY <2>1, <3>1, <3>2, LoadedCells
    <2>7. UNCHANGED <<f_pos, got>>
      BY <1>5 DEF files
    <2>8. Text!Write(byte)
      BY <2>5, <2>6, <2>7, SameCardinality DEF Text!Write, Cells, Place
    <2>. QED BY <2>8
  <1>6. CASE (Advance(w) \/ Reduce(w) \/ Increment(w)) /\ UNCHANGED <<loading, files>>
    <2>. DEFINE n == IF pc[w] = "advance" THEN curr_position + 1 ELSE curr_position
    <2>1. /\ pc[w] \in {"advance", "reduce"} /\ pc'[w] \in {"address", "user", "reload"}
          /\ \A v \in Writers \ {w} : pc[v] = "user" /\ pc'[v] = "user"
          /\ UNCHANGED <<buffer, buff_size>> /\ curr_position' \in {n, Reduced(n)}
      BY <1>1, <1>2, <1>6 DEF Advance, Reduce, Increment, Proceed, Return
    <2>2. ~Moving' /\ Place = Reduced(n)
      BY <2>1 DEF Moving, Place
    <2>3. Place' = Place
      <3>1. n \in Nat
        BY <1>2
      <3>. HIDE DEF n
      <3>2. Place' = Reduced(curr_position')
        BY <2>1, <2>2 DEF Place, Reduced
      <3>3. Reduced(Reduced(n)) = Reduced(n)
        BY <3>1, ReducedPlace, PlaceReduced
      <3>. QED BY <2>1, <2>2, <3>2, <3>3
    <2>4. Cells' = Cells
      BY <1>6, <2>1 DEF Cells, There, loading
    <2>. QED BY <1>6, <2>3, <2>4 DEF Text!vars, Cells, Place, files
  <1>7. CASE StoreAstray(w)
    BY <1>7 DEF StoreAstray
  <1>. QED BY <1>3, <1>4, <1>5, <1>6, <1>7 DEF circular_write

\* A read beside which nothing was stored returns the text of that moment.
LEMMA ReadRefines ==
  ASSUME Inv, TextInv, NEW r \in Readers, circular_read(r), trouble' = "none", ~Torn
  PROVE  Text!Read(r) \/ UNCHANGED Text!vars
  <1>. r \in Processes
    BY DEF Processes
  <1>1. /\ UNCHANGED <<ring, loading>>
        /\ \E label, locals : Continue(r, label, locals)
    BY DEF circular_read, BeginRead, Begin, Scan, Measure, EndOfFile, Copy, CopyFails,
       EndRead, ReturnRead, Return
  <1>2. \A p \in Writers : pc'[p] = pc[p]
    BY <1>1, ReaderFrame
  <1>3. There' = There /\ Moving' = Moving
    BY <1>1, <1>2 DEF There, Moving, loading
  <1>4. CASE UNCHANGED files
    BY <1>1, <1>3, <1>4, QuietText
  <1>5. CASE ~UNCHANGED files
    <2>1. EndOfFile(r) \/ EndRead(r)
      BY <1>5 DEF circular_read, BeginRead, Begin, Scan, Measure, Copy, CopyFails
    <2>2. /\ pc[r] \in {"strlen", "copy"} /\ Continue(r, "user", Blank)
      BY <2>1 DEF EndOfFile, EndRead, ReturnRead, Return
    <2>3. stored[r] = {}
      BY <1>5, <2>2, ReaderFrame DEF Torn
    <2>4. /\ module = "loaded" /\ call[r] \in Locals /\ Within(call[r], buff_size)
      BY <2>2, InsideFacts DEF Labels
    <2>5. Solid(call[r].length) /\ buffer[call[r].length] = Nul
      BY <2>1, <2>3 DEF EndOfFile, EndRead, TextInv, Scanned, Copied
    <2>6. /\ Text!Text = [k \in 1 .. call[r].length |-> buffer[k - 1]]
          /\ Len(Text!Text) = call[r].length /\ call[r].length \in Nat
      BY <2>4, <2>5, TextUpTo DEF Within, Locals
    <2>7. CASE EndOfFile(r)
      <3>1. f_pos[r] >= Len(Text!Text) /\ got' = [got EXCEPT ![r] = << >>] /\ f_pos' = f_pos
        BY <2>6, <2>7 DEF EndOfFile
      <3>2. f_pos' = [f_pos EXCEPT ![r] = @ + Len(<< >>)]
        BY <3>1 DEF TextInv, Kept
      <3>. QED
        BY <1>1, <1>3, <3>1, <3>2 DEF Text!Read, ring, Reduced
    <2>8. CASE EndRead(r)
      <3>1. /\ pc[r] = "copy" /\ Len(call[r].text) = call[r].length
            /\ got' = [got EXCEPT ![r] = call[r].text]
            /\ f_pos' = [f_pos EXCEPT ![r] = @ + call[r].length]
        BY <2>8 DEF EndRead
      <3>2. /\ f_pos[r] < call[r].length
            /\ \A k \in 1 .. Len(call[r].text) : call[r].text[k] = buffer[k - 1]
        BY <2>3, <3>1 DEF TextInv, Copied
      <3>3. call[r].text = Text!Text
        <4>1. call[r].text \in Seq(Contents)
          BY <2>4 DEF Locals
        <4>2. call[r].text = [k \in 1 .. call[r].length |-> call[r].text[k]]
          BY <3>1, <4>1
        <4>. QED BY <2>6, <3>1, <3>2, <4>2
      <3>4. ~(f_pos[r] >= Len(Text!Text))
        BY <2>6, <3>2 DEF TextInv, Kept
      <3>. QED
        BY <1>1, <1>3, <2>6, <3>1, <3>3, <3>4 DEF Text!Read, ring, Reduced
    <2>. QED BY <2>1, <2>7, <2>8
  <1>. QED BY <1>4, <1>5

\* A resize keeps the bytes that fit, the end of the text and the place.
LEMMA ResizeRefines ==
  ASSUME Inv, PosInv, TextInv, NEW s \in Sizers, circular_proc_write(s), trouble' = "none"
  PROVE  (\E n \in {value - 1 : value \in Values \ {0, 1}} : Text!Resize(n))
         \/ UNCHANGED Text!vars
  <1>. s \in Processes /\ s \notin Writers
    BY CircularAssumption DEF Processes
  <1>1. CASE RefuseResize(s)
    BY <1>1, QuietText DEF RefuseResize, There, Moving, loading
  <1>2. ASSUME NEW value \in Values, BeginResize(s, value) PROVE UNCHANGED Text!vars
    <2>1. /\ UNCHANGED <<ring, loading, files>>
          /\ \A w \in Writers : pc'[w] = pc[w]
      BY <1>2 DEF BeginResize, Continue, Inv, Typed, Processes
    <2>. QED BY <2>1, QuietText DEF There, Moving, loading
  <1>3. CASE Replace(s) /\ UNCHANGED <<loading, files>>
    <2>0. /\ pc[s] = "replace" /\ module = "loaded" /\ call[s].value \in Values
          /\ call[s].value \in Nat \ {0, 1}
      BY <1>3 DEF Replace, Inv, Typed, AtRest, Locals, TextInv, Asked
    <2>. PICK size \in Values : size = call[s].value
      BY <2>0
    <2>. DEFINE n == size - 1
    <2>1. /\ pc[s] = "replace" /\ module = "loaded" /\ size \in Nat \ {0, 1}
          /\ buff_size' = size /\ curr_position' = curr_position % (size - 1)
      BY <1>3, <2>0 DEF Replace
    <2>2. \A p \in Writers : pc[p] = "user" /\ pc'[p] = "user"
      BY <1>3, <2>1 DEF Replace, Return, Continue, Inv, Typed, Alone, Processes
    <2>3. ~Moving /\ ~Moving' /\ There /\ There'
      BY <1>3, <2>1, <2>2 DEF Moving, There, loading
    <2>4. PICK new \in [0 .. size - 1 -> Bytes \cup {Garbage}] :
            Moved(new, size) /\ new[size - 1] = Nul /\ buffer' = new
      BY <1>3 DEF Replace
    <2>5. Cells' = [k \in 0 .. n - 1 |-> new[k]]
      BY <2>1, <2>3, <2>4 DEF Cells
    <2>6. Cells' \in [Text!Ring(n) -> Bytes \cup {Garbage}]
      BY <2>1, <2>4, <2>5 DEF Text!Ring
    <2>7. \A k \in Text!Ring(n) \cap DOMAIN Cells : Cells'[k] = Cells[k]
      <3>1. /\ DOMAIN Cells = 0 .. buff_size - 2 /\ buff_size \in Nat \ {0, 1}
            /\ \A k \in 0 .. buff_size - 2 : Cells[k] = buffer[k]
        BY <2>1, LoadedCells
      <3>2. \A k \in 0 .. size - 2 : Cells'[k] = new[k]
        BY <2>1, <2>5
      <3>3. \A k \in 0 .. size - 2 : k < buff_size => new[k] = buffer[k]
        BY <2>4 DEF Moved
      <3>. HIDE DEF Cells
      <3>. QED BY <2>1, <3>1, <3>2, <3>3 DEF Text!Ring
    <2>8. buff_size - 1 \in Text!Ring(n) => Cells'[buff_size - 1] = Nul
      BY <2>1, <2>4, <2>5, LoadedCells DEF Text!Ring, Moved, Filled
    <2>9. Place' = Place % n
      <3>1. curr_position \in 0 .. buff_size - 2 /\ curr_position \in Nat
        BY <2>2 DEF PosInv, Settled, Between, Inv, Typed
      <3>2. Place = curr_position
        BY <2>3, <3>1, PlaceReduced DEF Place
      <3>3. Place' = (curr_position % n) % n
        BY <2>1, <2>3 DEF Place, Reduced
      <3>4. n \in Nat \ {0}
        BY <2>1
      <3>. HIDE DEF n
      <3>5. curr_position % n \in 0 .. n - 1
        BY <3>1, <3>4, Remainder
      <3>6. (curr_position % n) % n = curr_position % n
        BY <3>4, <3>5
      <3>. QED BY <3>2, <3>3, <3>6
    <2>10. UNCHANGED <<f_pos, got>> /\ n \in {value - 1 : value \in Values \ {0, 1}}
      BY <1>3, <2>1 DEF files
    <2>11. Cardinality(DOMAIN Cells) = buff_size - 1
      BY <2>1, LoadedCells
    <2>12. Text!Resize(n)
      BY <2>6, <2>7, <2>8, <2>9, <2>10, <2>11, SameCardinality
         DEF Text!Resize, Cells, Place
    <2>. QED BY <2>10, <2>12
  <1>4. CASE ReplaceByNothing(s)
    BY <1>4 DEF ReplaceByNothing
  <1>. QED BY <1>1, <1>2, <1>3, <1>4 DEF circular_proc_write

\* insmod makes the empty ring that CircularText starts with; rmmod is outside
\* of it.
LEMMA ModuleRefines ==
  ASSUME Inv, circular_init \/ circular_exit, trouble = "none", trouble' = "none",
         UNCHANGED <<buff_size, curr_position, pc, call, files>>
  PROVE  UNCHANGED Text!vars \/ module' = "removed"
  <1>1. Moving' = Moving
    BY DEF Moving
  <1>2. CASE CreateEntry \/ Register \/ Unregister
    <2>1. There' = There /\ buffer' = buffer
      BY <1>2 DEF CreateEntry, Register, Unregister, There
    <2>. QED BY <1>1, <2>1, QuietText DEF ring
  <1>3. CASE Allocate
    <2>1. ~There /\ buff_size = Size /\ buff_size' = Size
      BY <1>3 DEF Allocate, There, Inv, Fresh
    <2>2. Cells' = Cells
      BY <1>3, <2>1, CircularAssumption DEF Allocate, Cells, There
    <2>3. Place' = Place
      BY <1>1, <2>1 DEF Place, Reduced
    <2>. QED BY <2>2, <2>3 DEF Text!vars, Cells, Place, files
  <1>4. CASE Remove
    BY <1>4 DEF Remove
  <1>. QED BY <1>2, <1>3, <1>4 DEF circular_init, circular_exit

\* One call after the other, the device is the ring of CircularText.
THEOREM Refinement == Spec => ImplementsText
  <1>1. Init => Text!Init
    <2>. SUFFICES ASSUME Init PROVE Text!Init
      OBVIOUS
    <2>1. ~There /\ ~Moving
      BY CircularAssumption DEF Init, There, Moving, Processes
    <2>2. Place = 0
      <3>1. 0 % (Size - 1) = 0
        BY CircularAssumption
      <3>2. curr_position = 0 /\ buff_size = Size
        BY DEF Init
      <3>. QED BY <2>1, <3>1, <3>2 DEF Place, Reduced
    <2>3. Cells = [k \in Text!Ring(Size - 1) |-> Nul]
      BY <2>1, CircularAssumption DEF Cells, Text!Ring
    <2>. QED BY <2>2, <2>3 DEF Init, Text!Init, Cells, Place
  <1>2. IInv /\ PInv /\ TInv /\ [Next]_vars =>
          [\/ UNCHANGED Text!vars \/ race = "on" \/ race' = "on" \/ Torn
           \/ trouble' # "none" \/ module' = "removed"
           \/ Text!Next]_(Text!vars)
    <2>1. ASSUME UNCHANGED vars PROVE UNCHANGED Text!vars
      BY <2>1 DEF vars, ring, files, loading, Text!vars, There, Moving, Reduced
    <2>. SUFFICES ASSUME IInv, PInv, TInv, Next, race # "on", ~Torn, trouble' = "none",
                         module' # "removed", ~UNCHANGED Text!vars
                  PROVE  Text!Next
      BY <2>1
    <2>2. Inv /\ PosInv /\ TextInv /\ race = "off" /\ trouble = "none"
      BY DEF IInv, PInv, TInv, Next, PosInv
    <2>3. ASSUME NEW w \in Writers, circular_write(w) PROVE Text!Next
      BY <2>2, <2>3, WriteRefines DEF Text!Next
    <2>4. ASSUME NEW r \in Readers, circular_read(r) PROVE Text!Next
      BY <2>2, <2>4, ReadRefines DEF Text!Next
    <2>5. ASSUME NEW s \in Sizers, circular_proc_write(s) PROVE Text!Next
      BY <2>2, <2>5, ResizeRefines DEF Text!Next
    <2>. QED BY <2>2, <2>3, <2>4, <2>5, ModuleRefines DEF Next
  <1>. QED
    BY <1>1, <1>2, Invariance, PosInvariance, TextInvariance, PTL DEF Spec, ImplementsText
=============================================================================
