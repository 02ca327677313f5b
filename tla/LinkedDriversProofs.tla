------------------------ MODULE LinkedDriversProofs -------------------------
(***************************************************************************)
(* Classes5/linked_buffer for any number of processes, calls and lengths,  *)
(* in each of the four ways of locking: as long as no call of clean_list   *)
(* and no rmmod has met another call, nobody follows a pointer out of the  *)
(* list, no node is leaked, total_length does not run ahead of the list,   *)
(* and the driver implements the log of SharedLog.                         *)
(*                                                                         *)
(* The argument about the pointers (ListInv): only one writer links at a   *)
(* time, so that the tail it has loaded is still the tail; clean_list,     *)
(* when it meets nobody, is alone; and a node is told from every other by  *)
(* the call it was allocated in, so that what is freed is in nobody else's *)
(* hands.                                                                  *)
(*                                                                         *)
(* The argument about the bytes (DataInv): what a walk has copied is what  *)
(* the log holds from the file's position up to the node the walk is at,   *)
(* and stays so when nodes are linked at the end, so that at the last turn *)
(* the call returns what the log then holds; and total_length is at most   *)
(* the length of those nodes whose writer has counted them.                *)
(***************************************************************************)
EXTENDS LinkedDrivers, SequenceTheorems, FiniteSetTheorems, WellFoundedInduction, TLAPS

ReaderLabels == {"lock", "walk", "leave", "fault", "count", "increment"}
WriterLabels == {"chunk", "lock", "link", "synchronize", "grace", "account", "add",
                 "increment", "clean"}

\* Where a writer is in a chunk whose node is not in the list yet, and where it
\* is in one whose node is.
Making(w) == pc[w] \in {"chunk", "lock", "link", "clean"}
Made(w) == pc[w] \in {"synchronize", "grace", "account", "add"}

Placed == /\ pc = [p \in Processes |-> pc[p]] /\ call = [p \in Processes |-> call[p]]
          /\ \A p \in Processes : DOMAIN call[p] = DOMAIN Blank
          /\ \A r \in Readers : pc[r] \in ReaderLabels \cup {User}
          /\ \A w \in Writers : pc[w] \in WriterLabels \cup {User}
          /\ left \in [Processes -> Nat]
          /\ \A w \in Writers : left[w] \in 0 .. WriteCalls

Pointer == Range(buffer) \cup {ListHead}

\* The list holds no node twice, and the prev pointer of the head is its end.
Linear == /\ buffer \in Seq(Nodes)
          /\ \A j, k \in DOMAIN buffer : buffer[j] = buffer[k] => j = k
          /\ tail = Last(<<ListHead>> \o buffer)

\* A call of clean_list has the driver for itself.
CleansAlone == \A p, q \in Processes : pc[p] = "clean" /\ q # p => pc[q] = User

\* Who is in the driver is at a node of the list.
AtNodes == \A p \in Processes :
  /\ call[p].at \in Pointer
  /\ pc[p] = User => call[p].at = ListHead
  /\ pc[p] = "link" => call[p].at = tail
  /\ pc[p] = "clean" => /\ call[p].next \in Pointer
                        /\ call[p].at # ListHead => call[p].next # call[p].at

\* One writer links at a time.
OneLinks == /\ writing = {w \in Writers : pc[w] = "link"}
            /\ \A v, w \in writing : v = w

\* The chunk a call is at, and its node.
Chunked == \A w \in Writers :
  /\ Making(w) \/ Made(w) => call[w].count \in WriteCounts /\ call[w].i \in Nat
  /\ Unlinked(w) => /\ call[w].i < call[w].count
                    /\ call[w].node = Node(w, call[w].i, call[w].count)

\* The nodes of a writer in the list are those of its calls and chunks so far.
Older == \A k \in DOMAIN buffer : \A w \in Writers : buffer[k].by = w =>
  /\ buffer[k].nth >= left[w]
  /\ buffer[k].nth = left[w] => /\ Making(w) => buffer[k].i < call[w].i
                                /\ Made(w) => buffer[k].i <= call[w].i

\* The nodes in the hands of the writers.
Held == {call[w].node : w \in {v \in Writers : Unlinked(v)}}

ListInv == /\ Placed /\ Linear /\ CleansAlone /\ AtNodes /\ OneLinks /\ Chunked /\ Older
           /\ heap = Range(buffer) \cup Held

IInv == Overlapped \/ ListInv

-----------------------------------------------------------------------------
\* Neither the list head nor the poison is a node.
LEMMA NoNodes == ListHead \notin Nodes /\ Poison \notin Nodes /\ ListHead # Poison
  BY PointersAssumption

\* The pointers of the list as a ring.
LEMMA RingIs ==
  ASSUME NEW nodes \in Seq(Nodes)
  PROVE  LET ring == <<ListHead>> \o nodes \o <<ListHead>>
         IN /\ ring[1] = ListHead /\ ring[Len(nodes) + 2] = ListHead
            /\ \A k \in 1 .. Len(nodes) : ring[k + 1] = nodes[k]
  <1>. DEFINE ring == <<ListHead>> \o nodes \o <<ListHead>>
              All == Nodes \cup {ListHead}
  <1>1. <<ListHead>> \in Seq(All) /\ nodes \in Seq(All) /\ Len(nodes) \in Nat
    BY SeqMonotonic
  <1>2. /\ <<ListHead>> \o nodes \in Seq(All)
        /\ Len(<<ListHead>> \o nodes) = Len(nodes) + 1
        /\ (<<ListHead>> \o nodes)[1] = ListHead
        /\ \A k \in 1 .. Len(nodes) : (<<ListHead>> \o nodes)[k + 1] = nodes[k]
    BY <1>1
  <1>. HIDE DEF All
  <1>. QED BY <1>1, <1>2

\* The next pointer of the j-th node, or of the head, leads to the one after it.
LEMMA NextIs ==
  ASSUME NEW nodes \in Seq(Nodes), \A i, k \in DOMAIN nodes : nodes[i] = nodes[k] => i = k,
         NEW j \in 0 .. Len(nodes),
         NEW e \in Nexts(nodes, IF j = 0 THEN ListHead ELSE nodes[j])
  PROVE  e = IF j = Len(nodes) THEN ListHead ELSE nodes[j + 1]
  <1>. DEFINE ring == <<ListHead>> \o nodes \o <<ListHead>>
              d == IF j = 0 THEN ListHead ELSE nodes[j]
              n == Len(nodes)
              found == {k \in 1 .. n + 1 : ring[k] = d}
  <1>1. /\ n \in Nat /\ j \in 0 .. n /\ DOMAIN nodes = 1 .. n
        /\ \A k \in 1 .. n : nodes[k] # ListHead
    BY NoNodes
  <1>2. /\ ring[1] = ListHead /\ ring[n + 2] = ListHead
        /\ \A k \in 1 .. n : ring[k + 1] = nodes[k]
    BY RingIs
  <1>3. Nexts(nodes, d) = IF found = {} THEN {Poison} \cup Range(ring)
                                        ELSE {ring[k + 1] : k \in found}
    BY DEF Nexts
  <1>. HIDE DEF ring, n
  <1>4. ASSUME NEW k \in 1 .. n + 1 PROVE k \in found <=> k = j + 1
    <2>1. k = 1 => ring[k] = ListHead
      BY <1>2
    <2>2. k # 1 => ring[k] = nodes[k - 1] /\ k - 1 \in 1 .. n
      <3>1. k # 1 => k - 1 \in 1 .. n /\ (k - 1) + 1 = k
        BY <1>1
      <3>. QED BY <1>2, <3>1
    <2>3. ring[k] = d <=> k = j + 1
      <3>1. CASE j = 0
        BY <1>1, <2>1, <2>2, <3>1
      <3>2. CASE j # 0
        <4>1. d = nodes[j] /\ j \in 1 .. n /\ d # ListHead
          BY <1>1, <3>2
        <4>2. \A i \in 1 .. n : nodes[i] = nodes[j] => i = j
          BY <1>1, <4>1
        <4>. QED BY <1>1, <2>1, <2>2, <4>1, <4>2
      <3>. QED BY <3>1, <3>2
    <2>. QED BY <2>3
  <1>5. found = {j + 1}
    BY <1>1, <1>4
  <1>. HIDE DEF found
  <1>6. e = ring[(j + 1) + 1]
    BY <1>3, <1>5
  <1>7. CASE j = n
    BY <1>1, <1>2, <1>6, <1>7 DEF n
  <1>8. CASE j # n
    <2>1. j + 1 \in 1 .. n
      BY <1>1, <1>8
    <2>. QED BY <1>2, <1>6, <1>8, <2>1 DEF n
  <1>. QED BY <1>7, <1>8

\* The next pointer of the head or of a node of the list leads to the head or
\* to a node of the list, and from a node to another one.
LEMMA NextsInside ==
  ASSUME NEW nodes \in Seq(Nodes), NEW d \in Range(nodes) \cup {ListHead},
         \A j, k \in DOMAIN nodes : nodes[j] = nodes[k] => j = k
  PROVE  \A e \in Nexts(nodes, d) : /\ e \in Range(nodes) \cup {ListHead}
                                    /\ d # ListHead => e # d
  <1>. SUFFICES ASSUME NEW e \in Nexts(nodes, d)
                PROVE  /\ e \in Range(nodes) \cup {ListHead}
                       /\ d # ListHead => e # d
    OBVIOUS
  <1>. DEFINE n == Len(nodes)
  <1>1. /\ n \in Nat /\ DOMAIN nodes = 1 .. n
        /\ \A k \in 1 .. n : nodes[k] \in Range(nodes)
    BY DEF Range
  <1>2. PICK j \in 0 .. n : d = IF j = 0 THEN ListHead ELSE nodes[j]
    <2>1. CASE d = ListHead
      BY <1>1, <2>1
    <2>2. CASE d # ListHead
      <3>1. PICK k \in DOMAIN nodes : nodes[k] = d
        BY <2>2 DEF Range
      <3>. QED BY <1>1, <3>1
    <2>. QED BY <2>1, <2>2
  <1>3. e = IF j = n THEN ListHead ELSE nodes[j + 1]
    BY <1>2, NextIs
  <1>. HIDE DEF n
  <1>4. CASE j = n
    BY <1>3, <1>4
  <1>5. CASE j # n
    <2>1. j + 1 \in 1 .. n
      BY <1>1, <1>5
    <2>2. d # ListHead => d = nodes[j] /\ j \in 1 .. n /\ j # j + 1
      BY <1>1, <1>2
    <2>. QED BY <1>1, <1>3, <1>5, <2>1, <2>2
  <1>. QED BY <1>4, <1>5

\* A node that a writer makes is one of the nodes.
LEMMA NodeIsNode ==
  ASSUME NEW w \in Writers, left[w] \in 0 .. WriteCalls,
         NEW i \in Nat, NEW count \in WriteCounts, i < count
  PROVE  /\ Node(w, i, count) \in Nodes
         /\ Node(w, i, count).by = w /\ Node(w, i, count).nth = left[w]
         /\ Node(w, i, count).i = i
  <1>1. count \in Nat /\ INTERNAL_SIZE \in Nat \ {0}
    BY ProcessesAssumption
  <1>2. Least(INTERNAL_SIZE, count - i) \in 1 .. INTERNAL_SIZE
    BY <1>1 DEF Least
  <1>3. i \in UNION {0 .. c - 1 : c \in WriteCounts}
    <2>1. i \in 0 .. count - 1
      BY <1>1
    <2>. QED BY <2>1
  <1>. QED BY <1>2, <1>3 DEF Node, Nodes

\* A node of the list.
LEMMA ListedNode ==
  ASSUME Linear, NEW k \in DOMAIN buffer
  PROVE  /\ buffer[k] \in Nodes /\ buffer[k] \in Range(buffer)
         /\ buffer[k].nth \in Int /\ buffer[k].i \in Int
  <1>1. buffer[k] \in Nodes /\ buffer[k] \in Range(buffer)
    BY DEF Linear, Range
  <1>2. \A count \in WriteCounts : 0 .. count - 1 \subseteq Int
    OBVIOUS
  <1>. QED BY <1>1, <1>2 DEF Nodes

-----------------------------------------------------------------------------
\* A call goes on: what that does to the program counters and local variables.
LEMMA ContinueStep ==
  ASSUME Placed, NEW p \in Processes, NEW label, NEW locals, DOMAIN locals = DOMAIN Blank,
         Continue(p, label, locals)
  PROVE  /\ pc' = [q \in Processes |-> pc'[q]] /\ call' = [q \in Processes |-> call'[q]]
         /\ \A q \in Processes : DOMAIN call'[q] = DOMAIN Blank
         /\ pc'[p] = label /\ call'[p] = locals
         /\ \A q \in Processes \ {p} : pc'[q] = pc[q] /\ call'[q] = call[q]
  BY DEF Continue, Goto, Placed

\* A call goes on with its local variables as they are.
LEMMA GotoStep ==
  ASSUME Placed, NEW p \in Processes, NEW label, Goto(p, label), UNCHANGED call
  PROVE  /\ pc' = [q \in Processes |-> pc'[q]] /\ call' = [q \in Processes |-> call'[q]]
         /\ \A q \in Processes : DOMAIN call'[q] = DOMAIN Blank
         /\ pc'[p] = label /\ call'[p] = call[p]
         /\ \A q \in Processes \ {p} : pc'[q] = pc[q] /\ call'[q] = call[q]
  BY DEF Goto, Placed

\* p has moved, and nobody else.
Moved(p) == /\ pc' = [q \in Processes |-> pc'[q]] /\ call' = [q \in Processes |-> call'[q]]
            /\ \A q \in Processes : DOMAIN call'[q] = DOMAIN Blank
            /\ \A q \in Processes \ {p} : pc'[q] = pc[q] /\ call'[q] = call[q]

\* What the writers have in hand when one of them has moved.
LEMMA HeldStep ==
  ASSUME NEW p \in Processes, Moved(p)
  PROVE  /\ p \notin Writers \/ (~Unlinked(p) /\ ~Unlinked(p)') => Held' = Held
         /\ p \in Writers /\ Unlinked(p) /\ Unlinked(p)' /\ call'[p].node = call[p].node
              => Held' = Held
         /\ p \in Writers /\ ~Unlinked(p) /\ Unlinked(p)' => Held' = Held \cup {call'[p].node}
         /\ p \in Writers /\ Unlinked(p) /\ ~Unlinked(p)'
              /\ (\A w \in Writers \ {p} : Unlinked(w) => call[w].node # call[p].node)
              => Held' = Held \ {call[p].node}
  <1>1. \A w \in Writers \ {p} : /\ Unlinked(w)' <=> Unlinked(w)
                                /\ call'[w].node = call[w].node
    BY DEF Moved, Unlinked, Processes
  <1>. QED BY <1>1, Zenon DEF Held

\* No two writers have the same node, and none has one of the list.
LEMMA HeldApart ==
  ASSUME ListInv, NEW w \in Writers, Unlinked(w)
  PROVE  /\ call[w].node \in Nodes /\ call[w].node.by = w
         /\ call[w].node.nth = left[w] /\ call[w].node.i = call[w].i
         /\ call[w].node \notin Range(buffer)
         /\ \A v \in Writers \ {w} : Unlinked(v) => call[v].node # call[w].node
  <1>1. \A v \in Writers : Unlinked(v) =>
          /\ call[v].node \in Nodes /\ call[v].node.by = v
          /\ call[v].node.nth = left[v] /\ call[v].node.i = call[v].i
    <2>. SUFFICES ASSUME NEW v \in Writers, Unlinked(v)
                  PROVE  /\ call[v].node \in Nodes /\ call[v].node.by = v
                         /\ call[v].node.nth = left[v] /\ call[v].node.i = call[v].i
      OBVIOUS
    <2>1. /\ call[v].count \in WriteCounts /\ call[v].i \in Nat
          /\ call[v].i < call[v].count /\ call[v].node = Node(v, call[v].i, call[v].count)
          /\ left[v] \in 0 .. WriteCalls
      BY DEF ListInv, Chunked, Unlinked, Making, Placed
    <2>. QED BY <2>1, NodeIsNode
  <1>2. call[w].node \notin Range(buffer)
    <2>. SUFFICES ASSUME NEW k \in DOMAIN buffer, buffer[k] = call[w].node PROVE FALSE
      BY DEF Range
    <2>1. buffer[k].i < call[w].i /\ call[w].i \in Nat
      BY <1>1 DEF ListInv, Older, Unlinked, Making, Chunked
    <2>. QED BY <1>1, <2>1
  <1>. QED BY <1>1, <1>2

\* A step inside a call that leaves the list as it is, and begins neither to link
\* nor to clean.
LEMMA MoveStep ==
  ASSUME ListInv, NEW p \in Processes, Moved(p), UNCHANGED <<list, left, writing>>,
         pc[p] \notin {User, "link"}, call'[p].at \in Pointer,
         pc'[p] = User => call'[p].at = ListHead,
         p \in Readers => pc'[p] \in ReaderLabels \cup {User},
         p \in Writers =>
           \/ pc'[p] \in {User, "increment"}
           \/ /\ pc'[p] \in WriterLabels \ {"link", "clean"}
              /\ call'[p].count = call[p].count
              /\ Making(p) \/ Made(p)
              /\ \/ call'[p].i = call[p].i /\ (Made(p) <=> Made(p)')
                 \/ call'[p].i \in Nat /\ call'[p].i > call[p].i /\ pc'[p] = "chunk"
              /\ Unlinked(p)' => /\ call'[p].i < call'[p].count
                                 /\ call'[p].node = Node(p, call'[p].i, call'[p].count),
         heap' = Range(buffer) \cup Held'
  PROVE  ListInv'
  <1>. USE DEF User
  <1>1. Placed'
    BY DEF ListInv, Placed, Moved, Processes, WriterLabels
  <1>2. Linear' /\ Pointer' = Pointer /\ DOMAIN buffer' = DOMAIN buffer
    BY DEF ListInv, Linear, Pointer, list
  <1>3. pc'[p] # "clean" /\ pc'[p] # "link"
    BY DEF Processes, ReaderLabels, WriterLabels
  <1>4. CleansAlone'
    BY <1>3 DEF ListInv, CleansAlone, Moved
  <1>5. AtNodes'
    BY <1>2, <1>3 DEF ListInv, AtNodes, Moved, list
  <1>6. OneLinks'
    BY <1>3 DEF ListInv, OneLinks, Moved, Processes
  <1>7. Chunked'
    <2>. SUFFICES ASSUME NEW w \in Writers
                  PROVE  /\ (Making(w) \/ Made(w))'
                              => call'[w].count \in WriteCounts /\ call'[w].i \in Nat
                         /\ Unlinked(w)' => /\ call'[w].i < call'[w].count
                                            /\ call'[w].node = Node(w, call[w].i, call[w].count)'
      BY DEF Chunked
    <2>1. Node(w, call[w].i, call[w].count)' = Node(w, call'[w].i, call'[w].count)
      BY DEF Node
    <2>2. CASE w = p
      BY <2>1, <2>2 DEF ListInv, Chunked, Making, Made, Unlinked
    <2>3. CASE w # p
      BY <2>1, <2>3 DEF ListInv, Chunked, Making, Made, Unlinked, Moved, Processes
    <2>. QED BY <2>2, <2>3
  <1>8. Older'
    <2>. SUFFICES ASSUME NEW k \in DOMAIN buffer, NEW w \in Writers, buffer[k].by = w
                  PROVE  /\ buffer[k].nth >= left[w]
                         /\ buffer[k].nth = left[w] => /\ Making(w)' => buffer[k].i < call'[w].i
                                                       /\ Made(w)' => buffer[k].i <= call'[w].i
      BY <1>2 DEF Older, list
    <2>1. /\ buffer[k].nth >= left[w]
          /\ buffer[k].nth = left[w] => /\ Making(w) => buffer[k].i < call[w].i
                                        /\ Made(w) => buffer[k].i <= call[w].i
      BY DEF ListInv, Older
    <2>2. CASE w # p
      BY <2>1, <2>2 DEF Making, Made, Moved, Processes
    <2>3. CASE w = p
      <3>1. buffer[k].i \in Int
        BY ListedNode DEF ListInv
      <3>2. CASE pc'[p] \in {User, "increment"}
        BY <2>1, <2>3, <3>2 DEF Making, Made
      <3>3. CASE pc'[p] \notin {User, "increment"}
        <4>1. call[p].i \in Nat /\ (Making(p) \/ Made(p))
          BY <2>3, <3>3 DEF ListInv, Chunked
        <4>. QED BY <2>1, <2>3, <3>1, <3>3, <4>1 DEF Making, Made
      <3>. QED BY <3>2, <3>3
    <2>. QED BY <2>2, <2>3
  <1>9. Range(buffer') = Range(buffer)
    BY DEF list
  <1>. QED BY <1>1, <1>2, <1>4, <1>5, <1>6, <1>7, <1>8, <1>9 DEF ListInv

-----------------------------------------------------------------------------
\* The end of the list is its last node, or the head.
LEMMA EndOfList ==
  ASSUME NEW nodes \in Seq(Nodes)
  PROVE  Last(<<ListHead>> \o nodes) =
           IF nodes = << >> THEN ListHead ELSE nodes[Len(nodes)]
  <1>. DEFINE All == Nodes \cup {ListHead}
  <1>1. <<ListHead>> \in Seq(All) /\ nodes \in Seq(All)
    BY SeqMonotonic
  <1>2. /\ Len(<<ListHead>> \o nodes) = Len(nodes) + 1
        /\ (<<ListHead>> \o nodes)[1] = ListHead
        /\ \A k \in 1 .. Len(nodes) : (<<ListHead>> \o nodes)[k + 1] = nodes[k]
    BY <1>1
  <1>3. Len(nodes) \in Nat /\ (Len(nodes) = 0 <=> nodes = << >>)
    OBVIOUS
  <1>. QED BY <1>2, <1>3 DEF Last

\* A list without its k-th node.
LEMMA RemoveNode ==
  ASSUME NEW nodes \in Seq(Nodes), NEW k \in DOMAIN nodes,
         \A i, j \in DOMAIN nodes : nodes[i] = nodes[j] => i = j
  PROVE  LET rest == RemoveAt(nodes, k)
         IN /\ rest \in Seq(Nodes)
            /\ \A i, j \in DOMAIN rest : rest[i] = rest[j] => i = j
            /\ Range(rest) = Range(nodes) \ {nodes[k]}
            /\ \A i \in DOMAIN rest : \E j \in DOMAIN nodes : rest[i] = nodes[j]
            /\ k # Len(nodes) => Last(<<ListHead>> \o rest) = Last(<<ListHead>> \o nodes)
            /\ Len(rest) = Len(nodes) - 1
            /\ \A j \in 1 .. Len(nodes) - 1 : rest[j] = IF j < k THEN nodes[j] ELSE nodes[j + 1]
  <1>. DEFINE rest == RemoveAt(nodes, k)
              n == Len(nodes)
  <1>1. /\ n \in Nat /\ k \in 1 .. n /\ DOMAIN nodes = 1 .. n
        /\ \A j \in 1 .. n : nodes[j] \in Nodes
    OBVIOUS
  <1>2. /\ SubSeq(nodes, 1, k - 1) \in Seq(Nodes) /\ Len(SubSeq(nodes, 1, k - 1)) = k - 1
        /\ \A j \in 1 .. k - 1 : SubSeq(nodes, 1, k - 1)[j] = nodes[j]
    BY <1>1, SubSeqProperties
  <1>3. /\ SubSeq(nodes, k + 1, n) \in Seq(Nodes) /\ Len(SubSeq(nodes, k + 1, n)) = n - k
        /\ \A j \in 1 .. n - k : SubSeq(nodes, k + 1, n)[j] = nodes[k + j]
    BY <1>1, SubSeqProperties
  <1>4. /\ rest \in Seq(Nodes) /\ Len(rest) = n - 1 /\ DOMAIN rest = 1 .. n - 1
        /\ \A j \in 1 .. n - 1 : rest[j] = IF j < k THEN nodes[j] ELSE nodes[j + 1]
    <2>. HIDE DEF n
    <2>1. rest = SubSeq(nodes, 1, k - 1) \o SubSeq(nodes, k + 1, n)
      BY DEF RemoveAt, n
    <2>. DEFINE front == SubSeq(nodes, 1, k - 1)
                back == SubSeq(nodes, k + 1, n)
    <2>2. front \in Seq(Nodes) /\ back \in Seq(Nodes) /\ rest = front \o back
      BY <1>2, <1>3, <2>1
    <2>. HIDE DEF rest, front, back
    <2>3. /\ rest \in Seq(Nodes) /\ Len(rest) = (k - 1) + (n - k)
          /\ \A j \in 1 .. (k - 1) + (n - k) :
               rest[j] = IF j <= k - 1 THEN front[j] ELSE back[j - (k - 1)]
      <3>1. /\ rest \in Seq(Nodes) /\ Len(rest) = Len(front) + Len(back)
            /\ \A j \in 1 .. Len(front) + Len(back) :
                 rest[j] = IF j <= Len(front) THEN front[j] ELSE back[j - Len(front)]
        BY <2>2, ConcatProperties
      <3>2. Len(front) = k - 1 /\ Len(back) = n - k
        BY <1>2, <1>3 DEF front, back
      <3>. QED BY <3>1, <3>2
    <2>4. \A j \in 1 .. n - 1 : rest[j] = IF j < k THEN nodes[j] ELSE nodes[j + 1]
      <3>. SUFFICES ASSUME NEW j \in 1 .. n - 1
                    PROVE  rest[j] = IF j < k THEN nodes[j] ELSE nodes[j + 1]
        OBVIOUS
      <3>1. CASE j < k
        BY <3>1, <1>1, <1>2, <2>3 DEF front
      <3>2. CASE ~(j < k)
        <4>1. j - (k - 1) \in 1 .. n - k /\ k + (j - (k - 1)) = j + 1
          BY <3>2, <1>1
        <4>2. rest[j] = SubSeq(nodes, k + 1, n)[j - (k - 1)]
          BY <3>2, <1>1, <2>3 DEF back
        <4>. QED BY <3>2, <4>1, <4>2, <1>3
      <3>. QED BY <3>1, <3>2
    <2>. QED BY <1>1, <2>3, <2>4
  <1>. HIDE DEF rest, n
  <1>5. \A i, j \in 1 .. n - 1 : rest[i] = rest[j] => i = j
    <2>. SUFFICES ASSUME NEW i \in 1 .. n - 1, NEW j \in 1 .. n - 1, rest[i] = rest[j]
                  PROVE  i = j
      OBVIOUS
    <2>. DEFINE from(h) == IF h < k THEN h ELSE h + 1
    <2>1. /\ from(i) \in 1 .. n /\ from(j) \in 1 .. n
          /\ rest[i] = nodes[from(i)] /\ rest[j] = nodes[from(j)]
      BY <1>1, <1>4
    <2>2. from(i) = from(j)
      BY <1>1, <2>1
    <2>. QED BY <2>2, <1>1
  <1>6. \A i \in 1 .. n - 1 : \E j \in 1 .. n : j # k /\ rest[i] = nodes[j]
    <2>1. ASSUME NEW i \in 1 .. n - 1 PROVE \E j \in 1 .. n : j # k /\ rest[i] = nodes[j]
      <3>1. CASE i < k
        BY <3>1, <1>1, <1>4
      <3>2. CASE ~(i < k)
        <4>1. i + 1 \in 1 .. n /\ i + 1 # k /\ rest[i] = nodes[i + 1]
          BY <3>2, <1>1, <1>4
        <4>. QED BY <4>1
      <3>. QED BY <3>1, <3>2
    <2>. QED BY <2>1
  <1>7. \A j \in 1 .. n : j # k => \E i \in 1 .. n - 1 : rest[i] = nodes[j]
    <2>1. ASSUME NEW j \in 1 .. n, j # k PROVE \E i \in 1 .. n - 1 : rest[i] = nodes[j]
      <3>1. CASE j < k
        BY <3>1, <1>1, <1>4
      <3>2. CASE j > k
        <4>1. j - 1 \in 1 .. n - 1 /\ ~(j - 1 < k) /\ (j - 1) + 1 = j
          BY <3>2, <1>1
        <4>. QED BY <4>1, <1>4
      <3>. QED BY <2>1, <3>1, <3>2, <1>1
    <2>. QED BY <2>1
  <1>8. Range(rest) = Range(nodes) \ {nodes[k]}
    <2>1. ASSUME NEW i \in 1 .. n - 1 PROVE rest[i] \in Range(nodes) \ {nodes[k]}
      <3>1. PICK j \in 1 .. n : j # k /\ rest[i] = nodes[j]
        BY <1>6
      <3>. QED BY <3>1, <1>1 DEF Range
    <2>2. ASSUME NEW j \in 1 .. n, nodes[j] # nodes[k] PROVE nodes[j] \in Range(rest)
      <3>1. PICK i \in 1 .. n - 1 : rest[i] = nodes[j]
        BY <2>2, <1>7
      <3>. QED BY <3>1, <1>4 DEF Range
    <2>3. Range(rest) = {rest[i] : i \in 1 .. n - 1} /\ Range(nodes) = {nodes[j] : j \in 1 .. n}
      BY <1>1, <1>4 DEF Range
    <2>. QED BY <2>1, <2>2, <2>3
  <1>9. k # n => Last(<<ListHead>> \o rest) = Last(<<ListHead>> \o nodes)
    <2>1. k # n => rest # << >> /\ nodes # << >> /\ rest[n - 1] = nodes[n]
      BY <1>1, <1>4
    <2>. QED BY <2>1, <1>4, EndOfList DEF n
  <1>. QED BY <1>1, <1>4, <1>5, <1>6, <1>8, <1>9 DEF rest, n

-----------------------------------------------------------------------------
\* Before insmod the list is empty and nobody is inside.
LEMMA InitIInv == Init => IInv
  <1>. SUFFICES ASSUME Init PROVE ListInv
    BY DEF IInv
  <1>. USE DEF User
  <1>1. \A p \in Processes : pc[p] = "user" /\ call[p] = Blank
    BY DEF Init, InitDriver
  <1>2. Range(buffer) = {} /\ DOMAIN buffer = {} /\ buffer \in Seq(Nodes)
    BY DEF Init, InitDriver, Range
  <1>3. tail = Last(<<ListHead>> \o buffer)
    BY <1>2, EndOfList DEF Init, InitDriver
  <1>4. Placed
    BY <1>1, ProcessesAssumption DEF Init, InitDriver, Placed, Processes
  <1>5. Held = {} /\ heap = {} /\ writing = {}
    BY <1>1 DEF Init, InitDriver, Held, Unlinked, Processes
  <1>6. OneLinks /\ Chunked
    BY <1>1, <1>5 DEF OneLinks, Chunked, Making, Made, Unlinked, Processes
  <1>7. AtNodes /\ CleansAlone
    BY <1>1 DEF AtNodes, CleansAlone, Pointer, Blank
  <1>. QED BY <1>2, <1>3, <1>4, <1>5, <1>6, <1>7 DEF ListInv, Linear, Older

\* A call begins when nobody cleans.
LEMMA BeginStep ==
  ASSUME ListInv, NEW p \in Processes, Begin(p), ~Overlapped', Moved(p),
         pc'[p] \in {User, IF p \in Readers THEN "lock" ELSE "chunk"},
         call'[p].at = ListHead,
         pc'[p] = "chunk" => call'[p].i = 0 /\ call'[p].count \in WriteCounts
  PROVE  ListInv'
  <1>. USE DEF User
  <1>1. /\ \A q \in Processes : pc[q] # "clean" /\ pc'[q] # "clean"
        /\ pc[p] = User /\ pc'[p] # "link"
    BY DEF Begin, Overlapped, Moved
  <1>2. /\ left' \in [Processes -> Nat] /\ left'[p] = left[p] - 1 /\ left[p] \in Nat
        /\ \A q \in Processes \ {p} : left'[q] = left[q]
        /\ \A w \in Writers : left'[w] \in 0 .. WriteCalls
    BY ProcessesAssumption DEF Begin, ListInv, Placed, Processes
  <1>3. Placed'
    BY <1>2, ProcessesAssumption
       DEF ListInv, Placed, Moved, Processes, WriterLabels, ReaderLabels
  <1>4. Linear' /\ Pointer' = Pointer /\ DOMAIN buffer' = DOMAIN buffer /\ buffer' = buffer
    BY DEF Begin, ListInv, Linear, Pointer, list
  <1>5. CleansAlone' /\ AtNodes'
    BY <1>1, <1>4 DEF ListInv, CleansAlone, AtNodes, Moved, Begin, list, Pointer
  <1>6. OneLinks'
    BY <1>1 DEF ListInv, OneLinks, Moved, Processes, Begin, locks
  <1>7. Chunked'
    <2>. SUFFICES ASSUME NEW w \in Writers
                  PROVE  /\ (Making(w) \/ Made(w))'
                              => call'[w].count \in WriteCounts /\ call'[w].i \in Nat
                         /\ Unlinked(w)' => /\ call'[w].i < call'[w].count
                                            /\ call'[w].node = Node(w, call[w].i, call[w].count)'
      BY DEF Chunked
    <2>1. CASE w = p
      BY <2>1, ProcessesAssumption DEF Making, Made, Unlinked
    <2>2. CASE w # p
      <3>1. Node(w, call[w].i, call[w].count)' = Node(w, call[w].i, call[w].count)
        BY <2>2, <1>2 DEF Node, Processes, Moved
      <3>. QED BY <2>2, <3>1 DEF ListInv, Chunked, Making, Made, Unlinked, Moved, Processes
    <2>. QED BY <2>1, <2>2
  <1>8. Older'
    <2>. SUFFICES ASSUME NEW k \in DOMAIN buffer, NEW w \in Writers, buffer[k].by = w
                  PROVE  /\ buffer[k].nth >= left'[w]
                         /\ buffer[k].nth = left'[w] => /\ Making(w)' => buffer[k].i < call'[w].i
                                                        /\ Made(w)' => buffer[k].i <= call'[w].i
      BY <1>4 DEF Older
    <2>1. /\ buffer[k].nth >= left[w] /\ buffer[k].nth \in Int
          /\ buffer[k].nth = left[w] => /\ Making(w) => buffer[k].i < call[w].i
                                        /\ Made(w) => buffer[k].i <= call[w].i
      BY ListedNode DEF ListInv, Older, Linear
    <2>2. CASE w # p
      BY <2>1, <2>2, <1>2 DEF Making, Made, Moved, Processes
    <2>3. CASE w = p
      BY <2>1, <2>3, <1>2
    <2>. QED BY <2>2, <2>3
  <1>9. Held' = Held /\ Range(buffer') = Range(buffer) /\ heap' = heap
    <2>1. ~Unlinked(p) /\ (p \in Writers => ~Unlinked(p)')
      BY <1>1, ProcessesAssumption DEF Unlinked
    <2>. QED BY <2>1, <1>4, HeldStep DEF Begin
  <1>. QED BY <1>3, <1>4, <1>5, <1>6, <1>7, <1>8, <1>9 DEF ListInv

\* The steps of a read inside the driver.
LEMMA ReadStep ==
  ASSUME ListInv, NEW r \in Readers,
         \/ EnterRead(r) \/ Walk(r) \/ LeaveRead(r) \/ FailRead(r) \/ LoadCount(r) \/ StoreCount(r)
         \/ pc[r] = "lock" /\ Return(r) /\ UNCHANGED <<list, heap, locks, left>>
  PROVE  ListInv'
  <1>. USE DEF User
  <1>. r \in Processes /\ r \notin Writers
    BY ProcessesAssumption DEF Processes
  <1>1. /\ Placed /\ DOMAIN call[r] = DOMAIN Blank /\ call[r].at \in Pointer
        /\ ListHead \in Pointer /\ Blank.at = ListHead
        /\ heap = Range(buffer) \cup Held
    BY DEF ListInv, Placed, AtNodes, Pointer, Blank
  <1>2. SUFFICES /\ Moved(r) /\ UNCHANGED <<list, left, writing, heap>>
                 /\ pc[r] \notin {User, "link"} /\ call'[r].at \in Pointer
                 /\ pc'[r] = User => call'[r].at = ListHead
                 /\ pc'[r] \in ReaderLabels \cup {User}
    <2>1. Held' = Held
      BY <1>2, HeldStep
    <2>2. heap' = Range(buffer) \cup Held'
      BY <1>1, <1>2, <2>1
    <2>. QED BY <1>2, <2>2, MoveStep
  <1>3. CASE EnterRead(r)
    BY <1>1, <1>3, GotoStep DEF EnterRead, Moved, ReaderLabels
  <1>4. CASE Walk(r)
    <2>1. PICK d \in Nexts(buffer, call[r].at) :
            \/ d = Poison /\ Die(r)
            \/ d = ListHead /\ Goto(r, "leave") /\ UNCHANGED call
            \/ d \notin {ListHead, Poison} /\ (Skip(r, d) \/ Copy(r, d) \/ CopyFaults(r))
      BY <1>4 DEF Walk
    <2>2. d \in Pointer /\ d # Poison
      <3>1. d \in Range(buffer) \cup {ListHead}
        BY <1>1, NextsInside DEF ListInv, Linear, Pointer
      <3>2. Poison \notin Range(buffer)
        BY NoNodes, ListedNode DEF ListInv, Range
      <3>. QED BY <3>1, <3>2, NoNodes DEF Pointer
    <2>3. UNCHANGED <<list, left, writing, heap>> /\ pc[r] = "walk"
      BY <1>4 DEF Walk, locks
    <2>4. CASE (Goto(r, "leave") \/ CopyFaults(r)) /\ UNCHANGED call
      BY <1>1, <2>3, <2>4, GotoStep DEF Moved, ReaderLabels, CopyFaults
    <2>5. ASSUME NEW label \in {"walk", "leave"}, NEW locals, Continue(r, label, locals),
                 DOMAIN locals = DOMAIN Blank, locals.at = d
          PROVE  /\ Moved(r) /\ call'[r].at \in Pointer
                 /\ pc'[r] # User /\ pc'[r] \in ReaderLabels
      BY <1>1, <2>2, <2>5, ContinueStep DEF Moved, ReaderLabels
    <2>6. CASE Skip(r, d)
      <3>. DEFINE locals == [call[r] EXCEPT !.at = d, !.pos = @ + d.length]
      <3>1. DOMAIN locals = DOMAIN Blank /\ locals.at = d
        BY <1>1 DEF Blank
      <3>2. Continue(r, "walk", locals)
        BY <2>6 DEF Skip
      <3>. QED BY <2>3, <2>5, <3>1, <3>2
    <2>7. CASE Copy(r, d)
      <3>. DEFINE to_copy == Least(d.length, call[r].count - call[r].copied)
                  copied == call[r].copied + to_copy
                  locals == [call[r] EXCEPT !.at = d, !.copied = copied, !.pos = @ + to_copy,
                                            !.real_length = @ + d.length,
                                            !.user = Append(@, [node |-> d, bytes |-> to_copy])]
                  label == IF copied >= call[r].count THEN "leave" ELSE "walk"
      <3>1. DOMAIN locals = DOMAIN Blank /\ locals.at = d
        BY <1>1 DEF Blank
      <3>2. Continue(r, label, locals)
        BY <2>7 DEF Copy
      <3>. HIDE DEF locals
      <3>. QED BY <2>3, <2>5, <3>1, <3>2
    <2>. QED BY <2>1, <2>2, <2>4, <2>6, <2>7 DEF CopyFaults
  <1>5. CASE LeaveRead(r)
    BY <1>1, <1>5, GotoStep DEF LeaveRead, UnlockRead, Moved, ReaderLabels
  <1>6. CASE FailRead(r)
    BY <1>1, <1>6, ContinueStep DEF FailRead, UnlockRead, Return, Moved, ReaderLabels
  <1>7. CASE LoadCount(r)
    BY <1>1, <1>7, ContinueStep DEF LoadCount, locks, Moved, ReaderLabels, Blank
  <1>8. CASE StoreCount(r)
    BY <1>1, <1>8, ContinueStep DEF StoreCount, Return, locks, Moved, ReaderLabels
  <1>9. CASE pc[r] = "lock" /\ Return(r) /\ UNCHANGED <<list, heap, locks, left>>
    BY <1>1, <1>9, ContinueStep DEF Return, locks, Moved, ReaderLabels
  <1>. QED BY <1>3, <1>4, <1>5, <1>6, <1>7, <1>8, <1>9

-----------------------------------------------------------------------------
\* What is known of a writer inside a call.
LEMMA WriterFacts ==
  ASSUME ListInv, NEW w \in Writers
  PROVE  /\ w \in Processes /\ w \notin Readers
         /\ Placed /\ DOMAIN call[w] = DOMAIN Blank /\ Blank.at = ListHead
         /\ call[w].at \in Pointer /\ ListHead \in Pointer
         /\ heap = Range(buffer) \cup Held
         /\ INTERNAL_SIZE \in Nat \ {0}
         /\ Making(w) \/ Made(w) => call[w].count \in WriteCounts /\ call[w].count \in Nat
                                    /\ call[w].i \in Nat
  BY ProcessesAssumption DEF ListInv, Placed, AtNodes, Pointer, Blank, Processes, Chunked

\* A writer gives up a chunk, or its call: a node it has in hand is freed.
LEMMA GiveUpStep ==
  ASSUME ListInv, NEW w \in Writers, Return(w), UNCHANGED <<list, left, writing>>,
         \/ pc[w] \in {"chunk", "increment"} /\ heap' = heap
         \/ pc[w] \in {"lock", "clean"} /\ heap' = heap \ {call[w].node}
  PROVE  ListInv'
  <1>. USE DEF User
  <1>1. /\ Moved(w) /\ pc'[w] = User /\ call'[w].at = ListHead
        /\ pc[w] \notin {User, "link"}
    BY WriterFacts, ContinueStep DEF Return, Moved
  <1>2. heap' = Range(buffer) \cup Held'
    <2>1. ~Unlinked(w)'
      BY <1>1 DEF Unlinked
    <2>2. CASE pc[w] \in {"chunk", "increment"} /\ heap' = heap
      <3>1. Held' = Held
        BY <1>1, <2>1, <2>2, WriterFacts, HeldStep DEF Unlinked
      <3>. QED BY <2>2, <3>1, WriterFacts
    <2>3. CASE pc[w] \in {"lock", "clean"} /\ heap' = heap \ {call[w].node}
      <3>1. Unlinked(w)
        BY <2>3 DEF Unlinked
      <3>2. /\ call[w].node \notin Range(buffer)
            /\ \A v \in Writers \ {w} : Unlinked(v) => call[v].node # call[w].node
        BY <3>1, HeldApart
      <3>3. Held' = Held \ {call[w].node}
        BY <1>1, <2>1, <3>1, <3>2, WriterFacts, HeldStep
      <3>. QED BY <2>3, <3>2, <3>3, WriterFacts
    <2>. QED BY <2>2, <2>3
  <1>. QED BY <1>1, <1>2, WriterFacts, MoveStep

\* A chunk begins: the end of the loop, a failure, or a node and the lock.
LEMMA ChunkStep ==
  ASSUME ListInv, NEW w \in Writers, pc[w] = "chunk", UNCHANGED <<list, left, writing>>,
         \/ EndLoop(w)
         \/ call[w].i < call[w].count /\ Allocate(w, Node(w, call[w].i, call[w].count))
  PROVE  ListInv'
  <1>. USE DEF User
  <1>0. call[w].i \in Nat /\ call[w].count \in WriteCounts /\ Making(w) /\ ~Unlinked(w)
    BY WriterFacts DEF Making, Unlinked
  <1>1. CASE EndLoop(w)
    <2>. DEFINE locals == [call[w] EXCEPT !.register = write_count]
    <2>1. DOMAIN locals = DOMAIN Blank /\ locals.at = call[w].at
      BY WriterFacts DEF Blank
    <2>2. Continue(w, "increment", locals) /\ heap' = heap
      BY <1>1 DEF EndLoop
    <2>. HIDE DEF locals
    <2>3. /\ Moved(w) /\ pc'[w] = "increment" /\ call'[w].at \in Pointer
      BY <2>1, <2>2, WriterFacts, ContinueStep DEF Moved
    <2>4. Held' = Held
      BY <1>0, <2>3, WriterFacts, HeldStep DEF Unlinked
    <2>5. heap' = Range(buffer) \cup Held'
      BY <2>2, <2>4, WriterFacts
    <2>. QED BY <2>3, <2>5, WriterFacts, MoveStep
  <1>2. CASE Return(w) /\ UNCHANGED heap
    BY <1>2, GiveUpStep
  <1>3. ASSUME call[w].i < call[w].count, NEW d, d = Node(w, call[w].i, call[w].count),
               Continue(w, "lock", [call[w] EXCEPT !.node = d]), heap' = heap \cup {d}
        PROVE  ListInv'
    <2>. DEFINE locals == [call[w] EXCEPT !.node = d]
    <2>1. /\ DOMAIN locals = DOMAIN Blank /\ locals.at = call[w].at /\ locals.node = d
          /\ locals.i = call[w].i /\ locals.count = call[w].count
      BY WriterFacts DEF Blank
    <2>. HIDE DEF locals
    <2>2. /\ Moved(w) /\ pc'[w] = "lock" /\ call'[w] = locals
      BY <1>3, <2>1, WriterFacts, ContinueStep DEF Moved, locals
    <2>3. Held' = Held \cup {d}
      BY <1>0, <2>1, <2>2, WriterFacts, HeldStep DEF Unlinked
    <2>4. heap' = Range(buffer) \cup Held'
      BY <1>3, <2>3, WriterFacts
    <2>5. ~Made(w) /\ ~Made(w)'
      BY <2>2 DEF Made
    <2>. QED BY <1>0, <1>3, <2>1, <2>2, <2>4, <2>5, WriterFacts, MoveStep DEF WriterLabels
  <1>. QED BY <1>1, <1>2, <1>3 DEF Allocate

\* What follows a chunk that is in the list: rcu's grace period and the addition to
\* total_length.
LEMMA AccountStep ==
  ASSUME ListInv, NEW w \in Writers, UNCHANGED <<list, left, writing, heap>>,
         \/ pc[w] = "synchronize" /\ Goto(w, "grace") /\ UNCHANGED call
         \/ pc[w] = "grace" /\ Goto(w, "account") /\ UNCHANGED call
         \/ LoadTotal(w) \/ StoreTotal(w)
  PROVE  ListInv'
  <1>. USE DEF User
  <1>1. /\ pc[w] \in {"synchronize", "grace", "account", "add"} /\ Made(w) /\ ~Unlinked(w)
        /\ call[w].i \in Nat
    BY WriterFacts DEF LoadTotal, StoreTotal, Made, Unlinked
  <1>2. SUFFICES /\ Moved(w) /\ pc'[w] \in {"grace", "account", "add", "chunk"}
                 /\ call'[w].at \in Pointer /\ call'[w].count = call[w].count
                 /\ \/ call'[w].i = call[w].i /\ pc'[w] # "chunk"
                    \/ call'[w].i \in Nat /\ call'[w].i > call[w].i /\ pc'[w] = "chunk"
    <2>1. /\ ~Unlinked(w)' /\ (pc'[w] # "chunk" => Made(w)')
          /\ pc'[w] \in WriterLabels \ {"link", "clean"} /\ pc'[w] # User
          /\ pc[w] \notin {User, "link"}
      BY <1>1, <1>2 DEF Unlinked, Made, WriterLabels
    <2>2. Held' = Held
      BY <1>1, <1>2, <2>1, WriterFacts, HeldStep
    <2>3. heap' = Range(buffer) \cup Held'
      BY <2>2, WriterFacts
    <2>. QED BY <1>1, <1>2, <2>1, <2>3, WriterFacts, MoveStep
  <1>3. CASE (Goto(w, "grace") \/ Goto(w, "account")) /\ UNCHANGED call
    BY <1>3, WriterFacts, GotoStep DEF Moved
  <1>4. CASE LoadTotal(w)
    <2>. DEFINE locals == [call[w] EXCEPT !.register = total_length]
    <2>1. /\ DOMAIN locals = DOMAIN Blank /\ locals.at = call[w].at
          /\ locals.i = call[w].i /\ locals.count = call[w].count
      BY WriterFacts DEF Blank
    <2>2. Continue(w, "add", locals)
      BY <1>4 DEF LoadTotal
    <2>. HIDE DEF locals
    <2>. QED BY <2>1, <2>2, WriterFacts, ContinueStep DEF Moved
  <1>5. CASE StoreTotal(w)
    <2>. DEFINE locals == [Blank EXCEPT !.count = call[w].count, !.i = call[w].i + INTERNAL_SIZE]
    <2>1. /\ DOMAIN locals = DOMAIN Blank /\ locals.at = ListHead
          /\ locals.i = call[w].i + INTERNAL_SIZE /\ locals.count = call[w].count
      BY DEF Blank
    <2>2. Continue(w, "chunk", locals)
      BY <1>5 DEF StoreTotal
    <2>. HIDE DEF locals
    <2>3. locals.i \in Nat /\ locals.i > call[w].i
      BY <1>1, <2>1, WriterFacts
    <2>. QED BY <2>1, <2>2, <2>3, WriterFacts, ContinueStep DEF Moved
  <1>. QED BY <1>3, <1>4, <1>5

-----------------------------------------------------------------------------
\* The prev pointer of the head leads into the list.
LEMMA TailInside == ListInv => tail \in Pointer
  <1>. SUFFICES ASSUME ListInv PROVE tail \in Pointer
    OBVIOUS
  <1>1. tail = IF buffer = << >> THEN ListHead ELSE buffer[Len(buffer)]
    BY EndOfList DEF ListInv, Linear
  <1>2. buffer # << >> => Len(buffer) \in DOMAIN buffer
    BY DEF ListInv, Linear
  <1>. QED BY <1>1, <1>2 DEF Pointer, Range

\* A writer takes the lock when no other has it, and loads the tail.
LEMMA EnterStep ==
  ASSUME ListInv, NEW w \in Writers, EnterWrite(w), writing = {}
  PROVE  ListInv'
  <1>. USE DEF User
  <1>. DEFINE locals == [call[w] EXCEPT !.at = tail]
  <1>1. /\ DOMAIN locals = DOMAIN Blank /\ locals.at = tail /\ locals.node = call[w].node
        /\ locals.i = call[w].i /\ locals.count = call[w].count
    BY WriterFacts DEF Blank
  <1>2. /\ Continue(w, "link", locals) /\ pc[w] = "lock" /\ writing' = {w}
        /\ UNCHANGED <<list, heap, left>>
    BY DEF EnterWrite
  <1>. HIDE DEF locals
  <1>3. /\ Moved(w) /\ pc'[w] = "link" /\ call'[w] = locals
    BY <1>1, <1>2, WriterFacts, ContinueStep DEF Moved
  <1>4. /\ Making(w) /\ Making(w)' /\ ~Made(w)' /\ Unlinked(w) /\ Unlinked(w)'
    BY <1>2, <1>3 DEF Making, Made, Unlinked
  <1>5. Placed'
    BY <1>2, <1>3, WriterFacts DEF Placed, Moved, Processes, WriterLabels
  <1>6. Linear' /\ Pointer' = Pointer /\ buffer' = buffer /\ Range(buffer') = Range(buffer)
    BY <1>2 DEF ListInv, Linear, Pointer, list
  <1>7. CleansAlone'
    BY <1>2, <1>3 DEF ListInv, CleansAlone, Moved, Processes
  <1>8. AtNodes'
    BY <1>1, <1>2, <1>3, <1>6, TailInside DEF ListInv, AtNodes, Moved, list
  <1>9. OneLinks'
    <2>1. \A v \in Writers : pc[v] # "link"
      BY DEF ListInv, OneLinks
    <2>. QED BY <1>2, <1>3, <2>1 DEF OneLinks, Moved, Processes
  <1>10. Chunked'
    <2>. SUFFICES ASSUME NEW v \in Writers
                  PROVE  /\ (Making(v) \/ Made(v))'
                              => call'[v].count \in WriteCounts /\ call'[v].i \in Nat
                         /\ Unlinked(v)' => /\ call'[v].i < call'[v].count
                                            /\ call'[v].node = Node(v, call[v].i, call[v].count)'
      BY DEF Chunked
    <2>1. Node(v, call[v].i, call[v].count)' = Node(v, call'[v].i, call'[v].count)
      BY <1>2 DEF Node
    <2>2. CASE v = w
      BY <1>1, <1>3, <1>4, <2>1, <2>2 DEF ListInv, Chunked
    <2>3. CASE v # w
      BY <1>3, <2>1, <2>3 DEF ListInv, Chunked, Making, Made, Unlinked, Moved, Processes
    <2>. QED BY <2>2, <2>3
  <1>11. Older'
    <2>1. \A v \in Writers : /\ call'[v].i = call[v].i
                             /\ Making(v)' => Making(v)
                             /\ Made(v)' => Made(v)
      BY <1>1, <1>3, <1>4 DEF Making, Made, Moved, Processes
    <2>. QED BY <1>2, <1>6, <2>1 DEF ListInv, Older
  <1>12. Held' = Held
    BY <1>1, <1>3, <1>4, WriterFacts, HeldStep
  <1>. QED BY <1>2, <1>5, <1>6, <1>7, <1>8, <1>9, <1>10, <1>11, <1>12 DEF ListInv

\* The node becomes the last one of the list, since the tail is still the one that
\* was loaded.
LEMMA LinkStep ==
  ASSUME ListInv, NEW w \in Writers, NEW label \in {"synchronize", "account"}, Link(w, label)
  PROVE  ListInv'
  <1>. USE DEF User
  <1>. DEFINE d == call[w].node
              n == Len(buffer)
  <1>1. /\ Moved(w) /\ pc[w] = "link" /\ pc'[w] = label /\ call'[w] = call[w]
        /\ UNCHANGED <<heap, left>> /\ writing' = writing \ {w}
    BY WriterFacts, GotoStep DEF Link, Moved
  <1>2. /\ Unlinked(w) /\ ~Unlinked(w)' /\ Making(w) /\ ~Making(w)' /\ Made(w)'
    BY <1>1 DEF Unlinked, Making, Made
  <1>3. /\ d \in Nodes /\ d.by = w /\ d.nth = left[w] /\ d.i = call[w].i
        /\ d \notin Range(buffer)
        /\ \A v \in Writers \ {w} : Unlinked(v) => call[v].node # d
    BY <1>2, HeldApart
  <1>4. /\ buffer \in Seq(Nodes) /\ n \in Nat /\ DOMAIN buffer = 1 .. n
        /\ \A i, j \in DOMAIN buffer : buffer[i] = buffer[j] => i = j
    BY DEF ListInv, Linear
  <1>5. /\ buffer' = Append(buffer, d) /\ tail' = d
    <2>1. call[w].at = Last(<<ListHead>> \o buffer)
      BY <1>1, WriterFacts DEF ListInv, AtNodes, Linear
    <2>. QED BY <2>1 DEF Link, AddTail
  <1>6. /\ buffer' \in Seq(Nodes) /\ Len(buffer') = n + 1 /\ DOMAIN buffer' = 1 .. n + 1
        /\ \A k \in 1 .. n : buffer'[k] = buffer[k]
        /\ buffer'[n + 1] = d
    BY <1>3, <1>4, <1>5, AppendProperties
  <1>. HIDE DEF d, n
  <1>7. Range(buffer') = Range(buffer) \cup {d}
    <2>1. ASSUME NEW k \in 1 .. n + 1 PROVE buffer'[k] \in Range(buffer) \cup {d}
      <3>1. k \in 1 .. n \/ k = n + 1
        BY <1>4
      <3>. QED BY <3>1, <1>4, <1>6 DEF Range
    <2>2. ASSUME NEW k \in 1 .. n PROVE buffer[k] \in Range(buffer')
      <3>1. k \in 1 .. n + 1 /\ buffer'[k] = buffer[k]
        BY <1>4, <1>6
      <3>. QED BY <3>1, <1>6 DEF Range
    <2>3. d \in Range(buffer')
      BY <1>4, <1>6 DEF Range
    <2>4. /\ Range(buffer) = {buffer[k] : k \in 1 .. n}
          /\ Range(buffer') = {buffer'[k] : k \in 1 .. n + 1}
      BY <1>4, <1>6 DEF Range
    <2>. QED BY <2>1, <2>2, <2>3, <2>4
  <1>8. Placed'
    BY <1>1, WriterFacts DEF Placed, Moved, Processes, WriterLabels
  <1>9. Linear'
    <2>1. tail' = Last(<<ListHead>> \o buffer')
      <3>1. Last(<<ListHead>> \o buffer') = IF buffer' = << >> THEN ListHead
                                                             ELSE buffer'[Len(buffer')]
        BY <1>6, EndOfList
      <3>2. buffer' # << >>
        BY <1>4, <1>6
      <3>. QED BY <1>5, <1>6, <3>1, <3>2
    <2>2. \A k \in 1 .. n : buffer[k] # d
      BY <1>3, <1>4 DEF Range
    <2>3. ASSUME NEW i \in 1 .. n + 1, NEW j \in 1 .. n + 1, buffer'[i] = buffer'[j]
          PROVE  i = j
      <3>1. (i \in 1 .. n \/ i = n + 1) /\ (j \in 1 .. n \/ j = n + 1)
        BY <1>4
      <3>. QED BY <1>4, <1>6, <2>2, <2>3, <3>1
    <2>. QED BY <1>6, <2>1, <2>3 DEF Linear
  <1>10. CleansAlone'
    BY <1>1 DEF ListInv, CleansAlone, Moved, Processes
  <1>11. AtNodes'
    <2>1. Pointer \subseteq Pointer'
      BY <1>7 DEF Pointer
    <2>2. \A q \in Processes : pc'[q] # "clean" /\ pc'[q] # "link"
      <3>1. \A q \in Processes : pc[q] # "clean"
        BY <1>1, WriterFacts DEF ListInv, CleansAlone
      <3>2. \A q \in Processes \ {w} : pc[q] # "link"
        BY <1>1 DEF ListInv, OneLinks, Placed, Processes, ReaderLabels
      <3>. QED BY <1>1, <3>1, <3>2 DEF Moved
    <2>. QED BY <1>1, <2>1, <2>2 DEF ListInv, AtNodes, Moved
  <1>12. OneLinks'
    BY <1>1 DEF ListInv, OneLinks, Moved, Processes
  <1>13. Chunked'
    <2>. SUFFICES ASSUME NEW v \in Writers
                  PROVE  /\ (Making(v) \/ Made(v))'
                              => call'[v].count \in WriteCounts /\ call'[v].i \in Nat
                         /\ Unlinked(v)' => /\ call'[v].i < call'[v].count
                                            /\ call'[v].node = Node(v, call[v].i, call[v].count)'
      BY DEF Chunked
    <2>1. Node(v, call[v].i, call[v].count)' = Node(v, call'[v].i, call'[v].count)
      BY <1>1 DEF Node
    <2>2. CASE v = w
      BY <1>1, <1>2, <2>2 DEF ListInv, Chunked
    <2>3. CASE v # w
      BY <1>1, <2>1, <2>3 DEF ListInv, Chunked, Making, Made, Unlinked, Moved, Processes
    <2>. QED BY <2>2, <2>3
  <1>14. Older'
    <2>. SUFFICES ASSUME NEW k \in 1 .. n + 1, NEW v \in Writers, buffer'[k].by = v
                  PROVE  /\ buffer'[k].nth >= left[v]
                         /\ buffer'[k].nth = left[v] => /\ Making(v)' => buffer'[k].i < call'[v].i
                                                        /\ Made(v)' => buffer'[k].i <= call'[v].i
      BY <1>1, <1>6 DEF Older
    <2>0. left[v] \in Int /\ call[w].i \in Int
      BY <1>2, WriterFacts DEF Placed
    <2>1. CASE k = n + 1
      BY <1>1, <1>2, <1>3, <1>6, <2>0, <2>1
    <2>2. CASE k \in 1 .. n
      <3>1. /\ buffer'[k] = buffer[k] /\ buffer[k].i \in Int
            /\ buffer[k].nth >= left[v]
            /\ buffer[k].nth = left[v] => /\ Making(v) => buffer[k].i < call[v].i
                                          /\ Made(v) => buffer[k].i <= call[v].i
        BY <1>4, <1>6, <2>2, ListedNode DEF ListInv, Older
      <3>2. CASE v = w
        BY <1>1, <1>2, <2>0, <3>1, <3>2
      <3>3. CASE v # w
        BY <1>1, <3>1, <3>3 DEF Making, Made, Moved, Processes
      <3>. QED BY <3>2, <3>3
    <2>. QED BY <1>4, <2>1, <2>2
  <1>15. heap' = Range(buffer') \cup Held'
    <2>1. Held' = Held \ {d}
      BY <1>1, <1>2, <1>3, WriterFacts, HeldStep DEF d
    <2>2. d \in Held
      BY <1>2 DEF Held, d
    <2>. QED BY <1>1, <1>7, <2>1, <2>2, WriterFacts
  <1>. QED BY <1>8, <1>9, <1>10, <1>11, <1>12, <1>13, <1>14, <1>15 DEF ListInv

-----------------------------------------------------------------------------
\* A writer that is alone in the driver, at clean_list: the facts that say so are
\* those that matter.
LEMMA AloneInv ==
  ASSUME ListInv, NEW w \in Writers, Moved(w), pc'[w] = "clean",
         \A q \in Processes \ {w} : pc[q] = User,
         writing' = {}, UNCHANGED left,
         buffer' \in Seq(Nodes), \A i, j \in DOMAIN buffer' : buffer'[i] = buffer'[j] => i = j,
         tail' = Last(<<ListHead>> \o buffer'),
         \A k \in DOMAIN buffer' : \E j \in DOMAIN buffer : buffer'[k] = buffer[j],
         call'[w].at \in Pointer', call'[w].next \in Pointer',
         call'[w].at # ListHead => call'[w].next # call'[w].at,
         Making(w), call'[w].i = call[w].i, call'[w].count = call[w].count,
         call'[w].i < call'[w].count, call'[w].node = Node(w, call'[w].i, call'[w].count),
         heap' = Range(buffer') \cup Held'
  PROVE  ListInv'
  <1>. USE DEF User
  <1>1. \A q \in Processes \ {w} : pc'[q] = "user" /\ call'[q] = call[q] /\ call[q].at = ListHead
    BY DEF Moved, ListInv, AtNodes
  <1>2. Placed' /\ Linear' /\ CleansAlone'
    BY <1>1, WriterFacts
       DEF Placed, Moved, Linear, CleansAlone, Processes, WriterLabels
  <1>3. AtNodes'
    BY <1>1 DEF AtNodes, Pointer
  <1>4. OneLinks'
    BY <1>1 DEF OneLinks, Processes
  <1>5. Chunked'
    <2>. SUFFICES ASSUME NEW v \in Writers
                  PROVE  /\ (Making(v) \/ Made(v))'
                              => call'[v].count \in WriteCounts /\ call'[v].i \in Nat
                         /\ Unlinked(v)' => /\ call'[v].i < call'[v].count
                                            /\ call'[v].node = Node(v, call[v].i, call[v].count)'
      BY DEF Chunked
    <2>1. Node(v, call[v].i, call[v].count)' = Node(v, call'[v].i, call'[v].count)
      BY DEF Node
    <2>2. CASE v = w
      BY <2>1, <2>2, WriterFacts
    <2>3. CASE v # w
      BY <1>1, <2>3 DEF Making, Made, Unlinked, Processes
    <2>. QED BY <2>2, <2>3
  <1>6. Older'
    <2>. SUFFICES ASSUME NEW k \in DOMAIN buffer', NEW v \in Writers, buffer'[k].by = v
                  PROVE  /\ buffer'[k].nth >= left[v]
                         /\ buffer'[k].nth = left[v] => /\ Making(v)' => buffer'[k].i < call'[v].i
                                                        /\ Made(v)' => buffer'[k].i <= call'[v].i
      BY DEF Older
    <2>1. PICK j \in DOMAIN buffer : buffer'[k] = buffer[j]
      OBVIOUS
    <2>2. /\ buffer[j].nth >= left[v]
          /\ buffer[j].nth = left[v] /\ Making(v) => buffer[j].i < call[v].i
      BY <2>1 DEF ListInv, Older
    <2>3. CASE v = w
      BY <2>1, <2>2, <2>3 DEF Made
    <2>4. CASE v # w
      BY <1>1, <2>1, <2>2, <2>4 DEF Making, Made, Processes
    <2>. QED BY <2>3, <2>4
  <1>. QED BY <1>2, <1>3, <1>4, <1>5, <1>6 DEF ListInv

\* clean_list begins, and has the driver for itself: otherwise it overlaps.
LEMMA StartStep ==
  ASSUME ListInv, NEW w \in Writers, pc[w] = "chunk", UNCHANGED <<list, left, writing>>,
         call[w].i < call[w].count, StartClean(w, Node(w, call[w].i, call[w].count)),
         ~Overlapped'
  PROVE  ListInv'
  <1>. USE DEF User
  <1>1. PICK d : d = Node(w, call[w].i, call[w].count)
    OBVIOUS
  <1>2. PICK e \in Nexts(buffer, ListHead) : \E f \in Nexts(buffer, e) :
          Continue(w, "clean", [call[w] EXCEPT !.node = d, !.at = e, !.next = f])
    BY <1>1 DEF StartClean
  <1>0. PICK f \in Nexts(buffer, e) :
          Continue(w, "clean", [call[w] EXCEPT !.node = d, !.at = e, !.next = f])
    BY <1>2
  <1>3. heap' = heap \cup {d} /\ \A q \in Processes \ {w} : pc[q] = User
    BY <1>1 DEF StartClean, Overlapped
  <1>4. e \in Pointer /\ f \in Pointer /\ (e # ListHead => f # e)
    <2>1. e \in Pointer
      BY NextsInside DEF ListInv, Linear, Pointer
    <2>. QED BY <2>1, NextsInside DEF ListInv, Linear, Pointer
  <1>. DEFINE locals == [call[w] EXCEPT !.node = d, !.at = e, !.next = f]
  <1>5. /\ DOMAIN locals = DOMAIN Blank /\ locals.at = e /\ locals.next = f /\ locals.node = d
        /\ locals.i = call[w].i /\ locals.count = call[w].count
        /\ Continue(w, "clean", locals)
    BY <1>0, WriterFacts DEF Blank
  <1>. HIDE DEF locals
  <1>6. Moved(w) /\ pc'[w] = "clean" /\ call'[w] = locals
    BY <1>5, WriterFacts, ContinueStep DEF Moved
  <1>7. heap' = Range(buffer) \cup Held'
    <2>1. ~Unlinked(w) /\ Unlinked(w)'
      BY <1>6 DEF Unlinked
    <2>2. Held' = Held \cup {d}
      BY <1>5, <1>6, <2>1, WriterFacts, HeldStep
    <2>. QED BY <1>3, <2>2, WriterFacts
  <1>8. /\ buffer' = buffer /\ tail' = tail /\ Pointer' = Pointer /\ Range(buffer') = Range(buffer)
        /\ buffer \in Seq(Nodes) /\ tail = Last(<<ListHead>> \o buffer)
        /\ \A i, j \in DOMAIN buffer : buffer[i] = buffer[j] => i = j
    BY DEF list, Pointer, ListInv, Linear
  <1>9. writing' = {} /\ Making(w)
    BY <1>3 DEF ListInv, OneLinks, Making, Processes
  <1>. QED
    BY <1>1, <1>3, <1>4, <1>5, <1>6, <1>7, <1>8, <1>9, AloneInv

\* clean_list deletes the node it is at, and goes to the one it has loaded before.
LEMMA DeleteStep ==
  ASSUME ListInv, NEW w \in Writers, pc[w] = "clean", call[w].at # ListHead, Delete(w),
         UNCHANGED <<left, writing>>
  PROVE  ListInv'
  <1>. USE DEF User
  <1>. DEFINE d == call[w].at
              next == call[w].next
  <1>1. /\ d \in Range(buffer) /\ next \in Pointer /\ next # d
        /\ \A q \in Processes \ {w} : pc[q] = User
    BY WriterFacts DEF ListInv, AtNodes, CleansAlone, Pointer
  <1>2. PICK k \in DOMAIN buffer :
          /\ buffer[k] = d
          /\ buffer' = RemoveAt(buffer, k)
          /\ tail' = IF k = Len(buffer) THEN Last(<<ListHead>> \o buffer') ELSE tail
          /\ heap' = heap \ {d}
          /\ \E e \in Nexts(buffer', next) :
               Continue(w, IF next = Poison THEN Dead ELSE "clean",
                        [call[w] EXCEPT !.at = next, !.next = e])
    <2>1. \E k \in DOMAIN buffer : buffer[k] = d
      BY <1>1 DEF Range
    <2>2. {k \in DOMAIN buffer : buffer[k] = d} # {}
      BY <2>1
    <2>. QED BY <2>2 DEF Delete
  <1>. HIDE DEF d, next
  <1>3. /\ buffer \in Seq(Nodes) /\ tail = Last(<<ListHead>> \o buffer)
        /\ \A i, j \in DOMAIN buffer : buffer[i] = buffer[j] => i = j
    BY DEF ListInv, Linear
  <1>4. /\ buffer' \in Seq(Nodes)
        /\ \A i, j \in DOMAIN buffer' : buffer'[i] = buffer'[j] => i = j
        /\ Range(buffer') = Range(buffer) \ {d}
        /\ \A i \in DOMAIN buffer' : \E j \in DOMAIN buffer : buffer'[i] = buffer[j]
        /\ tail' = Last(<<ListHead>> \o buffer')
    BY <1>2, <1>3, RemoveNode
  <1>5. next # Poison /\ next \in Range(buffer') \cup {ListHead}
    <2>1. Poison \notin Pointer
      BY NoNodes, ListedNode DEF ListInv, Pointer, Range
    <2>. QED BY <1>1, <1>4, <2>1 DEF Pointer
  <1>6. PICK e \in Nexts(buffer', next) :
          Continue(w, "clean", [call[w] EXCEPT !.at = next, !.next = e])
    BY <1>2, <1>5
  <1>7. e \in Range(buffer') \cup {ListHead} /\ (next # ListHead => e # next)
    BY <1>4, <1>5, NextsInside
  <1>. DEFINE locals == [call[w] EXCEPT !.at = next, !.next = e]
  <1>8. /\ DOMAIN locals = DOMAIN Blank /\ locals.at = next /\ locals.next = e
        /\ locals.i = call[w].i /\ locals.count = call[w].count /\ locals.node = call[w].node
        /\ Continue(w, "clean", locals)
    BY <1>6, WriterFacts DEF Blank
  <1>. HIDE DEF locals
  <1>9. Moved(w) /\ pc'[w] = "clean" /\ call'[w] = locals
    BY <1>8, WriterFacts, ContinueStep DEF Moved
  <1>10. /\ Making(w) /\ Unlinked(w) /\ Unlinked(w)'
         /\ call[w].i < call[w].count /\ call[w].node = Node(w, call[w].i, call[w].count)
    BY <1>9 DEF ListInv, Chunked, Making, Unlinked
  <1>11. heap' = Range(buffer') \cup Held'
    <2>1. Held' = Held
      BY <1>8, <1>9, <1>10, WriterFacts, HeldStep
    <2>2. \A v \in Writers : Unlinked(v) => call[v].node # d
      <3>. SUFFICES ASSUME NEW v \in Writers, Unlinked(v) PROVE call[v].node # d
        OBVIOUS
      <3>. QED BY <1>1, HeldApart
    <2>3. d \notin Held
      BY <2>2 DEF Held
    <2>. QED BY <1>2, <1>4, <2>1, <2>3, WriterFacts
  <1>12. writing' = {}
    BY <1>1 DEF ListInv, OneLinks, Processes
  <1>. QED
    BY <1>1, <1>4, <1>5, <1>7, <1>8, <1>9, <1>10, <1>11, <1>12, AloneInv DEF Pointer

\* rmmod frees the list when nobody is inside.
LEMMA UnloadStep ==
  ASSUME ListInv, Unload
  PROVE  ListInv'
  <1>. USE DEF User
  <1>1. /\ \A p \in Processes : pc[p] = "user" /\ call[p].at = ListHead
        /\ UNCHANGED <<pc, call, left, writing>>
        /\ buffer' = << >> /\ tail' = ListHead /\ heap' = heap \ Range(buffer)
    BY DEF Unload, Empty, ListInv, AtNodes, locks
  <1>2. Range(buffer') = {} /\ DOMAIN buffer' = {} /\ buffer' \in Seq(Nodes)
    BY <1>1 DEF Range
  <1>3. tail' = Last(<<ListHead>> \o buffer')
    BY <1>1, <1>2, EndOfList
  <1>4. Held = {} /\ Held' = {}
    BY <1>1 DEF Held, Unlinked, Processes
  <1>5. Placed' /\ CleansAlone' /\ OneLinks' /\ AtNodes'
    BY <1>1 DEF ListInv, Placed, CleansAlone, OneLinks, AtNodes, Pointer, Processes
  <1>6. Chunked'
    BY <1>1 DEF Chunked, Making, Made, Unlinked, Processes
  <1>7. heap' = Range(buffer') \cup Held'
    BY <1>1, <1>2, <1>4 DEF ListInv
  <1>. QED BY <1>2, <1>3, <1>5, <1>6, <1>7 DEF ListInv, Linear, Older

-----------------------------------------------------------------------------
\* What a signal does to a call that waits for the lock, in the mutex driver.
GiveUpRead(r) == /\ pc[r] = "lock"
                 /\ Return(r)
                 /\ UNCHANGED <<list, heap, counters, locks, module, left, files, cleared>>
GiveUpWrite(w) == /\ pc[w] = "lock"
                  /\ heap' = heap \ {call[w].node}
                  /\ Return(w)
                  /\ UNCHANGED <<list, counters, locks, module, left, files, cleared>>

\* synchronize_rcu, whatever readers it waits for.
WaitForReaders(w) == /\ \/ pc[w] = "synchronize" /\ Goto(w, "grace")
                        \/ pc[w] = "grace" /\ Goto(w, "account")
                     /\ UNCHANGED <<list, heap, counters, writing, module, call, left, files,
                                    cleared>>

\* The steps of the four drivers as those of one: all that the drivers have in
\* common is that a writer enters when no other is inside.
ReadAny(r) == \/ \E count \in ReadCounts : BeginRead(r, count)
              \/ EnterRead(r) \/ GiveUpRead(r) \/ Walk(r) \/ LeaveRead(r) \/ FailRead(r)
              \/ LoadCount(r) \/ StoreCount(r)

WriteAny(w) == \/ \E count \in WriteCounts : BeginWrite(w, count)
               \/ Chunk(w) \/ GiveUpWrite(w)
               \/ writing = {} /\ EnterWrite(w)
               \/ Link(w, "account") \/ Link(w, "synchronize") \/ WaitForReaders(w)
               \/ LoadTotal(w) \/ StoreTotal(w) \/ Clean(w) \/ StoreCount(w)

AnyNext == \/ \E r \in Readers : ReadAny(r)
           \/ \E w \in Writers : WriteAny(w)
           \/ linked_init \/ linked_exit

\* MutexBuffer's steps.
LEMMA MutexNext == Mutex!Next => AnyNext
  <1>1. ASSUME NEW r \in Readers, Mutex!linked_read(r) PROVE ReadAny(r)
    BY <1>1, Zenon
       DEF ReadAny, GiveUpRead,
         Mutex!linked_read, Mutex!InterruptRead, Mutex!Free, Mutex!BeginRead,
         BeginRead, Mutex!Begin, Begin, Mutex!Continue, Continue, Mutex!Goto, Goto,
         Mutex!Return, Return, Mutex!Blank, Blank, Mutex!User, User, Mutex!EnterRead,
         EnterRead, Mutex!Walk, Walk, Mutex!Nexts, Nexts, Mutex!Die, Die, Mutex!Dead,
         Dead, Mutex!Skip, Skip, Mutex!Before, Before, Mutex!Copy, Copy,
         Mutex!CopyFaults, CopyFaults, Mutex!Least, Least, Mutex!LeaveRead, LeaveRead,
         Mutex!FailRead, FailRead, Mutex!UnlockRead, UnlockRead, Mutex!LoadCount,
         LoadCount, Mutex!StoreCount, StoreCount, Mutex!Range, Range, Mutex!list, list,
         Mutex!counters, counters, Mutex!locks, locks, Mutex!files, files,
         Mutex!Processes, Processes
  <1>2. ASSUME NEW w \in Writers, Mutex!linked_write(w) PROVE WriteAny(w)
    BY <1>2, Zenon
       DEF WriteAny, GiveUpWrite, WaitForReaders,
         Mutex!linked_write, Mutex!InterruptWrite, Mutex!Free, Mutex!BeginWrite,
         BeginWrite, Mutex!Begin, Begin, Mutex!Continue, Continue, Mutex!Goto, Goto,
         Mutex!Return, Return, Mutex!Blank, Blank, Mutex!User, User, Mutex!Dead, Dead,
         Mutex!Die, Die, Mutex!Chunk, Chunk, Mutex!EndLoop, EndLoop, Mutex!Allocate,
         Allocate, Mutex!StartClean, StartClean, Mutex!Node, Node, Mutex!Nexts, Nexts,
         Mutex!Least, Least, Mutex!Range, Range, Mutex!EnterWrite, EnterWrite,
         Mutex!Link, Link, Mutex!AddTail, AddTail, Mutex!Last, Last, Mutex!LoadTotal,
         LoadTotal, Mutex!StoreTotal, StoreTotal, Mutex!StoreCount, StoreCount,
         Mutex!Clean, Clean, Mutex!EndClean, EndClean, Mutex!Delete, Delete,
         Mutex!RemoveAt, RemoveAt, Mutex!list, list, Mutex!counters, counters,
         Mutex!locks, locks, Mutex!files, files, Mutex!Processes, Processes
  <1>3. Mutex!linked_init => linked_init
    BY DEF Mutex!linked_init, linked_init, Mutex!linked_exit, linked_exit, Mutex!Unload,
         Unload, Mutex!UnloadUnderCall, UnloadUnderCall, Mutex!Empty, Empty,
         Mutex!Blank, Blank, Mutex!User, User, Mutex!Dead, Dead, Mutex!Range, Range,
         Mutex!Processes, Processes, Mutex!list, list, Mutex!counters, counters,
         Mutex!locks, locks, Mutex!files, files
  <1>4. Mutex!linked_exit => linked_exit
    BY DEF Mutex!linked_init, linked_init, Mutex!linked_exit, linked_exit, Mutex!Unload,
         Unload, Mutex!UnloadUnderCall, UnloadUnderCall, Mutex!Empty, Empty,
         Mutex!Blank, Blank, Mutex!User, User, Mutex!Dead, Dead, Mutex!Range, Range,
         Mutex!Processes, Processes, Mutex!list, list, Mutex!counters, counters,
         Mutex!locks, locks, Mutex!files, files
  <1>. QED BY <1>1, <1>2, <1>3, <1>4 DEF Mutex!Next, AnyNext

\* SemaphoreBuffer's steps.
LEMMA SemaphoreNext == Semaphore!Next => AnyNext
  <1>1. ASSUME NEW r \in Readers, Semaphore!linked_read(r) PROVE ReadAny(r)
    BY <1>1, Zenon
       DEF ReadAny, GiveUpRead,
         Semaphore!linked_read, Semaphore!down_read, Semaphore!BeginRead, BeginRead,
         Semaphore!Begin, Begin, Semaphore!Continue, Continue, Semaphore!Goto, Goto,
         Semaphore!Return, Return, Semaphore!Blank, Blank, Semaphore!User, User,
         Semaphore!EnterRead, EnterRead, Semaphore!Walk, Walk, Semaphore!Nexts, Nexts,
         Semaphore!Die, Die, Semaphore!Dead, Dead, Semaphore!Skip, Skip,
         Semaphore!Before, Before, Semaphore!Copy, Copy, Semaphore!CopyFaults,
         CopyFaults, Semaphore!Least, Least, Semaphore!LeaveRead, LeaveRead,
         Semaphore!FailRead, FailRead, Semaphore!UnlockRead, UnlockRead,
         Semaphore!LoadCount, LoadCount, Semaphore!StoreCount, StoreCount,
         Semaphore!Range, Range, Semaphore!list, list, Semaphore!counters, counters,
         Semaphore!locks, locks, Semaphore!files, files, Semaphore!Processes, Processes
  <1>2. ASSUME NEW w \in Writers, Semaphore!linked_write(w) PROVE WriteAny(w)
    BY <1>2, Zenon
       DEF WriteAny, GiveUpWrite, WaitForReaders,
         Semaphore!linked_write, Semaphore!down_write, Semaphore!BeginWrite,
         BeginWrite, Semaphore!Begin, Begin, Semaphore!Continue, Continue,
         Semaphore!Goto, Goto, Semaphore!Return, Return, Semaphore!Blank, Blank,
         Semaphore!User, User, Semaphore!Dead, Dead, Semaphore!Die, Die,
         Semaphore!Chunk, Chunk, Semaphore!EndLoop, EndLoop, Semaphore!Allocate,
         Allocate, Semaphore!StartClean, StartClean, Semaphore!Node, Node,
         Semaphore!Nexts, Nexts, Semaphore!Least, Least, Semaphore!Range, Range,
         Semaphore!EnterWrite, EnterWrite, Semaphore!Link, Link, Semaphore!AddTail,
         AddTail, Semaphore!Last, Last, Semaphore!LoadTotal, LoadTotal,
         Semaphore!StoreTotal, StoreTotal, Semaphore!StoreCount, StoreCount,
         Semaphore!Clean, Clean, Semaphore!EndClean, EndClean, Semaphore!Delete,
         Delete, Semaphore!RemoveAt, RemoveAt, Semaphore!list, list,
         Semaphore!counters, counters, Semaphore!locks, locks, Semaphore!files, files,
         Semaphore!Processes, Processes
  <1>3. Semaphore!linked_init => linked_init
    BY DEF Semaphore!linked_init, linked_init, Semaphore!linked_exit, linked_exit,
         Semaphore!Unload, Unload, Semaphore!UnloadUnderCall, UnloadUnderCall,
         Semaphore!Empty, Empty, Semaphore!Blank, Blank, Semaphore!User, User,
         Semaphore!Dead, Dead, Semaphore!Range, Range, Semaphore!Processes, Processes,
         Semaphore!list, list, Semaphore!counters, counters, Semaphore!locks, locks,
         Semaphore!files, files
  <1>4. Semaphore!linked_exit => linked_exit
    BY DEF Semaphore!linked_init, linked_init, Semaphore!linked_exit, linked_exit,
         Semaphore!Unload, Unload, Semaphore!UnloadUnderCall, UnloadUnderCall,
         Semaphore!Empty, Empty, Semaphore!Blank, Blank, Semaphore!User, User,
         Semaphore!Dead, Dead, Semaphore!Range, Range, Semaphore!Processes, Processes,
         Semaphore!list, list, Semaphore!counters, counters, Semaphore!locks, locks,
         Semaphore!files, files
  <1>. QED BY <1>1, <1>2, <1>3, <1>4 DEF Semaphore!Next, AnyNext

\* SpinlockBuffer's steps.
LEMMA SpinlockNext == Spinlock!Next => AnyNext
  <1>1. ASSUME NEW r \in Readers, Spinlock!linked_read(r) PROVE ReadAny(r)
    BY <1>1, Zenon
       DEF ReadAny, GiveUpRead,
         Spinlock!linked_read, Spinlock!read_lock, Spinlock!BeginRead, BeginRead,
         Spinlock!Begin, Begin, Spinlock!Continue, Continue, Spinlock!Goto, Goto,
         Spinlock!Return, Return, Spinlock!Blank, Blank, Spinlock!User, User,
         Spinlock!EnterRead, EnterRead, Spinlock!Walk, Walk, Spinlock!Nexts, Nexts,
         Spinlock!Die, Die, Spinlock!Dead, Dead, Spinlock!Skip, Skip, Spinlock!Before,
         Before, Spinlock!Copy, Copy, Spinlock!CopyFaults, CopyFaults, Spinlock!Least,
         Least, Spinlock!LeaveRead, LeaveRead, Spinlock!FailRead, FailRead,
         Spinlock!UnlockRead, UnlockRead, Spinlock!LoadCount, LoadCount,
         Spinlock!StoreCount, StoreCount, Spinlock!Range, Range, Spinlock!list, list,
         Spinlock!counters, counters, Spinlock!locks, locks, Spinlock!files, files,
         Spinlock!Processes, Processes
  <1>2. ASSUME NEW w \in Writers, Spinlock!linked_write(w) PROVE WriteAny(w)
    BY <1>2, Zenon
       DEF WriteAny, GiveUpWrite, WaitForReaders,
         Spinlock!linked_write, Spinlock!write_lock, Spinlock!BeginWrite, BeginWrite,
         Spinlock!Begin, Begin, Spinlock!Continue, Continue, Spinlock!Goto, Goto,
         Spinlock!Return, Return, Spinlock!Blank, Blank, Spinlock!User, User,
         Spinlock!Dead, Dead, Spinlock!Die, Die, Spinlock!Chunk, Chunk,
         Spinlock!EndLoop, EndLoop, Spinlock!Allocate, Allocate, Spinlock!StartClean,
         StartClean, Spinlock!Node, Node, Spinlock!Nexts, Nexts, Spinlock!Least, Least,
         Spinlock!Range, Range, Spinlock!EnterWrite, EnterWrite, Spinlock!Link, Link,
         Spinlock!AddTail, AddTail, Spinlock!Last, Last, Spinlock!LoadTotal, LoadTotal,
         Spinlock!StoreTotal, StoreTotal, Spinlock!StoreCount, StoreCount,
         Spinlock!Clean, Clean, Spinlock!EndClean, EndClean, Spinlock!Delete, Delete,
         Spinlock!RemoveAt, RemoveAt, Spinlock!list, list, Spinlock!counters, counters,
         Spinlock!locks, locks, Spinlock!files, files, Spinlock!Processes, Processes
  <1>3. Spinlock!linked_init => linked_init
    BY DEF Spinlock!linked_init, linked_init, Spinlock!linked_exit, linked_exit,
         Spinlock!Unload, Unload, Spinlock!UnloadUnderCall, UnloadUnderCall,
         Spinlock!Empty, Empty, Spinlock!Blank, Blank, Spinlock!User, User,
         Spinlock!Dead, Dead, Spinlock!Range, Range, Spinlock!Processes, Processes,
         Spinlock!list, list, Spinlock!counters, counters, Spinlock!locks, locks,
         Spinlock!files, files
  <1>4. Spinlock!linked_exit => linked_exit
    BY DEF Spinlock!linked_init, linked_init, Spinlock!linked_exit, linked_exit,
         Spinlock!Unload, Unload, Spinlock!UnloadUnderCall, UnloadUnderCall,
         Spinlock!Empty, Empty, Spinlock!Blank, Blank, Spinlock!User, User,
         Spinlock!Dead, Dead, Spinlock!Range, Range, Spinlock!Processes, Processes,
         Spinlock!list, list, Spinlock!counters, counters, Spinlock!locks, locks,
         Spinlock!files, files
  <1>. QED BY <1>1, <1>2, <1>3, <1>4 DEF Spinlock!Next, AnyNext

\* RcuBuffer's steps.
LEMMA RcuNext == Rcu!Next => AnyNext
  <1>1. ASSUME NEW r \in Readers, Rcu!linked_read(r) PROVE ReadAny(r)
    BY <1>1, Zenon
       DEF ReadAny, GiveUpRead,
         Rcu!linked_read, Rcu!BeginRead, BeginRead, Rcu!Begin, Begin, Rcu!Continue,
         Continue, Rcu!Goto, Goto, Rcu!Return, Return, Rcu!Blank, Blank, Rcu!User,
         User, Rcu!EnterRead, EnterRead, Rcu!Walk, Walk, Rcu!Nexts, Nexts, Rcu!Die,
         Die, Rcu!Dead, Dead, Rcu!Skip, Skip, Rcu!Before, Before, Rcu!Copy, Copy,
         Rcu!CopyFaults, CopyFaults, Rcu!Least, Least, Rcu!LeaveRead, LeaveRead,
         Rcu!FailRead, FailRead, Rcu!UnlockRead, UnlockRead, Rcu!LoadCount, LoadCount,
         Rcu!StoreCount, StoreCount, Rcu!Range, Range, Rcu!list, list, Rcu!counters,
         counters, Rcu!locks, locks, Rcu!files, files, Rcu!Processes, Processes
  <1>2. ASSUME NEW w \in Writers, Rcu!linked_write(w) PROVE WriteAny(w)
    BY <1>2, Zenon
       DEF WriteAny, GiveUpWrite, WaitForReaders,
         Rcu!linked_write, Rcu!Free, Rcu!Synchronize, Rcu!GracePeriodEnds,
         Rcu!BeginWrite, BeginWrite, Rcu!Begin, Begin, Rcu!Continue, Continue,
         Rcu!Goto, Goto, Rcu!Return, Return, Rcu!Blank, Blank, Rcu!User, User,
         Rcu!Dead, Dead, Rcu!Die, Die, Rcu!Chunk, Chunk, Rcu!EndLoop, EndLoop,
         Rcu!Allocate, Allocate, Rcu!StartClean, StartClean, Rcu!Node, Node, Rcu!Nexts,
         Nexts, Rcu!Least, Least, Rcu!Range, Range, Rcu!EnterWrite, EnterWrite,
         Rcu!Link, Link, Rcu!AddTail, AddTail, Rcu!Last, Last, Rcu!LoadTotal,
         LoadTotal, Rcu!StoreTotal, StoreTotal, Rcu!StoreCount, StoreCount, Rcu!Clean,
         Clean, Rcu!EndClean, EndClean, Rcu!Delete, Delete, Rcu!RemoveAt, RemoveAt,
         Rcu!list, list, Rcu!counters, counters, Rcu!locks, locks, Rcu!files, files,
         Rcu!Processes, Processes
  <1>3. Rcu!linked_init => linked_init
    BY DEF Rcu!linked_init, linked_init, Rcu!linked_exit, linked_exit, Rcu!Unload,
         Unload, Rcu!UnloadUnderCall, UnloadUnderCall, Rcu!Empty, Empty, Rcu!Blank,
         Blank, Rcu!User, User, Rcu!Dead, Dead, Rcu!Range, Range, Rcu!Processes,
         Processes, Rcu!list, list, Rcu!counters, counters, Rcu!locks, locks,
         Rcu!files, files
  <1>4. Rcu!linked_exit => linked_exit
    BY DEF Rcu!linked_init, linked_init, Rcu!linked_exit, linked_exit, Rcu!Unload,
         Unload, Rcu!UnloadUnderCall, UnloadUnderCall, Rcu!Empty, Empty, Rcu!Blank,
         Blank, Rcu!User, User, Rcu!Dead, Dead, Rcu!Range, Range, Rcu!Processes,
         Processes, Rcu!list, list, Rcu!counters, counters, Rcu!locks, locks,
         Rcu!files, files
  <1>. QED BY <1>1, <1>2, <1>3, <1>4 DEF Rcu!Next, AnyNext

-----------------------------------------------------------------------------
\* Every step of the drivers is a step of that one.
LEMMA NextIsAny == [Next]_<<vars, variant>> => AnyNext \/ UNCHANGED vars
  BY MutexNext, SemaphoreNext, SpinlockNext, RcuNext DEF Next

\* Once overlapped, always overlapped.
LEMMA OverlappedStays == Overlapped /\ AnyNext => Overlapped'
  <1>. SUFFICES ASSUME cleared = "overlapped", AnyNext PROVE cleared' = "overlapped"
    BY DEF Overlapped
  <1>1. ASSUME NEW r \in Readers, ReadAny(r) PROVE cleared' = "overlapped"
    BY <1>1 DEF ReadAny, GiveUpRead, BeginRead, Begin, EnterRead, Walk, LeaveRead, FailRead,
                LoadCount, StoreCount
  <1>2. ASSUME NEW w \in Writers, WriteAny(w) PROVE cleared' = "overlapped"
    BY <1>2 DEF WriteAny, GiveUpWrite, WaitForReaders, BeginWrite, Begin, EnterWrite, Link,
                LoadTotal, StoreTotal, Clean, StoreCount, Chunk, StartClean
  <1>3. linked_init \/ linked_exit => cleared' = "overlapped"
    BY DEF linked_init, linked_exit, Unload, UnloadUnderCall
  <1>. QED BY <1>1, <1>2, <1>3 DEF AnyNext

\* A call of a reader keeps the list in shape.
LEMMA ReadAnyStep ==
  ASSUME ListInv, NEW r \in Readers, ReadAny(r), ~Overlapped'
  PROVE  ListInv'
  <1>1. ASSUME NEW count \in ReadCounts, BeginRead(r, count)
        PROVE  ListInv'
    <2>. DEFINE locals == [Blank EXCEPT !.count = count]
    <2>1. /\ r \in Processes /\ Placed /\ DOMAIN locals = DOMAIN Blank
          /\ locals.at = ListHead /\ Blank.at = ListHead
      BY DEF Processes, ListInv, Blank
    <2>2. Begin(r) /\ (Return(r) \/ Continue(r, "lock", locals))
      BY <1>1 DEF BeginRead
    <2>. HIDE DEF locals
    <2>3. /\ Moved(r) /\ pc'[r] \in {User, "lock"} /\ call'[r].at = ListHead
      BY <2>1, <2>2, ContinueStep DEF Return, Moved
    <2>. QED BY <2>1, <2>2, <2>3, BeginStep DEF User
  <1>2. ASSUME GiveUpRead(r)
        PROVE  ListInv'
    BY <1>2, ReadStep DEF GiveUpRead
  <1>. QED BY <1>1, <1>2, ReadStep DEF ReadAny

\* A call of a writer keeps the list in shape.
LEMMA WriteAnyStep ==
  ASSUME ListInv, NEW w \in Writers, WriteAny(w), ~Overlapped'
  PROVE  ListInv'
  <1>1. ASSUME NEW count \in WriteCounts, BeginWrite(w, count)
        PROVE  ListInv'
    <2>. DEFINE locals == [Blank EXCEPT !.count = count]
    <2>1. /\ w \in Processes /\ w \notin Readers /\ Placed /\ DOMAIN locals = DOMAIN Blank
          /\ locals.at = ListHead /\ locals.i = 0 /\ locals.count = count
      BY WriterFacts DEF Blank
    <2>2. Begin(w) /\ Continue(w, "chunk", locals)
      BY <1>1 DEF BeginWrite
    <2>. HIDE DEF locals
    <2>3. Moved(w) /\ pc'[w] = "chunk" /\ call'[w] = locals
      BY <2>1, <2>2, ContinueStep DEF Moved
    <2>. QED BY <2>1, <2>2, <2>3, BeginStep
  <1>2. ASSUME Chunk(w)
        PROVE  ListInv'
    <2>1. pc[w] = "chunk" /\ UNCHANGED <<list, left, writing>>
      BY <1>2 DEF Chunk, locks
    <2>. QED BY <1>2, <2>1, ChunkStep, StartStep DEF Chunk
  <1>3. ASSUME GiveUpWrite(w) \/ StoreCount(w)
        PROVE  ListInv'
    BY <1>3, GiveUpStep, WriterFacts DEF GiveUpWrite, StoreCount, locks
  <1>4. ASSUME writing = {}, EnterWrite(w)
        PROVE  ListInv'
    BY <1>4, EnterStep
  <1>5. ASSUME Link(w, "account") \/ Link(w, "synchronize")
        PROVE  ListInv'
    BY <1>5, LinkStep
  <1>6. ASSUME WaitForReaders(w) \/ LoadTotal(w) \/ StoreTotal(w)
        PROVE  ListInv'
    <2>1. UNCHANGED <<list, left, writing, heap>>
      BY <1>6 DEF WaitForReaders, LoadTotal, StoreTotal, locks
    <2>. QED BY <1>6, <2>1, AccountStep DEF WaitForReaders
  <1>7. ASSUME Clean(w)
        PROVE  ListInv'
    <2>1. pc[w] = "clean" /\ UNCHANGED <<left, writing>>
      BY <1>7 DEF Clean, locks
    <2>2. CASE EndClean(w)
      BY <2>1, <2>2, GiveUpStep DEF EndClean
    <2>3. CASE call[w].at # ListHead /\ Delete(w)
      BY <2>1, <2>3, DeleteStep
    <2>. QED BY <1>7, <2>2, <2>3 DEF Clean
  <1>. QED BY <1>1, <1>2, <1>3, <1>4, <1>5, <1>6, <1>7 DEF WriteAny

\* Every step keeps the list in shape, or is one at which calls overlap.
LEMMA StepIInv == IInv /\ [Next]_<<vars, variant>> => IInv'
  <1>. SUFFICES ASSUME IInv, [Next]_<<vars, variant>>, ~Overlapped' PROVE ListInv'
    BY DEF IInv
  <1>1. AnyNext \/ UNCHANGED vars
    BY NextIsAny
  <1>2. ListInv
    BY <1>1, OverlappedStays DEF IInv, Overlapped, vars
  <1>3. ASSUME UNCHANGED <<list, heap, pc, call, left, writing>>
        PROVE  ListInv'
    <2>1. Placed' /\ Linear'
      BY <1>2, <1>3 DEF ListInv, list, Placed, Linear
    <2>2. CleansAlone' /\ AtNodes'
      BY <1>2, <1>3 DEF ListInv, list, CleansAlone, AtNodes, Pointer, Range
    <2>3. OneLinks' /\ Chunked'
      BY <1>2, <1>3 DEF ListInv, OneLinks, Chunked, Making, Made, Unlinked, Node
    <2>4. Older'
      BY <1>2, <1>3 DEF ListInv, list, Older, Making, Made
    <2>5. (heap = Range(buffer) \cup Held)'
      BY <1>2, <1>3 DEF ListInv, list, Held, Unlinked, Range
    <2>. QED BY <2>1, <2>2, <2>3, <2>4, <2>5 DEF ListInv
  <1>4. CASE \E r \in Readers : ReadAny(r)
    BY <1>2, <1>4, ReadAnyStep
  <1>5. CASE \E w \in Writers : WriteAny(w)
    BY <1>2, <1>5, WriteAnyStep
  <1>6. CASE linked_exit
    BY <1>2, <1>6, UnloadStep DEF linked_exit, UnloadUnderCall, Overlapped
  <1>7. CASE linked_init \/ UNCHANGED vars
    BY <1>3, <1>7 DEF linked_init, vars, locks
  <1>. QED BY <1>1, <1>4, <1>5, <1>6, <1>7 DEF AnyNext

\* The inductive invariant holds in every reachable state.
THEOREM Invariance == Spec => []IInv
  BY InitIInv, StepIInv, PTL DEF Spec

\* In none of the four drivers does a process follow a pointer to a node that
\* is not in the list, or link behind a node that is not the last, whatever
\* the writers add during the walk of a reader under rcu; nobody is killed.
THEOREM NoneStray == Spec => []NoStrayPointer
  <1>1. IInv => NoStrayPointer
    <2>. SUFFICES ASSUME ListInv, NEW p \in Processes
                  PROVE  /\ pc[p] # Dead
                         /\ call[p].at \in Range(buffer) \cup {ListHead}
                         /\ pc[p] = "link" => call[p].at = Last(<<ListHead>> \o buffer)
      BY DEF IInv, NoStrayPointer
    <2>1. pc[p] # Dead
      BY DEF ListInv, Placed, Processes, ReaderLabels, WriterLabels, Dead, User
    <2>2. call[p].at \in Pointer /\ (pc[p] = "link" => call[p].at = tail)
      BY DEF ListInv, AtNodes
    <2>. QED BY <2>1, <2>2 DEF ListInv, Linear, Pointer
  <1>. QED BY Invariance, <1>1, PTL

\* No call that fails, is interrupted or clears the list leaks a node, and
\* rmmod frees those of the list.
THEOREM NoneLeaked == Spec => []NothingLeaked
  <1>1. IInv => NothingLeaked
    BY DEF IInv, NothingLeaked, ListInv, Held
  <1>. QED BY Invariance, <1>1, PTL

-----------------------------------------------------------------------------
(***************************************************************************)
(* Sums over the list.  What holds of them for every length is proved with *)
(* the least counterexample.                                               *)
(***************************************************************************)
\* A set of numbers that is not empty has a least one.
LEMMA LeastElement ==
  ASSUME NEW T, T \subseteq Nat, T # {}
  PROVE  \E n \in T : \A m \in T : n <= m
  <1>. DEFINE R == OpToRel(<, Nat)
  <1>1. IsWellFoundedOn(R, Nat)
    BY NatLessThanWellFounded, Zenon
  <1>. HIDE DEF R
  <1>2. PICK n \in T : \A m \in T : <<m, n>> \notin R
    BY <1>1, WFMin
  <1>3. ASSUME NEW m \in T PROVE n <= m
    <2>1. m \in Nat /\ n \in Nat /\ <<m, n>> \notin R
      BY <1>2
    <2>2. m < n => <<m, n>> \in R
      BY <2>1 DEF R, OpToRel
    <2>. QED BY <2>1, <2>2
  <1>. QED BY <1>3

\* A set with 0 and the successor, up to n, of each of its numbers has all up to n.
LEMMA CountTo ==
  ASSUME NEW n \in Nat, NEW S, 0 \in S, \A k \in 1 .. n : k - 1 \in S => k \in S
  PROVE  0 .. n \subseteq S
  <1>. SUFFICES ASSUME (0 .. n) \ S # {} PROVE FALSE
    OBVIOUS
  <1>. DEFINE T == (0 .. n) \ S
  <1>0. T \subseteq Nat /\ T # {}
    OBVIOUS
  <1>. HIDE DEF T
  <1>1. PICK k \in T : \A m \in T : k <= m
    BY <1>0, LeastElement
  <1>. USE DEF T
  <1>2. k \in 1 .. n /\ k - 1 \in 0 .. n /\ ~(k <= k - 1)
    BY <1>1
  <1>3. k - 1 \in S
    BY <1>1, <1>2
  <1>. QED BY <1>1, <1>2, <1>3

\* Offsets(nodes)[k] is the number of bytes in the first k nodes.
Offsets(nodes) ==
  LET upTo[k \in 0 .. Len(nodes)] == IF k = 0 THEN 0 ELSE upTo[k - 1] + nodes[k].length
  IN upTo

\* The recursion is that of a function.
LEMMA OffsetsIs ==
  ASSUME NEW nodes, Len(nodes) \in Nat
  PROVE  /\ Offsets(nodes) = [k \in 0 .. Len(nodes) |->
                                IF k = 0 THEN 0 ELSE Offsets(nodes)[k - 1] + nodes[k].length]
         /\ Log!LengthOf(nodes) = Offsets(nodes)[Len(nodes)]
  <1>. DEFINE n == Len(nodes)
              Is(f, m) == f = [k \in 0 .. m |-> IF k = 0 THEN 0 ELSE f[k - 1] + nodes[k].length]
              S == {m \in 0 .. n : \E f : Is(f, m)}
  <1>1. 0 \in S
    <2>. DEFINE f == [k \in 0 .. 0 |-> 0]
    <2>1. Is(f, 0)
      OBVIOUS
    <2>. HIDE DEF Is, f
    <2>. QED BY <2>1
  <1>2. ASSUME NEW m \in 1 .. n, m - 1 \in S PROVE m \in S
    <2>1. PICK f : Is(f, m - 1)
      BY <1>2
    <2>. DEFINE g == [k \in 0 .. m |-> IF k = m THEN f[m - 1] + nodes[m].length ELSE f[k]]
    <2>2. \A k \in 0 .. m - 1 : g[k] = f[k] /\ f[k] = IF k = 0 THEN 0 ELSE f[k - 1] + nodes[k].length
      BY <2>1
    <2>3. ASSUME NEW k \in 0 .. m
          PROVE  g[k] = IF k = 0 THEN 0 ELSE g[k - 1] + nodes[k].length
      <3>1. k # 0 => k - 1 \in 0 .. m - 1 /\ g[k - 1] = f[k - 1]
        OBVIOUS
      <3>2. k # m => k \in 0 .. m - 1 /\ g[k] = f[k]
        OBVIOUS
      <3>3. k = m => g[k] = f[k - 1] + nodes[k].length
        OBVIOUS
      <3>. HIDE DEF g
      <3>. QED BY <2>2, <3>1, <3>2, <3>3
    <2>4. g = [k \in 0 .. m |-> g[k]]
      OBVIOUS
    <2>. HIDE DEF g
    <2>5. Is(g, m)
      BY <2>3, <2>4
    <2>. QED BY <2>5
  <1>3. PICK f : Is(f, n)
    <2>. HIDE DEF S
    <2>1. 0 .. n \subseteq S
      BY <1>1, <1>2, CountTo
    <2>. USE DEF S
    <2>. QED BY <2>1
  <1>4. Offsets(nodes) = CHOOSE g : Is(g, n)
    BY DEF Offsets
  <1>5. Is(Offsets(nodes), n)
    <2>. HIDE DEF Is
    <2>. QED BY <1>3, <1>4
  <1>6. Log!LengthOf(nodes) = Offsets(nodes)[Len(nodes)]
    BY DEF Offsets, Log!LengthOf
  <1>. QED BY <1>5, <1>6

\* Sums one by one.
LEMMA OffsetsStep ==
  ASSUME NEW nodes, Len(nodes) \in Nat
  PROVE  /\ Offsets(nodes)[0] = 0
         /\ \A k \in 1 .. Len(nodes) : Offsets(nodes)[k] = Offsets(nodes)[k - 1] + nodes[k].length
  <1>. DEFINE f == Offsets(nodes)
  <1>. HIDE DEF f
  <1>1. f = [k \in 0 .. Len(nodes) |-> IF k = 0 THEN 0 ELSE f[k - 1] + nodes[k].length]
    BY OffsetsIs DEF f
  <1>2. \A k \in 0 .. Len(nodes) : f[k] = IF k = 0 THEN 0 ELSE f[k - 1] + nodes[k].length
    BY <1>1
  <1>3. f[0] = 0 /\ \A k \in 1 .. Len(nodes) : f[k] = f[k - 1] + nodes[k].length
    BY <1>2
  <1>. QED BY <1>3 DEF f

\* A sequence of things that have a length.
Sized(nodes) == Len(nodes) \in Nat /\ \A k \in 1 .. Len(nodes) : nodes[k].length \in Nat

\* The sums are numbers.
LEMMA OffsetsNat ==
  ASSUME NEW nodes, Sized(nodes)
  PROVE  \A k \in 0 .. Len(nodes) : Offsets(nodes)[k] \in Nat
  <1>. DEFINE f == Offsets(nodes)
              n == Len(nodes)
              S == {k \in 0 .. n : f[k] \in Nat}
  <1>1. n \in Nat /\ f[0] = 0 /\ \A k \in 1 .. n : f[k] = f[k - 1] + nodes[k].length
    BY OffsetsStep DEF Sized
  <1>2. \A k \in 1 .. n : nodes[k].length \in Nat
    BY DEF Sized
  <1>. HIDE DEF f, n
  <1>3. 0 \in S /\ \A k \in 1 .. n : k - 1 \in S => k \in S
    BY <1>1, <1>2
  <1>. HIDE DEF S
  <1>4. 0 .. n \subseteq S
    BY <1>1, <1>3, CountTo
  <1>. QED BY <1>4 DEF S, f, n

\* When no length is 0 the sums grow.
LEMMA OffsetsGrow ==
  ASSUME NEW nodes, Sized(nodes), \A k \in 1 .. Len(nodes) : nodes[k].length > 0,
         NEW j \in 0 .. Len(nodes), NEW k \in 0 .. Len(nodes)
  PROVE  (j < k) <=> (Offsets(nodes)[j] < Offsets(nodes)[k])
  <1>. DEFINE f == Offsets(nodes)
              n == Len(nodes)
              S(i) == {m \in 0 .. n : i < m => f[i] < f[m]}
  <1>1. n \in Nat /\ \A m \in 1 .. n : f[m] = f[m - 1] + nodes[m].length
    BY OffsetsStep DEF Sized
  <1>2. \A m \in 1 .. n : nodes[m].length \in Nat /\ nodes[m].length > 0
    BY DEF Sized
  <1>3. \A m \in 0 .. n : f[m] \in Nat
    BY OffsetsNat
  <1>. HIDE DEF f
  <1>4. ASSUME NEW i \in 0 .. n PROVE 0 .. n \subseteq S(i)
    <2>. DEFINE T == S(i)
    <2>1. 0 \in T /\ \A m \in 1 .. n : m - 1 \in T => m \in T
      <3>1. 0 \in T
        BY <1>1
      <3>2. ASSUME NEW m \in 1 .. n, m - 1 \in T PROVE m \in T
        <4>1. m \in 0 .. n /\ m - 1 \in 0 .. n /\ (i < m - 1 => f[i] < f[m - 1])
          BY <3>2
        <4>2. /\ f[m] = f[m - 1] + nodes[m].length /\ nodes[m].length > 0
              /\ nodes[m].length \in Nat /\ f[m - 1] \in Nat /\ f[i] \in Nat
          BY <1>1, <1>2, <1>3, <4>1
        <4>3. i = m - 1 => f[i] < f[m]
          BY <4>2
        <4>4. i < m - 1 => f[i] < f[m]
          BY <4>1, <4>2
        <4>. QED BY <4>1, <4>3, <4>4
      <3>. QED BY <3>1, <3>2
    <2>. HIDE DEF T, n
    <2>2. 0 .. n \subseteq T
      BY <1>1, <2>1, CountTo
    <2>. QED BY <2>2 DEF T
  <1>5. (j < k => f[j] < f[k]) /\ (k < j => f[k] < f[j])
    BY <1>4
  <1>. QED BY <1>3, <1>5 DEF f

\* The first n of a have the lengths of those of b behind the o-th.
AsLong(a, b, o, n) == /\ n <= Len(a) /\ o + n <= Len(b)
                      /\ \A k \in 1 .. n : a[k].length = b[o + k].length

\* Then they have the sums of those.
LEMMA OffsetsFrom ==
  ASSUME NEW a, NEW b, Sized(a), Sized(b), NEW o \in Nat, NEW n \in Nat, AsLong(a, b, o, n)
  PROVE  \A k \in 0 .. n : Offsets(b)[o + k] = Offsets(b)[o] + Offsets(a)[k]
  <1>0. n <= Len(a) /\ o + n <= Len(b) /\ \A k \in 1 .. n : a[k].length = b[o + k].length
    BY DEF AsLong
  <1>. DEFINE f == Offsets(a)
              g == Offsets(b)
              S == {k \in 0 .. n : g[o + k] = g[o] + f[k]}
  <1>1. /\ f[0] = 0 /\ \A k \in 1 .. n : f[k] = f[k - 1] + a[k].length
        /\ \A k \in 1 .. n : g[o + k] = g[o + (k - 1)] + b[o + k].length
    <2>1. f[0] = 0 /\ \A k \in 1 .. Len(a) : f[k] = f[k - 1] + a[k].length
      BY OffsetsStep DEF Sized
    <2>2. \A k \in 1 .. Len(b) : g[k] = g[k - 1] + b[k].length
      BY OffsetsStep DEF Sized
    <2>. HIDE DEF f, g
    <2>3. ASSUME NEW k \in 1 .. n PROVE g[o + k] = g[o + (k - 1)] + b[o + k].length
      <3>1. o + k \in 1 .. Len(b) /\ (o + k) - 1 = o + (k - 1)
        BY <1>0 DEF Sized
      <3>. QED BY <2>2, <3>1
    <2>4. \A k \in 1 .. n : k \in 1 .. Len(a)
      BY <1>0 DEF Sized
    <2>. QED BY <2>1, <2>3, <2>4
  <1>2. /\ \A k \in 1 .. n : a[k].length \in Nat /\ a[k].length = b[o + k].length
        /\ g[o] \in Nat /\ \A k \in 0 .. n : f[k] \in Nat
    <2>1. \A k \in 0 .. n : k \in 0 .. Len(a)
      BY <1>0 DEF Sized
    <2>2. o \in 0 .. Len(b)
      BY <1>0 DEF Sized
    <2>3. \A k \in 1 .. n : k \in 1 .. Len(a)
      BY <1>0 DEF Sized
    <2>. QED BY <1>0, <2>1, <2>2, <2>3, OffsetsNat DEF Sized
  <1>. HIDE DEF f, g
  <1>3. 0 \in S
    BY <1>1, <1>2
  <1>4. ASSUME NEW k \in 1 .. n, k - 1 \in S PROVE k \in S
    <2>. DEFINE j == k - 1
    <2>1. k \in 0 .. n /\ j \in 0 .. n /\ g[o + j] = g[o] + f[j]
      BY <1>4
    <2>2. g[o + k] = g[o + j] + b[o + k].length /\ f[k] = f[j] + a[k].length
      BY <1>1
    <2>. HIDE DEF j
    <2>3. a[k].length = b[o + k].length /\ a[k].length \in Nat /\ f[j] \in Nat /\ g[o] \in Nat
      BY <1>2, <2>1
    <2>4. g[o + k] = g[o] + f[k]
      BY <2>1, <2>2, <2>3
    <2>. QED BY <2>1, <2>4
  <1>. HIDE DEF S
  <1>5. 0 .. n \subseteq S
    BY <1>3, <1>4, CountTo
  <1>. QED BY <1>5 DEF S, f, g

\* At the beginning they are the same sums.
LEMMA OffsetsStart ==
  ASSUME NEW a, NEW b, Sized(a), Sized(b), NEW n \in Nat, AsLong(a, b, 0, n)
  PROVE  \A k \in 0 .. n : Offsets(b)[k] = Offsets(a)[k]
  <1>1. \A k \in 0 .. n : Offsets(b)[0 + k] = Offsets(b)[0] + Offsets(a)[k]
    BY OffsetsFrom
  <1>2. Offsets(b)[0] = 0
    BY OffsetsStep DEF Sized
  <1>3. \A k \in 0 .. n : Offsets(a)[k] \in Nat
    <2>1. \A k \in 0 .. n : k \in 0 .. Len(a)
      BY DEF AsLong, Sized
    <2>. QED BY <2>1, OffsetsNat
  <1>. QED BY <1>1, <1>2, <1>3

\* Two sequences that differ in one length.
LEMMA OffsetsChange ==
  ASSUME NEW a, NEW b, Sized(a), Sized(b), Len(a) = Len(b), NEW j \in 1 .. Len(a),
         \A k \in 1 .. Len(a) : k # j => a[k].length = b[k].length
  PROVE  Log!LengthOf(b) = Log!LengthOf(a) + b[j].length - a[j].length
  <1>. DEFINE f == Offsets(a)
              g == Offsets(b)
              n == Len(a)
              d == b[j].length - a[j].length
              S == {k \in 0 .. n : g[k] = f[k] + IF j <= k THEN d ELSE 0}
  <1>1. /\ f[0] = 0 /\ \A k \in 1 .. n : f[k] = f[k - 1] + a[k].length
        /\ g[0] = 0 /\ \A k \in 1 .. n : g[k] = g[k - 1] + b[k].length
        /\ Log!LengthOf(a) = f[n] /\ Log!LengthOf(b) = g[n]
    BY OffsetsStep, OffsetsIs DEF Sized
  <1>2. /\ n \in Nat /\ d = b[j].length - a[j].length
        /\ \A k \in 1 .. n : a[k].length \in Nat /\ b[k].length \in Nat
        /\ \A k \in 0 .. n : f[k] \in Nat /\ g[k] \in Nat
    BY OffsetsNat DEF Sized
  <1>3. \A k \in 1 .. n : k # j => a[k].length = b[k].length
    OBVIOUS
  <1>. j \in 1 .. n
    OBVIOUS
  <1>. HIDE DEF f, g, n, d
  <1>4. 0 \in S
    BY <1>1, <1>2
  <1>5. ASSUME NEW k \in 1 .. n, k - 1 \in S PROVE k \in S
    <2>1. /\ k \in 0 .. n /\ k - 1 \in 0 .. n
          /\ g[k - 1] = f[k - 1] + IF j <= k - 1 THEN d ELSE 0
      BY <1>5
    <2>2. /\ g[k] = g[k - 1] + b[k].length /\ f[k] = f[k - 1] + a[k].length
          /\ a[k].length \in Nat /\ b[k].length \in Nat /\ f[k - 1] \in Nat
          /\ a[j].length \in Nat /\ b[j].length \in Nat /\ d = b[j].length - a[j].length
      BY <1>1, <1>2, <2>1
    <2>3. CASE k = j
      <3>1. ~(j <= k - 1) /\ j <= k
        BY <2>3
      <3>2. g[k - 1] = f[k - 1]
        BY <2>1, <2>2, <3>1
      <3>3. g[k] = f[k] + d
        BY <2>2, <2>3, <3>2
      <3>. QED BY <2>1, <3>1, <3>3
    <2>4. CASE k # j
      <3>1. a[k].length = b[k].length /\ (j <= k - 1 <=> j <= k)
        BY <1>3, <2>4
      <3>2. g[k] = f[k] + IF j <= k THEN d ELSE 0
        <4>1. CASE j <= k
          BY <2>1, <2>2, <3>1, <4>1
        <4>2. CASE ~(j <= k)
          BY <2>1, <2>2, <3>1, <4>2
        <4>. QED BY <4>1, <4>2
      <3>. QED BY <2>1, <3>2
    <2>. QED BY <2>3, <2>4
  <1>. HIDE DEF S
  <1>6. 0 .. n \subseteq S
    BY <1>2, <1>4, <1>5, CountTo
  <1>7. g[n] = f[n] + d
    BY <1>2, <1>6 DEF S
  <1>8. a[j].length \in Nat /\ b[j].length \in Nat /\ f[n] \in Nat
    BY <1>2
  <1>. QED BY <1>1, <1>2, <1>7, <1>8

\* A sequence of shorter things is shorter.
LEMMA OffsetsLess ==
  ASSUME NEW a, NEW b, Sized(a), Sized(b), Len(a) = Len(b),
         \A k \in 1 .. Len(a) : a[k].length <= b[k].length
  PROVE  Log!LengthOf(a) <= Log!LengthOf(b)
  <1>. DEFINE f == Offsets(a)
              g == Offsets(b)
              n == Len(a)
              S == {k \in 0 .. n : f[k] <= g[k]}
  <1>1. /\ f[0] = 0 /\ \A k \in 1 .. n : f[k] = f[k - 1] + a[k].length
        /\ g[0] = 0 /\ \A k \in 1 .. n : g[k] = g[k - 1] + b[k].length
        /\ Log!LengthOf(a) = f[n] /\ Log!LengthOf(b) = g[n]
    BY OffsetsStep, OffsetsIs DEF Sized
  <1>2. /\ n \in Nat /\ \A k \in 0 .. n : f[k] \in Nat /\ g[k] \in Nat
        /\ \A k \in 1 .. n : /\ a[k].length \in Nat /\ b[k].length \in Nat
                             /\ a[k].length <= b[k].length
    BY OffsetsNat DEF Sized
  <1>. HIDE DEF f, g, n
  <1>3. 0 \in S
    BY <1>1, <1>2
  <1>4. ASSUME NEW k \in 1 .. n, k - 1 \in S PROVE k \in S
    <2>1. k \in 0 .. n /\ k - 1 \in 0 .. n /\ f[k - 1] <= g[k - 1]
      BY <1>4
    <2>2. /\ g[k] = g[k - 1] + b[k].length /\ f[k] = f[k - 1] + a[k].length
          /\ a[k].length \in Nat /\ b[k].length \in Nat /\ a[k].length <= b[k].length
          /\ f[k - 1] \in Nat /\ g[k - 1] \in Nat
      BY <1>1, <1>2, <2>1
    <2>3. f[k] <= g[k]
      BY <2>1, <2>2
    <2>. QED BY <2>1, <2>3
  <1>. HIDE DEF S
  <1>5. 0 .. n \subseteq S
    BY <1>2, <1>3, <1>4, CountTo
  <1>. QED BY <1>1, <1>2, <1>5 DEF S

\* Nodes have a length, and it is not 0.
LEMMA NodesSized ==
  ASSUME NEW nodes \in Seq(Nodes)
  PROVE  Sized(nodes) /\ \A k \in 1 .. Len(nodes) : nodes[k].length > 0
  <1>1. \A d \in Nodes : d.length \in 1 .. INTERNAL_SIZE
    BY DEF Nodes
  <1>2. \A k \in 1 .. Len(nodes) : nodes[k] \in Nodes
    OBVIOUS
  <1>. QED BY <1>1, <1>2, ProcessesAssumption DEF Sized

\* A node at the end changes no sum before it.
LEMMA OffsetsAppend ==
  ASSUME NEW nodes \in Seq(Nodes), NEW d \in Nodes
  PROVE  \A k \in 0 .. Len(nodes) : Offsets(Append(nodes, d))[k] = Offsets(nodes)[k]
  <1>. DEFINE more == Append(nodes, d)
  <1>1. more \in Seq(Nodes) /\ Len(more) = Len(nodes) + 1 /\ Len(nodes) \in Nat
    OBVIOUS
  <1>2. AsLong(nodes, more, 0, Len(nodes))
    BY <1>1 DEF AsLong
  <1>. HIDE DEF more
  <1>3. Sized(nodes) /\ Sized(more)
    BY <1>1, NodesSized
  <1>. QED BY <1>1, <1>2, <1>3, OffsetsStart DEF more

\* The log's offsets are those of the list.
LEMMA OffsetIs ==
  ASSUME ~Cleaning, buffer \in Seq(Nodes), NEW k \in 1 .. Len(buffer)
  PROVE  Log!Offset(k) = Offsets(buffer)[k - 1]
  <1>. DEFINE front == SubSeq(buffer, 1, k - 1)
  <1>1. /\ front \in Seq(Nodes) /\ Len(front) = k - 1 /\ k - 1 \in Nat
        /\ Len(buffer) \in Nat /\ k - 1 <= Len(buffer)
        /\ \A i \in 1 .. k - 1 : front[i] = buffer[i]
    OBVIOUS
  <1>2. Log!Offset(k) = Log!LengthOf(front)
    BY DEF Log!Offset
  <1>. HIDE DEF front
  <1>3. AsLong(front, buffer, 0, k - 1)
    BY <1>1 DEF AsLong
  <1>4. Sized(front) /\ Sized(buffer)
    BY <1>1, NodesSized
  <1>5. Log!LengthOf(front) = Offsets(front)[k - 1]
    BY <1>1, OffsetsIs
  <1>6. Offsets(buffer)[k - 1] = Offsets(front)[k - 1]
    BY <1>1, <1>3, <1>4, OffsetsStart
  <1>. QED BY <1>2, <1>5, <1>6

-----------------------------------------------------------------------------
(***************************************************************************)
(* A read.                                                                 *)
(***************************************************************************)
\* user holds what a read of count bytes from start on takes of the nodes: the
\* first ones, which begin before start, it skips.
TakenFrom(nodes, user, start, count, skipped) ==
  LET sum == Offsets(nodes)
      room(k) == count - (sum[skipped + (k - 1)] - sum[skipped])
  IN /\ \A k \in 1 .. skipped : sum[k - 1] < start
     /\ Len(user) > 0 => sum[skipped] >= start
     /\ \A k \in 1 .. Len(user) :
          /\ k > 1 => room(k) > 0
          /\ user[k] = [node |-> nodes[skipped + k],
                        bytes |-> Least(nodes[skipped + k].length, room(k))]

\* The j-th node is the last of which there is something, or which is skipped.
Taken(nodes, user, start, count, j) ==
  Len(user) <= j /\ TakenFrom(nodes, user, start, count, j - Len(user))

\* It is done: there are no more nodes, or count bytes are reached.
Done(nodes, user, count, j) ==
  \/ j = Len(nodes)
  \/ Len(user) > 0 /\ Offsets(nodes)[j] - Offsets(nodes)[j - Len(user)] >= count

\* What a read returns of a node.
Parts == [node : Nodes, bytes : Nat]

\* SharedLog counts as FiniteSets does: the theorems on cardinality apply.
LEMMA CardinalityIs == \A S : Log!Cardinality(S) = Cardinality(S)
  BY DEF Log!Cardinality, Cardinality

\* What has been taken when the walk is done is what the log holds there.
LEMMA SegmentIs ==
  ASSUME ~Cleaning, buffer \in Seq(Nodes), NEW user \in Seq(Parts), NEW start \in Nat,
         NEW count \in Nat, NEW j \in 0 .. Len(buffer),
         Taken(buffer, user, start, count, j), Done(buffer, user, count, j)
  PROVE  Log!Segment(start, count) = user
  <1>. DEFINE n == Len(buffer)
              c == Len(user)
              sum == Offsets(buffer)
              skipped == j - c
              ahead == {k \in 1 .. n : Log!Offset(k) >= start}
              first == CHOOSE k \in ahead : \A i \in ahead : k <= i
              nodes == {k \in ahead : k = first \/ Log!Offset(k) - Log!Offset(first) < count}
              part(k) == LET room == count - (Log!Offset(k) - Log!Offset(first))
                         IN [node  |-> buffer[k],
                             bytes |-> IF room < buffer[k].length
                                       THEN room ELSE buffer[k].length]
  <1>1. Log!Segment(start, count) = [i \in 1 .. Cardinality(nodes) |-> part(first + i - 1)]
    BY CardinalityIs DEF Log!Segment
  <1>2. /\ n \in Nat /\ c \in Nat /\ skipped \in 0 .. n /\ skipped + c = j /\ j \in 0 .. n
        /\ \A k \in 0 .. n : sum[k] \in Nat
        /\ \A i, k \in 0 .. n : i < k <=> sum[i] < sum[k]
    <2>1. Sized(buffer) /\ \A k \in 1 .. Len(buffer) : buffer[k].length > 0
      BY NodesSized
    <2>2. /\ \A k \in 0 .. n : sum[k] \in Nat
          /\ \A i, k \in 0 .. n : i < k <=> sum[i] < sum[k]
      BY <2>1, OffsetsNat, OffsetsGrow
    <2>3. n \in Nat /\ c \in Nat /\ c <= j /\ j \in 0 .. n
      BY DEF Taken
    <2>. HIDE DEF n, c, sum
    <2>. QED BY <2>2, <2>3
  <1>3. \A k \in 1 .. n : Log!Offset(k) = sum[k - 1] /\ sum[k - 1] \in Nat
    BY <1>2, OffsetIs
  <1>4. /\ \A k \in 1 .. skipped : sum[k - 1] < start
        /\ c > 0 => sum[skipped] >= start
        /\ \A k \in 1 .. c :
             /\ k > 1 => count - (sum[skipped + (k - 1)] - sum[skipped]) > 0
             /\ user[k] = [node |-> buffer[skipped + k],
                           bytes |-> Least(buffer[skipped + k].length,
                                           count - (sum[skipped + (k - 1)] - sum[skipped]))]
    BY DEF Taken, TakenFrom
  <1>5. j = n \/ (c > 0 /\ sum[j] - sum[skipped] >= count)
    BY DEF Done
  <1>6. user = [i \in 1 .. c |-> user[i]]
    OBVIOUS
  <1>7. \A k \in 1 .. n : buffer[k].length \in Nat
    BY NodesSized DEF Sized
  <1>. HIDE DEF n, c, sum, skipped
  <1>8. CASE c = 0
    <2>1. ahead = {}
      <3>1. skipped = n
        BY <1>2, <1>5, <1>8
      <3>2. ASSUME NEW k \in 1 .. n PROVE ~(Log!Offset(k) >= start)
        <4>1. sum[k - 1] < start /\ Log!Offset(k) = sum[k - 1] /\ sum[k - 1] \in Nat
          BY <1>3, <1>4, <3>1
        <4>. QED BY <4>1
      <3>. QED BY <3>2
    <2>2. nodes = {}
      BY <2>1
    <2>3. Cardinality(nodes) = 0
      BY <2>2, FS_EmptySet
    <2>. HIDE DEF nodes, part
    <2>. QED BY <1>1, <1>6, <1>8, <2>3
  <1>9. CASE c > 0
    <2>. DEFINE f == skipped + 1
    <2>1. f \in ahead /\ f \in 1 .. n /\ f - 1 = skipped /\ \A i \in ahead : f <= i
      <3>1. f \in 1 .. n /\ f - 1 = skipped
        BY <1>2, <1>9
      <3>2. f \in ahead
        BY <1>3, <1>4, <1>9, <3>1
      <3>3. ASSUME NEW i \in ahead PROVE f <= i
        <4>1. i \in 1 .. n /\ sum[i - 1] >= start /\ sum[i - 1] \in Nat
          BY <1>3
        <4>2. ~(i \in 1 .. skipped)
          BY <1>4, <4>1
        <4>. QED BY <1>2, <4>1, <4>2
      <3>. QED BY <3>1, <3>2, <3>3
    <2>2. first = f
      <3>1. first \in ahead /\ \A i \in ahead : first <= i
        <4>. HIDE DEF ahead, f
        <4>. QED BY <2>1
      <3>2. first <= f /\ f <= first /\ first \in Int
        BY <2>1, <3>1
      <3>. QED BY <2>1, <3>2
    <2>. HIDE DEF first
    <2>3. nodes = f .. j
      <3>1. ASSUME NEW k \in nodes PROVE k \in f .. j
        <4>1. k \in ahead /\ k \in 1 .. n /\ f <= k
          BY <2>1
        <4>2. k = f \/ sum[k - 1] - sum[skipped] < count
          BY <1>3, <2>1, <2>2, <4>1
        <4>3. ASSUME k > j PROVE FALSE
          <5>1. j \in 0 .. n /\ k - 1 \in 0 .. n /\ ~(k - 1 < j) /\ j # n /\ k # f
            BY <1>2, <4>1, <4>3, <1>9
          <5>2. ~(sum[k - 1] < sum[j])
            BY <1>2, <5>1
          <5>. QED BY <1>2, <1>5, <4>2, <5>1, <5>2
        <4>. QED BY <1>2, <4>1, <4>3
      <3>2. ASSUME NEW k \in f .. j PROVE k \in nodes
        <4>1. k \in 1 .. n /\ k - 1 \in 0 .. n /\ skipped \in 0 .. n
              /\ ~(k - 1 < skipped)
          BY <1>2, <2>1
        <4>2. ~(sum[k - 1] < sum[skipped])
          BY <1>2, <4>1
        <4>3. sum[k - 1] >= start /\ Log!Offset(k) = sum[k - 1] /\ Log!Offset(f) = sum[skipped]
          BY <1>2, <1>3, <1>4, <1>9, <2>1, <4>1, <4>2
        <4>4. k # f => sum[k - 1] - sum[skipped] < count
          <5>. DEFINE i == k - skipped
          <5>1. i \in 1 .. c /\ skipped + (i - 1) = k - 1 /\ (k # f => i > 1)
            BY <1>2, <2>1
          <5>. HIDE DEF i
          <5>2. k # f => count - (sum[k - 1] - sum[skipped]) > 0
            BY <1>4, <5>1
          <5>3. sum[k - 1] \in Nat /\ sum[skipped] \in Nat
            BY <1>2, <4>1
          <5>. QED BY <5>2, <5>3
        <4>. QED BY <2>2, <4>1, <4>3, <4>4
      <3>. QED BY <3>1, <3>2
    <2>4. Cardinality(nodes) = c
      <3>1. f \in Int /\ j \in Int /\ f <= j /\ j - f + 1 = c
        BY <1>2, <1>9
      <3>. HIDE DEF f
      <3>2. Cardinality(f .. j) = j - f + 1
        BY <3>1, FS_Interval
      <3>. QED BY <2>3, <3>1, <3>2
    <2>5. ASSUME NEW i \in 1 .. c PROVE part(first + i - 1) = user[i]
      <3>. DEFINE k == first + i - 1
                  room == count - (sum[skipped + (i - 1)] - sum[skipped])
      <3>1. k \in 1 .. n /\ k = skipped + i /\ k - 1 = skipped + (i - 1) /\ i \in 1 .. c
        BY <1>2, <2>2
      <3>2. Log!Offset(k) = sum[k - 1] /\ Log!Offset(first) = sum[skipped]
        BY <1>3, <2>1, <2>2, <3>1
      <3>3. part(k) = [node |-> buffer[k],
                       bytes |-> IF room < buffer[k].length THEN room ELSE buffer[k].length]
        BY <3>1, <3>2
      <3>4. user[i] = [node |-> buffer[k], bytes |-> Least(buffer[k].length, room)]
        BY <1>4, <3>1
      <3>5. room \in Int /\ buffer[k].length \in Nat
        <4>1. sum[k - 1] \in Nat /\ sum[skipped] \in Nat
          BY <1>2, <1>3, <3>1
        <4>. QED BY <1>7, <3>1, <4>1
      <3>. HIDE DEF part, room, k
      <3>6. Least(buffer[k].length, room)
              = IF room < buffer[k].length THEN room ELSE buffer[k].length
        BY <3>5 DEF Least
      <3>. QED BY <3>3, <3>4, <3>6 DEF k
    <2>. HIDE DEF nodes, part
    <2>. QED BY <1>1, <1>6, <2>4, <2>5
  <1>. QED BY <1>2, <1>8, <1>9

\* The file moves past the nodes of which there is something.
LEMMA TakenLength ==
  ASSUME NEW nodes \in Seq(Nodes), NEW user \in Seq(Parts), NEW start, NEW count,
         NEW j \in 0 .. Len(nodes), Taken(nodes, user, start, count, j)
  PROVE  Log!LengthOf([k \in DOMAIN user |-> user[k].node])
           = Offsets(nodes)[j] - Offsets(nodes)[j - Len(user)]
  <1>. DEFINE taken == [k \in DOMAIN user |-> user[k].node]
              c == Len(user)
              skipped == j - c
  <1>1. /\ c \in Nat /\ DOMAIN user = 1 .. c /\ skipped \in Nat /\ skipped + c = j
        /\ skipped \in 0 .. Len(nodes) /\ j \in 0 .. Len(nodes) /\ Len(nodes) \in Nat
    BY DEF Taken, TakenFrom
  <1>2. /\ taken \in Seq(Nodes) /\ Len(taken) = c
        /\ \A k \in 1 .. c : taken[k] = user[k].node
    <2>1. \A k \in 1 .. c : user[k] \in Parts
      BY <1>1
    <2>2. \A d \in Parts : d.node \in Nodes
      BY DEF Parts
    <2>3. \A k \in 1 .. c : user[k].node \in Nodes
      BY <2>1, <2>2
    <2>. HIDE DEF c
    <2>. QED BY <1>1, <2>3
  <1>3. \A k \in 1 .. c : taken[k].length = nodes[skipped + k].length
    <2>1. ASSUME NEW k \in 1 .. c PROVE user[k].node = nodes[skipped + k]
      <3>. DEFINE bytes == Least(nodes[skipped + k].length,
                                 count - (Offsets(nodes)[skipped + (k - 1)] - Offsets(nodes)[skipped]))
      <3>1. user[k] = [node |-> nodes[skipped + k], bytes |-> bytes]
        BY Zenon DEF Taken, TakenFrom
      <3>. HIDE DEF bytes
      <3>. QED BY <3>1
    <2>. QED BY <1>2, <2>1
  <1>. HIDE DEF taken, c, skipped
  <1>4. Sized(taken) /\ Sized(nodes)
    BY <1>2, NodesSized
  <1>5. \A k \in 0 .. c :
          Offsets(nodes)[skipped + k] = Offsets(nodes)[skipped] + Offsets(taken)[k]
    <2>1. c \in Nat /\ skipped \in Nat /\ AsLong(taken, nodes, skipped, c)
      BY <1>1, <1>2, <1>3 DEF AsLong
    <2>. QED BY <1>4, <2>1, OffsetsFrom
  <1>6. Offsets(nodes)[j] = Offsets(nodes)[skipped] + Offsets(taken)[c]
    BY <1>1, <1>5
  <1>7. Offsets(nodes)[skipped] \in Nat /\ Offsets(taken)[c] \in Nat
    BY <1>1, <1>2, <1>4, OffsetsNat
  <1>8. Log!LengthOf(taken) = Offsets(taken)[c]
    BY <1>1, <1>2, OffsetsIs
  <1>. QED BY <1>6, <1>7, <1>8 DEF taken, c, skipped

\* What has been taken stays the same when a node is linked at the end.
LEMMA TakenAppend ==
  ASSUME NEW nodes \in Seq(Nodes), NEW d \in Nodes, NEW user \in Seq(Parts), NEW start, NEW count,
         NEW j \in 0 .. Len(nodes), Taken(nodes, user, start, count, j)
  PROVE  Taken(Append(nodes, d), user, start, count, j)
  <1>. DEFINE more == Append(nodes, d)
              c == Len(user)
              skipped == j - c
  <1>1. /\ c \in Nat /\ skipped \in Nat /\ skipped + c = j /\ Len(nodes) \in Nat
        /\ \A k \in 1 .. Len(nodes) : more[k] = nodes[k]
    BY DEF Taken, TakenFrom
  <1>2. \A k \in 0 .. Len(nodes) : Offsets(more)[k] = Offsets(nodes)[k]
    BY OffsetsAppend
  <1>3. /\ c <= j
        /\ \A k \in 1 .. skipped : Offsets(nodes)[k - 1] < start
        /\ c > 0 => Offsets(nodes)[skipped] >= start
        /\ \A k \in 1 .. c :
             /\ k > 1 => count - (Offsets(nodes)[skipped + (k - 1)] - Offsets(nodes)[skipped]) > 0
             /\ user[k] = [node |-> nodes[skipped + k],
                           bytes |-> Least(nodes[skipped + k].length,
                             count - (Offsets(nodes)[skipped + (k - 1)] - Offsets(nodes)[skipped]))]
    BY DEF Taken, TakenFrom
  <1>. HIDE DEF more, c, skipped
  <1>4. \A k \in 1 .. skipped : Offsets(more)[k - 1] < start
    <2>1. \A k \in 1 .. skipped : k - 1 \in 0 .. Len(nodes)
      BY <1>1
    <2>. QED BY <1>2, <1>3, <2>1
  <1>5. Offsets(more)[skipped] = Offsets(nodes)[skipped]
    BY <1>1, <1>2
  <1>6. ASSUME NEW k \in 1 .. c
        PROVE  /\ Offsets(more)[skipped + (k - 1)] = Offsets(nodes)[skipped + (k - 1)]
               /\ more[skipped + k] = nodes[skipped + k]
    <2>1. skipped + (k - 1) \in 0 .. Len(nodes) /\ skipped + k \in 1 .. Len(nodes)
      BY <1>1
    <2>. QED BY <1>1, <1>2, <2>1
  <1>7. \A k \in 1 .. c :
             /\ k > 1 => count - (Offsets(more)[skipped + (k - 1)] - Offsets(more)[skipped]) > 0
             /\ user[k] = [node |-> more[skipped + k],
                           bytes |-> Least(more[skipped + k].length,
                             count - (Offsets(more)[skipped + (k - 1)] - Offsets(more)[skipped]))]
    BY <1>3, <1>5, <1>6
  <1>. QED BY <1>3, <1>4, <1>5, <1>7 DEF Taken, TakenFrom, more, c, skipped

\* One more node is taken.
LEMMA TakenMore ==
  ASSUME NEW nodes \in Seq(Nodes), NEW user \in Seq(Parts), NEW start, NEW count \in Nat,
         NEW j \in 0 .. Len(nodes), j < Len(nodes), Taken(nodes, user, start, count, j),
         Len(user) = 0 => Offsets(nodes)[j] >= start,
         Len(user) > 0 => Offsets(nodes)[j] - Offsets(nodes)[j - Len(user)] < count,
         NEW part, part = [node |-> nodes[j + 1],
                           bytes |-> Least(nodes[j + 1].length,
                             count - (Offsets(nodes)[j] - Offsets(nodes)[j - Len(user)]))]
  PROVE  /\ Append(user, part) \in Seq(Parts) /\ j + 1 \in 0 .. Len(nodes)
         /\ Len(Append(user, part)) = Len(user) + 1
         /\ Taken(nodes, Append(user, part), start, count, j + 1)
  <1>. DEFINE more == Append(user, part)
              c == Len(user)
              skipped == j - c
              sum == Offsets(nodes)
  <1>1. /\ c \in Nat /\ skipped \in 0 .. Len(nodes) /\ skipped + c = j /\ Len(nodes) \in Nat
        /\ j + 1 \in 1 .. Len(nodes) /\ skipped = (j + 1) - (c + 1)
    BY DEF Taken, TakenFrom
  <1>2. /\ \A k \in 1 .. skipped : sum[k - 1] < start
        /\ c > 0 => sum[skipped] >= start
        /\ \A k \in 1 .. c :
             /\ k > 1 => count - (sum[skipped + (k - 1)] - sum[skipped]) > 0
             /\ user[k] = [node |-> nodes[skipped + k],
                           bytes |-> Least(nodes[skipped + k].length,
                                           count - (sum[skipped + (k - 1)] - sum[skipped]))]
    BY DEF Taken, TakenFrom
  <1>3. /\ sum[j] \in Nat /\ sum[skipped] \in Nat /\ nodes[j + 1].length \in Nat
        /\ nodes[j + 1] \in Nodes
    <2>1. Sized(nodes) /\ nodes[j + 1] \in Nodes
      BY <1>1, NodesSized
    <2>2. nodes[j + 1].length \in Nat
      BY <1>1, <2>1 DEF Sized
    <2>3. sum[j] \in Nat /\ sum[skipped] \in Nat
      BY <1>1, <2>1, OffsetsNat
    <2>. QED BY <2>1, <2>2, <2>3
  <1>. DEFINE room == count - (sum[j] - sum[skipped])
  <1>4. /\ part = [node |-> nodes[j + 1], bytes |-> Least(nodes[j + 1].length, room)]
        /\ c = 0 => sum[j] >= start
        /\ c > 0 => sum[j] - sum[skipped] < count
    OBVIOUS
  <1>5. room \in Nat /\ (c > 0 => room > 0)
    <2>. HIDE DEF c, skipped, sum
    <2>1. CASE c = 0
      BY <1>1, <1>3, <2>1
    <2>2. CASE c > 0
      BY <1>3, <1>4, <2>2
    <2>. QED BY <1>1, <2>1, <2>2
  <1>6. part \in Parts
    <2>. HIDE DEF room
    <2>1. Least(nodes[j + 1].length, room) \in Nat
      BY <1>3, <1>5 DEF Least
    <2>. QED BY <1>3, <1>4, <2>1 DEF Parts
  <1>7. /\ more \in Seq(Parts) /\ Len(more) = c + 1
        /\ \A k \in 1 .. c : more[k] = user[k]
        /\ more[c + 1] = part
    BY <1>6, AppendProperties
  <1>. HIDE DEF more, c, skipped, sum
  <1>8. sum[skipped] >= start
    BY <1>1, <1>2, <1>4
  <1>9. ASSUME NEW k \in 1 .. c + 1
        PROVE  /\ k > 1 => count - (sum[skipped + (k - 1)] - sum[skipped]) > 0
               /\ more[k] = [node |-> nodes[skipped + k],
                             bytes |-> Least(nodes[skipped + k].length,
                                             count - (sum[skipped + (k - 1)] - sum[skipped]))]
    <2>1. CASE k \in 1 .. c
      BY <1>2, <1>7, <2>1
    <2>2. CASE k = c + 1
      <3>1. skipped + k = j + 1 /\ skipped + (k - 1) = j /\ (k > 1 => c > 0)
        BY <1>1, <2>2
      <3>2. more[k] = part
        BY <1>7, <2>2
      <3>. QED BY <1>4, <1>5, <3>1, <3>2
    <2>. QED BY <1>1, <2>1, <2>2
  <1>10. TakenFrom(nodes, more, start, count, skipped)
    BY <1>2, <1>7, <1>8, <1>9 DEF TakenFrom, sum
  <1>11. Len(more) <= j + 1 /\ (j + 1) - Len(more) = skipped
    BY <1>1, <1>7
  <1>. QED BY <1>1, <1>7, <1>10, <1>11 DEF Taken, more, c

\* A node is skipped.
LEMMA TakenSkip ==
  ASSUME NEW nodes \in Seq(Nodes), NEW user \in Seq(Parts), NEW start, NEW count \in Nat,
         NEW j \in 0 .. Len(nodes), j < Len(nodes), Taken(nodes, user, start, count, j),
         Len(user) = 0, Offsets(nodes)[j] < start
  PROVE  j + 1 \in 0 .. Len(nodes) /\ Taken(nodes, user, start, count, j + 1)
  <1>. DEFINE sum == Offsets(nodes)
  <1>1. \A k \in 1 .. j : sum[k - 1] < start
    BY DEF Taken, TakenFrom
  <1>2. \A k \in 1 .. j + 1 : sum[k - 1] < start
    <2>. SUFFICES ASSUME NEW k \in 1 .. j + 1 PROVE sum[k - 1] < start
      OBVIOUS
    <2>1. k \in 1 .. j \/ k - 1 = j
      OBVIOUS
    <2>. QED BY <1>1, <2>1
  <1>. HIDE DEF sum
  <1>. QED BY <1>2 DEF Taken, TakenFrom, sum

-----------------------------------------------------------------------------
(***************************************************************************)
(* What the calls know of the list and of the counters.                    *)
(***************************************************************************)
Files == /\ f_pos \in [Processes -> Nat] /\ got \in [Readers -> Seq(Parts)]
         /\ \A r \in Readers : /\ call[r].user \in Seq(Parts)
                               /\ call[r].real_length \in Nat

\* The walk of a read has come to the j-th node.
WalkedTo(nodes, rec, start, j) ==
  LET sum == Offsets(nodes)
      skipped == j - Len(rec.user)
  IN /\ Taken(nodes, rec.user, start, rec.count, j)
     /\ rec.at = IF j = 0 THEN ListHead ELSE nodes[j]
     /\ rec.pos = sum[j]
     /\ rec.copied = sum[j] - sum[skipped] /\ rec.real_length = sum[j] - sum[skipped]
     /\ Len(rec.user) > 0 => rec.copied < rec.count

\* It is over.
Walked(nodes, rec, start, j) ==
  /\ Taken(nodes, rec.user, start, rec.count, j) /\ Done(nodes, rec.user, rec.count, j)
  /\ rec.real_length = Offsets(nodes)[j] - Offsets(nodes)[j - Len(rec.user)]

\* Every walk is at a place of the list.
Walks == \A r \in Readers : pc[r] \in {"lock", "walk"} =>
  /\ call[r].count \in ReadCounts
  /\ \E j \in 0 .. Len(buffer) : WalkedTo(buffer, call[r], f_pos[r], j)

\* clean_list is at the first node, and has loaded the pointer to the second.
Seconds == \A w \in Writers : pc[w] = "clean" =>
  /\ cleared # "never"
  /\ call[w].at = IF Len(buffer) > 0 THEN buffer[1] ELSE ListHead
  /\ call[w].next = IF Len(buffer) > 1 THEN buffer[2] ELSE ListHead

\* What a file has received and its position, a read that is over included.
LogGot(r) == IF pc[r] = "leave" THEN got[r] \o call[r].user ELSE got[r]
LogPos(r) == IF pc[r] = "leave" THEN f_pos[r] + call[r].real_length ELSE f_pos[r]

\* A file that no clear has met has received the first nodes, and is behind them.
FirstOnes == cleared = "never" /\ module # "removed" => \A r \in Readers :
  /\ Len(LogGot(r)) <= Len(buffer)
  /\ \A k \in 1 .. Len(LogGot(r)) : LogGot(r)[k].node = buffer[k]
  /\ LogPos(r) = Offsets(buffer)[Len(LogGot(r))]

\* The nodes that are in the list, and that total_length will be increased by.
Pending == {call[w].node : w \in {v \in Writers : Made(v)}}

\* The list as if those were empty.
Without(nodes, pending) ==
  [k \in DOMAIN nodes |-> [length |-> IF nodes[k] \in pending THEN 0 ELSE nodes[k].length]]
Counted == Without(buffer, Pending)

\* total_length, and what a writer has loaded of it, are at most that.
CountInv ==
  /\ total_length \in Int
  /\ Cleaning \/ total_length <= Log!LengthOf(Counted)
  /\ \A w \in Writers : Made(w) => call[w].node \in Range(buffer) /\ call[w].node.by = w
  /\ \A w \in Writers : pc[w] = "add" => /\ call[w].register \in Int
                                        /\ call[w].register <= Log!LengthOf(Counted)

\* The files, the walks, clean_list and the counter, as long as nothing overlaps.
DataInv == Files /\ Walks /\ Seconds /\ FirstOnes /\ CountInv

-----------------------------------------------------------------------------
\* One turn of the walk.
LEMMA TurnStep ==
  ASSUME ListInv, Files, NEW r \in Readers, Walk(r), call[r].count \in Nat,
         NEW j \in 0 .. Len(buffer), WalkedTo(buffer, call[r], f_pos[r], j)
  PROVE  /\ Moved(r) /\ call'[r].count = call[r].count
         /\ call'[r].user \in Seq(Parts) /\ call'[r].real_length \in Nat
         /\ \/ pc'[r] = "fault"
            \/ /\ pc'[r] = "walk"
               /\ j + 1 \in 0 .. Len(buffer) /\ WalkedTo(buffer, call'[r], f_pos[r], j + 1)
            \/ /\ pc'[r] = "leave"
               /\ \E i \in 0 .. Len(buffer) : Walked(buffer, call'[r], f_pos[r], i)
  <1>. DEFINE n == Len(buffer)
              sum == Offsets(buffer)
              user == call[r].user
              c == Len(user)
              skipped == j - c
              count == call[r].count
              start == f_pos[r]
  <1>1. /\ Placed /\ r \in Processes /\ DOMAIN call[r] = DOMAIN Blank
        /\ buffer \in Seq(Nodes) /\ \A i, k \in DOMAIN buffer : buffer[i] = buffer[k] => i = k
        /\ user \in Seq(Parts) /\ call[r].real_length \in Nat /\ start \in Nat
    BY DEF ListInv, Linear, Placed, Processes, Files
  <1>2. /\ Taken(buffer, user, start, count, j)
        /\ call[r].at = IF j = 0 THEN ListHead ELSE buffer[j]
        /\ call[r].pos = sum[j]
        /\ call[r].copied = sum[j] - sum[skipped] /\ call[r].real_length = sum[j] - sum[skipped]
        /\ c > 0 => call[r].copied < count
    BY DEF WalkedTo
  <1>3. /\ n \in Nat /\ c \in Nat /\ skipped \in 0 .. n /\ j \in 0 .. n /\ j = skipped + c
        /\ (c = 0 => skipped = j) /\ (c > 0 => skipped < j)
    <2>1. n \in Nat /\ c \in Nat /\ j \in 0 .. n
      BY <1>1
    <2>2. c <= j
      BY <1>2 DEF Taken
    <2>. HIDE DEF n, c
    <2>. QED BY <2>1, <2>2
  <1>4. Sized(buffer) /\ \A k \in 0 .. n : sum[k] \in Nat
    BY <1>1, NodesSized, OffsetsNat
  <1>5. /\ sum[j] \in Nat /\ sum[skipped] \in Nat
        /\ c > 0 => sum[skipped] >= start
        /\ skipped < j => sum[skipped] < sum[j]
    <2>1. c > 0 => sum[skipped] >= start
      BY <1>2 DEF Taken, TakenFrom
    <2>2. skipped < j => sum[skipped] < sum[j]
      BY <1>1, <1>3, NodesSized, OffsetsGrow
    <2>. QED BY <1>3, <1>4, <2>1, <2>2
  <1>6. PICK d \in Nexts(buffer, call[r].at) :
          \/ d = Poison /\ Die(r)
          \/ d = ListHead /\ Goto(r, "leave") /\ UNCHANGED call
          \/ d \notin {ListHead, Poison} /\ (Skip(r, d) \/ Copy(r, d) \/ CopyFaults(r))
    BY DEF Walk
  <1>7. d = IF j = n THEN ListHead ELSE buffer[j + 1]
    BY <1>1, <1>2, NextIs
  <1>8. d # Poison
    <2>1. j # n => j + 1 \in 1 .. n
      BY <1>3
    <2>. QED BY <1>1, <1>7, <2>1, NoNodes
  <1>9. CASE d = ListHead /\ Goto(r, "leave") /\ UNCHANGED call
    <2>1. Moved(r) /\ call'[r] = call[r] /\ pc'[r] = "leave"
      BY <1>1, <1>9, GotoStep DEF Moved
    <2>2. j = n
      <3>1. j # n => j + 1 \in 1 .. n
        BY <1>3
      <3>. QED BY <1>1, <1>7, <1>9, <3>1, NoNodes
    <2>3. Walked(buffer, call'[r], f_pos[r], j)
      BY <1>2, <2>1, <2>2 DEF Walked, Done
    <2>. QED BY <1>1, <2>1, <2>3
  <1>10. CASE CopyFaults(r)
    BY <1>1, <1>10, GotoStep DEF CopyFaults, Moved
  <1>11. ASSUME d \notin {ListHead, Poison}
         PROVE  /\ j < n /\ j + 1 \in 0 .. n /\ d = buffer[j + 1] /\ d \in Nodes /\ d.length \in Nat
                /\ sum[j + 1] = sum[j] + d.length
    <2>1. j # n /\ j + 1 \in 1 .. n /\ d = buffer[j + 1] /\ (j + 1) - 1 = j
      BY <1>3, <1>7, <1>11
    <2>2. sum[j + 1] = sum[j] + buffer[j + 1].length /\ buffer[j + 1].length \in Nat
      BY <1>3, <1>4, <2>1, OffsetsStep DEF Sized
    <2>. QED BY <1>1, <1>3, <2>1, <2>2
  <1>12. CASE d \notin {ListHead, Poison} /\ Skip(r, d)
    <2>. DEFINE locals == [call[r] EXCEPT !.at = d, !.pos = @ + d.length]
    <2>1. /\ DOMAIN locals = DOMAIN Blank /\ locals.at = d /\ locals.pos = call[r].pos + d.length
          /\ locals.count = count /\ locals.user = user /\ locals.copied = call[r].copied
          /\ locals.real_length = call[r].real_length
      BY <1>1 DEF Blank
    <2>2. Continue(r, "walk", locals) /\ call[r].pos < start
      BY <1>12 DEF Skip, Before
    <2>. HIDE DEF locals
    <2>3. Moved(r) /\ pc'[r] = "walk" /\ call'[r] = locals
      BY <1>1, <2>1, <2>2, ContinueStep DEF Moved
    <2>. HIDE DEF n, sum, user, c, skipped, count, start
    <2>4. c = 0 /\ sum[j] < start /\ skipped = j
      BY <1>1, <1>2, <1>3, <1>5, <2>2
    <2>. USE DEF n, sum, user, c, skipped, count, start
    <2>5. Taken(buffer, user, start, count, j + 1)
      BY <1>1, <1>2, <1>11, <1>12, <2>4, TakenSkip
    <2>. HIDE DEF n, sum, user, c, skipped, count, start
    <2>6. /\ locals.pos = sum[j + 1] /\ locals.copied = 0 /\ locals.real_length = 0
      BY <1>2, <1>5, <1>11, <1>12, <2>1, <2>4
    <2>7. /\ j + 1 # 0 /\ (j + 1) - c = j + 1 /\ sum[j + 1] - sum[j + 1] = 0
          /\ j + 1 \in 0 .. n
      BY <1>3, <1>5, <1>11, <1>12, <2>4
    <2>8. WalkedTo(buffer, locals, start, j + 1)
      BY <1>11, <1>12, <2>1, <2>4, <2>5, <2>6, <2>7 DEF WalkedTo, sum, c, user, count
    <2>. QED BY <1>1, <2>1, <2>3, <2>7, <2>8 DEF start, n, user, count
  <1>13. CASE d \notin {ListHead, Poison} /\ Copy(r, d)
    <2>. DEFINE to_copy == Least(d.length, count - call[r].copied)
                copied == call[r].copied + to_copy
                part == [node |-> d, bytes |-> to_copy]
                locals == [call[r] EXCEPT !.at = d, !.copied = copied, !.pos = @ + to_copy,
                                          !.real_length = @ + d.length,
                                          !.user = Append(@, part)]
    <2>1. /\ DOMAIN locals = DOMAIN Blank /\ locals.at = d /\ locals.pos = call[r].pos + to_copy
          /\ locals.count = count /\ locals.user = Append(user, part)
          /\ locals.copied = copied /\ locals.real_length = call[r].real_length + d.length
      BY <1>1 DEF Blank
    <2>2. /\ Continue(r, IF copied >= count THEN "leave" ELSE "walk", locals)
          /\ ~(call[r].pos < start)
      BY <1>13 DEF Copy, Before
    <2>. HIDE DEF locals
    <2>3. /\ Moved(r) /\ call'[r] = locals
          /\ pc'[r] = IF copied >= count THEN "leave" ELSE "walk"
      BY <1>1, <2>1, <2>2, ContinueStep DEF Moved
    <2>4. /\ Append(user, part) \in Seq(Parts) /\ Len(Append(user, part)) = c + 1
          /\ Taken(buffer, Append(user, part), start, count, j + 1)
      <3>1. c = 0 => sum[j] >= start
        BY <1>1, <1>2, <1>5, <2>2
      <3>2. c > 0 => sum[j] - sum[skipped] < count
        BY <1>2
      <3>3. part = [node |-> buffer[j + 1],
                    bytes |-> Least(buffer[j + 1].length, count - (sum[j] - sum[skipped]))]
        BY <1>2, <1>11, <1>13
      <3>4. j < Len(buffer)
        BY <1>11, <1>13
      <3>. HIDE DEF part
      <3>5. /\ buffer \in Seq(Nodes) /\ user \in Seq(Parts) /\ Taken(buffer, user, start, count, j)
            /\ count \in Nat
        BY <1>1, <1>2
      <3>. HIDE DEF to_copy, copied, user, start, count
      <3>. QED BY <3>1, <3>2, <3>3, <3>4, <3>5, TakenMore
    <2>. DEFINE room == count - (sum[j] - sum[skipped])
    <2>5. to_copy = (IF d.length < room THEN d.length ELSE room) /\ room \in Int
      BY <1>2, <1>5 DEF Least
    <2>6. copied = sum[j] - sum[skipped] + to_copy
      BY <1>2
    <2>. HIDE DEF n, sum, user, c, skipped, count, start, part, copied, to_copy, room
    <2>7. /\ (j + 1) - (c + 1) = skipped /\ j + 1 # 0 /\ j + 1 \in 0 .. n
      BY <1>3, <1>11, <1>13
    <2>8. /\ locals.real_length = sum[j + 1] - sum[skipped]
          /\ locals.real_length \in Nat
      <3>1. sum[j + 1] = sum[j] + d.length /\ d.length \in Nat
        BY <1>11, <1>13
      <3>2. sum[skipped] <= sum[j]
        BY <1>3, <1>5
      <3>. QED BY <1>2, <1>5, <2>1, <3>1, <3>2
    <2>9. CASE copied >= count
      <3>1. sum[j + 1] - sum[skipped] >= count
        <4>1. d.length >= room /\ d.length \in Nat /\ sum[j + 1] = sum[j] + d.length
          <5>1. d.length \in Nat /\ sum[j + 1] = sum[j] + d.length
            BY <1>11, <1>13
          <5>2. to_copy >= room
            BY <1>5, <2>5, <2>6, <2>9, <5>1 DEF room, count
          <5>. QED BY <2>5, <5>1, <5>2
        <4>. QED BY <1>1, <1>5, <4>1 DEF room, count
      <3>2. Done(buffer, Append(user, part), count, j + 1)
        BY <1>3, <2>4, <2>7, <3>1 DEF Done, sum
      <3>3. Walked(buffer, locals, start, j + 1)
        BY <2>1, <2>4, <2>7, <2>8, <3>2 DEF Walked, sum
      <3>. QED BY <1>1, <2>1, <2>3, <2>4, <2>7, <2>8, <2>9, <3>3 DEF start, n, count
    <2>10. CASE ~(copied >= count)
      <3>1. to_copy = d.length /\ sum[j + 1] = sum[j] + d.length /\ d.length \in Nat
        <4>1. d.length \in Nat /\ sum[j + 1] = sum[j] + d.length
          BY <1>11, <1>13
        <4>2. to_copy # room
          BY <1>1, <1>5, <2>5, <2>6, <2>10 DEF room, count
        <4>. QED BY <2>5, <4>1, <4>2
      <3>2. /\ locals.pos = sum[j + 1] /\ locals.copied = sum[j + 1] - sum[skipped]
            /\ locals.copied < count
        <4>1. locals.pos = sum[j + 1]
          BY <1>2, <2>1, <3>1
        <4>2. copied = sum[j + 1] - sum[skipped]
          BY <1>5, <2>6, <3>1
        <4>3. copied < count
          BY <1>5, <2>10, <3>1, <4>2 DEF count
        <4>. QED BY <2>1, <4>1, <4>2, <4>3
      <3>3. WalkedTo(buffer, locals, start, j + 1)
        BY <1>11, <1>13, <2>1, <2>4, <2>7, <2>8, <3>2 DEF WalkedTo, sum
      <3>. QED BY <1>1, <2>1, <2>3, <2>4, <2>7, <2>8, <2>10, <3>3 DEF start, n, count
    <2>. QED BY <2>9, <2>10
  <1>. QED BY <1>6, <1>8, <1>9, <1>10, <1>12, <1>13

-----------------------------------------------------------------------------
\* The walks, and what the files have received, when the list stays as it is and
\* nothing is received.
LEMMA LogStill ==
  ASSUME FirstOnes, UNCHANGED buffer, Cleaning' <=> Cleaning,
         cleared' = "never" => cleared = "never", module' # "removed" => module # "removed",
         \A r \in Readers : LogGot(r)' = LogGot(r) /\ LogPos(r)' = LogPos(r),
         \A r \in Readers : pc'[r] \in {"lock", "walk"} =>
           /\ call'[r].count \in ReadCounts
           /\ \E j \in 0 .. Len(buffer) : WalkedTo(buffer, call'[r], f_pos'[r], j)
  PROVE  Walks' /\ FirstOnes' /\ UNCHANGED Log!vars
  <1>1. Walks'
    BY DEF Walks
  <1>2. FirstOnes'
    BY DEF FirstOnes
  <1>3. UNCHANGED Log!vars
    BY DEF Log!vars, LogGot, LogPos
  <1>. QED BY <1>1, <1>2, <1>3

\* The counters when no writer gets on.
LEMMA CountStill ==
  ASSUME CountInv, UNCHANGED <<buffer, total_length>>, Cleaning' <=> Cleaning,
         \A w \in Writers : /\ Made(w)' <=> Made(w)
                            /\ Made(w) => call'[w].node = call[w].node
                            /\ pc'[w] = "add" =>
                                 \/ pc[w] = "add" /\ call'[w].register = call[w].register
                                 \/ ~Cleaning /\ call'[w].register = total_length
  PROVE  CountInv'
  <1>1. Pending' = Pending
    BY DEF Pending
  <1>2. Counted' = Counted
    BY <1>1 DEF Counted
  <1>3. Range(buffer)' = Range(buffer)
    OBVIOUS
  <1>4. Log!LengthOf(Counted)' = Log!LengthOf(Counted)
    BY <1>2
  <1>. QED BY <1>3, <1>4, Zenon DEF CountInv

\* clean_list when it does not move.
LEMMA SecondsStill ==
  ASSUME Seconds, UNCHANGED buffer, cleared' = "never" => cleared = "never",
         \A w \in Writers : pc'[w] = "clean" => pc[w] = "clean" /\ call'[w] = call[w]
  PROVE  Seconds'
  BY DEF Seconds

\* A step of a reader that receives nothing.
LEMMA ReadQuiet ==
  ASSUME DataInv, NEW r \in Readers, Moved(r), UNCHANGED <<buffer, total_length, cleared, module>>,
         Files', \A s \in Readers \ {r} : got'[s] = got[s] /\ f_pos'[s] = f_pos[s],
         LogGot(r)' = LogGot(r), LogPos(r)' = LogPos(r),
         pc'[r] \in {"lock", "walk"} =>
           /\ call'[r].count \in ReadCounts
           /\ \E j \in 0 .. Len(buffer) : WalkedTo(buffer, call'[r], f_pos'[r], j)
  PROVE  DataInv' /\ UNCHANGED Log!vars
  <1>1. \A w \in Writers : pc'[w] = pc[w] /\ call'[w] = call[w]
    BY ProcessesAssumption DEF Moved, Processes
  <1>2. Cleaning' <=> Cleaning
    BY <1>1 DEF Cleaning
  <1>3. \A s \in Readers \ {r} : pc'[s] = pc[s] /\ call'[s] = call[s]
    BY DEF Moved, Processes
  <1>4. \A s \in Readers : LogGot(s)' = LogGot(s) /\ LogPos(s)' = LogPos(s)
    BY <1>3 DEF LogGot, LogPos
  <1>5. ASSUME NEW s \in Readers, pc'[s] \in {"lock", "walk"}
        PROVE  /\ call'[s].count \in ReadCounts
               /\ \E j \in 0 .. Len(buffer) : WalkedTo(buffer, call'[s], f_pos'[s], j)
    BY <1>3, <1>5 DEF DataInv, Walks
  <1>6. Walks' /\ FirstOnes' /\ UNCHANGED Log!vars
    BY <1>2, <1>4, <1>5, LogStill DEF DataInv
  <1>7. CountInv' /\ Seconds'
    BY <1>1, <1>2, CountStill, SecondsStill DEF DataInv, Made
  <1>. QED BY <1>6, <1>7 DEF DataInv

\* A walk that is over is a read of the log.
LEMMA LogRead ==
  ASSUME Files, ~Cleaning, ~Cleaning', UNCHANGED <<buffer, f_pos, got>>, buffer \in Seq(Nodes),
         NEW r \in Readers, pc[r] = "walk", pc'[r] = "leave", Moved(r),
         call'[r].user \in Seq(Parts), NEW count \in Nat, call'[r].count = count,
         NEW i \in 0 .. Len(buffer), Walked(buffer, call'[r], f_pos[r], i)
  PROVE  Log!Read(r, count)
  <1>. DEFINE user == call'[r].user
              start == f_pos[r]
              poss == [s \in Readers |-> LogPos(s)]
              gots == [s \in Readers |-> LogGot(s)]
              nodes == [k \in DOMAIN user |-> user[k].node]
  <1>1. /\ Taken(buffer, user, start, count, i) /\ Done(buffer, user, count, i)
        /\ call'[r].real_length = Offsets(buffer)[i] - Offsets(buffer)[i - Len(user)]
    BY DEF Walked
  <1>2. start \in Nat
    BY DEF Files, Processes
  <1>3. Log!Segment(start, count) = user
    <2>0. user \in Seq(Parts)
      OBVIOUS
    <2>. HIDE DEF user, start
    <2>. QED BY <1>1, <1>2, <2>0, SegmentIs
  <1>4. Log!LengthOf(nodes) = call'[r].real_length
    BY <1>1, TakenLength
  <1>5. \A s \in Readers \ {r} : pc'[s] = pc[s] /\ call'[s] = call[s]
    BY DEF Moved, Processes
  <1>6. gots' = [gots EXCEPT ![r] = @ \o user]
    <2>1. LogGot(r) = got[r] /\ LogGot(r)' = got[r] \o user
      BY DEF LogGot
    <2>2. \A s \in Readers \ {r} : LogGot(s)' = LogGot(s)
      BY <1>5 DEF LogGot
    <2>. HIDE DEF user
    <2>. QED BY <2>1, <2>2
  <1>7. poss' = [poss EXCEPT ![r] = @ + Log!LengthOf(nodes)] /\ poss[r] = start
    <2>1. LogPos(r) = f_pos[r] /\ LogPos(r)' = f_pos[r] + call'[r].real_length
      BY DEF LogPos
    <2>2. \A s \in Readers \ {r} : LogPos(s)' = LogPos(s)
      BY <1>5 DEF LogPos
    <2>. HIDE DEF nodes
    <2>. QED BY <1>4, <2>1, <2>2
  <1>8. (IF Cleaning THEN << >> ELSE buffer)' = IF Cleaning THEN << >> ELSE buffer
    OBVIOUS
  <1>9. Log!Read(r, count) <=>
          LET parts == Log!Segment(poss[r], count)
          IN /\ gots' = [gots EXCEPT ![r] = @ \o parts]
             /\ poss' = [poss EXCEPT ![r] =
                           @ + Log!LengthOf([k \in DOMAIN parts |-> parts[k].node])]
             /\ (IF Cleaning THEN << >> ELSE buffer)' = IF Cleaning THEN << >> ELSE buffer
    BY DEF Log!Read, LogGot, LogPos
  <1>. HIDE DEF gots, poss
  <1>. QED BY <1>3, <1>6, <1>7, <1>8, <1>9

\* What a read returns is put behind what the file had received before.
LEMMA JoinParts ==
  ASSUME NEW a \in Seq(Parts), NEW b \in Seq(Parts)
  PROVE  /\ a \o b \in Seq(Parts) /\ Len(a \o b) = Len(a) + Len(b)
         /\ \A k \in 1 .. Len(a) : (a \o b)[k] = a[k]
         /\ \A k \in 1 .. Len(b) : (a \o b)[Len(a) + k] = b[k]
         /\ Len(b) = 0 => a \o b = a
  <1>1. a \o b \in Seq(Parts) /\ Len(a \o b) = Len(a) + Len(b)
    OBVIOUS
  <1>2. \A k \in 1 .. Len(a) : (a \o b)[k] = a[k]
    OBVIOUS
  <1>3. \A k \in 1 .. Len(b) : (a \o b)[Len(a) + k] = b[k]
    OBVIOUS
  <1>4. Len(b) = 0 => a \o b = a
    <2>1. Len(b) = 0 => b = << >>
      OBVIOUS
    <2>. QED BY <2>1
  <1>. QED BY <1>1, <1>2, <1>3, <1>4

\* The successive reads of a file return successive nodes.
LEMMA FirstRead ==
  ASSUME FirstOnes, Files, UNCHANGED <<buffer, f_pos, got, cleared, module>>,
         buffer \in Seq(Nodes),
         NEW r \in Readers, pc[r] = "walk", pc'[r] = "leave", Moved(r),
         call'[r].user \in Seq(Parts),
         NEW i \in 0 .. Len(buffer), Walked(buffer, call'[r], f_pos[r], i)
  PROVE  FirstOnes'
  <1>. SUFFICES ASSUME cleared = "never", module # "removed", NEW s \in Readers
                PROVE  /\ Len(LogGot(s)') <= Len(buffer)
                       /\ \A k \in 1 .. Len(LogGot(s)') : LogGot(s)'[k].node = buffer[k]
                       /\ LogPos(s)' = Offsets(buffer)[Len(LogGot(s)')]
    BY DEF FirstOnes
  <1>1. /\ Len(LogGot(s)) <= Len(buffer)
        /\ \A k \in 1 .. Len(LogGot(s)) : LogGot(s)[k].node = buffer[k]
        /\ LogPos(s) = Offsets(buffer)[Len(LogGot(s))]
    BY DEF FirstOnes
  <1>2. CASE s # r
    <2>1. pc'[s] = pc[s] /\ call'[s] = call[s]
      BY <1>2 DEF Moved, Processes
    <2>2. LogGot(s)' = LogGot(s) /\ LogPos(s)' = LogPos(s)
      BY <2>1 DEF LogGot, LogPos
    <2>. QED BY <1>1, <2>2
  <1>3. CASE s = r
    <2>. DEFINE user == call'[r].user
                c == Len(user)
                m == Len(got[r])
                n == Len(buffer)
                skipped == i - c
                sum == Offsets(buffer)
    <2>1. /\ LogGot(r) = got[r] /\ LogPos(r) = f_pos[r]
          /\ LogGot(r)' = got[r] \o user /\ LogPos(r)' = f_pos[r] + call'[r].real_length
      BY DEF LogGot, LogPos
    <2>2. /\ Taken(buffer, user, f_pos[r], call'[r].count, i)
          /\ call'[r].real_length = sum[i] - sum[skipped]
      BY DEF Walked
    <2>3. /\ c \in Nat /\ m \in Nat /\ n \in Nat /\ got[r] \in Seq(Parts) /\ user \in Seq(Parts)
      BY DEF Files
    <2>4. /\ c <= i
          /\ \A k \in 1 .. skipped : sum[k - 1] < f_pos[r]
          /\ c > 0 => sum[skipped] >= f_pos[r]
      BY <2>2 DEF Taken, TakenFrom
    <2>5. \A k \in 1 .. c : user[k].node = buffer[skipped + k]
      <3>. SUFFICES ASSUME NEW k \in 1 .. c PROVE user[k].node = buffer[skipped + k]
        OBVIOUS
      <3>. DEFINE bytes == Least(buffer[skipped + k].length,
                                 call'[r].count - (sum[skipped + (k - 1)] - sum[skipped]))
      <3>1. user[k] = [node |-> buffer[skipped + k], bytes |-> bytes]
        BY <2>2, Zenon DEF Taken, TakenFrom
      <3>. HIDE DEF bytes, user, skipped
      <3>. QED BY <3>1
    <2>6. m <= n /\ f_pos[r] = sum[m] /\ \A k \in 1 .. m : got[r][k].node = buffer[k]
      BY <1>1, <1>3, <2>1
    <2>7. /\ Len(got[r] \o user) = m + c
          /\ \A k \in 1 .. m : (got[r] \o user)[k] = got[r][k]
          /\ \A k \in 1 .. c : (got[r] \o user)[m + k] = user[k]
      BY <2>3, JoinParts
    <2>8. CASE c = 0
      <3>1. got[r] \o user = got[r]
        BY <2>3, <2>8, JoinParts
      <3>2. call'[r].real_length = 0
        <4>1. sum[i] \in Nat /\ skipped = i
          BY <2>3, <2>8, NodesSized, OffsetsNat
        <4>. QED BY <2>2, <4>1
      <3>3. f_pos[r] + 0 = f_pos[r]
        BY DEF Files, Processes
      <3>. QED BY <1>1, <1>3, <2>1, <3>1, <3>2, <3>3
    <2>9. CASE c > 0
      <3>1. /\ skipped \in 0 .. n /\ m \in 0 .. n /\ i \in 0 .. n
            /\ \A j, k \in 0 .. n : j < k <=> sum[j] < sum[k]
            /\ \A k \in 0 .. n : sum[k] \in Nat
        <4>1. skipped \in 0 .. n /\ m \in 0 .. n /\ i \in 0 .. n
          <5>. HIDE DEF c, m
          <5>. QED BY <2>3, <2>4, <2>6
        <4>2. \A j, k \in 0 .. n : j < k <=> sum[j] < sum[k]
          BY NodesSized, OffsetsGrow
        <4>. QED BY <4>1, <4>2, NodesSized, OffsetsNat
      <3>. HIDE DEF c, m, n, sum, user
      <3>2. ~(skipped < m)
        <4>. HIDE DEF skipped
        <4>1. sum[skipped] >= sum[m] /\ sum[skipped] \in Nat /\ sum[m] \in Nat
          BY <2>4, <2>6, <2>9, <3>1
        <4>. QED BY <3>1, <4>1
      <3>3. ~(m < skipped)
        <4>1. ASSUME m < skipped PROVE FALSE
          <5>1. skipped \in 1 .. skipped /\ skipped - 1 \in 0 .. n /\ m <= skipped - 1
            BY <3>1, <4>1, <2>3
          <5>. HIDE DEF skipped
          <5>2. sum[skipped - 1] < sum[m]
            BY <2>4, <2>6, <5>1
          <5>3. skipped - 1 < m
            BY <3>1, <5>1, <5>2
          <5>. QED BY <2>3, <3>1, <5>1, <5>3
        <4>. QED BY <4>1
      <3>4. skipped = m /\ m + c = i
        BY <2>3, <3>1, <3>2, <3>3
      <3>5. f_pos[r] + call'[r].real_length = sum[i]
        <4>1. sum[i] \in Nat /\ sum[m] \in Nat
          BY <3>1
        <4>. HIDE DEF skipped
        <4>. QED BY <2>2, <2>6, <3>4, <4>1
      <3>6. ASSUME NEW k \in 1 .. m + c PROVE (got[r] \o user)[k].node = buffer[k]
        <4>1. CASE k \in 1 .. m
          BY <2>6, <2>7, <4>1
        <4>2. CASE k \notin 1 .. m
          <5>. DEFINE j == k - m
          <5>1. j \in 1 .. c /\ k = m + j
            BY <2>3, <4>2
          <5>. HIDE DEF j, skipped
          <5>2. (got[r] \o user)[k] = user[j] /\ user[j].node = buffer[k]
            BY <2>5, <2>7, <3>4, <5>1
          <5>. QED BY <5>2
        <4>. QED BY <4>1, <4>2
      <3>7. Len(LogGot(r)') = i /\ LogPos(r)' = sum[i] /\ i <= Len(buffer)
        BY <2>1, <2>7, <3>4, <3>5
      <3>8. \A k \in 1 .. i : LogGot(r)'[k].node = buffer[k]
        BY <2>1, <3>4, <3>6
      <3>. QED BY <1>3, <3>7, <3>8 DEF sum
    <2>. QED BY <2>3, <2>8, <2>9
  <1>. QED BY <1>2, <1>3

\* A step of a read.
LEMMA ReadData ==
  ASSUME ListInv, DataInv, NEW r \in Readers, ReadAny(r), ~Overlapped'
  PROVE  DataInv' /\ (UNCHANGED Log!vars \/ \E count \in ReadCounts : Log!Read(r, count))
  <1>. USE DEF User
  <1>1. /\ r \in Processes /\ r \notin Writers /\ Placed /\ DOMAIN call[r] = DOMAIN Blank
        /\ buffer \in Seq(Nodes) /\ f_pos[r] \in Nat
        /\ call[r].user \in Seq(Parts) /\ call[r].real_length \in Nat
        /\ Blank.user \in Seq(Parts) /\ Blank.real_length \in Nat
    <2>1. r \in Processes /\ r \notin Writers
      BY ProcessesAssumption DEF Processes
    <2>2. Placed /\ DOMAIN call[r] = DOMAIN Blank /\ buffer \in Seq(Nodes)
      BY <2>1 DEF ListInv, Linear, Placed
    <2>3. f_pos[r] \in Nat /\ call[r].user \in Seq(Parts) /\ call[r].real_length \in Nat
      BY <2>1 DEF DataInv, Files
    <2>4. Blank.user \in Seq(Parts) /\ Blank.real_length \in Nat
      BY DEF Blank
    <2>. QED BY <2>1, <2>2, <2>3, <2>4
  <1>2. /\ UNCHANGED <<buffer, total_length, module>>
        /\ \A count \in ReadCounts : BeginRead(r, count) => cleared' = cleared
        /\ (~\E count \in ReadCounts : BeginRead(r, count)) => cleared' = cleared
    <2>1. ASSUME NEW count \in ReadCounts, BeginRead(r, count)
          PROVE  UNCHANGED <<buffer, total_length, module, cleared>>
      BY <2>1 DEF BeginRead, Begin, Overlapped, list, counters
    <2>2. CASE \/ EnterRead(r) \/ GiveUpRead(r) \/ Walk(r) \/ LeaveRead(r) \/ FailRead(r)
               \/ LoadCount(r) \/ StoreCount(r)
      <3>1. EnterRead(r) => UNCHANGED <<buffer, total_length, module, cleared>>
        BY DEF EnterRead, list, counters
      <3>2. GiveUpRead(r) => UNCHANGED <<buffer, total_length, module, cleared>>
        BY DEF GiveUpRead, list, counters
      <3>3. Walk(r) => UNCHANGED <<buffer, total_length, module, cleared>>
        BY DEF Walk, list, counters
      <3>4. LeaveRead(r) => UNCHANGED <<buffer, total_length, module, cleared>>
        BY DEF LeaveRead, list, counters
      <3>5. FailRead(r) => UNCHANGED <<buffer, total_length, module, cleared>>
        BY DEF FailRead, list, counters
      <3>6. LoadCount(r) => UNCHANGED <<buffer, total_length, module, cleared>>
        BY DEF LoadCount, list, counters
      <3>7. StoreCount(r) => UNCHANGED <<buffer, total_length, module, cleared>>
        BY DEF StoreCount, list
      <3>. QED BY <2>2, <3>1, <3>2, <3>3, <3>4, <3>5, <3>6, <3>7
    <2>. QED BY <2>1, <2>2 DEF ReadAny
  <1>3. UNCHANGED <<buffer, total_length, module, cleared>>
    BY <1>2
  \* A step that leaves the file alone, and is neither in nor out of "leave".
  <1>4. ASSUME Moved(r), UNCHANGED files, pc[r] # "leave", pc'[r] # "leave",
               call'[r].user \in Seq(Parts), call'[r].real_length \in Nat,
               pc'[r] \in {"lock", "walk"} =>
                 /\ call'[r].count \in ReadCounts
                 /\ \E j \in 0 .. Len(buffer) : WalkedTo(buffer, call'[r], f_pos[r], j)
        PROVE  DataInv' /\ UNCHANGED Log!vars
    <2>1. f_pos' = f_pos /\ got' = got
      BY <1>4 DEF files
    <2>2. Files'
      BY <1>4, <2>1 DEF DataInv, Files, Moved, Processes
    <2>3. LogGot(r)' = LogGot(r) /\ LogPos(r)' = LogPos(r)
      BY <1>4, <2>1 DEF LogGot, LogPos
    <2>. QED BY <1>3, <1>4, <2>1, <2>2, <2>3, ReadQuiet
  <1>5. ASSUME NEW count \in ReadCounts, BeginRead(r, count)
        PROVE  DataInv' /\ UNCHANGED Log!vars
    <2>. DEFINE locals == [Blank EXCEPT !.count = count]
    <2>1. /\ DOMAIN locals = DOMAIN Blank /\ locals.at = ListHead /\ locals.user = << >>
          /\ locals.pos = 0 /\ locals.copied = 0 /\ locals.real_length = 0
          /\ locals.count = count
          /\ locals.user \in Seq(Parts) /\ locals.real_length \in Nat
      BY DEF Blank
    <2>2. /\ Return(r) \/ Continue(r, "lock", locals)
          /\ UNCHANGED files /\ pc[r] = "user"
      BY <1>5 DEF BeginRead, Begin
    <2>. HIDE DEF locals
    <2>3. /\ Moved(r)
          /\ \/ pc'[r] = "user" /\ call'[r] = Blank
             \/ pc'[r] = "lock" /\ call'[r] = locals
          /\ call'[r].user \in Seq(Parts) /\ call'[r].real_length \in Nat
      <3>1. /\ Moved(r)
            /\ \/ pc'[r] = "user" /\ call'[r] = Blank
               \/ pc'[r] = "lock" /\ call'[r] = locals
        BY <1>1, <2>1, <2>2, ContinueStep DEF Return, Moved
      <3>. QED BY <1>1, <2>1, <3>1
    <2>4. WalkedTo(buffer, locals, f_pos[r], 0) /\ 0 \in 0 .. Len(buffer)
      <3>1. Sized(buffer) /\ Len(buffer) \in Nat /\ Offsets(buffer)[0] = 0
        BY <1>1, NodesSized, OffsetsStep
      <3>2. Len(<< >>) = 0 /\ 0 - 0 = 0
        OBVIOUS
      <3>3. Taken(buffer, << >>, f_pos[r], count, 0)
        BY <3>1, <3>2 DEF Taken, TakenFrom
      <3>. QED BY <2>1, <3>1, <3>2, <3>3 DEF WalkedTo
    <2>. QED BY <1>1, <1>4, <2>1, <2>2, <2>3, <2>4
  <1>6. CASE EnterRead(r)
    <2>1. Moved(r) /\ call'[r] = call[r] /\ pc'[r] = "walk" /\ pc[r] = "lock" /\ UNCHANGED files
      BY <1>1, <1>6, GotoStep DEF EnterRead, Moved
    <2>2. /\ call[r].count \in ReadCounts
          /\ \E j \in 0 .. Len(buffer) : WalkedTo(buffer, call[r], f_pos[r], j)
      BY <2>1 DEF DataInv, Walks
    <2>. QED BY <1>1, <1>4, <2>1, <2>2
  <1>7. CASE GiveUpRead(r) \/ FailRead(r)
    <2>1. Return(r) /\ UNCHANGED files /\ pc[r] \in {"lock", "fault"}
      BY <1>7 DEF GiveUpRead, FailRead
    <2>2. Moved(r) /\ call'[r] = Blank /\ pc'[r] = "user"
      BY <1>1, <2>1, ContinueStep DEF Return, Moved
    <2>3. call'[r].user \in Seq(Parts) /\ call'[r].real_length \in Nat
      BY <1>1, <2>2
    <2>. QED BY <1>4, <2>1, <2>2, <2>3
  <1>8. CASE LoadCount(r)
    <2>. DEFINE locals == [call[r] EXCEPT !.register = read_count]
    <2>1. /\ DOMAIN locals = DOMAIN Blank /\ locals.user = call[r].user
          /\ locals.real_length = call[r].real_length
      BY <1>1 DEF Blank
    <2>2. Continue(r, "increment", locals) /\ UNCHANGED files /\ pc[r] = "count"
      BY <1>8 DEF LoadCount
    <2>. HIDE DEF locals
    <2>3. Moved(r) /\ call'[r] = locals /\ pc'[r] = "increment"
      BY <1>1, <2>1, <2>2, ContinueStep DEF Moved
    <2>. QED BY <1>1, <1>4, <2>1, <2>2, <2>3
  <1>9. CASE StoreCount(r)
    <2>1. Return(r) /\ UNCHANGED files /\ pc[r] = "increment"
      BY <1>9 DEF StoreCount
    <2>2. Moved(r) /\ call'[r] = Blank /\ pc'[r] = "user"
      BY <1>1, <2>1, ContinueStep DEF Return, Moved
    <2>3. call'[r].user \in Seq(Parts) /\ call'[r].real_length \in Nat
      BY <1>1, <2>2
    <2>. QED BY <1>4, <2>1, <2>2, <2>3
  <1>10. CASE LeaveRead(r)
    <2>1. /\ f_pos' = [f_pos EXCEPT ![r] = @ + call[r].real_length]
          /\ got' = [got EXCEPT ![r] = @ \o call[r].user]
          /\ pc[r] = "leave" /\ Goto(r, "count") /\ UNCHANGED call
      BY <1>10 DEF LeaveRead
    <2>2. Moved(r) /\ call'[r] = call[r] /\ pc'[r] = "count"
      BY <1>1, <2>1, GotoStep DEF Moved
    <2>3. /\ f_pos \in [Processes -> Nat] /\ got \in [Readers -> Seq(Parts)]
      BY DEF DataInv, Files
    <2>4. /\ f_pos'[r] = f_pos[r] + call[r].real_length /\ got'[r] = got[r] \o call[r].user
          /\ \A s \in Readers \ {r} : f_pos'[s] = f_pos[s] /\ got'[s] = got[s]
      BY <1>1, <2>1, <2>3 DEF Processes
    <2>5. Files'
      <3>1. f_pos[r] + call[r].real_length \in Nat
        BY <1>1
      <3>2. got[r] \o call[r].user \in Seq(Parts)
        BY <1>1, <2>3, JoinParts
      <3>3. f_pos' \in [Processes -> Nat] /\ got' \in [Readers -> Seq(Parts)]
        BY <2>1, <2>3, <3>1, <3>2
      <3>. QED BY <2>1, <3>3 DEF DataInv, Files
    <2>6. LogGot(r)' = LogGot(r) /\ LogPos(r)' = LogPos(r)
      BY <2>1, <2>2, <2>4 DEF LogGot, LogPos
    <2>. QED BY <1>3, <2>2, <2>4, <2>5, <2>6, ReadQuiet
  <1>11. CASE Walk(r)
    <2>1. pc[r] = "walk" /\ UNCHANGED <<f_pos, got>> /\ UNCHANGED files
      BY <1>11 DEF Walk, files
    <2>2. call[r].count \in ReadCounts
      BY <2>1, ProcessesAssumption DEF DataInv, Walks
    <2>3. PICK j \in 0 .. Len(buffer) : WalkedTo(buffer, call[r], f_pos[r], j)
      BY <2>1 DEF DataInv, Walks
    <2>4. /\ Moved(r) /\ call'[r].count = call[r].count
          /\ call'[r].user \in Seq(Parts) /\ call'[r].real_length \in Nat
          /\ \/ pc'[r] = "fault"
             \/ /\ pc'[r] = "walk"
                /\ j + 1 \in 0 .. Len(buffer) /\ WalkedTo(buffer, call'[r], f_pos[r], j + 1)
             \/ /\ pc'[r] = "leave"
                /\ \E i \in 0 .. Len(buffer) : Walked(buffer, call'[r], f_pos[r], i)
      BY <1>11, <2>2, <2>3, TurnStep, ProcessesAssumption DEF DataInv
    <2>5. CASE pc'[r] # "leave"
      BY <1>4, <2>1, <2>2, <2>4, <2>5
    <2>6. CASE pc'[r] = "leave"
      <3>1. PICK i \in 0 .. Len(buffer) : Walked(buffer, call'[r], f_pos[r], i)
        BY <2>4, <2>6
      <3>2. \A w \in Writers : pc'[w] = pc[w] /\ call'[w] = call[w]
        BY <1>1, <2>4 DEF Moved, Processes
      <3>3. ~Cleaning /\ ~Cleaning'
        BY <1>1, <2>1, <3>2 DEF ListInv, CleansAlone, Cleaning, Processes
      <3>0. PICK count \in ReadCounts : call[r].count = count
        BY <2>2
      <3>. count \in Nat
        BY ProcessesAssumption
      <3>4. Log!Read(r, count)
        BY <3>0, <1>1, <1>3, <2>1, <2>2, <2>4, <2>6, <3>1, <3>3, LogRead DEF DataInv
      <3>5. FirstOnes'
        BY <1>1, <1>3, <2>1, <2>4, <2>6, <3>1, FirstRead DEF DataInv
      <3>6. Files'
        BY <2>1, <2>4 DEF DataInv, Files, Moved, Processes
      <3>7. Walks'
        <4>. SUFFICES ASSUME NEW s \in Readers, pc'[s] \in {"lock", "walk"}
                      PROVE  /\ call'[s].count \in ReadCounts
                             /\ \E k \in 0 .. Len(buffer) : WalkedTo(buffer, call'[s], f_pos[s], k)
          BY <1>3, <2>1 DEF Walks
        <4>1. pc'[s] = pc[s] /\ call'[s] = call[s]
          BY <2>4, <2>6 DEF Moved, Processes
        <4>. QED BY <4>1 DEF DataInv, Walks
      <3>8. CountInv' /\ Seconds'
        BY <1>3, <3>2, <3>3, CountStill, SecondsStill DEF DataInv, Made
      <3>9. DataInv'
        BY <3>5, <3>6, <3>7, <3>8 DEF DataInv
      <3>. QED BY <3>4, <3>9
    <2>. QED BY <2>5, <2>6
  <1>. QED BY <1>5, <1>6, <1>7, <1>8, <1>9, <1>10, <1>11 DEF ReadAny

-----------------------------------------------------------------------------
\* The list as if some nodes were empty.
LEMMA WithoutIs ==
  ASSUME NEW nodes \in Seq(Nodes), NEW pending
  PROVE  LET rest == Without(nodes, pending)
         IN /\ Sized(rest) /\ Len(rest) = Len(nodes)
            /\ \A k \in 1 .. Len(nodes) :
                 rest[k].length = IF nodes[k] \in pending THEN 0 ELSE nodes[k].length
            /\ Log!LengthOf(rest) \in Nat
            /\ Log!LengthOf(rest) <= Log!LengthOf(nodes)
  <1>. DEFINE rest == Without(nodes, pending)
              n == Len(nodes)
  <1>1. n \in Nat /\ DOMAIN nodes = 1 .. n /\ Sized(nodes)
    BY NodesSized
  <1>2. \A k \in 1 .. n : nodes[k].length \in Nat
    BY <1>1 DEF Sized
  <1>3. rest = [k \in 1 .. n |-> [length |-> IF nodes[k] \in pending THEN 0 ELSE nodes[k].length]]
    BY <1>1 DEF Without
  <1>. HIDE DEF rest, n
  <1>4. Len(rest) = n
    BY <1>1, <1>3
  <1>5. \A k \in 1 .. n : rest[k].length = IF nodes[k] \in pending THEN 0 ELSE nodes[k].length
    BY <1>3
  <1>6. Sized(rest)
    <2>1. \A k \in 1 .. n : rest[k].length \in Nat
      BY <1>2, <1>5
    <2>. QED BY <1>1, <1>4, <2>1 DEF Sized
  <1>7. \A k \in 1 .. Len(rest) : rest[k].length <= nodes[k].length
    <2>. SUFFICES ASSUME NEW k \in 1 .. n PROVE rest[k].length <= nodes[k].length
      BY <1>4
    <2>1. nodes[k].length \in Nat
      BY <1>2
    <2>. QED BY <1>5, <2>1
  <1>8. Log!LengthOf(rest) <= Log!LengthOf(nodes)
    BY <1>1, <1>4, <1>6, <1>7, OffsetsLess DEF n
  <1>9. Log!LengthOf(rest) \in Nat
    <2>1. Log!LengthOf(rest) = Offsets(rest)[n] /\ n \in 0 .. n
      BY <1>1, <1>4, OffsetsIs
    <2>. QED BY <1>4, <1>6, <2>1, OffsetsNat
  <1>. QED BY <1>4, <1>5, <1>6, <1>8, <1>9 DEF rest, n

\* The readers when a writer has moved.
LEMMA ReadersAside ==
  ASSUME Files, NEW w \in Writers, Moved(w), UNCHANGED got,
         f_pos' \in [Processes -> Nat], \A r \in Readers : f_pos'[r] = f_pos[r]
  PROVE  /\ Files'
         /\ \A r \in Readers : /\ pc'[r] = pc[r] /\ call'[r] = call[r]
                              /\ LogGot(r)' = LogGot(r) /\ LogPos(r)' = LogPos(r)
  <1>1. \A r \in Readers : pc'[r] = pc[r] /\ call'[r] = call[r]
    BY ProcessesAssumption DEF Moved, Processes
  <1>2. Files'
    BY <1>1 DEF Files
  <1>. QED BY <1>1, <1>2 DEF LogGot, LogPos

\* A step of a writer that leaves the list and the files as they are, and does
\* not clean.
LEMMA WriteQuiet ==
  ASSUME DataInv, NEW w \in Writers, Moved(w), UNCHANGED <<buffer, cleared, module, got>>,
         f_pos' \in [Processes -> Nat], \A r \in Readers : f_pos'[r] = f_pos[r],
         pc[w] # "clean", pc'[w] # "clean",
         \/ CountInv'
         \/ /\ UNCHANGED total_length
            /\ Made(w)' <=> Made(w)
            /\ Made(w) => call'[w].node = call[w].node
            /\ pc'[w] = "add" => \/ pc[w] = "add" /\ call'[w].register = call[w].register
                                 \/ ~Cleaning /\ call'[w].register = total_length
  PROVE  DataInv' /\ UNCHANGED Log!vars
  <1>1. /\ Files'
        /\ \A r \in Readers : /\ pc'[r] = pc[r] /\ call'[r] = call[r] /\ f_pos'[r] = f_pos[r]
                              /\ LogGot(r)' = LogGot(r) /\ LogPos(r)' = LogPos(r)
    BY ReadersAside DEF DataInv
  <1>2. \A v \in Writers \ {w} : pc'[v] = pc[v] /\ call'[v] = call[v]
    BY DEF Moved, Processes
  <1>3. Cleaning' <=> Cleaning
    BY <1>2 DEF Cleaning
  <1>4. Walks' /\ FirstOnes' /\ UNCHANGED Log!vars
    BY <1>1, <1>3, LogStill DEF DataInv, Walks
  <1>5. Seconds'
    BY <1>2, SecondsStill DEF DataInv
  <1>6. CountInv'
    <2>1. CASE CountInv'
      BY <2>1
    <2>2. CASE /\ UNCHANGED total_length
               /\ Made(w)' <=> Made(w)
               /\ Made(w) => call'[w].node = call[w].node
               /\ pc'[w] = "add" => \/ pc[w] = "add" /\ call'[w].register = call[w].register
                                    \/ ~Cleaning /\ call'[w].register = total_length
      <3>1. \A v \in Writers \ {w} : Made(v)' <=> Made(v)
        BY <1>2 DEF Made
      <3>. QED BY <1>2, <1>3, <2>2, <3>1, CountStill DEF DataInv
    <2>. QED BY <2>1, <2>2
  <1>. QED BY <1>1, <1>4, <1>5, <1>6 DEF DataInv

\* No writer cleans when another is inside.
LEMMA NobodyCleans ==
  ASSUME ListInv, NEW p \in Processes, pc[p] \notin {User, "clean"}
  PROVE  ~Cleaning
  BY DEF ListInv, CleansAlone, Cleaning, Processes

\* The addition to total_length.
LEMMA CountAdd ==
  ASSUME ListInv, DataInv, NEW w \in Writers, StoreTotal(w), Moved(w), pc'[w] = "chunk"
  PROVE  CountInv'
  <1>. DEFINE d == call[w].node
  <1>1. /\ pc[w] = "add" /\ Made(w) /\ UNCHANGED buffer
        /\ total_length' = call[w].register + d.length
    BY DEF StoreTotal, Made, list
  <1>2. /\ buffer \in Seq(Nodes) /\ \A i, k \in DOMAIN buffer : buffer[i] = buffer[k] => i = k
        /\ w \in Processes
    BY DEF ListInv, Linear, Processes
  <1>3. /\ d \in Range(buffer) /\ d.by = w
        /\ \A v \in Writers : Made(v) => call[v].node \in Range(buffer) /\ call[v].node.by = v
        /\ \A v \in Writers : pc[v] = "add" => /\ call[v].register \in Int
                                              /\ call[v].register <= Log!LengthOf(Counted)
    BY <1>1 DEF DataInv, CountInv
  <1>4. PICK j \in 1 .. Len(buffer) : buffer[j] = d
    BY <1>2, <1>3 DEF Range
  <1>5. \A v \in Writers \ {w} : pc'[v] = pc[v] /\ call'[v] = call[v]
    BY DEF Moved, Processes
  <1>6. Pending' = Pending \ {d} /\ d \in Pending
    <2>1. \A v \in Writers \ {w} : Made(v) => call[v].node # d
      BY <1>3
    <2>2. ASSUME NEW v \in Writers PROVE Made(v)' <=> (Made(v) /\ v # w)
      BY <1>5 DEF Made
    <2>3. Pending' = {call[v].node : v \in {u \in Writers : Made(u) /\ u # w}}
      BY <1>5, <2>2 DEF Pending
    <2>. HIDE DEF d
    <2>. QED BY <1>1, <2>1, <2>3 DEF Pending, d
  <1>. DEFINE a == Without(buffer, Pending)
              b == Without(buffer, Pending \ {d})
  <1>7. Counted = a /\ Counted' = b
    BY <1>1, <1>6 DEF Counted
  <1>8. /\ Sized(a) /\ Sized(b) /\ Len(a) = Len(buffer) /\ Len(b) = Len(buffer)
        /\ \A k \in 1 .. Len(buffer) :
             /\ a[k].length = IF buffer[k] \in Pending THEN 0 ELSE buffer[k].length
             /\ b[k].length = IF buffer[k] \in Pending \ {d} THEN 0 ELSE buffer[k].length
        /\ Log!LengthOf(a) \in Nat /\ Log!LengthOf(b) \in Nat
    BY <1>2, WithoutIs
  <1>9. d.length \in Nat
    BY <1>2, <1>4, NodesSized DEF Sized
  <1>. HIDE DEF a, b
  <1>10. a[j].length = 0 /\ b[j].length = d.length
    BY <1>4, <1>6, <1>8
  <1>11. \A k \in 1 .. Len(a) : k # j => a[k].length = b[k].length
    <2>1. \A k \in 1 .. Len(buffer) : k # j => buffer[k] # d
      BY <1>2, <1>4
    <2>. HIDE DEF d
    <2>. QED BY <1>8, <2>1
  <1>12. Log!LengthOf(b) = Log!LengthOf(a) + b[j].length - a[j].length
    <2>. j \in 1 .. Len(a)
      BY <1>8
    <2>. QED BY <1>8, <1>11, OffsetsChange
  <1>. HIDE DEF d
  <1>13. Log!LengthOf(b) = Log!LengthOf(a) + d.length /\ Log!LengthOf(b) >= Log!LengthOf(a)
    BY <1>8, <1>9, <1>10, <1>12
  <1>14. Log!LengthOf(Counted)' = Log!LengthOf(b) /\ Log!LengthOf(Counted) = Log!LengthOf(a)
    BY <1>7
  <1>15. total_length' \in Int /\ total_length' <= Log!LengthOf(b)
    <2>1. call[w].register \in Int /\ call[w].register <= Log!LengthOf(a)
      BY <1>1, <1>3, <1>14
    <2>. QED BY <1>1, <1>8, <1>9, <1>13, <2>1
  <1>16. \A v \in Writers : pc'[v] = "add" =>
           call'[v].register \in Int /\ call'[v].register <= Log!LengthOf(b)
    <2>. SUFFICES ASSUME NEW v \in Writers, pc'[v] = "add"
                  PROVE  call'[v].register \in Int /\ call'[v].register <= Log!LengthOf(b)
      OBVIOUS
    <2>1. v # w
      BY DEF Made
    <2>2. pc[v] = "add" /\ call'[v] = call[v]
      BY <1>5, <2>1 DEF Made
    <2>3. call[v].register \in Int /\ call[v].register <= Log!LengthOf(a)
      BY <1>3, <1>14, <2>2
    <2>. QED BY <1>8, <1>13, <2>2, <2>3
  <1>17. \A v \in Writers : Made(v)' => call'[v].node \in Range(buffer) /\ call'[v].node.by = v
    <2>. SUFFICES ASSUME NEW v \in Writers, Made(v)'
                  PROVE  call'[v].node \in Range(buffer) /\ call'[v].node.by = v
      OBVIOUS
    <2>1. v # w
      BY DEF Made
    <2>2. Made(v) /\ call'[v] = call[v]
      BY <1>5, <2>1 DEF Made
    <2>. QED BY <1>3, <2>2
  <1>18. Range(buffer)' = Range(buffer)
    BY <1>1
  <1>. QED BY <1>14, <1>15, <1>16, <1>17, <1>18, Zenon DEF CountInv

-----------------------------------------------------------------------------
\* A node at the end counts for nothing as long as it is not accounted for.
LEMMA WithoutAppend ==
  ASSUME NEW nodes \in Seq(Nodes), NEW d \in Nodes, d \notin Range(nodes), NEW pending
  PROVE  Log!LengthOf(Without(Append(nodes, d), pending \cup {d}))
           = Log!LengthOf(Without(nodes, pending))
  <1>. DEFINE more == Append(nodes, d)
              n == Len(nodes)
              a == Without(nodes, pending)
              b == Without(more, pending \cup {d})
  <1>1. /\ n \in Nat /\ more \in Seq(Nodes) /\ Len(more) = n + 1
        /\ \A k \in 1 .. n : more[k] = nodes[k] /\ nodes[k] # d
        /\ more[n + 1] = d
    BY DEF Range
  <1>2. /\ Sized(a) /\ Len(a) = n
        /\ \A k \in 1 .. n :
             a[k].length = IF nodes[k] \in pending THEN 0 ELSE nodes[k].length
    BY WithoutIs
  <1>3. /\ Sized(b) /\ Len(b) = n + 1
        /\ \A k \in 1 .. n + 1 :
             b[k].length = IF more[k] \in pending \cup {d} THEN 0 ELSE more[k].length
    <2>. HIDE DEF more
    <2>. QED BY <1>1, WithoutIs
  <1>. HIDE DEF a, b, n, more
  <1>4. b[n + 1].length = 0 /\ n + 1 \in 1 .. n + 1
    BY <1>1, <1>3
  <1>5. \A k \in 1 .. n : a[k].length = b[k].length
    <2>. SUFFICES ASSUME NEW k \in 1 .. n PROVE a[k].length = b[k].length
      OBVIOUS
    <2>1. k \in 1 .. n + 1 /\ more[k] = nodes[k] /\ nodes[k] # d
      BY <1>1
    <2>. QED BY <1>2, <1>3, <2>1
  <1>6. Offsets(b)[n] = Offsets(a)[n]
    <2>1. AsLong(a, b, 0, n)
      BY <1>1, <1>2, <1>3, <1>5 DEF AsLong
    <2>. QED BY <1>1, <1>2, <1>3, <2>1, OffsetsStart
  <1>7. Offsets(b)[n + 1] = Offsets(b)[n] + b[n + 1].length
    <2>1. n + 1 \in 1 .. Len(b) /\ (n + 1) - 1 = n /\ Len(b) \in Nat
      BY <1>1, <1>3
    <2>. QED BY <2>1, OffsetsStep
  <1>8. Offsets(a)[n] \in Nat
    BY <1>1, <1>2, OffsetsNat
  <1>9. Offsets(b)[n + 1] = Offsets(a)[n]
    BY <1>4, <1>6, <1>7, <1>8
  <1>10. Log!LengthOf(a) = Offsets(a)[n] /\ Log!LengthOf(b) = Offsets(b)[n + 1]
    BY <1>1, <1>2, <1>3, OffsetsIs
  <1>. QED BY <1>9, <1>10 DEF a, b, more

\* A walk is where it was when a node is added at the end.
LEMMA WalkedAppend ==
  ASSUME NEW nodes \in Seq(Nodes), NEW d \in Nodes, NEW rec, rec.user \in Seq(Parts), NEW start,
         NEW j \in 0 .. Len(nodes), WalkedTo(nodes, rec, start, j)
  PROVE  j \in 0 .. Len(Append(nodes, d)) /\ WalkedTo(Append(nodes, d), rec, start, j)
  <1>. DEFINE more == Append(nodes, d)
              skipped == j - Len(rec.user)
  <1>1. /\ Len(more) = Len(nodes) + 1 /\ \A k \in 1 .. Len(nodes) : more[k] = nodes[k]
    OBVIOUS
  <1>2. skipped \in 0 .. Len(nodes)
    <2>1. Len(rec.user) <= j /\ Len(rec.user) \in Nat /\ Len(nodes) \in Nat
      BY DEF WalkedTo, Taken
    <2>. QED BY <2>1
  <1>3. Offsets(more)[j] = Offsets(nodes)[j] /\ Offsets(more)[skipped] = Offsets(nodes)[skipped]
    BY <1>2, OffsetsAppend
  <1>4. Taken(more, rec.user, start, rec.count, j)
    BY TakenAppend DEF WalkedTo
  <1>5. j # 0 => more[j] = nodes[j]
    BY <1>1
  <1>6. j \in 0 .. Len(more)
    BY <1>1
  <1>. HIDE DEF more
  <1>7. WalkedTo(more, rec, start, j)
    BY <1>3, <1>4, <1>5 DEF WalkedTo
  <1>. QED BY <1>6, <1>7 DEF more

\* The linking of a node adds it to the log, at one moment.
LEMMA LinkData ==
  ASSUME ListInv, DataInv, NEW w \in Writers, NEW label \in {"account", "synchronize"},
         Link(w, label)
  PROVE  DataInv' /\ Log!AddTail(call[w].node) /\ call[w].node \in Nodes
  <1>. DEFINE d == call[w].node
              n == Len(buffer)
  <1>1. /\ w \in Processes /\ Placed /\ buffer \in Seq(Nodes) /\ pc[w] = "link"
        /\ UNCHANGED <<total_length, cleared, module, got, f_pos, call>>
        /\ Goto(w, label)
    BY DEF Link, ListInv, Linear, Processes, counters, files
  <1>2. /\ Moved(w) /\ pc'[w] = label
        /\ \A v \in Writers \ {w} : pc'[v] = pc[v]
    BY <1>1, GotoStep DEF Moved, Processes
  <1>3. buffer' = Append(buffer, d)
    <2>1. call[w].at = Last(<<ListHead>> \o buffer)
      BY <1>1 DEF ListInv, AtNodes, Linear
    <2>. QED BY <2>1 DEF Link, AddTail
  <1>4. d \in Nodes /\ d.by = w /\ d \notin Range(buffer)
    BY <1>1, HeldApart DEF Unlinked
  <1>5. ~Cleaning /\ ~Cleaning'
    <2>1. ~Cleaning
      BY <1>1, NobodyCleans DEF User
    <2>. QED BY <1>2, <2>1 DEF Cleaning
  <1>6. /\ n \in Nat /\ Len(buffer') = n + 1 /\ buffer'[n + 1] = d
        /\ \A k \in 1 .. n : buffer'[k] = buffer[k]
    BY <1>1, <1>3
  <1>7. /\ Files'
        /\ \A r \in Readers : /\ pc'[r] = pc[r] /\ call'[r] = call[r]
                              /\ LogGot(r)' = LogGot(r) /\ LogPos(r)' = LogPos(r)
    BY <1>1, <1>2, ReadersAside DEF DataInv, Files
  <1>8. Walks'
    <2>. SUFFICES ASSUME NEW r \in Readers, pc[r] \in {"lock", "walk"}
                  PROVE  /\ call[r].count \in ReadCounts
                         /\ \E j \in 0 .. Len(buffer') : WalkedTo(buffer', call[r], f_pos[r], j)
      BY <1>1, <1>7 DEF Walks
    <2>1. call[r].count \in ReadCounts
      BY DEF DataInv, Walks
    <2>2. PICK j \in 0 .. Len(buffer) : WalkedTo(buffer, call[r], f_pos[r], j)
      BY DEF DataInv, Walks
    <2>3. call[r].user \in Seq(Parts)
      BY DEF DataInv, Files
    <2>. HIDE DEF d
    <2>4. j \in 0 .. Len(Append(buffer, d)) /\ WalkedTo(Append(buffer, d), call[r], f_pos[r], j)
      BY <1>1, <1>4, <2>2, <2>3, WalkedAppend
    <2>. QED BY <1>3, <2>1, <2>4
  <1>9. FirstOnes'
    <2>. SUFFICES ASSUME cleared = "never", module # "removed", NEW r \in Readers
                  PROVE  /\ Len(LogGot(r)) <= Len(buffer')
                         /\ \A k \in 1 .. Len(LogGot(r)) : LogGot(r)[k].node = buffer'[k]
                         /\ LogPos(r) = Offsets(buffer')[Len(LogGot(r))]
      BY <1>1, <1>7, Zenon DEF FirstOnes
    <2>. DEFINE m == Len(LogGot(r))
    <2>1. /\ m <= n /\ \A k \in 1 .. m : LogGot(r)[k].node = buffer[k]
          /\ LogPos(r) = Offsets(buffer)[m]
      BY DEF DataInv, FirstOnes
    <2>2. m \in Nat
      <3>1. LogGot(r) \in Seq(Parts)
        <4>1. got[r] \in Seq(Parts) /\ call[r].user \in Seq(Parts)
          BY DEF DataInv, Files
        <4>. QED BY <4>1, JoinParts DEF LogGot
      <3>. QED BY <3>1
    <2>. HIDE DEF m, n
    <2>3. m \in 0 .. n
      BY <1>6, <2>1, <2>2
    <2>4. Offsets(buffer')[m] = Offsets(buffer)[m]
      BY <1>1, <1>3, <1>4, <2>3, OffsetsAppend DEF n, d
    <2>5. \A k \in 1 .. m : LogGot(r)[k].node = buffer'[k]
      BY <1>6, <2>1, <2>3
    <2>6. m <= Len(buffer')
      BY <1>6, <2>3
    <2>. QED BY <2>1, <2>4, <2>5, <2>6 DEF m
  <1>10. Seconds'
    BY <1>5 DEF Seconds, Cleaning
  <1>11. CountInv'
    <2>1. Pending' = Pending \cup {d}
      <3>1. ASSUME NEW v \in Writers PROVE Made(v)' <=> (Made(v) \/ v = w)
        BY <1>2 DEF Made
      <3>2. Pending' = {call[v].node : v \in {u \in Writers : Made(u) \/ u = w}}
        BY <1>1, <3>1 DEF Pending
      <3>. QED BY <3>2 DEF Pending
    <2>2. Log!LengthOf(Counted)' = Log!LengthOf(Counted)
      <3>1. Log!LengthOf(Counted)' = Log!LengthOf(Without(Append(buffer, d), Pending \cup {d}))
        BY <1>3, <2>1 DEF Counted
      <3>. HIDE DEF d
      <3>. QED BY <1>1, <1>4, <3>1, WithoutAppend DEF Counted
    <2>3. Range(buffer') = Range(buffer) \cup {d}
      <3>. HIDE DEF d, n
      <3>1. DOMAIN buffer = 1 .. n /\ DOMAIN buffer' = 1 .. n + 1
        BY <1>1, <1>3, <1>6 DEF n
      <3>. QED BY <1>6, <3>1 DEF Range
    <2>4. \A v \in Writers : Made(v)' => call'[v].node \in Range(buffer') /\ call'[v].node.by = v
      <3>. SUFFICES ASSUME NEW v \in Writers, Made(v)'
                    PROVE  call[v].node \in Range(buffer') /\ call[v].node.by = v
        BY <1>1
      <3>1. CASE v = w
        BY <1>4, <2>3, <3>1
      <3>2. CASE v # w
        <4>1. Made(v)
          BY <1>2, <3>2 DEF Made
        <4>. QED BY <2>3, <4>1 DEF DataInv, CountInv
      <3>. QED BY <3>1, <3>2
    <2>5. \A v \in Writers : pc'[v] = "add" => pc[v] = "add"
      BY <1>2
    <2>. QED BY <1>1, <1>5, <2>2, <2>4, <2>5, Zenon DEF DataInv, CountInv
  <1>12. Log!AddTail(d)
    <2>. QED BY <1>3, <1>5, <1>7 DEF Log!AddTail, LogGot, LogPos
  <1>. QED BY <1>4, <1>7, <1>8, <1>9, <1>10, <1>11, <1>12 DEF DataInv

-----------------------------------------------------------------------------
\* A writer goes on, and the list and the counters stay as they are.
LEMMA WriteStill ==
  ASSUME ListInv, DataInv, NEW w \in Writers, NEW label, NEW locals,
         DOMAIN locals = DOMAIN Blank, Continue(w, label, locals),
         UNCHANGED <<buffer, total_length, cleared, module, files>>,
         pc[w] # "clean", label # "clean",
         Made(w) <=> label \in {"synchronize", "grace", "account", "add"},
         Made(w) => locals.node = call[w].node,
         label = "add" => ~Cleaning /\ locals.register = total_length
  PROVE  DataInv' /\ UNCHANGED Log!vars
  <1>1. w \in Processes /\ Placed
    BY DEF ListInv, Processes
  <1>2. Moved(w) /\ pc'[w] = label /\ call'[w] = locals
    BY <1>1, ContinueStep DEF Moved
  <1>3. Made(w)' <=> Made(w)
    BY <1>2 DEF Made
  <1>4. f_pos' = f_pos /\ got' = got
    BY DEF files
  <1>5. f_pos' \in [Processes -> Nat]
    BY <1>4 DEF DataInv, Files
  <1>. QED BY <1>2, <1>3, <1>4, <1>5, WriteQuiet

\* What the steps of a call of write that neither link nor clean do to them.
LEMMA WriteData ==
  ASSUME ListInv, DataInv, NEW w \in Writers, ~Overlapped',
         \/ \E count \in WriteCounts : BeginWrite(w, count)
         \/ Chunk(w) /\ ~StartClean(w, Node(w, call[w].i, call[w].count))
         \/ GiveUpWrite(w) \/ EnterWrite(w) \/ WaitForReaders(w)
         \/ LoadTotal(w) \/ StoreTotal(w) \/ StoreCount(w)
  PROVE  DataInv' /\ UNCHANGED Log!vars
  <1>1. /\ w \in Processes /\ w \notin Readers /\ Placed /\ DOMAIN call[w] = DOMAIN Blank
    BY WriterFacts
  <1>2. ASSUME Return(w), pc[w] \in {"chunk", "lock", "increment"},
               UNCHANGED <<buffer, total_length, cleared, module, files>>
        PROVE  DataInv' /\ UNCHANGED Log!vars
    <2>1. Continue(w, User, Blank) /\ pc[w] # "clean" /\ ~Made(w)
      BY <1>2 DEF Return, Made
    <2>. HIDE DEF Blank
    <2>. QED BY <1>2, <2>1, WriteStill DEF User
  <1>3. ASSUME NEW count \in WriteCounts, BeginWrite(w, count)
        PROVE  DataInv' /\ UNCHANGED Log!vars
    <2>. DEFINE locals == [Blank EXCEPT !.count = count]
    <2>1. DOMAIN locals = DOMAIN Blank
      BY DEF Blank
    <2>2. /\ Continue(w, "chunk", locals) /\ pc[w] # "clean" /\ ~Made(w)
          /\ UNCHANGED <<buffer, total_length, cleared, module, files>>
      BY <1>3 DEF BeginWrite, Begin, Overlapped, list, counters, Made, User
    <2>. HIDE DEF locals
    <2>. QED BY <2>1, <2>2, WriteStill
  <1>4. CASE Chunk(w) /\ ~StartClean(w, Node(w, call[w].i, call[w].count))
    <2>1. /\ EndLoop(w) \/ Allocate(w, Node(w, call[w].i, call[w].count))
          /\ pc[w] = "chunk" /\ ~Made(w)
          /\ UNCHANGED <<buffer, total_length, cleared, module, files>>
      BY <1>4 DEF Chunk, Made, list, counters
    <2>2. CASE EndLoop(w)
      <3>. DEFINE locals == [call[w] EXCEPT !.register = write_count]
      <3>1. DOMAIN locals = DOMAIN Blank /\ Continue(w, "increment", locals)
        BY <1>1, <2>2 DEF EndLoop, Blank
      <3>. HIDE DEF locals
      <3>. QED BY <2>1, <3>1, WriteStill
    <2>3. CASE Allocate(w, Node(w, call[w].i, call[w].count))
      <3>. DEFINE locals == [call[w] EXCEPT !.node = Node(w, call[w].i, call[w].count)]
      <3>1. /\ DOMAIN locals = DOMAIN Blank
            /\ Return(w) \/ Continue(w, "lock", locals)
        BY <1>1, <2>3 DEF Allocate, Blank
      <3>. HIDE DEF locals
      <3>2. Return(w) => DataInv' /\ UNCHANGED Log!vars
        BY <1>2, <2>1
      <3>. QED BY <2>1, <3>1, <3>2, WriteStill
    <2>. QED BY <2>1, <2>2, <2>3
  <1>5. CASE GiveUpWrite(w) \/ StoreCount(w)
    BY <1>2, <1>5 DEF GiveUpWrite, StoreCount, list, counters
  <1>6. CASE EnterWrite(w)
    <2>. DEFINE locals == [call[w] EXCEPT !.at = tail]
    <2>1. DOMAIN locals = DOMAIN Blank
      BY <1>1 DEF Blank
    <2>2. /\ Continue(w, "link", locals) /\ pc[w] # "clean" /\ ~Made(w)
          /\ UNCHANGED <<buffer, total_length, cleared, module, files>>
      BY <1>6 DEF EnterWrite, Made, list, counters
    <2>. HIDE DEF locals
    <2>. QED BY <2>1, <2>2, WriteStill
  <1>7. CASE WaitForReaders(w)
    <2>1. PICK label \in {"grace", "account"} : Goto(w, label)
      BY <1>7 DEF WaitForReaders
    <2>2. /\ pc[w] # "clean" /\ Made(w) /\ UNCHANGED <<buffer, total_length, cleared, module, files>>
          /\ UNCHANGED call
      BY <1>7 DEF WaitForReaders, Made, list, counters
    <2>3. call' = [call EXCEPT ![w] = call[w]]
      BY <1>1, <2>2 DEF Placed
    <2>4. Continue(w, label, call[w])
      BY <2>1, <2>3 DEF Continue
    <2>. QED BY <1>1, <2>1, <2>2, <2>4, WriteStill
  <1>8. CASE LoadTotal(w)
    <2>. DEFINE locals == [call[w] EXCEPT !.register = total_length]
    <2>1. DOMAIN locals = DOMAIN Blank /\ locals.node = call[w].node
          /\ locals.register = total_length
      BY <1>1 DEF Blank
    <2>2. /\ Continue(w, "add", locals) /\ pc[w] = "account" /\ Made(w)
          /\ UNCHANGED <<buffer, total_length, cleared, module, files>>
      BY <1>8 DEF LoadTotal, Made, list, counters
    <2>3. ~Cleaning
      BY <1>1, <2>2, NobodyCleans DEF User
    <2>. HIDE DEF locals
    <2>. QED BY <2>1, <2>2, <2>3, WriteStill
  <1>9. CASE StoreTotal(w)
    <2>. DEFINE locals == [Blank EXCEPT !.count = call[w].count,
                                        !.i = call[w].i + INTERNAL_SIZE]
                length == call[w].node.length
    <2>1. DOMAIN locals = DOMAIN Blank
      BY DEF Blank
    <2>2. /\ Continue(w, "chunk", locals) /\ pc[w] = "add" /\ Made(w)
          /\ UNCHANGED <<buffer, cleared, module, got>>
          /\ f_pos' = [f_pos EXCEPT ![w] = @ + length]
      BY <1>9, Zenon DEF StoreTotal, Made, list
    <2>. HIDE DEF locals
    <2>3. Moved(w) /\ pc'[w] = "chunk"
      BY <1>1, <2>1, <2>2, ContinueStep DEF Moved
    <2>4. length \in Nat
      <3>1. call[w].node \in Range(buffer) /\ buffer \in Seq(Nodes)
        BY <2>2 DEF DataInv, CountInv, ListInv, Linear
      <3>2. PICK k \in 1 .. Len(buffer) : buffer[k] = call[w].node
        BY <3>1 DEF Range
      <3>. QED BY <3>1, <3>2, NodesSized DEF Sized
    <2>. HIDE DEF length
    <2>5. f_pos' \in [Processes -> Nat] /\ \A r \in Readers : f_pos'[r] = f_pos[r]
      <3>1. f_pos \in [Processes -> Nat]
        BY DEF DataInv, Files
      <3>. QED BY <1>1, <2>2, <2>4, <3>1 DEF Processes
    <2>6. CountInv'
      BY <1>9, <2>3, CountAdd
    <2>. QED BY <2>2, <2>3, <2>5, <2>6, WriteQuiet
  <1>. QED BY <1>3, <1>4, <1>5, <1>6, <1>7, <1>8, <1>9

-----------------------------------------------------------------------------
\* A step of a writer that is alone in the driver, at clean_list.
LEMMA AloneData ==
  ASSUME DataInv, NEW w \in Writers, Moved(w), \A q \in Processes \ {w} : pc[q] = User,
         UNCHANGED files, cleared' # "never", Seconds',
         \/ pc'[w] = "clean" /\ total_length' \in Int
         \/ pc'[w] = User /\ total_length' = 0 /\ buffer' \in Seq(Nodes)
  PROVE  /\ DataInv' /\ (Cleaning' <=> pc'[w] = "clean")
         /\ \A r \in Readers : LogGot(r)' = LogGot(r) /\ LogPos(r)' = LogPos(r)
  <1>. USE DEF User
  <1>1. f_pos' = f_pos /\ got' = got
    BY DEF files
  <1>2. /\ Files'
        /\ \A r \in Readers : /\ pc'[r] = pc[r] /\ call'[r] = call[r]
                              /\ LogGot(r)' = LogGot(r) /\ LogPos(r)' = LogPos(r)
    BY <1>1, ReadersAside DEF DataInv, Files
  <1>3. \A q \in Processes \ {w} : pc'[q] = User
    BY DEF Moved
  <1>4. \A r \in Readers : pc'[r] = User
    BY <1>3, ProcessesAssumption DEF Processes
  <1>5. Walks' /\ FirstOnes'
    BY <1>4, Zenon DEF Walks, FirstOnes
  <1>6. Cleaning' <=> pc'[w] = "clean"
    BY <1>3 DEF Cleaning, Processes
  <1>7. \A v \in Writers : ~Made(v)' /\ pc'[v] # "add"
    <2>. SUFFICES ASSUME NEW v \in Writers PROVE ~Made(v)' /\ pc'[v] # "add"
      OBVIOUS
    <2>. pc'[v] \in {"user", "clean"}
      BY <1>3 DEF Processes
    <2>. QED BY DEF Made
  <1>8. total_length' \in Int /\ (Cleaning' \/ total_length' <= Log!LengthOf(Counted)')
    <2>1. CASE pc'[w] = "clean" /\ total_length' \in Int
      BY <1>6, <2>1
    <2>2. CASE total_length' = 0 /\ buffer' \in Seq(Nodes)
      <3>1. Log!LengthOf(Without(buffer', Pending')) \in Nat
        BY <2>2, WithoutIs
      <3>2. Log!LengthOf(Counted)' \in Nat
        BY <3>1 DEF Counted
      <3>. QED BY <2>2, <3>2
    <2>. QED BY <2>1, <2>2
  <1>9. CountInv'
    BY <1>7, <1>8, Zenon DEF CountInv
  <1>. QED BY <1>2, <1>5, <1>6, <1>9 DEF DataInv

\* clean_list begins: the log is empty, at one moment.
LEMMA StartData ==
  ASSUME ListInv, DataInv, NEW w \in Writers, Chunk(w), NEW d, StartClean(w, d), ~Overlapped'
  PROVE  DataInv' /\ Log!Clear
  <1>. USE DEF User
  <1>1. /\ w \in Processes /\ Placed /\ DOMAIN call[w] = DOMAIN Blank
        /\ buffer \in Seq(Nodes) /\ \A i, k \in DOMAIN buffer : buffer[i] = buffer[k] => i = k
    BY WriterFacts DEF ListInv, Linear
  <1>2. UNCHANGED <<buffer, total_length, files>>
    BY DEF Chunk, list, counters
  <1>3. PICK e \in Nexts(buffer, ListHead) : \E f \in Nexts(buffer, e) :
          Continue(w, "clean", [call[w] EXCEPT !.node = d, !.at = e, !.next = f])
    BY DEF StartClean
  <1>4. PICK f \in Nexts(buffer, e) :
          Continue(w, "clean", [call[w] EXCEPT !.node = d, !.at = e, !.next = f])
    BY <1>3
  <1>5. (\A q \in Processes \ {w} : pc[q] = User) /\ cleared' # "never"
    BY DEF StartClean, Overlapped
  <1>. DEFINE locals == [call[w] EXCEPT !.node = d, !.at = e, !.next = f]
              n == Len(buffer)
  <1>6. /\ DOMAIN locals = DOMAIN Blank /\ locals.at = e /\ locals.next = f
        /\ Continue(w, "clean", locals)
    BY <1>1, <1>4 DEF Blank
  <1>. HIDE DEF locals
  <1>7. Moved(w) /\ pc'[w] = "clean" /\ call'[w] = locals
    BY <1>1, <1>6, ContinueStep DEF Moved
  <1>8. /\ n \in Nat /\ e = IF n > 0 THEN buffer[1] ELSE ListHead
        /\ f = IF n > 1 THEN buffer[2] ELSE ListHead
    <2>1. n \in Nat
      BY <1>1
    <2>2. ASSUME NEW j \in 0 .. n, NEW a, a = IF j = 0 THEN ListHead ELSE buffer[j],
                 NEW b \in Nexts(buffer, a)
          PROVE  b = IF j = n THEN ListHead ELSE buffer[j + 1]
      BY <1>1, <2>2, NextIs
    <2>. HIDE DEF n
    <2>3. 0 \in 0 .. n /\ (n > 0 => 1 \in 0 .. n)
      BY <2>1
    <2>4. e = IF 0 = n THEN ListHead ELSE buffer[0 + 1]
      BY <2>2, <2>3
    <2>5. CASE n = 0
      <3>1. f = IF 0 = n THEN ListHead ELSE buffer[0 + 1]
        BY <2>2, <2>3, <2>4, <2>5
      <3>. QED BY <2>4, <2>5, <3>1
    <2>6. CASE n > 0
      <3>1. e = buffer[1]
        BY <2>1, <2>4, <2>6
      <3>2. f = IF 1 = n THEN ListHead ELSE buffer[1 + 1]
        BY <2>2, <2>3, <2>6, <3>1
      <3>. QED BY <2>1, <2>6, <3>1, <3>2
    <2>. QED BY <2>1, <2>5, <2>6
  <1>9. Seconds'
    <2>. SUFFICES ASSUME NEW v \in Writers, pc'[v] = "clean"
                  PROVE  /\ cleared' # "never"
                         /\ call'[v].at = IF n > 0 THEN buffer[1] ELSE ListHead
                         /\ call'[v].next = IF n > 1 THEN buffer[2] ELSE ListHead
      BY <1>2 DEF Seconds
    <2>1. v = w
      BY <1>5, <1>7 DEF Moved, Processes
    <2>. QED BY <1>5, <1>6, <1>7, <1>8, <2>1
  <1>10. total_length' \in Int
    BY <1>2 DEF DataInv, CountInv
  <1>11. /\ DataInv' /\ Cleaning'
         /\ \A r \in Readers : LogGot(r)' = LogGot(r) /\ LogPos(r)' = LogPos(r)
    BY <1>2, <1>5, <1>7, <1>9, <1>10, AloneData
  <1>12. Log!Clear
    BY <1>11 DEF Log!Clear, LogGot, LogPos
  <1>. QED BY <1>11, <1>12

\* clean_list goes on or ends: the log stays empty.
LEMMA CleanData ==
  ASSUME ListInv, DataInv, NEW w \in Writers, Clean(w)
  PROVE  DataInv' /\ UNCHANGED Log!vars
  <1>. USE DEF User
  <1>. DEFINE n == Len(buffer)
              next == call[w].next
  <1>1. /\ w \in Processes /\ Placed /\ DOMAIN call[w] = DOMAIN Blank
        /\ buffer \in Seq(Nodes) /\ \A i, k \in DOMAIN buffer : buffer[i] = buffer[k] => i = k
        /\ n \in Nat /\ DOMAIN buffer = 1 .. n
    BY WriterFacts DEF ListInv, Linear
  <1>2. /\ pc[w] = "clean" /\ UNCHANGED <<cleared, files>>
        /\ \A q \in Processes \ {w} : pc[q] = User
    BY <1>1 DEF Clean, ListInv, CleansAlone
  <1>3. /\ cleared # "never"
        /\ call[w].at = IF n > 0 THEN buffer[1] ELSE ListHead
        /\ next = IF n > 1 THEN buffer[2] ELSE ListHead
    BY <1>2 DEF DataInv, Seconds
  <1>4. \A k \in 1 .. n : buffer[k] \in Nodes /\ buffer[k] \notin {ListHead, Poison}
    BY <1>1, NoNodes
  <1>5. Cleaning
    BY <1>2 DEF Cleaning
  <1>6. CASE EndClean(w)
    <2>1. /\ call[w].at = ListHead /\ total_length' = 0 /\ Return(w) /\ buffer' = buffer
      BY <1>6 DEF EndClean, list
    <2>2. buffer = << >>
      <3>1. n > 0 => 1 \in 1 .. n
        BY <1>1
      <3>2. n = 0
        BY <1>1, <1>3, <1>4, <2>1, <3>1
      <3>. QED BY <1>1, <3>2
    <2>3. Moved(w) /\ pc'[w] = User
      BY <1>1, <2>1, ContinueStep DEF Return, Moved
    <2>4. Seconds'
      <3>1. \A v \in Writers : pc'[v] # "clean"
        BY <1>2, <2>3 DEF Moved, Processes
      <3>. QED BY <3>1 DEF Seconds
    <2>5. /\ DataInv' /\ ~Cleaning'
          /\ \A r \in Readers : LogGot(r)' = LogGot(r) /\ LogPos(r)' = LogPos(r)
      BY <1>1, <1>2, <1>3, <2>1, <2>3, <2>4, AloneData
    <2>. QED BY <1>5, <2>1, <2>2, <2>5 DEF Log!vars, LogGot, LogPos
  <1>7. CASE call[w].at # ListHead /\ Delete(w)
    <2>1. n > 0 /\ call[w].at = buffer[1] /\ 1 \in 1 .. n
      BY <1>1, <1>3, <1>7
    <2>2. PICK k \in DOMAIN buffer :
            /\ buffer[k] = call[w].at /\ buffer' = RemoveAt(buffer, k) /\ UNCHANGED counters
            /\ \E e \in Nexts(buffer', next) :
                 Continue(w, IF next = Poison THEN Dead ELSE "clean",
                          [call[w] EXCEPT !.at = next, !.next = e])
      <3>1. {k \in DOMAIN buffer : buffer[k] = call[w].at} # {}
        BY <1>1, <2>1
      <3>. QED BY <1>7, <3>1 DEF Delete
    <2>3. k = 1
      BY <1>1, <2>1, <2>2
    <2>4. /\ buffer' \in Seq(Nodes) /\ Len(buffer') = n - 1
          /\ \A i, j \in DOMAIN buffer' : buffer'[i] = buffer'[j] => i = j
          /\ \A j \in 1 .. n - 1 : buffer'[j] = IF j < k THEN buffer[j] ELSE buffer[j + 1]
      <3>. HIDE DEF n, next
      <3>1. buffer \in Seq(Nodes) /\ \A i, j \in DOMAIN buffer : buffer[i] = buffer[j] => i = j
        BY <1>1
      <3>2. RemoveAt(buffer, k) \in Seq(Nodes) /\ Len(RemoveAt(buffer, k)) = Len(buffer) - 1
        BY <3>1, RemoveNode
      <3>3. \A i, j \in DOMAIN RemoveAt(buffer, k) :
              RemoveAt(buffer, k)[i] = RemoveAt(buffer, k)[j] => i = j
        BY <3>1, RemoveNode
      <3>4. \A j \in 1 .. Len(buffer) - 1 :
              RemoveAt(buffer, k)[j] = IF j < k THEN buffer[j] ELSE buffer[j + 1]
        BY <3>1, RemoveNode
      <3>. QED BY <2>2, <3>2, <3>3, <3>4 DEF n
    <2>5. \A j \in 1 .. n - 1 : buffer'[j] = buffer[j + 1]
      BY <2>3, <2>4
    <2>6. next # Poison /\ next = IF n - 1 = 0 THEN ListHead ELSE buffer'[1]
      <3>. HIDE DEF n, next
      <3>1. CASE n = 1
        BY <1>3, <3>1, NoNodes
      <3>2. CASE n > 1
        <4>1. 2 \in 1 .. n /\ 1 \in 1 .. n - 1 /\ 1 + 1 = 2 /\ n - 1 # 0
          BY <1>1, <3>2
        <4>2. next = buffer[2] /\ buffer'[1] = buffer[1 + 1]
          BY <1>3, <2>5, <3>2, <4>1
        <4>. QED BY <1>4, <4>1, <4>2
      <3>. QED BY <1>1, <2>1, <3>1, <3>2
    <2>7. PICK e \in Nexts(buffer', next) :
            Continue(w, "clean", [call[w] EXCEPT !.at = next, !.next = e])
      BY <2>2, <2>6
    <2>. DEFINE locals == [call[w] EXCEPT !.at = next, !.next = e]
    <2>8. /\ DOMAIN locals = DOMAIN Blank /\ locals.at = next /\ locals.next = e
          /\ Continue(w, "clean", locals)
      BY <1>1, <2>7 DEF Blank
    <2>. HIDE DEF locals
    <2>9. Moved(w) /\ pc'[w] = "clean" /\ call'[w] = locals
      BY <1>1, <2>8, ContinueStep DEF Moved
    <2>10. e = IF n - 1 > 1 THEN buffer'[2] ELSE ListHead
      <3>1. ASSUME NEW j \in 0 .. Len(buffer'), next = IF j = 0 THEN ListHead ELSE buffer'[j]
            PROVE  e = IF j = Len(buffer') THEN ListHead ELSE buffer'[j + 1]
        BY <2>4, <3>1, NextIs
      <3>. HIDE DEF n, next
      <3>2. CASE n = 1
        <4>1. 0 \in 0 .. Len(buffer') /\ Len(buffer') = 0
          BY <2>4, <3>2
        <4>. QED BY <2>6, <3>1, <3>2, <4>1
      <3>3. CASE n > 1
        <4>1. 1 \in 0 .. Len(buffer') /\ n - 1 # 0
          BY <1>1, <2>4, <3>3
        <4>2. e = IF 1 = Len(buffer') THEN ListHead ELSE buffer'[1 + 1]
          <5>1. next = IF 1 = 0 THEN ListHead ELSE buffer'[1]
            BY <2>6, <4>1
          <5>. QED BY <3>1, <4>1, <5>1
        <4>. QED BY <1>1, <2>4, <3>3, <4>2
      <3>. QED BY <1>1, <2>1, <3>2, <3>3
    <2>11. Seconds'
      <3>. SUFFICES ASSUME NEW v \in Writers, pc'[v] = "clean"
                    PROVE  /\ cleared' # "never"
                           /\ call'[v].at = IF Len(buffer') > 0 THEN buffer'[1] ELSE ListHead
                           /\ call'[v].next = IF Len(buffer') > 1 THEN buffer'[2] ELSE ListHead
        BY DEF Seconds
      <3>1. v = w
        BY <1>2, <2>9 DEF Moved, Processes
      <3>2. cleared' # "never"
        BY <1>2, <1>3
      <3>3. (n - 1 = 0) <=> ~(Len(buffer') > 0)
        BY <1>1, <2>1, <2>4
      <3>. QED BY <2>4, <2>6, <2>8, <2>9, <2>10, <3>1, <3>2, <3>3
    <2>12. total_length' \in Int
      BY <2>2 DEF counters, DataInv, CountInv
    <2>13. /\ DataInv' /\ Cleaning'
           /\ \A r \in Readers : LogGot(r)' = LogGot(r) /\ LogPos(r)' = LogPos(r)
      BY <1>1, <1>2, <1>3, <2>9, <2>11, <2>12, AloneData
    <2>. QED BY <1>5, <2>13 DEF Log!vars, LogGot, LogPos
  <1>. QED BY <1>6, <1>7 DEF Clean

-----------------------------------------------------------------------------
\* rmmod empties the log.
LEMMA UnloadData ==
  ASSUME DataInv, Unload
  PROVE  DataInv' /\ Log!Clear
  <1>. USE DEF User
  <1>1. /\ \A p \in Processes : pc[p] = User /\ pc'[p] = User
        /\ buffer' = << >> /\ total_length' = 0 /\ module' = "removed"
        /\ UNCHANGED <<pc, call, f_pos, got, cleared>>
    BY DEF Unload, Empty, files
  <1>2. Files'
    BY <1>1 DEF DataInv, Files
  <1>3. \A w \in Writers : ~Made(w)' /\ pc'[w] # "add" /\ pc'[w] # "clean"
    <2>. SUFFICES ASSUME NEW w \in Writers PROVE ~Made(w)' /\ pc'[w] # "add" /\ pc'[w] # "clean"
      OBVIOUS
    <2>. pc'[w] = "user"
      BY <1>1 DEF Processes
    <2>. QED BY DEF Made
  <1>4. \A r \in Readers : pc[r] = "user" /\ pc'[r] = "user"
    BY <1>1 DEF Processes
  <1>5. Walks' /\ Seconds' /\ FirstOnes'
    BY <1>1, <1>3, <1>4, Zenon DEF Walks, Seconds, FirstOnes
  <1>6. CountInv'
    <2>1. buffer' \in Seq(Nodes)
      BY <1>1
    <2>2. Log!LengthOf(Without(buffer', Pending')) \in Nat
      BY <2>1, WithoutIs
    <2>3. Log!LengthOf(Counted)' \in Nat
      BY <2>2 DEF Counted
    <2>4. total_length' \in Int /\ total_length' <= Log!LengthOf(Counted)'
      BY <1>1, <2>3
    <2>. QED BY <1>3, <2>4, Zenon DEF CountInv
  <1>7. Log!Clear
    <2>1. (IF Cleaning THEN << >> ELSE buffer)' = << >>
      BY <1>1
    <2>2. \A r \in Readers : pc[r] # "leave" /\ pc'[r] # "leave"
      BY <1>4
    <2>. QED BY <1>1, <2>1, <2>2 DEF Log!Clear
  <1>. QED BY <1>2, <1>5, <1>6, <1>7 DEF DataInv

\* A step that leaves the list, the calls and the files as they are.
LEMMA StillData ==
  ASSUME DataInv, UNCHANGED <<buffer, total_length, pc, call, f_pos, got, cleared>>,
         module' # "removed" => module # "removed"
  PROVE  DataInv' /\ UNCHANGED Log!vars
  <1>1. Files'
    BY DEF DataInv, Files
  <1>2. Cleaning' <=> Cleaning
    BY DEF Cleaning
  <1>3. \A r \in Readers : LogGot(r)' = LogGot(r) /\ LogPos(r)' = LogPos(r)
    BY DEF LogGot, LogPos
  <1>4. Walks' /\ FirstOnes' /\ UNCHANGED Log!vars
    BY <1>2, <1>3, LogStill DEF DataInv, Walks
  <1>5. Seconds'
    BY SecondsStill DEF DataInv
  <1>6. CountInv'
    <2>1. \A w \in Writers : Made(w)' <=> Made(w)
      BY DEF Made
    <2>. QED BY <1>2, <2>1, CountStill DEF DataInv
  <1>. QED BY <1>1, <1>4, <1>5, <1>6 DEF DataInv

\* The invariant about the data, next to IInv.
LogInv == Overlapped \/ DataInv

\* It holds at the start, and the log is empty.
LEMMA InitData == Init => LogInv /\ Log!Init
  <1>. SUFFICES ASSUME Init PROVE DataInv /\ Log!Init
    BY DEF LogInv
  <1>. USE DEF User
  <1>1. /\ buffer = << >> /\ total_length = 0
        /\ \A p \in Processes : pc[p] = "user" /\ call[p] = Blank
        /\ f_pos = [p \in Processes |-> 0] /\ got = [r \in Readers |-> << >>]
    BY DEF Init, InitDriver
  <1>2. /\ Blank.user = << >> /\ Blank.user \in Seq(Parts) /\ Blank.real_length \in Nat
    BY DEF Blank
  <1>3. Files
    <2>1. f_pos \in [Processes -> Nat] /\ got \in [Readers -> Seq(Parts)]
      BY <1>1
    <2>2. \A r \in Readers : call[r] = Blank
      BY <1>1 DEF Processes
    <2>. QED BY <1>2, <2>1, <2>2 DEF Files
  <1>4. \A r \in Readers : /\ pc[r] = "user" /\ LogGot(r) = << >> /\ LogPos(r) = 0
    BY <1>1 DEF LogGot, LogPos, Processes
  <1>5. \A w \in Writers : ~Made(w) /\ pc[w] # "add" /\ pc[w] # "clean"
    <2>. SUFFICES ASSUME NEW w \in Writers PROVE ~Made(w) /\ pc[w] # "add" /\ pc[w] # "clean"
      OBVIOUS
    <2>. pc[w] = "user"
      BY <1>1 DEF Processes
    <2>. QED BY DEF Made
  <1>6. Walks /\ Seconds
    BY <1>4, <1>5, Zenon DEF Walks, Seconds
  <1>7. FirstOnes
    <2>1. Offsets(buffer)[0] = 0 /\ Len(buffer) = 0
      BY <1>1, OffsetsStep
    <2>2. Len(<< >>) = 0
      OBVIOUS
    <2>. QED BY <1>4, <2>1, <2>2 DEF FirstOnes
  <1>8. CountInv
    <2>1. Log!LengthOf(Counted) \in Nat
      <3>1. buffer \in Seq(Nodes)
        BY <1>1
      <3>. QED BY <3>1, WithoutIs DEF Counted
    <2>2. total_length \in Int /\ total_length <= Log!LengthOf(Counted)
      BY <1>1, <2>1
    <2>. QED BY <1>5, <2>2, Zenon DEF CountInv
  <1>9. Log!Init
    <2>1. (IF Cleaning THEN << >> ELSE buffer) = << >>
      BY <1>1
    <2>2. \A r \in Readers : pc[r] # "leave" /\ f_pos[r] = 0 /\ got[r] = << >>
      BY <1>1, <1>4 DEF Processes
    <2>. QED BY <2>1, <2>2 DEF Log!Init
  <1>. QED BY <1>3, <1>6, <1>7, <1>8, <1>9 DEF DataInv

\* Every step keeps it, and is one of the log or leaves the log as it is, unless it
\* is one at which calls overlap.
LEMMA StepData ==
  IInv /\ LogInv /\ [Next]_<<vars, variant>>
    => LogInv' /\ (UNCHANGED Log!vars \/ Overlapped' \/ Log!Next)
  <1>. SUFFICES ASSUME IInv, LogInv, [Next]_<<vars, variant>>, ~Overlapped'
                PROVE  DataInv' /\ (UNCHANGED Log!vars \/ Log!Next)
    BY Zenon DEF LogInv
  <1>1. AnyNext \/ UNCHANGED vars
    BY NextIsAny
  <1>2. ListInv /\ DataInv
    <2>1. ~Overlapped
      BY <1>1, OverlappedStays DEF Overlapped, vars
    <2>. QED BY <2>1 DEF IInv, LogInv
  <1>3. ASSUME NEW r \in Readers, ReadAny(r)
        PROVE  DataInv' /\ (UNCHANGED Log!vars \/ Log!Next)
    <2>1. DataInv' /\ (UNCHANGED Log!vars \/ \E count \in ReadCounts : Log!Read(r, count))
      BY <1>2, <1>3, ReadData
    <2>. QED BY <2>1, Zenon DEF Log!Next
  <1>4. ASSUME NEW w \in Writers, WriteAny(w)
        PROVE  DataInv' /\ (UNCHANGED Log!vars \/ Log!Next)
    <2>1. ASSUME NEW label \in {"account", "synchronize"}, Link(w, label)
          PROVE  DataInv' /\ Log!Next
      <3>1. DataInv' /\ Log!AddTail(call[w].node) /\ call[w].node \in Nodes
        BY <1>2, <2>1, LinkData
      <3>. QED BY <3>1, Zenon DEF Log!Next
    <2>2. CASE Chunk(w) /\ StartClean(w, Node(w, call[w].i, call[w].count))
      <3>1. DataInv' /\ Log!Clear
        BY <1>2, <2>2, StartData
      <3>. QED BY <3>1, Zenon DEF Log!Next
    <2>3. CASE Clean(w)
      BY <1>2, <2>3, CleanData
    <2>4. CASE ~(Chunk(w) /\ StartClean(w, Node(w, call[w].i, call[w].count)))
      BY <1>2, <1>4, <2>1, <2>3, <2>4, WriteData DEF WriteAny
    <2>. QED BY <2>2, <2>4
  <1>5. CASE linked_exit
    <2>1. Unload
      BY <1>5 DEF linked_exit, UnloadUnderCall, Overlapped
    <2>2. DataInv' /\ Log!Clear
      BY <1>2, <2>1, UnloadData
    <2>. QED BY <2>2, Zenon DEF Log!Next
  <1>6. CASE linked_init \/ UNCHANGED vars
    <2>1. /\ UNCHANGED <<buffer, total_length, pc, call, f_pos, got, cleared>>
          /\ module' # "removed" => module # "removed"
      BY <1>6 DEF linked_init, vars, list, counters, files
    <2>. QED BY <1>2, <2>1, StillData
  <1>. QED BY <1>1, <1>3, <1>4, <1>5, <1>6 DEF AnyNext

\* What is known of the data holds in every reachable state.
THEOREM LogInvariance == Spec => [](IInv /\ LogInv)
  <1>1. Init => IInv /\ LogInv
    BY InitIInv, InitData
  <1>2. IInv /\ LogInv /\ [Next]_<<vars, variant>> => (IInv /\ LogInv)'
    BY StepIInv, StepData
  <1>. QED BY <1>1, <1>2, PTL DEF Spec

\* total_length, which every writer loads and stores without a lock, never runs
\* ahead of the list, whatever increments are lost, except while clean_list takes
\* the list apart or after an overlap.
THEOREM NoneOverstated == Spec => []NeverOverstated
  <1>1. IInv /\ LogInv => NeverOverstated
    <2>. SUFFICES ASSUME ListInv, CountInv, ~Cleaning
                  PROVE  total_length <= Log!LengthOf(buffer)
      BY DEF IInv, LogInv, NeverOverstated, DataInv
    <2>1. buffer \in Seq(Nodes)
      BY DEF ListInv, Linear
    <2>2. Log!LengthOf(Counted) \in Nat /\ Log!LengthOf(Counted) <= Log!LengthOf(buffer)
      BY <2>1, WithoutIs DEF Counted
    <2>3. Log!LengthOf(buffer) \in Nat
      <3>1. Log!LengthOf(buffer) = Offsets(buffer)[Len(buffer)]
        BY <2>1, OffsetsIs
      <3>2. Sized(buffer) /\ Len(buffer) \in 0 .. Len(buffer)
        BY <2>1, NodesSized
      <3>. QED BY <3>1, <3>2, OffsetsNat
    <2>4. total_length \in Int /\ total_length <= Log!LengthOf(Counted)
      BY DEF CountInv
    <2>. QED BY <2>2, <2>3, <2>4
  <1>. QED BY LogInvariance, <1>1, PTL

\* The successive reads of a file return the nodes of the list from the first one
\* on, in order, none twice and none left out, as long as the list was never cleared.
THEOREM EachOnce == Spec => []EachNodeOnce
  <1>1. IInv /\ LogInv => EachNodeOnce
    <2>. SUFFICES ASSUME ListInv, DataInv, cleared = "never", module # "removed", NEW r \in Readers
                  PROVE  IsPrefix([k \in DOMAIN got[r] |-> got[r][k].node], buffer)
      BY DEF IInv, LogInv, EachNodeOnce, Overlapped
    <2>. DEFINE nodes == [k \in DOMAIN got[r] |-> got[r][k].node]
                m == Len(got[r])
    <2>1. /\ got[r] \in Seq(Parts) /\ call[r].user \in Seq(Parts) /\ buffer \in Seq(Nodes)
          /\ m \in Nat /\ DOMAIN got[r] = 1 .. m /\ Len(buffer) \in Nat
      BY DEF DataInv, Files, ListInv, Linear
    <2>2. /\ Len(LogGot(r)) <= Len(buffer)
          /\ \A k \in 1 .. Len(LogGot(r)) : LogGot(r)[k].node = buffer[k]
      BY DEF DataInv, FirstOnes
    <2>3. /\ Len(LogGot(r)) \in Nat /\ m <= Len(LogGot(r))
          /\ \A k \in 1 .. m : LogGot(r)[k] = got[r][k]
      <3>1. CASE pc[r] = "leave"
        <4>1. LogGot(r) = got[r] \o call[r].user
          BY <3>1 DEF LogGot
        <4>2. PICK a \in Seq(Parts), b \in Seq(Parts) : a = got[r] /\ b = call[r].user
          BY <2>1
        <4>. HIDE DEF m, nodes
        <4>3. /\ Len(LogGot(r)) = Len(a) + Len(b)
              /\ \A k \in 1 .. Len(a) : LogGot(r)[k] = a[k]
          <5>1. LogGot(r) = a \o b
            BY <4>1, <4>2
          <5>2. /\ Len(a \o b) = Len(a) + Len(b)
                /\ \A k \in 1 .. Len(a) : (a \o b)[k] = a[k]
            BY JoinParts
          <5>. QED BY <5>1, <5>2
        <4>4. Len(b) \in Nat /\ Len(a) = m
          BY <4>2 DEF m
        <4>5. Len(LogGot(r)) = m + Len(b) /\ \A k \in 1 .. m : LogGot(r)[k] = got[r][k]
          BY <4>2, <4>3, <4>4
        <4>. QED BY <2>1, <4>4, <4>5
      <3>2. CASE pc[r] # "leave"
        BY <2>1, <3>2 DEF LogGot
      <3>. QED BY <3>1, <3>2
    <2>4. m <= Len(buffer) /\ \A k \in 1 .. m : got[r][k].node = buffer[k]
      <3>. HIDE DEF m
      <3>1. m <= Len(buffer)
        BY <2>1, <2>2, <2>3
      <3>2. \A k \in 1 .. m : k \in 1 .. Len(LogGot(r))
        BY <2>1, <2>3
      <3>. QED BY <2>2, <2>3, <3>1, <3>2
    <2>5. nodes = SubSeq(buffer, 1, m)
      <3>1. nodes = [k \in 1 .. m |-> buffer[k]]
        BY <2>1, <2>4
      <3>2. SubSeq(buffer, 1, m) = [k \in 1 .. m |-> buffer[k]]
        <4>. HIDE DEF m
        <4>1. /\ SubSeq(buffer, 1, m) = [k \in 1 .. Len(SubSeq(buffer, 1, m)) |->
                                           SubSeq(buffer, 1, m)[k]]
              /\ Len(SubSeq(buffer, 1, m)) = m
              /\ \A k \in 1 .. m : SubSeq(buffer, 1, m)[k] = buffer[k]
          BY <2>1, <2>4
        <4>. QED BY <4>1
      <3>. QED BY <3>1, <3>2
    <2>6. Len(nodes) = m /\ Len(nodes) <= Len(buffer)
      BY <2>1, <2>4
    <2>. HIDE DEF nodes, m
    <2>. QED BY <2>1, <2>5, <2>6 DEF IsPrefix, nodes
  <1>. QED BY LogInvariance, <1>1, PTL

\* The drivers implement one log: every read returns what the log holds at one
\* moment, although the list grows during its walk under rcu, every write adds its
\* nodes one by one at the end, and clean_list and rmmod empty it, until calls overlap.
THEOREM Implements == Spec => ImplementsLog
  <1>1. Init => Log!Init
    BY InitData
  <1>2. IInv /\ LogInv /\ [Next]_<<vars, variant>>
          => [UNCHANGED Log!vars \/ Overlapped' \/ Log!Next]_(Log!vars)
    BY StepData
  <1>. QED BY LogInvariance, <1>1, <1>2, PTL DEF Spec, ImplementsLog
=============================================================================
