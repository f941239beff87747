------------------------ MODULE LockFreeQueueProofs ------------------------
(* The list of LockFreeQueue is sound, loses and repeats no element, and its *)
(* size follows the calls, whatever the number of threads and of nodes.      *)
(*                                                                           *)
(* A compare-and-exchange on the head or the tail carries a counter, the one *)
(* on a next pointer does not: enqueue may link its node behind a node that  *)
(* has gone back to the pool and that another thread holds by now, not yet   *)
(* linked itself. The invariant therefore speaks of chains: the list, and    *)
(* one chain for each thread that holds a node. What a node is (kind), whose *)
(* chain it is in (by), its place in the chain (pos) and the age of a        *)
(* thread's node (rk, clock) are not in the program's state: the invariant   *)
(* says that such values exist, and each step shows which ones come next.    *)
(*   - The place of a node of the list is absolute: the number of nodes      *)
(*     linked before it since the start. The counters of head and tail are   *)
(*     the places of the nodes they point to, so a pointer read earlier      *)
(*     whose counter still agrees is the pointer of now.                     *)
(*   - A thread links only behind a node held by a younger holder: chains of *)
(*     held nodes close no circle.                                           *)
(* What recursion defines, Hop, is reached at the end by the least place     *)
(* where it could differ from the node the invariant has at that place.      *)
EXTENDS LockFreeQueue, FiniteSetTheorems, WellFoundedInduction, TLAPS

-----------------------------------------------------------------------------
(* The inductive invariant. *)

\* A pointer as the code packs it: the node and the counter of the upper 17 bits.
Refs == [node : Nodes, count : 0..(CounterValues - 1)]
Pcs == {"idle", "alloc", "readTail", "link", "swingTail", "countLinked",
        "readTailNext", "helpTail", "countHelped", "readHead", "readHeadNext", "checkHead",
        "compareTail", "readNextAgain", "readLaggingTail", "readData", "swingHead",
        "discount", "free", "readTailLast"}
Locals == [pc : Pcs, new : Nodes \cup {MyNull},
           head : Refs \cup {MyNull}, tail : Refs \cup {MyNull},
           headNext : Nodes \cup {MyNull}, tailNext : Nodes \cup {MyNull},
           item : Elements \cup {NoElement}, to : {"idle", "readTail", "readHead"}]

\* The types; the nodes' fields, the two pointers, the pool, the threads and their calls.
QueueTypeOK ==
    /\ next \in [Nodes -> Nodes \cup {MyNull}]
    /\ data \in [Nodes -> Elements \cup {NoElement}]
    /\ head \in Refs /\ tail \in Refs
    /\ size \in Int
    /\ free \subseteq Nodes
    /\ at \in [Threads -> Locals]
    /\ calls \in [Threads -> [enqueue : 0..MaxEnqueue, dequeue : 0..MaxDequeue]]
    /\ accepted \subseteq Elements
    /\ taken \in [Elements -> Nat]

\* The thread has a node of its own and has not linked it yet.
Prelink(t) ==
    \/ at[t].pc \in {"readTail", "link"}
    \/ at[t].pc \in {"readTailNext", "helpTail", "countHelped"} /\ at[t].to = "readTail"
\* The thread has stored its element and is not back yet.
Enqueuing(t) == Prelink(t) \/ at[t].pc \in {"swingTail", "countLinked"}
\* The thread has a copy of the tail that it will compare; of the head; of what follows
\* the head; or the old dummy, which it took out of the list and has not freed.
HasTail(t) == at[t].pc \in {"link", "swingTail", "readTailNext", "helpTail"}
HasHead(t) == at[t].pc \in {"readHeadNext", "checkHead", "compareTail", "readNextAgain",
                            "readData", "swingHead"}
HasNext(t) == at[t].pc \in {"compareTail", "readNextAgain", "readData", "swingHead"}
Retires(t) == at[t].pc \in {"discount", "free"}

\* The values the invariant says exist.
Ghosts(kind, by, pos, rk, clock) ==
    /\ kind \in [Nodes -> {"list", "held", "out", "free"}]
    /\ by \in [Nodes -> Threads \cup {MyNull}]
    /\ pos \in [Nodes -> Nat]
    /\ rk \in [Threads -> Nat]
    /\ clock \in Nat
    /\ \A t \in Threads : rk[t] < clock

\* The nodes in a chain, and the nodes of one chain.
Linked(kind, n) == kind[n] \in {"list", "held"}
Same(kind, by, m, n) == kind[m] = kind[n] /\ by[m] = by[n]

\* Each node is in the list, held, taken out or in the pool.
Placed(kind, by, pos) ==
    /\ \A n \in Nodes : n \in free <=> kind[n] = "free"
    /\ \A n \in Nodes : kind[n] = "list" => by[n] = MyNull /\ pos[n] >= head.count
    /\ \A n \in Nodes : kind[n] = "held" => by[n] \in Threads /\ Prelink(by[n])
    /\ \A n \in Nodes : kind[n] = "out" =>
          /\ by[n] \in Threads /\ Retires(by[n]) /\ at[by[n]].head.node = n
          /\ next[n] # MyNull

\* What a thread holds is its own: the node it will link, the first of its chain, or the
\* old dummy that it will free.
HoldOf(t, kind, by, pos) ==
    /\ Prelink(t) => /\ at[t].new \in Nodes /\ kind[at[t].new] = "held"
                     /\ by[at[t].new] = t /\ pos[at[t].new] = 0
    /\ Retires(t) => /\ at[t].head \in Refs /\ kind[at[t].head.node] = "out"
                     /\ by[at[t].head.node] = t
                     /\ at[t].headNext \in Nodes
Holds(kind, by, pos) == \A t \in Threads : HoldOf(t, kind, by, pos)

\* The counters of the pointers are the places of their nodes.
Ends(kind, pos) ==
    /\ kind[head.node] = "list" /\ pos[head.node] = head.count
    /\ kind[tail.node] = "list" /\ pos[tail.node] = tail.count

\* In a chain there is one node a place, and each links to the one at the next place.
Chained(kind, by, pos) ==
    /\ \A m, n \in Nodes :
          Linked(kind, n) /\ Same(kind, by, m, n) =>
              /\ pos[m] = pos[n] => m = n
              /\ pos[n] = pos[m] + 1 => next[m] = n
    /\ \A n \in Nodes :
          Linked(kind, n) /\ next[n] # MyNull =>
              Same(kind, by, n, next[n]) /\ pos[next[n]] = pos[n] + 1

\* A chain has no gap; the list starts at its dummy.
Start(kind, n) == IF kind[n] = "list" THEN head.count ELSE 0
Dense(kind, by, pos) ==
    \A n \in Nodes : Linked(kind, n) =>
        \A i \in Nat : Start(kind, n) <= i /\ i <= pos[n] =>
            \E m \in Nodes : Same(kind, by, m, n) /\ pos[m] = i

\* A thread about to link behind a held node got its own node before that one was got.
AgeOf(t, kind, by, rk) ==
    at[t].pc = "link" /\ kind[at[t].tail.node] = "held" => rk[t] < rk[by[at[t].tail.node]]
Aged(kind, by, rk) == \A t \in Threads : AgeOf(t, kind, by, rk)

\* A copy of the tail whose counter agrees is the tail, and what was read behind it holds.
\* A copy of a node in the pool finds a next pointer there: nothing is linked behind it.
TailOf(t, kind) ==
    /\ HasTail(t) =>
          /\ at[t].tail \in Refs
          /\ kind[at[t].tail.node] = "free" => next[at[t].tail.node] # MyNull
          /\ at[t].tail.count <= tail.count
          /\ at[t].tail.count = tail.count => at[t].tail.node = tail.node
    /\ at[t].pc = "swingTail" =>
          /\ at[t].new \in Nodes
          /\ at[t].tail.count = tail.count => next[tail.node] = at[t].new
    /\ at[t].pc = "helpTail" =>
          /\ at[t].tailNext \in Nodes
          /\ at[t].tail.count = tail.count => next[tail.node] = at[t].tailNext
Tails(kind) == \A t \in Threads : TailOf(t, kind)

\* The same of the head; with the element read before the head is moved.
HeadOf(t) ==
    /\ HasHead(t) =>
          /\ at[t].head \in Refs
          /\ at[t].head.count <= head.count
          /\ at[t].head.count = head.count => at[t].head.node = head.node
    /\ HasNext(t) =>
          /\ at[t].headNext \in Nodes
          /\ at[t].head.count = head.count => next[head.node] = at[t].headNext
    /\ at[t].pc \in {"readData", "swingHead"} =>
          (at[t].head.count = head.count => head.count < tail.count)
    /\ at[t].pc = "swingHead" =>
          (at[t].head.count = head.count => at[t].item = data[at[t].headNext])
Heads == \A t \in Threads : HeadOf(t)

\* The nodes whose element nobody has: all of a chain but the dummy. The elements given
\* out are those taken or about to be counted.
Live(kind, n) == Linked(kind, n) /\ n # head.node
GivenOut == {e \in Elements : \/ taken[e] = 1
                              \/ \E t \in Threads : at[t].pc = "discount" /\ at[t].item = e}

\* An element is in one live node and has not been given out; and is given out once.
Contents(kind) ==
    \A n \in Nodes : Live(kind, n) =>
        /\ data[n] \in Elements \ GivenOut
        /\ \A m \in Nodes : Live(kind, m) /\ data[m] = data[n] => m = n

ItemOf(t) ==
    at[t].pc = "discount" =>
        /\ at[t].item \in Elements /\ taken[at[t].item] = 0
        /\ \A u \in Threads : at[u].pc = "discount" /\ at[u].item = at[t].item => u = t
Items ==
    /\ \A e \in Elements : taken[e] <= 1
    /\ \A t \in Threads : ItemOf(t)

\* The elements stored are those given out or in a live node: none is lost, none appears.
Stored(e) == \/ e \in accepted
             \/ \E t \in Threads : Enqueuing(t) /\ e = <<t, calls[t].enqueue>>
Kept(kind) ==
    \A e \in Elements :
        Stored(e) <=> (e \in GivenOut \/ \E n \in Nodes : Live(kind, n) /\ data[n] = e)

\* The elements of a thread are numbered by its calls.
CallOf(t) ==
    /\ Enqueuing(t) \/ at[t].pc = "alloc" => calls[t].enqueue >= 1
    /\ \A k \in 1..MaxEnqueue : <<t, k>> \in accepted =>
          /\ k <= calls[t].enqueue
          /\ Enqueuing(t) \/ at[t].pc = "alloc" => k < calls[t].enqueue
Called == \A t \in Threads : CallOf(t)

\* The head has moved once for each element given out; size is the length of the list but
\* for the threads that have moved a pointer and not counted yet.
Counts ==
    /\ head.count <= tail.count
    /\ head.count = Cardinality(GivenOut)
    /\ size = tail.count - head.count - Cardinality(ThreadsAt({"countLinked", "countHelped"}))
                     + Cardinality(ThreadsAt({"discount"}))

\* The shape of the queue, for the ghost values.
Shape(kind, by, pos, rk, clock) ==
    /\ Ghosts(kind, by, pos, rk, clock)
    /\ Placed(kind, by, pos) /\ Holds(kind, by, pos) /\ Ends(kind, pos)
    /\ Chained(kind, by, pos) /\ Dense(kind, by, pos) /\ Aged(kind, by, rk)
    /\ Tails(kind) /\ Heads /\ Contents(kind) /\ Items /\ Kept(kind) /\ Called /\ Counts

\* The inductive invariant.
QueueIInv == QueueTypeOK /\ \E kind, by, pos, rk, clock : Shape(kind, by, pos, rk, clock)

-----------------------------------------------------------------------------
(* The constants. *)

\* There is a node for the dummy.
LEMMA ADummy == Nodes # {}
<1>1. Cardinality(Threads) \in Nat /\ MaxEnqueue \in Nat
  BY QueueAssumption, FS_CardinalityType
<1>2. Cardinality(Threads) * MaxEnqueue \in Nat
  BY <1>1
<1>3. Cardinality(Nodes) > Cardinality(Threads) * MaxEnqueue
  BY QueueAssumption
<1>4. Cardinality({}) = 0
  BY FS_EmptySet
<1>5. SUFFICES ASSUME Nodes = {} PROVE FALSE
  OBVIOUS
<1>6. Cardinality(Nodes) = 0
  BY <1>4, <1>5
<1> QED
  BY <1>2, <1>3, <1>6

\* The elements are fewer than the values of a counter.
LEMMA FewElements ==
    /\ IsFiniteSet(Elements)
    /\ Cardinality(Elements) \in Nat
    /\ CounterValues \in Nat
    /\ Cardinality(Elements) < CounterValues
<1>1. MaxEnqueue \in Nat /\ IsFiniteSet(Threads)
  BY QueueAssumption
<1>2. IsFiniteSet(1..MaxEnqueue) /\ Cardinality(1..MaxEnqueue) = MaxEnqueue
  BY <1>1, FS_Interval
<1>3. IsFiniteSet(Elements) /\ Cardinality(Elements) = Cardinality(Threads) * MaxEnqueue
  BY <1>1, <1>2, FS_Product DEF Elements
<1>4. Cardinality(Elements) \in Nat
  BY <1>3, FS_CardinalityType
<1>5. CounterValues \in Nat
  BY DEF CounterValues
<1> QED
  BY <1>3, <1>4, <1>5, CounterAssumption

-----------------------------------------------------------------------------
(* The initial state, and the steps that only look. *)

\* Nobody counts and nobody was given anything.
LEMMA NobodyCounts ==
    ASSUME \A t \in Threads : at[t].pc = "idle", \A e \in Elements : taken[e] = 0
    PROVE  /\ Cardinality(GivenOut) = 0 /\ GivenOut = {}
           /\ Cardinality(ThreadsAt({"countLinked", "countHelped"})) = 0
           /\ Cardinality(ThreadsAt({"discount"})) = 0
<1>1. GivenOut = {}
  BY DEF GivenOut
<1>2. ThreadsAt({"countLinked", "countHelped"}) = {} /\ ThreadsAt({"discount"}) = {}
  BY DEF ThreadsAt
<1> QED
  BY <1>1, <1>2, FS_EmptySet

\* The queue starts with the dummy alone.
LEMMA QueueInit == Init => QueueIInv
<1> SUFFICES ASSUME Init PROVE QueueIInv
  OBVIOUS
<1> DEFINE dummy == CHOOSE n \in Nodes : TRUE
           kind == [n \in Nodes |-> IF n = dummy THEN "list" ELSE "free"]
           by == [n \in Nodes |-> MyNull]
           pos == [n \in Nodes |-> 0]
           rk == [t \in Threads |-> 0]
<1>1. dummy \in Nodes
  BY ADummy
<1>2. /\ next = [n \in Nodes |-> MyNull]
      /\ data = [n \in Nodes |-> NoElement]
      /\ head = [node |-> dummy, count |-> 0]
      /\ tail = [node |-> dummy, count |-> 0]
      /\ size = 0
      /\ free = Nodes \ {dummy}
      /\ at = [t \in Threads |-> Idle]
      /\ calls = [t \in Threads |-> [enqueue |-> 0, dequeue |-> 0]]
      /\ accepted = {}
      /\ taken = [e \in Elements |-> 0]
  BY DEF Init
<1>3. 0 \in 0..(CounterValues - 1) /\ 0 \in 0..MaxEnqueue /\ 0 \in 0..MaxDequeue
  BY FewElements, QueueAssumption
<1>4. \A t \in Threads : at[t] = Idle /\ at[t].pc = "idle"
  BY <1>2 DEF Idle
<1> HIDE DEF dummy
<1>5. QueueTypeOK
  <2>1. head \in Refs /\ tail \in Refs
    BY <1>1, <1>2, <1>3 DEF Refs
  <2>2. at \in [Threads -> Locals]
    <3>1. Idle \in Locals
      BY DEF Idle, Locals, Pcs
    <3> QED
      BY <1>2, <3>1
  <2>3. calls \in [Threads -> [enqueue : 0..MaxEnqueue, dequeue : 0..MaxDequeue]]
    BY <1>2, <1>3
  <2> QED
    BY <1>2, <2>1, <2>2, <2>3 DEF QueueTypeOK
<1>6. Ghosts(kind, by, pos, rk, 1)
  BY DEF Ghosts
<1>7. Placed(kind, by, pos) /\ Ends(kind, pos)
  BY <1>1, <1>2 DEF Placed, Ends
<1>8. Holds(kind, by, pos) /\ Aged(kind, by, rk) /\ Tails(kind) /\ Heads /\ Items
  BY <1>2, <1>4 DEF Holds, HoldOf, Aged, AgeOf, Tails, TailOf, Heads, HeadOf, Items, ItemOf,
     Prelink, Retires, HasTail, HasHead, HasNext
<1>9. Chained(kind, by, pos)
  BY <1>1, <1>2 DEF Chained, Linked, Same
<1>10. Dense(kind, by, pos)
  BY <1>1, <1>2 DEF Dense, Linked, Same, Start
<1>11. \A n \in Nodes : ~Live(kind, n)
  BY <1>1, <1>2 DEF Live, Linked
<1>12. GivenOut = {}
  BY <1>2, <1>4 DEF GivenOut
<1>13. Contents(kind) /\ Kept(kind) /\ Called
  BY <1>2, <1>4, <1>11, <1>12 DEF Contents, Kept, Called, CallOf, Stored, Enqueuing, Prelink
<1>14. Counts
  BY <1>2, <1>4, NobodyCounts DEF Counts
<1>15. Shape(kind, by, pos, rk, 1)
  BY <1>6, <1>7, <1>8, <1>9, <1>10, <1>13, <1>14 DEF Shape
<1> QED
  BY <1>5, <1>15 DEF QueueIInv

\* What a thread at work on a node, on a count or on an element does not touch
\* when it only looks.
Looks(t) ==
    /\ UNCHANGED <<next, data, head, tail, size, free, accepted, taken>>
    /\ \A u \in Threads \ {t} : at'[u] = at[u] /\ calls'[u] = calls[u]
    /\ {at[t].pc, at'[t].pc} \cap
       {"swingTail", "countLinked", "countHelped", "discount", "free"} = {}
    /\ Prelink(t)' <=> Prelink(t)
    /\ Prelink(t) => at'[t].new = at[t].new /\ calls'[t] = calls[t]

\* A step that moves one thread and changes nothing else keeps the invariant if it keeps
\* what the invariant says of that thread.
LEMMA LookingKeeps ==
    ASSUME NEW kind, NEW by, NEW pos, NEW rk, NEW clock, NEW t \in Threads,
           QueueTypeOK, QueueTypeOK', Shape(kind, by, pos, rk, clock), Looks(t),
           AgeOf(t, kind, by, rk)', TailOf(t, kind)', HeadOf(t)', CallOf(t)'
    PROVE  Shape(kind, by, pos, rk, clock)'
<1>1. /\ next' = next /\ data' = data /\ head' = head /\ tail' = tail /\ size' = size
      /\ free' = free /\ accepted' = accepted /\ taken' = taken
      /\ \A u \in Threads \ {t} : at'[u] = at[u] /\ calls'[u] = calls[u]
  BY DEF Looks
<1>2. \A u \in Threads : Prelink(u)' <=> Prelink(u)
  BY <1>1 DEF Prelink, Looks
<1>3. \A u \in Threads : Enqueuing(u)' <=> Enqueuing(u)
  BY <1>1, <1>2 DEF Enqueuing, Looks
<1>4. \A u \in Threads : Retires(u)' <=> Retires(u)
  BY <1>1 DEF Retires, Looks
<1>5. ~Retires(t) /\ at[t].pc # "discount" /\ at'[t].pc # "discount"
  BY DEF Retires, Looks
<1>6. Ghosts(kind, by, pos, rk, clock)'
  BY DEF Shape, Ghosts
<1>7. Placed(kind, by, pos)'
  BY <1>1, <1>2, <1>4, <1>5 DEF Shape, Placed
<1>8. Holds(kind, by, pos)'
  BY <1>1, <1>2, <1>4, <1>5 DEF Shape, Holds, HoldOf, Looks
<1>9. Ends(kind, pos)' /\ Chained(kind, by, pos)' /\ Dense(kind, by, pos)'
  BY <1>1 DEF Shape, Ends, Chained, Dense, Linked, Same, Start
<1>10. Aged(kind, by, rk)'
  BY <1>1 DEF Shape, Aged, AgeOf
<1>11. Tails(kind)'
  BY <1>1 DEF Shape, Tails, TailOf, HasTail
<1>12. Heads'
  BY <1>1 DEF Shape, Heads, HeadOf, HasHead, HasNext
<1>13. GivenOut' = GivenOut
  BY <1>1, <1>5 DEF GivenOut
<1>14. Contents(kind)'
  BY <1>1, <1>13 DEF Shape, Contents, Live, Linked
<1>15. Items'
  BY <1>1, <1>5 DEF Shape, Items, ItemOf
<1>16. \A e \in Elements : Stored(e)' <=> Stored(e)
  BY <1>1, <1>3, <1>2 DEF Stored, Looks, Enqueuing
<1>17. Kept(kind)'
  BY <1>1, <1>13, <1>16 DEF Shape, Kept, Live, Linked
<1>18. Called'
  BY <1>1 DEF Shape, Called, CallOf, Enqueuing, Prelink
<1>19. /\ ThreadsAt({"countLinked", "countHelped"})' = ThreadsAt({"countLinked", "countHelped"})
       /\ ThreadsAt({"discount"})' = ThreadsAt({"discount"})
  BY <1>1 DEF ThreadsAt, Looks
<1>20. Counts'
  BY <1>1, <1>13, <1>19 DEF Shape, Counts
<1> QED
  BY <1>6, <1>7, <1>8, <1>9, <1>10, <1>11, <1>12, <1>14, <1>15, <1>17, <1>18, <1>20 DEF Shape

\* The thread that moves is the only one whose locals change.
LEMMA Moved ==
    ASSUME NEW t \in Threads, NEW r \in Locals, at \in [Threads -> Locals],
           at' = [at EXCEPT ![t] = r]
    PROVE  at' \in [Threads -> Locals] /\ at'[t] = r /\ \A u \in Threads \ {t} : at'[u] = at[u]
OBVIOUS

\* The locals of a thread that resumes.
LEMMA Resumed ==
    ASSUME NEW t \in Threads, QueueTypeOK, Resume(t)
    PROVE  /\ at' \in [Threads -> Locals] /\ \A u \in Threads \ {t} : at'[u] = at[u]
           /\ at'[t].pc = at[t].to /\ at[t].to \in {"idle", "readTail", "readHead"}
           /\ at[t].to = "readTail" => at'[t].new = at[t].new
<1> DEFINE r == IF at[t].to = "readTail" THEN [Idle EXCEPT !.pc = "readTail", !.new = at[t].new]
                                         ELSE [Idle EXCEPT !.pc = at[t].to]
<1>1. at[t] \in Locals
  BY DEF QueueTypeOK
<1>2. at[t].to \in {"idle", "readTail", "readHead"} /\ at[t].new \in Nodes \cup {MyNull}
  BY <1>1 DEF Locals
<1>3. r \in Locals /\ r.pc = at[t].to /\ (at[t].to = "readTail" => r.new = at[t].new)
  <2>1. CASE at[t].to = "readTail"
    BY <1>2, <2>1 DEF Idle, Locals, Pcs
  <2>2. CASE at[t].to # "readTail"
    BY <1>2, <2>2 DEF Idle, Locals, Pcs
  <2> QED
    BY <2>1, <2>2
<1>4. at' = [at EXCEPT ![t] = r]
  BY DEF Resume
<1> HIDE DEF r
<1>5. at' \in [Threads -> Locals] /\ at'[t] = r /\ \A u \in Threads \ {t} : at'[u] = at[u]
  BY <1>3, <1>4, Moved DEF QueueTypeOK
<1> QED
  BY <1>2, <1>3, <1>5

\* The locals of a thread that returns or begins its loop again.
LEMMA Cleared ==
    ASSUME NEW t \in Threads, QueueTypeOK, NEW pc \in Pcs,
           at' = [at EXCEPT ![t] = [Idle EXCEPT !.pc = pc]]
    PROVE  /\ at' \in [Threads -> Locals] /\ \A u \in Threads \ {t} : at'[u] = at[u]
           /\ at'[t].pc = pc
<1>1. [Idle EXCEPT !.pc = pc] \in Locals /\ [Idle EXCEPT !.pc = pc].pc = pc
  BY DEF Idle, Locals
<1> QED
  BY <1>1, Moved DEF QueueTypeOK

\* The locals of a thread that only goes to another place of its call.
LEMMA Went ==
    ASSUME NEW t \in Threads, QueueTypeOK, NEW pc \in Pcs, Goto(t, pc)
    PROVE  /\ at' \in [Threads -> Locals] /\ \A u \in Threads \ {t} : at'[u] = at[u]
           /\ at'[t] = [at[t] EXCEPT !.pc = pc] /\ at[t] \in Locals
           /\ at'[t].pc = pc /\ at'[t].new = at[t].new /\ at'[t].to = at[t].to
           /\ at'[t].head = at[t].head /\ at'[t].tail = at[t].tail
           /\ at'[t].headNext = at[t].headNext /\ at'[t].tailNext = at[t].tailNext
           /\ at'[t].item = at[t].item
<1>1. at[t] \in Locals
  BY DEF QueueTypeOK
<1>2. [at[t] EXCEPT !.pc = pc] \in Locals
  BY <1>1 DEF Locals
<1>3. at' = [at EXCEPT ![t] = [at[t] EXCEPT !.pc = pc]]
  BY DEF Goto, QueueTypeOK
<1>4. /\ at' \in [Threads -> Locals] /\ \A u \in Threads \ {t} : at'[u] = at[u]
      /\ at'[t] = [at[t] EXCEPT !.pc = pc]
  BY <1>2, <1>3, Moved DEF QueueTypeOK
<1> QED
  BY <1>1, <1>4 DEF Locals

\* The types after a step that only looks.
LEMMA LookingTypes ==
    ASSUME NEW t \in Threads, QueueTypeOK, Looks(t), at' \in [Threads -> Locals],
           calls' \in [Threads -> [enqueue : 0..MaxEnqueue, dequeue : 0..MaxDequeue]]
    PROVE  QueueTypeOK'
<1>1. /\ next' = next /\ data' = data /\ head' = head /\ tail' = tail /\ size' = size
      /\ free' = free /\ accepted' = accepted /\ taken' = taken
  BY DEF Looks
<1> QED
  BY <1>1 DEF QueueTypeOK

\* The thread has the tail as it is now.
LEMMA ReadTailKeeps ==
    ASSUME NEW kind, NEW by, NEW pos, NEW rk, NEW clock, NEW t \in Threads,
           QueueTypeOK, Shape(kind, by, pos, rk, clock), ReadTail(t)
    PROVE  QueueTypeOK' /\ Shape(kind, by, pos, rk, clock)'
<1>0. at[t] \in Locals
  BY DEF QueueTypeOK

<1>1. at' \in [Threads -> Locals] /\ \A u \in Threads \ {t} : at'[u] = at[u]
  BY <1>0 DEF ReadTail, QueueTypeOK, Locals, Pcs
<1>2. /\ at[t].pc = "readTail" /\ at'[t].pc = "link" /\ at'[t].tail = tail
      /\ at'[t].new = at[t].new
      /\ UNCHANGED <<list, size, free, calls, accepted, taken>>
  BY <1>0 DEF ReadTail, QueueTypeOK, Locals
<1>3. AgeOf(t, kind, by, rk)'
  BY <1>2 DEF AgeOf, Shape, Ends
<1>4. TailOf(t, kind)'
  BY <1>2 DEF TailOf, HasTail, Shape, Ends, QueueTypeOK, list, Refs
<1>5. HeadOf(t)'
  BY <1>2 DEF HeadOf, HasHead, HasNext
<1>10. Looks(t) /\ calls' \in [Threads -> [enqueue : 0..MaxEnqueue, dequeue : 0..MaxDequeue]]
  BY <1>1, <1>2 DEF Looks, Prelink, QueueTypeOK, list
<1>11. QueueTypeOK'
  BY <1>1, <1>10, LookingTypes
<1>12. CallOf(t)'
  BY <1>1, <1>2 DEF CallOf, Enqueuing, Prelink, Shape, Called, list
<1> QED
  BY <1>3, <1>4, <1>5, <1>10, <1>11, <1>12, LookingKeeps

\* A thread that gives up its help, and has changed nothing.
LEMMA ResumingKeeps ==
    ASSUME NEW kind, NEW by, NEW pos, NEW rk, NEW clock, NEW t \in Threads,
           QueueTypeOK, Shape(kind, by, pos, rk, clock),
           at[t].pc \in {"readTailNext", "helpTail"},
           Resume(t), UNCHANGED <<list, size, free, calls, accepted, taken>>
    PROVE  QueueTypeOK' /\ Shape(kind, by, pos, rk, clock)'
<1>1. /\ at' \in [Threads -> Locals] /\ \A u \in Threads \ {t} : at'[u] = at[u]
      /\ at'[t].pc = at[t].to /\ at[t].to \in {"idle", "readTail", "readHead"}
      /\ at[t].to = "readTail" => at'[t].new = at[t].new
  BY Resumed
<1>2. Looks(t) /\ calls' \in [Threads -> [enqueue : 0..MaxEnqueue, dequeue : 0..MaxDequeue]]
  BY <1>1 DEF Looks, Prelink, QueueTypeOK, list
<1>3. AgeOf(t, kind, by, rk)' /\ TailOf(t, kind)' /\ HeadOf(t)'
  BY <1>1 DEF AgeOf, TailOf, HeadOf, HasTail, HasHead, HasNext
<1>4. CallOf(t)'
  BY <1>1 DEF CallOf, Enqueuing, Prelink, Shape, Called, list
<1> QED
  BY <1>1, <1>2, <1>3, <1>4, LookingTypes, LookingKeeps

\* The thread has what follows the tail it read, or gives up its help.
LEMMA ReadTailNextKeeps ==
    ASSUME NEW kind, NEW by, NEW pos, NEW rk, NEW clock, NEW t \in Threads,
           QueueTypeOK, Shape(kind, by, pos, rk, clock), ReadTailNext(t)
    PROVE  QueueTypeOK' /\ Shape(kind, by, pos, rk, clock)'
<1>0. at[t] \in Locals
  BY DEF QueueTypeOK

<1> DEFINE follows == next[at[t].tail.node] # MyNull
<1>a. HasTail(t) /\ TailOf(t, kind) /\ at[t].pc = "readTailNext"
  BY DEF ReadTailNext, HasTail, Shape, Tails
<1>b. at[t].tail \in Refs /\ at[t].tail.node \in Nodes
  BY <1>a DEF TailOf, Refs
<1>c. next[at[t].tail.node] \in Nodes \cup {MyNull}
  BY <1>b DEF QueueTypeOK
<1>d. CASE follows
  <2>1. at' = [at EXCEPT ![t].pc = "helpTail", ![t].tailNext = next[at[t].tail.node]]
    BY <1>d DEF ReadTailNext
  <2>2. at' \in [Threads -> Locals] /\ \A u \in Threads \ {t} : at'[u] = at[u]
    <3> DEFINE m == next[at[t].tail.node]
               r == [at[t] EXCEPT !.pc = "helpTail", !.tailNext = m]
    <3>1. at' = [at EXCEPT ![t] = r]
      BY <2>1 DEF QueueTypeOK
    <3>2. m \in Nodes \cup {MyNull}
      BY <1>c
    <3> HIDE DEF m
    <3>3. r \in Locals
      BY <1>0, <3>2 DEF Locals, Pcs
    <3> HIDE DEF r
    <3> QED
      BY <3>1, <3>3, Moved DEF QueueTypeOK
  <2>3. /\ at'[t].pc = "helpTail" /\ at'[t].tail = at[t].tail /\ at'[t].to = at[t].to
        /\ at'[t].new = at[t].new /\ at'[t].tailNext = next[at[t].tail.node]
    BY <1>0, <2>1 DEF QueueTypeOK, Locals
  <2>4. UNCHANGED <<list, size, free, calls, accepted, taken>>
    BY DEF ReadTailNext
  <2>5. AgeOf(t, kind, by, rk)' /\ HeadOf(t)'
    BY <2>3 DEF AgeOf, HeadOf, HasHead, HasNext
  <2>6. TailOf(t, kind)'
    BY <1>a, <1>b, <1>c, <1>d, <2>3, <2>4 DEF TailOf, HasTail, list
  <2>7. Looks(t) /\ calls' \in [Threads -> [enqueue : 0..MaxEnqueue, dequeue : 0..MaxDequeue]]
    BY <1>a, <2>2, <2>3, <2>4 DEF Looks, Prelink, QueueTypeOK, list
  <2>8. CallOf(t)'
    BY <1>a, <2>3, <2>4 DEF CallOf, Enqueuing, Prelink, Shape, Called, list
  <2> QED
    BY <2>2, <2>5, <2>6, <2>7, <2>8, LookingTypes, LookingKeeps
<1>e. CASE ~follows
  <2>1. Resume(t) /\ UNCHANGED <<list, size, free, calls, accepted, taken>>
    BY <1>e DEF ReadTailNext
  <2> QED
    BY <1>a, <2>1, ResumingKeeps
<1> QED
  BY <1>d, <1>e

\* A thread that leaves its step with nothing held, nothing read.
LEMMA ClearingKeeps ==
    ASSUME NEW kind, NEW by, NEW pos, NEW rk, NEW clock, NEW t \in Threads,
           QueueTypeOK, Shape(kind, by, pos, rk, clock),
           at[t].pc \in {"checkHead", "readNextAgain", "swingHead", "readTailLast"},
           NEW pc \in {"idle", "readHead"},
           at' = [at EXCEPT ![t] = [Idle EXCEPT !.pc = pc]],
           UNCHANGED <<list, size, free, calls, accepted, taken>>
    PROVE  QueueTypeOK' /\ Shape(kind, by, pos, rk, clock)'
<1>1. /\ at' \in [Threads -> Locals] /\ \A u \in Threads \ {t} : at'[u] = at[u]
      /\ at'[t].pc = pc
  BY Cleared DEF Pcs
<1>2. Looks(t) /\ calls' \in [Threads -> [enqueue : 0..MaxEnqueue, dequeue : 0..MaxDequeue]]
  BY <1>1 DEF Looks, Prelink, QueueTypeOK, list
<1>3. AgeOf(t, kind, by, rk)' /\ TailOf(t, kind)' /\ HeadOf(t)'
  BY <1>1 DEF AgeOf, TailOf, HeadOf, HasTail, HasHead, HasNext
<1>4. CallOf(t)'
  BY <1>1 DEF CallOf, Enqueuing, Prelink, Shape, Called, list
<1> QED
  BY <1>1, <1>2, <1>3, <1>4, LookingTypes, LookingKeeps

\* The thread has the head as it is now.
LEMMA ReadHeadKeeps ==
    ASSUME NEW kind, NEW by, NEW pos, NEW rk, NEW clock, NEW t \in Threads,
           QueueTypeOK, Shape(kind, by, pos, rk, clock), ReadHead(t)
    PROVE  QueueTypeOK' /\ Shape(kind, by, pos, rk, clock)'
<1>0. at[t] \in Locals
  BY DEF QueueTypeOK

<1>1. at' \in [Threads -> Locals] /\ \A u \in Threads \ {t} : at'[u] = at[u]
  BY <1>0 DEF ReadHead, QueueTypeOK, Locals, Pcs
<1>2. /\ at[t].pc = "readHead" /\ at'[t].pc = "readHeadNext" /\ at'[t].head = head
      /\ UNCHANGED <<list, size, free, calls, accepted, taken>>
  BY <1>0 DEF ReadHead, QueueTypeOK, Locals
<1>3. AgeOf(t, kind, by, rk)'
  BY <1>2 DEF AgeOf
<1>4. TailOf(t, kind)'
  BY <1>2 DEF TailOf, HasTail
<1>5. HeadOf(t)'
  BY <1>2 DEF HeadOf, HasHead, HasNext, QueueTypeOK, list, Refs
<1>10. Looks(t) /\ calls' \in [Threads -> [enqueue : 0..MaxEnqueue, dequeue : 0..MaxDequeue]]
  BY <1>1, <1>2 DEF Looks, Prelink, QueueTypeOK, list
<1>11. QueueTypeOK'
  BY <1>1, <1>10, LookingTypes
<1>12. CallOf(t)'
  BY <1>1, <1>2 DEF CallOf, Enqueuing, Prelink, Shape, Called, list
<1> QED
  BY <1>3, <1>4, <1>5, <1>10, <1>11, <1>12, LookingKeeps

\* The thread has what follows the head it read.
LEMMA ReadHeadNextKeeps ==
    ASSUME NEW kind, NEW by, NEW pos, NEW rk, NEW clock, NEW t \in Threads,
           QueueTypeOK, Shape(kind, by, pos, rk, clock), ReadHeadNext(t)
    PROVE  QueueTypeOK' /\ Shape(kind, by, pos, rk, clock)'
<1>0. at[t] \in Locals
  BY DEF QueueTypeOK

<1>a. HasHead(t) /\ HeadOf(t) /\ at[t].pc = "readHeadNext"
  BY DEF ReadHeadNext, HasHead, Shape, Heads
<1>b. at[t].head \in Refs /\ at[t].head.node \in Nodes
  BY <1>a DEF HeadOf, Refs
<1>c. next[at[t].head.node] \in Nodes \cup {MyNull}
  BY <1>b DEF QueueTypeOK
<1>1. at' \in [Threads -> Locals] /\ \A u \in Threads \ {t} : at'[u] = at[u]
  BY <1>0, <1>c DEF ReadHeadNext, QueueTypeOK, Locals, Pcs
<1>2. /\ at[t].pc = "readHeadNext" /\ at'[t].head = at[t].head
      /\ at'[t].pc = IF next[at[t].head.node] = MyNull THEN "checkHead" ELSE "compareTail"
      /\ at'[t].headNext = next[at[t].head.node]
      /\ UNCHANGED <<list, size, free, calls, accepted, taken>>
  BY <1>0 DEF ReadHeadNext, QueueTypeOK, Locals
<1>3. AgeOf(t, kind, by, rk)'
  BY <1>2 DEF AgeOf
<1>4. TailOf(t, kind)'
  BY <1>2 DEF TailOf, HasTail
<1>5. HeadOf(t)'
  BY <1>a, <1>b, <1>c, <1>2 DEF HeadOf, HasHead, HasNext, list
<1>10. Looks(t) /\ calls' \in [Threads -> [enqueue : 0..MaxEnqueue, dequeue : 0..MaxDequeue]]
  BY <1>1, <1>2 DEF Looks, Prelink, QueueTypeOK, list
<1>11. QueueTypeOK'
  BY <1>1, <1>10, LookingTypes
<1>12. CallOf(t)'
  BY <1>1, <1>2 DEF CallOf, Enqueuing, Prelink, Shape, Called, list
<1> QED
  BY <1>3, <1>4, <1>5, <1>10, <1>11, <1>12, LookingKeeps

\* A head that has not moved and a tail elsewhere: the tail is ahead.
LEMMA CompareTailKeeps ==
    ASSUME NEW kind, NEW by, NEW pos, NEW rk, NEW clock, NEW t \in Threads,
           QueueTypeOK, Shape(kind, by, pos, rk, clock), CompareTail(t)
    PROVE  QueueTypeOK' /\ Shape(kind, by, pos, rk, clock)'
<1> DEFINE pc == IF tail.node = at[t].head.node THEN "readNextAgain" ELSE "readData"
<1>a. HasHead(t) /\ HasNext(t) /\ HeadOf(t) /\ at[t].pc = "compareTail"
  BY DEF CompareTail, HasHead, HasNext, Shape, Heads
<1>b. pc \in Pcs /\ Goto(t, pc)
  BY DEF CompareTail, Pcs
<1>1. /\ at' \in [Threads -> Locals] /\ \A u \in Threads \ {t} : at'[u] = at[u]
      /\ at'[t].pc = pc /\ at'[t].head = at[t].head /\ at'[t].headNext = at[t].headNext
  BY <1>b, Went
<1>2. /\ at[t].pc = "compareTail"
      /\ at'[t].pc = IF tail.node = at[t].head.node THEN "readNextAgain" ELSE "readData"
      /\ UNCHANGED <<list, size, free, calls, accepted, taken>>
  BY <1>1 DEF CompareTail
<1>3. AgeOf(t, kind, by, rk)'
  BY <1>2 DEF AgeOf
<1>4. TailOf(t, kind)'
  BY <1>2 DEF TailOf, HasTail
<1>c. head.count <= tail.count /\ (head.count = tail.count => head.node = tail.node)
  <2>1. head.node \in Nodes /\ tail.node \in Nodes /\ head.count \in Nat /\ tail.count \in Nat
    BY FewElements DEF QueueTypeOK, Refs
  <2>2. Linked(kind, head.node) /\ Linked(kind, tail.node) /\ Same(kind, by, head.node, tail.node)
    BY <2>1 DEF Shape, Ends, Placed, Linked, Same
  <2>3. pos[head.node] = head.count /\ pos[tail.node] = tail.count
    BY DEF Shape, Ends
  <2> QED
    BY <2>1, <2>2, <2>3 DEF Shape, Chained, Counts
<1>d. head.count \in Nat /\ tail.count \in Nat
  BY FewElements DEF QueueTypeOK, Refs
<1>5. HeadOf(t)'
  BY <1>a, <1>c, <1>d, <1>1, <1>2 DEF HeadOf, HasHead, HasNext, list
<1>10. Looks(t) /\ calls' \in [Threads -> [enqueue : 0..MaxEnqueue, dequeue : 0..MaxDequeue]]
  BY <1>1, <1>2 DEF Looks, Prelink, QueueTypeOK, list
<1>11. QueueTypeOK'
  BY <1>1, <1>10, LookingTypes
<1>12. CallOf(t)'
  BY <1>1, <1>2 DEF CallOf, Enqueuing, Prelink, Shape, Called, list
<1> QED
  BY <1>3, <1>4, <1>5, <1>10, <1>11, <1>12, LookingKeeps

\* A dequeuer turns to the tail.
LEMMA ReadLaggingTailKeeps ==
    ASSUME NEW kind, NEW by, NEW pos, NEW rk, NEW clock, NEW t \in Threads,
           QueueTypeOK, Shape(kind, by, pos, rk, clock), ReadLaggingTail(t)
    PROVE  QueueTypeOK' /\ Shape(kind, by, pos, rk, clock)'
<1>0. at[t] \in Locals
  BY DEF QueueTypeOK

<1> DEFINE r == [Idle EXCEPT !.pc = "readTailNext", !.tail = tail, !.to = "readHead"]
<1>a. r \in Locals /\ r.pc = "readTailNext" /\ r.tail = tail /\ r.to = "readHead"
  BY DEF Idle, Locals, Pcs, QueueTypeOK
<1>b. at' = [at EXCEPT ![t] = r]
  BY DEF ReadLaggingTail
<1> HIDE DEF r
<1>1. at' \in [Threads -> Locals] /\ at'[t] = r /\ \A u \in Threads \ {t} : at'[u] = at[u]
  BY <1>a, <1>b, Moved DEF QueueTypeOK
<1>2. /\ at[t].pc = "readLaggingTail" /\ at'[t].pc = "readTailNext" /\ at'[t].tail = tail
      /\ at'[t].to = "readHead"
      /\ UNCHANGED <<list, size, free, calls, accepted, taken>>
  BY <1>a, <1>1 DEF ReadLaggingTail
<1>3. AgeOf(t, kind, by, rk)'
  BY <1>2 DEF AgeOf
<1>4. TailOf(t, kind)'
  BY <1>2 DEF TailOf, HasTail, Shape, Ends, QueueTypeOK, list, Refs
<1>5. HeadOf(t)'
  BY <1>2 DEF HeadOf, HasHead, HasNext
<1>10. Looks(t) /\ calls' \in [Threads -> [enqueue : 0..MaxEnqueue, dequeue : 0..MaxDequeue]]
  BY <1>1, <1>2 DEF Looks, Prelink, QueueTypeOK, list
<1>11. QueueTypeOK'
  BY <1>1, <1>10, LookingTypes
<1>12. CallOf(t)'
  BY <1>1, <1>2 DEF CallOf, Enqueuing, Prelink, Shape, Called, list
<1> QED
  BY <1>3, <1>4, <1>5, <1>10, <1>11, <1>12, LookingKeeps

\* The element it has is the one behind a head that has not moved.
LEMMA ReadDataKeeps ==
    ASSUME NEW kind, NEW by, NEW pos, NEW rk, NEW clock, NEW t \in Threads,
           QueueTypeOK, Shape(kind, by, pos, rk, clock), ReadData(t)
    PROVE  QueueTypeOK' /\ Shape(kind, by, pos, rk, clock)'
<1>0. at[t] \in Locals
  BY DEF QueueTypeOK

<1>a. HasHead(t) /\ HasNext(t) /\ HeadOf(t) /\ at[t].pc = "readData"
  BY DEF ReadData, HasHead, HasNext, Shape, Heads
<1>b. at[t].headNext \in Nodes
  BY <1>a DEF HeadOf
<1>c. data[at[t].headNext] \in Elements \cup {NoElement}
  BY <1>b DEF QueueTypeOK
<1>1. at' \in [Threads -> Locals] /\ \A u \in Threads \ {t} : at'[u] = at[u]
  BY <1>0, <1>c DEF ReadData, QueueTypeOK, Locals, Pcs
<1>2. /\ at[t].pc = "readData" /\ at'[t].pc = "swingHead" /\ at'[t].head = at[t].head
      /\ at'[t].headNext = at[t].headNext /\ at'[t].item = data[at[t].headNext]
      /\ UNCHANGED <<list, size, free, calls, accepted, taken>>
  BY <1>0 DEF ReadData, QueueTypeOK, Locals
<1>3. AgeOf(t, kind, by, rk)'
  BY <1>2 DEF AgeOf
<1>4. TailOf(t, kind)'
  BY <1>2 DEF TailOf, HasTail
<1>5. HeadOf(t)'
  BY <1>a, <1>b, <1>2 DEF HeadOf, HasHead, HasNext, list
<1>10. Looks(t) /\ calls' \in [Threads -> [enqueue : 0..MaxEnqueue, dequeue : 0..MaxDequeue]]
  BY <1>1, <1>2 DEF Looks, Prelink, QueueTypeOK, list
<1>11. QueueTypeOK'
  BY <1>1, <1>10, LookingTypes
<1>12. CallOf(t)'
  BY <1>1, <1>2 DEF CallOf, Enqueuing, Prelink, Shape, Called, list
<1> QED
  BY <1>3, <1>4, <1>5, <1>10, <1>11, <1>12, LookingKeeps

\* The end of the list is the answer if the head has not moved.
LEMMA CheckHeadKeeps ==
    ASSUME NEW kind, NEW by, NEW pos, NEW rk, NEW clock, NEW t \in Threads,
           QueueTypeOK, Shape(kind, by, pos, rk, clock), CheckHead(t)
    PROVE  QueueTypeOK' /\ Shape(kind, by, pos, rk, clock)'
<1> DEFINE pc == IF head = at[t].head THEN "idle" ELSE "readHead"
<1>1. Idle = [Idle EXCEPT !.pc = "idle"]
  BY DEF Idle
<1>2. at' = [at EXCEPT ![t] = [Idle EXCEPT !.pc = pc]]
  BY <1>1 DEF CheckHead
<1>3. pc \in {"idle", "readHead"}
  OBVIOUS
<1> HIDE DEF pc
<1> QED
  BY <1>2, <1>3, ClearingKeeps DEF CheckHead

\* The second reading of the next pointer.
LEMMA ReadNextAgainKeeps ==
    ASSUME NEW kind, NEW by, NEW pos, NEW rk, NEW clock, NEW t \in Threads,
           QueueTypeOK, Shape(kind, by, pos, rk, clock), ReadNextAgain(t)
    PROVE  QueueTypeOK' /\ Shape(kind, by, pos, rk, clock)'
<1>0. at[t].pc = "readNextAgain" /\ UNCHANGED <<list, size, free, calls, accepted, taken>>
  BY DEF ReadNextAgain
<1>1. CASE Return(t)
  <2>1. Idle = [Idle EXCEPT !.pc = "idle"]
    BY DEF Idle
  <2>2. at' = [at EXCEPT ![t] = [Idle EXCEPT !.pc = "idle"]]
    BY <1>1, <2>1 DEF Return
  <2> QED
    BY <1>0, <2>2, ClearingKeeps
<1>2. CASE Goto(t, "readLaggingTail")
  <2>1. /\ at' \in [Threads -> Locals] /\ \A u \in Threads \ {t} : at'[u] = at[u]
        /\ at'[t].pc = "readLaggingTail"
    BY <1>2, Went DEF Pcs
  <2>2. Looks(t) /\ calls' \in [Threads -> [enqueue : 0..MaxEnqueue, dequeue : 0..MaxDequeue]]
    BY <1>0, <2>1 DEF Looks, Prelink, QueueTypeOK, list
  <2>3. AgeOf(t, kind, by, rk)' /\ TailOf(t, kind)' /\ HeadOf(t)'
    BY <2>1 DEF AgeOf, TailOf, HeadOf, HasTail, HasHead, HasNext
  <2>4. CallOf(t)'
    BY <1>0, <2>1 DEF CallOf, Enqueuing, Prelink, Shape, Called, list
  <2> QED
    BY <2>1, <2>2, <2>3, <2>4, LookingTypes, LookingKeeps
<1> QED
  BY <1>1, <1>2 DEF ReadNextAgain

\* The last look at the tail of a dequeuer.
LEMMA ReadTailLastKeeps ==
    ASSUME NEW kind, NEW by, NEW pos, NEW rk, NEW clock, NEW t \in Threads,
           QueueTypeOK, Shape(kind, by, pos, rk, clock), ReadTailLast(t)
    PROVE  QueueTypeOK' /\ Shape(kind, by, pos, rk, clock)'
<1>0. at[t].pc = "readTailLast" /\ UNCHANGED <<list, size, free, calls, accepted, taken>>
  BY DEF ReadTailLast
<1> DEFINE r == [Idle EXCEPT !.pc = "readTailNext", !.tail = tail, !.to = "idle"]
<1>1. CASE at' = [at EXCEPT ![t] = Idle]
  <2>1. Idle = [Idle EXCEPT !.pc = "idle"]
    BY DEF Idle
  <2>2. at' = [at EXCEPT ![t] = [Idle EXCEPT !.pc = "idle"]]
    BY <1>1, <2>1
  <2> QED
    BY <1>0, <2>2, ClearingKeeps
<1>2. CASE at' = [at EXCEPT ![t] = r]
  <2>1. r \in Locals /\ r.pc = "readTailNext" /\ r.tail = tail /\ r.to = "idle"
    BY DEF Idle, Locals, Pcs, QueueTypeOK
  <2> HIDE DEF r
  <2>2. at' \in [Threads -> Locals] /\ at'[t] = r /\ \A u \in Threads \ {t} : at'[u] = at[u]
    BY <1>2, <2>1, Moved DEF QueueTypeOK
  <2>3. Looks(t) /\ calls' \in [Threads -> [enqueue : 0..MaxEnqueue, dequeue : 0..MaxDequeue]]
    BY <1>0, <2>1, <2>2 DEF Looks, Prelink, QueueTypeOK, list
  <2>4. AgeOf(t, kind, by, rk)' /\ HeadOf(t)'
    BY <2>1, <2>2 DEF AgeOf, HeadOf, HasHead, HasNext
  <2>5. TailOf(t, kind)'
    BY <1>0, <2>1, <2>2 DEF TailOf, HasTail, Shape, Ends, QueueTypeOK, list, Refs
  <2>6. CallOf(t)'
    BY <1>0, <2>1, <2>2 DEF CallOf, Enqueuing, Prelink, Shape, Called, list
  <2> QED
    BY <2>2, <2>3, <2>4, <2>5, <2>6, LookingTypes, LookingKeeps
<1> QED
  BY <1>1, <1>2 DEF ReadTailLast

\* A dequeue that begins.
LEMMA DequeueKeeps ==
    ASSUME NEW kind, NEW by, NEW pos, NEW rk, NEW clock, NEW t \in Threads,
           QueueTypeOK, Shape(kind, by, pos, rk, clock), Dequeue(t)
    PROVE  QueueTypeOK' /\ Shape(kind, by, pos, rk, clock)'
<1>0. /\ at[t].pc = "idle" /\ Goto(t, "readHead") /\ calls[t].dequeue < MaxDequeue
      /\ UNCHANGED <<list, size, free, accepted, taken>>
      /\ calls' = [calls EXCEPT ![t].dequeue = @ + 1]
  BY DEF Dequeue
<1>1. /\ at' \in [Threads -> Locals] /\ \A u \in Threads \ {t} : at'[u] = at[u]
      /\ at'[t].pc = "readHead"
  BY <1>0, Went DEF Pcs
<1>2. MaxDequeue \in Nat /\ MaxEnqueue \in Nat
  BY QueueAssumption
<1>3. /\ calls' \in [Threads -> [enqueue : 0..MaxEnqueue, dequeue : 0..MaxDequeue]]
      /\ \A u \in Threads \ {t} : calls'[u] = calls[u]
      /\ calls'[t].enqueue = calls[t].enqueue
  BY <1>0, <1>2 DEF QueueTypeOK
<1>4. Looks(t)
  BY <1>0, <1>1, <1>3 DEF Looks, Prelink, list
<1>5. AgeOf(t, kind, by, rk)' /\ TailOf(t, kind)' /\ HeadOf(t)'
  BY <1>1 DEF AgeOf, TailOf, HeadOf, HasTail, HasHead, HasNext
<1>6. CallOf(t)'
  BY <1>0, <1>1, <1>3 DEF CallOf, Enqueuing, Prelink, Shape, Called, list
<1> QED
  BY <1>1, <1>3, <1>4, <1>5, <1>6, LookingTypes, LookingKeeps

\* An enqueue that begins, or is refused at once.
LEMMA BeginEnqueueKeeps ==
    ASSUME NEW kind, NEW by, NEW pos, NEW rk, NEW clock, NEW t \in Threads,
           QueueTypeOK, Shape(kind, by, pos, rk, clock),
           NEW pc \in {"idle", "alloc"}, BeginEnqueue(t, pc)
    PROVE  QueueTypeOK' /\ Shape(kind, by, pos, rk, clock)'
<1>0. /\ at[t].pc = "idle" /\ Goto(t, pc) /\ calls[t].enqueue < MaxEnqueue
      /\ UNCHANGED <<list, size, free, accepted, taken>>
      /\ calls' = [calls EXCEPT ![t].enqueue = @ + 1]
  BY DEF BeginEnqueue
<1>1. /\ at' \in [Threads -> Locals] /\ \A u \in Threads \ {t} : at'[u] = at[u]
      /\ at'[t].pc = pc
  BY <1>0, Went DEF Pcs
<1>2. MaxDequeue \in Nat /\ MaxEnqueue \in Nat
  BY QueueAssumption
<1>3. /\ calls' \in [Threads -> [enqueue : 0..MaxEnqueue, dequeue : 0..MaxDequeue]]
      /\ \A u \in Threads \ {t} : calls'[u] = calls[u]
      /\ calls'[t].enqueue = calls[t].enqueue + 1 /\ calls[t].enqueue \in Nat
  BY <1>0, <1>2 DEF QueueTypeOK
<1>4. Looks(t)
  BY <1>0, <1>1, <1>3 DEF Looks, Prelink, list
<1>5. AgeOf(t, kind, by, rk)' /\ TailOf(t, kind)' /\ HeadOf(t)'
  BY <1>1 DEF AgeOf, TailOf, HeadOf, HasTail, HasHead, HasNext
<1>6. CallOf(t)'
  <2>1. \A k \in 1..MaxEnqueue : <<t, k>> \in accepted => k <= calls[t].enqueue
    BY DEF Shape, Called, CallOf
  <2> QED
    BY <1>0, <1>1, <1>2, <1>3, <2>1 DEF CallOf, Enqueuing, Prelink
<1> QED
  BY <1>1, <1>3, <1>4, <1>5, <1>6, LookingTypes, LookingKeeps

-----------------------------------------------------------------------------
(* Positions, and the steps that move the tail. *)

\* Each place of the list behind the dummy holds an element of its own that was
\* not given out: a position is at most the number of the elements.
LEMMA PositionsBounded ==
    ASSUME NEW kind, NEW by, NEW pos, NEW rk, NEW clock,
           QueueTypeOK, Shape(kind, by, pos, rk, clock), NEW n \in Nodes, kind[n] = "list"
    PROVE  pos[n] <= Cardinality(Elements) /\ pos[n] < CounterValues
<1> DEFINE S == (head.count + 1)..pos[n]
           node == [i \in S |-> CHOOSE m \in Nodes : kind[m] = "list" /\ pos[m] = i]
           f == [i \in S |-> data[node[i]]]
           Rest == Elements \ GivenOut
<1>1. head.count \in Nat /\ pos[n] \in Nat /\ pos[n] >= head.count
  BY FewElements DEF QueueTypeOK, Refs, Shape, Ghosts, Placed
<1>2. \A i \in S : /\ node[i] \in Nodes /\ kind[node[i]] = "list" /\ pos[node[i]] = i
  <2> TAKE i \in S
  <2>1. i \in Nat /\ head.count <= i /\ i <= pos[n]
    BY <1>1
  <2>2. PICK m \in Nodes : Same(kind, by, m, n) /\ pos[m] = i
    BY <2>1 DEF Shape, Dense, Start, Linked
  <2>3. kind[m] = "list"
    BY <2>2 DEF Same
  <2> QED
    BY <2>2, <2>3
<1> HIDE DEF node
<1>3. \A i \in S : Live(kind, node[i])
  <2> TAKE i \in S
  <2>1. i # head.count
    BY <1>1
  <2>2. pos[head.node] = head.count
    BY DEF Shape, Ends
  <2> QED
    BY <1>2, <2>1, <2>2 DEF Live, Linked
<1>4. \A i \in S : data[node[i]] \in Rest
  BY <1>2, <1>3 DEF Shape, Contents
<1>5. \A i, j \in S : data[node[i]] = data[node[j]] => i = j
  <2> TAKE i, j \in S
  <2> HAVE data[node[i]] = data[node[j]]
  <2>1. node[i] = node[j]
    BY <1>2, <1>3 DEF Shape, Contents
  <2> QED
    BY <1>2, <2>1
<1> HIDE DEF S, Rest
<1>6. f \in Injection(S, Rest)
  BY <1>4, <1>5 DEF Injection, IsInjective
<1>7. IsFiniteSet(Elements) /\ GivenOut \subseteq Elements /\ Elements \cap GivenOut = GivenOut
  BY FewElements DEF GivenOut
<1>8. IsFiniteSet(Rest) /\ Cardinality(Rest) = Cardinality(Elements) - Cardinality(GivenOut)
  BY <1>7, FS_Difference DEF Rest
<1>9. Cardinality(S) <= Cardinality(Rest)
  BY <1>6, <1>8, FS_Injection
<1>10. Cardinality(S) = pos[n] - head.count
  <2>1. head.count + 1 \in Int /\ pos[n] \in Int
    BY <1>1
  <2>2. Cardinality(S) = IF head.count + 1 > pos[n] THEN 0 ELSE pos[n] - (head.count + 1) + 1
    BY <2>1, FS_Interval DEF S
  <2> QED
    BY <1>1, <2>2
<1>11. Cardinality(GivenOut) = head.count
  BY DEF Shape, Counts
<1> QED
  BY <1>1, <1>8, <1>9, <1>10, <1>11, FewElements

\* The sets of threads at the counts stay finite.
LEMMA ThreadsAtFinite ==
    ASSUME NEW pcs PROVE IsFiniteSet(ThreadsAt(pcs)) /\ Cardinality(ThreadsAt(pcs)) \in Nat
<1>1. ThreadsAt(pcs) \subseteq Threads /\ IsFiniteSet(Threads)
  BY QueueAssumption DEF ThreadsAt
<1> QED
  BY <1>1, FS_Subset, FS_CardinalityType

\* A thread comes to one of the places.
LEMMA ThreadComes ==
    ASSUME NEW pcs, NEW t \in Threads, at[t].pc \notin pcs, at'[t].pc \in pcs,
           \A u \in Threads \ {t} : at'[u] = at[u]
    PROVE  Cardinality(ThreadsAt(pcs))' = Cardinality(ThreadsAt(pcs)) + 1
<1>1. ThreadsAt(pcs)' = ThreadsAt(pcs) \cup {t} /\ t \notin ThreadsAt(pcs)
  BY DEF ThreadsAt
<1> QED
  BY <1>1, ThreadsAtFinite, FS_AddElement

\* A thread leaves them.
LEMMA ThreadLeaves ==
    ASSUME NEW pcs, NEW t \in Threads, at[t].pc \in pcs, at'[t].pc \notin pcs,
           \A u \in Threads \ {t} : at'[u] = at[u]
    PROVE  Cardinality(ThreadsAt(pcs))' = Cardinality(ThreadsAt(pcs)) - 1
<1>1. ThreadsAt(pcs)' = ThreadsAt(pcs) \ {t} /\ t \in ThreadsAt(pcs)
  BY DEF ThreadsAt
<1> QED
  BY <1>1, ThreadsAtFinite, FS_RemoveElement

\* A thread goes on outside of them, or inside.
LEMMA ThreadPasses ==
    ASSUME NEW pcs, NEW t \in Threads, at[t].pc \in pcs <=> at'[t].pc \in pcs,
           \A u \in Threads \ {t} : at'[u] = at[u]
    PROVE  Cardinality(ThreadsAt(pcs))' = Cardinality(ThreadsAt(pcs))
<1>1. ThreadsAt(pcs)' = ThreadsAt(pcs)
  BY DEF ThreadsAt
<1> QED
  BY <1>1

\* The next address of a tail pointer.
LEMMA NextPointer ==
    ASSUME NEW n \in Nodes, NEW old \in Refs, old.count + 1 < CounterValues
    PROVE  /\ Pointer(n, old) \in Refs
           /\ Pointer(n, old).node = n /\ Pointer(n, old).count = old.count + 1
<1>1. old.count \in Nat /\ CounterValues \in Nat
  BY FewElements DEF Refs
<1>2. (old.count + 1) % CounterValues = old.count + 1
  BY <1>1
<1> QED
  BY <1>1, <1>2 DEF Pointer, Refs

\* The tail goes to the node behind it; the thread that moved it is to count it.
LEMMA TailMoves ==
    ASSUME NEW kind, NEW by, NEW pos, NEW rk, NEW clock, NEW t \in Threads, NEW n \in Nodes,
           QueueTypeOK, Shape(kind, by, pos, rk, clock),
           next[tail.node] = n, tail' = Pointer(n, tail),
           \/ at[t].pc = "swingTail" /\ Goto(t, "countLinked")
           \/ at[t].pc = "helpTail" /\ Goto(t, "countHelped"),
           UNCHANGED <<next, data, head, size, free, calls, accepted, taken>>
    PROVE  QueueTypeOK' /\ Shape(kind, by, pos, rk, clock)'
<1>1. /\ next' = next /\ data' = data /\ head' = head /\ size' = size /\ free' = free
      /\ calls' = calls /\ accepted' = accepted /\ taken' = taken
  OBVIOUS
<1>2. /\ at' \in [Threads -> Locals] /\ \A u \in Threads \ {t} : at'[u] = at[u]
      /\ at'[t].new = at[t].new /\ at'[t].to = at[t].to
      /\ \/ at[t].pc = "swingTail" /\ at'[t].pc = "countLinked"
         \/ at[t].pc = "helpTail" /\ at'[t].pc = "countHelped"
  BY Went DEF Pcs
<1>3. tail.node \in Nodes /\ tail.count \in Nat /\ head.node \in Nodes /\ head.count \in Nat
  BY FewElements DEF QueueTypeOK, Refs
<1>4. kind[n] = "list" /\ pos[n] = tail.count + 1
  <2>1. n # MyNull
    BY QueueAssumption
  <2>2. kind[tail.node] = "list" /\ pos[tail.node] = tail.count
    BY DEF Shape, Ends
  <2> QED
    BY <1>3, <2>1, <2>2 DEF Shape, Chained, Linked, Same
<1>5. tail' \in Refs /\ tail'.node = n /\ tail'.count = tail.count + 1
  <2>1. tail.count + 1 < CounterValues
    BY <1>4, PositionsBounded
  <2> QED
    BY <2>1, NextPointer DEF QueueTypeOK
<1>6. QueueTypeOK'
  BY <1>1, <1>2, <1>5 DEF QueueTypeOK
<1>7. \A u \in Threads : /\ Prelink(u)' <=> Prelink(u)
                         /\ Enqueuing(u)' <=> Enqueuing(u)
                         /\ Retires(u)' <=> Retires(u)
  BY <1>2 DEF Prelink, Enqueuing, Retires
<1>8. ~Retires(t) /\ at[t].pc # "discount" /\ at'[t].pc # "discount"
  BY <1>2 DEF Retires
<1>9. Ghosts(kind, by, pos, rk, clock)' /\ Placed(kind, by, pos)' /\ Holds(kind, by, pos)'
  <2>1. Placed(kind, by, pos)'
    BY <1>1, <1>2, <1>7, <1>8 DEF Shape, Placed
  <2>2. Holds(kind, by, pos)'
    BY <1>1, <1>2, <1>7, <1>8 DEF Shape, Holds, HoldOf
  <2> QED
    BY <2>1, <2>2 DEF Shape, Ghosts
<1>10. Ends(kind, pos)'
  BY <1>1, <1>4, <1>5 DEF Shape, Ends
<1>11. Chained(kind, by, pos)' /\ Dense(kind, by, pos)'
  BY <1>1 DEF Shape, Chained, Dense, Linked, Same, Start
<1>12. Aged(kind, by, rk)'
  BY <1>2 DEF Shape, Aged, AgeOf
<1>13. Tails(kind)'
  <2> SUFFICES ASSUME NEW u \in Threads PROVE TailOf(u, kind)'
    BY DEF Tails
  <2>1. CASE u = t
    BY <1>2, <2>1 DEF TailOf, HasTail
  <2>2. CASE u # t
    <3>1. TailOf(u, kind) /\ at'[u] = at[u]
      BY <1>2, <2>2 DEF Shape, Tails
    <3>2. HasTail(u) => /\ at[u].tail.count \in Nat /\ at[u].tail.count <= tail.count + 1
                        /\ at[u].tail.count # tail.count + 1
      <4> HAVE HasTail(u)
      <4>1. at[u].tail \in Refs /\ at[u].tail.count <= tail.count
        BY <3>1 DEF TailOf
      <4>2. at[u].tail.count \in Nat
        BY <4>1, FewElements DEF Refs
      <4> QED
        BY <1>3, <4>1, <4>2
    <3>3. at[u].pc \in {"swingTail", "helpTail"} => HasTail(u)
      BY DEF HasTail
    <3> QED
      BY <1>1, <1>5, <3>1, <3>2, <3>3 DEF TailOf, HasTail
  <2> QED
    BY <2>1, <2>2
<1>14. Heads'
  <2> SUFFICES ASSUME NEW u \in Threads PROVE HeadOf(u)'
    BY DEF Heads
  <2>1. CASE u = t
    BY <1>2, <2>1 DEF HeadOf, HasHead, HasNext
  <2>2. CASE u # t
    <3>1. HeadOf(u) /\ at'[u] = at[u]
      BY <1>2, <2>2 DEF Shape, Heads
    <3>2. head.count < tail.count => head.count < tail.count + 1
      BY <1>3
    <3> QED
      BY <1>1, <1>5, <3>1, <3>2 DEF HeadOf, HasHead, HasNext
  <2> QED
    BY <2>1, <2>2
<1>15. GivenOut' = GivenOut
  BY <1>1, <1>2, <1>8 DEF GivenOut
<1>16. Contents(kind)'
  BY <1>1, <1>15 DEF Shape, Contents, Live, Linked
<1>17. Items'
  BY <1>1, <1>2, <1>8 DEF Shape, Items, ItemOf
<1>18. \A e \in Elements : Stored(e)' <=> Stored(e)
  BY <1>1, <1>7 DEF Stored
<1>19. Kept(kind)'
  BY <1>1, <1>15, <1>18 DEF Shape, Kept, Live, Linked
<1>20. Called'
  BY <1>1, <1>2, <1>7 DEF Shape, Called, CallOf
<1>21. Counts'
  <2>1. Cardinality(ThreadsAt({"countLinked", "countHelped"}))'
          = Cardinality(ThreadsAt({"countLinked", "countHelped"})) + 1
    BY <1>2, ThreadComes
  <2>2. Cardinality(ThreadsAt({"discount"}))' = Cardinality(ThreadsAt({"discount"}))
    BY <1>2, ThreadPasses
  <2>3. /\ Cardinality(ThreadsAt({"countLinked", "countHelped"})) \in Nat
        /\ Cardinality(ThreadsAt({"discount"})) \in Nat
    BY ThreadsAtFinite
  <2> QED
    BY <1>1, <1>3, <1>5, <1>15, <2>1, <2>2, <2>3 DEF Shape, Counts
<1> QED
  BY <1>6, <1>9, <1>10, <1>11, <1>12, <1>13, <1>14, <1>16, <1>17, <1>19, <1>20, <1>21 DEF Shape

\* The size is counted, or the call returns: the list is as it was.
LEMMA CountingKeeps ==
    ASSUME NEW kind, NEW by, NEW pos, NEW rk, NEW clock, NEW t \in Threads,
           QueueTypeOK, Shape(kind, by, pos, rk, clock),
           UNCHANGED <<list, free, calls, taken>>, size' \in Int, accepted' \subseteq Elements,
           at' \in [Threads -> Locals], \A u \in Threads \ {t} : at'[u] = at[u],
           at[t].pc \in {"swingTail", "countLinked", "countHelped"},
           at'[t].pc \in {"idle", "readTail", "readHead"},
           Prelink(t)' <=> Prelink(t), Prelink(t) => at'[t].new = at[t].new,
           \A e \in Elements : Stored(e)' <=> Stored(e), Called', Counts'
    PROVE  QueueTypeOK' /\ Shape(kind, by, pos, rk, clock)'
<1>1. /\ next' = next /\ data' = data /\ head' = head /\ tail' = tail /\ free' = free
      /\ calls' = calls /\ taken' = taken
  BY DEF list
<1>2. QueueTypeOK'
  BY <1>1 DEF QueueTypeOK
<1>3. \A u \in Threads : Prelink(u)' <=> Prelink(u)
  BY DEF Prelink
<1>4. \A u \in Threads : Retires(u)' <=> Retires(u)
  BY DEF Retires
<1>5. ~Retires(t) /\ at[t].pc # "discount" /\ at'[t].pc # "discount"
  BY DEF Retires
<1>6. Ghosts(kind, by, pos, rk, clock)'
  BY DEF Shape, Ghosts
<1>7. Placed(kind, by, pos)'
  BY <1>1, <1>3, <1>4, <1>5 DEF Shape, Placed
<1>8. Holds(kind, by, pos)'
  BY <1>1, <1>3, <1>4, <1>5 DEF Shape, Holds, HoldOf
<1>9. Ends(kind, pos)' /\ Chained(kind, by, pos)' /\ Dense(kind, by, pos)'
  BY <1>1 DEF Shape, Ends, Chained, Dense, Linked, Same, Start
<1>10. Aged(kind, by, rk)'
  BY <1>1 DEF Shape, Aged, AgeOf
<1>11. Tails(kind)'
  BY <1>1 DEF Shape, Tails, TailOf, HasTail
<1>12. Heads'
  BY <1>1 DEF Shape, Heads, HeadOf, HasHead, HasNext
<1>13. GivenOut' = GivenOut
  BY <1>1, <1>5 DEF GivenOut
<1>14. Contents(kind)'
  BY <1>1, <1>13 DEF Shape, Contents, Live, Linked
<1>15. Items'
  BY <1>1, <1>5 DEF Shape, Items, ItemOf
<1>16. Kept(kind)'
  BY <1>1, <1>13 DEF Shape, Kept, Live, Linked
<1> QED
  BY <1>2, <1>6, <1>7, <1>8, <1>9, <1>10, <1>11, <1>12, <1>14, <1>15, <1>16 DEF Shape

\* An enqueue that returns has stored its element before.
LEMMA ReturningKeeps ==
    ASSUME NEW kind, NEW by, NEW pos, NEW rk, NEW clock, NEW t \in Threads,
           QueueTypeOK, Shape(kind, by, pos, rk, clock),
           UNCHANGED <<list, free, calls, taken>>, Return(t), EnqueueReturns(t),
           \/ at[t].pc = "swingTail" /\ size' = size
           \/ at[t].pc = "countLinked" /\ size' = size + 1
    PROVE  QueueTypeOK' /\ Shape(kind, by, pos, rk, clock)'
<1>1. /\ next' = next /\ data' = data /\ head' = head /\ tail' = tail /\ free' = free
      /\ calls' = calls /\ taken' = taken
      /\ accepted' = accepted \cup {<<t, calls[t].enqueue>>}
  BY DEF list, EnqueueReturns
<1>2. /\ at' \in [Threads -> Locals] /\ \A u \in Threads \ {t} : at'[u] = at[u]
      /\ at'[t].pc = "idle"
  <2>1. Idle = [Idle EXCEPT !.pc = "idle"]
    BY DEF Idle
  <2>2. at' = [at EXCEPT ![t] = [Idle EXCEPT !.pc = "idle"]]
    BY <2>1 DEF Return
  <2> QED
    BY <2>2, Cleared DEF Pcs
<1>3. Enqueuing(t) /\ ~Enqueuing(t)' /\ ~Prelink(t) /\ ~Prelink(t)'
  BY <1>2 DEF Enqueuing, Prelink
<1>4. calls[t].enqueue \in 1..MaxEnqueue
  BY <1>3, QueueAssumption DEF Shape, Called, CallOf, QueueTypeOK
<1>5. accepted' \subseteq Elements
  BY <1>1, <1>4 DEF QueueTypeOK, Elements
<1>6. \A u \in Threads \ {t} : Enqueuing(u)' <=> Enqueuing(u)
  BY <1>2 DEF Enqueuing, Prelink
<1>7. \A e \in Elements : Stored(e)' <=> Stored(e)
  BY <1>1, <1>3, <1>6 DEF Stored
<1>8. Called'
  <2> SUFFICES ASSUME NEW u \in Threads PROVE CallOf(u)'
    BY DEF Called
  <2>1. CallOf(u)
    BY DEF Shape, Called
  <2>2. CASE u = t
    <3>1. \A k \in 1..MaxEnqueue : <<t, k>> \in accepted' =>
             <<t, k>> \in accepted \/ k = calls[t].enqueue
      BY <1>1
    <3> QED
      BY <1>1, <1>2, <1>3, <1>4, <2>1, <2>2, <3>1 DEF CallOf
  <2>3. CASE u # t
    <3>1. \A k \in 1..MaxEnqueue : <<u, k>> \in accepted' => <<u, k>> \in accepted
      BY <1>1, <2>3
    <3>2. at'[u] = at[u] /\ (Enqueuing(u)' <=> Enqueuing(u))
      BY <1>2, <1>6, <2>3
    <3> QED
      BY <1>1, <2>1, <3>1, <3>2 DEF CallOf
  <2> QED
    BY <2>2, <2>3
<1>9. GivenOut' = GivenOut
  BY <1>1, <1>2 DEF GivenOut
<1>10. Counts' /\ size' \in Int
  <2>1. Cardinality(ThreadsAt({"discount"}))' = Cardinality(ThreadsAt({"discount"}))
    BY <1>2, ThreadPasses
  <2>2. /\ Cardinality(ThreadsAt({"countLinked", "countHelped"})) \in Nat
        /\ Cardinality(ThreadsAt({"discount"})) \in Nat
    BY ThreadsAtFinite
  <2>3. head.count \in Nat /\ tail.count \in Nat /\ size \in Int
    BY FewElements DEF QueueTypeOK, Refs
  <2>4. CASE at[t].pc = "swingTail" /\ size' = size
    <3>1. Cardinality(ThreadsAt({"countLinked", "countHelped"}))'
            = Cardinality(ThreadsAt({"countLinked", "countHelped"}))
      BY <1>2, <2>4, ThreadPasses
    <3> QED
      BY <1>1, <1>9, <2>1, <2>3, <2>4, <3>1 DEF Shape, Counts
  <2>5. CASE at[t].pc = "countLinked" /\ size' = size + 1
    <3>1. Cardinality(ThreadsAt({"countLinked", "countHelped"}))'
            = Cardinality(ThreadsAt({"countLinked", "countHelped"})) - 1
      BY <1>2, <2>5, ThreadLeaves
    <3> QED
      BY <1>1, <1>9, <2>1, <2>2, <2>3, <2>5, <3>1 DEF Shape, Counts
  <2> QED
    BY <2>4, <2>5
<1> QED
  BY <1>1, <1>2, <1>3, <1>5, <1>7, <1>8, <1>10, CountingKeeps

\* Enqueue's own attempt to move the tail, and the count of it.
LEMMA SwingTailKeeps ==
    ASSUME NEW kind, NEW by, NEW pos, NEW rk, NEW clock, NEW t \in Threads,
           QueueTypeOK, Shape(kind, by, pos, rk, clock), SwingTail(t)
    PROVE  QueueTypeOK' /\ Shape(kind, by, pos, rk, clock)'
<1>1. at[t].pc = "swingTail" /\ UNCHANGED <<next, data, head, size, free, calls, taken>>
  BY DEF SwingTail
<1>2. TailOf(t, kind) /\ HasTail(t)
  BY <1>1 DEF Shape, Tails, HasTail
<1>3. CASE tail = at[t].tail
  <2>1. next[tail.node] = at[t].new /\ at[t].new \in Nodes
    BY <1>1, <1>2, <1>3 DEF TailOf
  <2>2. tail' = Pointer(at[t].new, tail) /\ Goto(t, "countLinked") /\ accepted' = accepted
    BY <1>3 DEF SwingTail
  <2> QED
    BY <1>1, <2>1, <2>2, TailMoves
<1>4. CASE tail # at[t].tail
  <2>1. Return(t) /\ EnqueueReturns(t) /\ tail' = tail
    BY <1>4 DEF SwingTail
  <2> QED
    BY <1>1, <2>1, ReturningKeeps DEF list
<1> QED
  BY <1>3, <1>4

\* The count after enqueue's own exchange of the tail; the call returns.
LEMMA CountLinkedKeeps ==
    ASSUME NEW kind, NEW by, NEW pos, NEW rk, NEW clock, NEW t \in Threads,
           QueueTypeOK, Shape(kind, by, pos, rk, clock), CountLinked(t)
    PROVE  QueueTypeOK' /\ Shape(kind, by, pos, rk, clock)'
BY ReturningKeeps DEF CountLinked

\* The help of a thread that found the tail where it lagged.
LEMMA HelpTailKeeps ==
    ASSUME NEW kind, NEW by, NEW pos, NEW rk, NEW clock, NEW t \in Threads,
           QueueTypeOK, Shape(kind, by, pos, rk, clock), HelpTail(t)
    PROVE  QueueTypeOK' /\ Shape(kind, by, pos, rk, clock)'
<1>1. at[t].pc = "helpTail" /\ UNCHANGED <<next, data, head, size, free, calls, accepted, taken>>
  BY DEF HelpTail
<1>2. TailOf(t, kind) /\ HasTail(t)
  BY <1>1 DEF Shape, Tails, HasTail
<1>3. CASE tail = at[t].tail
  <2>1. next[tail.node] = at[t].tailNext /\ at[t].tailNext \in Nodes
    BY <1>1, <1>2, <1>3 DEF TailOf
  <2>2. tail' = Pointer(at[t].tailNext, tail) /\ Goto(t, "countHelped")
    BY <1>3 DEF HelpTail
  <2> QED
    BY <1>1, <2>1, <2>2, TailMoves
<1>4. CASE tail # at[t].tail
  <2>1. Resume(t) /\ tail' = tail
    BY <1>4 DEF HelpTail
  <2> QED
    BY <1>1, <2>1, ResumingKeeps DEF list
<1> QED
  BY <1>3, <1>4

\* The count after a helping exchange of the tail; the thread goes back to its loop.
LEMMA CountHelpedKeeps ==
    ASSUME NEW kind, NEW by, NEW pos, NEW rk, NEW clock, NEW t \in Threads,
           QueueTypeOK, Shape(kind, by, pos, rk, clock), CountHelped(t)
    PROVE  QueueTypeOK' /\ Shape(kind, by, pos, rk, clock)'
<1>1. /\ at[t].pc = "countHelped" /\ size' = size + 1 /\ Resume(t)
      /\ UNCHANGED <<list, free, calls, accepted, taken>>
      /\ head' = head /\ tail' = tail /\ calls' = calls /\ accepted' = accepted /\ taken' = taken
  BY DEF CountHelped, list
<1>2. /\ at' \in [Threads -> Locals] /\ \A u \in Threads \ {t} : at'[u] = at[u]
      /\ at'[t].pc = at[t].to /\ at[t].to \in {"idle", "readTail", "readHead"}
      /\ at[t].to = "readTail" => at'[t].new = at[t].new
  BY <1>1, Resumed
<1>3. /\ Prelink(t)' <=> Prelink(t)
      /\ Prelink(t) => at'[t].new = at[t].new
  BY <1>1, <1>2 DEF Prelink
<1>4. \A u \in Threads : Enqueuing(u)' <=> Enqueuing(u)
  BY <1>1, <1>2, <1>3 DEF Enqueuing, Prelink
<1>5. \A e \in Elements : Stored(e)' <=> Stored(e)
  BY <1>1, <1>4 DEF Stored
<1>6. Called'
  BY <1>1, <1>2, <1>4 DEF Shape, Called, CallOf
<1>7. GivenOut' = GivenOut
  BY <1>1, <1>2 DEF GivenOut
<1>8. Counts' /\ size' \in Int
  <2>1. Cardinality(ThreadsAt({"discount"}))' = Cardinality(ThreadsAt({"discount"}))
    BY <1>1, <1>2, ThreadPasses
  <2>2. /\ Cardinality(ThreadsAt({"countLinked", "countHelped"})) \in Nat
        /\ Cardinality(ThreadsAt({"discount"})) \in Nat
    BY ThreadsAtFinite
  <2>3. head.count \in Nat /\ tail.count \in Nat /\ size \in Int
    BY FewElements DEF QueueTypeOK, Refs
  <2>4. Cardinality(ThreadsAt({"countLinked", "countHelped"}))'
          = Cardinality(ThreadsAt({"countLinked", "countHelped"})) - 1
    BY <1>1, <1>2, ThreadLeaves
  <2>5. Counts /\ size' = size + 1 /\ head' = head /\ tail' = tail
    BY <1>1 DEF Shape
  <2> QED
    BY <1>7, <2>1, <2>2, <2>3, <2>4, <2>5 DEF Counts
<1>9. accepted' \subseteq Elements
  BY <1>1 DEF QueueTypeOK
<1> QED
  BY <1>1, <1>2, <1>3, <1>5, <1>6, <1>8, <1>9, CountingKeeps

-----------------------------------------------------------------------------
(* A node comes from the pool. *)

\* The node leaves the pool and is a chain of its own; its holder is the youngest.
LEMMA AllocKeeps ==
    ASSUME NEW kind, NEW by, NEW pos, NEW rk, NEW clock, NEW t \in Threads,
           QueueTypeOK, Shape(kind, by, pos, rk, clock), Alloc(t)
    PROVE  /\ QueueTypeOK'
           /\ \E k, b, p, r, c : Shape(k, b, p, r, c)'
<1> DEFINE e == <<t, calls[t].enqueue>>
<1>1. PICK n \in PoolAlloc :
          /\ at[t].pc = "alloc"
          /\ free' = free \ {n}
          /\ next' = [next EXCEPT ![n] = MyNull]
          /\ data' = [data EXCEPT ![n] = e]
          /\ at' = [at EXCEPT ![t].pc = "readTail", ![t].new = n]
          /\ UNCHANGED <<head, tail, size, calls, accepted, taken>>
  BY DEF Alloc
<1>2. n \in free /\ n \in Nodes
  BY DEF PoolAlloc, NeverUsed, Alike, QueueTypeOK
<1>3. /\ at' \in [Threads -> Locals] /\ \A u \in Threads \ {t} : at'[u] = at[u]
      /\ at'[t].pc = "readTail" /\ at'[t].new = n
  <2>1. at[t] \in Locals
    BY DEF QueueTypeOK
  <2> QED
    BY <1>1, <1>2, <2>1 DEF QueueTypeOK, Locals, Pcs
<1>4. /\ head' = head /\ tail' = tail /\ size' = size /\ calls' = calls
      /\ accepted' = accepted /\ taken' = taken
  BY <1>1
<1>5. /\ next' \in [Nodes -> Nodes \cup {MyNull}] /\ next'[n] = MyNull
      /\ \A m \in Nodes \ {n} : next'[m] = next[m]
  BY <1>1, <1>2 DEF QueueTypeOK
<1>6. calls[t].enqueue \in 1..MaxEnqueue
  BY <1>1, QueueAssumption DEF Shape, Called, CallOf, QueueTypeOK
<1>7. e \in Elements
  BY <1>6 DEF Elements
<1> HIDE DEF e
<1>8. /\ data' \in [Nodes -> Elements \cup {NoElement}] /\ data'[n] = e
      /\ \A m \in Nodes \ {n} : data'[m] = data[m]
  BY <1>1, <1>2, <1>7 DEF QueueTypeOK
<1>9. QueueTypeOK'
  BY <1>1, <1>3, <1>4, <1>5, <1>8 DEF QueueTypeOK
<1> DEFINE k2 == [kind EXCEPT ![n] = "held"]
           b2 == [by EXCEPT ![n] = t]
           p2 == [pos EXCEPT ![n] = 0]
           r2 == [rk EXCEPT ![t] = clock]
<1>10. /\ kind \in [Nodes -> {"list", "held", "out", "free"}]
       /\ by \in [Nodes -> Threads \cup {MyNull}] /\ pos \in [Nodes -> Nat]
       /\ rk \in [Threads -> Nat] /\ clock \in Nat /\ \A u \in Threads : rk[u] < clock
  BY DEF Shape, Ghosts
<1>11. Ghosts(k2, b2, p2, r2, clock + 1)
  BY <1>2, <1>10 DEF Ghosts
<1>12. /\ k2[n] = "held" /\ b2[n] = t /\ p2[n] = 0
       /\ \A m \in Nodes \ {n} : k2[m] = kind[m] /\ b2[m] = by[m] /\ p2[m] = pos[m]
       /\ r2[t] = clock /\ \A u \in Threads \ {t} : r2[u] = rk[u]
  BY <1>2, <1>10
<1> HIDE DEF k2, b2, p2, r2
<1>13. kind[n] = "free" /\ ~Linked(kind, n)
  BY <1>2 DEF Shape, Placed, Linked
<1>14. \A u \in Threads \ {t} : /\ Prelink(u)' <=> Prelink(u)
                                /\ Enqueuing(u)' <=> Enqueuing(u)
                                /\ Retires(u)' <=> Retires(u)
  BY <1>3 DEF Prelink, Enqueuing, Retires
<1>15. /\ Prelink(t)' /\ Enqueuing(t)' /\ ~Retires(t)'
       /\ ~Prelink(t) /\ ~Enqueuing(t) /\ ~Retires(t)
  BY <1>1, <1>3 DEF Prelink, Enqueuing, Retires
<1>16. \A m \in Nodes : kind[m] \in {"held", "out"} => by[m] \in Threads \ {t}
  BY <1>15 DEF Shape, Placed
<1>17. head.node \in Nodes \ {n} /\ tail.node \in Nodes \ {n}
  BY <1>13 DEF Shape, Ends, QueueTypeOK, Refs
<1>18. Placed(k2, b2, p2)'
  <2>1. \A m \in Nodes : m \in free' <=> k2[m] = "free"
    BY <1>1, <1>2, <1>12 DEF Shape, Placed
  <2>2. \A m \in Nodes : k2[m] = "list" => b2[m] = MyNull /\ p2[m] >= head'.count
    BY <1>4, <1>12 DEF Shape, Placed
  <2>3. \A m \in Nodes : k2[m] = "held" => b2[m] \in Threads /\ Prelink(b2[m])'
    BY <1>12, <1>14, <1>15, <1>16 DEF Shape, Placed
  <2>4. \A m \in Nodes : k2[m] = "out" => m # n /\ kind[m] = "out" /\ b2[m] = by[m]
    BY <1>12
  <2>5. \A m \in Nodes : k2[m] = "out" =>
           /\ b2[m] \in Threads /\ Retires(b2[m])' /\ at'[b2[m]].head.node = m
           /\ next'[m] # MyNull
    BY <1>3, <1>5, <1>14, <1>16, <2>4 DEF Shape, Placed
  <2> QED
    BY <2>1, <2>2, <2>3, <2>5 DEF Placed
<1>19. Holds(k2, b2, p2)'
  <2> SUFFICES ASSUME NEW u \in Threads PROVE HoldOf(u, k2, b2, p2)'
    BY DEF Holds
  <2>1. CASE u = t
    BY <1>2, <1>3, <1>12, <1>15, <2>1 DEF HoldOf
  <2>2. CASE u # t
    <3>1. HoldOf(u, kind, by, pos) /\ at'[u] = at[u]
      BY <1>3, <2>2 DEF Shape, Holds
    <3>2. Prelink(u) => at[u].new \in Nodes \ {n}
      BY <1>13, <3>1 DEF HoldOf
    <3>3. Retires(u) => at[u].head.node \in Nodes \ {n}
      BY <1>13, <3>1 DEF HoldOf, Refs
    <3> QED
      BY <1>12, <1>14, <2>2, <3>1, <3>2, <3>3 DEF HoldOf
  <2> QED
    BY <2>1, <2>2
<1>20. Ends(k2, p2)'
  BY <1>4, <1>12, <1>17 DEF Shape, Ends
<1>21. \A m \in Nodes \ {n} : /\ Linked(k2, m) <=> Linked(kind, m)
                              /\ ~(Linked(k2, m) /\ Same(k2, b2, m, n))
                              /\ ~(Linked(k2, m) /\ Same(k2, b2, n, m))
  BY <1>12, <1>16 DEF Linked, Same
<1>22. \A m, x \in Nodes \ {n} : Same(k2, b2, m, x) <=> Same(kind, by, m, x)
  BY <1>12 DEF Same
<1>23. Linked(k2, n) /\ Same(k2, b2, n, n)
  BY <1>12 DEF Linked, Same
<1>24. Chained(k2, b2, p2)'
  <2>1. \A m, x \in Nodes : Linked(k2, x) /\ Same(k2, b2, m, x) =>
            \/ m = n /\ x = n
            \/ m # n /\ x # n /\ Linked(kind, x) /\ Same(kind, by, m, x)
    <3>1. \A m \in Nodes : Same(k2, b2, m, n) => Linked(k2, m)
      BY <1>23 DEF Same, Linked
    <3> QED
      BY <1>2, <1>21, <1>22, <3>1
  <2>2. \A m, x \in Nodes : Linked(k2, x) /\ Same(k2, b2, m, x) =>
            /\ p2[m] = p2[x] => m = x
            /\ p2[x] = p2[m] + 1 => next'[m] = x
    <3> TAKE m, x \in Nodes
    <3> HAVE Linked(k2, x) /\ Same(k2, b2, m, x)
    <3>1. CASE m = n /\ x = n
      BY <1>12, <3>1
    <3>2. CASE m # n /\ x # n /\ Linked(kind, x) /\ Same(kind, by, m, x)
      <4>1. p2[m] = pos[m] /\ p2[x] = pos[x] /\ next'[m] = next[m]
        BY <1>5, <1>12, <3>2
      <4>2. (pos[m] = pos[x] => m = x) /\ (pos[x] = pos[m] + 1 => next[m] = x)
        BY <3>2 DEF Shape, Chained
      <4> QED
        BY <4>1, <4>2
    <3> QED
      BY <2>1, <3>1, <3>2
  <2>3. \A x \in Nodes : Linked(k2, x) /\ next'[x] # MyNull =>
            Same(k2, b2, x, next'[x]) /\ p2[next'[x]] = p2[x] + 1
    <3> TAKE x \in Nodes
    <3> HAVE Linked(k2, x) /\ next'[x] # MyNull
    <3>1. x # n /\ next'[x] = next[x] /\ Linked(kind, x)
      BY <1>5, <1>21
    <3>2. Same(kind, by, x, next[x]) /\ pos[next[x]] = pos[x] + 1 /\ next[x] \in Nodes
      BY <3>1 DEF Shape, Chained, QueueTypeOK
    <3>3. next[x] # n
      BY <1>13, <3>1, <3>2 DEF Same, Linked
    <3> QED
      BY <1>12, <1>22, <3>1, <3>2, <3>3
  <2> QED
    BY <2>2, <2>3 DEF Chained
<1>25. Dense(k2, b2, p2)'
  <2> SUFFICES ASSUME NEW x \in Nodes, Linked(k2, x), NEW i \in Nat,
                      Start(k2, x)' <= i, i <= p2[x]
               PROVE  \E m \in Nodes : Same(k2, b2, m, x) /\ p2[m] = i
    BY DEF Dense
  <2>1. CASE x = n
    <3>1. i = 0
      BY <1>12, <2>1
    <3> QED
      BY <1>12, <1>23, <2>1, <3>1
  <2>2. CASE x # n
    <3>1. Linked(kind, x) /\ Start(kind, x) <= i /\ i <= pos[x]
      BY <1>4, <1>12, <1>21, <2>2 DEF Start
    <3>2. PICK m \in Nodes : Same(kind, by, m, x) /\ pos[m] = i
      BY <3>1 DEF Shape, Dense
    <3>3. m # n
      BY <1>13, <3>1, <3>2 DEF Same, Linked
    <3> QED
      BY <1>12, <1>22, <2>2, <3>2, <3>3
  <2> QED
    BY <2>1, <2>2
<1>26. Aged(k2, b2, r2)'
  <2> SUFFICES ASSUME NEW u \in Threads, at'[u].pc = "link", k2[at'[u].tail.node] = "held"
               PROVE  r2[u] < r2[b2[at'[u].tail.node]]
    BY DEF Aged, AgeOf
  <2>1. u # t /\ at'[u] = at[u] /\ at[u].pc = "link"
    BY <1>3
  <2>2. at[u].tail.node \in Nodes
    BY <2>1 DEF Shape, Tails, TailOf, HasTail, Refs
  <2>3. CASE at[u].tail.node = n
    BY <1>10, <1>12, <2>1, <2>3
  <2>4. CASE at[u].tail.node # n
    <3>1. kind[at[u].tail.node] = "held" /\ b2[at[u].tail.node] = by[at[u].tail.node]
      BY <1>12, <2>1, <2>2, <2>4
    <3>2. rk[u] < rk[by[at[u].tail.node]]
      BY <2>1, <3>1 DEF Shape, Aged, AgeOf
    <3>3. by[at[u].tail.node] \in Threads \ {t}
      BY <1>16, <2>2, <3>1
    <3> QED
      BY <1>12, <2>1, <3>1, <3>2, <3>3
  <2> QED
    BY <2>3, <2>4
<1>27. Tails(k2)'
  <2> SUFFICES ASSUME NEW u \in Threads PROVE TailOf(u, k2)'
    BY DEF Tails
  <2>1. CASE u = t
    BY <1>3, <2>1 DEF TailOf, HasTail
  <2>2. CASE u # t
    <3>1. TailOf(u, kind) /\ at'[u] = at[u]
      BY <1>3, <2>2 DEF Shape, Tails
    <3>2. HasTail(u) => at[u].tail.node \in Nodes
      BY <3>1 DEF TailOf, Refs
    <3>3. HasTail(u) /\ k2[at[u].tail.node] = "free" => next'[at[u].tail.node] # MyNull
      BY <1>5, <1>12, <3>1, <3>2 DEF TailOf
    <3>4. next'[tail.node] = next[tail.node]
      BY <1>5, <1>17
    <3> QED
      BY <1>4, <3>1, <3>3, <3>4 DEF TailOf, HasTail
  <2> QED
    BY <2>1, <2>2
<1>28. Heads'
  <2> SUFFICES ASSUME NEW u \in Threads PROVE HeadOf(u)'
    BY DEF Heads
  <2>1. CASE u = t
    BY <1>3, <2>1 DEF HeadOf, HasHead, HasNext
  <2>2. CASE u # t
    <3>1. HeadOf(u) /\ at'[u] = at[u]
      BY <1>3, <2>2 DEF Shape, Heads
    <3>2. next'[head.node] = next[head.node]
      BY <1>5, <1>17
    <3>3. next[head.node] # n
      <4>1. CASE next[head.node] = MyNull
        BY <1>2, <4>1, QueueAssumption
      <4>2. CASE next[head.node] # MyNull
        <5>1. kind[next[head.node]] = "list"
          BY <1>17, <4>2 DEF Shape, Chained, Ends, Linked, Same
        <5> QED
          BY <1>13, <5>1
      <4> QED
        BY <4>1, <4>2
    <3>4. HasNext(u) /\ at[u].head.count = head.count =>
             at[u].headNext \in Nodes \ {n} /\ data'[at[u].headNext] = data[at[u].headNext]
      BY <1>8, <3>1, <3>3 DEF HeadOf
    <3>5. at[u].pc = "swingHead" => HasNext(u)
      BY DEF HasNext
    <3> QED
      BY <1>4, <3>1, <3>2, <3>4, <3>5 DEF HeadOf, HasHead, HasNext
  <2> QED
    BY <2>1, <2>2
<1>29. GivenOut' = GivenOut
  BY <1>1, <1>3, <1>4 DEF GivenOut
<1>30. ~Stored(e)
  <2>1. e \notin accepted
    BY <1>1, <1>6 DEF Shape, Called, CallOf, e
  <2>2. \A u \in Threads : Enqueuing(u) => e # <<u, calls[u].enqueue>>
    BY <1>15 DEF e
  <2> QED
    BY <2>1, <2>2 DEF Stored
<1>31. e \notin GivenOut /\ \A m \in Nodes : Live(kind, m) => data[m] # e
  BY <1>7, <1>30 DEF Shape, Kept
<1>32. /\ \A m \in Nodes \ {n} : Live(k2, m)' <=> Live(kind, m)
       /\ Live(k2, n)' /\ ~Live(kind, n)
  BY <1>4, <1>12, <1>13, <1>17 DEF Live, Linked
<1>33. Contents(k2)'
  <2> SUFFICES ASSUME NEW m \in Nodes, Live(k2, m)'
               PROVE  /\ data'[m] \in Elements \ GivenOut
                      /\ \A x \in Nodes : Live(k2, x)' /\ data'[x] = data'[m] => x = m
    BY <1>29 DEF Contents
  <2>1. \A x \in Nodes : Live(kind, x) =>
            /\ data[x] \in Elements \ GivenOut
            /\ \A y \in Nodes : Live(kind, y) /\ data[y] = data[x] => y = x
    BY DEF Shape, Contents
  <2>2. CASE m = n
    BY <1>7, <1>8, <1>31, <1>32, <2>2
  <2>3. CASE m # n
    BY <1>8, <1>31, <1>32, <2>1, <2>3
  <2> QED
    BY <2>2, <2>3
<1>34. Items'
  BY <1>1, <1>3, <1>4 DEF Shape, Items, ItemOf
<1>35. \A x \in Elements : Stored(x)' <=> (Stored(x) \/ x = e)
  <2> TAKE x \in Elements
  <2>1. Stored(x)' <=> \/ x \in accepted
                       \/ \E u \in Threads : Enqueuing(u)' /\ x = <<u, calls[u].enqueue>>
    BY <1>4 DEF Stored
  <2>2. (\E u \in Threads : Enqueuing(u)' /\ x = <<u, calls[u].enqueue>>)
          <=> (x = e \/ \E u \in Threads : Enqueuing(u) /\ x = <<u, calls[u].enqueue>>)
    BY <1>14, <1>15 DEF e
  <2> QED
    BY <2>1, <2>2 DEF Stored
<1>36. Kept(k2)'
  <2> SUFFICES ASSUME NEW x \in Elements
               PROVE  Stored(x)' <=>
                        (x \in GivenOut \/ \E m \in Nodes : Live(k2, m)' /\ data'[m] = x)
    BY <1>29 DEF Kept
  <2>1. Stored(x) <=> (x \in GivenOut \/ \E m \in Nodes : Live(kind, m) /\ data[m] = x)
    BY DEF Shape, Kept
  <2>2. (\E m \in Nodes : Live(k2, m)' /\ data'[m] = x)
          <=> (x = e \/ \E m \in Nodes : Live(kind, m) /\ data[m] = x)
    BY <1>2, <1>8, <1>32
  <2> QED
    BY <1>35, <2>1, <2>2
<1>37. Called'
  BY <1>1, <1>3, <1>4, <1>14, <1>15 DEF Shape, Called, CallOf
<1>38. Counts'
  <2>1. /\ Cardinality(ThreadsAt({"countLinked", "countHelped"}))'
             = Cardinality(ThreadsAt({"countLinked", "countHelped"}))
        /\ Cardinality(ThreadsAt({"discount"}))' = Cardinality(ThreadsAt({"discount"}))
    BY <1>1, <1>3, ThreadPasses
  <2> QED
    BY <1>4, <1>29, <2>1 DEF Shape, Counts
<1>39. Ghosts(k2, b2, p2, r2, clock + 1)'
  BY <1>11 DEF Ghosts
<1>40. Shape(k2, b2, p2, r2, clock + 1)'
  BY <1>18, <1>19, <1>20, <1>24, <1>25, <1>26, <1>27, <1>28, <1>33, <1>34, <1>36, <1>37,
     <1>38, <1>39 DEF Shape
<1> QED
  BY <1>9, <1>40

-----------------------------------------------------------------------------
(* A node is linked. *)

\* The node at the end of a chain is at its highest place.
LEMMA LastIsHighest ==
    ASSUME NEW kind, NEW by, NEW pos, NEW rk, NEW clock,
           QueueTypeOK, Shape(kind, by, pos, rk, clock),
           NEW last \in Nodes, Linked(kind, last), next[last] = MyNull,
           NEW n \in Nodes, Same(kind, by, n, last)
    PROVE  pos[n] <= pos[last]
<1>1. SUFFICES ASSUME pos[n] > pos[last] PROVE FALSE
  BY DEF Shape, Ghosts
<1>2. pos[n] \in Nat /\ pos[last] \in Nat /\ head.count \in Nat
  BY FewElements DEF Shape, Ghosts, QueueTypeOK, Refs
<1>3. Linked(kind, n)
  BY DEF Linked, Same
<1>4. Start(kind, n) <= pos[last]
  <2>1. kind[n] = "list" => head.count <= pos[last]
    BY DEF Same, Shape, Placed
  <2> QED
    BY <1>2, <2>1 DEF Start
<1>5. pos[last] + 1 \in Nat /\ Start(kind, n) <= pos[last] + 1 /\ pos[last] + 1 <= pos[n]
  BY <1>1, <1>2, <1>4 DEF Start
<1>6. PICK m \in Nodes : Same(kind, by, m, n) /\ pos[m] = pos[last] + 1
  BY <1>3, <1>5 DEF Shape, Dense
<1>7. Same(kind, by, last, m) /\ Linked(kind, m)
  BY <1>3, <1>6 DEF Same, Linked
<1>8. next[last] = m
  BY <1>6, <1>7 DEF Shape, Chained
<1> QED
  BY <1>8, QueueAssumption

\* The exchange of the next pointer fails: the thread turns to the tail.
LEMMA LinkFailsKeeps ==
    ASSUME NEW kind, NEW by, NEW pos, NEW rk, NEW clock, NEW t \in Threads,
           QueueTypeOK, Shape(kind, by, pos, rk, clock),
           at[t].pc = "link",
           at' = [at EXCEPT ![t].pc = "readTailNext", ![t].to = "readTail"],
           UNCHANGED <<list, size, free, calls, accepted, taken>>
    PROVE  QueueTypeOK' /\ Shape(kind, by, pos, rk, clock)'
<1>0. at[t] \in Locals
  BY DEF QueueTypeOK
<1>1. at' \in [Threads -> Locals] /\ \A u \in Threads \ {t} : at'[u] = at[u]
  BY <1>0 DEF QueueTypeOK, Locals, Pcs
<1>2. /\ at'[t].pc = "readTailNext" /\ at'[t].to = "readTail" /\ at'[t].tail = at[t].tail
      /\ at'[t].new = at[t].new
  BY <1>0 DEF QueueTypeOK, Locals
<1>3. TailOf(t, kind) /\ HasTail(t)
  BY DEF Shape, Tails, HasTail
<1>4. AgeOf(t, kind, by, rk)' /\ HeadOf(t)'
  BY <1>2 DEF AgeOf, HeadOf, HasHead, HasNext
<1>5. TailOf(t, kind)'
  BY <1>2, <1>3 DEF TailOf, HasTail, list
<1>6. Looks(t) /\ calls' \in [Threads -> [enqueue : 0..MaxEnqueue, dequeue : 0..MaxDequeue]]
  BY <1>1, <1>2 DEF Looks, Prelink, QueueTypeOK, list
<1>7. CallOf(t)'
  BY <1>2 DEF CallOf, Enqueuing, Prelink, Shape, Called, list
<1> QED
  BY <1>1, <1>4, <1>5, <1>6, <1>7, LookingTypes, LookingKeeps

\* It succeeds: the node, and what others have linked behind it, follows the
\* node that the thread took for the last.  That node is the last of the list
\* or of what another, younger, thread holds.
LEMMA LinkedKeeps ==
    ASSUME NEW kind, NEW by, NEW pos, NEW rk, NEW clock, NEW t \in Threads,
           QueueTypeOK, Shape(kind, by, pos, rk, clock),
           at[t].pc = "link", next[at[t].tail.node] = MyNull,
           next' = [next EXCEPT ![at[t].tail.node] = at[t].new],
           Goto(t, "swingTail"),
           UNCHANGED <<data, head, tail, size, free, calls, accepted, taken>>
    PROVE  /\ QueueTypeOK'
           /\ \E k, b, p, r, c : Shape(k, b, p, r, c)'
<1>1. Prelink(t) /\ HasTail(t) /\ ~Retires(t)
  BY DEF Prelink, HasTail, Retires
<1>2. TailOf(t, kind) /\ HoldOf(t, kind, by, pos) /\ AgeOf(t, kind, by, rk)
  BY DEF Shape, Tails, Holds, Aged
<1>a. PICK last \in Nodes : last = at[t].tail.node
  BY <1>1, <1>2 DEF TailOf, Refs
<1>b. PICK new \in Nodes : new = at[t].new
  BY <1>1, <1>2 DEF HoldOf
<1> DEFINE Mine == {n \in Nodes : kind[n] = "held" /\ by[n] = t}
           k2 == [n \in Nodes |-> IF n \in Mine THEN kind[last] ELSE kind[n]]
           b2 == [n \in Nodes |-> IF n \in Mine THEN by[last] ELSE by[n]]
           p2 == [n \in Nodes |-> IF n \in Mine THEN pos[n] + pos[last] + 1 ELSE pos[n]]
<1>3. last \in Nodes /\ at[t].tail \in Refs /\ next[last] = MyNull
  BY <1>1, <1>2, <1>a DEF TailOf, Refs
<1>4. new \in Mine /\ new \in Nodes /\ pos[new] = 0 /\ new # MyNull
  BY <1>1, <1>2, <1>b, QueueAssumption DEF HoldOf
<1>5. /\ kind \in [Nodes -> {"list", "held", "out", "free"}]
      /\ by \in [Nodes -> Threads \cup {MyNull}] /\ pos \in [Nodes -> Nat]
      /\ rk \in [Threads -> Nat] /\ clock \in Nat /\ \A u \in Threads : rk[u] < clock
  BY DEF Shape, Ghosts
<1>6. Linked(kind, last)
  <2>1. kind[last] # "free"
    BY <1>1, <1>2, <1>3, <1>a DEF TailOf
  <2>2. kind[last] # "out"
    BY <1>3 DEF Shape, Placed
  <2> QED
    BY <1>3, <1>5, <2>1, <2>2 DEF Linked
<1>7. last \notin Mine
  <2>1. rk[t] \in Nat /\ ~(rk[t] < rk[t])
    BY <1>5
  <2> QED
    BY <1>2, <1>a, <2>1 DEF AgeOf
<1>8. /\ at' \in [Threads -> Locals] /\ \A u \in Threads \ {t} : at'[u] = at[u]
      /\ at'[t].pc = "swingTail" /\ at'[t].new = new /\ at'[t].tail = at[t].tail
  BY <1>b, Went DEF Pcs
<1>9. /\ data' = data /\ head' = head /\ tail' = tail /\ size' = size /\ free' = free
      /\ calls' = calls /\ accepted' = accepted /\ taken' = taken
  OBVIOUS
<1>10. /\ next' \in [Nodes -> Nodes \cup {MyNull}] /\ next'[last] = new
       /\ \A n \in Nodes \ {last} : next'[n] = next[n]
  BY <1>3, <1>4, <1>a, <1>b DEF QueueTypeOK
<1>11. QueueTypeOK'
  BY <1>8, <1>9, <1>10 DEF QueueTypeOK
<1>12. \A n \in Mine : /\ n \in Nodes /\ kind[n] = "held" /\ by[n] = t
                       /\ k2[n] = kind[last] /\ b2[n] = by[last]
                       /\ p2[n] = pos[n] + pos[last] + 1 /\ p2[n] \in Nat
  BY <1>3, <1>5
<1>13. \A n \in Nodes \ Mine : /\ ~(kind[n] = "held" /\ by[n] = t)
                               /\ k2[n] = kind[n] /\ b2[n] = by[n] /\ p2[n] = pos[n]
  OBVIOUS
<1>14. Ghosts(k2, b2, p2, rk, clock)
  <2>1. k2 \in [Nodes -> {"list", "held", "out", "free"}]
    BY <1>3, <1>5
  <2>2. b2 \in [Nodes -> Threads \cup {MyNull}]
    BY <1>3, <1>5
  <2>3. p2 \in [Nodes -> Nat]
    BY <1>3, <1>5
  <2> QED
    BY <1>5, <2>1, <2>2, <2>3 DEF Ghosts
<1> HIDE DEF Mine, k2, b2, p2
<1>15. \A u \in Threads \ {t} : /\ Prelink(u)' <=> Prelink(u)
                                /\ Enqueuing(u)' <=> Enqueuing(u)
                                /\ Retires(u)' <=> Retires(u)
  BY <1>8 DEF Prelink, Enqueuing, Retires
<1>16. Enqueuing(t) /\ Enqueuing(t)' /\ ~Prelink(t)' /\ ~Retires(t)'
  BY <1>1, <1>8 DEF Prelink, Enqueuing, Retires
<1>17. \A n \in Nodes : Linked(k2, n) <=> Linked(kind, n)
  <2>1. \A n \in Mine : Linked(k2, n) /\ Linked(kind, n)
    BY <1>6, <1>12 DEF Linked
  <2> QED
    BY <1>13, <2>1 DEF Linked
<1>18. \A m, n \in Mine : Same(kind, by, m, n) /\ Same(k2, b2, m, n)
  BY <1>12 DEF Same
<1>19. \A m, n \in Nodes \ Mine : Same(k2, b2, m, n) <=> Same(kind, by, m, n)
  BY <1>13 DEF Same
<1>20. \A m \in Mine, n \in Nodes \ Mine :
          /\ Same(k2, b2, m, n) <=> Same(kind, by, last, n)
          /\ Same(k2, b2, n, m) <=> Same(kind, by, n, last)
          /\ ~Same(kind, by, m, n) /\ ~Same(kind, by, n, m)
  BY <1>12, <1>13 DEF Same
<1>21. \A n \in Nodes : Same(kind, by, n, last) => pos[n] <= pos[last]
  BY <1>3, <1>6, LastIsHighest
<1>22. Placed(k2, b2, p2)'
  <2>1. \A n \in Nodes : n \in free' <=> k2[n] = "free"
    <3>1. \A n \in Mine : k2[n] # "free" /\ n \notin free
      BY <1>6, <1>12 DEF Linked, Shape, Placed
    <3> QED
      BY <1>9, <1>13, <3>1 DEF Shape, Placed
  <2>2. ASSUME NEW n \in Nodes, k2[n] = "list"
        PROVE  b2[n] = MyNull /\ p2[n] >= head'.count
    <3>1. CASE n \in Mine
      <4>1. kind[last] = "list" /\ by[last] = MyNull /\ pos[last] >= head.count
        BY <1>3, <1>12, <2>2, <3>1 DEF Shape, Placed
      <4>2. /\ p2[n] = pos[n] + pos[last] + 1 /\ pos[n] \in Nat /\ pos[last] \in Nat
            /\ b2[n] = by[last]
        BY <1>3, <1>5, <1>12, <3>1
      <4>3. head.count \in Nat
        BY FewElements DEF QueueTypeOK, Refs
      <4>4. p2[n] >= head.count
        BY <4>1, <4>2, <4>3
      <4> QED
        BY <1>9, <4>1, <4>2, <4>4
    <3>2. CASE n \notin Mine
      BY <1>9, <1>13, <2>2, <3>2 DEF Shape, Placed
    <3> QED
      BY <3>1, <3>2
  <2>3. ASSUME NEW n \in Nodes, k2[n] = "held"
        PROVE  b2[n] \in Threads /\ Prelink(b2[n])'
    <3>1. CASE n \in Mine
      <4>1. kind[last] = "held" /\ b2[n] = by[last]
        BY <1>12, <2>3, <3>1
      <4>2. by[last] \in Threads /\ Prelink(by[last])
        BY <1>3, <4>1 DEF Shape, Placed
      <4>3. by[last] # t
        BY <1>3, <1>7, <4>1 DEF Mine
      <4> QED
        BY <1>15, <4>1, <4>2, <4>3
    <3>2. CASE n \notin Mine
      <4>1. kind[n] = "held" /\ b2[n] = by[n] /\ by[n] # t
        BY <1>13, <2>3, <3>2
      <4>2. by[n] \in Threads /\ Prelink(by[n])
        BY <4>1 DEF Shape, Placed
      <4> QED
        BY <1>15, <4>1, <4>2
    <3> QED
      BY <3>1, <3>2
  <2>4. ASSUME NEW n \in Nodes, k2[n] = "out"
        PROVE  /\ b2[n] \in Threads /\ Retires(b2[n])' /\ at'[b2[n]].head.node = n
               /\ next'[n] # MyNull
    <3>1. n \notin Mine
      BY <1>6, <1>12, <2>4 DEF Linked
    <3>2. kind[n] = "out" /\ b2[n] = by[n]
      BY <1>13, <2>4, <3>1
    <3>3. by[n] \in Threads /\ Retires(by[n]) /\ at[by[n]].head.node = n /\ next[n] # MyNull
      BY <3>2 DEF Shape, Placed
    <3>4. by[n] # t /\ n # last
      BY <1>1, <1>3, <3>3
    <3> QED
      BY <1>8, <1>10, <1>15, <3>2, <3>3, <3>4
  <2> QED
    BY <2>1, <2>2, <2>3, <2>4 DEF Placed
<1>23. Holds(k2, b2, p2)'
  <2> SUFFICES ASSUME NEW u \in Threads PROVE HoldOf(u, k2, b2, p2)'
    BY DEF Holds
  <2>1. CASE u = t
    BY <1>16, <2>1 DEF HoldOf
  <2>2. CASE u # t
    <3>1. HoldOf(u, kind, by, pos) /\ at'[u] = at[u]
      BY <1>8, <2>2 DEF Shape, Holds
    <3>2. Prelink(u) => at[u].new \in Nodes \ Mine
      BY <1>12, <2>2, <3>1 DEF HoldOf
    <3>3. Retires(u) => at[u].head.node \in Nodes \ Mine
      BY <1>12, <2>2, <3>1 DEF HoldOf, Refs
    <3> QED
      BY <1>13, <1>15, <2>2, <3>1, <3>2, <3>3 DEF HoldOf
  <2> QED
    BY <2>1, <2>2
<1>24. /\ head.node \in Nodes \ Mine /\ tail.node \in Nodes \ Mine
  BY <1>12 DEF Shape, Ends, QueueTypeOK, Refs
<1>25. Ends(k2, p2)'
  BY <1>9, <1>13, <1>24 DEF Shape, Ends
<1>26. \A n \in Nodes : pos[n] \in Nat
  BY <1>5
<1>27. ASSUME NEW m \in Nodes, NEW n \in Nodes, Linked(k2, n), Same(k2, b2, m, n)
       PROVE  (p2[m] = p2[n] => m = n) /\ (p2[n] = p2[m] + 1 => next'[m] = n)
  <2>1. pos[m] \in Nat /\ pos[n] \in Nat /\ pos[last] \in Nat
    BY <1>3, <1>26
  <2>2. Linked(kind, n)
    BY <1>17, <1>27
  <2>3. CASE m \in Mine /\ n \in Mine
    <3>1. Same(kind, by, m, n) /\ p2[m] = pos[m] + pos[last] + 1 /\ p2[n] = pos[n] + pos[last] + 1
      BY <1>12, <1>18, <2>3
    <3>2. (pos[m] = pos[n] => m = n) /\ (pos[n] = pos[m] + 1 => next[m] = n)
      BY <2>2, <3>1 DEF Shape, Chained
    <3>3. next'[m] = next[m]
      BY <1>7, <1>10, <2>3
    <3> QED
      BY <2>1, <3>1, <3>2, <3>3
  <2>4. CASE m \in Mine /\ n \notin Mine
    <3>1. Same(kind, by, n, last)
      BY <1>20, <1>27, <2>4 DEF Same
    <3>2. pos[n] <= pos[last] /\ p2[n] = pos[n] /\ p2[m] = pos[m] + pos[last] + 1
      BY <1>12, <1>13, <1>21, <2>4, <3>1
    <3> QED
      BY <2>1, <3>2
  <2>5. CASE m \notin Mine /\ n \in Mine
    <3>1. Same(kind, by, m, last)
      BY <1>20, <1>27, <2>5
    <3>2. pos[m] <= pos[last] /\ p2[m] = pos[m] /\ p2[n] = pos[n] + pos[last] + 1
      BY <1>12, <1>13, <1>21, <2>5, <3>1
    <3>3. p2[m] # p2[n]
      BY <2>1, <3>2
    <3>4. ASSUME p2[n] = p2[m] + 1 PROVE next'[m] = n
      <4>1. pos[n] = 0 /\ pos[m] = pos[last]
        BY <2>1, <3>2, <3>4
      <4>2. m = last
        BY <1>3, <1>6, <3>1, <4>1 DEF Shape, Chained
      <4>3. n = new
        BY <1>4, <1>18, <2>2, <2>5, <4>1 DEF Shape, Chained
      <4> QED
        BY <1>10, <4>2, <4>3
    <3> QED
      BY <3>3, <3>4
  <2>6. CASE m \notin Mine /\ n \notin Mine
    <3>1. Same(kind, by, m, n) /\ p2[m] = pos[m] /\ p2[n] = pos[n]
      BY <1>13, <1>19, <1>27, <2>6
    <3>2. (pos[m] = pos[n] => m = n) /\ (pos[n] = pos[m] + 1 => next[m] = n)
      BY <2>2, <3>1 DEF Shape, Chained
    <3>3. pos[n] = pos[m] + 1 => m # last
      BY <1>3, <3>2, QueueAssumption
    <3> QED
      BY <1>10, <3>1, <3>2, <3>3
  <2> QED
    BY <2>3, <2>4, <2>5, <2>6
<1>28. ASSUME NEW n \in Nodes, Linked(k2, n), next'[n] # MyNull
       PROVE  Same(k2, b2, n, next'[n]) /\ p2[next'[n]] = p2[n] + 1
  <2>1. CASE n = last
    <3>1. next'[n] = new /\ Same(k2, b2, n, new)
      BY <1>3, <1>4, <1>7, <1>10, <1>20, <2>1 DEF Same
    <3>2. p2[new] = 0 + pos[last] + 1 /\ p2[n] = pos[last] /\ pos[last] \in Nat
      BY <1>3, <1>4, <1>7, <1>12, <1>13, <1>26, <2>1
    <3> QED
      BY <3>1, <3>2
  <2>2. CASE n # last
    <3>1. next'[n] = next[n] /\ next[n] \in Nodes
      BY <1>10, <1>28, <2>2 DEF QueueTypeOK
    <3>2. Same(kind, by, n, next[n]) /\ pos[next[n]] = pos[n] + 1
      BY <1>17, <1>28, <3>1 DEF Shape, Chained
    <3>3. CASE n \in Mine
      <4>1. next[n] \in Mine
        BY <1>20, <3>1, <3>2, <3>3
      <4>2. /\ p2[n] = pos[n] + pos[last] + 1 /\ p2[next[n]] = pos[next[n]] + pos[last] + 1
            /\ pos[n] \in Nat /\ pos[last] \in Nat
        BY <1>3, <1>12, <1>26, <3>3, <4>1
      <4> QED
        BY <1>18, <3>1, <3>2, <3>3, <4>1, <4>2
    <3>4. CASE n \notin Mine
      <4>1. next[n] \notin Mine
        BY <1>20, <3>1, <3>2, <3>4
      <4> QED
        BY <1>13, <1>19, <3>1, <3>2, <3>4, <4>1
    <3> QED
      BY <3>3, <3>4
  <2> QED
    BY <2>1, <2>2
<1>29. Chained(k2, b2, p2)'
  BY <1>27, <1>28 DEF Chained
<1>30. Dense(k2, b2, p2)'
  <2> SUFFICES ASSUME NEW n \in Nodes, Linked(k2, n), NEW i \in Nat,
                      Start(k2, n)' <= i, i <= p2[n]
               PROVE  \E m \in Nodes : Same(k2, b2, m, n) /\ p2[m] = i
    BY DEF Dense
  <2>1. Start(k2, n)' = Start(k2, n)
    BY <1>9 DEF Start
  <2>2. CASE n \in Mine /\ i <= pos[last]
    <3>1. Start(k2, n) = Start(kind, last)
      BY <1>12, <2>2 DEF Start
    <3>2. PICK m \in Nodes : Same(kind, by, m, last) /\ pos[m] = i
      BY <1>3, <1>6, <2>1, <2>2, <3>1 DEF Shape, Dense
    <3>3. m \notin Mine
      BY <1>3, <1>7, <1>20, <3>2
    <3> QED
      BY <1>13, <1>20, <2>2, <3>2, <3>3
  <2>3. CASE n \in Mine /\ ~(i <= pos[last])
    <3>1. p2[n] = pos[n] + pos[last] + 1 /\ pos[n] \in Nat /\ pos[last] \in Nat
      BY <1>3, <1>12, <1>26, <2>3
    <3> DEFINE j == i - pos[last] - 1
    <3>2. j \in Nat /\ j <= pos[n] /\ i = j + pos[last] + 1
      BY <2>3, <3>1
    <3> HIDE DEF j
    <3>3. Start(kind, n) = 0 /\ Linked(kind, n)
      BY <1>12, <2>3 DEF Start, Linked
    <3>4. PICK m \in Nodes : Same(kind, by, m, n) /\ pos[m] = j
      BY <3>2, <3>3 DEF Shape, Dense
    <3>5. m \in Mine
      BY <1>20, <2>3, <3>4
    <3> QED
      BY <1>12, <1>18, <2>3, <3>2, <3>4, <3>5
  <2>4. CASE n \notin Mine
    <3>1. Start(k2, n) = Start(kind, n) /\ Linked(kind, n) /\ p2[n] = pos[n]
      BY <1>13, <1>17, <2>4 DEF Start
    <3>2. PICK m \in Nodes : Same(kind, by, m, n) /\ pos[m] = i
      BY <2>1, <3>1 DEF Shape, Dense
    <3>3. m \notin Mine
      BY <1>20, <2>4, <3>2
    <3> QED
      BY <1>13, <1>19, <2>4, <3>2, <3>3
  <2> QED
    BY <2>2, <2>3, <2>4
<1>31. Aged(k2, b2, rk)'
  <2> SUFFICES ASSUME NEW u \in Threads, at'[u].pc = "link", k2[at'[u].tail.node] = "held"
               PROVE  rk[u] < rk[b2[at'[u].tail.node]]
    BY DEF Aged, AgeOf
  <2> DEFINE x == at[u].tail.node
  <2>1. u # t /\ at'[u] = at[u] /\ at[u].pc = "link"
    BY <1>8
  <2>2. x \in Nodes
    BY <2>1 DEF Shape, Tails, TailOf, HasTail, Refs
  <2>3. AgeOf(u, kind, by, rk)
    BY DEF Shape, Aged
  <2>4. CASE x \in Mine
    <3>1. rk[u] < rk[t]
      BY <1>12, <2>1, <2>3, <2>4 DEF AgeOf
    <3>2. kind[last] = "held" /\ b2[x] = by[last]
      BY <1>12, <2>1, <2>4
    <3>3. rk[t] < rk[by[last]]
      BY <1>2, <1>a, <3>2 DEF AgeOf
    <3>4. by[last] \in Threads
      BY <1>3, <3>2 DEF Shape, Placed
    <3>5. rk[u] \in Nat /\ rk[t] \in Nat /\ rk[by[last]] \in Nat
      BY <1>5, <3>4
    <3> QED
      BY <2>1, <3>1, <3>2, <3>3, <3>5
  <2>5. CASE x \notin Mine
    BY <1>13, <2>1, <2>2, <2>3, <2>5 DEF AgeOf
  <2> QED
    BY <2>4, <2>5
<1>32. Tails(k2)'
  <2> SUFFICES ASSUME NEW u \in Threads PROVE TailOf(u, k2)'
    BY DEF Tails
  <2>1. \A n \in Nodes : k2[n] = "free" <=> kind[n] = "free"
    BY <1>6, <1>12, <1>13 DEF Linked
  <2>2. CASE u = t
    <3>1. at'[t].tail.node = last /\ at'[t].tail = at[t].tail
      BY <1>8, <1>a
    <3>2. at'[t].tail.count = tail.count => next'[tail.node] = new
      BY <1>1, <1>2, <1>a, <1>10, <3>1 DEF TailOf
    <3> QED
      BY <1>1, <1>2, <1>4, <1>8, <1>9, <1>10, <2>2, <3>1, <3>2 DEF TailOf
  <2>3. CASE u # t
    <3>1. TailOf(u, kind) /\ at'[u] = at[u]
      BY <1>8, <2>3 DEF Shape, Tails
    <3>2. HasTail(u) => at[u].tail.node \in Nodes
      BY <3>1 DEF TailOf, Refs
    <3>3. HasTail(u) /\ k2[at[u].tail.node] = "free" => next'[at[u].tail.node] # MyNull
      BY <1>4, <1>10, <2>1, <3>1, <3>2 DEF TailOf
    <3>4. next[tail.node] # MyNull => next'[tail.node] = next[tail.node]
      BY <1>3, <1>10, <1>24
    <3>5. \A n \in Nodes : n # MyNull
      BY QueueAssumption
    <3> QED
      BY <1>9, <3>1, <3>3, <3>4, <3>5 DEF TailOf, HasTail
  <2> QED
    BY <2>2, <2>3
<1>33. Heads'
  <2> SUFFICES ASSUME NEW u \in Threads PROVE HeadOf(u)'
    BY DEF Heads
  <2>1. CASE u = t
    BY <1>8, <2>1 DEF HeadOf, HasHead, HasNext
  <2>2. CASE u # t
    <3>1. HeadOf(u) /\ at'[u] = at[u]
      BY <1>8, <2>2 DEF Shape, Heads
    <3>2. next[head.node] # MyNull => next'[head.node] = next[head.node]
      BY <1>3, <1>10, <1>24
    <3>3. \A n \in Nodes : n # MyNull
      BY QueueAssumption
    <3> QED
      BY <1>9, <3>1, <3>2, <3>3 DEF HeadOf, HasHead, HasNext
  <2> QED
    BY <2>1, <2>2
<1>34. GivenOut' = GivenOut
  BY <1>8, <1>9 DEF GivenOut
<1>35. \A n \in Nodes : Live(k2, n)' <=> Live(kind, n)
  BY <1>9, <1>17 DEF Live, Linked
<1>36. Contents(k2)'
  BY <1>9, <1>34, <1>35 DEF Shape, Contents
<1>37. Items'
  BY <1>8, <1>9 DEF Shape, Items, ItemOf
<1>38. \A x \in Elements : Stored(x)' <=> Stored(x)
  BY <1>9, <1>15, <1>16 DEF Stored
<1>39. Kept(k2)'
  BY <1>9, <1>34, <1>35, <1>38 DEF Shape, Kept
<1>40. Called'
  BY <1>8, <1>9, <1>15, <1>16 DEF Shape, Called, CallOf
<1>41. Counts'
  <2>1. /\ Cardinality(ThreadsAt({"countLinked", "countHelped"}))'
             = Cardinality(ThreadsAt({"countLinked", "countHelped"}))
        /\ Cardinality(ThreadsAt({"discount"}))' = Cardinality(ThreadsAt({"discount"}))
    BY <1>8, ThreadPasses
  <2> QED
    BY <1>9, <1>34, <2>1 DEF Shape, Counts
<1>42. Ghosts(k2, b2, p2, rk, clock)'
  BY <1>14 DEF Ghosts
<1>43. Shape(k2, b2, p2, rk, clock)'
  BY <1>22, <1>23, <1>25, <1>29, <1>30, <1>31, <1>32, <1>33, <1>36, <1>37, <1>39, <1>40,
     <1>41, <1>42 DEF Shape
<1> QED
  BY <1>11, <1>43

\* Both outcomes of the exchange of the next pointer.
LEMMA LinkKeeps ==
    ASSUME NEW kind, NEW by, NEW pos, NEW rk, NEW clock, NEW t \in Threads,
           QueueTypeOK, Shape(kind, by, pos, rk, clock), Link(t)
    PROVE  /\ QueueTypeOK'
           /\ \E k, b, p, r, c : Shape(k, b, p, r, c)'
<1>1. /\ at[t].pc = "link"
      /\ UNCHANGED <<data, head, tail, size, free, calls, accepted, taken>>
  BY DEF Link
<1>2. CASE next[at[t].tail.node] = MyNull
  <2>1. /\ next' = [next EXCEPT ![at[t].tail.node] = at[t].new]
        /\ Goto(t, "swingTail")
    BY <1>2 DEF Link
  <2> QED
    BY <1>1, <1>2, <2>1, LinkedKeeps
<1>3. CASE next[at[t].tail.node] # MyNull
  <2>1. /\ at' = [at EXCEPT ![t].pc = "readTailNext", ![t].to = "readTail"]
        /\ next' = next
    BY <1>3 DEF Link
  <2>2. QueueTypeOK' /\ Shape(kind, by, pos, rk, clock)'
    BY <1>1, <2>1, LinkFailsKeeps DEF list
  <2> QED
    BY <2>2
<1> QED
  BY <1>2, <1>3

-----------------------------------------------------------------------------
(* The head moves, the element is given out, the old dummy goes to the pool. *)

\* The exchange of the head succeeds: the old dummy leaves the list, the node behind it is
\* the dummy, and its element is given out to the thread.
LEMMA HeadMoves ==
    ASSUME NEW kind, NEW by, NEW pos, NEW rk, NEW clock, NEW t \in Threads,
           QueueTypeOK, Shape(kind, by, pos, rk, clock),
           at[t].pc = "swingHead", head = at[t].head,
           head' = Pointer(at[t].headNext, head), Goto(t, "discount"),
           UNCHANGED <<next, data, tail, size, free, calls, accepted, taken>>
    PROVE  /\ QueueTypeOK'
           /\ \E k, b, p, r, c : Shape(k, b, p, r, c)'
<1>1. HasHead(t) /\ HasNext(t) /\ HeadOf(t) /\ ~Retires(t) /\ ~Enqueuing(t) /\ ~Prelink(t)
  BY DEF HasHead, HasNext, Retires, Enqueuing, Prelink, Shape, Heads
<1>2. PICK old \in Nodes : old = head.node
  BY DEF QueueTypeOK, Refs
<1>3. PICK new \in Nodes : new = at[t].headNext
  BY <1>1 DEF HeadOf
<1>4. next[old] = new /\ head.count < tail.count /\ at[t].item = data[new]
  BY <1>1, <1>2, <1>3 DEF HeadOf
<1>5. /\ kind \in [Nodes -> {"list", "held", "out", "free"}]
      /\ by \in [Nodes -> Threads \cup {MyNull}] /\ pos \in [Nodes -> Nat]
      /\ rk \in [Threads -> Nat] /\ clock \in Nat /\ \A u \in Threads : rk[u] < clock
  BY DEF Shape, Ghosts
<1>6. kind[old] = "list" /\ by[old] = MyNull /\ pos[old] = head.count
  BY <1>2 DEF Shape, Ends, Placed
<1>7. kind[new] = "list" /\ by[new] = MyNull /\ pos[new] = head.count + 1 /\ new # MyNull
  <2>1. new # MyNull
    BY QueueAssumption
  <2> QED
    BY <1>4, <1>6, <2>1 DEF Shape, Chained, Linked, Same
<1>8. head.count \in Nat /\ tail.count \in Nat /\ tail.count < CounterValues
  BY FewElements DEF QueueTypeOK, Refs
<1>9. head' \in Refs /\ head'.node = new /\ head'.count = head.count + 1
  <2>1. head.count + 1 < CounterValues
    BY <1>4, <1>8, FewElements
  <2> QED
    BY <1>3, <2>1, NextPointer DEF QueueTypeOK
<1>10. /\ at' \in [Threads -> Locals] /\ \A u \in Threads \ {t} : at'[u] = at[u]
       /\ at'[t].pc = "discount" /\ at'[t].head = head
       /\ at'[t].headNext = new /\ at'[t].item = data[new]
  BY <1>3, <1>4, Went DEF Pcs
<1>11. /\ next' = next /\ data' = data /\ tail' = tail /\ size' = size /\ free' = free
       /\ calls' = calls /\ accepted' = accepted /\ taken' = taken
  OBVIOUS
<1>12. QueueTypeOK'
  BY <1>9, <1>10, <1>11 DEF QueueTypeOK
<1> DEFINE k2 == [kind EXCEPT ![old] = "out"]
           b2 == [by EXCEPT ![old] = t]
<1>13. Ghosts(k2, b2, pos, rk, clock)
  BY <1>5 DEF Ghosts
<1>14. /\ k2[old] = "out" /\ b2[old] = t
       /\ \A n \in Nodes \ {old} : k2[n] = kind[n] /\ b2[n] = by[n]
  BY <1>5
<1> HIDE DEF k2, b2
<1>15. \A u \in Threads \ {t} : /\ Prelink(u)' <=> Prelink(u)
                                /\ Enqueuing(u)' <=> Enqueuing(u)
                                /\ Retires(u)' <=> Retires(u)
  BY <1>10 DEF Prelink, Enqueuing, Retires
<1>16. ~Enqueuing(t)' /\ ~Prelink(t)' /\ Retires(t)'
  BY <1>10 DEF Prelink, Enqueuing, Retires
<1>17. \A n \in Nodes : kind[n] \in {"held", "out"} => by[n] \in Threads \ {t}
  BY <1>1 DEF Shape, Placed
<1>18. \A n \in Nodes : kind[n] = "list" =>
          /\ by[n] = MyNull /\ pos[n] \in Nat /\ pos[n] >= head.count
          /\ pos[n] = head.count => n = old
  BY <1>5, <1>6 DEF Shape, Placed, Chained, Linked, Same
<1>19. tail.node \in Nodes \ {old}
  BY <1>4, <1>6, <1>8 DEF Shape, Ends, QueueTypeOK, Refs
<1>20. Placed(k2, b2, pos)'
  <2>1. \A n \in Nodes : n \in free' <=> k2[n] = "free"
    BY <1>6, <1>11, <1>14 DEF Shape, Placed
  <2>2. ASSUME NEW n \in Nodes, k2[n] = "list" PROVE b2[n] = MyNull /\ pos[n] >= head'.count
    <3>1. n # old /\ kind[n] = "list" /\ b2[n] = by[n]
      BY <1>14, <2>2
    <3> QED
      BY <1>8, <1>9, <1>18, <3>1
  <2>3. ASSUME NEW n \in Nodes, k2[n] = "held" PROVE b2[n] \in Threads /\ Prelink(b2[n])'
    <3>1. n # old /\ kind[n] = "held" /\ b2[n] = by[n]
      BY <1>14, <2>3
    <3> QED
      BY <1>15, <1>17, <3>1 DEF Shape, Placed
  <2>4. ASSUME NEW n \in Nodes, k2[n] = "out"
        PROVE  /\ b2[n] \in Threads /\ Retires(b2[n])' /\ at'[b2[n]].head.node = n
               /\ next'[n] # MyNull
    <3>1. CASE n = old
      BY <1>2, <1>4, <1>7, <1>10, <1>11, <1>14, <1>16, <3>1
    <3>2. CASE n # old
      <4>1. kind[n] = "out" /\ b2[n] = by[n] /\ by[n] \in Threads \ {t}
        BY <1>14, <1>17, <2>4, <3>2
      <4> QED
        BY <1>10, <1>11, <1>15, <4>1 DEF Shape, Placed
    <3> QED
      BY <3>1, <3>2
  <2> QED
    BY <2>1, <2>2, <2>3, <2>4 DEF Placed
<1>21. Holds(k2, b2, pos)'
  <2> SUFFICES ASSUME NEW u \in Threads PROVE HoldOf(u, k2, b2, pos)'
    BY DEF Holds
  <2>1. CASE u = t
    BY <1>2, <1>10, <1>14, <1>16, <2>1 DEF HoldOf, QueueTypeOK
  <2>2. CASE u # t
    <3>1. HoldOf(u, kind, by, pos) /\ at'[u] = at[u]
      BY <1>10, <2>2 DEF Shape, Holds
    <3>2. Prelink(u) => at[u].new \in Nodes \ {old}
      BY <1>6, <3>1 DEF HoldOf
    <3>3. Retires(u) => at[u].head.node \in Nodes \ {old}
      BY <1>6, <3>1 DEF HoldOf, Refs
    <3> QED
      BY <1>14, <1>15, <2>2, <3>1, <3>2, <3>3 DEF HoldOf
  <2> QED
    BY <2>1, <2>2
<1>22. Ends(k2, pos)'
  <2>1. new # old
    BY <1>6, <1>7, <1>8
  <2> QED
    BY <1>7, <1>9, <1>11, <1>14, <1>19, <2>1 DEF Shape, Ends
<1>23. \A n \in Nodes : Linked(k2, n) <=> Linked(kind, n) /\ n # old
  BY <1>14 DEF Linked
<1>24. \A m, n \in Nodes \ {old} : Same(k2, b2, m, n) <=> Same(kind, by, m, n)
  BY <1>14 DEF Same
<1>25. \A m \in Nodes, n \in Nodes \ {old} :
          Linked(k2, n) /\ Same(k2, b2, m, n) => m # old /\ Same(kind, by, m, n)
  BY <1>14, <1>24 DEF Same, Linked
<1>26. Chained(k2, b2, pos)'
  <2>1. ASSUME NEW m \in Nodes, NEW n \in Nodes, Linked(k2, n), Same(k2, b2, m, n)
        PROVE  (pos[m] = pos[n] => m = n) /\ (pos[n] = pos[m] + 1 => next'[m] = n)
    <3>1. Linked(kind, n) /\ Same(kind, by, m, n)
      BY <1>23, <1>25, <2>1
    <3> QED
      BY <1>11, <3>1 DEF Shape, Chained
  <2>2. ASSUME NEW n \in Nodes, Linked(k2, n), next'[n] # MyNull
        PROVE  Same(k2, b2, n, next'[n]) /\ pos[next'[n]] = pos[n] + 1
    <3>1. Linked(kind, n) /\ n # old /\ next'[n] = next[n]
      BY <1>11, <1>23, <2>2
    <3>2. Same(kind, by, n, next[n]) /\ pos[next[n]] = pos[n] + 1 /\ next[n] \in Nodes
      BY <2>2, <3>1 DEF Shape, Chained, QueueTypeOK
    <3>3. next[n] # old
      <4>1. SUFFICES ASSUME next[n] = old PROVE FALSE
        OBVIOUS
      <4>2. kind[n] = "list" /\ head.count = pos[n] + 1
        BY <1>6, <3>2, <4>1 DEF Same
      <4> QED
        BY <1>8, <1>18, <4>2
    <3> QED
      BY <1>24, <3>1, <3>2, <3>3
  <2> QED
    BY <2>1, <2>2 DEF Chained
<1>27. Dense(k2, b2, pos)'
  <2> SUFFICES ASSUME NEW n \in Nodes, Linked(k2, n), NEW i \in Nat,
                      Start(k2, n)' <= i, i <= pos[n]
               PROVE  \E m \in Nodes : Same(k2, b2, m, n) /\ pos[m] = i
    BY DEF Dense
  <2>1. Linked(kind, n) /\ n # old /\ k2[n] = kind[n]
    BY <1>14, <1>23
  <2>2. Start(kind, n) <= i /\ (kind[n] = "list" => i # head.count)
    BY <1>8, <1>9, <2>1 DEF Start
  <2>3. PICK m \in Nodes : Same(kind, by, m, n) /\ pos[m] = i
    BY <2>1, <2>2 DEF Shape, Dense
  <2>4. m # old
    BY <1>6, <2>2, <2>3 DEF Same
  <2> QED
    BY <1>24, <2>1, <2>3, <2>4
<1>28. Aged(k2, b2, rk)'
  <2> SUFFICES ASSUME NEW u \in Threads, at'[u].pc = "link", k2[at'[u].tail.node] = "held"
               PROVE  rk[u] < rk[b2[at'[u].tail.node]]
    BY DEF Aged, AgeOf
  <2>1. u # t /\ at'[u] = at[u] /\ at[u].pc = "link"
    BY <1>10
  <2>2. at[u].tail.node \in Nodes
    BY <2>1 DEF Shape, Tails, TailOf, HasTail, Refs
  <2>3. /\ at[u].tail.node # old /\ kind[at[u].tail.node] = "held"
        /\ b2[at[u].tail.node] = by[at[u].tail.node]
    BY <1>14, <2>1, <2>2
  <2> QED
    BY <2>1, <2>3 DEF Shape, Aged, AgeOf
<1>29. Tails(k2)'
  <2> SUFFICES ASSUME NEW u \in Threads PROVE TailOf(u, k2)'
    BY DEF Tails
  <2>1. CASE u = t
    BY <1>10, <2>1 DEF TailOf, HasTail
  <2>2. CASE u # t
    <3>1. TailOf(u, kind) /\ at'[u] = at[u]
      BY <1>10, <2>2 DEF Shape, Tails
    <3>2. \A n \in Nodes : k2[n] = "free" => kind[n] = "free"
      BY <1>14
    <3>3. HasTail(u) => at[u].tail.node \in Nodes
      BY <3>1 DEF TailOf, Refs
    <3> QED
      BY <1>11, <3>1, <3>2, <3>3 DEF TailOf, HasTail
  <2> QED
    BY <2>1, <2>2
<1>30. Heads'
  <2> SUFFICES ASSUME NEW u \in Threads PROVE HeadOf(u)'
    BY DEF Heads
  <2>1. CASE u = t
    BY <1>10, <2>1 DEF HeadOf, HasHead, HasNext
  <2>2. CASE u # t
    <3>1. HeadOf(u) /\ at'[u] = at[u]
      BY <1>10, <2>2 DEF Shape, Heads
    <3>2. HasHead(u) => /\ at[u].head.count <= head.count + 1
                        /\ at[u].head.count # head.count + 1
      <4> HAVE HasHead(u)
      <4>1. at[u].head \in Refs /\ at[u].head.count <= head.count
        BY <3>1 DEF HeadOf
      <4>2. at[u].head.count \in Nat
        BY <4>1, FewElements DEF Refs
      <4> QED
        BY <1>8, <4>1, <4>2
    <3>3. HasNext(u) \/ at[u].pc \in {"readData", "swingHead"} => HasHead(u)
      BY DEF HasHead, HasNext
    <3> QED
      BY <1>9, <3>1, <3>2, <3>3 DEF HeadOf, HasHead, HasNext
  <2> QED
    BY <2>1, <2>2
<1>31. \A n \in Nodes : Live(k2, n)' <=> (Live(kind, n) /\ n # new)
  BY <1>2, <1>9, <1>23 DEF Live, Linked
<1>32. Live(kind, new)
  BY <1>2, <1>6, <1>7, <1>8 DEF Live, Linked
<1>33. data[new] \in Elements \ GivenOut
  BY <1>32 DEF Shape, Contents
<1>34. GivenOut' = GivenOut \cup {data[new]}
  <2>1. GivenOut' = {e \in Elements : \/ taken[e] = 1
                                      \/ \E u \in Threads : /\ at'[u].pc = "discount"
                                                            /\ at'[u].item = e}
    BY <1>11 DEF GivenOut
  <2>2. \A e \in Elements :
           (\E u \in Threads : at'[u].pc = "discount" /\ at'[u].item = e)
             <=> \/ e = data[new]
                 \/ \E u \in Threads : at[u].pc = "discount" /\ at[u].item = e
    <3>1. \A u \in Threads : at[u].pc = "discount" => u # t /\ at'[u] = at[u]
      BY <1>10
    <3> QED
      BY <1>10, <3>1
  <2> QED
    BY <1>33, <2>1, <2>2 DEF GivenOut
<1>35. Contents(k2)'
  <2> SUFFICES ASSUME NEW n \in Nodes, Live(k2, n)'
               PROVE  /\ data[n] \in Elements \ GivenOut'
                      /\ \A m \in Nodes : Live(k2, m)' /\ data[m] = data[n] => m = n
    BY <1>11 DEF Contents
  <2>1. Live(kind, n) /\ n # new
    BY <1>31
  <2>2. data[n] # data[new]
    BY <1>32, <2>1 DEF Shape, Contents
  <2> QED
    BY <1>31, <1>34, <2>1, <2>2 DEF Shape, Contents
<1>36. Items'
  <2>1. taken[data[new]] = 0
    <3>1. taken[data[new]] \in Nat /\ taken[data[new]] # 1 /\ taken[data[new]] <= 1
      BY <1>33 DEF GivenOut, Shape, Items, QueueTypeOK
    <3> QED
      BY <3>1
  <2> SUFFICES ASSUME NEW u \in Threads PROVE ItemOf(u)'
    BY <1>11 DEF Shape, Items
  <2>2. \A v \in Threads \ {t} : at[v].pc = "discount" => at[v].item # data[new]
    BY <1>33 DEF GivenOut
  <2>3. CASE u = t
    BY <1>10, <1>11, <1>33, <2>1, <2>2, <2>3 DEF ItemOf
  <2>4. CASE u # t
    <3>1. ItemOf(u) /\ at'[u] = at[u]
      BY <1>10, <2>4 DEF Shape, Items
    <3> QED
      BY <1>10, <1>11, <2>2, <2>4, <3>1 DEF ItemOf
  <2> QED
    BY <2>3, <2>4
<1>37. \A x \in Elements : Stored(x)' <=> Stored(x)
  BY <1>1, <1>11, <1>15, <1>16 DEF Stored
<1>38. Kept(k2)'
  <2> SUFFICES ASSUME NEW x \in Elements
               PROVE  Stored(x) <=>
                        (x \in GivenOut' \/ \E n \in Nodes : Live(k2, n)' /\ data[n] = x)
    BY <1>11, <1>37 DEF Kept
  <2>1. Stored(x) <=> (x \in GivenOut \/ \E n \in Nodes : Live(kind, n) /\ data[n] = x)
    BY DEF Shape, Kept
  <2> QED
    BY <1>31, <1>32, <1>34, <2>1
<1>39. Called'
  <2> SUFFICES ASSUME NEW u \in Threads PROVE CallOf(u)'
    BY DEF Called
  <2>1. CallOf(u) /\ (Enqueuing(u)' <=> Enqueuing(u))
        /\ (at'[u].pc = "alloc" <=> at[u].pc = "alloc")
    BY <1>1, <1>10, <1>15, <1>16 DEF Shape, Called
  <2> QED
    BY <1>11, <2>1 DEF CallOf
<1>40. Counts'
  <2>1. /\ IsFiniteSet(GivenOut) /\ data[new] \notin GivenOut
        /\ Cardinality(GivenOut) = head.count
    <3>1. GivenOut \subseteq Elements
      BY DEF GivenOut
    <3> QED
      BY <1>33, <3>1, FewElements, FS_Subset DEF Shape, Counts
  <2>2. Cardinality(GivenOut') = head.count + 1
    BY <1>34, <2>1, FS_AddElement
  <2>3. Cardinality(ThreadsAt({"countLinked", "countHelped"}))'
          = Cardinality(ThreadsAt({"countLinked", "countHelped"}))
    BY <1>10, ThreadPasses
  <2>4. Cardinality(ThreadsAt({"discount"}))' = Cardinality(ThreadsAt({"discount"})) + 1
    BY <1>10, ThreadComes
  <2>5. /\ Cardinality(ThreadsAt({"countLinked", "countHelped"})) \in Nat
        /\ Cardinality(ThreadsAt({"discount"})) \in Nat
    BY ThreadsAtFinite
  <2>6. Counts
    BY DEF Shape
  <2> QED
    BY <1>4, <1>8, <1>9, <1>11, <2>2, <2>3, <2>4, <2>5, <2>6 DEF Counts
<1>41. Ghosts(k2, b2, pos, rk, clock)'
  BY <1>13 DEF Ghosts
<1>42. Shape(k2, b2, pos, rk, clock)'
  BY <1>20, <1>21, <1>22, <1>26, <1>27, <1>28, <1>29, <1>30, <1>35, <1>36, <1>38, <1>39,
     <1>40, <1>41 DEF Shape
<1> QED
  BY <1>12, <1>42

\* Both outcomes of the exchange of the head.
LEMMA SwingHeadKeeps ==
    ASSUME NEW kind, NEW by, NEW pos, NEW rk, NEW clock, NEW t \in Threads,
           QueueTypeOK, Shape(kind, by, pos, rk, clock), SwingHead(t)
    PROVE  /\ QueueTypeOK'
           /\ \E k, b, p, r, c : Shape(k, b, p, r, c)'
<1>1. /\ at[t].pc = "swingHead"
      /\ UNCHANGED <<next, data, tail, size, free, calls, accepted, taken>>
  BY DEF SwingHead
<1>2. CASE head = at[t].head
  <2>1. head' = Pointer(at[t].headNext, head) /\ Goto(t, "discount")
    BY <1>2 DEF SwingHead
  <2> QED
    BY <1>1, <1>2, <2>1, HeadMoves
<1>3. CASE head # at[t].head
  <2>1. at' = [at EXCEPT ![t] = [Idle EXCEPT !.pc = "readHead"]] /\ head' = head
    BY <1>3 DEF SwingHead
  <2>2. QueueTypeOK' /\ Shape(kind, by, pos, rk, clock)'
    BY <1>1, <2>1, ClearingKeeps DEF list
  <2> QED
    BY <2>2
<1> QED
  BY <1>2, <1>3

\* The element is counted as given out.
LEMMA DiscountKeeps ==
    ASSUME NEW kind, NEW by, NEW pos, NEW rk, NEW clock, NEW t \in Threads,
           QueueTypeOK, Shape(kind, by, pos, rk, clock), Discount(t)
    PROVE  QueueTypeOK' /\ Shape(kind, by, pos, rk, clock)'
<1>1. PICK e \in Elements : e = at[t].item
  BY DEF Discount, Shape, Items, ItemOf
<1>2. /\ at[t].pc = "discount" /\ size' = size - 1 /\ taken' = [taken EXCEPT ![e] = @ + 1]
      /\ Goto(t, "free") /\ next' = next /\ data' = data /\ head' = head /\ tail' = tail
      /\ free' = free /\ calls' = calls /\ accepted' = accepted
  BY <1>1 DEF Discount, list
<1>3. /\ taken[e] = 0 /\ e \in GivenOut
      /\ \A u \in Threads : at[u].pc = "discount" /\ at[u].item = e => u = t
  BY <1>1, <1>2 DEF Shape, Items, ItemOf, GivenOut
<1>4. /\ taken' \in [Elements -> Nat] /\ taken'[e] = 1
      /\ \A x \in Elements \ {e} : taken'[x] = taken[x]
  BY <1>2, <1>3 DEF QueueTypeOK
<1>5. /\ at' \in [Threads -> Locals] /\ \A u \in Threads \ {t} : at'[u] = at[u]
      /\ at'[t].pc = "free" /\ at'[t].head = at[t].head /\ at'[t].headNext = at[t].headNext
  BY <1>2, Went DEF Pcs
<1>6. QueueTypeOK'
  BY <1>2, <1>4, <1>5 DEF QueueTypeOK
<1>7. \A u \in Threads : /\ Prelink(u)' <=> Prelink(u)
                         /\ Enqueuing(u)' <=> Enqueuing(u)
                         /\ Retires(u)' <=> Retires(u)
  BY <1>2, <1>5 DEF Prelink, Enqueuing, Retires
<1>8. ~Prelink(t) /\ Retires(t)
  BY <1>2 DEF Prelink, Retires
<1>9. Ghosts(kind, by, pos, rk, clock)'
  BY DEF Shape, Ghosts
<1>10. Placed(kind, by, pos)'
  <2>1. \A u \in Threads : Retires(u) => at'[u].head.node = at[u].head.node
    BY <1>5
  <2> QED
    BY <1>2, <1>7, <2>1 DEF Shape, Placed
<1>11. Holds(kind, by, pos)'
  BY <1>2, <1>5, <1>7, <1>8 DEF Shape, Holds, HoldOf
<1>12. Ends(kind, pos)' /\ Chained(kind, by, pos)' /\ Dense(kind, by, pos)'
  BY <1>2 DEF Shape, Ends, Chained, Dense, Linked, Same, Start
<1>13. Aged(kind, by, rk)'
  BY <1>5 DEF Shape, Aged, AgeOf
<1>14. Tails(kind)'
  BY <1>2, <1>5 DEF Shape, Tails, TailOf, HasTail
<1>15. Heads'
  BY <1>2, <1>5 DEF Shape, Heads, HeadOf, HasHead, HasNext
<1>16. GivenOut' = GivenOut
  <2>1. \A x \in Elements \ {e} :
           (\E u \in Threads : at'[u].pc = "discount" /\ at'[u].item = x)
             <=> (\E u \in Threads : at[u].pc = "discount" /\ at[u].item = x)
    BY <1>1, <1>5
  <2>2. \A x \in Elements \ {e} : x \in GivenOut' <=> x \in GivenOut
    BY <1>4, <2>1 DEF GivenOut
  <2>3. e \in GivenOut'
    BY <1>4 DEF GivenOut
  <2>4. GivenOut \subseteq Elements /\ GivenOut' \subseteq Elements
    BY DEF GivenOut
  <2> QED
    BY <1>3, <2>2, <2>3, <2>4
<1>17. Contents(kind)'
  BY <1>2, <1>16 DEF Shape, Contents, Live, Linked
<1>18. Items'
  <2>1. \A x \in Elements : taken'[x] <= 1
    BY <1>4 DEF Shape, Items
  <2>2. ASSUME NEW u \in Threads PROVE ItemOf(u)'
    <3>1. CASE u = t
      BY <1>5, <3>1 DEF ItemOf
    <3>2. CASE u # t
      <4>1. ItemOf(u) /\ at'[u] = at[u]
        BY <1>5, <3>2 DEF Shape, Items
      <4>2. at[u].pc = "discount" => at[u].item # e
        BY <1>3, <3>2
      <4>3. \A v \in Threads : at'[v].pc = "discount" => v # t /\ at'[v] = at[v]
        BY <1>5
      <4> QED
        BY <1>4, <4>1, <4>2, <4>3 DEF ItemOf
    <3> QED
      BY <3>1, <3>2
  <2> QED
    BY <2>1, <2>2 DEF Items
<1>19. \A x \in Elements : Stored(x)' <=> Stored(x)
  BY <1>2, <1>7 DEF Stored
<1>20. Kept(kind)'
  BY <1>2, <1>16, <1>19 DEF Shape, Kept, Live, Linked
<1>21. Called'
  <2> SUFFICES ASSUME NEW u \in Threads PROVE CallOf(u)'
    BY DEF Called
  <2>1. CallOf(u) /\ (at'[u].pc = "alloc" <=> at[u].pc = "alloc")
    BY <1>2, <1>5 DEF Shape, Called
  <2> QED
    BY <1>2, <1>7, <2>1 DEF CallOf
<1>22. Counts'
  <2>1. Cardinality(ThreadsAt({"countLinked", "countHelped"}))'
          = Cardinality(ThreadsAt({"countLinked", "countHelped"}))
    BY <1>2, <1>5, ThreadPasses
  <2>2. Cardinality(ThreadsAt({"discount"}))' = Cardinality(ThreadsAt({"discount"})) - 1
    BY <1>2, <1>5, ThreadLeaves
  <2>3. /\ Cardinality(ThreadsAt({"countLinked", "countHelped"})) \in Nat
        /\ Cardinality(ThreadsAt({"discount"})) \in Nat
    BY ThreadsAtFinite
  <2>4. head.count \in Nat /\ tail.count \in Nat /\ size \in Int
    BY FewElements DEF QueueTypeOK, Refs
  <2>5. Counts /\ size' = size - 1 /\ head' = head /\ tail' = tail
    BY <1>2 DEF Shape
  <2> QED
    BY <1>16, <2>1, <2>2, <2>3, <2>4, <2>5 DEF Counts
<1> QED
  BY <1>6, <1>9, <1>10, <1>11, <1>12, <1>13, <1>14, <1>15, <1>17, <1>18, <1>20, <1>21, <1>22
     DEF Shape

\* The old dummy goes back to the pool.
LEMMA FreeKeeps ==
    ASSUME NEW kind, NEW by, NEW pos, NEW rk, NEW clock, NEW t \in Threads,
           QueueTypeOK, Shape(kind, by, pos, rk, clock), Free(t)
    PROVE  /\ QueueTypeOK'
           /\ \E k, b, p, r, c : Shape(k, b, p, r, c)'
<1>1. Retires(t) /\ HoldOf(t, kind, by, pos) /\ at[t].pc = "free"
  BY DEF Free, Retires, Shape, Holds
<1>2. PICK old \in Nodes : old = at[t].head.node
  BY <1>1 DEF HoldOf, Refs
<1>3. kind[old] = "out" /\ by[old] = t /\ at[t].headNext \in Nodes
  BY <1>1, <1>2 DEF HoldOf
<1>4. next[old] # MyNull
  BY <1>3 DEF Shape, Placed
<1>5. /\ next' = next /\ data' = data /\ head' = head /\ tail' = tail /\ size' = size
      /\ free' = free \cup {old} /\ calls' = calls /\ accepted' = accepted /\ taken' = taken
  BY <1>2 DEF Free, list
<1>6. /\ at' \in [Threads -> Locals] /\ \A u \in Threads \ {t} : at'[u] = at[u]
      /\ at'[t].pc = "readTailLast"
  <2> DEFINE r == [Idle EXCEPT !.pc = "readTailLast", !.headNext = at[t].headNext]
  <2>1. r \in Locals /\ r.pc = "readTailLast"
    BY <1>3 DEF Idle, Locals, Pcs
  <2>2. at' = [at EXCEPT ![t] = r]
    BY DEF Free
  <2> HIDE DEF r
  <2> QED
    BY <2>1, <2>2, Moved DEF QueueTypeOK
<1>7. QueueTypeOK'
  BY <1>5, <1>6 DEF QueueTypeOK
<1>8. /\ kind \in [Nodes -> {"list", "held", "out", "free"}]
      /\ by \in [Nodes -> Threads \cup {MyNull}] /\ pos \in [Nodes -> Nat]
      /\ rk \in [Threads -> Nat] /\ clock \in Nat /\ \A u \in Threads : rk[u] < clock
  BY DEF Shape, Ghosts
<1> DEFINE k2 == [kind EXCEPT ![old] = "free"]
<1>9. Ghosts(k2, by, pos, rk, clock)
  BY <1>8 DEF Ghosts
<1>10. k2[old] = "free" /\ \A n \in Nodes \ {old} : k2[n] = kind[n]
  BY <1>8
<1> HIDE DEF k2
<1>11. \A u \in Threads : /\ Prelink(u)' <=> Prelink(u)
                          /\ Enqueuing(u)' <=> Enqueuing(u)
                          /\ u # t => (Retires(u)' <=> Retires(u))
  BY <1>1, <1>6 DEF Prelink, Enqueuing, Retires
<1>12. ~Prelink(t) /\ ~Retires(t)' /\ ~Enqueuing(t)
  BY <1>1, <1>6 DEF Prelink, Enqueuing, Retires
<1>13. Placed(k2, by, pos)'
  <2>1. \A n \in Nodes : n \in free' <=> k2[n] = "free"
    BY <1>5, <1>10 DEF Shape, Placed
  <2>2. \A n \in Nodes : k2[n] = "list" => by[n] = MyNull /\ pos[n] >= head'.count
    BY <1>5, <1>10 DEF Shape, Placed
  <2>3. \A n \in Nodes : k2[n] = "held" => by[n] \in Threads /\ Prelink(by[n])'
    BY <1>10, <1>11 DEF Shape, Placed
  <2>4. ASSUME NEW n \in Nodes, k2[n] = "out"
        PROVE  /\ by[n] \in Threads /\ Retires(by[n])' /\ at'[by[n]].head.node = n
               /\ next'[n] # MyNull
    <3>1. n # old /\ kind[n] = "out"
      BY <1>10, <2>4
    <3>2. by[n] \in Threads /\ Retires(by[n]) /\ at[by[n]].head.node = n /\ next[n] # MyNull
      BY <3>1 DEF Shape, Placed
    <3>3. by[n] # t
      BY <1>2, <3>1, <3>2
    <3> QED
      BY <1>5, <1>6, <1>11, <3>2, <3>3
  <2> QED
    BY <2>1, <2>2, <2>3, <2>4 DEF Placed
<1>14. Holds(k2, by, pos)'
  <2> SUFFICES ASSUME NEW u \in Threads PROVE HoldOf(u, k2, by, pos)'
    BY DEF Holds
  <2>1. CASE u = t
    BY <1>11, <1>12, <2>1 DEF HoldOf
  <2>2. CASE u # t
    <3>1. HoldOf(u, kind, by, pos) /\ at'[u] = at[u]
      BY <1>6, <2>2 DEF Shape, Holds
    <3>2. Prelink(u) => at[u].new \in Nodes \ {old}
      BY <1>3, <3>1 DEF HoldOf
    <3>3. Retires(u) => at[u].head.node \in Nodes \ {old}
      BY <1>3, <2>2, <3>1 DEF HoldOf, Refs
    <3> QED
      BY <1>10, <1>11, <2>2, <3>1, <3>2, <3>3 DEF HoldOf
  <2> QED
    BY <2>1, <2>2
<1>15. head.node \in Nodes \ {old} /\ tail.node \in Nodes \ {old}
  BY <1>3 DEF Shape, Ends, QueueTypeOK, Refs
<1>16. Ends(k2, pos)'
  BY <1>5, <1>10, <1>15 DEF Shape, Ends
<1>17. \A n \in Nodes : Linked(k2, n) <=> Linked(kind, n)
  BY <1>3, <1>10 DEF Linked
<1>18. \A m, n \in Nodes : Linked(kind, n) =>
          /\ Same(k2, by, m, n) <=> Same(kind, by, m, n)
          /\ Same(k2, by, n, m) <=> Same(kind, by, n, m)
  BY <1>3, <1>10 DEF Linked, Same
<1>19. Chained(k2, by, pos)'
  <2>1. \A n \in Nodes : next[n] \in Nodes \cup {MyNull}
    BY DEF QueueTypeOK
  <2> QED
    BY <1>5, <1>17, <1>18, <2>1 DEF Shape, Chained
<1>20. Dense(k2, by, pos)'
  <2> SUFFICES ASSUME NEW n \in Nodes, Linked(k2, n), NEW i \in Nat,
                      Start(k2, n)' <= i, i <= pos[n]
               PROVE  \E m \in Nodes : Same(k2, by, m, n) /\ pos[m] = i
    BY DEF Dense
  <2>1. Linked(kind, n) /\ Start(kind, n) <= i
    BY <1>3, <1>5, <1>10, <1>17 DEF Start, Linked
  <2> QED
    BY <1>18, <2>1 DEF Shape, Dense
<1>21. Aged(k2, by, rk)'
  <2> SUFFICES ASSUME NEW u \in Threads, at'[u].pc = "link", k2[at'[u].tail.node] = "held"
               PROVE  rk[u] < rk[by[at'[u].tail.node]]
    BY DEF Aged, AgeOf
  <2>1. u # t /\ at'[u] = at[u] /\ at[u].pc = "link"
    BY <1>6
  <2>2. at[u].tail.node \in Nodes
    BY <2>1 DEF Shape, Tails, TailOf, HasTail, Refs
  <2>3. kind[at[u].tail.node] = "held"
    BY <1>10, <2>1, <2>2
  <2> QED
    BY <2>1, <2>3 DEF Shape, Aged, AgeOf
<1>22. Tails(k2)'
  <2> SUFFICES ASSUME NEW u \in Threads PROVE TailOf(u, k2)'
    BY DEF Tails
  <2>1. CASE u = t
    BY <1>6, <2>1 DEF TailOf, HasTail
  <2>2. CASE u # t
    <3>1. TailOf(u, kind) /\ at'[u] = at[u]
      BY <1>6, <2>2 DEF Shape, Tails
    <3>2. HasTail(u) => at[u].tail.node \in Nodes
      BY <3>1 DEF TailOf, Refs
    <3>3. HasTail(u) /\ k2[at[u].tail.node] = "free" => next[at[u].tail.node] # MyNull
      BY <1>4, <1>10, <3>1, <3>2 DEF TailOf
    <3> QED
      BY <1>5, <3>1, <3>3 DEF TailOf, HasTail
  <2> QED
    BY <2>1, <2>2
<1>23. Heads'
  BY <1>5, <1>6 DEF Shape, Heads, HeadOf, HasHead, HasNext
<1>24. GivenOut' = GivenOut
  BY <1>1, <1>5, <1>6 DEF GivenOut
<1>25. \A n \in Nodes : Live(k2, n)' <=> Live(kind, n)
  BY <1>5, <1>17 DEF Live, Linked
<1>26. Contents(k2)'
  BY <1>5, <1>24, <1>25 DEF Shape, Contents
<1>27. Items'
  BY <1>1, <1>5, <1>6 DEF Shape, Items, ItemOf
<1>28. \A x \in Elements : Stored(x)' <=> Stored(x)
  BY <1>5, <1>11 DEF Stored
<1>29. Kept(k2)'
  BY <1>5, <1>24, <1>25, <1>28 DEF Shape, Kept
<1>30. Called'
  <2> SUFFICES ASSUME NEW u \in Threads PROVE CallOf(u)'
    BY DEF Called
  <2>1. CallOf(u) /\ (at'[u].pc = "alloc" <=> at[u].pc = "alloc")
    BY <1>1, <1>6 DEF Shape, Called
  <2> QED
    BY <1>5, <1>11, <2>1 DEF CallOf
<1>31. Counts'
  <2>1. /\ Cardinality(ThreadsAt({"countLinked", "countHelped"}))'
             = Cardinality(ThreadsAt({"countLinked", "countHelped"}))
        /\ Cardinality(ThreadsAt({"discount"}))' = Cardinality(ThreadsAt({"discount"}))
    BY <1>1, <1>6, ThreadPasses
  <2> QED
    BY <1>5, <1>24, <2>1 DEF Shape, Counts
<1>32. Ghosts(k2, by, pos, rk, clock)'
  BY <1>9 DEF Ghosts
<1>33. Shape(k2, by, pos, rk, clock)'
  BY <1>13, <1>14, <1>16, <1>19, <1>20, <1>21, <1>22, <1>23, <1>26, <1>27, <1>29, <1>30,
     <1>31, <1>32 DEF Shape
<1> QED
  BY <1>7, <1>33

-----------------------------------------------------------------------------
(* Every step keeps the invariant. *)

\* The invariant is inductive.
LEMMA QueueStep == QueueIInv /\ [Next]_vars => QueueIInv'
<1> SUFFICES ASSUME QueueIInv, [Next]_vars PROVE QueueIInv'
  OBVIOUS
<1>1. QueueTypeOK
  BY DEF QueueIInv
<1>2. PICK kind, by, pos, rk, clock : Shape(kind, by, pos, rk, clock)
  BY DEF QueueIInv
<1>3. SUFFICES QueueTypeOK' /\ \E k, b, p, r, c : Shape(k, b, p, r, c)'
  BY DEF QueueIInv
<1>4. CASE UNCHANGED vars
  <2>1. /\ next' = next /\ data' = data /\ head' = head /\ tail' = tail /\ size' = size
        /\ free' = free /\ at' = at /\ calls' = calls /\ accepted' = accepted /\ taken' = taken
    BY <1>4 DEF vars
  <2>2. QueueTypeOK'
    BY <1>1, <2>1 DEF QueueTypeOK
  <2>3. Ghosts(kind, by, pos, rk, clock)' /\ Placed(kind, by, pos)' /\ Holds(kind, by, pos)'
    BY <1>2, <2>1 DEF Shape, Ghosts, Placed, Holds, HoldOf, Prelink, Retires
  <2>4. /\ Ends(kind, pos)' /\ Chained(kind, by, pos)' /\ Dense(kind, by, pos)'
        /\ Aged(kind, by, rk)'
    BY <1>2, <2>1 DEF Shape, Ends, Chained, Dense, Aged, AgeOf, Linked, Same, Start
  <2>5. Tails(kind)' /\ Heads'
    BY <1>2, <2>1 DEF Shape, Tails, TailOf, HasTail, Heads, HeadOf, HasHead, HasNext
  <2>6. GivenOut' = GivenOut
    BY <2>1 DEF GivenOut
  <2>7. Contents(kind)' /\ Items' /\ Kept(kind)' /\ Called'
    BY <1>2, <2>1, <2>6 DEF Shape, Contents, Items, ItemOf, Kept, Stored, Called, CallOf,
       Live, Linked, Enqueuing, Prelink
  <2>8. Counts'
    BY <1>2, <2>1, <2>6 DEF Shape, Counts, ThreadsAt
  <2>9. Shape(kind, by, pos, rk, clock)'
    BY <2>3, <2>4, <2>5, <2>7, <2>8 DEF Shape
  <2> QED
    BY <2>2, <2>9
<1>5. ASSUME NEW t \in Threads, Enqueue(t) \/ Enqueue_NotFail(t) \/ Dequeue(t) \/ Step(t)
      PROVE  QueueTypeOK' /\ \E k, b, p, r, c : Shape(k, b, p, r, c)'
  <2>1. CASE Enqueue(t)
    <3>1. CASE size > MaxSize
      <4>1. BeginEnqueue(t, "idle")
        BY <2>1, <3>1 DEF Enqueue
      <4>2. QueueTypeOK' /\ Shape(kind, by, pos, rk, clock)'
        BY <1>1, <1>2, <4>1, BeginEnqueueKeeps
      <4> QED
        BY <4>2
    <3>2. CASE ~(size > MaxSize)
      <4>1. BeginEnqueue(t, "alloc")
        BY <2>1, <3>2 DEF Enqueue
      <4>2. QueueTypeOK' /\ Shape(kind, by, pos, rk, clock)'
        BY <1>1, <1>2, <4>1, BeginEnqueueKeeps
      <4> QED
        BY <4>2
    <3> QED
      BY <3>1, <3>2
  <2>2. CASE Enqueue_NotFail(t)
    <3>1. QueueTypeOK' /\ Shape(kind, by, pos, rk, clock)'
      BY <1>1, <1>2, <2>2, BeginEnqueueKeeps DEF Enqueue_NotFail
    <3> QED
      BY <3>1
  <2>3. CASE Dequeue(t)
    <3>1. QueueTypeOK' /\ Shape(kind, by, pos, rk, clock)'
      BY <1>1, <1>2, <2>3, DequeueKeeps
    <3> QED
      BY <3>1
  <2>4. CASE Alloc(t) \/ Link(t) \/ SwingHead(t) \/ Free(t)
    BY <1>1, <1>2, <2>4, AllocKeeps, LinkKeeps, SwingHeadKeeps, FreeKeeps
  <2>5. CASE ReadTail(t) \/ SwingTail(t) \/ CountLinked(t) \/ ReadTailNext(t) \/ HelpTail(t)
    <3>1. QueueTypeOK' /\ Shape(kind, by, pos, rk, clock)'
      BY <1>1, <1>2, <2>5, ReadTailKeeps, SwingTailKeeps, CountLinkedKeeps, ReadTailNextKeeps,
         HelpTailKeeps
    <3> QED
      BY <3>1
  <2>6. CASE CountHelped(t) \/ ReadHead(t) \/ ReadHeadNext(t) \/ CheckHead(t) \/ CompareTail(t)
    <3>1. QueueTypeOK' /\ Shape(kind, by, pos, rk, clock)'
      BY <1>1, <1>2, <2>6, CountHelpedKeeps, ReadHeadKeeps, ReadHeadNextKeeps, CheckHeadKeeps,
         CompareTailKeeps
    <3> QED
      BY <3>1
  <2>7. CASE \/ ReadNextAgain(t) \/ ReadLaggingTail(t) \/ ReadData(t) \/ Discount(t)
             \/ ReadTailLast(t)
    <3>1. QueueTypeOK' /\ Shape(kind, by, pos, rk, clock)'
      BY <1>1, <1>2, <2>7, ReadNextAgainKeeps, ReadLaggingTailKeeps, ReadDataKeeps,
         DiscountKeeps, ReadTailLastKeeps
    <3> QED
      BY <3>1
  <2> QED
    BY <1>5, <2>1, <2>2, <2>3, <2>4, <2>5, <2>6, <2>7 DEF Step
<1> QED
  BY <1>4, <1>5 DEF Next

\* The inductive invariant of CLockFreeQueue holds in every state that the calls of Enqueue
\* and Dequeue reach: the values it says exist can be chosen after each step.
THEOREM QueueInvariant == Spec => []QueueIInv
<1> QED
  BY QueueInit, QueueStep, PTL DEF Spec

-----------------------------------------------------------------------------
(* What Hop finds: the nodes of the list by their places.                    *)

HasPlace(kind, pos, p) == \E n \in Nodes : kind[n] = "list" /\ pos[n] = p
NodeAt(kind, pos, p) ==
    IF HasPlace(kind, pos, p) THEN CHOOSE n \in Nodes : kind[n] = "list" /\ pos[n] = p ELSE MyNull

\* One node a place.
LEMMA NodeAtPlace ==
    ASSUME NEW kind, NEW by, NEW pos, NEW rk, NEW clock,
           QueueTypeOK, Shape(kind, by, pos, rk, clock), NEW p
    PROVE  /\ \A n \in Nodes : kind[n] = "list" /\ pos[n] = p => NodeAt(kind, pos, p) = n
           /\ NodeAt(kind, pos, p) # MyNull =>
                 /\ NodeAt(kind, pos, p) \in Nodes
                 /\ kind[NodeAt(kind, pos, p)] = "list" /\ pos[NodeAt(kind, pos, p)] = p
           /\ HasPlace(kind, pos, p) <=> NodeAt(kind, pos, p) # MyNull
<1>1. \A m, n \in Nodes : kind[m] = "list" /\ kind[n] = "list" /\ pos[m] = pos[n] => m = n
  BY DEF Shape, Chained, Placed, Linked, Same
<1>2. CASE HasPlace(kind, pos, p)
  <2> DEFINE x == CHOOSE n \in Nodes : kind[n] = "list" /\ pos[n] = p
  <2>1. x \in Nodes /\ kind[x] = "list" /\ pos[x] = p
    BY <1>2 DEF HasPlace
  <2>2. NodeAt(kind, pos, p) = x /\ x # MyNull
    BY <1>2, <2>1, QueueAssumption DEF NodeAt
  <2> HIDE DEF x
  <2> QED
    BY <1>1, <1>2, <2>1, <2>2
<1>3. CASE ~HasPlace(kind, pos, p)
  BY <1>3 DEF NodeAt, HasPlace
<1> QED
  BY <1>2, <1>3

\* The link of a node leads to the next place.
LEMMA NodeAtNext ==
    ASSUME NEW kind, NEW by, NEW pos, NEW rk, NEW clock,
           QueueTypeOK, Shape(kind, by, pos, rk, clock), NEW p \in Nat, p >= head.count
    PROVE  NodeAt(kind, pos, p + 1) = IF NodeAt(kind, pos, p) = MyNull THEN MyNull
                                      ELSE next[NodeAt(kind, pos, p)]
<1>1. head.count \in Nat /\ \A n \in Nodes : pos[n] \in Nat
  BY FewElements DEF QueueTypeOK, Refs, Shape, Ghosts
<1>2. ASSUME NodeAt(kind, pos, p + 1) # MyNull
      PROVE  /\ NodeAt(kind, pos, p) # MyNull
             /\ next[NodeAt(kind, pos, p)] = NodeAt(kind, pos, p + 1)
  <2> DEFINE n == NodeAt(kind, pos, p + 1)
  <2>1. n \in Nodes /\ kind[n] = "list" /\ pos[n] = p + 1
    BY <1>2, NodeAtPlace
  <2> HIDE DEF n
  <2>2. Start(kind, n) <= p /\ p <= pos[n] /\ Linked(kind, n)
    BY <1>1, <2>1 DEF Start, Linked
  <2>3. PICK m \in Nodes : Same(kind, by, m, n) /\ pos[m] = p
    BY <2>1, <2>2 DEF Shape, Dense
  <2>4. next[m] = n
    BY <2>1, <2>2, <2>3 DEF Shape, Chained
  <2>5. NodeAt(kind, pos, p) = m /\ m # MyNull
    BY <2>1, <2>3, NodeAtPlace, QueueAssumption DEF Same
  <2> QED
    BY <2>4, <2>5 DEF n
<1>3. ASSUME NodeAt(kind, pos, p) # MyNull, next[NodeAt(kind, pos, p)] # MyNull
      PROVE  NodeAt(kind, pos, p + 1) # MyNull
  <2> DEFINE m == NodeAt(kind, pos, p)
  <2>1. m \in Nodes /\ kind[m] = "list" /\ pos[m] = p
    BY <1>3, NodeAtPlace
  <2>2. next[m] # MyNull /\ next[m] \in Nodes
    BY <1>3, <2>1 DEF QueueTypeOK
  <2> HIDE DEF m
  <2>3. kind[next[m]] = "list" /\ pos[next[m]] = p + 1
    BY <2>1, <2>2 DEF Shape, Chained, Linked, Same
  <2>4. NodeAt(kind, pos, p + 1) = next[m]
    BY <2>2, <2>3, NodeAtPlace
  <2> QED
    BY <2>2, <2>4
<1> QED
  BY <1>2, <1>3

\* Hop is defined by recursion.  The list itself is a function that satisfies the
\* recursion, so there is one, and the smallest number of links where the two
\* would differ does not exist.
LEMMA HopIsNodeAt ==
    ASSUME NEW kind, NEW by, NEW pos, NEW rk, NEW clock,
           QueueTypeOK, Shape(kind, by, pos, rk, clock)
    PROVE  \A k \in 0..Cardinality(Nodes) : Hop[k] = NodeAt(kind, pos, head.count + k)
<1> DEFINE N == Cardinality(Nodes)
           walk == [k \in 0..N |-> NodeAt(kind, pos, head.count + k)]
<1>1. N \in Nat /\ head.count \in Nat
  BY QueueAssumption, FewElements, FS_CardinalityType DEF QueueTypeOK, Refs
<1> HIDE DEF N
<1>2. NodeAt(kind, pos, head.count + 0) = head.node
  <2>1. head.node \in Nodes /\ kind[head.node] = "list" /\ pos[head.node] = head.count
    BY DEF Shape, Ends, QueueTypeOK, Refs
  <2>2. head.count + 0 = head.count
    BY <1>1
  <2> QED
    BY <2>1, <2>2, NodeAtPlace
<1>3. \A k \in 1..N : NodeAt(kind, pos, head.count + k) =
         IF NodeAt(kind, pos, head.count + (k - 1)) = MyNull THEN MyNull
         ELSE next[NodeAt(kind, pos, head.count + (k - 1))]
  <2> TAKE k \in 1..N
  <2>1. /\ head.count + (k - 1) \in Nat /\ head.count + (k - 1) >= head.count
        /\ (head.count + (k - 1)) + 1 = head.count + k
    BY <1>1
  <2> QED
    BY <2>1, NodeAtNext
<1>4. walk = [k \in 0..N |-> IF k = 0 THEN head.node
                             ELSE IF walk[k - 1] = MyNull THEN MyNull ELSE next[walk[k - 1]]]
  <2>1. \A k \in 0..N : walk[k] = IF k = 0 THEN head.node
                             ELSE IF walk[k - 1] = MyNull THEN MyNull ELSE next[walk[k - 1]]
    <3> TAKE k \in 0..N
    <3>1. CASE k = 0
      BY <1>2, <3>1
    <3>2. CASE k # 0
      <4>1. k \in 1..N /\ k - 1 \in 0..N
        BY <1>1, <3>2
      <4>2. walk[k] = NodeAt(kind, pos, head.count + k)
            /\ walk[k - 1] = NodeAt(kind, pos, head.count + (k - 1))
        BY <4>1
      <4> HIDE DEF walk
      <4> QED
        BY <1>3, <3>2, <4>1, <4>2
    <3> QED
      BY <3>1, <3>2
  <2>2. walk = [k \in 0..N |-> walk[k]]
    OBVIOUS
  <2> HIDE DEF walk
  <2> QED
    BY <2>1, <2>2
<1>5. \A k \in 0..N : walk[k] = NodeAt(kind, pos, head.count + k)
  OBVIOUS
<1> HIDE DEF walk
<1>6. Hop = [k \in 0..N |-> IF k = 0 THEN head.node
                            ELSE IF Hop[k - 1] = MyNull THEN MyNull ELSE next[Hop[k - 1]]]
  BY <1>4 DEF Hop, N
<1>7. \A k \in 0..N : Hop[k] = IF k = 0 THEN head.node
                            ELSE IF Hop[k - 1] = MyNull THEN MyNull ELSE next[Hop[k - 1]]
  BY <1>6
<1>8. \A k \in 0..N : walk[k] = IF k = 0 THEN head.node
                            ELSE IF walk[k - 1] = MyNull THEN MyNull ELSE next[walk[k - 1]]
  BY <1>4
<1> DEFINE Differ == {k \in 0..N : Hop[k] # walk[k]}
<1>9. Differ = {}
  <2>1. SUFFICES ASSUME Differ # {} PROVE FALSE
    OBVIOUS
  <2>2. Differ \subseteq Nat
    BY <1>1
  <2>3. PICK k \in Differ : \A j \in Differ : ~ (<<j, k>> \in OpToRel(<, Nat))
    <3> HIDE DEF Differ
    <3> QED
      BY <2>1, <2>2, NatLessThanWellFounded, WFMin
  <2>4. \A j \in Differ : ~ (j < k)
    BY <2>2, <2>3 DEF OpToRel
  <2>5. k # 0
    BY <1>1, <1>7, <1>8
  <2>6. k \in 0..N /\ k - 1 \in 0..N /\ k - 1 < k
    BY <1>1, <2>5
  <2>7. Hop[k - 1] = walk[k - 1]
    BY <2>4, <2>6
  <2>8. Hop[k] = walk[k]
    BY <1>7, <1>8, <2>5, <2>6, <2>7
  <2> QED
    BY <2>8
<1> QED
  BY <1>5, <1>9 DEF N

\* The places from the head to a node hold as many nodes.
LEMMA PlacesFew ==
    ASSUME NEW kind, NEW by, NEW pos, NEW rk, NEW clock,
           QueueTypeOK, Shape(kind, by, pos, rk, clock), NEW n \in Nodes, kind[n] = "list"
    PROVE  /\ pos[n] - head.count \in 0..Cardinality(Nodes)
           /\ pos[n] - head.count # Cardinality(Nodes)
<1> DEFINE S == head.count..pos[n]
           f == [i \in S |-> NodeAt(kind, pos, i)]
<1>1. head.count \in Nat /\ pos[n] \in Nat /\ pos[n] >= head.count
  BY FewElements DEF QueueTypeOK, Refs, Shape, Ghosts, Placed
<1>2. \A i \in S : NodeAt(kind, pos, i) \in Nodes /\ pos[NodeAt(kind, pos, i)] = i
  <2> TAKE i \in S
  <2>1. i \in Nat /\ Start(kind, n) <= i /\ i <= pos[n] /\ Linked(kind, n)
    BY <1>1 DEF Start, Linked
  <2>2. PICK m \in Nodes : Same(kind, by, m, n) /\ pos[m] = i
    BY <2>1 DEF Shape, Dense
  <2>3. NodeAt(kind, pos, i) = m
    BY <2>2, NodeAtPlace DEF Same
  <2> QED
    BY <2>2, <2>3
<1>3. IsFiniteSet(Nodes) /\ Cardinality(Nodes) \in Nat
  BY QueueAssumption, FS_CardinalityType
<1>4. Cardinality(S) = pos[n] - head.count + 1
  <2>0. head.count \in Int /\ pos[n] \in Int
    BY <1>1
  <2>1. Cardinality(head.count..pos[n])
            = IF head.count > pos[n] THEN 0 ELSE pos[n] - head.count + 1
    BY <2>0, FS_Interval
  <2> QED
    BY <1>1, <2>1
<1> HIDE DEF S
<1>5. f \in Injection(S, Nodes)
  BY <1>2 DEF Injection, IsInjective
<1>6. Cardinality(S) <= Cardinality(Nodes)
  BY <1>3, <1>5, FS_Injection
<1> QED
  BY <1>1, <1>3, <1>4, <1>6

\* The places are those of the nodes of the list.
LEMMA PlaceOf ==
    ASSUME NEW kind, NEW by, NEW pos, NEW rk, NEW clock,
           QueueTypeOK, Shape(kind, by, pos, rk, clock)
    PROVE  /\ \A k \in Places : /\ k \in 0..Cardinality(Nodes) /\ Hop[k] \in Nodes
                                /\ kind[Hop[k]] = "list" /\ pos[Hop[k]] = head.count + k
           /\ \A n \in Nodes : kind[n] = "list" =>
                 pos[n] - head.count \in Places /\ Hop[pos[n] - head.count] = n
<1>1. \A k \in Places : /\ k \in 0..Cardinality(Nodes) /\ Hop[k] \in Nodes
                        /\ kind[Hop[k]] = "list" /\ pos[Hop[k]] = head.count + k
  <2> TAKE k \in Places
  <2>1. k \in 0..Cardinality(Nodes) /\ Hop[k] # MyNull
    BY DEF Places
  <2>2. Hop[k] = NodeAt(kind, pos, head.count + k)
    BY <2>1, HopIsNodeAt
  <2> QED
    BY <2>1, <2>2, NodeAtPlace
<1>2. ASSUME NEW n \in Nodes, kind[n] = "list"
      PROVE  pos[n] - head.count \in Places /\ Hop[pos[n] - head.count] = n
  <2> DEFINE k == pos[n] - head.count
  <2>1. k \in 0..Cardinality(Nodes)
    BY <1>2, PlacesFew
  <2>2. head.count \in Nat /\ pos[n] \in Nat
    BY FewElements DEF QueueTypeOK, Refs, Shape, Ghosts
  <2>3. head.count + k = pos[n]
    BY <2>2
  <2> HIDE DEF k
  <2>4. Hop[k] = NodeAt(kind, pos, pos[n])
    BY <2>1, <2>3, HopIsNodeAt
  <2>5. Hop[k] = n /\ n # MyNull
    BY <1>2, <2>4, NodeAtPlace, QueueAssumption
  <2> QED
    BY <2>1, <2>5 DEF Places, k
<1> QED
  BY <1>1, <1>2

\* The places of the list hold nodes of the list, fewer than there are nodes, the tail one
\* of them.
LEMMA SoundFromIInv == QueueIInv => ListIsSound
<1> SUFFICES ASSUME QueueIInv PROVE ListIsSound
  OBVIOUS
<1>1. QueueTypeOK
  BY DEF QueueIInv
<1>2. PICK kind, by, pos, rk, clock : Shape(kind, by, pos, rk, clock)
  BY DEF QueueIInv
<1>3. Cardinality(Nodes) \notin Places
  <2>1. SUFFICES ASSUME Cardinality(Nodes) \in Places PROVE FALSE
    OBVIOUS
  <2> DEFINE n == Hop[Cardinality(Nodes)]
  <2>2. n \in Nodes /\ kind[n] = "list" /\ pos[n] = head.count + Cardinality(Nodes)
    BY <1>1, <1>2, <2>1, PlaceOf
  <2>3. pos[n] - head.count # Cardinality(Nodes)
    BY <1>1, <1>2, <2>2, PlacesFew
  <2>4. head.count \in Nat /\ Cardinality(Nodes) \in Nat
    BY <1>1, FewElements, QueueAssumption, FS_CardinalityType DEF QueueTypeOK, Refs
  <2> HIDE DEF n
  <2> QED
    BY <2>2, <2>3, <2>4
<1>4. {Hop[k] : k \in Places} \cap free = {}
  <2>1. \A k \in Places : Hop[k] \in Nodes /\ kind[Hop[k]] = "list"
    BY <1>1, <1>2, PlaceOf
  <2>2. \A k \in Places : Hop[k] \notin free
    BY <1>2, <2>1 DEF Shape, Placed
  <2> QED
    BY <2>2
<1>5. tail.node \in {Hop[k] : k \in Places}
  <2>1. tail.node \in Nodes /\ kind[tail.node] = "list"
    BY <1>1, <1>2 DEF Shape, Ends, QueueTypeOK, Refs
  <2> QED
    BY <1>1, <1>2, <2>1, PlaceOf
<1> QED
  BY <1>3, <1>4, <1>5 DEF ListIsSound

\* The tail is at the place that the difference of the two counters says.
LEMMA SizeFromIInv == QueueIInv => SizeAgrees
<1> SUFFICES ASSUME QueueIInv PROVE SizeAgrees
  OBVIOUS
<1>1. QueueTypeOK
  BY DEF QueueIInv
<1>2. PICK kind, by, pos, rk, clock : Shape(kind, by, pos, rk, clock)
  BY DEF QueueIInv
<1>3. tail.node \in Nodes /\ kind[tail.node] = "list" /\ pos[tail.node] = tail.count
  BY <1>1, <1>2 DEF Shape, Ends, QueueTypeOK, Refs
<1>4. tail.count - head.count \in Places /\ Hop[tail.count - head.count] = tail.node
  BY <1>1, <1>2, <1>3, PlaceOf
<1>5. size = tail.count - head.count - Cardinality(ThreadsAt({"countLinked", "countHelped"}))
                                     + Cardinality(ThreadsAt({"discount"}))
  BY <1>2 DEF Shape, Counts
<1> QED
  BY <1>4, <1>5 DEF SizeAgrees

\* When no call is under way every node in use is in the list.
LEMMA QuietList ==
    ASSUME NEW kind, NEW by, NEW pos, NEW rk, NEW clock,
           QueueTypeOK, Shape(kind, by, pos, rk, clock), Quiet
    PROVE  /\ \A n \in Nodes : Live(kind, n) <=> kind[n] = "list" /\ n # head.node
           /\ \A e \in Elements : e \in GivenOut <=> taken[e] = 1
           /\ \A e \in Elements : Stored(e) <=> e \in accepted
<1>1. \A t \in Threads : at[t].pc = "idle" /\ ~Prelink(t) /\ ~Enqueuing(t)
  BY DEF Quiet, Prelink, Enqueuing
<1>2. \A n \in Nodes : kind[n] # "held"
  BY <1>1 DEF Shape, Placed
<1> QED
  BY <1>1, <1>2 DEF Live, Linked, GivenOut, Stored

\* The live nodes hold what is stored and not given out; between calls those are the nodes
\* of the list behind the dummy.
LEMMA OnceFromIInv == QueueIInv => ExactlyOnce
<1> SUFFICES ASSUME QueueIInv PROVE ExactlyOnce
  OBVIOUS
<1>1. QueueTypeOK
  BY DEF QueueIInv
<1>2. PICK kind, by, pos, rk, clock : Shape(kind, by, pos, rk, clock)
  BY DEF QueueIInv
<1>3. \A e \in Elements : taken[e] <= 1
  BY <1>2 DEF Shape, Items
<1>4. /\ head.count \in Nat /\ head.node \in Nodes /\ kind[head.node] = "list"
      /\ pos[head.node] = head.count
  BY <1>1, <1>2, FewElements DEF Shape, Ends, QueueTypeOK, Refs
<1>5. 0 \in Places /\ Hop[0] = head.node
  <2>1. head.count - head.count = 0
    BY <1>4
  <2> QED
    BY <1>1, <1>2, <1>4, <2>1, PlaceOf
<1>6. \A k \in Places \ {0} : /\ Hop[k] \in Nodes /\ Live(kind, Hop[k])
  <2> TAKE k \in Places \ {0}
  <2>1. /\ k \in 0..Cardinality(Nodes) /\ Hop[k] \in Nodes
        /\ kind[Hop[k]] = "list" /\ pos[Hop[k]] = head.count + k
    BY <1>1, <1>2, PlaceOf
  <2>2. head.count + k # head.count
    BY <1>4, <2>1
  <2> QED
    BY <1>4, <2>1, <2>2 DEF Live, Linked
<1>7. \A j, k \in Places : Hop[j] = Hop[k] => j = k
  <2> TAKE j, k \in Places
  <2> HAVE Hop[j] = Hop[k]
  <2>1. /\ j \in 0..Cardinality(Nodes) /\ k \in 0..Cardinality(Nodes)
        /\ head.count + j = head.count + k
    BY <1>1, <1>2, PlaceOf
  <2> QED
    BY <1>4, <2>1
<1>8. ASSUME Quiet PROVE Queued = {e \in accepted : taken[e] = 0}
  <2>1. /\ \A n \in Nodes : Live(kind, n) <=> kind[n] = "list" /\ n # head.node
        /\ \A e \in Elements : e \in GivenOut <=> taken[e] = 1
        /\ \A e \in Elements : Stored(e) <=> e \in accepted
    BY <1>1, <1>2, <1>8, QuietList
  <2>2. \A e \in Elements : taken[e] = 0 <=> taken[e] # 1
    <3> TAKE e \in Elements
    <3>1. taken[e] \in Nat /\ taken[e] <= 1
      BY <1>1, <1>3 DEF QueueTypeOK
    <3> QED
      BY <3>1
  <2>3. ASSUME NEW e \in Queued PROVE e \in accepted /\ taken[e] = 0
    <3>1. PICK k \in Places \ {0} : e = data[Hop[k]]
      BY <2>3 DEF Queued
    <3>2. Hop[k] \in Nodes /\ Live(kind, Hop[k])
      BY <1>6
    <3>3. e \in Elements \ GivenOut
      BY <1>2, <3>1, <3>2 DEF Shape, Contents
    <3>4. Stored(e)
      BY <1>2, <3>1, <3>2, <3>3 DEF Shape, Kept
    <3> QED
      BY <2>1, <2>2, <3>3, <3>4
  <2>4. ASSUME NEW e \in accepted, taken[e] = 0 PROVE e \in Queued
    <3>1. e \in Elements /\ Stored(e) /\ e \notin GivenOut
      BY <1>1, <2>1, <2>2, <2>4 DEF QueueTypeOK
    <3>2. PICK n \in Nodes : Live(kind, n) /\ data[n] = e
      BY <1>2, <3>1 DEF Shape, Kept
    <3>3. kind[n] = "list" /\ n # head.node
      BY <2>1, <3>2
    <3> DEFINE k == pos[n] - head.count
    <3>4. k \in Places /\ Hop[k] = n
      BY <1>1, <1>2, <3>3, PlaceOf
    <3> HIDE DEF k
    <3>5. k # 0
      BY <1>5, <3>3, <3>4
    <3> QED
      BY <3>2, <3>4, <3>5 DEF Queued
  <2> QED
    BY <2>3, <2>4
<1>9. Cardinality(Queued) = Cardinality(Places) - 1
  <2> DEFINE S == Places \ {0}
             f == [k \in S |-> data[Hop[k]]]
  <2>1. Cardinality(Nodes) \in Nat
    BY QueueAssumption, FS_CardinalityType
  <2>2. IsFiniteSet(0..Cardinality(Nodes)) /\ Places \subseteq 0..Cardinality(Nodes)
    BY <2>1, FS_Interval DEF Places
  <2>3. IsFiniteSet(Places)
    BY <2>2, FS_Subset
  <2>4. IsFiniteSet(S) /\ Cardinality(S) = Cardinality(Places) - 1
    BY <1>5, <2>3, FS_RemoveElement
  <2>5. \A j, k \in S : data[Hop[j]] = data[Hop[k]] => j = k
    <3> TAKE j, k \in S
    <3> HAVE data[Hop[j]] = data[Hop[k]]
    <3>1. /\ Hop[j] \in Nodes /\ Live(kind, Hop[j])
          /\ Hop[k] \in Nodes /\ Live(kind, Hop[k])
      BY <1>6
    <3>2. Hop[j] = Hop[k]
      BY <1>2, <3>1 DEF Shape, Contents
    <3> QED
      BY <1>7, <3>2
  <2>6. Queued = {data[Hop[k]] : k \in S}
    BY DEF Queued
  <2> HIDE DEF S
  <2>7. f \in Surjection(S, Queued) /\ f \in Injection(S, Queued)
    BY <2>5, <2>6 DEF Surjection, Injection, IsInjective
  <2>8. Cardinality(Queued) = Cardinality(S)
    BY <2>4, <2>7, FS_Surjection
  <2> QED
    BY <2>4, <2>8
<1> QED
  BY <1>3, <1>8, <1>9 DEF ExactlyOnce

-----------------------------------------------------------------------------
(* The results. *)

\* However the calls of Enqueue and Dequeue interleave, the list holds no node that the
\* pool may hand out, has an end, and the tail is in it.
THEOREM QueueListIsSound == Spec => []ListIsSound
<1> QED
  BY QueueInvariant, SoundFromIInv, PTL

\* Dequeue gives no element out twice, and when no call is under way the list holds exactly
\* the elements enqueued and not given out, each once.
THEOREM QueueExactlyOnce == Spec => []ExactlyOnce
<1> QED
  BY QueueInvariant, OnceFromIInv, PTL

\* _size differs from the length of the list only by the threads that have moved the head or
\* the tail and have not counted it yet.
THEOREM QueueSizeAgrees == Spec => []SizeAgrees
<1> QED
  BY QueueInvariant, SizeFromIInv, PTL
=============================================================================
