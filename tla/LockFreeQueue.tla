-------------------------- MODULE LockFreeQueue --------------------------
(* CLockFreeQueue, the queue of the sessions' send packets, of a zone's jobs *)
(* and of the zones of a pinned thread: a Michael-Scott list whose head and  *)
(* tail carry a counter, whose nodes come from a pool and go back to it at   *)
(* once, and whose end is marked by an address of the queue's own.           *)
(* One action is one access to shared memory. A thread's locals are read     *)
(* only where the code reads them; they are reset when its call returns.     *)
EXTENDS Integers, FiniteSets, SequencesExt

CONSTANTS Threads, Nodes,
    MyNull,        \* _pMyNull, the end of this queue's list
    MaxSize,       \* _maxSize
    MaxEnqueue,    \* bound: elements a thread enqueues
    MaxDequeue     \* bound: dequeues a thread begins

ASSUME QueueAssumption ==
    /\ MyNull \notin Nodes
    /\ {MaxSize, MaxEnqueue, MaxDequeue} \subseteq Nat
    /\ IsFiniteSet(Threads) /\ IsFiniteSet(Nodes)
    /\ Cardinality(Nodes) > Cardinality(Threads) * MaxEnqueue   \* the pool is never empty

VARIABLES
    next, data,    \* of every node, in the list or in the pool
    head, tail,    \* _head and _tail: an address and a counter
    size,          \* _size
    free,          \* nodes in the pool
    at,            \* thread -> the access it makes next, and its locals
    calls,         \* thread -> the calls it has begun
    accepted,      \* elements whose Enqueue has returned true
    taken          \* element -> how many times a Dequeue gave it out

list == <<next, data, head, tail>>
vars == <<next, data, head, tail, size, free, at, calls, accepted, taken>>

Elements == Threads \X (1..MaxEnqueue)
NoElement == <<>>

CounterValues == 2^17                                \* LOCKFREE_QUEUE_COUNTER_BIT

\* A bound of the runs: fewer enqueues than a counter has values, so that no
\* counter comes round while a thread sleeps in its call.
ASSUME CounterAssumption == Cardinality(Threads) * MaxEnqueue < CounterValues

Pointer(n, old) == [node |-> n, count |-> (old.count + 1) % CounterValues]

Idle == [pc |-> "idle", new |-> MyNull, head |-> MyNull, tail |-> MyNull,
         headNext |-> MyNull, tailNext |-> MyNull, item |-> NoElement, to |-> "idle"]

Goto(t, pc) == at' = [at EXCEPT ![t].pc = pc]
Return(t) == at' = [at EXCEPT ![t] = Idle]

\* After the help the locals are dead, but for those of the loop of Enqueue.
Resume(t) ==
    at' = [at EXCEPT ![t] =
              IF at[t].to = "readTail" THEN [Idle EXCEPT !.pc = "readTail", !.new = at[t].new]
                                       ELSE [Idle EXCEPT !.pc = at[t].to]]

-----------------------------------------------------------------------------
(* Faulty variants of four steps, each the mistake its property is there to  *)
(* find; nothing but the runs with a fault uses them.                        *)

\* Retries without moving the tail of the thread that stopped after its link.
Link_NoHelp(t) ==
    LET last == at[t].tail.node IN
    /\ at[t].pc = "link"
    /\ IF next[last] = MyNull
       THEN /\ next' = [next EXCEPT ![last] = at[t].new]
            /\ Goto(t, "swingTail")
       ELSE /\ Goto(t, "readTail")
            /\ UNCHANGED next
    /\ UNCHANGED <<data, head, tail, size, free, calls, accepted, taken>>

\* The helper moves the tail and leaves the size to its owner.
HelpTail_NotCounted(t) ==
    /\ at[t].pc = "helpTail"
    /\ tail' = IF tail = at[t].tail THEN Pointer(at[t].tailNext, tail) ELSE tail
    /\ Resume(t)
    /\ UNCHANGED <<next, data, head, size, free, calls, accepted, taken>>

\* Takes the head past a tail that lags at the dummy.
CompareTail_Skipped(t) ==
    /\ at[t].pc = "compareTail"
    /\ Goto(t, "readData")
    /\ UNCHANGED <<list, size, free, calls, accepted, taken>>

\* Compares the address of the head and not its counter.
SwingHead_NoCounter(t) ==
    /\ at[t].pc = "swingHead"
    /\ IF head.node = at[t].head.node
       THEN head' = Pointer(at[t].headNext, head) /\ Goto(t, "discount")
       ELSE at' = [at EXCEPT ![t] = [Idle EXCEPT !.pc = "readHead"]] /\ UNCHANGED head
    /\ UNCHANGED <<next, data, tail, size, free, calls, accepted, taken>>

-----------------------------------------------------------------------------
(* Enqueue and Enqueue_NotFail. *)

\* The pool hands out any node it has. Nodes that were never in the list are
\* alike: one of them stands for all.
NeverUsed == {n \in free : next[n] = MyNull}
Alike == IF NeverUsed = {} THEN {} ELSE {CHOOSE n \in NeverUsed : TRUE}
PoolAlloc == (free \ NeverUsed) \cup Alike

\* A node keeps its old contents until the two stores that follow, which no
\* other thread can tell from one step.
Alloc(t) ==
    \E n \in PoolAlloc :
        LET e == <<t, calls[t].enqueue>> IN
        /\ at[t].pc = "alloc"
        /\ free' = free \ {n}
        /\ next' = [next EXCEPT ![n] = MyNull]
        /\ data' = [data EXCEPT ![n] = e]
        /\ at' = [at EXCEPT ![t].pc = "readTail", ![t].new = n]
        /\ UNCHANGED <<head, tail, size, calls, accepted, taken>>

BeginEnqueue(t, pc) ==
    /\ at[t].pc = "idle"
    /\ calls[t].enqueue < MaxEnqueue
    /\ calls' = [calls EXCEPT ![t].enqueue = @ + 1]
    /\ Goto(t, pc)
    /\ UNCHANGED <<list, size, free, accepted, taken>>

\* The queue holds the limit plus one: the test is > and comes first.
Enqueue(t) == BeginEnqueue(t, IF size > MaxSize THEN "idle" ELSE "alloc")

Enqueue_NotFail(t) == BeginEnqueue(t, "alloc")

ReadTail(t) ==
    /\ at[t].pc = "readTail"
    /\ at' = [at EXCEPT ![t].pc = "link", ![t].tail = tail]
    /\ UNCHANGED <<list, size, free, calls, accepted, taken>>

\* The first compare-exchange, on the next pointer of the node that was the
\* tail: that pointer has no counter.
Link(t) ==
    LET last == at[t].tail.node IN
    /\ at[t].pc = "link"
    /\ IF next[last] = MyNull
       THEN /\ next' = [next EXCEPT ![last] = at[t].new]
            /\ Goto(t, "swingTail")
       ELSE /\ at' = [at EXCEPT ![t].pc = "readTailNext", ![t].to = "readTail"]
            /\ UNCHANGED next
    /\ UNCHANGED <<data, head, tail, size, free, calls, accepted, taken>>

\* Enqueue returns: after a failed exchange at once, after a successful one
\* when the size is counted.
EnqueueReturns(t) == accepted' = accepted \cup {<<t, calls[t].enqueue>>}

SwingTail(t) ==
    /\ at[t].pc = "swingTail"
    /\ IF tail = at[t].tail
       THEN /\ tail' = Pointer(at[t].new, tail)
            /\ Goto(t, "countLinked")
            /\ UNCHANGED accepted
       ELSE /\ Return(t)
            /\ EnqueueReturns(t)
            /\ UNCHANGED tail
    /\ UNCHANGED <<next, data, head, size, free, calls, taken>>

CountLinked(t) ==
    /\ at[t].pc = "countLinked"
    /\ size' = size + 1
    /\ Return(t)
    /\ EnqueueReturns(t)
    /\ UNCHANGED <<list, free, calls, taken>>

-----------------------------------------------------------------------------
(* Moving a tail that lags on behalf of another thread. *)

ReadTailNext(t) ==
    /\ at[t].pc = "readTailNext"
    /\ IF next[at[t].tail.node] # MyNull
       THEN at' = [at EXCEPT ![t].pc = "helpTail", ![t].tailNext = next[at[t].tail.node]]
       ELSE Resume(t)
    /\ UNCHANGED <<list, size, free, calls, accepted, taken>>

HelpTail(t) ==
    /\ at[t].pc = "helpTail"
    /\ IF tail = at[t].tail
       THEN tail' = Pointer(at[t].tailNext, tail) /\ Goto(t, "countHelped")
       ELSE Resume(t) /\ UNCHANGED tail
    /\ UNCHANGED <<next, data, head, size, free, calls, accepted, taken>>

CountHelped(t) ==
    /\ at[t].pc = "countHelped"
    /\ size' = size + 1
    /\ Resume(t)
    /\ UNCHANGED <<list, free, calls, accepted, taken>>

-----------------------------------------------------------------------------
(* Dequeue. *)

Dequeue(t) ==
    /\ at[t].pc = "idle"
    /\ calls[t].dequeue < MaxDequeue
    /\ calls' = [calls EXCEPT ![t].dequeue = @ + 1]
    /\ Goto(t, "readHead")
    /\ UNCHANGED <<list, size, free, accepted, taken>>

ReadHead(t) ==
    /\ at[t].pc = "readHead"
    /\ at' = [at EXCEPT ![t].pc = "readHeadNext", ![t].head = head]
    /\ UNCHANGED <<list, size, free, calls, accepted, taken>>

ReadHeadNext(t) ==
    LET n == next[at[t].head.node] IN
    /\ at[t].pc = "readHeadNext"
    /\ at' = [at EXCEPT ![t].headNext = n,
                        ![t].pc = IF n = MyNull THEN "checkHead" ELSE "compareTail"]
    /\ UNCHANGED <<list, size, free, calls, accepted, taken>>

\* The end of the list is the end of the queue only if the head has not moved.
CheckHead(t) ==
    /\ at[t].pc = "checkHead"
    /\ at' = [at EXCEPT ![t] = IF head = at[t].head THEN Idle ELSE [Idle EXCEPT !.pc = "readHead"]]
    /\ UNCHANGED <<list, size, free, calls, accepted, taken>>

CompareTail(t) ==
    /\ at[t].pc = "compareTail"
    /\ Goto(t, IF tail.node = at[t].head.node THEN "readNextAgain" ELSE "readData")
    /\ UNCHANGED <<list, size, free, calls, accepted, taken>>

\* The second reading of the next pointer does not look at the head again.
ReadNextAgain(t) ==
    /\ at[t].pc = "readNextAgain"
    /\ IF next[at[t].head.node] = MyNull THEN Return(t) ELSE Goto(t, "readLaggingTail")
    /\ UNCHANGED <<list, size, free, calls, accepted, taken>>

ReadLaggingTail(t) ==
    /\ at[t].pc = "readLaggingTail"
    /\ at' = [at EXCEPT ![t] = [Idle EXCEPT !.pc = "readTailNext", !.tail = tail, !.to = "readHead"]]
    /\ UNCHANGED <<list, size, free, calls, accepted, taken>>

\* May read a node that was given out and filled again; the exchange tells.
ReadData(t) ==
    /\ at[t].pc = "readData"
    /\ at' = [at EXCEPT ![t].pc = "swingHead", ![t].item = data[at[t].headNext]]
    /\ UNCHANGED <<list, size, free, calls, accepted, taken>>

SwingHead(t) ==
    /\ at[t].pc = "swingHead"
    /\ IF head = at[t].head
       THEN head' = Pointer(at[t].headNext, head) /\ Goto(t, "discount")
       ELSE at' = [at EXCEPT ![t] = [Idle EXCEPT !.pc = "readHead"]] /\ UNCHANGED head
    /\ UNCHANGED <<next, data, tail, size, free, calls, accepted, taken>>

Discount(t) ==
    /\ at[t].pc = "discount"
    /\ size' = size - 1
    /\ taken' = [taken EXCEPT ![at[t].item] = @ + 1]
    /\ Goto(t, "free")
    /\ UNCHANGED <<list, free, calls, accepted>>

\* The old dummy goes back to the pool with its contents.
Free(t) ==
    /\ at[t].pc = "free"
    /\ free' = free \cup {at[t].head.node}
    /\ at' = [at EXCEPT ![t] = [Idle EXCEPT !.pc = "readTailLast", !.headNext = at[t].headNext]]
    /\ UNCHANGED <<list, size, calls, accepted, taken>>

\* The head came to where the tail was: a tail that lags there is moved on.
ReadTailLast(t) ==
    /\ at[t].pc = "readTailLast"
    /\ at' = [at EXCEPT ![t] =
                 IF tail.node = at[t].headNext
                 THEN [Idle EXCEPT !.pc = "readTailNext", !.tail = tail, !.to = "idle"]
                 ELSE Idle]
    /\ UNCHANGED <<list, size, free, calls, accepted, taken>>

-----------------------------------------------------------------------------
\* The constructor: head and tail at one dummy node.
Init ==
    LET dummy == CHOOSE n \in Nodes : TRUE IN
        /\ next = [n \in Nodes |-> MyNull]
        /\ data = [n \in Nodes |-> NoElement]
        /\ head = [node |-> dummy, count |-> 0]
        /\ tail = [node |-> dummy, count |-> 0]
        /\ size = 0
        /\ free = Nodes \ {dummy}
        /\ at = [t \in Threads |-> Idle]
        /\ calls = [t \in Threads |-> [enqueue |-> 0, dequeue |-> 0]]
        /\ accepted = {}
        /\ taken = [e \in Elements |-> 0]

\* A step inside a call.
Step(t) ==
    \/ Alloc(t) \/ ReadTail(t) \/ Link(t) \/ SwingTail(t) \/ CountLinked(t)
    \/ ReadTailNext(t) \/ HelpTail(t) \/ CountHelped(t)
    \/ ReadHead(t) \/ ReadHeadNext(t) \/ CheckHead(t) \/ CompareTail(t)
    \/ ReadNextAgain(t) \/ ReadLaggingTail(t) \/ ReadData(t) \/ SwingHead(t)
    \/ Discount(t) \/ Free(t) \/ ReadTailLast(t)

Next == \E t \in Threads : Enqueue(t) \/ Enqueue_NotFail(t) \/ Dequeue(t) \/ Step(t)

Spec == Init /\ [][Next]_vars

\* A thread inside a call is scheduled again, whatever the others do.
Runs(t) == WF_vars(Step(t))

-----------------------------------------------------------------------------
(* What the list holds. *)

\* The node that many links behind the dummy, or the mark of the end.
Hop[k \in 0..Cardinality(Nodes)] ==
    IF k = 0 THEN head.node
    ELSE IF Hop[k - 1] = MyNull THEN MyNull ELSE next[Hop[k - 1]]

Places == {k \in 0..Cardinality(Nodes) : Hop[k] # MyNull}
Queued == {data[Hop[k]] : k \in Places \ {0}}

\* No call is under way.
Quiet == \A t \in Threads : at[t].pc = "idle"

ThreadsAt(pcs) == {t \in Threads : at[t].pc \in pcs}

IsEmpty == head.node = tail.node

-----------------------------------------------------------------------------
(* Properties. *)

\* The list of the queue never holds a node the pool may hand out, never
\* closes on itself, and the tail is in it: a tail left behind the head would
\* link new elements to nodes that are gone.
ListIsSound ==
    /\ Cardinality(Nodes) \notin Places
    /\ {Hop[k] : k \in Places} \cap free = {}
    /\ tail.node \in {Hop[k] : k \in Places}

\* No element is given out twice, and when no call is under way the list holds
\* exactly the elements that were accepted and not yet given out, each once.
ExactlyOnce ==
    /\ \A e \in Elements : taken[e] <= 1
    /\ Quiet => /\ Queued = {e \in accepted : taken[e] = 0}
                /\ Cardinality(Queued) = Cardinality(Places) - 1

\* _size is the distance from the head to the tail, but for the threads that
\* moved one of the two and have not counted it: it may be negative for a
\* moment, and in the end it never drifts.
SizeAgrees ==
    \E k \in Places :
        /\ Hop[k] = tail.node
        /\ size = k - Cardinality(ThreadsAt({"countLinked", "countHelped"}))
                     + Cardinality(ThreadsAt({"discount"}))

\* Lock-free: a thread's call ends if that thread runs, though every other
\* thread may stop for ever in the middle of its own call.
NobodyWaits ==
    \A t \in Threads : Runs(t) => ((at[t].pc # "idle") ~> (at[t].pc = "idle"))

\* isEmpty: true if empty, false if there is anything (between calls).
IsEmptyIfEmpty == Quiet => (IsEmpty => Queued = {})
=============================================================================
