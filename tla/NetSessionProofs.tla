-------------------------- MODULE NetSessionProofs --------------------------
(***************************************************************************)
(* For any number of workers, content threads, packets and session ids: the *)
(* reference count of NetSession is exact, and what follows from it.  The   *)
(* inductive invariant is IInv.  Its counts (Balance) are shown first to    *)
(* change by what the moving thread takes from one place to another; most   *)
(* steps move a thread between places that own the same things and follow   *)
(* from NeutralStep, the others have their balance worked out one by one.   *)
(***************************************************************************)
EXTENDS NetSession, FiniteSetTheorems, SequenceTheorems, TLAPS

-----------------------------------------------------------------------------
(* Counting threads.                                                        *)

\* Threads is finite, so that Count is a number.
LEMMA ThreadsFinite == IsFiniteSet(Threads)
  BY ThreadsAssumption, FS_Union, FS_Singleton DEF Threads

In(e, S) == IF e \in S THEN 1 ELSE 0

\* Counting is additive: a thread that moves changes the count of a set of
\* places by what it takes out of it and into it.
LEMMA CountUpdate ==
  ASSUME NEW f, NEW g, NEW t \in Threads, NEW S,
         \A u \in Threads : u # t => g[u] = f[u]
  PROVE  Count(g, S) = Count(f, S) - In(f[t], S) + In(g[t], S)
PROOF
  <1> DEFINE F == {u \in Threads : f[u] \in S}
             G == {u \in Threads : g[u] \in S}
             R == F \ {t}
  <1>1. IsFiniteSet(F) /\ IsFiniteSet(G) /\ IsFiniteSet(R)
    BY ThreadsFinite, FS_Subset
  <1>2. R = G \ {t}
    OBVIOUS
  <1>3. /\ Cardinality(F) \in Nat /\ Cardinality(G) \in Nat
        /\ Cardinality(R) \in Nat
    BY <1>1, FS_CardinalityType
  <1>4. Cardinality(F) = Cardinality(R) + In(f[t], S)
    <2>1. CASE f[t] \in S
      <3>1. t \in F
        BY <2>1
      <3>2. Cardinality(R) = Cardinality(F) - 1
        BY <1>1, <3>1, FS_RemoveElement
      <3> QED
        BY <1>3, <2>1, <3>2 DEF In
    <2>2. CASE f[t] \notin S
      <3>1. R = F
        BY <2>2
      <3> HIDE DEF F, R
      <3> QED
        BY <1>3, <2>2, <3>1 DEF In
    <2> QED
      BY <2>1, <2>2
  <1>5. Cardinality(G) = Cardinality(R) + In(g[t], S)
    <2>1. CASE g[t] \in S
      <3>1. t \in G
        BY <2>1
      <3>2. Cardinality(R) = Cardinality(G) - 1
        BY <1>1, <1>2, <3>1, FS_RemoveElement
      <3> QED
        BY <1>3, <2>1, <3>2 DEF In
    <2>2. CASE g[t] \notin S
      <3>1. R = G
        BY <1>2, <2>2
      <3> HIDE DEF G, R
      <3> QED
        BY <1>3, <2>2, <3>1 DEF In
    <2> QED
      BY <2>1, <2>2
  <1>6. In(f[t], S) \in Nat /\ In(g[t], S) \in Nat
    BY DEF In
  <1>7. Cardinality(G) = Cardinality(F) - In(f[t], S) + In(g[t], S)
    BY <1>3, <1>4, <1>5, <1>6
  <1> QED
    BY <1>7 DEF Count

\* CountUpdate for every pair of functions, as the steps below cite it.
LEMMA Counting ==
  \A f, g, S : \A t \in Threads :
    (\A u \in Threads : u # t => g[u] = f[u])
      => Count(g, S) = Count(f, S) - In(f[t], S) + In(g[t], S)
  BY CountUpdate

\* A count is a natural number, and 0 exactly when no thread is counted.
LEMMA CountNat ==
  ASSUME NEW f, NEW S
  PROVE  /\ Count(f, S) \in Nat
         /\ \A t \in Threads : f[t] \in S => Count(f, S) >= 1
         /\ (\A t \in Threads : f[t] \notin S) => Count(f, S) = 0
PROOF
  <1> DEFINE F == {u \in Threads : f[u] \in S}
  <1>1. IsFiniteSet(F)
    BY ThreadsFinite, FS_Subset
  <1>2. Cardinality(F) \in Nat /\ (Cardinality(F) = 0 <=> F = {})
    BY <1>1, FS_CardinalityType, FS_EmptySet
  <1> QED
    BY <1>2 DEF Count

\* The counts the balance is made of are natural numbers.
LEMMA CountsNat ==
  /\ Count(pc, RefPcs) \in Nat /\ Count(pc, SendRightPcs) \in Nat
  /\ Count(pc, RecvChainPcs) \in Nat /\ Count(pc, SlotPcs) \in Nat
  /\ Count(pc, {"acCnt"}) \in Nat /\ Count(pc, {"cntDec"}) \in Nat
  /\ Count(ctx, Callbacks) \in Nat
  BY CountNat

\* A thread that goes to l changes the count of a set of places by what it
\* leaves and what it enters.
LEMMA Move ==
  ASSUME TypeOK, NEW t \in Threads, NEW l, Goto(t, l), NEW S
  PROVE  Count(pc', S) = Count(pc, S) - In(pc[t], S) + In(l, S)
PROOF
  <1>1. pc'[t] = l /\ \A u \in Threads : u # t => pc'[u] = pc[u]
    BY DEF TypeOK, Goto
  <1>2. Count(pc', S) = Count(pc, S) - In(pc[t], S) + In(pc'[t], S)
    BY <1>1, Counting
  <1> QED
    BY <1>1, <1>2

\* How a step changes the counts of the places.
Shift(r, s, v, o, a, d) ==
  /\ Count(pc', RefPcs) = Count(pc, RefPcs) + r
  /\ Count(pc', SendRightPcs) = Count(pc, SendRightPcs) + s
  /\ Count(pc', RecvChainPcs) = Count(pc, RecvChainPcs) + v
  /\ Count(pc', SlotPcs) = Count(pc, SlotPcs) + o
  /\ Count(pc', {"acCnt"}) = Count(pc, {"acCnt"}) + a
  /\ Count(pc', {"cntDec"}) = Count(pc, {"cntDec"}) + d

\* The two halves of IInv beside the types.
Balance ==
  /\ RefcountIsOwners /\ SendRightUnique /\ RecvChainUnique
  /\ SlotOwnerUnique /\ SessionCntExact

Places == NobodyOnReleased /\ PopNeverFails /\ ThreadsInPlace

\* IInv is its types, its counts and its places, before and after a step.
LEMMA Parts ==
  /\ IInv => TypeOK /\ Balance /\ Places
  /\ TypeOK' /\ Balance' /\ Places' => IInv'
  BY DEF IInv, Balance, Places

\* The ranges of the fields that enter the counts.
LEMMA Numbers ==
  ASSUME TypeOK
  PROVE  /\ refcount \in Nat /\ delaySend \in Nat /\ sessionCnt \in Int
         /\ relFlag \in {0, 1} /\ isSending \in {0, 1} /\ slotFree \in {0, 1}
         /\ InUse(recvOl) \in {0, 1} /\ InUse(sendOl) \in {0, 1}
  BY DEF TypeOK, InUse

\* What a thread may rely on where it is: a reference ...
LEMMA OwnerCounted ==
  ASSUME IInv, NEW t \in Threads, pc[t] \in RefPcs
  PROVE  refcount >= 1
  BY CountNat, Numbers, Parts DEF Balance, RefcountIsOwners, InUse

\* ... the right to send ...
LEMMA SenderAlone ==
  ASSUME IInv, NEW t \in Threads, pc[t] \in SendRightPcs
  PROVE  isSending = 1 /\ sendOl = "none" /\ delaySend = 0
  BY CountNat, Numbers, Parts DEF Balance, SendRightUnique, InUse

\* ... the receive side ...
LEMMA ReceiverAlone ==
  ASSUME IInv, NEW t \in Threads, pc[t] \in RecvChainPcs
  PROVE  recvOl = "none"
  BY CountNat, Parts DEF Balance, RecvChainUnique, InUse

\* ... the slot between two sessions.
LEMMA SlotHolderAlone ==
  ASSUME IInv, NEW t \in Threads, pc[t] \in SlotPcs
  PROVE  relFlag = 1 /\ slotFree = 0
  BY CountNat, Numbers, Parts DEF Balance, SlotOwnerUnique

\* A count of 0 leaves nobody on the session.
LEMMA ZeroMeansNobody ==
  ASSUME IInv, refcount = 0
  PROVE  /\ \A u \in Threads : pc[u] \notin RefPcs /\ ctx[u] = "none"
         /\ recvOl = "none" /\ sendOl = "none" /\ delaySend = 0
PROOF
  <1>0. /\ Count(pc, RefPcs) = 0 /\ Count(ctx, Callbacks) = 0
        /\ InUse(recvOl) = 0 /\ InUse(sendOl) = 0 /\ delaySend = 0
    <2>1. /\ 0 = Count(pc, RefPcs) + Count(ctx, Callbacks)
                 + InUse(recvOl) + InUse(sendOl) + delaySend
          /\ TypeOK
      BY Parts DEF Balance, RefcountIsOwners
    <2>2. InUse(recvOl) \in Nat /\ InUse(sendOl) \in Nat /\ delaySend \in Nat
      BY <2>1, Numbers
    <2>3. Count(pc, RefPcs) \in Nat /\ Count(ctx, Callbacks) \in Nat
      BY CountNat
    <2>4. Count(pc, RefPcs) + Count(ctx, Callbacks) \in Nat
      BY <2>3
    <2>5. InUse(recvOl) + InUse(sendOl) + delaySend \in Nat
      BY <2>2
    <2>6. /\ Count(pc, RefPcs) + Count(ctx, Callbacks) = 0
          /\ InUse(recvOl) + InUse(sendOl) + delaySend = 0
      BY <2>1, <2>2, <2>3, <2>4, <2>5
    <2> QED
      BY <2>2, <2>3, <2>6
  <1>1. recvOl = "none" /\ sendOl = "none"
    BY <1>0 DEF InUse
  <1>2. \A u \in Threads : pc[u] \notin RefPcs /\ ctx[u] \notin Callbacks
    BY <1>0, CountNat
  <1>3. ctx \in [Threads -> {"none", "accept", "message"}]
    BY Parts DEF TypeOK
  <1> QED
    BY <1>0, <1>1, <1>2, <1>3 DEF Callbacks

\* While the release flag is up nobody has the right to send or to receive.
LEMMA NobodyCounted ==
  ASSUME IInv, relFlag = 1
  PROVE  /\ Count(pc, SendRightPcs) = 0 /\ Count(pc, RecvChainPcs) = 0
         /\ Count(ctx, Callbacks) = 0 /\ recvOl = "none" /\ sendOl = "none"
         /\ delaySend = 0 /\ isSending = 0
PROOF
  <1>0. TypeOK /\ Balance /\ Places
    BY Parts
  <1>1. /\ \A u \in Threads : pc[u] \notin StrongRefPcs /\ ctx[u] = "none"
        /\ recvOl = "none" /\ sendOl = "none" /\ delaySend = 0
    BY <1>0 DEF Places, NobodyOnReleased
  <1>2. \A u \in Threads : /\ pc[u] \notin SendRightPcs
                           /\ pc[u] \notin RecvChainPcs
                           /\ ctx[u] \notin Callbacks
    BY <1>1 DEF SendRightPcs, RecvChainPcs, StrongRefPcs, Callbacks
  <1>3. /\ Count(pc, SendRightPcs) = 0 /\ Count(pc, RecvChainPcs) = 0
        /\ Count(ctx, Callbacks) = 0
    BY <1>2, CountNat
  <1> QED
    BY <1>0, <1>1, <1>3, Numbers DEF Balance, SendRightUnique, InUse

\* Goto moves one thread and leaves the others where they are.
LEMMA Moved ==
  ASSUME TypeOK, NEW t \in Threads, NEW l, Goto(t, l)
  PROVE  pc'[t] = l /\ \A u \in Threads : u # t => pc'[u] = pc[u]
  BY DEF TypeOK, Goto

\* Goto to a known place keeps the type of pc.
LEMMA PcType ==
  ASSUME TypeOK, NEW t \in Threads, NEW l \in RefPcs \cup NoRefPcs, Goto(t, l)
  PROVE  pc' \in [Threads -> RefPcs \cup NoRefPcs]
  BY DEF TypeOK, Goto

\* Freed packets go to the pool and are meant for nobody.
LEMMA FreeType ==
  ASSUME TypeOK, NEW ps, ps \subseteq Packets, Free(ps)
  PROVE  pool' \in SUBSET Packets /\ dest' \in [Packets -> 0 .. MaxSid]
  BY BoundsAssumption DEF TypeOK, Free

\* The packets of a queue are packets.
LEMMA RangeType ==
  ASSUME NEW q \in Seq(Packets)
  PROVE  Range(q) \subseteq Packets
  BY DEF Range

\* What SendPost takes and what it leaves are queues of packets.
LEMMA TakeType ==
  ASSUME NEW q \in Seq(Packets)
  PROVE  LET n == IF Len(q) < WsabufMax THEN Len(q) ELSE WsabufMax
         IN  /\ SubSeq(q, 1, n) \in Seq(Packets)
             /\ SubSeq(q, n + 1, Len(q)) \in Seq(Packets)
PROOF
  <1> DEFINE n == IF Len(q) < WsabufMax THEN Len(q) ELSE WsabufMax
  <1>1. n \in Nat /\ n <= Len(q) /\ Len(q) \in Nat
    BY BoundsAssumption
  <1>2. \A i \in 1 .. Len(q) : q[i] \in Packets
    OBVIOUS
  <1> HIDE DEF n
  <1> QED
    BY <1>1, <1>2, SubSeqProperties DEF n

\* A session id is a value of the field sessionId.
LEMMA SidsType == Sids \subseteq 0 .. MaxSid
  BY BoundsAssumption DEF Sids

\* Which values of ctx stand for a running callback.
LEMMA CallbackIn ==
  /\ In("none", Callbacks) = 0 /\ In("accept", Callbacks) = 1
  /\ In("message", Callbacks) = 1
  BY DEF In, Callbacks

SetCtx(t, c) == ctx' = [ctx EXCEPT ![t] = c]

\* Entering or leaving a callback changes the count of callbacks likewise.
LEMMA CtxMove ==
  ASSUME TypeOK, NEW t \in Threads, NEW c, SetCtx(t, c), NEW S
  PROVE  Count(ctx', S) = Count(ctx, S) - In(ctx[t], S) + In(c, S)
PROOF
  <1>1. ctx'[t] = c /\ \A u \in Threads : u # t => ctx'[u] = ctx[u]
    BY DEF TypeOK, SetCtx
  <1>2. Count(ctx', S) = Count(ctx, S) - In(ctx[t], S) + In(ctx'[t], S)
    BY <1>1, Counting
  <1> QED
    BY <1>1, <1>2

\* SetCtx changes one thread's callback and keeps the type of ctx.
LEMMA CtxMoved ==
  ASSUME TypeOK, NEW t \in Threads, NEW c, SetCtx(t, c)
  PROVE  /\ ctx'[t] = c /\ \A u \in Threads : u # t => ctx'[u] = ctx[u]
         /\ c \in {"none", "accept", "message"} =>
              ctx' \in [Threads -> {"none", "accept", "message"}]
  BY DEF TypeOK, SetCtx

\* Queueing one more RELEASE message keeps the type of relMsgs.
LEMMA BumpType ==
  ASSUME NEW f \in [Sids -> Nat], NEW s
  PROVE  [f EXCEPT ![s] = @ + 1] \in [Sids -> Nat]
PROOF
  <1>1. CASE s \in Sids
    BY <1>1
  <1>2. CASE s \notin Sids
    BY <1>2
  <1> QED
    BY <1>1, <1>2

-----------------------------------------------------------------------------
(* Steps between places that own the same things.                           *)

AcceptPcs == {"acPop", "acCnt", "acInc", "acInit", "acOpen", "acReg"}

SamePlace(k, l) ==
  /\ k \in RefPcs <=> l \in RefPcs
  /\ k \in SendRightPcs <=> l \in SendRightPcs
  /\ k \in SlotPcs <=> l \in SlotPcs
  /\ l \in RecvChainPcs => k \in RecvChainPcs
  /\ l \in StrongRefPcs => k \in StrongRefPcs
  /\ l \in AcceptPcs => k \in AcceptPcs
  /\ k \in ApiPcs => l \in ApiPcs \cup {"idle"}
  /\ k \notin {"acCnt", "cntDec"}
  /\ l \notin {"acCnt", "cntDec", "acPop"}

\* Such a step keeps the invariant when it keeps the types and touches none
\* of the counters.
LEMMA NeutralStep ==
  ASSUME IInv, TypeOK', NEW t \in Threads, NEW l, Goto(t, l),
         SamePlace(pc[t], l), l = "callback" => ctx[t] # "none",
         l = "idle" => ctx[t] = "none",
         UNCHANGED <<refcount, relFlag, isSending, delaySend, slotFree,
                     sessionCnt, lastSid, ctx>>,
         recvOl' = "none" <=> recvOl = "none",
         sendOl' = "none" <=> sendOl = "none",
         \A u \in Threads : u # t => pkt'[u] = pkt[u],
         l \in {"spInc", "spCheck", "spEnq"} => pkt'[t] \in Packets
  PROVE  IInv'
PROOF
  <1>0. TypeOK /\ Balance /\ Places
    BY Parts
  <1>1. /\ Count(pc', RefPcs) = Count(pc, RefPcs)
        /\ Count(pc', SendRightPcs) = Count(pc, SendRightPcs)
        /\ Count(pc', RecvChainPcs) <= Count(pc, RecvChainPcs)
        /\ Count(pc', RecvChainPcs) \in Nat
        /\ Count(pc', SlotPcs) = Count(pc, SlotPcs)
        /\ Count(pc', {"acCnt"}) = Count(pc, {"acCnt"})
        /\ Count(pc', {"cntDec"}) = Count(pc, {"cntDec"})
    BY <1>0, Move, CountsNat, CountNat DEF SamePlace, In
  <1>2. Balance'
    <2>1. InUse(recvOl') = InUse(recvOl) /\ InUse(sendOl') = InUse(sendOl)
      BY DEF InUse
    <2>2. RefcountIsOwners' /\ SendRightUnique' /\ RecvChainUnique'
      BY <1>0, <1>1, <2>1, Numbers, CountsNat
         DEF Balance, RefcountIsOwners, SendRightUnique, RecvChainUnique
    <2>3. SlotOwnerUnique' /\ SessionCntExact'
      BY <1>0, <1>1, Numbers, CountsNat
         DEF Balance, SlotOwnerUnique, SessionCntExact
    <2> QED
      BY <2>2, <2>3 DEF Balance
  <1>3. pc'[t] = l /\ \A u \in Threads : u # t => pc'[u] = pc[u]
    BY <1>0, Moved
  <1>4. NobodyOnReleased'
    BY <1>0, <1>3 DEF Places, NobodyOnReleased, SamePlace
  <1>5. PopNeverFails'
    BY <1>0, <1>3 DEF Places, PopNeverFails, SamePlace, Threads
  <1>6. ThreadsInPlace'
    BY <1>0, <1>3 DEF Places, ThreadsInPlace, SamePlace, AcceptPcs
  <1> QED
    BY <1>2, <1>4, <1>5, <1>6, Parts DEF Places

-----------------------------------------------------------------------------
(* One step per action.                                                     *)


\* Giving a reference back, and the release it may end in.
LEMMA ReleaseInv ==
  ASSUME IInv, NEW t \in Threads, ReleaseStep(t)
  PROVE  IInv'
PROOF
  <1> USE DEF slotVars, sendVars, portVars, mgrVars, localVars
  <1>0. TypeOK /\ Balance /\ Places
    BY Parts
  <1>1. CASE DecrementRefcount(t)
    <2>1. PICK l \in {"rel", "idle", "callback"} :
          /\ pc[t] = "dec" /\ Goto(t, l) /\ (l = "callback" => ctx[t] # "none") /\ (l = "idle" => ctx[t] = "none")
          /\ refcount' = refcount - 1 /\ arg' = [arg EXCEPT ![t] = 0]
          /\ UNCHANGED <<relFlag, sessionId, isDisconnect, isSending, sendVars,
                        portVars, mgrVars, ctx, cur, pkt>>
      BY <1>1 DEF DecrementRefcount, Return
    <2>2. Shift(-1, 0, 0, 0, 0, 0)
      BY <1>0, <2>1, Move, CountsNat
        DEF Shift, In, RefPcs, WeakRefPcs, StrongRefPcs, SendRightPcs,
           RecvChainPcs, SlotPcs
    <2>3. refcount' = refcount - 1 /\ UNCHANGED <<relFlag, isSending, recvOl, sendOl, delaySend, slotFree,
             sessionCnt, lastSid, ctx>>
      BY <2>1
    <2>4. refcount >= 1
      BY <2>1, OwnerCounted DEF RefPcs, WeakRefPcs
    <2>5. RefcountIsOwners'
      BY <1>0, <2>2, <2>3, <2>4, Numbers, CountsNat
        DEF Shift, Balance, RefcountIsOwners
    <2>6. SendRightUnique'
      BY <1>0, <2>2, <2>3, <2>4, Numbers, CountsNat
        DEF Shift, Balance, SendRightUnique
    <2>7. RecvChainUnique'
      BY <1>0, <2>2, <2>3, <2>4, Numbers, CountsNat
        DEF Shift, Balance, RecvChainUnique
    <2>8. SlotOwnerUnique' /\ SessionCntExact'
      BY <1>0, <2>2, <2>3, <2>4, Numbers, CountsNat
        DEF Shift, Balance, SlotOwnerUnique, SessionCntExact
    <2>9. TypeOK'
      BY <1>0, <2>1, BoundsAssumption, PcType, <2>4, Numbers
        DEF TypeOK, RefPcs, WeakRefPcs, StrongRefPcs, NoRefPcs
    <2>10. NobodyOnReleased'
      BY <1>0, <2>1, <2>3, <2>4, Moved
        DEF Places, NobodyOnReleased, StrongRefPcs
    <2>11. PopNeverFails'
      BY <1>0, <2>1, Moved DEF Places, PopNeverFails, Threads
    <2>12. ThreadsInPlace'
      BY <1>0, <2>1, <2>3, <2>4, Moved DEF Places, ThreadsInPlace, ApiPcs
    <2> QED
      BY <2>5, <2>6, <2>7, <2>8, <2>9, <2>10, <2>11, <2>12, Parts
        DEF Balance, Places
  <1>2. CASE ReleaseCas(t)
    <2>1. CASE refcount = 0 /\ relFlag = 0
      <3>1. /\ pc[t] = "rel" /\ Goto(t, "clear")
            /\ relFlag = 0 /\ relFlag' = 1 /\ refcount = 0
            /\ arg' = [arg EXCEPT ![t] = sessionId]
            /\ UNCHANGED <<refcount, sessionId, isDisconnect, isSending, sendVars,
                          portVars, mgrVars, ctx, cur, pkt>>
        BY <1>2, <2>1 DEF ReleaseCas, Return
      <3>2. Shift(0, 0, 0, 1, 0, 0)
        BY <1>0, <3>1, Move, CountsNat
          DEF Shift, In, RefPcs, WeakRefPcs, StrongRefPcs, SendRightPcs,
             RecvChainPcs, SlotPcs
      <3>3. relFlag' = 1 /\ UNCHANGED <<refcount, isSending, recvOl, sendOl, delaySend,
               slotFree, sessionCnt, lastSid, ctx>>
        BY <3>1
      <3>4. relFlag = 0
        BY <3>1
      <3>5. /\ \A u \in Threads : pc[u] \notin RefPcs /\ ctx[u] = "none"
           /\ recvOl = "none" /\ sendOl = "none" /\ delaySend = 0
        BY <3>1, ZeroMeansNobody
      <3>6. RefcountIsOwners'
        BY <1>0, <3>2, <3>3, <3>4, <3>5, Numbers, CountsNat
          DEF Shift, Balance, RefcountIsOwners
      <3>7. SendRightUnique'
        BY <1>0, <3>2, <3>3, <3>4, <3>5, Numbers, CountsNat
          DEF Shift, Balance, SendRightUnique
      <3>8. RecvChainUnique'
        BY <1>0, <3>2, <3>3, <3>4, <3>5, Numbers, CountsNat
          DEF Shift, Balance, RecvChainUnique
      <3>9. SlotOwnerUnique' /\ SessionCntExact'
        BY <1>0, <3>2, <3>3, <3>4, <3>5, Numbers, CountsNat
          DEF Shift, Balance, SlotOwnerUnique, SessionCntExact
      <3>10. TypeOK'
        BY <1>0, <3>1, PcType
          DEF TypeOK, RefPcs, WeakRefPcs, StrongRefPcs, NoRefPcs
      <3>11. NobodyOnReleased'
        BY <1>0, <3>1, <3>3, <3>4, <3>5, Moved
          DEF Places, NobodyOnReleased, StrongRefPcs, RefPcs
      <3>12. PopNeverFails'
        BY <1>0, <3>1, Moved DEF Places, PopNeverFails, Threads
      <3>13. ThreadsInPlace'
        BY <1>0, <3>1, <3>3, <3>4, <3>5, Moved
          DEF Places, ThreadsInPlace, ApiPcs
      <3> QED
        BY <3>6, <3>7, <3>8, <3>9, <3>10, <3>11, <3>12, <3>13, Parts
          DEF Balance, Places
    <2>2. CASE ~(refcount = 0 /\ relFlag = 0)
      <3>1. PICK l \in {"idle", "callback"} :
            /\ pc[t] = "rel" /\ Goto(t, l) /\ (l = "callback" <=> ctx[t] # "none")
            /\ UNCHANGED <<slotVars, sendVars, portVars, mgrVars, localVars>>
        BY <1>2, <2>2 DEF ReleaseCas, Return
      <3>2. SamePlace(pc[t], l)
        BY <3>1
          DEF SamePlace, AcceptPcs, ApiPcs, RefPcs, WeakRefPcs, StrongRefPcs,
             SendRightPcs, RecvChainPcs, SlotPcs
      <3>3. TypeOK'
        BY <1>0, <3>1, PcType
          DEF TypeOK, RefPcs, WeakRefPcs, StrongRefPcs, NoRefPcs
      <3> QED
        BY <3>1, <3>2, <3>3, NeutralStep
    <2> QED
      BY <2>1, <2>2
  <1>3. CASE Clear(t)
    <2>1. /\ pc[t] = "clear" /\ Goto(t, "push")
          /\ sessionId' = 0 /\ isSending' = isSending
          /\ sendQ' = <<>> /\ sendPackets' = <<>>
          /\ Free(Range(sendQ) \cup Range(sendPackets))
          /\ UNCHANGED <<refcount, relFlag, isDisconnect, portVars, mgrVars,
                        localVars>>
      BY <1>3, SlotHolderAlone, NobodyCounted DEF Clear, SlotPcs
    <2>2. SamePlace(pc[t], "push")
      BY <2>1
        DEF SamePlace, AcceptPcs, ApiPcs, RefPcs, WeakRefPcs, StrongRefPcs,
           SendRightPcs, RecvChainPcs, SlotPcs
    <2>3. Range(sendQ) \cup Range(sendPackets) \subseteq Packets
      BY <1>0, RangeType DEF TypeOK
    <2>4. TypeOK'
      BY <1>0, <2>1, <2>3, BoundsAssumption, FreeType, PcType
        DEF TypeOK, RefPcs, WeakRefPcs, StrongRefPcs, NoRefPcs
    <2> QED
      BY <2>1, <2>2, <2>4, NeutralStep
  <1>4. CASE PushIndex(t)
    <2>1. /\ pc[t] = "push" /\ Goto(t, "cntDec") /\ slotFree' = 1
          /\ UNCHANGED <<refcount, relFlag, isSending, recvOl, sendOl,
             delaySend, sessionCnt, lastSid, ctx>>
      BY <1>4 DEF PushIndex
    <2>2. Shift(0, 0, 0, -1, 0, 1)
      BY <1>0, <2>1, Move, CountsNat
        DEF Shift, In, RefPcs, WeakRefPcs, StrongRefPcs, SendRightPcs,
           RecvChainPcs, SlotPcs
    <2>3. relFlag = 1 /\ slotFree = 0
      BY <2>1, SlotHolderAlone DEF SlotPcs
    <2>4. RefcountIsOwners'
      BY <1>0, <2>1, <2>2, <2>3, Numbers, CountsNat
        DEF Shift, Balance, RefcountIsOwners
    <2>5. SendRightUnique'
      BY <1>0, <2>1, <2>2, <2>3, Numbers, CountsNat
        DEF Shift, Balance, SendRightUnique
    <2>6. RecvChainUnique'
      BY <1>0, <2>1, <2>2, <2>3, Numbers, CountsNat
        DEF Shift, Balance, RecvChainUnique
    <2>7. SlotOwnerUnique' /\ SessionCntExact'
      BY <1>0, <2>1, <2>2, <2>3, Numbers, CountsNat
        DEF Shift, Balance, SlotOwnerUnique, SessionCntExact
    <2>8. TypeOK'
      BY <1>0, <1>4, <2>1, FreeType, PcType
        DEF TypeOK, RefPcs, WeakRefPcs, StrongRefPcs, NoRefPcs, PushIndex
    <2>9. NobodyOnReleased'
      BY <1>0, <1>4, <2>1, <2>3, Moved
        DEF Places, NobodyOnReleased, StrongRefPcs, PushIndex
    <2>10. PopNeverFails'
      BY <1>0, <2>1, Moved DEF Places, PopNeverFails, Threads
    <2>11. ThreadsInPlace'
      BY <1>0, <1>4, <2>1, <2>3, Moved
        DEF Places, ThreadsInPlace, ApiPcs, PushIndex
    <2> QED
      BY <2>4, <2>5, <2>6, <2>7, <2>8, <2>9, <2>10, <2>11, Parts
        DEF Balance, Places
  <1>5. CASE DecSessionCnt(t)
    <2>1. /\ pc[t] = "cntDec" /\ Goto(t, "postRel")
          /\ sessionCnt' = sessionCnt - 1
          /\ UNCHANGED <<refcount, relFlag, isSending, recvOl, sendOl,
             delaySend, slotFree, lastSid, ctx>>
      BY <1>5 DEF DecSessionCnt
    <2>2. Shift(0, 0, 0, 0, 0, -1)
      BY <1>0, <2>1, Move, CountsNat
        DEF Shift, In, RefPcs, WeakRefPcs, StrongRefPcs, SendRightPcs,
           RecvChainPcs, SlotPcs
    <2>3. RefcountIsOwners'
      BY <1>0, <2>1, <2>2, Numbers, CountsNat
        DEF Shift, Balance, RefcountIsOwners
    <2>4. SendRightUnique'
      BY <1>0, <2>1, <2>2, Numbers, CountsNat
        DEF Shift, Balance, SendRightUnique
    <2>5. RecvChainUnique'
      BY <1>0, <2>1, <2>2, Numbers, CountsNat
        DEF Shift, Balance, RecvChainUnique
    <2>6. SlotOwnerUnique' /\ SessionCntExact'
      BY <1>0, <2>1, <2>2, Numbers, CountsNat
        DEF Shift, Balance, SlotOwnerUnique, SessionCntExact
    <2>7. TypeOK'
      BY <1>0, <1>5, <2>1, FreeType, PcType
        DEF TypeOK, RefPcs, WeakRefPcs, StrongRefPcs, NoRefPcs, DecSessionCnt
    <2>8. NobodyOnReleased'
      BY <1>0, <1>5, <2>1, Moved
        DEF Places, NobodyOnReleased, StrongRefPcs, DecSessionCnt
    <2>9. PopNeverFails'
      BY <1>0, <2>1, Moved DEF Places, PopNeverFails, Threads
    <2>10. ThreadsInPlace'
      BY <1>0, <1>5, <2>1, Moved
        DEF Places, ThreadsInPlace, ApiPcs, DecSessionCnt
    <2> QED
      BY <2>3, <2>4, <2>5, <2>6, <2>7, <2>8, <2>9, <2>10, Parts
        DEF Balance, Places
  <1>6. CASE PostRelease(t)
    <2>1. PICK l \in {"idle", "callback"} :
          /\ pc[t] = "postRel" /\ Goto(t, l) /\ (l = "callback" <=> ctx[t] # "none")
          /\ relMsgs' = [relMsgs EXCEPT ![arg[t]] = @ + 1]
          /\ arg' = [arg EXCEPT ![t] = 0]
          /\ UNCHANGED <<slotVars, sendVars, recvOl, sendOl, delaySend, mgrVars,
                        ctx, cur, pkt>>
      BY <1>6 DEF PostRelease, Return
    <2>2. SamePlace(pc[t], l)
      BY <2>1
        DEF SamePlace, AcceptPcs, ApiPcs, RefPcs, WeakRefPcs, StrongRefPcs,
           SendRightPcs, RecvChainPcs, SlotPcs
    <2>3. relMsgs' \in [Sids -> Nat]
      BY <1>0, <2>1, BumpType DEF TypeOK
    <2>4. TypeOK'
      BY <1>0, <2>1, <2>3, BoundsAssumption, PcType
        DEF TypeOK, RefPcs, WeakRefPcs, StrongRefPcs, NoRefPcs
    <2> QED
      BY <2>1, <2>2, <2>4, NeutralStep
  <1> QED
    BY <1>1, <1>2, <1>3, <1>4, <1>5, <1>6 DEF ReleaseStep


\* The accept thread, up to OnAccept.
LEMMA AcceptInv ==
  ASSUME IInv, NEW t \in Threads, AcceptStep(t)
  PROVE  IInv'
PROOF
  <1> USE DEF slotVars, sendVars, portVars, mgrVars, localVars
  <1>0. TypeOK /\ Balance /\ Places
    BY Parts
  <1>1. CASE PopIndex(t)
    <2>1. CASE slotFree = 1
      <3>1. /\ pc[t] = "acPop" /\ Goto(t, "acCnt")
            /\ slotFree = 1 /\ slotFree' = 0
            /\ UNCHANGED <<slotVars, sendVars, portVars, sessionCnt, lastSid, app,
                          localVars>>
        BY <1>1, <2>1 DEF PopIndex
      <3>2. Shift(0, 0, 0, 1, 1, 0)
        BY <1>0, <3>1, Move, CountsNat
          DEF Shift, In, RefPcs, WeakRefPcs, StrongRefPcs, SendRightPcs,
             RecvChainPcs, SlotPcs
      <3>3. RefcountIsOwners'
        BY <1>0, <3>1, <3>2, Numbers, CountsNat
          DEF Shift, Balance, RefcountIsOwners
      <3>4. SendRightUnique'
        BY <1>0, <3>1, <3>2, Numbers, CountsNat
          DEF Shift, Balance, SendRightUnique
      <3>5. RecvChainUnique'
        BY <1>0, <3>1, <3>2, Numbers, CountsNat
          DEF Shift, Balance, RecvChainUnique
      <3>6. SlotOwnerUnique' /\ SessionCntExact'
        BY <1>0, <3>1, <3>2, Numbers, CountsNat
          DEF Shift, Balance, SlotOwnerUnique, SessionCntExact
      <3>7. TypeOK'
        BY <1>0, <3>1, FreeType, PcType
          DEF TypeOK, RefPcs, WeakRefPcs, StrongRefPcs, NoRefPcs
      <3>8. NobodyOnReleased'
        BY <1>0, <3>1, Moved DEF Places, NobodyOnReleased, StrongRefPcs
      <3>9. PopNeverFails'
        BY <1>0, <3>1, Moved
          DEF Places, PopNeverFails, Threads, ThreadsInPlace
      <3>10. ThreadsInPlace'
        BY <1>0, <3>1, Moved DEF Places, ThreadsInPlace, ApiPcs
      <3> QED
        BY <3>3, <3>4, <3>5, <3>6, <3>7, <3>8, <3>9, <3>10, Parts
          DEF Balance, Places
    <2>2. CASE slotFree # 1
      BY <1>0, <1>1, <2>2 DEF Places, PopNeverFails, ThreadsInPlace, PopIndex
    <2> QED
      BY <2>1, <2>2
  <1>2. CASE IncSessionCnt(t)
    <2>1. /\ pc[t] = "acCnt" /\ Goto(t, "acInc")
          /\ sessionCnt' = sessionCnt + 1 /\ lastSid' = lastSid + 1
          /\ UNCHANGED <<refcount, relFlag, isSending, recvOl, sendOl,
             delaySend, slotFree, ctx>>
      BY <1>2 DEF IncSessionCnt
    <2>2. Shift(0, 0, 0, 0, -1, 0)
      BY <1>0, <2>1, Move, CountsNat
        DEF Shift, In, RefPcs, WeakRefPcs, StrongRefPcs, SendRightPcs,
           RecvChainPcs, SlotPcs
    <2>3. lastSid < MaxSid
      BY <1>0, <2>1 DEF Places, ThreadsInPlace
    <2>4. RefcountIsOwners'
      BY <1>0, <2>1, <2>2, <2>3, Numbers, CountsNat
        DEF Shift, Balance, RefcountIsOwners
    <2>5. SendRightUnique'
      BY <1>0, <2>1, <2>2, <2>3, Numbers, CountsNat
        DEF Shift, Balance, SendRightUnique
    <2>6. RecvChainUnique'
      BY <1>0, <2>1, <2>2, <2>3, Numbers, CountsNat
        DEF Shift, Balance, RecvChainUnique
    <2>7. SlotOwnerUnique' /\ SessionCntExact'
      BY <1>0, <2>1, <2>2, <2>3, Numbers, CountsNat
        DEF Shift, Balance, SlotOwnerUnique, SessionCntExact
    <2>8. TypeOK'
      BY <1>0, <1>2, <2>1, FreeType, PcType, <2>3, BoundsAssumption
        DEF TypeOK, RefPcs, WeakRefPcs, StrongRefPcs, NoRefPcs, IncSessionCnt
    <2>9. NobodyOnReleased'
      BY <1>0, <1>2, <2>1, <2>3, Moved
        DEF Places, NobodyOnReleased, StrongRefPcs, IncSessionCnt
    <2>10. PopNeverFails'
      BY <1>0, <2>1, Moved DEF Places, PopNeverFails, Threads
    <2>11. ThreadsInPlace'
      BY <1>0, <1>2, <2>1, <2>3, Moved
        DEF Places, ThreadsInPlace, ApiPcs, IncSessionCnt
    <2> QED
      BY <2>4, <2>5, <2>6, <2>7, <2>8, <2>9, <2>10, <2>11, Parts
        DEF Balance, Places
  <1>3. CASE InitIncrement(t)
    <2>1. /\ pc[t] = "acInc" /\ Goto(t, "acInit") /\ refcount' = refcount + 1
          /\ UNCHANGED <<relFlag, isSending, recvOl, sendOl, delaySend,
             slotFree, sessionCnt, lastSid, ctx>>
      BY <1>3 DEF InitIncrement, AddRef
    <2>2. Shift(1, 0, 0, 0, 0, 0)
      BY <1>0, <2>1, Move, CountsNat
        DEF Shift, In, RefPcs, WeakRefPcs, StrongRefPcs, SendRightPcs,
           RecvChainPcs, SlotPcs
    <2>3. Balance'
      BY <1>0, <2>1, <2>2, Numbers, CountsNat
        DEF Shift, Balance, RefcountIsOwners, SendRightUnique,
           RecvChainUnique, SlotOwnerUnique, SessionCntExact
    <2>4. TypeOK'
      BY <1>0, <1>3, <2>1, PcType
        DEF TypeOK, RefPcs, WeakRefPcs, StrongRefPcs, NoRefPcs, InitIncrement,
           AddRef
    <2>5. NobodyOnReleased'
      BY <1>0, <1>3, <2>1, Moved
        DEF Places, NobodyOnReleased, StrongRefPcs, InitIncrement, AddRef
    <2>6. PopNeverFails'
      BY <1>0, <2>1, Moved DEF Places, PopNeverFails, Threads
    <2>7. ThreadsInPlace'
      BY <1>0, <1>3, <2>1, Moved
        DEF Places, ThreadsInPlace, ApiPcs, InitIncrement, AddRef
    <2> QED
      BY <2>3, <2>4, <2>5, <2>6, <2>7, Parts DEF Places
  <1>4. CASE InitFields(t)
    <2>1. pc[t] = "acInit" /\ Goto(t, "acOpen")
      BY <1>4 DEF InitFields
    <2>2. SamePlace(pc[t], "acOpen")
      BY <2>1
        DEF SamePlace, AcceptPcs, ApiPcs, RefPcs, WeakRefPcs, StrongRefPcs,
           SendRightPcs, RecvChainPcs, SlotPcs
    <2>3. TypeOK'
      BY <1>0, <1>4, <2>1, PcType
        DEF TypeOK, RefPcs, WeakRefPcs, StrongRefPcs, NoRefPcs, InitFields
    <2> QED
      BY <1>4, <2>1, <2>2, <2>3, NeutralStep DEF InitFields
  <1>5. CASE InitOpen(t)
    <2>1. /\ pc[t] = "acOpen" /\ Goto(t, "acReg") /\ relFlag' = 0
          /\ UNCHANGED <<refcount, isSending, recvOl, sendOl, delaySend,
             slotFree, sessionCnt, lastSid, ctx>>
      BY <1>5 DEF InitOpen
    <2>2. Shift(0, 0, 1, -1, 0, 0)
      BY <1>0, <2>1, Move, CountsNat
        DEF Shift, In, RefPcs, WeakRefPcs, StrongRefPcs, SendRightPcs,
           RecvChainPcs, SlotPcs
    <2>3. relFlag = 1 /\ slotFree = 0
      BY <2>1, SlotHolderAlone DEF SlotPcs
    <2>4. Count(pc, RecvChainPcs) = 0 /\ Count(ctx, Callbacks) = 0 /\ recvOl = "none"
      BY <2>3, NobodyCounted
    <2>5. RefcountIsOwners'
      BY <1>0, <2>1, <2>2, <2>3, <2>4, Numbers, CountsNat
        DEF Shift, Balance, RefcountIsOwners, InUse
    <2>6. SendRightUnique'
      BY <1>0, <2>1, <2>2, <2>3, <2>4, Numbers, CountsNat
        DEF Shift, Balance, SendRightUnique, InUse
    <2>7. RecvChainUnique'
      BY <1>0, <2>1, <2>2, <2>3, <2>4, Numbers, CountsNat
        DEF Shift, Balance, RecvChainUnique, InUse
    <2>8. SlotOwnerUnique' /\ SessionCntExact'
      BY <1>0, <2>1, <2>2, <2>3, <2>4, Numbers, CountsNat
        DEF Shift, Balance, SlotOwnerUnique, SessionCntExact, InUse
    <2>9. TypeOK'
      BY <1>0, <1>5, <2>1, PcType
        DEF TypeOK, RefPcs, WeakRefPcs, StrongRefPcs, NoRefPcs, InitOpen
    <2>10. NobodyOnReleased'
      BY <1>0, <1>5, <2>1, <2>3, <2>4, Moved
        DEF Places, NobodyOnReleased, StrongRefPcs, InitOpen
    <2>11. PopNeverFails'
      BY <1>0, <2>1, Moved DEF Places, PopNeverFails, Threads
    <2>12. ThreadsInPlace'
      BY <1>0, <1>5, <2>1, <2>3, <2>4, Moved
        DEF Places, ThreadsInPlace, ApiPcs, InitOpen
    <2> QED
      BY <2>5, <2>6, <2>7, <2>8, <2>9, <2>10, <2>11, <2>12, Parts
        DEF Balance, Places
  <1>6. CASE RegisterFails(t)
    <2>1. pc[t] = "acReg" /\ Goto(t, "dec")
      BY <1>6 DEF RegisterFails, Pass
    <2>2. SamePlace(pc[t], "dec")
      BY <2>1
        DEF SamePlace, AcceptPcs, ApiPcs, RefPcs, WeakRefPcs, StrongRefPcs,
           SendRightPcs, RecvChainPcs, SlotPcs
    <2>3. TypeOK'
      BY <1>0, <1>6, <2>1, PcType
        DEF TypeOK, RefPcs, WeakRefPcs, StrongRefPcs, NoRefPcs, RegisterFails,
           Pass
    <2> QED
      BY <1>6, <2>1, <2>2, <2>3, NeutralStep DEF RegisterFails, Pass
  <1>7. CASE Register(t)
    <2>1. /\ pc[t] = "acReg" /\ Goto(t, "callback")
          /\ ctx' = [ctx EXCEPT ![t] = "accept"]
          /\ UNCHANGED <<refcount, relFlag, isSending, recvOl, sendOl,
             delaySend, slotFree, sessionCnt, lastSid>>
      BY <1>7 DEF Register
    <2>2. Shift(-1, 0, -1, 0, 0, 0)
      BY <1>0, <2>1, Move, CountsNat
        DEF Shift, In, RefPcs, WeakRefPcs, StrongRefPcs, SendRightPcs,
           RecvChainPcs, SlotPcs
    <2>3. ctx[t] = "none"
      BY <1>0, <2>1 DEF Places, ThreadsInPlace, ApiPcs
    <2>4. SetCtx(t, "accept") /\ ctx'[t] = "accept" /\ \A u \in Threads : u # t => ctx'[u] = ctx[u]
      BY <1>0, <2>1, CtxMoved DEF SetCtx
    <2>5. Count(ctx', Callbacks) = Count(ctx, Callbacks) + 1
      BY <1>0, <2>3, <2>4, CtxMove, CountsNat, CallbackIn
    <2>6. app' \in [Sids -> {"none", "open", "released"}]
      BY <1>0, <1>7 DEF TypeOK, Register
    <2>7. ctx' \in [Threads -> {"none", "accept", "message"}]
      BY <1>0, <2>1 DEF TypeOK
    <2>8. RefcountIsOwners'
      BY <1>0, <2>1, <2>2, <2>3, <2>4, <2>5, <2>6, <2>7, Numbers, CountsNat
        DEF Shift, Balance, RefcountIsOwners
    <2>9. SendRightUnique'
      BY <1>0, <2>1, <2>2, <2>3, <2>4, <2>5, <2>6, <2>7, Numbers, CountsNat
        DEF Shift, Balance, SendRightUnique
    <2>10. RecvChainUnique'
      BY <1>0, <2>1, <2>2, <2>3, <2>4, <2>5, <2>6, <2>7, Numbers, CountsNat
        DEF Shift, Balance, RecvChainUnique
    <2>11. SlotOwnerUnique' /\ SessionCntExact'
      BY <1>0, <2>1, <2>2, <2>3, <2>4, <2>5, <2>6, <2>7, Numbers, CountsNat
        DEF Shift, Balance, SlotOwnerUnique, SessionCntExact
    <2>12. TypeOK'
      BY <1>0, <1>7, <2>1, FreeType, PcType, <2>6, <2>7
        DEF TypeOK, RefPcs, WeakRefPcs, StrongRefPcs, NoRefPcs, Register
    <2>13. NobodyOnReleased'
      BY <1>0, <1>7, <2>1, <2>3, <2>4, <2>5, <2>6, <2>7, Moved
        DEF Places, NobodyOnReleased, StrongRefPcs, TypeOK, Register
    <2>14. PopNeverFails'
      BY <1>0, <2>1, Moved DEF Places, PopNeverFails, Threads
    <2>15. ThreadsInPlace'
      BY <1>0, <1>7, <2>1, <2>3, <2>4, <2>5, <2>6, <2>7, Moved
        DEF Places, ThreadsInPlace, ApiPcs, TypeOK, Register
    <2> QED
      BY <2>8, <2>9, <2>10, <2>11, <2>12, <2>13, <2>14, <2>15, Parts
        DEF Balance, Places
  <1> QED
    BY <1>1, <1>2, <1>3, <1>4, <1>5, <1>6, <1>7 DEF AcceptStep


\* Disconnect and SendPacket.
LEMMA ApiInv ==
  ASSUME IInv, NEW t \in Threads, ApiStep(t)
  PROVE  IInv'
PROOF
  <1> USE DEF slotVars, sendVars, portVars, mgrVars, localVars
  <1>0. TypeOK /\ Balance /\ Places
    BY Parts
  <1>1. CASE DisconnectIncrement(t)
    <2>1. CASE relFlag = 1
      <3>1. /\ pc[t] = "dcInc" /\ Goto(t, "dec") /\ refcount' = refcount + 1
            /\ UNCHANGED <<relFlag, isSending, recvOl, sendOl, delaySend,
               slotFree, sessionCnt, lastSid, ctx>>
        BY <1>1, <2>1 DEF DisconnectIncrement, AddRef
      <3>2. Shift(1, 0, 0, 0, 0, 0)
        BY <1>0, <3>1, Move, CountsNat
          DEF Shift, In, RefPcs, WeakRefPcs, StrongRefPcs, SendRightPcs,
             RecvChainPcs, SlotPcs
      <3>3. Balance'
        BY <1>0, <3>1, <3>2, Numbers, CountsNat
          DEF Shift, Balance, RefcountIsOwners, SendRightUnique,
             RecvChainUnique, SlotOwnerUnique, SessionCntExact
      <3>4. TypeOK'
        BY <1>0, <1>1, <2>1, <3>1, PcType
          DEF TypeOK, RefPcs, WeakRefPcs, StrongRefPcs, NoRefPcs,
             DisconnectIncrement, AddRef
      <3>5. Places'
        BY <1>0, <1>1, <2>1, <3>1, Moved
          DEF Places, NobodyOnReleased, PopNeverFails, ThreadsInPlace,
             StrongRefPcs, ApiPcs, Threads, DisconnectIncrement, AddRef
      <3> QED
        BY <3>3, <3>4, <3>5, Parts
    <2>2. CASE relFlag # 1
      <3>1. /\ pc[t] = "dcInc" /\ Goto(t, "dcCheck")
            /\ refcount' = refcount + 1
            /\ UNCHANGED <<relFlag, isSending, recvOl, sendOl, delaySend,
               slotFree, sessionCnt, lastSid, ctx>>
        BY <1>1, <2>2 DEF DisconnectIncrement, AddRef
      <3>2. Shift(1, 0, 0, 0, 0, 0)
        BY <1>0, <3>1, Move, CountsNat
          DEF Shift, In, RefPcs, WeakRefPcs, StrongRefPcs, SendRightPcs,
             RecvChainPcs, SlotPcs
      <3>3. Balance'
        BY <1>0, <3>1, <3>2, Numbers, CountsNat
          DEF Shift, Balance, RefcountIsOwners, SendRightUnique,
             RecvChainUnique, SlotOwnerUnique, SessionCntExact
      <3>4. TypeOK'
        BY <1>0, <1>1, <2>2, <3>1, PcType
          DEF TypeOK, RefPcs, WeakRefPcs, StrongRefPcs, NoRefPcs,
             DisconnectIncrement, AddRef
      <3>5. Places'
        BY <1>0, <1>1, <2>2, <3>1, Numbers, Moved
          DEF Places, NobodyOnReleased, PopNeverFails, ThreadsInPlace,
             StrongRefPcs, ApiPcs, Threads, DisconnectIncrement, AddRef
      <3> QED
        BY <3>3, <3>4, <3>5, Parts
    <2> QED
      BY <2>1, <2>2
  <1>2. CASE DisconnectCheck(t)
    <2>1. CASE sessionId = arg[t]
      <3>1. /\ pc[t] = "dcCheck" /\ Goto(t, "dcCancelSend")
            /\ isDisconnect' = 1
            /\ UNCHANGED <<refcount, relFlag, sessionId, isSending, sendVars,
                          portVars, mgrVars, localVars>>
        BY <1>2, <2>1 DEF DisconnectCheck, Pass, SetDisconnect
      <3>2. SamePlace(pc[t], "dcCancelSend")
        BY <3>1
          DEF SamePlace, AcceptPcs, ApiPcs, RefPcs, WeakRefPcs, StrongRefPcs,
             SendRightPcs, RecvChainPcs, SlotPcs
      <3>3. TypeOK'
        BY <1>0, <3>1, PcType
          DEF TypeOK, RefPcs, WeakRefPcs, StrongRefPcs, NoRefPcs
      <3> QED
        BY <3>1, <3>2, <3>3, NeutralStep
    <2>2. CASE sessionId # arg[t]
      <3>1. /\ pc[t] = "dcCheck" /\ Goto(t, "dec")
            /\ UNCHANGED <<slotVars, sendVars, portVars, mgrVars, localVars>>
        BY <1>2, <2>2 DEF DisconnectCheck, Pass, SetDisconnect
      <3>2. SamePlace(pc[t], "dec")
        BY <3>1
          DEF SamePlace, AcceptPcs, ApiPcs, RefPcs, WeakRefPcs, StrongRefPcs,
             SendRightPcs, RecvChainPcs, SlotPcs
      <3>3. TypeOK'
        BY <1>0, <3>1, PcType
          DEF TypeOK, RefPcs, WeakRefPcs, StrongRefPcs, NoRefPcs
      <3> QED
        BY <3>1, <3>2, <3>3, NeutralStep
    <2> QED
      BY <2>1, <2>2
  <1>3. CASE DisconnectCancelSend(t)
    <2>1. pc[t] = "dcCancelSend" /\ Goto(t, "cancelRecvDec")
      BY <1>3 DEF DisconnectCancelSend, CancelSendStep, CancelSend
    <2>2. SamePlace(pc[t], "cancelRecvDec")
      BY <2>1
        DEF SamePlace, AcceptPcs, ApiPcs, RefPcs, WeakRefPcs, StrongRefPcs,
           SendRightPcs, RecvChainPcs, SlotPcs
    <2>3. TypeOK'
      BY <1>0, <1>3, <2>1, PcType
        DEF TypeOK, RefPcs, WeakRefPcs, StrongRefPcs, NoRefPcs,
           DisconnectCancelSend, CancelSendStep, CancelSend
    <2> QED
      BY <1>3, <2>1, <2>2, <2>3, NeutralStep
        DEF DisconnectCancelSend, CancelSendStep, CancelSend
  <1>4. CASE CancelRecvAndDec(t)
    <2>1. pc[t] = "cancelRecvDec" /\ Goto(t, "dec")
      BY <1>4 DEF CancelRecvAndDec, CancelRecvStep, CancelRecv
    <2>2. SamePlace(pc[t], "dec")
      BY <2>1
        DEF SamePlace, AcceptPcs, ApiPcs, RefPcs, WeakRefPcs, StrongRefPcs,
           SendRightPcs, RecvChainPcs, SlotPcs
    <2>3. TypeOK'
      BY <1>0, <1>4, <2>1, PcType
        DEF TypeOK, RefPcs, WeakRefPcs, StrongRefPcs, NoRefPcs,
           CancelRecvAndDec, CancelRecvStep, CancelRecv
    <2> QED
      BY <1>4, <2>1, <2>2, <2>3, NeutralStep
        DEF CancelRecvAndDec, CancelRecvStep, CancelRecv
  <1>5. CASE SendPacketIncrement(t)
    <2>1. CASE relFlag = 1
      <3>1. /\ pc[t] = "spInc" /\ Goto(t, "dec") /\ pkt[t] \in Packets
            /\ refcount' = refcount + 1 /\ Free({pkt[t]})
            /\ pkt' = [pkt EXCEPT ![t] = NoPacket]
            /\ UNCHANGED <<relFlag, sessionId, isDisconnect, isSending, sendQ,
                          sendPackets, portVars, mgrVars, ctx, arg, cur>>
        BY <1>5, <2>1, <1>0
          DEF SendPacketIncrement, Drop, Places, ThreadsInPlace
      <3>2. Shift(1, 0, 0, 0, 0, 0)
        BY <1>0, <3>1, Move, CountsNat
          DEF Shift, In, RefPcs, WeakRefPcs, StrongRefPcs, SendRightPcs,
             RecvChainPcs, SlotPcs
      <3>3. Balance'
        BY <1>0, <3>1, <3>2, Numbers, CountsNat
          DEF Shift, Balance, RefcountIsOwners, SendRightUnique,
             RecvChainUnique, SlotOwnerUnique, SessionCntExact
      <3>4. TypeOK'
        BY <1>0, <3>1, FreeType, PcType
          DEF TypeOK, RefPcs, WeakRefPcs, StrongRefPcs, NoRefPcs
      <3>5. Places'
        BY <1>0, <3>1, Moved
          DEF Places, NobodyOnReleased, PopNeverFails, ThreadsInPlace,
             StrongRefPcs, ApiPcs, Threads, TypeOK
      <3> QED
        BY <3>3, <3>4, <3>5, Parts
    <2>2. CASE relFlag # 1
      <3>1. /\ pc[t] = "spInc" /\ Goto(t, "spCheck") /\ pkt[t] \in Packets
            /\ refcount' = refcount + 1 /\ relFlag # 1
            /\ UNCHANGED <<relFlag, sessionId, isDisconnect, isSending, sendVars,
                          portVars, mgrVars, localVars>>
        BY <1>5, <2>2, <1>0
          DEF SendPacketIncrement, Drop, Places, ThreadsInPlace
      <3>2. Shift(1, 0, 0, 0, 0, 0)
        BY <1>0, <3>1, Move, CountsNat
          DEF Shift, In, RefPcs, WeakRefPcs, StrongRefPcs, SendRightPcs,
             RecvChainPcs, SlotPcs
      <3>3. Balance'
        BY <1>0, <3>1, <3>2, Numbers, CountsNat
          DEF Shift, Balance, RefcountIsOwners, SendRightUnique,
             RecvChainUnique, SlotOwnerUnique, SessionCntExact
      <3>4. TypeOK'
        BY <1>0, <3>1, FreeType, PcType
          DEF TypeOK, RefPcs, WeakRefPcs, StrongRefPcs, NoRefPcs
      <3>5. NobodyOnReleased'
        BY <1>0, <3>1, Numbers, Moved
          DEF Places, NobodyOnReleased, StrongRefPcs, TypeOK
      <3>6. PopNeverFails'
        BY <1>0, <3>1, Moved DEF Places, PopNeverFails, Threads
      <3>7. ThreadsInPlace'
        BY <1>0, <3>1, Numbers, Moved
          DEF Places, ThreadsInPlace, ApiPcs, TypeOK
      <3> QED
        BY <3>3, <3>4, <3>5, <3>6, <3>7, Parts DEF Places
    <2> QED
      BY <2>1, <2>2
  <1>6. CASE SendPacketCheck(t)
    <2>1. CASE sessionId # arg[t] \/ isDisconnect = 1
      <3>1. /\ pc[t] = "spCheck" /\ Goto(t, "dec") /\ pkt[t] \in Packets
            /\ Free({pkt[t]}) /\ pkt' = [pkt EXCEPT ![t] = NoPacket]
            /\ UNCHANGED <<slotVars, sendQ, sendPackets, portVars, mgrVars, ctx,
                          arg, cur>>
        BY <1>6, <2>1, <1>0 DEF SendPacketCheck, Drop, Places, ThreadsInPlace
      <3>2. SamePlace(pc[t], "dec")
        BY <3>1
          DEF SamePlace, AcceptPcs, ApiPcs, RefPcs, WeakRefPcs, StrongRefPcs,
             SendRightPcs, RecvChainPcs, SlotPcs
      <3>3. TypeOK'
        BY <1>0, <3>1, FreeType, PcType
          DEF TypeOK, RefPcs, WeakRefPcs, StrongRefPcs, NoRefPcs
      <3> QED
        BY <3>1, <3>2, <3>3, NeutralStep
    <2>2. CASE ~(sessionId # arg[t] \/ isDisconnect = 1)
      <3>1. /\ pc[t] = "spCheck" /\ Goto(t, "spEnq") /\ pkt[t] \in Packets
            /\ UNCHANGED <<slotVars, sendVars, portVars, mgrVars, localVars>>
        BY <1>6, <2>2, <1>0 DEF SendPacketCheck, Drop, Places, ThreadsInPlace
      <3>2. SamePlace(pc[t], "spEnq")
        BY <3>1
          DEF SamePlace, AcceptPcs, ApiPcs, RefPcs, WeakRefPcs, StrongRefPcs,
             SendRightPcs, RecvChainPcs, SlotPcs
      <3>3. TypeOK'
        BY <1>0, <3>1, FreeType, PcType
          DEF TypeOK, RefPcs, WeakRefPcs, StrongRefPcs, NoRefPcs
      <3> QED
        BY <3>1, <3>2, <3>3, NeutralStep
    <2> QED
      BY <2>1, <2>2
  <1>7. CASE SendPacketEnqueue(t)
    <2>1. CASE Len(sendQ) <= SendQMax
      <3>1. /\ pc[t] = "spEnq" /\ Goto(t, "spExch") /\ pkt[t] \in Packets
            /\ sendQ' = Append(sendQ, pkt[t])
            /\ pkt' = [pkt EXCEPT ![t] = NoPacket]
            /\ UNCHANGED <<slotVars, sendPackets, pool, dest, portVars, mgrVars,
                          ctx, arg, cur>>
        BY <1>7, <2>1, <1>0 DEF SendPacketEnqueue, Places, ThreadsInPlace
      <3>2. SamePlace(pc[t], "spExch")
        BY <3>1
          DEF SamePlace, AcceptPcs, ApiPcs, RefPcs, WeakRefPcs, StrongRefPcs,
             SendRightPcs, RecvChainPcs, SlotPcs
      <3>3. TypeOK'
        BY <1>0, <3>1, FreeType, PcType
          DEF TypeOK, RefPcs, WeakRefPcs, StrongRefPcs, NoRefPcs
      <3> QED
        BY <3>1, <3>2, <3>3, NeutralStep
    <2>2. CASE ~(Len(sendQ) <= SendQMax)
      <3>1. /\ pc[t] = "spEnq" /\ Goto(t, "spFull") /\ pkt[t] \in Packets
            /\ Free({pkt[t]}) /\ pkt' = [pkt EXCEPT ![t] = NoPacket]
            /\ UNCHANGED <<slotVars, sendQ, sendPackets, portVars, mgrVars, ctx,
                          arg, cur>>
        BY <1>7, <2>2, <1>0 DEF SendPacketEnqueue, Places, ThreadsInPlace
      <3>2. SamePlace(pc[t], "spFull")
        BY <3>1
          DEF SamePlace, AcceptPcs, ApiPcs, RefPcs, WeakRefPcs, StrongRefPcs,
             SendRightPcs, RecvChainPcs, SlotPcs
      <3>3. TypeOK'
        BY <1>0, <3>1, FreeType, PcType
          DEF TypeOK, RefPcs, WeakRefPcs, StrongRefPcs, NoRefPcs
      <3> QED
        BY <3>1, <3>2, <3>3, NeutralStep
    <2> QED
      BY <2>1, <2>2
  <1>8. CASE SendPacketFull(t)
    <2>1. pc[t] = "spFull" /\ Goto(t, "cancelRecvDec")
      BY <1>8 DEF SendPacketFull, SetDisconnect
    <2>2. SamePlace(pc[t], "cancelRecvDec")
      BY <2>1
        DEF SamePlace, AcceptPcs, ApiPcs, RefPcs, WeakRefPcs, StrongRefPcs,
           SendRightPcs, RecvChainPcs, SlotPcs
    <2>3. TypeOK'
      BY <1>0, <1>8, <2>1, PcType
        DEF TypeOK, RefPcs, WeakRefPcs, StrongRefPcs, NoRefPcs,
           SendPacketFull, SetDisconnect
    <2> QED
      BY <1>8, <2>1, <2>2, <2>3, NeutralStep DEF SendPacketFull, SetDisconnect
  <1>9. CASE SendPacketExchange(t)
    <2>1. CASE isSending = 1
      <3>1. /\ pc[t] = "spExch" /\ Goto(t, "dec") /\ isSending' = 1
            /\ UNCHANGED <<refcount, relFlag, recvOl, sendOl, delaySend,
               slotFree, sessionCnt, lastSid, ctx>>
        BY <1>9, <2>1 DEF SendPacketExchange, SetSending
      <3>2. Shift(0, 0, 0, 0, 0, 0)
        BY <1>0, <3>1, Move, CountsNat
          DEF Shift, In, RefPcs, WeakRefPcs, StrongRefPcs, SendRightPcs,
             RecvChainPcs, SlotPcs
      <3>3. Balance'
        BY <1>0, <2>1, <3>1, <3>2, Numbers, CountsNat
          DEF Shift, Balance, RefcountIsOwners, SendRightUnique,
             RecvChainUnique, SlotOwnerUnique, SessionCntExact
      <3>4. TypeOK'
        BY <1>0, <1>9, <2>1, <3>1, PcType
          DEF TypeOK, RefPcs, WeakRefPcs, StrongRefPcs, NoRefPcs,
             SendPacketExchange, SetSending
      <3>5. Places'
        BY <1>0, <1>9, <2>1, <3>1, Moved
          DEF Places, NobodyOnReleased, PopNeverFails, ThreadsInPlace,
             StrongRefPcs, ApiPcs, Threads, SendPacketExchange, SetSending
      <3> QED
        BY <3>3, <3>4, <3>5, Parts
    <2>2. CASE isSending # 1
      <3>1. /\ pc[t] = "spExch" /\ Goto(t, "spDisc") /\ isSending' = 1
            /\ UNCHANGED <<refcount, relFlag, recvOl, sendOl, delaySend,
               slotFree, sessionCnt, lastSid, ctx>>
        BY <1>9, <2>2 DEF SendPacketExchange, SetSending
      <3>2. Shift(0, 1, 0, 0, 0, 0)
        BY <1>0, <3>1, Move, CountsNat
          DEF Shift, In, RefPcs, WeakRefPcs, StrongRefPcs, SendRightPcs,
             RecvChainPcs, SlotPcs
      <3>3. Balance'
        BY <1>0, <2>2, <3>1, <3>2, Numbers, CountsNat
          DEF Shift, Balance, RefcountIsOwners, SendRightUnique,
             RecvChainUnique, SlotOwnerUnique, SessionCntExact
      <3>4. TypeOK'
        BY <1>0, <1>9, <2>2, <3>1, PcType
          DEF TypeOK, RefPcs, WeakRefPcs, StrongRefPcs, NoRefPcs,
             SendPacketExchange, SetSending
      <3>5. Places'
        BY <1>0, <1>9, <2>2, <3>1, Moved
          DEF Places, NobodyOnReleased, PopNeverFails, ThreadsInPlace,
             StrongRefPcs, ApiPcs, Threads, SendPacketExchange, SetSending
      <3> QED
        BY <3>3, <3>4, <3>5, Parts
    <2> QED
      BY <2>1, <2>2
  <1>10. CASE SendPacketPost(t)
    <2>1. CASE isDisconnect = 1
      <3>1. /\ pc[t] = "spDisc" /\ Goto(t, "sendOff")
            /\ UNCHANGED <<slotVars, sendVars, portVars, mgrVars, localVars>>
        BY <1>10, <2>1 DEF SendPacketPost, Return, Pass
      <3>2. SamePlace(pc[t], "sendOff")
        BY <3>1
          DEF SamePlace, AcceptPcs, ApiPcs, RefPcs, WeakRefPcs, StrongRefPcs,
             SendRightPcs, RecvChainPcs, SlotPcs
      <3>3. TypeOK'
        BY <1>0, <3>1, BoundsAssumption, PcType
          DEF TypeOK, RefPcs, WeakRefPcs, StrongRefPcs, NoRefPcs
      <3> QED
        BY <3>1, <3>2, <3>3, NeutralStep
    <2>2. CASE isDisconnect # 1
      <3>1. PICK l \in {"idle", "callback"} :
            /\ pc[t] = "spDisc" /\ Goto(t, l) /\ (l = "callback" <=> ctx[t] # "none")
            /\ delaySend' = delaySend + 1 /\ arg' = [arg EXCEPT ![t] = 0]
            /\ UNCHANGED <<slotVars, sendVars, recvOl, sendOl, relMsgs, mgrVars,
                          ctx, cur, pkt>>
        BY <1>10, <2>2 DEF SendPacketPost, Return, Pass
      <3>2. Shift(-1, -1, 0, 0, 0, 0)
        BY <1>0, <3>1, Move, CountsNat
          DEF Shift, In, RefPcs, WeakRefPcs, StrongRefPcs, SendRightPcs,
             RecvChainPcs, SlotPcs
      <3>3. delaySend' = delaySend + 1 /\ UNCHANGED <<refcount, relFlag, isSending, recvOl, sendOl,
               slotFree, sessionCnt, lastSid, ctx>>
        BY <3>1
      <3>4. RefcountIsOwners'
        BY <1>0, <3>2, <3>3, Numbers, CountsNat
          DEF Shift, Balance, RefcountIsOwners
      <3>5. SendRightUnique'
        BY <1>0, <3>2, <3>3, Numbers, CountsNat
          DEF Shift, Balance, SendRightUnique
      <3>6. RecvChainUnique'
        BY <1>0, <3>2, <3>3, Numbers, CountsNat
          DEF Shift, Balance, RecvChainUnique
      <3>7. SlotOwnerUnique' /\ SessionCntExact'
        BY <1>0, <3>2, <3>3, Numbers, CountsNat
          DEF Shift, Balance, SlotOwnerUnique, SessionCntExact
      <3>8. TypeOK'
        BY <1>0, <3>1, BoundsAssumption, PcType
          DEF TypeOK, RefPcs, WeakRefPcs, StrongRefPcs, NoRefPcs
      <3>9. NobodyOnReleased'
        BY <1>0, <3>1, <3>3, Moved DEF Places, NobodyOnReleased, StrongRefPcs
      <3>10. PopNeverFails'
        BY <1>0, <3>1, Moved DEF Places, PopNeverFails, Threads
      <3>11. ThreadsInPlace'
        BY <1>0, <3>1, <3>3, Moved DEF Places, ThreadsInPlace, ApiPcs
      <3> QED
        BY <3>4, <3>5, <3>6, <3>7, <3>8, <3>9, <3>10, <3>11, Parts
          DEF Balance, Places
    <2> QED
      BY <2>1, <2>2
  <1>11. CASE SendOff(t)
    <2>1. /\ pc[t] = "sendOff" /\ Goto(t, "dec") /\ isSending' = 0
          /\ UNCHANGED <<refcount, relFlag, recvOl, sendOl, delaySend,
             slotFree, sessionCnt, lastSid, ctx>>
      BY <1>11 DEF SendOff, SetSending
    <2>2. Shift(0, -1, 0, 0, 0, 0)
      BY <1>0, <2>1, Move, CountsNat
        DEF Shift, In, RefPcs, WeakRefPcs, StrongRefPcs, SendRightPcs,
           RecvChainPcs, SlotPcs
    <2>3. isSending = 1
      BY <2>1, SenderAlone DEF SendRightPcs
    <2>4. Balance'
      BY <1>0, <2>1, <2>2, <2>3, Numbers, CountsNat
        DEF Shift, Balance, RefcountIsOwners, SendRightUnique,
           RecvChainUnique, SlotOwnerUnique, SessionCntExact
    <2>5. TypeOK'
      BY <1>0, <1>11, <2>1, PcType
        DEF TypeOK, RefPcs, WeakRefPcs, StrongRefPcs, NoRefPcs, SendOff,
           SetSending
    <2>6. Places'
      BY <1>0, <1>11, <2>1, <2>3, Moved
        DEF Places, NobodyOnReleased, PopNeverFails, ThreadsInPlace,
           StrongRefPcs, ApiPcs, Threads, SendOff, SetSending
    <2> QED
      BY <2>4, <2>5, <2>6, Parts
  <1> QED
    BY <1>1, <1>2, <1>3, <1>4, <1>5, <1>6, <1>7, <1>8, <1>9, <1>10, <1>11
      DEF ApiStep


\* SendPost.
LEMMA SendPostInv ==
  ASSUME IInv, NEW t \in Threads, SendPostStep(t)
  PROVE  IInv'
PROOF
  <1> USE DEF slotVars, sendVars, portVars, mgrVars, localVars
  <1>0. TypeOK /\ Balance /\ Places
    BY Parts
  <1>1. CASE SendPostEmpty(t)
    <2>1. PICK l \in {"stOff", "stTake"} :
          pc[t] = "stEmpty" /\ Goto(t, l)
      BY <1>1 DEF SendPostEmpty, Test, Pass
    <2>2. SamePlace(pc[t], l)
      BY <2>1
        DEF SamePlace, AcceptPcs, ApiPcs, RefPcs, WeakRefPcs, StrongRefPcs,
           SendRightPcs, RecvChainPcs, SlotPcs
    <2>3. TypeOK'
      BY <1>0, <1>1, <2>1, PcType
        DEF TypeOK, RefPcs, WeakRefPcs, StrongRefPcs, NoRefPcs, SendPostEmpty,
           Test, Pass
    <2> QED
      BY <1>1, <2>1, <2>2, <2>3, NeutralStep DEF SendPostEmpty, Test, Pass
  <1>2. CASE SendPostOff(t)
    <2>1. /\ pc[t] = "stOff" /\ Goto(t, "stEmpty2") /\ isSending' = 0
          /\ UNCHANGED <<refcount, relFlag, recvOl, sendOl, delaySend,
             slotFree, sessionCnt, lastSid, ctx>>
      BY <1>2 DEF SendPostOff, SetSending
    <2>2. Shift(0, -1, 0, 0, 0, 0)
      BY <1>0, <2>1, Move, CountsNat
        DEF Shift, In, RefPcs, WeakRefPcs, StrongRefPcs, SendRightPcs,
           RecvChainPcs, SlotPcs
    <2>3. isSending = 1 /\ sendOl = "none" /\ delaySend = 0
      BY <2>1, SenderAlone DEF SendRightPcs
    <2>4. Balance'
      BY <1>0, <2>1, <2>2, <2>3, Numbers, CountsNat
        DEF Shift, Balance, RefcountIsOwners, SendRightUnique,
           RecvChainUnique, SlotOwnerUnique, SessionCntExact
    <2>5. TypeOK'
      BY <1>0, <1>2, <2>1, PcType
        DEF TypeOK, RefPcs, WeakRefPcs, StrongRefPcs, NoRefPcs, SendPostOff,
           SetSending
    <2>6. Places'
      BY <1>0, <1>2, <2>1, <2>3, Moved
        DEF Places, NobodyOnReleased, PopNeverFails, ThreadsInPlace,
           StrongRefPcs, ApiPcs, Threads, SendPostOff, SetSending
    <2> QED
      BY <2>4, <2>5, <2>6, Parts
  <1>3. CASE SendPostEmptyAgain(t)
    <2>1. PICK l \in {"dec", "stOn"} :
          pc[t] = "stEmpty2" /\ Goto(t, l)
      BY <1>3 DEF SendPostEmptyAgain, Test, Pass
    <2>2. SamePlace(pc[t], l)
      BY <2>1
        DEF SamePlace, AcceptPcs, ApiPcs, RefPcs, WeakRefPcs, StrongRefPcs,
           SendRightPcs, RecvChainPcs, SlotPcs
    <2>3. TypeOK'
      BY <1>0, <1>3, <2>1, PcType
        DEF TypeOK, RefPcs, WeakRefPcs, StrongRefPcs, NoRefPcs,
           SendPostEmptyAgain, Test, Pass
    <2> QED
      BY <1>3, <2>1, <2>2, <2>3, NeutralStep
        DEF SendPostEmptyAgain, Test, Pass
  <1>4. CASE SendPostOn(t)
    <2>1. CASE isSending = 1
      <3>1. /\ pc[t] = "stOn" /\ Goto(t, "dec") /\ isSending' = 1
            /\ UNCHANGED <<refcount, relFlag, recvOl, sendOl, delaySend,
               slotFree, sessionCnt, lastSid, ctx>>
        BY <1>4, <2>1 DEF SendPostOn, SetSending
      <3>2. Shift(0, 0, 0, 0, 0, 0)
        BY <1>0, <3>1, Move, CountsNat
          DEF Shift, In, RefPcs, WeakRefPcs, StrongRefPcs, SendRightPcs,
             RecvChainPcs, SlotPcs
      <3>3. Balance'
        BY <1>0, <2>1, <3>1, <3>2, Numbers, CountsNat
          DEF Shift, Balance, RefcountIsOwners, SendRightUnique,
             RecvChainUnique, SlotOwnerUnique, SessionCntExact
      <3>4. TypeOK'
        BY <1>0, <1>4, <2>1, <3>1, PcType
          DEF TypeOK, RefPcs, WeakRefPcs, StrongRefPcs, NoRefPcs, SendPostOn,
             SetSending
      <3>5. Places'
        BY <1>0, <1>4, <2>1, <3>1, Moved
          DEF Places, NobodyOnReleased, PopNeverFails, ThreadsInPlace,
             StrongRefPcs, ApiPcs, Threads, SendPostOn, SetSending
      <3> QED
        BY <3>3, <3>4, <3>5, Parts
    <2>2. CASE isSending # 1
      <3>1. /\ pc[t] = "stOn" /\ Goto(t, "stDisc") /\ isSending' = 1
            /\ UNCHANGED <<refcount, relFlag, recvOl, sendOl, delaySend,
               slotFree, sessionCnt, lastSid, ctx>>
        BY <1>4, <2>2 DEF SendPostOn, SetSending
      <3>2. Shift(0, 1, 0, 0, 0, 0)
        BY <1>0, <3>1, Move, CountsNat
          DEF Shift, In, RefPcs, WeakRefPcs, StrongRefPcs, SendRightPcs,
             RecvChainPcs, SlotPcs
      <3>3. Balance'
        BY <1>0, <2>2, <3>1, <3>2, Numbers, CountsNat
          DEF Shift, Balance, RefcountIsOwners, SendRightUnique,
             RecvChainUnique, SlotOwnerUnique, SessionCntExact
      <3>4. TypeOK'
        BY <1>0, <1>4, <2>2, <3>1, PcType
          DEF TypeOK, RefPcs, WeakRefPcs, StrongRefPcs, NoRefPcs, SendPostOn,
             SetSending
      <3>5. Places'
        BY <1>0, <1>4, <2>2, <3>1, Moved
          DEF Places, NobodyOnReleased, PopNeverFails, ThreadsInPlace,
             StrongRefPcs, ApiPcs, Threads, SendPostOn, SetSending
      <3> QED
        BY <3>3, <3>4, <3>5, Parts
    <2> QED
      BY <2>1, <2>2
  <1>5. CASE SendPostDisc(t)
    <2>1. PICK l \in {"sendOff", "stTake"} :
          pc[t] = "stDisc" /\ Goto(t, l)
      BY <1>5 DEF SendPostDisc, Test, Pass
    <2>2. SamePlace(pc[t], l)
      BY <2>1
        DEF SamePlace, AcceptPcs, ApiPcs, RefPcs, WeakRefPcs, StrongRefPcs,
           SendRightPcs, RecvChainPcs, SlotPcs
    <2>3. TypeOK'
      BY <1>0, <1>5, <2>1, PcType
        DEF TypeOK, RefPcs, WeakRefPcs, StrongRefPcs, NoRefPcs, SendPostDisc,
           Test, Pass
    <2> QED
      BY <1>5, <2>1, <2>2, <2>3, NeutralStep DEF SendPostDisc, Test, Pass
  <1>6. CASE SendPostTake(t)
    <2>1. PICK l \in {"stOff", "stPost"} :
          /\ pc[t] = "stTake" /\ Goto(t, l)
          /\ sendQ' \in Seq(Packets) /\ sendPackets' \in Seq(Packets)
          /\ UNCHANGED <<slotVars, pool, dest, portVars, mgrVars, localVars>>
      BY <1>6, <1>0, BoundsAssumption, TakeType DEF SendPostTake, TypeOK
    <2>2. SamePlace(pc[t], l)
      BY <2>1
        DEF SamePlace, AcceptPcs, ApiPcs, RefPcs, WeakRefPcs, StrongRefPcs,
           SendRightPcs, RecvChainPcs, SlotPcs
    <2>3. pc' \in [Threads -> RefPcs \cup NoRefPcs]
      BY <1>0, <2>1, PcType DEF RefPcs, StrongRefPcs
    <2>4. TypeOK'
      BY <1>0, <2>1, <2>3, PcType
        DEF TypeOK, RefPcs, WeakRefPcs, StrongRefPcs, NoRefPcs
    <2> QED
      BY <2>1, <2>2, <2>4, NeutralStep
  <1>7. CASE SendPostSend(t)
    <2>1. /\ pc[t] = "stPost" /\ Goto(t, "stAgain") /\ sendOl' = "pending"
          /\ UNCHANGED <<refcount, relFlag, isSending, recvOl, delaySend,
             slotFree, sessionCnt, lastSid, ctx>>
      BY <1>7 DEF SendPostSend
    <2>2. Shift(-1, -1, 0, 0, 0, 0)
      BY <1>0, <2>1, Move, CountsNat
        DEF Shift, In, RefPcs, WeakRefPcs, StrongRefPcs, SendRightPcs,
           RecvChainPcs, SlotPcs
    <2>3. isSending = 1 /\ sendOl = "none" /\ delaySend = 0
      BY <2>1, SenderAlone DEF SendRightPcs
    <2>4. RefcountIsOwners'
      BY <1>0, <2>1, <2>2, <2>3, Numbers, CountsNat
        DEF Shift, Balance, RefcountIsOwners, InUse
    <2>5. SendRightUnique'
      BY <1>0, <2>1, <2>2, <2>3, Numbers, CountsNat
        DEF Shift, Balance, SendRightUnique, InUse
    <2>6. RecvChainUnique'
      BY <1>0, <2>1, <2>2, <2>3, Numbers, CountsNat
        DEF Shift, Balance, RecvChainUnique, InUse
    <2>7. SlotOwnerUnique' /\ SessionCntExact'
      BY <1>0, <2>1, <2>2, <2>3, Numbers, CountsNat
        DEF Shift, Balance, SlotOwnerUnique, SessionCntExact, InUse
    <2>8. TypeOK'
      BY <1>0, <1>7, <2>1, PcType
        DEF TypeOK, RefPcs, WeakRefPcs, StrongRefPcs, NoRefPcs, SendPostSend
    <2>9. NobodyOnReleased'
      BY <1>0, <1>7, <2>1, <2>3, Moved
        DEF Places, NobodyOnReleased, StrongRefPcs, SendPostSend
    <2>10. PopNeverFails'
      BY <1>0, <2>1, Moved DEF Places, PopNeverFails, Threads
    <2>11. ThreadsInPlace'
      BY <1>0, <1>7, <2>1, <2>3, Moved
        DEF Places, ThreadsInPlace, ApiPcs, SendPostSend
    <2> QED
      BY <2>4, <2>5, <2>6, <2>7, <2>8, <2>9, <2>10, <2>11, Parts
        DEF Balance, Places
  <1>8. CASE SendFailed(t)
    <2>1. pc[t] \in {"stPost", "scFail"} /\ Goto(t, "scCancelRecv")
      BY <1>8 DEF SendFailed, Free
    <2>2. SamePlace(pc[t], "scCancelRecv")
      BY <2>1
        DEF SamePlace, AcceptPcs, ApiPcs, RefPcs, WeakRefPcs, StrongRefPcs,
           SendRightPcs, RecvChainPcs, SlotPcs
    <2>3. Range(sendPackets) \subseteq Packets
      BY <1>0, RangeType DEF TypeOK
    <2>4. TypeOK'
      BY <1>0, <1>8, <2>1, <2>3, FreeType, PcType
        DEF TypeOK, RefPcs, WeakRefPcs, StrongRefPcs, NoRefPcs, SendFailed
    <2> QED
      BY <1>8, <2>1, <2>2, <2>4, NeutralStep DEF SendFailed, Free
  <1>9. CASE SendFailedCancelRecv(t)
    <2>1. pc[t] = "scCancelRecv" /\ Goto(t, "sendOff")
      BY <1>9 DEF SendFailedCancelRecv, CancelRecvStep, CancelRecv
    <2>2. SamePlace(pc[t], "sendOff")
      BY <2>1
        DEF SamePlace, AcceptPcs, ApiPcs, RefPcs, WeakRefPcs, StrongRefPcs,
           SendRightPcs, RecvChainPcs, SlotPcs
    <2>3. TypeOK'
      BY <1>0, <1>9, <2>1, PcType
        DEF TypeOK, RefPcs, WeakRefPcs, StrongRefPcs, NoRefPcs,
           SendFailedCancelRecv, CancelRecvStep, CancelRecv
    <2> QED
      BY <1>9, <2>1, <2>2, <2>3, NeutralStep
        DEF SendFailedCancelRecv, CancelRecvStep, CancelRecv
  <1>10. CASE SendPostAgain(t)
    <2>1. CASE isDisconnect = 1
      <3>1. /\ pc[t] = "stAgain" /\ Goto(t, "stInc")
            /\ UNCHANGED <<slotVars, sendVars, portVars, mgrVars, localVars>>
        BY <1>10, <2>1 DEF SendPostAgain, Return, Pass
      <3>2. SamePlace(pc[t], "stInc")
        BY <3>1
          DEF SamePlace, AcceptPcs, ApiPcs, RefPcs, WeakRefPcs, StrongRefPcs,
             SendRightPcs, RecvChainPcs, SlotPcs
      <3>3. TypeOK'
        BY <1>0, <3>1, BoundsAssumption, PcType
          DEF TypeOK, RefPcs, WeakRefPcs, StrongRefPcs, NoRefPcs
      <3> QED
        BY <3>1, <3>2, <3>3, NeutralStep
    <2>2. CASE isDisconnect # 1
      <3>1. PICK l \in {"idle", "callback"} :
            /\ pc[t] = "stAgain" /\ Goto(t, l) /\ (l = "callback" => ctx[t] # "none") /\ (l = "idle" => ctx[t] = "none")
            /\ cur' = [cur EXCEPT ![t] = 0]
            /\ UNCHANGED <<slotVars, sendVars, portVars, mgrVars, ctx, arg, pkt>>
        BY <1>10, <2>2 DEF SendPostAgain, Return, Pass
      <3>2. SamePlace(pc[t], l)
        BY <3>1
          DEF SamePlace, AcceptPcs, ApiPcs, RefPcs, WeakRefPcs, StrongRefPcs,
             SendRightPcs, RecvChainPcs, SlotPcs
      <3>3. TypeOK'
        BY <1>0, <3>1, BoundsAssumption, PcType
          DEF TypeOK, RefPcs, WeakRefPcs, StrongRefPcs, NoRefPcs
      <3> QED
        BY <3>1, <3>2, <3>3, NeutralStep
    <2> QED
      BY <2>1, <2>2
  <1>11. CASE SendPostIncrement(t)
    <2>1. /\ pc[t] = "stInc" /\ Goto(t, "stVerify") /\ refcount' = refcount + 1
          /\ UNCHANGED <<relFlag, isSending, recvOl, sendOl, delaySend,
             slotFree, sessionCnt, lastSid, ctx>>
      BY <1>11 DEF SendPostIncrement, AddRef
    <2>2. Shift(1, 0, 0, 0, 0, 0)
      BY <1>0, <2>1, Move, CountsNat
        DEF Shift, In, RefPcs, WeakRefPcs, StrongRefPcs, SendRightPcs,
           RecvChainPcs, SlotPcs
    <2>3. Balance'
      BY <1>0, <2>1, <2>2, Numbers, CountsNat
        DEF Shift, Balance, RefcountIsOwners, SendRightUnique,
           RecvChainUnique, SlotOwnerUnique, SessionCntExact
    <2>4. TypeOK'
      BY <1>0, <1>11, <2>1, PcType
        DEF TypeOK, RefPcs, WeakRefPcs, StrongRefPcs, NoRefPcs,
           SendPostIncrement, AddRef
    <2>5. NobodyOnReleased'
      BY <1>0, <1>11, <2>1, Moved
        DEF Places, NobodyOnReleased, StrongRefPcs, SendPostIncrement, AddRef
    <2>6. PopNeverFails'
      BY <1>0, <2>1, Moved DEF Places, PopNeverFails, Threads
    <2>7. ThreadsInPlace'
      BY <1>0, <1>11, <2>1, Moved
        DEF Places, ThreadsInPlace, ApiPcs, SendPostIncrement, AddRef
    <2> QED
      BY <2>3, <2>4, <2>5, <2>6, <2>7, Parts DEF Places
  <1>12. CASE SendPostVerify(t)
    <2>1. pc[t] = "stVerify" /\ Goto(t, "dec")
      BY <1>12 DEF SendPostVerify, CancelSend
    <2>2. SamePlace(pc[t], "dec")
      BY <2>1
        DEF SamePlace, AcceptPcs, ApiPcs, RefPcs, WeakRefPcs, StrongRefPcs,
           SendRightPcs, RecvChainPcs, SlotPcs
    <2>3. TypeOK'
      BY <1>0, <1>12, <2>1, BoundsAssumption, PcType
        DEF TypeOK, RefPcs, WeakRefPcs, StrongRefPcs, NoRefPcs,
           SendPostVerify, CancelSend
    <2> QED
      BY <1>12, <2>1, <2>2, <2>3, NeutralStep DEF SendPostVerify, CancelSend
  <1> QED
    BY <1>1, <1>2, <1>3, <1>4, <1>5, <1>6, <1>7, <1>8, <1>9, <1>10, <1>11,
       <1>12
      DEF SendPostStep


\* RecvPost.
LEMMA RecvPostInv ==
  ASSUME IInv, NEW t \in Threads, RecvPostStep(t)
  PROVE  IInv'
PROOF
  <1> USE DEF slotVars, sendVars, portVars, mgrVars, localVars
  <1>0. TypeOK /\ Balance /\ Places
    BY Parts
  <1>1. CASE RecvPostCheck(t)
    <2>1. PICK l \in {"dec", "rpPost"} :
          pc[t] = "rpCheck" /\ Goto(t, l)
      BY <1>1 DEF RecvPostCheck, Test, Pass
    <2>2. SamePlace(pc[t], l)
      BY <2>1
        DEF SamePlace, AcceptPcs, ApiPcs, RefPcs, WeakRefPcs, StrongRefPcs,
           SendRightPcs, RecvChainPcs, SlotPcs
    <2>3. TypeOK'
      BY <1>0, <1>1, <2>1, PcType
        DEF TypeOK, RefPcs, WeakRefPcs, StrongRefPcs, NoRefPcs, RecvPostCheck,
           Test, Pass
    <2> QED
      BY <1>1, <2>1, <2>2, <2>3, NeutralStep DEF RecvPostCheck, Test, Pass
  <1>2. CASE RecvPostRecv(t)
    <2>1. /\ pc[t] = "rpPost" /\ Goto(t, "rpAgain") /\ recvOl' = "pending"
          /\ UNCHANGED <<refcount, relFlag, isSending, sendOl, delaySend,
             slotFree, sessionCnt, lastSid, ctx>>
      BY <1>2 DEF RecvPostRecv
    <2>2. Shift(-1, 0, -1, 0, 0, 0)
      BY <1>0, <2>1, Move, CountsNat
        DEF Shift, In, RefPcs, WeakRefPcs, StrongRefPcs, SendRightPcs,
           RecvChainPcs, SlotPcs
    <2>3. recvOl = "none"
      BY <2>1, ReceiverAlone DEF RecvChainPcs
    <2>4. RefcountIsOwners'
      BY <1>0, <2>1, <2>2, <2>3, Numbers, CountsNat
        DEF Shift, Balance, RefcountIsOwners, InUse
    <2>5. SendRightUnique'
      BY <1>0, <2>1, <2>2, <2>3, Numbers, CountsNat
        DEF Shift, Balance, SendRightUnique, InUse
    <2>6. RecvChainUnique'
      BY <1>0, <2>1, <2>2, <2>3, Numbers, CountsNat
        DEF Shift, Balance, RecvChainUnique, InUse
    <2>7. SlotOwnerUnique' /\ SessionCntExact'
      BY <1>0, <2>1, <2>2, <2>3, Numbers, CountsNat
        DEF Shift, Balance, SlotOwnerUnique, SessionCntExact, InUse
    <2>8. TypeOK'
      BY <1>0, <1>2, <2>1, PcType
        DEF TypeOK, RefPcs, WeakRefPcs, StrongRefPcs, NoRefPcs, RecvPostRecv
    <2>9. NobodyOnReleased'
      BY <1>0, <1>2, <2>1, <2>3, Moved
        DEF Places, NobodyOnReleased, StrongRefPcs, RecvPostRecv
    <2>10. PopNeverFails'
      BY <1>0, <2>1, Moved DEF Places, PopNeverFails, Threads
    <2>11. ThreadsInPlace'
      BY <1>0, <1>2, <2>1, <2>3, Moved
        DEF Places, ThreadsInPlace, ApiPcs, RecvPostRecv
    <2> QED
      BY <2>4, <2>5, <2>6, <2>7, <2>8, <2>9, <2>10, <2>11, Parts
        DEF Balance, Places
  <1>3. CASE RecvPostFails(t)
    <2>1. pc[t] = "rpPost" /\ Goto(t, "cancelSendDec")
      BY <1>3 DEF RecvPostFails, SetDisconnect
    <2>2. SamePlace(pc[t], "cancelSendDec")
      BY <2>1
        DEF SamePlace, AcceptPcs, ApiPcs, RefPcs, WeakRefPcs, StrongRefPcs,
           SendRightPcs, RecvChainPcs, SlotPcs
    <2>3. TypeOK'
      BY <1>0, <1>3, <2>1, PcType
        DEF TypeOK, RefPcs, WeakRefPcs, StrongRefPcs, NoRefPcs, RecvPostFails,
           SetDisconnect
    <2> QED
      BY <1>3, <2>1, <2>2, <2>3, NeutralStep DEF RecvPostFails, SetDisconnect
  <1>4. CASE RecvPostAgain(t)
    <2>1. CASE isDisconnect = 1
      <3>1. /\ pc[t] = "rpAgain" /\ Goto(t, "rpInc")
            /\ UNCHANGED <<slotVars, sendVars, portVars, mgrVars, localVars>>
        BY <1>4, <2>1 DEF RecvPostAgain, Return, Pass
      <3>2. SamePlace(pc[t], "rpInc")
        BY <3>1
          DEF SamePlace, AcceptPcs, ApiPcs, RefPcs, WeakRefPcs, StrongRefPcs,
             SendRightPcs, RecvChainPcs, SlotPcs
      <3>3. TypeOK'
        BY <1>0, <3>1, BoundsAssumption, PcType
          DEF TypeOK, RefPcs, WeakRefPcs, StrongRefPcs, NoRefPcs
      <3> QED
        BY <3>1, <3>2, <3>3, NeutralStep
    <2>2. CASE isDisconnect # 1
      <3>1. PICK l \in {"idle", "callback"} :
            /\ pc[t] = "rpAgain" /\ Goto(t, l) /\ (l = "callback" => ctx[t] # "none") /\ (l = "idle" => ctx[t] = "none")
            /\ cur' = [cur EXCEPT ![t] = 0]
            /\ UNCHANGED <<slotVars, sendVars, portVars, mgrVars, ctx, arg, pkt>>
        BY <1>4, <2>2 DEF RecvPostAgain, Return, Pass
      <3>2. SamePlace(pc[t], l)
        BY <3>1
          DEF SamePlace, AcceptPcs, ApiPcs, RefPcs, WeakRefPcs, StrongRefPcs,
             SendRightPcs, RecvChainPcs, SlotPcs
      <3>3. TypeOK'
        BY <1>0, <3>1, BoundsAssumption, PcType
          DEF TypeOK, RefPcs, WeakRefPcs, StrongRefPcs, NoRefPcs
      <3> QED
        BY <3>1, <3>2, <3>3, NeutralStep
    <2> QED
      BY <2>1, <2>2
  <1>5. CASE RecvPostIncrement(t)
    <2>1. /\ pc[t] = "rpInc" /\ Goto(t, "rpVerify") /\ refcount' = refcount + 1
          /\ UNCHANGED <<relFlag, isSending, recvOl, sendOl, delaySend,
             slotFree, sessionCnt, lastSid, ctx>>
      BY <1>5 DEF RecvPostIncrement, AddRef
    <2>2. Shift(1, 0, 0, 0, 0, 0)
      BY <1>0, <2>1, Move, CountsNat
        DEF Shift, In, RefPcs, WeakRefPcs, StrongRefPcs, SendRightPcs,
           RecvChainPcs, SlotPcs
    <2>3. Balance'
      BY <1>0, <2>1, <2>2, Numbers, CountsNat
        DEF Shift, Balance, RefcountIsOwners, SendRightUnique,
           RecvChainUnique, SlotOwnerUnique, SessionCntExact
    <2>4. TypeOK'
      BY <1>0, <1>5, <2>1, PcType
        DEF TypeOK, RefPcs, WeakRefPcs, StrongRefPcs, NoRefPcs,
           RecvPostIncrement, AddRef
    <2>5. NobodyOnReleased'
      BY <1>0, <1>5, <2>1, Moved
        DEF Places, NobodyOnReleased, StrongRefPcs, RecvPostIncrement, AddRef
    <2>6. PopNeverFails'
      BY <1>0, <2>1, Moved DEF Places, PopNeverFails, Threads
    <2>7. ThreadsInPlace'
      BY <1>0, <1>5, <2>1, Moved
        DEF Places, ThreadsInPlace, ApiPcs, RecvPostIncrement, AddRef
    <2> QED
      BY <2>3, <2>4, <2>5, <2>6, <2>7, Parts DEF Places
  <1>6. CASE RecvPostVerify(t)
    <2>1. pc[t] = "rpVerify" /\ Goto(t, "dec")
      BY <1>6 DEF RecvPostVerify, CancelRecv
    <2>2. SamePlace(pc[t], "dec")
      BY <2>1
        DEF SamePlace, AcceptPcs, ApiPcs, RefPcs, WeakRefPcs, StrongRefPcs,
           SendRightPcs, RecvChainPcs, SlotPcs
    <2>3. TypeOK'
      BY <1>0, <1>6, <2>1, BoundsAssumption, PcType
        DEF TypeOK, RefPcs, WeakRefPcs, StrongRefPcs, NoRefPcs,
           RecvPostVerify, CancelRecv
    <2> QED
      BY <1>6, <2>1, <2>2, <2>3, NeutralStep DEF RecvPostVerify, CancelRecv
  <1> QED
    BY <1>1, <1>2, <1>3, <1>4, <1>5, <1>6 DEF RecvPostStep


\* What a worker does with a completion.
LEMMA CompletionInv ==
  ASSUME IInv, NEW t \in Threads, CompletionStep(t)
  PROVE  IInv'
PROOF
  <1> USE DEF slotVars, sendVars, portVars, mgrVars, localVars
  <1>0. TypeOK /\ Balance /\ Places
    BY Parts
  <1>1. CASE SendDone(t)
    <2>1. pc[t] = "scFree" /\ Goto(t, "scOff")
      BY <1>1 DEF SendDone, Free
    <2>2. SamePlace(pc[t], "scOff")
      BY <2>1
        DEF SamePlace, AcceptPcs, ApiPcs, RefPcs, WeakRefPcs, StrongRefPcs,
           SendRightPcs, RecvChainPcs, SlotPcs
    <2>3. Range(sendPackets) \subseteq Packets
      BY <1>0, RangeType DEF TypeOK
    <2>4. TypeOK'
      BY <1>0, <1>1, <2>1, <2>3, FreeType, PcType
        DEF TypeOK, RefPcs, WeakRefPcs, StrongRefPcs, NoRefPcs, SendDone
    <2> QED
      BY <1>1, <2>1, <2>2, <2>4, NeutralStep DEF SendDone, Free
  <1>2. CASE SendDoneOff(t)
    <2>1. /\ pc[t] = "scOff" /\ Goto(t, "scOn") /\ isSending' = 0
          /\ UNCHANGED <<refcount, relFlag, recvOl, sendOl, delaySend,
             slotFree, sessionCnt, lastSid, ctx>>
      BY <1>2 DEF SendDoneOff, SetSending
    <2>2. Shift(0, -1, 0, 0, 0, 0)
      BY <1>0, <2>1, Move, CountsNat
        DEF Shift, In, RefPcs, WeakRefPcs, StrongRefPcs, SendRightPcs,
           RecvChainPcs, SlotPcs
    <2>3. isSending = 1 /\ sendOl = "none" /\ delaySend = 0
      BY <2>1, SenderAlone DEF SendRightPcs
    <2>4. Balance'
      BY <1>0, <2>1, <2>2, <2>3, Numbers, CountsNat
        DEF Shift, Balance, RefcountIsOwners, SendRightUnique,
           RecvChainUnique, SlotOwnerUnique, SessionCntExact
    <2>5. TypeOK'
      BY <1>0, <1>2, <2>1, PcType
        DEF TypeOK, RefPcs, WeakRefPcs, StrongRefPcs, NoRefPcs, SendDoneOff,
           SetSending
    <2>6. Places'
      BY <1>0, <1>2, <2>1, <2>3, Moved
        DEF Places, NobodyOnReleased, PopNeverFails, ThreadsInPlace,
           StrongRefPcs, ApiPcs, Threads, SendDoneOff, SetSending
    <2> QED
      BY <2>4, <2>5, <2>6, Parts
  <1>3. CASE SendDoneOn(t)
    <2>1. CASE isSending = 1
      <3>1. /\ pc[t] = "scOn" /\ Goto(t, "dec") /\ isSending' = 1
            /\ UNCHANGED <<refcount, relFlag, recvOl, sendOl, delaySend,
               slotFree, sessionCnt, lastSid, ctx>>
        BY <1>3, <2>1 DEF SendDoneOn, SetSending
      <3>2. Shift(0, 0, 0, 0, 0, 0)
        BY <1>0, <3>1, Move, CountsNat
          DEF Shift, In, RefPcs, WeakRefPcs, StrongRefPcs, SendRightPcs,
             RecvChainPcs, SlotPcs
      <3>3. Balance'
        BY <1>0, <2>1, <3>1, <3>2, Numbers, CountsNat
          DEF Shift, Balance, RefcountIsOwners, SendRightUnique,
             RecvChainUnique, SlotOwnerUnique, SessionCntExact
      <3>4. TypeOK'
        BY <1>0, <1>3, <2>1, <3>1, PcType
          DEF TypeOK, RefPcs, WeakRefPcs, StrongRefPcs, NoRefPcs, SendDoneOn,
             SetSending
      <3>5. Places'
        BY <1>0, <1>3, <2>1, <3>1, Moved
          DEF Places, NobodyOnReleased, PopNeverFails, ThreadsInPlace,
             StrongRefPcs, ApiPcs, Threads, SendDoneOn, SetSending
      <3> QED
        BY <3>3, <3>4, <3>5, Parts
    <2>2. CASE isSending # 1
      <3>1. /\ pc[t] = "scOn" /\ Goto(t, "scDisc") /\ isSending' = 1
            /\ UNCHANGED <<refcount, relFlag, recvOl, sendOl, delaySend,
               slotFree, sessionCnt, lastSid, ctx>>
        BY <1>3, <2>2 DEF SendDoneOn, SetSending
      <3>2. Shift(0, 1, 0, 0, 0, 0)
        BY <1>0, <3>1, Move, CountsNat
          DEF Shift, In, RefPcs, WeakRefPcs, StrongRefPcs, SendRightPcs,
             RecvChainPcs, SlotPcs
      <3>3. Balance'
        BY <1>0, <2>2, <3>1, <3>2, Numbers, CountsNat
          DEF Shift, Balance, RefcountIsOwners, SendRightUnique,
             RecvChainUnique, SlotOwnerUnique, SessionCntExact
      <3>4. TypeOK'
        BY <1>0, <1>3, <2>2, <3>1, PcType
          DEF TypeOK, RefPcs, WeakRefPcs, StrongRefPcs, NoRefPcs, SendDoneOn,
             SetSending
      <3>5. Places'
        BY <1>0, <1>3, <2>2, <3>1, Moved
          DEF Places, NobodyOnReleased, PopNeverFails, ThreadsInPlace,
             StrongRefPcs, ApiPcs, Threads, SendDoneOn, SetSending
      <3> QED
        BY <3>3, <3>4, <3>5, Parts
    <2> QED
      BY <2>1, <2>2
  <1>4. CASE SendDoneDisc(t)
    <2>1. PICK l \in {"sendOff", "stEmpty"} :
          pc[t] = "scDisc" /\ Goto(t, l)
      BY <1>4 DEF SendDoneDisc, Test, Pass
    <2>2. SamePlace(pc[t], l)
      BY <2>1
        DEF SamePlace, AcceptPcs, ApiPcs, RefPcs, WeakRefPcs, StrongRefPcs,
           SendRightPcs, RecvChainPcs, SlotPcs
    <2>3. TypeOK'
      BY <1>0, <1>4, <2>1, PcType
        DEF TypeOK, RefPcs, WeakRefPcs, StrongRefPcs, NoRefPcs, SendDoneDisc,
           Test, Pass
    <2> QED
      BY <1>4, <2>1, <2>2, <2>3, NeutralStep DEF SendDoneDisc, Test, Pass
  <1>5. CASE RecvCheck(t)
    <2>1. PICK l \in {"dec", "parse"} :
          pc[t] = "rcCheck" /\ Goto(t, l)
      BY <1>5 DEF RecvCheck, Test, Pass
    <2>2. SamePlace(pc[t], l)
      BY <2>1
        DEF SamePlace, AcceptPcs, ApiPcs, RefPcs, WeakRefPcs, StrongRefPcs,
           SendRightPcs, RecvChainPcs, SlotPcs
    <2>3. TypeOK'
      BY <1>0, <1>5, <2>1, PcType
        DEF TypeOK, RefPcs, WeakRefPcs, StrongRefPcs, NoRefPcs, RecvCheck,
           Test, Pass
    <2> QED
      BY <1>5, <2>1, <2>2, <2>3, NeutralStep DEF RecvCheck, Test, Pass
  <1>6. CASE CancelSendAndDec(t)
    <2>1. pc[t] = "cancelSendDec" /\ Goto(t, "dec")
      BY <1>6 DEF CancelSendAndDec, CancelSendStep, CancelSend
    <2>2. SamePlace(pc[t], "dec")
      BY <2>1
        DEF SamePlace, AcceptPcs, ApiPcs, RefPcs, WeakRefPcs, StrongRefPcs,
           SendRightPcs, RecvChainPcs, SlotPcs
    <2>3. TypeOK'
      BY <1>0, <1>6, <2>1, PcType
        DEF TypeOK, RefPcs, WeakRefPcs, StrongRefPcs, NoRefPcs,
           CancelSendAndDec, CancelSendStep, CancelSend
    <2> QED
      BY <1>6, <2>1, <2>2, <2>3, NeutralStep
        DEF CancelSendAndDec, CancelSendStep, CancelSend
  <1> QED
    BY <1>1, <1>2, <1>3, <1>4, <1>5, <1>6 DEF CompletionStep


\* The parse loop and the callbacks.
LEMMA ParseInv ==
  ASSUME IInv, NEW t \in Threads, ParseMessage(t) \/ ParseEnd(t) \/ EndCallback(t)
  PROVE  IInv'
PROOF
  <1> USE DEF slotVars, sendVars, portVars, mgrVars, localVars
  <1>0. TypeOK /\ Balance /\ Places
    BY Parts
  <1>1. CASE ParseMessage(t)
    <2>1. /\ pc[t] = "parse" /\ Goto(t, "callback")
          /\ ctx' = [ctx EXCEPT ![t] = "message"]
          /\ UNCHANGED <<refcount, relFlag, isSending, recvOl, sendOl,
             delaySend, slotFree, sessionCnt, lastSid>>
      BY <1>1 DEF ParseMessage
    <2>2. Shift(-1, 0, -1, 0, 0, 0)
      BY <1>0, <2>1, Move, CountsNat
        DEF Shift, In, RefPcs, WeakRefPcs, StrongRefPcs, SendRightPcs,
           RecvChainPcs, SlotPcs
    <2>3. ctx[t] = "none"
      BY <1>0, <2>1 DEF Places, ThreadsInPlace, ApiPcs
    <2>4. SetCtx(t, "message") /\ ctx'[t] = "message" /\ \A u \in Threads : u # t => ctx'[u] = ctx[u]
      BY <1>0, <2>1, CtxMoved DEF SetCtx
    <2>5. Count(ctx', Callbacks) = Count(ctx, Callbacks) + 1
      BY <1>0, <2>3, <2>4, CtxMove, CountsNat, CallbackIn
    <2>6. ctx' \in [Threads -> {"none", "accept", "message"}]
      BY <1>0, <2>4, CtxMoved
    <2>7. relFlag # 1
      BY <1>0, <2>1 DEF Places, NobodyOnReleased, StrongRefPcs
    <2>8. RefcountIsOwners'
      BY <1>0, <2>1, <2>2, <2>3, <2>4, <2>5, <2>6, <2>7, Numbers, CountsNat
        DEF Shift, Balance, RefcountIsOwners
    <2>9. SendRightUnique'
      BY <1>0, <2>1, <2>2, <2>3, <2>4, <2>5, <2>6, <2>7, Numbers, CountsNat
        DEF Shift, Balance, SendRightUnique
    <2>10. RecvChainUnique'
      BY <1>0, <2>1, <2>2, <2>3, <2>4, <2>5, <2>6, <2>7, Numbers, CountsNat
        DEF Shift, Balance, RecvChainUnique
    <2>11. SlotOwnerUnique' /\ SessionCntExact'
      BY <1>0, <2>1, <2>2, <2>3, <2>4, <2>5, <2>6, <2>7, Numbers, CountsNat
        DEF Shift, Balance, SlotOwnerUnique, SessionCntExact
    <2>12. TypeOK'
      BY <1>0, <1>1, <2>1, PcType, <2>6
        DEF TypeOK, RefPcs, WeakRefPcs, StrongRefPcs, NoRefPcs, ParseMessage
    <2>13. NobodyOnReleased'
      BY <1>0, <1>1, <2>1, <2>3, <2>4, <2>5, <2>6, <2>7, Moved
        DEF Places, NobodyOnReleased, StrongRefPcs, TypeOK, ParseMessage
    <2>14. PopNeverFails'
      BY <1>0, <2>1, Moved DEF Places, PopNeverFails, Threads
    <2>15. ThreadsInPlace'
      BY <1>0, <1>1, <2>1, <2>3, <2>4, <2>5, <2>6, <2>7, Moved
        DEF Places, ThreadsInPlace, ApiPcs, TypeOK, ParseMessage
    <2> QED
      BY <2>8, <2>9, <2>10, <2>11, <2>12, <2>13, <2>14, <2>15, Parts
        DEF Balance, Places
  <1>2. CASE ParseBad(t)
    <2>1. pc[t] = "parse" /\ Goto(t, "cancelSendDec")
      BY <1>2 DEF ParseBad, SetDisconnect
    <2>2. SamePlace(pc[t], "cancelSendDec")
      BY <2>1
        DEF SamePlace, AcceptPcs, ApiPcs, RefPcs, WeakRefPcs, StrongRefPcs,
           SendRightPcs, RecvChainPcs, SlotPcs
    <2>3. TypeOK'
      BY <1>0, <1>2, <2>1, PcType
        DEF TypeOK, RefPcs, WeakRefPcs, StrongRefPcs, NoRefPcs, ParseBad,
           SetDisconnect
    <2> QED
      BY <1>2, <2>1, <2>2, <2>3, NeutralStep DEF ParseBad, SetDisconnect
  <1>3. CASE ParseTooSlow(t)
    <2>1. pc[t] = "parse" /\ Goto(t, "dec")
      BY <1>3 DEF ParseTooSlow, Pass
    <2>2. SamePlace(pc[t], "dec")
      BY <2>1
        DEF SamePlace, AcceptPcs, ApiPcs, RefPcs, WeakRefPcs, StrongRefPcs,
           SendRightPcs, RecvChainPcs, SlotPcs
    <2>3. TypeOK'
      BY <1>0, <1>3, <2>1, PcType
        DEF TypeOK, RefPcs, WeakRefPcs, StrongRefPcs, NoRefPcs, ParseTooSlow,
           Pass
    <2> QED
      BY <1>3, <2>1, <2>2, <2>3, NeutralStep DEF ParseTooSlow, Pass
  <1>4. CASE ParseMore(t)
    <2>1. pc[t] = "parse" /\ Goto(t, "rpCheck")
      BY <1>4 DEF ParseMore, Pass
    <2>2. SamePlace(pc[t], "rpCheck")
      BY <2>1
        DEF SamePlace, AcceptPcs, ApiPcs, RefPcs, WeakRefPcs, StrongRefPcs,
           SendRightPcs, RecvChainPcs, SlotPcs
    <2>3. TypeOK'
      BY <1>0, <1>4, <2>1, PcType
        DEF TypeOK, RefPcs, WeakRefPcs, StrongRefPcs, NoRefPcs, ParseMore,
           Pass
    <2> QED
      BY <1>4, <2>1, <2>2, <2>3, NeutralStep DEF ParseMore, Pass
  <1>5. CASE EndCallback(t)
    <2>1. PICK l \in {"rpCheck", "parse"} :
          /\ pc[t] = "callback" /\ Goto(t, l)
          /\ ctx' = [ctx EXCEPT ![t] = "none"]
          /\ cur' = [cur EXCEPT ![t] = 0]
          /\ UNCHANGED <<slotVars, sendVars, portVars, mgrVars, arg, pkt>>
      BY <1>5 DEF EndCallback
    <2>2. Shift(1, 0, 1, 0, 0, 0)
      BY <1>0, <2>1, Move, CountsNat
        DEF Shift, In, RefPcs, WeakRefPcs, StrongRefPcs, SendRightPcs,
           RecvChainPcs, SlotPcs
    <2>3. ctx' = [ctx EXCEPT ![t] = "none"] /\ UNCHANGED <<refcount, relFlag, isSending, recvOl, sendOl, delaySend,
             slotFree, sessionCnt, lastSid>>
      BY <2>1
    <2>4. ctx[t] \in Callbacks
      BY <1>0, <2>1 DEF Places, ThreadsInPlace, TypeOK, Callbacks
    <2>5. In(ctx[t], Callbacks) = 1
      BY <2>4 DEF In
    <2>6. SetCtx(t, "none") /\ ctx'[t] = "none" /\ \A u \in Threads : u # t => ctx'[u] = ctx[u]
      BY <1>0, <2>1, CtxMoved DEF SetCtx
    <2>7. Count(ctx', Callbacks) = Count(ctx, Callbacks) - 1
      BY <1>0, <2>5, <2>6, CtxMove, CountsNat, CallbackIn
    <2>8. relFlag # 1
      BY <1>0, <2>4 DEF Places, NobodyOnReleased, Callbacks
    <2>9. RefcountIsOwners'
      BY <1>0, <2>2, <2>3, <2>4, <2>5, <2>6, <2>7, <2>8, Numbers, CountsNat
        DEF Shift, Balance, RefcountIsOwners
    <2>10. SendRightUnique'
      BY <1>0, <2>2, <2>3, <2>4, <2>5, <2>6, <2>7, <2>8, Numbers, CountsNat
        DEF Shift, Balance, SendRightUnique
    <2>11. RecvChainUnique'
      BY <1>0, <2>2, <2>3, <2>4, <2>5, <2>6, <2>7, <2>8, Numbers, CountsNat
        DEF Shift, Balance, RecvChainUnique
    <2>12. SlotOwnerUnique' /\ SessionCntExact'
      BY <1>0, <2>2, <2>3, <2>4, <2>5, <2>6, <2>7, <2>8, Numbers, CountsNat
        DEF Shift, Balance, SlotOwnerUnique, SessionCntExact
    <2>13. TypeOK'
      BY <1>0, <2>1, BoundsAssumption, PcType
        DEF TypeOK, RefPcs, WeakRefPcs, StrongRefPcs, NoRefPcs
    <2>14. NobodyOnReleased'
      BY <1>0, <2>1, <2>3, <2>4, <2>5, <2>6, <2>7, <2>8, Moved
        DEF Places, NobodyOnReleased, StrongRefPcs, TypeOK
    <2>15. PopNeverFails'
      BY <1>0, <2>1, Moved DEF Places, PopNeverFails, Threads
    <2>16. ThreadsInPlace'
      BY <1>0, <2>1, <2>3, <2>4, <2>5, <2>6, <2>7, <2>8, Moved
        DEF Places, ThreadsInPlace, ApiPcs, TypeOK
    <2> QED
      BY <2>9, <2>10, <2>11, <2>12, <2>13, <2>14, <2>15, <2>16, Parts
        DEF Balance, Places
  <1> QED
    BY <1>1, <1>2, <1>3, <1>4, <1>5 DEF ParseEnd


\* A worker takes a message from the completion port.
LEMMA GetInv ==
  ASSUME IInv, NEW t \in Threads, GetDelaySend(t) \/ GetSend(t) \/ GetRecv(t)
  PROVE  IInv'
PROOF
  <1> USE DEF slotVars, sendVars, portVars, mgrVars, localVars
  <1>0. TypeOK /\ Balance /\ Places
    BY Parts
  <1>1. CASE GetDelaySend(t)
    <2>1. /\ pc[t] = "idle" /\ Goto(t, "stEmpty")
          /\ delaySend > 0 /\ delaySend' = delaySend - 1
          /\ UNCHANGED <<slotVars, sendVars, recvOl, sendOl, relMsgs, mgrVars,
                        localVars>>
      BY <1>1 DEF GetDelaySend
    <2>2. Shift(1, 1, 0, 0, 0, 0)
      BY <1>0, <2>1, Move, CountsNat
        DEF Shift, In, RefPcs, WeakRefPcs, StrongRefPcs, SendRightPcs,
           RecvChainPcs, SlotPcs
    <2>3. delaySend' = delaySend - 1 /\ UNCHANGED <<refcount, relFlag, isSending, recvOl, sendOl, slotFree,
             sessionCnt, lastSid, ctx>>
      BY <2>1
    <2>4. relFlag # 1
      BY <1>0, <2>1, Numbers DEF Places, NobodyOnReleased
    <2>5. RefcountIsOwners'
      BY <1>0, <2>2, <2>3, <2>4, Numbers, CountsNat
        DEF Shift, Balance, RefcountIsOwners
    <2>6. SendRightUnique'
      BY <1>0, <2>2, <2>3, <2>4, Numbers, CountsNat
        DEF Shift, Balance, SendRightUnique
    <2>7. RecvChainUnique'
      BY <1>0, <2>2, <2>3, <2>4, Numbers, CountsNat
        DEF Shift, Balance, RecvChainUnique
    <2>8. SlotOwnerUnique' /\ SessionCntExact'
      BY <1>0, <2>2, <2>3, <2>4, Numbers, CountsNat
        DEF Shift, Balance, SlotOwnerUnique, SessionCntExact
    <2>9. TypeOK'
      BY <1>0, <2>1, PcType, Numbers
        DEF TypeOK, RefPcs, WeakRefPcs, StrongRefPcs, NoRefPcs
    <2>10. NobodyOnReleased'
      BY <1>0, <2>1, <2>3, <2>4, Moved
        DEF Places, NobodyOnReleased, StrongRefPcs
    <2>11. PopNeverFails'
      BY <1>0, <2>1, Moved DEF Places, PopNeverFails, Threads
    <2>12. ThreadsInPlace'
      BY <1>0, <2>1, <2>3, <2>4, Moved DEF Places, ThreadsInPlace, ApiPcs
    <2> QED
      BY <2>5, <2>6, <2>7, <2>8, <2>9, <2>10, <2>11, <2>12, Parts
        DEF Balance, Places
  <1>2. CASE GetSend(t)
    <2>1. PICK l \in {"scFree", "scFail"} :
          /\ pc[t] = "idle" /\ Goto(t, l)
          /\ sendOl # "none" /\ sendOl' = "none"
          /\ UNCHANGED <<slotVars, sendVars, recvOl, delaySend, relMsgs, mgrVars,
                        localVars>>
      BY <1>2 DEF GetSend
    <2>2. Shift(1, 1, 0, 0, 0, 0)
      BY <1>0, <2>1, Move, CountsNat
        DEF Shift, In, RefPcs, WeakRefPcs, StrongRefPcs, SendRightPcs,
           RecvChainPcs, SlotPcs
    <2>3. sendOl' = "none" /\ UNCHANGED <<refcount, relFlag, isSending, recvOl, delaySend,
             slotFree, sessionCnt, lastSid, ctx>>
      BY <2>1
    <2>4. sendOl # "none" /\ relFlag # 1
      BY <1>0, <2>1 DEF Places, NobodyOnReleased
    <2>5. RefcountIsOwners'
      BY <1>0, <2>2, <2>3, <2>4, Numbers, CountsNat
        DEF Shift, Balance, RefcountIsOwners, InUse
    <2>6. SendRightUnique'
      BY <1>0, <2>2, <2>3, <2>4, Numbers, CountsNat
        DEF Shift, Balance, SendRightUnique, InUse
    <2>7. RecvChainUnique'
      BY <1>0, <2>2, <2>3, <2>4, Numbers, CountsNat
        DEF Shift, Balance, RecvChainUnique, InUse
    <2>8. SlotOwnerUnique' /\ SessionCntExact'
      BY <1>0, <2>2, <2>3, <2>4, Numbers, CountsNat
        DEF Shift, Balance, SlotOwnerUnique, SessionCntExact, InUse
    <2>9. TypeOK'
      BY <1>0, <2>1, FreeType, PcType
        DEF TypeOK, RefPcs, WeakRefPcs, StrongRefPcs, NoRefPcs
    <2>10. NobodyOnReleased'
      BY <1>0, <2>1, <2>3, <2>4, Moved
        DEF Places, NobodyOnReleased, StrongRefPcs
    <2>11. PopNeverFails'
      BY <1>0, <2>1, Moved DEF Places, PopNeverFails, Threads
    <2>12. ThreadsInPlace'
      BY <1>0, <2>1, <2>3, <2>4, Moved DEF Places, ThreadsInPlace, ApiPcs
    <2> QED
      BY <2>5, <2>6, <2>7, <2>8, <2>9, <2>10, <2>11, <2>12, Parts
        DEF Balance, Places
  <1>3. CASE GetRecv(t)
    <2>1. CASE recvOl = "zero"
      <3>1. /\ pc[t] = "idle" /\ Goto(t, "cancelSendDec")
            /\ recvOl # "none" /\ recvOl' = "none" /\ isDisconnect' = 1
            /\ UNCHANGED <<refcount, relFlag, sessionId, isSending, sendVars, sendOl,
                          delaySend, relMsgs, mgrVars, localVars>>
        BY <1>3, <2>1 DEF GetRecv
      <3>2. Shift(1, 0, 0, 0, 0, 0)
        BY <1>0, <3>1, Move, CountsNat
          DEF Shift, In, RefPcs, WeakRefPcs, StrongRefPcs, SendRightPcs,
             RecvChainPcs, SlotPcs
      <3>3. recvOl' = "none" /\ UNCHANGED <<refcount, relFlag, isSending, sendOl, delaySend,
               slotFree, sessionCnt, lastSid, ctx>>
        BY <3>1
      <3>4. recvOl # "none" /\ relFlag # 1
        BY <1>0, <3>1 DEF Places, NobodyOnReleased
      <3>5. RefcountIsOwners'
        BY <1>0, <3>2, <3>3, <3>4, Numbers, CountsNat
          DEF Shift, Balance, RefcountIsOwners, InUse
      <3>6. SendRightUnique'
        BY <1>0, <3>2, <3>3, <3>4, Numbers, CountsNat
          DEF Shift, Balance, SendRightUnique, InUse
      <3>7. RecvChainUnique'
        BY <1>0, <3>2, <3>3, <3>4, Numbers, CountsNat
          DEF Shift, Balance, RecvChainUnique, InUse
      <3>8. SlotOwnerUnique' /\ SessionCntExact'
        BY <1>0, <3>2, <3>3, <3>4, Numbers, CountsNat
          DEF Shift, Balance, SlotOwnerUnique, SessionCntExact, InUse
      <3>9. TypeOK'
        BY <1>0, <3>1, PcType
          DEF TypeOK, RefPcs, WeakRefPcs, StrongRefPcs, NoRefPcs
      <3>10. NobodyOnReleased'
        BY <1>0, <3>1, <3>3, <3>4, Moved
          DEF Places, NobodyOnReleased, StrongRefPcs
      <3>11. PopNeverFails'
        BY <1>0, <3>1, Moved DEF Places, PopNeverFails, Threads
      <3>12. ThreadsInPlace'
        BY <1>0, <3>1, <3>3, <3>4, Moved DEF Places, ThreadsInPlace, ApiPcs
      <3> QED
        BY <3>5, <3>6, <3>7, <3>8, <3>9, <3>10, <3>11, <3>12, Parts
          DEF Balance, Places
    <2>2. CASE recvOl # "zero"
      <3>1. /\ pc[t] = "idle" /\ Goto(t, "rcCheck")
            /\ recvOl # "none" /\ recvOl' = "none"
            /\ UNCHANGED <<slotVars, sendVars, sendOl, delaySend, relMsgs, mgrVars,
                          localVars>>
        BY <1>3, <2>2 DEF GetRecv
      <3>2. Shift(1, 0, 1, 0, 0, 0)
        BY <1>0, <3>1, Move, CountsNat
          DEF Shift, In, RefPcs, WeakRefPcs, StrongRefPcs, SendRightPcs,
             RecvChainPcs, SlotPcs
      <3>3. recvOl' = "none" /\ UNCHANGED <<refcount, relFlag, isSending, sendOl, delaySend,
               slotFree, sessionCnt, lastSid, ctx>>
        BY <3>1
      <3>4. recvOl # "none" /\ relFlag # 1
        BY <1>0, <3>1 DEF Places, NobodyOnReleased
      <3>5. RefcountIsOwners'
        BY <1>0, <3>2, <3>3, <3>4, Numbers, CountsNat
          DEF Shift, Balance, RefcountIsOwners, InUse
      <3>6. SendRightUnique'
        BY <1>0, <3>2, <3>3, <3>4, Numbers, CountsNat
          DEF Shift, Balance, SendRightUnique, InUse
      <3>7. RecvChainUnique'
        BY <1>0, <3>2, <3>3, <3>4, Numbers, CountsNat
          DEF Shift, Balance, RecvChainUnique, InUse
      <3>8. SlotOwnerUnique' /\ SessionCntExact'
        BY <1>0, <3>2, <3>3, <3>4, Numbers, CountsNat
          DEF Shift, Balance, SlotOwnerUnique, SessionCntExact, InUse
      <3>9. TypeOK'
        BY <1>0, <3>1, PcType
          DEF TypeOK, RefPcs, WeakRefPcs, StrongRefPcs, NoRefPcs
      <3>10. NobodyOnReleased'
        BY <1>0, <3>1, <3>3, <3>4, Moved
          DEF Places, NobodyOnReleased, StrongRefPcs
      <3>11. PopNeverFails'
        BY <1>0, <3>1, Moved DEF Places, PopNeverFails, Threads
      <3>12. ThreadsInPlace'
        BY <1>0, <3>1, <3>3, <3>4, Moved DEF Places, ThreadsInPlace, ApiPcs
      <3> QED
        BY <3>5, <3>6, <3>7, <3>8, <3>9, <3>10, <3>11, <3>12, Parts
          DEF Balance, Places
    <2> QED
      BY <2>1, <2>2
  <1> QED
    BY <1>1, <1>2, <1>3


\* The content calls the library.
LEMMA CallInv ==
  ASSUME IInv, NEW t \in Threads, CallStep(t)
  PROVE  IInv'
PROOF
  <1> USE DEF slotVars, sendVars, portVars, mgrVars, localVars
  <1>0. TypeOK /\ Balance /\ Places
    BY Parts
  <1>1. ASSUME NEW s \in Sids, CallDisconnect(t, s)
       PROVE  IInv'
    <2>1. /\ pc[t] \in {"idle", "callback"} /\ Goto(t, "dcInc")
          /\ arg' = [arg EXCEPT ![t] = s]
          /\ UNCHANGED <<slotVars, sendVars, portVars, mgrVars, ctx, cur, pkt>>
      BY <1>1 DEF CallDisconnect, Calling
    <2>2. SamePlace(pc[t], "dcInc")
      BY <2>1
        DEF SamePlace, AcceptPcs, ApiPcs, RefPcs, WeakRefPcs, StrongRefPcs,
           SendRightPcs, RecvChainPcs, SlotPcs
    <2>3. TypeOK'
      BY <1>0, <2>1, SidsType, PcType
        DEF TypeOK, RefPcs, WeakRefPcs, StrongRefPcs, NoRefPcs
    <2> QED
      BY <2>1, <2>2, <2>3, NeutralStep
  <1>2. ASSUME NEW s \in Sids, NEW p \in Packets, CallSendPacket(t, s, p)
       PROVE  IInv'
    <2>1. /\ pc[t] \in {"idle", "callback"} /\ Goto(t, "spInc")
          /\ arg' = [arg EXCEPT ![t] = s] /\ pkt' = [pkt EXCEPT ![t] = p]
          /\ pool' = pool \ {p} /\ dest' = [dest EXCEPT ![p] = s]
          /\ UNCHANGED <<slotVars, sendQ, sendPackets, portVars, mgrVars, ctx, cur>>
      BY <1>2 DEF CallSendPacket, Calling
    <2>2. SamePlace(pc[t], "spInc")
      BY <2>1
        DEF SamePlace, AcceptPcs, ApiPcs, RefPcs, WeakRefPcs, StrongRefPcs,
           SendRightPcs, RecvChainPcs, SlotPcs
    <2>3. TypeOK'
      <3>1. s \in 0 .. MaxSid
        BY SidsType
      <3>2. pc' \in [Threads -> RefPcs \cup NoRefPcs]
        BY <1>0, <2>1, PcType DEF NoRefPcs
      <3>3. arg' \in [Threads -> 0 .. MaxSid]
        BY <1>0, <2>1, <3>1 DEF TypeOK
      <3>4. pkt' \in [Threads -> Packets \cup {NoPacket}]
        BY <1>0, <2>1 DEF TypeOK
      <3>5. pool' \in SUBSET Packets /\ dest' \in [Packets -> 0 .. MaxSid]
        BY <1>0, <2>1, <3>1 DEF TypeOK
      <3> QED
        BY <1>0, <2>1, <3>2, <3>3, <3>4, <3>5 DEF TypeOK
    <2>4. pkt'[t] = p /\ \A u \in Threads : u # t => pkt'[u] = pkt[u]
      BY <1>0, <2>1 DEF TypeOK
    <2> QED
      BY <2>1, <2>2, <2>3, <2>4, NeutralStep
  <1> QED
    BY <1>1, <1>2 DEF CallStep

\* The accept thread believes the count: below the maximum an index is free.
LEMMA AcceptOneInv ==
  ASSUME IInv, NEW t \in Threads, Accept(t)
  PROVE  IInv'
PROOF
  <1> USE DEF slotVars, sendVars, portVars, mgrVars, localVars
  <1>0. TypeOK /\ Balance /\ Places
    BY Parts
  <1>1. /\ t = Acceptor /\ pc[t] = "idle" /\ Goto(t, "acPop")
        /\ lastSid < MaxSid /\ sessionCnt < 1
        /\ UNCHANGED <<slotVars, sendVars, portVars, mgrVars, localVars>>
    BY DEF Accept
  <1>2. Shift(0, 0, 0, 0, 0, 0)
    BY <1>0, <1>1, Move, CountsNat
       DEF Shift, In, RefPcs, WeakRefPcs, StrongRefPcs, SendRightPcs,
           RecvChainPcs, SlotPcs
  <1>3. Balance'
    BY <1>0, <1>1, <1>2, Numbers, CountsNat
       DEF Shift, Balance, RefcountIsOwners, SendRightUnique,
           RecvChainUnique, SlotOwnerUnique, SessionCntExact
  <1>4. TypeOK'
    BY <1>0, <1>1, PcType DEF TypeOK, NoRefPcs
  <1>5. slotFree = 1
    <2>1. \A u \in Threads : pc[u] \notin {"acCnt"}
      BY <1>0, <1>1 DEF Places, ThreadsInPlace
    <2>2. Count(pc, {"acCnt"}) = 0
      BY <2>1, CountNat
    <2> QED
      BY <1>0, <1>1, <2>2, Numbers, CountsNat DEF Balance, SessionCntExact
  <1>6. NobodyOnReleased' /\ PopNeverFails'
    BY <1>0, <1>1, <1>5, Moved
       DEF Places, NobodyOnReleased, PopNeverFails, StrongRefPcs
  <1>7. ThreadsInPlace'
    <2>1. ctx[t] = "none"
      BY <1>0, <1>1 DEF Places, ThreadsInPlace, ApiPcs
    <2> QED
      BY <1>0, <1>1, <2>1, Moved DEF Places, ThreadsInPlace
  <1> QED
    BY <1>3, <1>4, <1>6, <1>7, Parts DEF Places

\* Steps that move no thread: OnRelease, and the kernel.
LEMMA StillInv ==
  ASSUME IInv,
         \/ \E t \in Threads, s \in Sids : GetRelease(t, s)
         \/ RecvCompletes \/ SendCompletes
         \/ UNCHANGED vars
  PROVE  IInv'
PROOF
  <1> USE DEF slotVars, sendVars, portVars, mgrVars, localVars
  <1>0. TypeOK /\ Balance /\ Places
    BY Parts
  <1>1. /\ UNCHANGED <<refcount, relFlag, isSending, delaySend, slotFree,
                       sessionCnt, lastSid, pc, ctx, pkt>>
        /\ recvOl' = "none" <=> recvOl = "none"
        /\ sendOl' = "none" <=> sendOl = "none"
    BY DEF GetRelease, RecvCompletes, SendCompletes, vars
  <1>2. InUse(recvOl') = InUse(recvOl) /\ InUse(sendOl') = InUse(sendOl)
    BY <1>1 DEF InUse
  <1>3. Balance'
    BY <1>0, <1>1, <1>2
       DEF Balance, RefcountIsOwners, SendRightUnique, RecvChainUnique,
           SlotOwnerUnique, SessionCntExact
  <1>4. Places'
    BY <1>0, <1>1
       DEF Places, NobodyOnReleased, PopNeverFails, ThreadsInPlace
  <1>5. TypeOK'
    <2>1. ASSUME NEW t \in Threads, NEW s \in Sids, GetRelease(t, s)
          PROVE  TypeOK'
      <3>1. /\ relMsgs' = [relMsgs EXCEPT ![s] = @ - 1] /\ relMsgs[s] > 0
            /\ app' = [app EXCEPT ![s] = "released"]
            /\ UNCHANGED <<slotVars, sendVars, recvOl, sendOl, delaySend,
                           slotFree, sessionCnt, lastSid, pc, localVars>>
        BY <2>1 DEF GetRelease
      <3>2. relMsgs' \in [Sids -> Nat]
        BY <1>0, <3>1 DEF TypeOK
      <3> QED
        BY <1>0, <3>1, <3>2 DEF TypeOK
    <2>2. CASE RecvCompletes
      BY <1>0, <2>2 DEF TypeOK, RecvCompletes
    <2>3. CASE SendCompletes
      BY <1>0, <2>3 DEF TypeOK, SendCompletes
    <2>4. CASE UNCHANGED vars
      BY <1>0, <2>4 DEF TypeOK, vars
    <2> QED
      BY <2>1, <2>2, <2>3, <2>4
  <1> QED
    BY <1>3, <1>4, <1>5, Parts

-----------------------------------------------------------------------------
(* The theorems.                                                            *)

\* The first state, every thread idle and the slot on the stack, has IInv.
LEMMA InitIInv == Init => IInv
PROOF
  <1> SUFFICES ASSUME Init PROVE IInv
    OBVIOUS
  <1>1. TypeOK
    BY BoundsAssumption DEF Init, TypeOK, NoRefPcs
  <1>2. /\ \A t \in Threads : pc[t] = "idle" /\ ctx[t] = "none"
        /\ refcount = 0 /\ relFlag = 1 /\ isSending = 0 /\ recvOl = "none"
        /\ sendOl = "none" /\ delaySend = 0 /\ slotFree = 1 /\ sessionCnt = 0
    BY DEF Init
  <1>3. /\ \A t \in Threads : pc[t] \notin RefPcs
        /\ \A t \in Threads : pc[t] \notin SendRightPcs
        /\ \A t \in Threads : pc[t] \notin RecvChainPcs
        /\ \A t \in Threads : pc[t] \notin SlotPcs
        /\ \A t \in Threads : pc[t] \notin {"acCnt"}
        /\ \A t \in Threads : pc[t] \notin {"cntDec"}
        /\ \A t \in Threads : ctx[t] \notin Callbacks
    BY <1>2 DEF RefPcs, WeakRefPcs, StrongRefPcs, SendRightPcs, RecvChainPcs,
                SlotPcs, Callbacks
  <1>4. /\ Count(pc, RefPcs) = 0 /\ Count(pc, SendRightPcs) = 0
        /\ Count(pc, RecvChainPcs) = 0 /\ Count(pc, SlotPcs) = 0
        /\ Count(pc, {"acCnt"}) = 0 /\ Count(pc, {"cntDec"}) = 0
        /\ Count(ctx, Callbacks) = 0
    BY <1>3, CountNat
  <1>5. Balance
    BY <1>2, <1>4 DEF Balance, RefcountIsOwners, SendRightUnique,
                      RecvChainUnique, SlotOwnerUnique, SessionCntExact, InUse
  <1>6. Places
    BY <1>2 DEF Places, NobodyOnReleased, PopNeverFails, ThreadsInPlace,
                StrongRefPcs, Threads
  <1> QED
    BY <1>1, <1>5, <1>6 DEF IInv, Balance, Places

\* Every step of every thread, of the kernel and of the peer keeps IInv.
LEMMA NextIInv == IInv /\ [Next]_vars => IInv'
PROOF
  <1> SUFFICES ASSUME IInv, [Next]_vars PROVE IInv'
    OBVIOUS
  <1>1. ASSUME NEW t \in Threads,
               \/ LibStep(t) \/ Accept(t) \/ GetStep(t) \/ CallStep(t)
               \/ EndCallback(t) \/ ParseMessage(t) \/ ParseEnd(t)
        PROVE  IInv'
    <2>1. CASE LibStep(t)
      BY <2>1, ReleaseInv, AcceptInv, ApiInv, SendPostInv, RecvPostInv,
         CompletionInv DEF LibStep
    <2>2. CASE GetStep(t)
      BY <2>2, GetInv, StillInv DEF GetStep
    <2>3. CASE EndCallback(t) \/ ParseMessage(t) \/ ParseEnd(t)
      BY <2>3, ParseInv DEF ParseEnd
    <2> QED
      BY <1>1, <2>1, <2>2, <2>3, AcceptOneInv, CallInv
  <1>2. CASE RecvCompletes \/ SendCompletes \/ UNCHANGED vars
    BY <1>2, StillInv
  <1> QED
    BY <1>1, <1>2 DEF Next

\* IInv is an invariant, for any number of threads, packets and sessions.
THEOREM Inductive == Spec => []IInv
  BY InitIInv, NextIInv, PTL DEF Spec

\* Every variable keeps its type: refcount never drops below 0.
THEOREM Types == Spec => []TypeOK
  BY Inductive, PTL DEF IInv

\* The reference count is exact, so it is 0 only when nobody is left.
THEOREM RefcountExact == Spec => []RefcountIsOwners
  BY Inductive, PTL DEF IInv

\* Nobody works on a released session.
THEOREM ReleasedUntouched == Spec => []NobodyOnReleased
  BY Inductive, PTL DEF IInv

\* The right to send is in one hand, so one WSASend is in progress at most.
THEOREM OneSender == Spec => []SendRightUnique
  BY Inductive, PTL DEF IInv

\* The receive side is in one hand.
THEOREM OneReceiver == Spec => []RecvChainUnique
  BY Inductive, PTL DEF IInv

\* AcquireSession finds a free index whenever the count allowed the accept.
THEOREM IndexFree == Spec => []PopNeverFails
  BY Inductive, PTL DEF IInv

=============================================================================
