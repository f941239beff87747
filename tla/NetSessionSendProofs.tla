------------------------ MODULE NetSessionSendProofs ------------------------
(***************************************************************************)
(* The send side of NetSession, for any number of threads and packets: no   *)
(* packet reference is lost or freed twice, what is sent was addressed to   *)
(* the session that sends it, and no packet waits in sendQ unseen.          *)
(*                                                                          *)
(* The inductive invariant is SendIInv, on top of the IInv of               *)
(* NetSessionProofs.  Most steps touch no packet: SendFrame says what such  *)
(* a step has to keep, and the steps that move packets are worked out one   *)
(* by one from two facts, that a packet is in one place (OnePlace) and how  *)
(* often it occurs in a queue (Times).                                      *)
(***************************************************************************)
EXTENDS NetSessionProofs, FunctionTheorems

-----------------------------------------------------------------------------
(* How often a packet occurs in a queue.                                    *)

Times(q, p) == Cardinality({i \in DOMAIN q : q[i] = p})

\* The positions of a packet in a queue are finitely many, and there is one
\* exactly when the packet is in the queue.
LEMMA TimesNat ==
  ASSUME NEW q \in Seq(Packets), NEW p
  PROVE  /\ Times(q, p) \in Nat
         /\ Times(q, p) = 0 <=> p \notin Range(q)
PROOF
  <1> DEFINE I == {i \in DOMAIN q : q[i] = p}
  <1>1. DOMAIN q = 1 .. Len(q) /\ Len(q) \in Int
    BY LenProperties
  <1>2. IsFiniteSet(I)
    BY <1>1, FS_Interval, FS_Subset
  <1>3. Cardinality(I) \in Nat /\ (Cardinality(I) = 0 <=> I = {})
    BY <1>2, FS_CardinalityType, FS_EmptySet
  <1>4. I = {} <=> p \notin Range(q)
    BY DEF Range
  <1> QED
    BY <1>3, <1>4 DEF Times

\* Nothing occurs in the empty queue.
LEMMA TimesEmpty == \A p : Times(<<>>, p) = 0
PROOF
  <1> SUFFICES ASSUME NEW p PROVE Times(<<>>, p) = 0
    OBVIOUS
  <1>1. {i \in DOMAIN <<>> : <<>>[i] = p} = {}
    OBVIOUS
  <1> QED
    BY <1>1, FS_EmptySet DEF Times

\* Enqueue adds one occurrence of the packet, and no other.
LEMMA TimesAppend ==
  ASSUME NEW q \in Seq(Packets), NEW e \in Packets, NEW p
  PROVE  Times(Append(q, e), p) = Times(q, p) + One(e = p)
PROOF
  <1> DEFINE r == Append(q, e)
             I == {i \in DOMAIN q : q[i] = p}
             J == {i \in DOMAIN r : r[i] = p}
             n == Len(q) + 1
  <1>1. /\ DOMAIN q = 1 .. Len(q) /\ Len(q) \in Nat /\ r \in Seq(Packets)
        /\ Len(r) = n /\ r[n] = e /\ \A i \in 1 .. Len(q) : r[i] = q[i]
    BY LenProperties, AppendProperties
  <1>2. DOMAIN r = 1 .. n
    BY <1>1, LenProperties
  <1>3. IsFiniteSet(I) /\ n \notin I
    <2>1. I \subseteq 1 .. Len(q) /\ n \notin 1 .. Len(q)
      BY <1>1
    <2>2. IsFiniteSet(1 .. Len(q))
      BY <1>1, FS_Interval
    <2> QED
      BY <2>1, <2>2, FS_Subset
  <1>4. Cardinality(I) \in Nat
    BY <1>3, FS_CardinalityType
  <1>5. CASE e = p
    <2>1. J = I \cup {n}
      BY <1>1, <1>2, <1>5
    <2> HIDE DEF I, J, n
    <2>2. Cardinality(J) = Cardinality(I) + 1
      BY <1>3, <2>1, FS_AddElement
    <2> QED
      BY <1>5, <2>2 DEF Times, I, J, One
  <1>6. CASE e # p
    <2>1. J = I
      BY <1>1, <1>2, <1>6
    <2>2. Times(r, p) = Cardinality(I) /\ Times(q, p) = Cardinality(I)
      BY <2>1 DEF Times
    <2> HIDE DEF I, J
    <2> QED
      BY <1>4, <1>6, <2>2 DEF One
  <1> QED
    BY <1>5, <1>6

\* A queue cut in two keeps every occurrence, in one part or the other.
LEMMA TimesSplit ==
  ASSUME NEW q \in Seq(Packets), NEW n \in 0 .. Len(q), NEW p
  PROVE  Times(SubSeq(q, 1, n), p) + Times(SubSeq(q, n + 1, Len(q)), p)
           = Times(q, p)
PROOF
  <1> DEFINE a == SubSeq(q, 1, n)
             b == SubSeq(q, n + 1, Len(q))
             I == {i \in DOMAIN q : q[i] = p}
             A == {i \in DOMAIN a : a[i] = p}
             B == {i \in DOMAIN b : b[i] = p}
             U == {i \in I : i > n}
             f == [i \in B |-> i + n]
  <1>1. DOMAIN q = 1 .. Len(q) /\ Len(q) \in Nat /\ n \in Nat /\ n <= Len(q)
    BY LenProperties
  <1>2. \A i \in 1 .. Len(q) : q[i] \in Packets
    BY ElementOfSeq
  <1>3. /\ a \in Seq(Packets) /\ Len(a) = n
        /\ \A i \in 1 .. n : a[i] = q[i]
    <2>1. \A i \in 1 .. n : q[i] \in Packets
      BY <1>1, <1>2
    <2>2. /\ a \in Seq(Packets) /\ Len(a) = IF 1 <= n THEN n - 1 + 1 ELSE 0
          /\ \A i \in 1 .. n - 1 + 1 : a[i] = q[1 + i - 1]
      BY <1>1, <2>1, SubSeqProperties
    <2> QED
      BY <1>1, <2>2
  <1>4. /\ b \in Seq(Packets) /\ Len(b) = Len(q) - n
        /\ \A i \in 1 .. Len(q) - n : b[i] = q[i + n]
    <2>1. \A i \in n + 1 .. Len(q) : q[i] \in Packets
      BY <1>1, <1>2
    <2>2. /\ b \in Seq(Packets)
          /\ Len(b) = IF n + 1 <= Len(q) THEN Len(q) - (n + 1) + 1 ELSE 0
          /\ \A i \in 1 .. Len(q) - (n + 1) + 1 : b[i] = q[(n + 1) + i - 1]
      BY <1>1, <2>1, SubSeqProperties
    <2> HIDE DEF b
    <2>3. Len(q) - (n + 1) + 1 = Len(q) - n
      BY <1>1
    <2>4. (IF n + 1 <= Len(q) THEN Len(q) - (n + 1) + 1 ELSE 0) = Len(q) - n
      <3>1. CASE n + 1 <= Len(q)
        BY <2>3, <3>1
      <3>2. CASE n = Len(q)
        BY <1>1, <3>2
      <3>3. \A k, l \in Nat : k <= l => k + 1 <= l \/ k = l
        OBVIOUS
      <3>4. n + 1 <= Len(q) \/ n = Len(q)
        BY <1>1, <3>3
      <3> QED
        BY <3>1, <3>2, <3>4
    <2>5. \A i \in 1 .. Len(q) - n : b[i] = q[i + n]
      <3> TAKE i \in 1 .. Len(q) - n
      <3>1. (n + 1) + i - 1 = i + n
        BY <1>1
      <3>2. b[i] = q[(n + 1) + i - 1]
        BY <2>2, <2>3
      <3> QED
        BY <3>1, <3>2
    <2> QED
      BY <2>2, <2>4, <2>5
  <1>5. DOMAIN a = 1 .. n /\ DOMAIN b = 1 .. Len(q) - n
    BY <1>3, <1>4, LenProperties
  <1> HIDE DEF a, b
  <1>6. A \cup U = I /\ A \cap U = {}
    BY <1>1, <1>3, <1>5
  <1>7. IsFiniteSet(A) /\ IsFiniteSet(B) /\ IsFiniteSet(U)
    <2>1. A \subseteq 1 .. Len(q) /\ B \subseteq 1 .. Len(q)
          /\ U \subseteq 1 .. Len(q)
      BY <1>1, <1>5
    <2>2. IsFiniteSet(1 .. Len(q))
      BY <1>1, FS_Interval
    <2> QED
      BY <2>1, <2>2, FS_Subset
  <1>8. f \in Bijection(B, U)
    <2>1. f \in [B -> U]
      BY <1>1, <1>4, <1>5
    <2>2. \A i, j \in B : f[i] = f[j] => i = j
      BY <1>1, <1>5
    <2>3. \A u \in U : \E i \in B : f[i] = u
      <3> TAKE u \in U
      <3>1. u - n \in B /\ f[u - n] = u
        BY <1>1, <1>4, <1>5
      <3> QED
        BY <3>1
    <2> QED
      BY <2>1, <2>2, <2>3, Fun_IsBij
  <1>9. Cardinality(U) = Cardinality(B)
    BY <1>7, <1>8, FS_Bijection DEF ExistsBijection
  <1>10. /\ Cardinality(A) \in Nat /\ Cardinality(B) \in Nat
         /\ Cardinality(U) \in Nat
    BY <1>7, FS_CardinalityType
  <1> HIDE DEF A, B, I, U
  <1>11. Cardinality(I) = Cardinality(A) + Cardinality(U)
    <2>1. Cardinality(A \cup U)
            = Cardinality(A) + Cardinality(U) - Cardinality(A \cap U)
      BY <1>7, FS_Union
    <2>2. Cardinality(A \cap U) = 0
      BY <1>6, FS_EmptySet
    <2>3. Cardinality(A \cup U) = Cardinality(I)
      BY <1>6
    <2> QED
      BY <1>10, <2>1, <2>2, <2>3
  <1> QED
    BY <1>9, <1>10, <1>11 DEF Times, A, B, I, a, b

\* A thread counted beside another one makes a count of two.
LEMMA CountTwo ==
  ASSUME NEW f, NEW S, NEW t \in Threads, NEW u \in Threads, t # u,
         f[t] \in S, f[u] \in S
  PROVE  Count(f, S) >= 2
PROOF
  <1> DEFINE F == {v \in Threads : f[v] \in S}
  <1>1. t \in F /\ u \in F \ {t} /\ IsFiniteSet(F) /\ IsFiniteSet(F \ {t})
    BY ThreadsFinite, FS_Subset
  <1>2. /\ Cardinality(F) \in Nat /\ Cardinality(F \ {t}) \in Nat
        /\ Cardinality(F \ {t}) # 0
    BY <1>1, FS_CardinalityType, FS_EmptySet
  <1> HIDE DEF F
  <1>3. Cardinality(F \ {t}) = Cardinality(F) - 1
    BY <1>1, FS_RemoveElement
  <1> QED
    BY <1>2, <1>3 DEF Count, F

-----------------------------------------------------------------------------
(* What a packet and a thread may rely on.                                  *)

\* The four places of a packet, counted.
LEMMA PlaceNumbers ==
  ASSUME TypeOK, NEW p \in Packets
  PROVE  /\ One(p \in pool) \in {0, 1} /\ Count(pkt, {p}) \in Nat
         /\ Times(sendQ, p) \in Nat /\ Times(sendPackets, p) \in Nat
  BY CountNat, TimesNat DEF TypeOK, One

\* PacketsConserved with its counts named.
LEMMA Conserved ==
  PacketsConserved <=>
    \A p \in Packets : One(p \in pool) + Count(pkt, {p}) + Times(sendQ, p)
                       + Times(sendPackets, p) = 1
PROOF
  <1>1. \A p : {t \in Threads : pkt[t] = p} = {t \in Threads : pkt[t] \in {p}}
    OBVIOUS
  <1> QED
    BY <1>1 DEF PacketsConserved, Count, Times

\* The same after a step.
LEMMA ConservedNext ==
  PacketsConserved' <=>
    \A p \in Packets : One(p \in pool') + Count(pkt', {p}) + Times(sendQ', p)
                       + Times(sendPackets', p) = 1
PROOF
  <1>1. \A p : {t \in Threads : pkt'[t] = p} = {t \in Threads : pkt'[t] \in {p}}
    OBVIOUS
  <1> QED
    BY <1>1 DEF PacketsConserved, Count, Times

\* A packet that is in one place is in no other: what is freed is nowhere
\* else, so no free comes twice.
LEMMA OnePlace ==
  ASSUME TypeOK, PacketsConserved, NEW p \in Packets
  PROVE  /\ p \in pool => /\ p \notin Range(sendQ) /\ p \notin Range(sendPackets)
                          /\ \A u \in Threads : pkt[u] # p
         /\ p \in Range(sendQ) => /\ p \notin Range(sendPackets)
                                  /\ \A u \in Threads : pkt[u] # p
         /\ p \in Range(sendPackets) => \A u \in Threads : pkt[u] # p
         /\ \A t, u \in Threads : pkt[t] = p /\ pkt[u] = p => t = u
PROOF
  <1>1. /\ One(p \in pool) + Count(pkt, {p}) + Times(sendQ, p)
             + Times(sendPackets, p) = 1
        /\ One(p \in pool) \in Nat /\ Count(pkt, {p}) \in Nat
        /\ Times(sendQ, p) \in Nat /\ Times(sendPackets, p) \in Nat
    BY Conserved, PlaceNumbers
  <1>2. /\ p \in Range(sendQ) => Times(sendQ, p) >= 1
        /\ p \in Range(sendPackets) => Times(sendPackets, p) >= 1
        /\ p \in pool => One(p \in pool) >= 1
    BY <1>1, TimesNat DEF TypeOK, One
  <1>3. \A u \in Threads : pkt[u] = p => Count(pkt, {p}) >= 1
    BY CountNat
  <1>4. \A t, u \in Threads : pkt[t] = p /\ pkt[u] = p /\ t # u
                                => Count(pkt, {p}) >= 2
    BY CountTwo
  <1> DEFINE a == One(p \in pool)
             b == Count(pkt, {p})
             c == Times(sendQ, p)
             d == Times(sendPackets, p)
  <1>5. a + b + c + d = 1 /\ a \in Nat /\ b \in Nat /\ c \in Nat /\ d \in Nat
    BY <1>1
  <1>6. /\ p \in Range(sendQ) => c >= 1
        /\ p \in Range(sendPackets) => d >= 1
        /\ p \in pool => a >= 1
        /\ \A u \in Threads : pkt[u] = p => b >= 1
        /\ \A t, u \in Threads : pkt[t] = p /\ pkt[u] = p /\ t # u => b >= 2
    BY <1>2, <1>3, <1>4, Zenon
  <1> HIDE DEF a, b, c, d
  <1>7. /\ a >= 1 => b < 1 /\ c < 1 /\ d < 1
        /\ c >= 1 => b < 1 /\ d < 1
        /\ d >= 1 => b < 1
        /\ b < 2
        /\ ~(b >= 1 /\ b < 1) /\ ~(b >= 2 /\ b < 2)
        /\ ~(c >= 1 /\ c < 1) /\ ~(d >= 1 /\ d < 1)
    BY <1>5
  <1> QED
    BY <1>6, <1>7, Zenon

\* The thread that is about to fill sendPackets finds it empty.
LEMMA BatchTaken ==
  ASSUME IInv, BatchInFlight, NEW t \in Threads, pc[t] = "stTake"
  PROVE  sendPackets = <<>>
PROOF
  <1>1. sendOl = "none" /\ isSending = 1 /\ delaySend = 0
    BY SenderAlone DEF SendRightPcs
  <1>2. Count(pc, SendRightPcs) = 1
    BY <1>1, Parts, CountsNat DEF Balance, SendRightUnique, InUse
  <1>3. \A u \in Threads : pc[u] \notin BatchPcs
    <2> SUFFICES ASSUME NEW u \in Threads, pc[u] \in BatchPcs PROVE FALSE
      OBVIOUS
    <2>1. t # u /\ pc[t] \in SendRightPcs /\ pc[u] \in SendRightPcs
      BY DEF BatchPcs, SendRightPcs
    <2> QED
      BY <1>2, <2>1, CountTwo
  <1> QED
    BY <1>1, <1>3 DEF BatchInFlight

\* A session that is being made finds both queues of its slot empty.
LEMMA NewSlotEmpty ==
  ASSUME IInv, BatchInFlight, ReleasedQueueEmpty, NEW t \in Threads,
         pc[t] \in {"acInit", "acOpen"}
  PROVE  sendQ = <<>> /\ sendPackets = <<>> /\ relFlag = 1
PROOF
  <1>1. relFlag = 1 /\ slotFree = 0 /\ Count(pc, SlotPcs) = 1
    BY SlotHolderAlone, Parts, CountsNat DEF SlotPcs, Balance, SlotOwnerUnique
  <1>2. \A u \in Threads : pc[u] # "clear"
    <2> SUFFICES ASSUME NEW u \in Threads, pc[u] = "clear" PROVE FALSE
      OBVIOUS
    <2>1. t # u /\ pc[t] \in SlotPcs /\ pc[u] \in SlotPcs
      BY DEF SlotPcs
    <2> QED
      BY <1>1, <2>1, CountTwo
  <1>3. sendOl = "none" /\ \A u \in Threads : pc[u] \notin BatchPcs
    BY <1>1, Parts
       DEF Places, NobodyOnReleased, BatchPcs, StrongRefPcs
  <1> QED
    BY <1>1, <1>2, <1>3 DEF BatchInFlight, ReleasedQueueEmpty

-----------------------------------------------------------------------------
(* Steps that move no packet.                                               *)

SendKept(t) ==
  /\ \A u \in Threads : u # t => pc'[u] = pc[u] /\ arg'[u] = arg[u]
  /\ UNCHANGED <<sendQ, sendPackets, pool, dest, pkt, sessionId, relFlag>>
  /\ pc[t] \notin CarryPcs \cup {"clear"}
  /\ isDisconnect = 1 => isDisconnect' = 1
  /\ pc'[t] \in CheckedPcs => arg'[t] = sessionId
  /\ pc'[t] \in {"sendOff", "scCancelRecv"} => isDisconnect' = 1
  /\ (sendQ # <<>> /\ isSending' = 0 /\ isDisconnect' = 0) =>
       \/ pc'[t] \in WakePcs
       \/ pc[t] \notin WakePcs /\ isSending = 0 /\ isDisconnect = 0
  /\ (pc[t] \in BatchPcs \/ sendOl # "none") =>
       (pc'[t] \in BatchPcs \/ sendOl' # "none")

\* Such a step keeps the invariant: a thread that leaves its place hands on
\* what others rely on it for.
LEMMA SendFrame ==
  ASSUME SendIInv, NEW t \in Threads, SendKept(t)
  PROVE  SendIInv'
PROOF
  <1>1. UNCHANGED <<sendQ, sendPackets, pool, dest, pkt, sessionId, relFlag>>
    BY DEF SendKept
  <1>2. \A u \in Threads : u # t => pc'[u] = pc[u] /\ arg'[u] = arg[u]
    BY DEF SendKept
  <1>3. PacketsConserved' /\ PacketsToOwnSession'
    BY <1>1 DEF SendIInv, PacketsConserved, PacketsToOwnSession
  <1>4. NoLostWakeup'
    BY <1>1, <1>2 DEF SendIInv, NoLostWakeup, SendKept
  <1>5. PacketInHand'
    BY <1>1, <1>2 DEF SendIInv, PacketInHand, SendKept
  <1>6. DoomSeen' /\ CallsOnOwnSession'
    BY <1>1, <1>2 DEF SendIInv, DoomSeen, CallsOnOwnSession, SendKept
  <1>7. BatchInFlight'
    BY <1>1, <1>2 DEF SendIInv, BatchInFlight, SendKept
  <1>8. ReleasedQueueEmpty'
    BY <1>1, <1>2 DEF SendIInv, ReleasedQueueEmpty, SendKept
  <1> QED
    BY <1>3, <1>4, <1>5, <1>6, <1>7, <1>8 DEF SendIInv

-----------------------------------------------------------------------------
(* The steps that move no packet, one by one.                               *)

\* Giving a reference back, and the release after the slot is cleared.
LEMMA ReleaseKept ==
  ASSUME IInv, SendIInv, NEW t \in Threads,
         \/ DecrementRefcount(t) \/ PushIndex(t) \/ DecSessionCnt(t)
         \/ PostRelease(t)
  PROVE  SendIInv'
PROOF
  <1> USE DEF slotVars, sendVars, portVars, mgrVars, localVars
  <1> SUFFICES SendKept(t)
    BY SendFrame
  <1>0. TypeOK
    BY Parts
  <1>1. CASE DecrementRefcount(t)
    BY <1>0, <1>1
       DEF DecrementRefcount, Return, SendKept, CarryPcs, CheckedPcs, WakePcs,
           BatchPcs, Goto, TypeOK
  <1>2. CASE PushIndex(t)
    BY <1>0, <1>2
       DEF PushIndex, SendKept, CarryPcs, CheckedPcs, WakePcs, BatchPcs, Goto,
           TypeOK
  <1>3. CASE DecSessionCnt(t)
    BY <1>0, <1>3
       DEF DecSessionCnt, SendKept, CarryPcs, CheckedPcs, WakePcs, BatchPcs,
           Goto, TypeOK
  <1>4. CASE PostRelease(t)
    BY <1>0, <1>4
       DEF PostRelease, Return, SendKept, CarryPcs, CheckedPcs, WakePcs,
           BatchPcs, Goto, TypeOK
  <1> QED
    BY <1>1, <1>2, <1>3, <1>4

\* The accept thread outside stNetSession::Init.
LEMMA AcceptKept ==
  ASSUME IInv, SendIInv, NEW t \in Threads,
         \/ Accept(t) \/ PopIndex(t) \/ IncSessionCnt(t) \/ InitIncrement(t)
         \/ RegisterFails(t) \/ Register(t)
  PROVE  SendIInv'
PROOF
  <1> USE DEF slotVars, sendVars, portVars, mgrVars, localVars
  <1> SUFFICES SendKept(t)
    BY SendFrame
  <1>0. TypeOK
    BY Parts
  <1>1. CASE Accept(t)
    BY <1>0, <1>1
       DEF Accept, SendKept, CarryPcs, CheckedPcs, WakePcs, BatchPcs, Goto,
           TypeOK
  <1>2. CASE PopIndex(t)
    BY <1>0, <1>2
       DEF PopIndex, SendKept, CarryPcs, CheckedPcs, WakePcs, BatchPcs, Goto,
           TypeOK
  <1>3. CASE IncSessionCnt(t)
    BY <1>0, <1>3
       DEF IncSessionCnt, SendKept, CarryPcs, CheckedPcs, WakePcs, BatchPcs,
           Goto, TypeOK
  <1>4. CASE InitIncrement(t)
    BY <1>0, <1>4
       DEF InitIncrement, AddRef, SendKept, CarryPcs, CheckedPcs, WakePcs,
           BatchPcs, Goto, TypeOK
  <1>5. CASE RegisterFails(t)
    BY <1>0, <1>5
       DEF RegisterFails, Pass, SendKept, CarryPcs, CheckedPcs, WakePcs,
           BatchPcs, Goto, TypeOK
  <1>6. CASE Register(t)
    BY <1>0, <1>6
       DEF Register, SendKept, CarryPcs, CheckedPcs, WakePcs, BatchPcs, Goto,
           TypeOK
  <1> QED
    BY <1>1, <1>2, <1>3, <1>4, <1>5, <1>6

\* Disconnect, and SendPacket once its packet is queued or refused.
LEMMA ApiKept ==
  ASSUME IInv, SendIInv, NEW t \in Threads,
         \/ DisconnectIncrement(t) \/ DisconnectCheck(t)
         \/ DisconnectCancelSend(t) \/ CancelRecvAndDec(t)
         \/ SendPacketFull(t) \/ SendPacketExchange(t) \/ SendPacketPost(t)
         \/ SendOff(t) \/ \E s \in Sids : CallDisconnect(t, s)
  PROVE  SendIInv'
PROOF
  <1> USE DEF slotVars, sendVars, portVars, mgrVars, localVars
  <1> SUFFICES SendKept(t)
    BY SendFrame
  <1>0. TypeOK
    BY Parts
  <1>1. CASE DisconnectIncrement(t)
    BY <1>0, <1>1
       DEF DisconnectIncrement, AddRef, SendKept, CarryPcs, CheckedPcs,
           WakePcs, BatchPcs, Goto, TypeOK
  <1>2. CASE DisconnectCheck(t)
    BY <1>0, <1>2
       DEF DisconnectCheck, SetDisconnect, Pass, SendKept, CarryPcs,
           CheckedPcs, WakePcs, BatchPcs, Goto, TypeOK
  <1>3. CASE DisconnectCancelSend(t)
    BY <1>0, <1>3
       DEF DisconnectCancelSend, CancelSendStep, CancelSend, SendKept,
           CarryPcs, CheckedPcs, WakePcs, BatchPcs, Goto, TypeOK
  <1>4. CASE CancelRecvAndDec(t)
    BY <1>0, <1>4
       DEF CancelRecvAndDec, CancelRecvStep, SendKept, CarryPcs, CheckedPcs,
           WakePcs, BatchPcs, Goto, TypeOK
  <1>5. CASE SendPacketFull(t)
    BY <1>0, <1>5
       DEF SendPacketFull, SetDisconnect, SendKept, CarryPcs, CheckedPcs,
           WakePcs, BatchPcs, Goto, TypeOK
  <1>6. CASE SendPacketExchange(t)
    BY <1>0, <1>6
       DEF SendPacketExchange, SetSending, CallsOnOwnSession, SendKept,
           CarryPcs, CheckedPcs, WakePcs, BatchPcs, Goto, TypeOK, SendIInv
  <1>7. CASE SendPacketPost(t)
    BY <1>0, <1>7
       DEF SendPacketPost, Pass, Return, SendKept, CarryPcs, CheckedPcs,
           WakePcs, BatchPcs, Goto, TypeOK
  <1>8. CASE SendOff(t)
    BY <1>0, <1>8
       DEF SendOff, SetSending, DoomSeen, SendKept, CarryPcs, CheckedPcs,
           WakePcs, BatchPcs, Goto, TypeOK, SendIInv
  <1>9. CASE \E s \in Sids : CallDisconnect(t, s)
    BY <1>0, <1>9
       DEF CallDisconnect, Calling, SendKept,
           CarryPcs, CheckedPcs, WakePcs, BatchPcs, Goto, TypeOK
  <1> QED
    BY <1>1, <1>2, <1>3, <1>4, <1>5, <1>6, <1>7, <1>8, <1>9

\* SendPost, apart from taking packets and from a send that fails.
LEMMA SendPostKept ==
  ASSUME IInv, SendIInv, NEW t \in Threads,
         \/ SendPostEmpty(t) \/ SendPostOff(t) \/ SendPostEmptyAgain(t)
         \/ SendPostOn(t) \/ SendPostDisc(t) \/ SendPostSend(t)
         \/ SendFailedCancelRecv(t) \/ SendPostAgain(t)
         \/ SendPostIncrement(t) \/ SendPostVerify(t)
  PROVE  SendIInv'
PROOF
  <1> USE DEF slotVars, sendVars, portVars, mgrVars, localVars
  <1> SUFFICES SendKept(t)
    BY SendFrame
  <1>0. TypeOK
    BY Parts
  <1>1. CASE SendPostEmpty(t)
    BY <1>0, <1>1
       DEF SendPostEmpty, Test, Pass, SendKept, CarryPcs, CheckedPcs, WakePcs,
           BatchPcs, Goto, TypeOK
  <1>2. CASE SendPostOff(t)
    BY <1>0, <1>2
       DEF SendPostOff, SetSending, SendKept, CarryPcs, CheckedPcs, WakePcs,
           BatchPcs, Goto, TypeOK
  <1>3. CASE SendPostEmptyAgain(t)
    BY <1>0, <1>3
       DEF SendPostEmptyAgain, Test, Pass, SendKept, CarryPcs, CheckedPcs,
           WakePcs, BatchPcs, Goto, TypeOK
  <1>4. CASE SendPostOn(t)
    BY <1>0, <1>4
       DEF SendPostOn, SetSending, SendKept, CarryPcs, CheckedPcs, WakePcs,
           BatchPcs, Goto, TypeOK
  <1>5. CASE SendPostDisc(t)
    BY <1>0, <1>5
       DEF SendPostDisc, Test, Pass, SendKept, CarryPcs, CheckedPcs, WakePcs,
           BatchPcs, Goto, TypeOK
  <1>6. CASE SendPostSend(t)
    BY <1>0, <1>6
       DEF SendPostSend, SendKept, CarryPcs, CheckedPcs, WakePcs, BatchPcs,
           Goto, TypeOK
  <1>7. CASE SendFailedCancelRecv(t)
    BY <1>0, <1>7
       DEF SendFailedCancelRecv, CancelRecvStep, DoomSeen, SendKept, CarryPcs,
           CheckedPcs, WakePcs, BatchPcs, Goto, TypeOK, SendIInv
  <1>8. CASE SendPostAgain(t)
    BY <1>0, <1>8
       DEF SendPostAgain, Pass, Return, SendKept, CarryPcs, CheckedPcs,
           WakePcs, BatchPcs, Goto, TypeOK
  <1>9. CASE SendPostIncrement(t)
    BY <1>0, <1>9
       DEF SendPostIncrement, AddRef, SendKept, CarryPcs, CheckedPcs, WakePcs,
           BatchPcs, Goto, TypeOK
  <1>10. CASE SendPostVerify(t)
    BY <1>0, <1>10
       DEF SendPostVerify, CancelSend, SendKept, CarryPcs, CheckedPcs,
           WakePcs, BatchPcs, Goto, TypeOK
  <1> QED
    BY <1>1, <1>2, <1>3, <1>4, <1>5, <1>6, <1>7, <1>8, <1>9, <1>10

\* The receive side.
LEMMA RecvKept ==
  ASSUME IInv, SendIInv, NEW t \in Threads,
         \/ RecvPostStep(t) \/ RecvCheck(t) \/ CancelSendAndDec(t)
         \/ EndCallback(t) \/ ParseMessage(t) \/ ParseEnd(t) \/ GetRecv(t)
  PROVE  SendIInv'
PROOF
  <1> USE DEF slotVars, sendVars, portVars, mgrVars, localVars
  <1> SUFFICES SendKept(t)
    BY SendFrame
  <1>0. TypeOK
    BY Parts
  <1>1. CASE RecvPostStep(t)
    BY <1>0, <1>1
       DEF RecvPostStep, RecvPostCheck, RecvPostRecv, RecvPostFails,
           RecvPostAgain, RecvPostIncrement, RecvPostVerify, Test, Pass,
           SetDisconnect, AddRef, Return, SendKept, CarryPcs, CheckedPcs,
           WakePcs, BatchPcs, Goto, TypeOK
  <1>2. CASE RecvCheck(t)
    BY <1>0, <1>2
       DEF RecvCheck, Test, Pass, SendKept, CarryPcs, CheckedPcs, WakePcs,
           BatchPcs, Goto, TypeOK
  <1>3. CASE CancelSendAndDec(t)
    BY <1>0, <1>3
       DEF CancelSendAndDec, CancelSendStep, CancelSend, SendKept, CarryPcs,
           CheckedPcs, WakePcs, BatchPcs, Goto, TypeOK
  <1>4. CASE EndCallback(t)
    BY <1>0, <1>4
       DEF EndCallback, SendKept, CarryPcs, CheckedPcs, WakePcs, BatchPcs,
           Goto, TypeOK
  <1>5. CASE ParseMessage(t)
    BY <1>0, <1>5
       DEF ParseMessage, SendKept, CarryPcs, CheckedPcs, WakePcs, BatchPcs,
           Goto, TypeOK
  <1>6. CASE ParseEnd(t)
    BY <1>0, <1>6
       DEF ParseEnd, ParseBad, ParseTooSlow, ParseMore, SetDisconnect, Pass,
           SendKept, CarryPcs, CheckedPcs, WakePcs, BatchPcs, Goto, TypeOK
  <1>7. CASE GetRecv(t)
    BY <1>0, <1>7
       DEF GetRecv, SendKept, CarryPcs, CheckedPcs, WakePcs, BatchPcs, Goto,
           TypeOK
  <1> QED
    BY <1>1, <1>2, <1>3, <1>4, <1>5, <1>6, <1>7

\* A send completion on its way, and the messages that start a send.
LEMMA DoneKept ==
  ASSUME IInv, SendIInv, NEW t \in Threads,
         \/ SendDoneOff(t) \/ SendDoneOn(t) \/ SendDoneDisc(t)
         \/ GetDelaySend(t) \/ GetSend(t)
  PROVE  SendIInv'
PROOF
  <1> USE DEF slotVars, sendVars, portVars, mgrVars, localVars
  <1> SUFFICES SendKept(t)
    BY SendFrame
  <1>0. TypeOK
    BY Parts
  <1>1. CASE SendDoneOff(t)
    BY <1>0, <1>1
       DEF SendDoneOff, SetSending, SendKept, CarryPcs, CheckedPcs, WakePcs,
           BatchPcs, Goto, TypeOK
  <1>2. CASE SendDoneOn(t)
    BY <1>0, <1>2
       DEF SendDoneOn, SetSending, SendKept, CarryPcs, CheckedPcs, WakePcs,
           BatchPcs, Goto, TypeOK
  <1>3. CASE SendDoneDisc(t)
    BY <1>0, <1>3
       DEF SendDoneDisc, Test, Pass, SendKept, CarryPcs, CheckedPcs, WakePcs,
           BatchPcs, Goto, TypeOK
  <1>4. CASE GetDelaySend(t)
    BY <1>0, <1>4
       DEF GetDelaySend, SendKept, CarryPcs, CheckedPcs, WakePcs, BatchPcs,
           Goto, TypeOK
  <1>5. CASE GetSend(t)
    BY <1>0, <1>5
       DEF GetSend, SendKept, CarryPcs, CheckedPcs, WakePcs, BatchPcs, Goto,
           TypeOK
  <1> QED
    BY <1>1, <1>2, <1>3, <1>4, <1>5

-----------------------------------------------------------------------------
(* The steps that move packets.                                             *)

SetPkt(t, e) == pkt' = [pkt EXCEPT ![t] = e]

\* A thread that takes or gives away a packet changes how many hold it.
LEMMA PktMove ==
  ASSUME TypeOK, NEW t \in Threads, NEW e, SetPkt(t, e), NEW p
  PROVE  /\ Count(pkt', {p}) = Count(pkt, {p}) - One(pkt[t] = p) + One(e = p)
         /\ Count(pkt, {p}) \in Nat
PROOF
  <1>1. pkt'[t] = e /\ \A u \in Threads : u # t => pkt'[u] = pkt[u]
    BY DEF TypeOK, SetPkt
  <1>2. Count(pkt', {p}) = Count(pkt, {p}) - In(pkt[t], {p}) + In(pkt'[t], {p})
    BY <1>1, Counting
  <1> QED
    BY <1>1, <1>2, CountNat DEF In, One

\* The thread inside SendPacket frees its packet and goes on to l.
GiveUp(t, l) ==
  /\ Goto(t, l) /\ Free({pkt[t]}) /\ SetPkt(t, NoPacket)
  /\ UNCHANGED <<sendQ, sendPackets, sessionId, relFlag, isDisconnect,
                 isSending, sendOl, arg>>

LEMMA GiveUpKeeps ==
  ASSUME IInv, SendIInv, NEW t \in Threads, NEW l \in {"dec", "spFull"},
         pc[t] \in CarryPcs, GiveUp(t, l), l = "spFull" => arg[t] = sessionId
  PROVE  SendIInv'
PROOF
  <1>0. TypeOK /\ PacketsConserved /\ pkt[t] \in Packets
    BY Parts DEF Places, ThreadsInPlace, SendIInv, CarryPcs
  <1>1. pc'[t] = l /\ \A u \in Threads : u # t => pc'[u] = pc[u]
    BY <1>0, Moved DEF GiveUp
  <1>2. pkt'[t] = NoPacket /\ \A u \in Threads : u # t => pkt'[u] = pkt[u]
    BY <1>0 DEF TypeOK, GiveUp, SetPkt
  <1>3. \A p \in Packets : p # pkt[t] => dest'[p] = dest[p]
    BY DEF GiveUp, Free
  <1>4. pkt[t] \notin pool /\ pkt[t] \notin Range(sendQ) \cup Range(sendPackets)
    BY <1>0, OnePlace
  <1>5. UNCHANGED <<sendQ, sendPackets, sessionId, relFlag, isDisconnect,
                    isSending, sendOl, arg>>
    BY DEF GiveUp
  <1>6. PacketsConserved'
    <2> SUFFICES ASSUME NEW p \in Packets
                 PROVE  One(p \in pool') + Count(pkt', {p}) + Times(sendQ', p)
                        + Times(sendPackets', p) = 1
      BY ConservedNext
    <2>1. Count(pkt', {p}) = Count(pkt, {p}) - One(pkt[t] = p)
      <3>1. /\ Count(pkt', {p})
                 = Count(pkt, {p}) - One(pkt[t] = p) + One(NoPacket = p)
            /\ Count(pkt, {p}) \in Nat
        BY <1>0, PktMove DEF GiveUp
      <3> QED
        BY <3>1, PacketsAssumption DEF One
    <2>2. One(p \in pool') = One(p \in pool) + One(pkt[t] = p)
      BY <1>4 DEF GiveUp, Free, One
    <2>3. UNCHANGED <<Times(sendQ, p), Times(sendPackets, p)>>
      BY <1>5
    <2>4. One(p \in pool) + Count(pkt, {p}) + Times(sendQ, p)
            + Times(sendPackets, p) = 1
      BY <1>0, Conserved
    <2>5. One(pkt[t] = p) \in Nat
      BY DEF One
    <2>6. /\ One(p \in pool) \in Nat /\ Count(pkt, {p}) \in Nat
          /\ Times(sendQ, p) \in Nat /\ Times(sendPackets, p) \in Nat
      BY <1>0, PlaceNumbers
    <2> QED
      BY <2>1, <2>2, <2>3, <2>4, <2>5, <2>6
  <1>7. PacketsToOwnSession'
    <2>1. Range(sendQ) \cup Range(sendPackets) \subseteq Packets
      BY <1>0, RangeType DEF TypeOK
    <2> QED
      BY <1>3, <1>4, <1>5, <2>1 DEF SendIInv, PacketsToOwnSession
  <1>8. PacketInHand'
    <2> SUFFICES ASSUME NEW u \in Threads, pkt'[u] # NoPacket
                 PROVE  pc'[u] \in CarryPcs /\ dest'[pkt'[u]] = arg'[u]
      BY DEF PacketInHand
    <2>1. u # t /\ pkt'[u] = pkt[u] /\ pkt[u] \in Packets
      BY <1>0, <1>2 DEF TypeOK
    <2>2. pkt[u] # pkt[t]
      BY <1>0, <2>1, OnePlace
    <2> QED
      BY <1>1, <1>3, <1>5, <2>1, <2>2 DEF SendIInv, PacketInHand
  <1>9. NoLostWakeup'
    BY <1>1, <1>5 DEF SendIInv, NoLostWakeup, CarryPcs, WakePcs
  <1>10. DoomSeen' /\ CallsOnOwnSession'
    BY <1>1, <1>5 DEF SendIInv, DoomSeen, CallsOnOwnSession, CheckedPcs
  <1>11. BatchInFlight' /\ ReleasedQueueEmpty'
    BY <1>1, <1>5
       DEF SendIInv, BatchInFlight, ReleasedQueueEmpty, CarryPcs, BatchPcs
  <1> QED
    BY <1>6, <1>7, <1>8, <1>9, <1>10, <1>11 DEF SendIInv

\* SendPacket takes a packet from the caller, ...
LEMMA CallSendPacketKeeps ==
  ASSUME IInv, SendIInv, NEW t \in Threads, NEW s \in Sids, NEW p \in Packets,
         CallSendPacket(t, s, p)
  PROVE  SendIInv'
PROOF
  <1> USE DEF slotVars, sendVars, portVars, mgrVars, localVars
  <1>0. TypeOK /\ PacketsConserved /\ p \in pool /\ pc[t] \in {"callback", "idle"}
    BY Parts DEF SendIInv, CallSendPacket, Calling
  <1>1. pc'[t] = "spInc" /\ \A u \in Threads : u # t => pc'[u] = pc[u]
    BY <1>0, Moved DEF CallSendPacket
  <1>2. /\ pkt[t] = NoPacket /\ pkt'[t] = p /\ arg'[t] = s
        /\ \A u \in Threads : u # t => pkt'[u] = pkt[u] /\ arg'[u] = arg[u]
    BY <1>0 DEF TypeOK, CallSendPacket, SendIInv, PacketInHand, CarryPcs
  <1>3. dest'[p] = s /\ \A q \in Packets : q # p => dest'[q] = dest[q]
    BY <1>0 DEF TypeOK, CallSendPacket
  <1>4. /\ p \notin Range(sendQ) \cup Range(sendPackets)
        /\ \A u \in Threads : pkt[u] # p
    BY <1>0, OnePlace
  <1>5. UNCHANGED <<sendQ, sendPackets, sessionId, relFlag, isDisconnect,
                    isSending, sendOl>>
    BY DEF CallSendPacket
  <1>6. PacketsConserved'
    <2> SUFFICES ASSUME NEW q \in Packets
                 PROVE  One(q \in pool') + Count(pkt', {q}) + Times(sendQ', q)
                        + Times(sendPackets', q) = 1
      BY ConservedNext
    <2>1. Count(pkt', {q}) = Count(pkt, {q}) + One(q = p)
      <3>1. /\ Count(pkt', {q})
                 = Count(pkt, {q}) - One(NoPacket = q) + One(p = q)
            /\ Count(pkt, {q}) \in Nat
        <4>1. SetPkt(t, p)
          BY DEF CallSendPacket, SetPkt
        <4>2. /\ Count(pkt', {q})
                   = Count(pkt, {q}) - One(pkt[t] = q) + One(p = q)
              /\ Count(pkt, {q}) \in Nat
          BY <1>0, <4>1, PktMove
        <4> QED
          BY <1>2, <4>2
      <3> QED
        BY <3>1, PacketsAssumption DEF One
    <2>2. One(q \in pool') = One(q \in pool) - One(q = p)
      BY <1>0 DEF CallSendPacket, One
    <2>3. UNCHANGED <<Times(sendQ, q), Times(sendPackets, q)>>
      BY <1>5
    <2>4. One(q \in pool) + Count(pkt, {q}) + Times(sendQ, q)
            + Times(sendPackets, q) = 1
      BY <1>0, Conserved
    <2>5. One(q = p) \in Nat
      BY DEF One
    <2> QED
      BY <1>0, <2>1, <2>2, <2>3, <2>4, <2>5, PlaceNumbers
  <1>7. PacketsToOwnSession'
    <2>1. Range(sendQ) \cup Range(sendPackets) \subseteq Packets
      BY <1>0, RangeType DEF TypeOK
    <2> QED
      BY <1>3, <1>4, <1>5, <2>1 DEF SendIInv, PacketsToOwnSession
  <1>8. PacketInHand'
    <2> SUFFICES ASSUME NEW u \in Threads, u # t, pkt'[u] # NoPacket
                 PROVE  pc'[u] \in CarryPcs /\ dest'[pkt'[u]] = arg'[u]
      BY <1>1, <1>2, <1>3 DEF PacketInHand, CarryPcs
    <2>1. pkt'[u] = pkt[u] /\ pkt[u] \in Packets /\ pkt[u] # p
      BY <1>0, <1>2, <1>4 DEF TypeOK
    <2> QED
      BY <1>1, <1>2, <1>3, <2>1 DEF SendIInv, PacketInHand
  <1>9. NoLostWakeup'
    BY <1>0, <1>1, <1>5 DEF SendIInv, NoLostWakeup, WakePcs
  <1>10. DoomSeen' /\ CallsOnOwnSession'
    BY <1>1, <1>2, <1>5 DEF SendIInv, DoomSeen, CallsOnOwnSession, CheckedPcs
  <1>11. BatchInFlight' /\ ReleasedQueueEmpty'
    BY <1>0, <1>1, <1>5
       DEF SendIInv, BatchInFlight, ReleasedQueueEmpty, BatchPcs
  <1> QED
    BY <1>6, <1>7, <1>8, <1>9, <1>10, <1>11 DEF SendIInv
\* ... queues it ...
LEMMA EnqueueKeeps ==
  ASSUME IInv, SendIInv, NEW t \in Threads, pc[t] = "spEnq",
         Len(sendQ) <= SendQMax, SendPacketEnqueue(t)
  PROVE  SendIInv'
PROOF
  <1> USE DEF slotVars, sendVars, portVars, mgrVars, localVars
  <1>0. TypeOK /\ PacketsConserved /\ pkt[t] \in Packets
    BY Parts DEF Places, ThreadsInPlace, SendIInv
  <1>1. pc'[t] = "spExch" /\ \A u \in Threads : u # t => pc'[u] = pc[u]
    BY <1>0, Moved DEF SendPacketEnqueue
  <1>2. /\ SetPkt(t, NoPacket) /\ pkt'[t] = NoPacket
        /\ \A u \in Threads : u # t => pkt'[u] = pkt[u]
    BY <1>0 DEF TypeOK, SendPacketEnqueue, SetPkt
  <1>3. arg[t] = sessionId /\ dest[pkt[t]] = sessionId
    BY <1>0, PacketsAssumption
       DEF SendIInv, CallsOnOwnSession, PacketInHand, CheckedPcs
  <1>4. sendQ \in Seq(Packets) /\ sendQ' = Append(sendQ, pkt[t])
    BY <1>0 DEF TypeOK, SendPacketEnqueue
  <1>5. UNCHANGED <<pool, dest, sendPackets, sessionId, relFlag, isDisconnect,
                    isSending, sendOl, arg>>
    BY DEF SendPacketEnqueue
  <1>6. PacketsConserved'
    <2> SUFFICES ASSUME NEW p \in Packets
                 PROVE  One(p \in pool') + Count(pkt', {p}) + Times(sendQ', p)
                        + Times(sendPackets', p) = 1
      BY ConservedNext
    <2>1. Count(pkt', {p}) = Count(pkt, {p}) - One(pkt[t] = p)
      <3>1. /\ Count(pkt', {p})
                 = Count(pkt, {p}) - One(pkt[t] = p) + One(NoPacket = p)
            /\ Count(pkt, {p}) \in Nat
        <4>1. SetPkt(t, NoPacket)
          BY <1>2
        <4> QED
          BY <1>0, <4>1, PktMove
      <3> QED
        BY <3>1, PacketsAssumption DEF One
    <2>2. Times(sendQ', p) = Times(sendQ, p) + One(pkt[t] = p)
      BY <1>0, <1>4, TimesAppend
    <2>3. pool' = pool /\ sendPackets' = sendPackets
      BY <1>5
    <2>4. One(p \in pool) + Count(pkt, {p}) + Times(sendQ, p)
            + Times(sendPackets, p) = 1
      BY <1>0, Conserved
    <2>5. One(pkt[t] = p) \in Nat
      BY DEF One
    <2>6. /\ One(p \in pool) \in Nat /\ Count(pkt, {p}) \in Nat
          /\ Times(sendQ, p) \in Nat /\ Times(sendPackets, p) \in Nat
      BY <1>0, PlaceNumbers
    <2> QED
      BY <2>1, <2>2, <2>3, <2>4, <2>5, <2>6
  <1>7. PacketsToOwnSession'
    <2>1. Range(sendQ') \subseteq Range(sendQ) \cup {pkt[t]}
      <3>1. /\ Append(sendQ, pkt[t]) \in Seq(Packets)
            /\ Len(Append(sendQ, pkt[t])) = Len(sendQ) + 1
            /\ \A i \in 1 .. Len(sendQ) : Append(sendQ, pkt[t])[i] = sendQ[i]
            /\ Append(sendQ, pkt[t])[Len(sendQ) + 1] = pkt[t]
        BY <1>0, <1>4, AppendProperties
      <3>2. /\ DOMAIN sendQ' = 1 .. Len(sendQ) + 1 /\ Len(sendQ) \in Nat
            /\ DOMAIN sendQ = 1 .. Len(sendQ)
        BY <1>4, <3>1, LenProperties
      <3> QED
        BY <1>4, <3>1, <3>2 DEF Range
    <2> QED
      BY <1>3, <1>5, <2>1 DEF SendIInv, PacketsToOwnSession
  <1>8. PacketInHand'
    BY <1>1, <1>2, <1>5 DEF SendIInv, PacketInHand
  <1>9. NoLostWakeup'
    BY <1>1 DEF NoLostWakeup, WakePcs
  <1>10. DoomSeen' /\ CallsOnOwnSession'
    BY <1>1, <1>3, <1>5 DEF SendIInv, DoomSeen, CallsOnOwnSession
  <1>11. BatchInFlight'
    BY <1>1, <1>5 DEF SendIInv, BatchInFlight, BatchPcs
  <1>12. ReleasedQueueEmpty'
    BY <1>0, <1>5, Parts
       DEF Places, NobodyOnReleased, ReleasedQueueEmpty, StrongRefPcs
  <1> QED
    BY <1>6, <1>7, <1>8, <1>9, <1>10, <1>11, <1>12 DEF SendIInv

\* ... and the sender moves what it sends to sendPackets.
LEMMA TakeKeeps ==
  ASSUME IInv, SendIInv, NEW t \in Threads, SendPostTake(t)
  PROVE  SendIInv'
PROOF
  <1> USE DEF slotVars, sendVars, portVars, mgrVars, localVars
  <1> DEFINE n == IF Len(sendQ) < WsabufMax THEN Len(sendQ) ELSE WsabufMax
  <1>0. TypeOK /\ PacketsConserved /\ pc[t] = "stTake"
    BY Parts DEF SendIInv, SendPostTake
  <1>1. CASE n = 0
    <2>1. SendKept(t)
      BY <1>0, <1>1 DEF SendPostTake, SendKept, CarryPcs, CheckedPcs, WakePcs,
                        BatchPcs, Goto, TypeOK
    <2> QED
      BY <2>1, SendFrame
  <1>2. CASE n # 0
    <2>0. /\ Goto(t, "stPost") /\ sendPackets' = SubSeq(sendQ, 1, n)
          /\ sendQ' = SubSeq(sendQ, n + 1, Len(sendQ))
          /\ UNCHANGED <<pool, dest, pkt, sessionId, relFlag, isDisconnect,
                         isSending, sendOl, arg>>
      BY <1>2 DEF SendPostTake
    <2>1. pc'[t] = "stPost" /\ \A u \in Threads : u # t => pc'[u] = pc[u]
      BY <1>0, <2>0, Moved
    <2>2. sendQ \in Seq(Packets) /\ Len(sendQ) \in Nat /\ n \in 0 .. Len(sendQ)
      BY <1>0, BoundsAssumption DEF TypeOK
    <2>3. sendPackets = <<>>
      BY <1>0, BatchTaken DEF SendIInv
    <2>4. isSending = 1 /\ sendOl = "none"
      BY <1>0, SenderAlone DEF SendRightPcs
    <2>5. \A p : Times(sendPackets', p) + Times(sendQ', p) = Times(sendQ, p)
      BY <2>0, <2>2, TimesSplit
    <2>6. sendPackets' \in Seq(Packets) /\ sendQ' \in Seq(Packets)
      BY <2>0, <2>2, TakeType
    <2> HIDE DEF n
    <2>7. PacketsConserved'
      <3> SUFFICES ASSUME NEW p \in Packets
                   PROVE  One(p \in pool') + Count(pkt', {p})
                          + Times(sendQ', p) + Times(sendPackets', p) = 1
        BY ConservedNext
      <3>1. One(p \in pool) + Count(pkt, {p}) + Times(sendQ, p)
              + Times(sendPackets, p) = 1
        BY <1>0, Conserved
      <3>2. /\ One(p \in pool) \in Nat /\ Count(pkt, {p}) \in Nat
            /\ Times(sendQ, p) \in Nat
        BY <1>0, PlaceNumbers
      <3>5. Times(sendQ', p) \in Nat /\ Times(sendPackets', p) \in Nat
        BY <2>6, TimesNat
      <3>3. Times(sendPackets, p) = 0
        BY <2>3, TimesEmpty
      <3>4. pool' = pool /\ pkt' = pkt
        BY <2>0
      <3> QED
        BY <2>5, <3>1, <3>2, <3>3, <3>4, <3>5
    <2>8. PacketsToOwnSession'
      <3> SUFFICES ASSUME NEW p \in Range(sendQ') \cup Range(sendPackets')
                   PROVE  p \in Range(sendQ)
        BY <2>0 DEF SendIInv, PacketsToOwnSession
      <3>1. /\ Times(sendQ', p) \in Nat /\ Times(sendPackets', p) \in Nat
            /\ ~(Times(sendQ', p) = 0 /\ Times(sendPackets', p) = 0)
        BY <2>6, TimesNat
      <3>2. Times(sendPackets', p) + Times(sendQ', p) = Times(sendQ, p)
        BY <2>5
      <3>3. Times(sendQ, p) # 0
        BY <3>1, <3>2
      <3> QED
        BY <2>2, <3>3, TimesNat
    <2>9. PacketInHand' /\ DoomSeen' /\ CallsOnOwnSession'
      BY <1>0, <2>0, <2>1
         DEF SendIInv, PacketInHand, DoomSeen, CallsOnOwnSession, CarryPcs,
             CheckedPcs
    <2>10. NoLostWakeup' /\ BatchInFlight'
      BY <2>0, <2>1, <2>4 DEF NoLostWakeup, BatchInFlight, BatchPcs
    <2>11. ReleasedQueueEmpty'
      BY <1>0, <2>0, Parts
         DEF Places, NobodyOnReleased, ReleasedQueueEmpty, StrongRefPcs
    <2> QED
      BY <2>7, <2>8, <2>9, <2>10, <2>11 DEF SendIInv
  <1> QED
    BY <1>1, <1>2

\* A send that has ended, well or not, frees what it sent.
LEMMA BatchFreed ==
  ASSUME IInv, SendIInv, NEW t \in Threads, SendDone(t) \/ SendFailed(t)
  PROVE  SendIInv'
PROOF
  <1> USE DEF slotVars, sendVars, portVars, mgrVars, localVars
  <1>0. TypeOK /\ PacketsConserved /\ pc[t] \in BatchPcs
    BY Parts DEF SendIInv, SendDone, SendFailed, BatchPcs
  <1>1. PICK l \in {"scOff", "scCancelRecv"} :
        /\ Goto(t, l) /\ (l = "scCancelRecv" => isDisconnect' = 1)
        /\ isDisconnect = 1 => isDisconnect' = 1
        /\ Free(Range(sendPackets)) /\ sendPackets' = <<>>
        /\ UNCHANGED <<relFlag, sessionId, isSending, sendQ, sendOl, arg, pkt>>
    BY <1>0 DEF SendDone, SendFailed, TypeOK
  <1>2. pc'[t] = l /\ \A u \in Threads : u # t => pc'[u] = pc[u]
    BY <1>0, <1>1, Moved
  <1>3. \A p \in Packets : p \notin Range(sendPackets) => dest'[p] = dest[p]
    BY <1>1 DEF Free
  <1>4. isSending = 1
    BY <1>0, SenderAlone DEF BatchPcs, SendRightPcs
  <1>5. PacketsConserved'
    <2> SUFFICES ASSUME NEW p \in Packets
                 PROVE  One(p \in pool') + Count(pkt', {p}) + Times(sendQ', p)
                        + Times(sendPackets', p) = 1
      BY ConservedNext
    <2>1. One(p \in pool) + Count(pkt, {p}) + Times(sendQ, p)
            + Times(sendPackets, p) = 1
      BY <1>0, Conserved
    <2>2. /\ One(p \in pool) \in Nat /\ Count(pkt, {p}) \in Nat
          /\ Times(sendQ, p) \in Nat /\ Times(sendPackets, p) \in Nat
      BY <1>0, PlaceNumbers
    <2>3. /\ Times(sendPackets', p) = 0 /\ Times(sendQ', p) = Times(sendQ, p)
          /\ Count(pkt', {p}) = Count(pkt, {p})
      BY <1>1, TimesEmpty
    <2>4. CASE p \in Range(sendPackets)
      <3>1. Times(sendPackets, p) # 0
        BY <1>0, <2>4, TimesNat DEF TypeOK
      <3>2. One(p \in pool') = 1
        BY <1>1, <2>4 DEF Free, One
      <3> QED
        BY <2>1, <2>2, <2>3, <3>1, <3>2
    <2>5. CASE p \notin Range(sendPackets)
      <3>1. Times(sendPackets, p) = 0
        BY <1>0, <2>5, TimesNat DEF TypeOK
      <3>2. One(p \in pool') = One(p \in pool)
        BY <1>1, <2>5 DEF Free, One
      <3> QED
        BY <2>1, <2>2, <2>3, <3>1, <3>2
    <2> QED
      BY <2>4, <2>5
  <1>6. PacketsToOwnSession'
    <2>1. Range(sendQ) \subseteq Packets /\ Range(sendPackets') = {}
      BY <1>0, <1>1, RangeType DEF TypeOK, Range
    <2> QED
      BY <1>0, <1>1, <1>3, <2>1, OnePlace DEF SendIInv, PacketsToOwnSession
  <1>7. PacketInHand'
    <2> SUFFICES ASSUME NEW u \in Threads, pkt'[u] # NoPacket
                 PROVE  pc'[u] \in CarryPcs /\ dest'[pkt'[u]] = arg'[u]
      BY DEF PacketInHand
    <2>1. pkt'[u] = pkt[u] /\ pkt[u] \in Packets /\ pc[u] \in CarryPcs
      BY <1>0, <1>1 DEF TypeOK, SendIInv, PacketInHand
    <2>2. u # t /\ pkt[u] \notin Range(sendPackets)
      BY <1>0, <2>1, OnePlace DEF CarryPcs, BatchPcs
    <2> QED
      BY <1>1, <1>2, <1>3, <2>1, <2>2 DEF SendIInv, PacketInHand
  <1>8. NoLostWakeup' /\ BatchInFlight'
    BY <1>1, <1>4 DEF NoLostWakeup, BatchInFlight
  <1>9. DoomSeen' /\ CallsOnOwnSession'
    BY <1>1, <1>2 DEF SendIInv, DoomSeen, CallsOnOwnSession, CheckedPcs
  <1>10. ReleasedQueueEmpty'
    BY <1>0, <1>1, <1>2 DEF SendIInv, ReleasedQueueEmpty, BatchPcs
  <1> QED
    BY <1>5, <1>6, <1>7, <1>8, <1>9, <1>10 DEF SendIInv

-----------------------------------------------------------------------------
(* The steps that end the use of the slot by one session and begin the next. *)

\* The release flag goes up: whoever raised it goes on to clear the slot.
LEMMA ReleaseCasKeeps ==
  ASSUME IInv, SendIInv, NEW t \in Threads, ReleaseCas(t)
  PROVE  SendIInv'
PROOF
  <1> USE DEF slotVars, sendVars, portVars, mgrVars, localVars
  <1>0. TypeOK /\ pc[t] = "rel"
    BY Parts DEF ReleaseCas
  <1>1. CASE ~(refcount = 0 /\ relFlag = 0)
    <2>1. SendKept(t)
      BY <1>0, <1>1 DEF ReleaseCas, Return, SendKept, CarryPcs, CheckedPcs,
                        WakePcs, BatchPcs, Goto, TypeOK
    <2> QED
      BY <2>1, SendFrame
  <1>2. CASE refcount = 0 /\ relFlag = 0
    <2>1. /\ Goto(t, "clear") /\ relFlag' = 1
          /\ arg' = [arg EXCEPT ![t] = sessionId]
          /\ UNCHANGED <<sendQ, sendPackets, pool, dest, pkt, sessionId,
                         isDisconnect, isSending, sendOl>>
      BY <1>2 DEF ReleaseCas
    <2>2. pc'[t] = "clear" /\ \A u \in Threads : u # t => pc'[u] = pc[u]
      BY <1>0, <2>1, Moved
    <2>3. \A u \in Threads : u # t => arg'[u] = arg[u]
      BY <1>0, <2>1 DEF TypeOK
    <2>4. PacketsConserved' /\ PacketsToOwnSession'
      BY <2>1 DEF SendIInv, PacketsConserved, PacketsToOwnSession
    <2>5. PacketInHand'
      BY <1>0, <2>1, <2>2, <2>3 DEF SendIInv, PacketInHand, CarryPcs
    <2>6. NoLostWakeup' /\ ReleasedQueueEmpty'
      BY <2>1, <2>2 DEF NoLostWakeup, ReleasedQueueEmpty
    <2>7. DoomSeen' /\ CallsOnOwnSession'
      BY <2>1, <2>2, <2>3
         DEF SendIInv, DoomSeen, CallsOnOwnSession, CheckedPcs
    <2>8. BatchInFlight'
      BY <1>0, <2>1, <2>2 DEF SendIInv, BatchInFlight, BatchPcs
    <2> QED
      BY <2>4, <2>5, <2>6, <2>7, <2>8 DEF SendIInv
  <1> QED
    BY <1>1, <1>2

\* Clear frees what was never sent.
LEMMA ClearKeeps ==
  ASSUME IInv, SendIInv, NEW t \in Threads, Clear(t)
  PROVE  SendIInv'
PROOF
  <1> USE DEF slotVars, sendVars, portVars, mgrVars, localVars
  <1> DEFINE ps == Range(sendQ) \cup Range(sendPackets)
  <1>0. TypeOK /\ PacketsConserved /\ pc[t] = "clear"
    BY Parts DEF SendIInv, Clear
  <1>1. /\ Goto(t, "push") /\ sendQ' = <<>> /\ sendPackets' = <<>>
        /\ Free(ps)
        /\ UNCHANGED <<relFlag, isDisconnect, sendOl, arg, pkt>>
    BY DEF Clear
  <1>2. pc'[t] = "push" /\ \A u \in Threads : u # t => pc'[u] = pc[u]
    BY <1>0, <1>1, Moved
  <1>3. relFlag = 1
    BY <1>0, SlotHolderAlone DEF SlotPcs
  <1>4. \A u \in Threads : pc'[u] \notin StrongRefPcs
    BY <1>0, <1>2, <1>3, Parts DEF Places, NobodyOnReleased, StrongRefPcs
  <1>5. PacketsConserved'
    <2> SUFFICES ASSUME NEW p \in Packets
                 PROVE  One(p \in pool') + Count(pkt', {p}) + Times(sendQ', p)
                        + Times(sendPackets', p) = 1
      BY ConservedNext
    <2>1. One(p \in pool) + Count(pkt, {p}) + Times(sendQ, p)
            + Times(sendPackets, p) = 1
      BY <1>0, Conserved
    <2>2. /\ One(p \in pool) \in Nat /\ Count(pkt, {p}) \in Nat
          /\ Times(sendQ, p) \in Nat /\ Times(sendPackets, p) \in Nat
      BY <1>0, PlaceNumbers
    <2>3. Times(sendPackets', p) = 0 /\ Times(sendQ', p) = 0 /\ pkt' = pkt
      BY <1>1, TimesEmpty
    <2>4. CASE p \in ps
      <3>1. ~(Times(sendPackets, p) = 0 /\ Times(sendQ, p) = 0)
        BY <1>0, <2>4, TimesNat DEF TypeOK
      <3>2. One(p \in pool') = 1
        BY <1>1, <2>4 DEF Free, One
      <3> QED
        BY <2>1, <2>2, <2>3, <3>1, <3>2
    <2>5. CASE p \notin ps
      <3>1. Times(sendPackets, p) = 0 /\ Times(sendQ, p) = 0
        BY <1>0, <2>5, TimesNat DEF TypeOK
      <3>2. One(p \in pool') = One(p \in pool)
        BY <1>1, <2>5 DEF Free, One
      <3> QED
        BY <2>1, <2>2, <2>3, <3>1, <3>2
    <2> QED
      BY <2>4, <2>5
  <1>6. PacketsToOwnSession'
    BY <1>1 DEF PacketsToOwnSession, Range
  <1>7. PacketInHand'
    <2> SUFFICES ASSUME NEW u \in Threads, pkt'[u] # NoPacket
                 PROVE  pc'[u] \in CarryPcs /\ dest'[pkt'[u]] = arg'[u]
      BY DEF PacketInHand
    <2>1. pkt'[u] = pkt[u] /\ pkt[u] \in Packets /\ pc[u] \in CarryPcs
      BY <1>0, <1>1 DEF TypeOK, SendIInv, PacketInHand
    <2>2. u # t /\ pkt[u] \notin ps
      BY <1>0, <2>1, OnePlace DEF CarryPcs
    <2>3. dest'[pkt[u]] = dest[pkt[u]]
      BY <1>1, <2>1, <2>2 DEF Free
    <2> QED
      BY <1>1, <1>2, <2>1, <2>2, <2>3 DEF SendIInv, PacketInHand
  <1>8. NoLostWakeup' /\ BatchInFlight' /\ ReleasedQueueEmpty'
    BY <1>1 DEF NoLostWakeup, BatchInFlight, ReleasedQueueEmpty
  <1>9. DoomSeen' /\ CallsOnOwnSession'
    BY <1>4 DEF DoomSeen, CallsOnOwnSession, CheckedPcs, StrongRefPcs
  <1> QED
    BY <1>5, <1>6, <1>7, <1>8, <1>9 DEF SendIInv

\* stNetSession::Init gives the slot its next id, and opens it.
LEMMA InitKeeps ==
  ASSUME IInv, SendIInv, NEW t \in Threads, InitFields(t) \/ InitOpen(t)
  PROVE  SendIInv'
PROOF
  <1> USE DEF slotVars, sendVars, portVars, mgrVars, localVars
  <1>0. TypeOK /\ pc[t] \in {"acInit", "acOpen"}
    BY Parts DEF InitFields, InitOpen
  <1>1. sendQ = <<>> /\ sendPackets = <<>> /\ relFlag = 1
    BY <1>0, NewSlotEmpty DEF SendIInv
  <1>2. PICK l \in {"acOpen", "acReg"} :
        /\ Goto(t, l)
        /\ UNCHANGED <<sendQ, sendPackets, pool, dest, pkt, arg, sendOl>>
    BY DEF InitFields, InitOpen
  <1>3. pc'[t] = l /\ \A u \in Threads : u # t => pc'[u] = pc[u]
    BY <1>0, <1>2, Moved
  <1>4. \A u \in Threads : pc'[u] \notin StrongRefPcs \ {"acReg"}
    BY <1>0, <1>1, <1>3, Parts DEF Places, NobodyOnReleased, StrongRefPcs
  <1>5. PacketsConserved' /\ PacketsToOwnSession'
    BY <1>1, <1>2 DEF SendIInv, PacketsConserved, PacketsToOwnSession, Range
  <1>6. PacketInHand'
    BY <1>0, <1>2, <1>3 DEF SendIInv, PacketInHand, CarryPcs
  <1>7. NoLostWakeup' /\ BatchInFlight' /\ ReleasedQueueEmpty'
    BY <1>1, <1>2 DEF NoLostWakeup, BatchInFlight, ReleasedQueueEmpty
  <1>8. DoomSeen' /\ CallsOnOwnSession'
    BY <1>4 DEF DoomSeen, CallsOnOwnSession, CheckedPcs, StrongRefPcs
  <1> QED
    BY <1>5, <1>6, <1>7, <1>8 DEF SendIInv

\* Steps that move no thread.
LEMMA StillKeeps ==
  ASSUME SendIInv,
         \/ \E t \in Threads, s \in Sids : GetRelease(t, s)
         \/ RecvCompletes \/ SendCompletes
         \/ UNCHANGED vars
  PROVE  SendIInv'
PROOF
  <1> USE DEF slotVars, sendVars, portVars, mgrVars, localVars
  <1>1. /\ UNCHANGED <<sendQ, sendPackets, pool, dest, pkt, sessionId, relFlag,
                       isDisconnect, isSending, pc, arg>>
        /\ sendOl # "none" => sendOl' # "none"
    BY DEF GetRelease, RecvCompletes, SendCompletes, vars
  <1>2. PacketsConserved' /\ PacketsToOwnSession' /\ NoLostWakeup'
    BY <1>1
       DEF SendIInv, PacketsConserved, PacketsToOwnSession, NoLostWakeup
  <1>3. PacketInHand' /\ DoomSeen' /\ BatchInFlight'
    BY <1>1 DEF SendIInv, PacketInHand, DoomSeen, BatchInFlight
  <1>4. ReleasedQueueEmpty' /\ CallsOnOwnSession'
    BY <1>1 DEF SendIInv, ReleasedQueueEmpty, CallsOnOwnSession
  <1> QED
    BY <1>2, <1>3, <1>4 DEF SendIInv

-----------------------------------------------------------------------------
(* The theorems.                                                            *)

\* SendPacket up to the queue: refused, full, or queued.
LEMMA SendPacketKeeps ==
  ASSUME IInv, SendIInv, NEW t \in Threads,
         SendPacketIncrement(t) \/ SendPacketCheck(t) \/ SendPacketEnqueue(t)
  PROVE  SendIInv'
PROOF
  <1> USE DEF slotVars, sendVars, portVars, mgrVars, localVars
  <1>0. TypeOK /\ pc[t] \in CarryPcs
    BY Parts
       DEF SendPacketIncrement, SendPacketCheck, SendPacketEnqueue, CarryPcs
  <1>1. CASE SendPacketIncrement(t) \/ SendPacketCheck(t)
    <2>1. CASE Drop(t)
      <3>1. GiveUp(t, "dec")
        BY <1>1, <2>1
           DEF SendPacketIncrement, SendPacketCheck, Drop, GiveUp, SetPkt
      <3> QED
        BY <1>0, <3>1, GiveUpKeeps
    <2>2. CASE ~Drop(t)
      <3>1. PICK l \in {"spCheck", "spEnq"} :
            /\ Goto(t, l) /\ (l = "spEnq" => arg[t] = sessionId)
            /\ pc[t] \in {"spInc", "spCheck"}
            /\ UNCHANGED <<sendQ, sendPackets, pool, dest, pkt, sessionId,
                           relFlag, isDisconnect, isSending, sendOl, arg>>
        BY <1>1, <2>2 DEF SendPacketIncrement, SendPacketCheck
      <3>2. pc'[t] = l /\ \A u \in Threads : u # t => pc'[u] = pc[u]
        BY <1>0, <3>1, Moved
      <3>3. PacketsConserved' /\ PacketsToOwnSession'
        BY <3>1 DEF SendIInv, PacketsConserved, PacketsToOwnSession
      <3>4. PacketInHand' /\ DoomSeen' /\ CallsOnOwnSession'
        BY <3>1, <3>2 DEF SendIInv, PacketInHand, DoomSeen, CallsOnOwnSession,
                          CarryPcs, CheckedPcs
      <3>5. NoLostWakeup' /\ BatchInFlight'
        BY <3>1, <3>2
           DEF SendIInv, NoLostWakeup, BatchInFlight, WakePcs, BatchPcs
      <3>6. ReleasedQueueEmpty'
        BY <3>1, <3>2 DEF SendIInv, ReleasedQueueEmpty
      <3> QED
        BY <3>3, <3>4, <3>5, <3>6 DEF SendIInv
    <2> QED
      BY <2>1, <2>2
  <1>2. CASE SendPacketEnqueue(t)
    <2>1. pc[t] = "spEnq" /\ arg[t] = sessionId
      BY <1>2 DEF SendPacketEnqueue, SendIInv, CallsOnOwnSession, CheckedPcs
    <2>2. CASE ~(Len(sendQ) <= SendQMax)
      <3>1. GiveUp(t, "spFull")
        BY <1>2, <2>2 DEF SendPacketEnqueue, GiveUp, SetPkt
      <3> QED
        BY <1>0, <2>1, <3>1, GiveUpKeeps
    <2> QED
      BY <1>2, <2>1, <2>2, EnqueueKeeps
  <1> QED
    BY <1>1, <1>2

\* Every packet is free at first.
LEMMA InitSendIInv == Init => SendIInv
PROOF
  <1> SUFFICES ASSUME Init PROVE SendIInv
    OBVIOUS
  <1>1. /\ sendQ = <<>> /\ sendPackets = <<>> /\ pool = Packets
        /\ \A t \in Threads : pc[t] = "idle" /\ pkt[t] = NoPacket
    BY DEF Init
  <1>2. PacketsConserved
    <2> SUFFICES ASSUME NEW p \in Packets
                 PROVE  One(p \in pool) + Count(pkt, {p}) + Times(sendQ, p)
                        + Times(sendPackets, p) = 1
      BY Conserved
    <2>1. Count(pkt, {p}) = 0
      BY <1>1, CountNat, PacketsAssumption
    <2>2. Times(sendQ, p) = 0 /\ Times(sendPackets, p) = 0
      BY <1>1, TimesEmpty
    <2>3. One(p \in pool) = 1
      BY <1>1 DEF One
    <2> QED
      BY <2>1, <2>2, <2>3
  <1>3. PacketsToOwnSession
    BY <1>1 DEF PacketsToOwnSession, Range
  <1>4. PacketInHand /\ DoomSeen /\ CallsOnOwnSession
    BY <1>1 DEF PacketInHand, DoomSeen, CallsOnOwnSession, CheckedPcs
  <1>5. NoLostWakeup /\ BatchInFlight /\ ReleasedQueueEmpty
    BY <1>1 DEF NoLostWakeup, BatchInFlight, ReleasedQueueEmpty
  <1> QED
    BY <1>2, <1>3, <1>4, <1>5 DEF SendIInv

\* Every step keeps SendIInv.
LEMMA NextSendIInv == IInv /\ SendIInv /\ [Next]_vars => SendIInv'
PROOF
  <1> SUFFICES ASSUME IInv, SendIInv, [Next]_vars PROVE SendIInv'
    OBVIOUS
  <1>1. ASSUME NEW t \in Threads, LibStep(t)
        PROVE  SendIInv'
    <2>1. CASE ReleaseStep(t)
      BY <2>1, ReleaseKept, ReleaseCasKeeps, ClearKeeps DEF ReleaseStep
    <2>2. CASE AcceptStep(t)
      BY <2>2, AcceptKept, InitKeeps DEF AcceptStep
    <2>3. CASE ApiStep(t)
      BY <2>3, ApiKept, SendPacketKeeps DEF ApiStep
    <2>4. CASE SendPostStep(t)
      BY <2>4, SendPostKept, TakeKeeps, BatchFreed DEF SendPostStep
    <2>5. CASE RecvPostStep(t)
      BY <2>5, RecvKept
    <2>6. CASE CompletionStep(t)
      BY <2>6, DoneKept, RecvKept, BatchFreed DEF CompletionStep
    <2> QED
      BY <1>1, <2>1, <2>2, <2>3, <2>4, <2>5, <2>6 DEF LibStep
  <1>2. ASSUME NEW t \in Threads, GetStep(t) \/ CallStep(t)
        PROVE  SendIInv'
    BY <1>2, DoneKept, RecvKept, StillKeeps, ApiKept, CallSendPacketKeeps
       DEF GetStep, CallStep
  <1>3. ASSUME NEW t \in Threads,
               Accept(t) \/ EndCallback(t) \/ ParseMessage(t) \/ ParseEnd(t)
        PROVE  SendIInv'
    BY <1>3, AcceptKept, RecvKept
  <1>4. CASE RecvCompletes \/ SendCompletes \/ UNCHANGED vars
    BY <1>4, StillKeeps
  <1> QED
    BY <1>1, <1>2, <1>3, <1>4 DEF Next

\* SendIInv is an invariant, for any number of threads and packets.
THEOREM SendInductive == Spec => []SendIInv
  BY Inductive, InitSendIInv, NextSendIInv, PTL DEF Spec

\* Every packet reference is in one place, once: none leaks and none is
\* freed twice, whichever way its session ends.
THEOREM PacketsKept == Spec => []PacketsConserved
  BY SendInductive, PTL DEF SendIInv

\* A session sends only what was addressed to it.
THEOREM PacketsOwn == Spec => []PacketsToOwnSession
  BY SendInductive, PTL DEF SendIInv

\* A packet in sendQ has a sender, or somebody bound to look again.
THEOREM NoPacketForgotten == Spec => []NoLostWakeup
  BY SendInductive, PTL DEF SendIInv

=============================================================================
