---------------------- MODULE NetSessionContractProofs ----------------------
(***************************************************************************)
(* NetSession implements SessionContract, for any number of threads and     *)
(* sessions: what the content sees of a session id is one OnAccept, then    *)
(* messages one at a time, then one OnRelease after the end.                *)
(*                                                                          *)
(* Each action either leaves what the content sees alone (ContractFrame) or *)
(* is one step of the contract: Register is OnAccept, ParseMessage is       *)
(* OnMessage, EndCallback is CallbackReturns, the compare-exchange that     *)
(* raises the release flag is End, GetRelease is OnRelease.  That these     *)
(* steps are allowed where they happen rests on ContractIInv, and on the    *)
(* counts of IInv: who is alone on the receive side, and that nobody is     *)
(* left when the flag goes up.                                              *)
(***************************************************************************)
EXTENDS NetSessionSendProofs

-----------------------------------------------------------------------------
(* What holds of the session in the slot.                                   *)

\* While the release flag is down the slot holds a session that has not
\* ended, and nobody is between two sessions.
LEMMA LiveSession ==
  ASSUME IInv, ContractIInv, relFlag = 0
  PROVE  /\ sessionId \in Sids /\ sessionId = lastSid
         /\ sessionId \notin EndedSids
         /\ \A u \in Threads : pc[u] \notin SlotPcs
PROOF
  <1>0. TypeOK /\ sessionId = lastSid /\ lastSid >= 1
    BY Parts DEF ContractIInv, LatestInSlot
  <1>1. sessionId \in Sids
    BY <1>0, BoundsAssumption DEF TypeOK, Sids
  <1>2. sessionId \notin EndedSids
    BY <1>0, BoundsAssumption DEF EndedSids, TypeOK
  <1>3. \A u \in Threads : pc[u] \notin SlotPcs
    BY SlotHolderAlone
  <1> QED
    BY <1>0, <1>1, <1>2, <1>3

\* A callback, a thread that parses and a receive are on a live session.
LEMMA ReceiverLive ==
  ASSUME IInv, \/ recvOl # "none"
               \/ \E u \in Threads : ctx[u] # "none" \/ pc[u] \in RecvChainPcs
  PROVE  relFlag = 0
PROOF
  <1>0. TypeOK /\ Places
    BY Parts
  <1> QED
    BY <1>0 DEF Places, NobodyOnReleased, TypeOK, RecvChainPcs, StrongRefPcs

\* The callback of a session is alone with it.
LEMMA CallbackAlone ==
  ASSUME IInv, NEW t \in Threads, ctx[t] # "none"
  PROVE  /\ \A u \in Threads : u # t => ctx[u] = "none"
         /\ \A u \in Threads : pc[u] \notin RecvChainPcs
         /\ recvOl = "none"
PROOF
  <1>0. TypeOK /\ Count(pc, RecvChainPcs) + Count(ctx, Callbacks)
                    + InUse(recvOl) <= 1
    BY Parts DEF Balance, RecvChainUnique
  <1>1. \A u \in Threads : ctx[u] # "none" => ctx[u] \in Callbacks
    BY <1>0 DEF TypeOK, Callbacks
  <1>2. /\ Count(pc, RecvChainPcs) \in Nat /\ Count(ctx, Callbacks) \in Nat
        /\ InUse(recvOl) \in {0, 1} /\ Count(ctx, Callbacks) >= 1
    BY <1>0, <1>1, CountNat, Numbers
  <1>3. /\ Count(pc, RecvChainPcs) = 0 /\ Count(ctx, Callbacks) = 1
        /\ InUse(recvOl) = 0
    BY <1>0, <1>2
  <1>4. \A u \in Threads : u # t => ctx[u] = "none"
    <2> SUFFICES ASSUME NEW u \in Threads, u # t, ctx[u] # "none" PROVE FALSE
      OBVIOUS
    <2>1. Count(ctx, Callbacks) >= 2
      BY <1>1, CountTwo
    <2> QED
      BY <1>3, <2>1
  <1>5. \A u \in Threads : pc[u] \notin RecvChainPcs
    BY <1>3, CountNat
  <1> QED
    BY <1>3, <1>4, <1>5 DEF InUse

\* Whoever parses or posts does so while no callback runs.
LEMMA NoCallbackWhileParsing ==
  ASSUME IInv, NEW t \in Threads, pc[t] \in RecvChainPcs
  PROVE  \A u \in Threads : ctx[u] = "none"
  BY CallbackAlone

\* While one thread parses the accept thread is not about to register.
LEMMA NoOtherRegistration ==
  ASSUME IInv, NEW t \in Threads, NEW u \in Threads, t # u,
         pc[t] \in RecvChainPcs
  PROVE  pc[u] \notin RecvChainPcs
PROOF
  <1> SUFFICES ASSUME pc[u] \in RecvChainPcs PROVE FALSE
    OBVIOUS
  <1>1. Count(pc, RecvChainPcs) >= 2
    BY CountTwo
  <1>2. Count(pc, RecvChainPcs) + Count(ctx, Callbacks) + InUse(recvOl) <= 1
    BY Parts DEF Balance, RecvChainUnique
  <1>3. /\ Count(pc, RecvChainPcs) \in Nat /\ Count(ctx, Callbacks) \in Nat
        /\ InUse(recvOl) \in {0, 1}
    BY CountNat, Parts, Numbers
  <1> QED
    BY <1>1, <1>2, <1>3

\* With no callback there is no running id; with one, it is the session's.
LEMMA Running ==
  ASSUME ContractIInv
  PROVE  /\ (\A u \in Threads : ctx[u] = "none") => RunningSids = {}
         /\ \A t \in Threads : ctx[t] # "none" => RunningSids = {sessionId}
  BY DEF RunningSids, ContractIInv, CallbacksOfOpenSession

\* How many releases of s run changes by what the moving thread releases.
LEMMA ReleasingMove ==
  ASSUME NEW t \in Threads, NEW s,
         \A u \in Threads : u # t => Releasing'[u] = Releasing[u]
  PROVE  /\ Count(Releasing', {s}) = Count(Releasing, {s})
               - One(Releasing[t] = s) + One(Releasing'[t] = s)
         /\ Count(Releasing, {s}) \in Nat
PROOF
  <1>1. Count(Releasing', {s})
          = Count(Releasing, {s}) - In(Releasing[t], {s}) + In(Releasing'[t], {s})
    BY Counting
  <1> QED
    BY <1>1, CountNat DEF In, One

\* The terms of Releases are numbers.
LEMMA ReleasesNumbers ==
  ASSUME TypeOK, NEW s \in Sids
  PROVE  /\ Count(Releasing, {s}) \in Nat /\ relMsgs[s] \in Nat
         /\ One(app[s] = "released") \in {0, 1} /\ One(s \in EndedSids) \in {0, 1}
  BY CountNat DEF TypeOK, One

\* A release that is under way, in whatever form, is of an ended session.
LEMMA ReleaseEnded ==
  ASSUME TypeOK, ReleasedOnce, NEW s \in Sids
  PROVE  /\ relMsgs[s] > 0 => /\ s \in EndedSids /\ app[s] # "released"
                              /\ relMsgs[s] = 1
         /\ \A t \in Threads : Releasing[t] = s => s \in EndedSids
PROOF
  <1>1. /\ Count(Releasing, {s}) + relMsgs[s] + One(app[s] = "released")
             <= One(s \in EndedSids)
        /\ Count(Releasing, {s}) \in Nat /\ relMsgs[s] \in Nat
        /\ One(app[s] = "released") \in {0, 1} /\ One(s \in EndedSids) \in {0, 1}
    BY ReleasesNumbers DEF ReleasedOnce, Releases
  <1>2. /\ app[s] = "released" => One(app[s] = "released") = 1
        /\ s \notin EndedSids => One(s \in EndedSids) = 0
    BY DEF One
  <1>3. \A t \in Threads : Releasing[t] = s => Count(Releasing, {s}) >= 1
    BY CountNat
  <1>4. relMsgs[s] > 0 => /\ One(s \in EndedSids) # 0 /\ relMsgs[s] = 1
                          /\ One(app[s] = "released") # 1
    BY <1>1
  <1>5. Count(Releasing, {s}) >= 1 => One(s \in EndedSids) # 0
    BY <1>1
  <1> QED
    BY <1>2, <1>3, <1>4, <1>5

-----------------------------------------------------------------------------
(* Steps the content does not see.                                          *)

InitPcs == {"acInc", "acInit", "acOpen"}
ParsePcs == RecvChainPcs \ {"acReg"}

ContractKept(t) ==
  /\ \A u \in Threads : u # t => pc'[u] = pc[u] /\ arg'[u] = arg[u]
  /\ \A u \in Threads : ctx[u] # "none" => cur'[u] = cur[u]
  /\ UNCHANGED <<sessionId, relFlag, lastSid, app, ctx, relMsgs>>
  /\ (IF pc'[t] \in ReleasePcs THEN arg'[t] ELSE 0)
       = (IF pc[t] \in ReleasePcs THEN arg[t] ELSE 0)
  /\ (recvOl' # "none" \/ pc'[t] \in ParsePcs)
       => (recvOl # "none" \/ pc[t] \in ParsePcs)
  /\ pc'[t] \in InitPcs <=> pc[t] \in InitPcs
  /\ pc'[t] = "acOpen" => pc[t] = "acOpen"
  /\ pc'[t] \in NotToldPcs => pc[t] \in NotToldPcs

\* What the contract sees is the same after such a step.
Unseen == UNCHANGED <<app, RunningSids, EndedSids>>

\* Such a step keeps ContractIInv and stutters in the contract.
LEMMA ContractFrame ==
  ASSUME ContractIInv, NEW t \in Threads, ContractKept(t)
  PROVE  ContractIInv' /\ Unseen
PROOF
  <1>1. UNCHANGED <<sessionId, relFlag, lastSid, app, ctx, relMsgs>>
    BY DEF ContractKept
  <1>2. \A u \in Threads : u # t => pc'[u] = pc[u] /\ arg'[u] = arg[u]
    BY DEF ContractKept
  <1>3. Acceptor \in Threads
    BY DEF Threads
  <1>4. RunningSids' = RunningSids
    BY <1>1 DEF RunningSids, ContractKept
  <1>5. EndedSids' = EndedSids
    BY <1>1, <1>2, <1>3 DEF EndedSids, ContractKept, InitPcs
  <1>6. Releasing' = Releasing
    BY <1>2 DEF Releasing, ContractKept
  <1>7. ReleasedOnce'
    BY <1>1, <1>5, <1>6 DEF ContractIInv, ReleasedOnce, Releases
  <1>8. CallbacksOfOpenSession'
    BY <1>1 DEF ContractIInv, CallbacksOfOpenSession, ContractKept
  <1>9. LatestInSlot'
    BY <1>1, <1>2, <1>3
       DEF ContractIInv, LatestInSlot, ContractKept, InitPcs
  <1>10. NotToldBefore'
    BY <1>1, <1>2, <1>3 DEF ContractIInv, NotToldBefore, ContractKept
  <1>11. OpenWhileReceiving'
    BY <1>1, <1>2
       DEF ContractIInv, OpenWhileReceiving, ContractKept, ParsePcs
  <1> QED
    BY <1>1, <1>4, <1>5, <1>7, <1>8, <1>9, <1>10, <1>11
       DEF ContractIInv, Unseen

-----------------------------------------------------------------------------
(* The steps the content does not see, one by one.                          *)

\* Giving a reference back, and the release between its two ends.
LEMMA ReleaseUnseen ==
  ASSUME IInv, ContractIInv, NEW t \in Threads,
         \/ DecrementRefcount(t) \/ PushIndex(t) \/ DecSessionCnt(t)
  PROVE  ContractIInv' /\ Unseen
PROOF
  <1> USE DEF slotVars, sendVars, portVars, mgrVars, localVars
  <1> SUFFICES ContractKept(t)
    BY ContractFrame
  <1>0. TypeOK /\ ThreadsInPlace
    BY Parts DEF Places
  <1>1. CASE DecrementRefcount(t)
    BY <1>0, <1>1
       DEF DecrementRefcount, Return, ContractKept, Goto, TypeOK,
           ThreadsInPlace, ApiPcs, InitPcs, ParsePcs, RecvChainPcs,
           ReleasePcs, NotToldPcs
  <1>2. CASE PushIndex(t)
    BY <1>0, <1>2
       DEF PushIndex, ContractKept, Goto, TypeOK,
           ThreadsInPlace, ApiPcs, InitPcs, ParsePcs, RecvChainPcs,
           ReleasePcs, NotToldPcs
  <1>3. CASE DecSessionCnt(t)
    BY <1>0, <1>3
       DEF DecSessionCnt, ContractKept, Goto, TypeOK,
           ThreadsInPlace, ApiPcs, InitPcs, ParsePcs, RecvChainPcs,
           ReleasePcs, NotToldPcs
  <1> QED
    BY <1>1, <1>2, <1>3

\* The accept thread, where it neither numbers nor opens a session.
LEMMA AcceptUnseen ==
  ASSUME IInv, ContractIInv, NEW t \in Threads,
         \/ Accept(t) \/ PopIndex(t) \/ InitIncrement(t)
         \/ RegisterFails(t)
  PROVE  ContractIInv' /\ Unseen
PROOF
  <1> USE DEF slotVars, sendVars, portVars, mgrVars, localVars
  <1> SUFFICES ContractKept(t)
    BY ContractFrame
  <1>0. TypeOK /\ ThreadsInPlace
    BY Parts DEF Places
  <1>1. CASE Accept(t)
    BY <1>0, <1>1
       DEF Accept, ContractKept, Goto, TypeOK,
           ThreadsInPlace, ApiPcs, InitPcs, ParsePcs, RecvChainPcs,
           ReleasePcs, NotToldPcs
  <1>2. CASE PopIndex(t)
    BY <1>0, <1>2
       DEF PopIndex, ContractKept, Goto, TypeOK,
           ThreadsInPlace, ApiPcs, InitPcs, ParsePcs, RecvChainPcs,
           ReleasePcs, NotToldPcs
  <1>3. CASE InitIncrement(t)
    BY <1>0, <1>3
       DEF InitIncrement, AddRef, ContractKept, Goto, TypeOK,
           ThreadsInPlace, ApiPcs, InitPcs, ParsePcs, RecvChainPcs,
           ReleasePcs, NotToldPcs
  <1>4. CASE RegisterFails(t)
    BY <1>0, <1>4
       DEF RegisterFails, Pass, ContractKept, Goto, TypeOK,
           ThreadsInPlace, ApiPcs, InitPcs, ParsePcs, RecvChainPcs,
           ReleasePcs, NotToldPcs
  <1> QED
    BY <1>1, <1>2, <1>3, <1>4

\* Disconnect and SendPacket, by whichever thread.
LEMMA ApiUnseen ==
  ASSUME IInv, ContractIInv, NEW t \in Threads,
         \/ DisconnectIncrement(t) \/ DisconnectCheck(t)
         \/ DisconnectCancelSend(t) \/ CancelRecvAndDec(t)
         \/ SendPacketIncrement(t) \/ SendPacketCheck(t)
         \/ SendPacketEnqueue(t) \/ SendPacketFull(t)
         \/ SendPacketExchange(t) \/ SendPacketPost(t) \/ SendOff(t)
         \/ CallStep(t)
  PROVE  ContractIInv' /\ Unseen
PROOF
  <1> USE DEF slotVars, sendVars, portVars, mgrVars, localVars
  <1> SUFFICES ContractKept(t)
    BY ContractFrame
  <1>0. TypeOK /\ ThreadsInPlace
    BY Parts DEF Places
  <1>1. CASE DisconnectIncrement(t)
    BY <1>0, <1>1
       DEF DisconnectIncrement, AddRef, ContractKept, Goto, TypeOK,
           ThreadsInPlace, ApiPcs, InitPcs, ParsePcs, RecvChainPcs,
           ReleasePcs, NotToldPcs
  <1>2. CASE DisconnectCheck(t)
    BY <1>0, <1>2
       DEF DisconnectCheck, SetDisconnect, Pass, ContractKept, Goto, TypeOK,
           ThreadsInPlace, ApiPcs, InitPcs, ParsePcs, RecvChainPcs,
           ReleasePcs, NotToldPcs
  <1>3. CASE DisconnectCancelSend(t)
    BY <1>0, <1>3
       DEF DisconnectCancelSend, CancelSendStep, CancelSend, ContractKept, Goto, TypeOK,
           ThreadsInPlace, ApiPcs, InitPcs, ParsePcs, RecvChainPcs,
           ReleasePcs, NotToldPcs
  <1>4. CASE CancelRecvAndDec(t)
    BY <1>0, <1>4
       DEF CancelRecvAndDec, CancelRecvStep, CancelRecv, ContractKept, Goto, TypeOK,
           ThreadsInPlace, ApiPcs, InitPcs, ParsePcs, RecvChainPcs,
           ReleasePcs, NotToldPcs
  <1>5. CASE SendPacketIncrement(t)
    BY <1>0, <1>5
       DEF SendPacketIncrement, Drop, ContractKept, Goto, TypeOK,
           ThreadsInPlace, ApiPcs, InitPcs, ParsePcs, RecvChainPcs,
           ReleasePcs, NotToldPcs
  <1>6. CASE SendPacketCheck(t)
    BY <1>0, <1>6
       DEF SendPacketCheck, Drop, ContractKept, Goto, TypeOK,
           ThreadsInPlace, ApiPcs, InitPcs, ParsePcs, RecvChainPcs,
           ReleasePcs, NotToldPcs
  <1>7. CASE SendPacketEnqueue(t)
    BY <1>0, <1>7
       DEF SendPacketEnqueue, ContractKept, Goto, TypeOK,
           ThreadsInPlace, ApiPcs, InitPcs, ParsePcs, RecvChainPcs,
           ReleasePcs, NotToldPcs
  <1>8. CASE SendPacketFull(t)
    BY <1>0, <1>8
       DEF SendPacketFull, SetDisconnect, ContractKept, Goto, TypeOK,
           ThreadsInPlace, ApiPcs, InitPcs, ParsePcs, RecvChainPcs,
           ReleasePcs, NotToldPcs
  <1>9. CASE SendPacketExchange(t)
    BY <1>0, <1>9
       DEF SendPacketExchange, SetSending, ContractKept, Goto, TypeOK,
           ThreadsInPlace, ApiPcs, InitPcs, ParsePcs, RecvChainPcs,
           ReleasePcs, NotToldPcs
  <1>10. CASE SendPacketPost(t)
    BY <1>0, <1>10
       DEF SendPacketPost, Pass, Return, ContractKept, Goto, TypeOK,
           ThreadsInPlace, ApiPcs, InitPcs, ParsePcs, RecvChainPcs,
           ReleasePcs, NotToldPcs
  <1>11. CASE SendOff(t)
    BY <1>0, <1>11
       DEF SendOff, SetSending, ContractKept, Goto, TypeOK,
           ThreadsInPlace, ApiPcs, InitPcs, ParsePcs, RecvChainPcs,
           ReleasePcs, NotToldPcs
  <1>12. CASE CallStep(t)
    BY <1>0, <1>12
       DEF CallStep, CallDisconnect, CallSendPacket, Calling, ContractKept, Goto, TypeOK,
           ThreadsInPlace, ApiPcs, InitPcs, ParsePcs, RecvChainPcs,
           ReleasePcs, NotToldPcs
  <1> QED
    BY <1>1, <1>2, <1>3, <1>4, <1>5, <1>6, <1>7, <1>8, <1>9, <1>10, <1>11,
       <1>12

\* SendPost.
LEMMA SendPostUnseen ==
  ASSUME IInv, ContractIInv, NEW t \in Threads,
         \/ SendPostEmpty(t) \/ SendPostOff(t) \/ SendPostEmptyAgain(t)
         \/ SendPostOn(t) \/ SendPostDisc(t) \/ SendPostTake(t)
         \/ SendPostSend(t) \/ SendFailed(t) \/ SendFailedCancelRecv(t)
         \/ SendPostAgain(t) \/ SendPostIncrement(t) \/ SendPostVerify(t)
  PROVE  ContractIInv' /\ Unseen
PROOF
  <1> USE DEF slotVars, sendVars, portVars, mgrVars, localVars
  <1> SUFFICES ContractKept(t)
    BY ContractFrame
  <1>0. TypeOK /\ ThreadsInPlace
    BY Parts DEF Places
  <1>1. CASE SendPostEmpty(t)
    BY <1>0, <1>1
       DEF SendPostEmpty, Test, Pass, ContractKept, Goto, TypeOK,
           ThreadsInPlace, ApiPcs, InitPcs, ParsePcs, RecvChainPcs,
           ReleasePcs, NotToldPcs
  <1>2. CASE SendPostOff(t)
    BY <1>0, <1>2
       DEF SendPostOff, SetSending, ContractKept, Goto, TypeOK,
           ThreadsInPlace, ApiPcs, InitPcs, ParsePcs, RecvChainPcs,
           ReleasePcs, NotToldPcs
  <1>3. CASE SendPostEmptyAgain(t)
    BY <1>0, <1>3
       DEF SendPostEmptyAgain, Test, Pass, ContractKept, Goto, TypeOK,
           ThreadsInPlace, ApiPcs, InitPcs, ParsePcs, RecvChainPcs,
           ReleasePcs, NotToldPcs
  <1>4. CASE SendPostOn(t)
    BY <1>0, <1>4
       DEF SendPostOn, SetSending, ContractKept, Goto, TypeOK,
           ThreadsInPlace, ApiPcs, InitPcs, ParsePcs, RecvChainPcs,
           ReleasePcs, NotToldPcs
  <1>5. CASE SendPostDisc(t)
    BY <1>0, <1>5
       DEF SendPostDisc, Test, Pass, ContractKept, Goto, TypeOK,
           ThreadsInPlace, ApiPcs, InitPcs, ParsePcs, RecvChainPcs,
           ReleasePcs, NotToldPcs
  <1>6. CASE SendPostTake(t)
    BY <1>0, <1>6
       DEF SendPostTake, ContractKept, Goto, TypeOK,
           ThreadsInPlace, ApiPcs, InitPcs, ParsePcs, RecvChainPcs,
           ReleasePcs, NotToldPcs
  <1>7. CASE SendPostSend(t)
    BY <1>0, <1>7
       DEF SendPostSend, ContractKept, Goto, TypeOK,
           ThreadsInPlace, ApiPcs, InitPcs, ParsePcs, RecvChainPcs,
           ReleasePcs, NotToldPcs
  <1>8. CASE SendFailed(t)
    BY <1>0, <1>8
       DEF SendFailed, ContractKept, Goto, TypeOK,
           ThreadsInPlace, ApiPcs, InitPcs, ParsePcs, RecvChainPcs,
           ReleasePcs, NotToldPcs
  <1>9. CASE SendFailedCancelRecv(t)
    BY <1>0, <1>9
       DEF SendFailedCancelRecv, CancelRecvStep, CancelRecv, ContractKept, Goto, TypeOK,
           ThreadsInPlace, ApiPcs, InitPcs, ParsePcs, RecvChainPcs,
           ReleasePcs, NotToldPcs
  <1>10. CASE SendPostAgain(t)
    BY <1>0, <1>10
       DEF SendPostAgain, Pass, Return, ContractKept, Goto, TypeOK,
           ThreadsInPlace, ApiPcs, InitPcs, ParsePcs, RecvChainPcs,
           ReleasePcs, NotToldPcs
  <1>11. CASE SendPostIncrement(t)
    BY <1>0, <1>11
       DEF SendPostIncrement, AddRef, ContractKept, Goto, TypeOK,
           ThreadsInPlace, ApiPcs, InitPcs, ParsePcs, RecvChainPcs,
           ReleasePcs, NotToldPcs
  <1>12. CASE SendPostVerify(t)
    BY <1>0, <1>12
       DEF SendPostVerify, CancelSend, ContractKept, Goto, TypeOK,
           ThreadsInPlace, ApiPcs, InitPcs, ParsePcs, RecvChainPcs,
           ReleasePcs, NotToldPcs
  <1> QED
    BY <1>1, <1>2, <1>3, <1>4, <1>5, <1>6, <1>7, <1>8, <1>9, <1>10, <1>11,
       <1>12

\* RecvPost, and a receive up to the message it delivers.
LEMMA RecvUnseen ==
  ASSUME IInv, ContractIInv, NEW t \in Threads,
         \/ RecvPostCheck(t) \/ RecvPostRecv(t) \/ RecvPostFails(t)
         \/ RecvPostAgain(t) \/ RecvPostIncrement(t) \/ RecvPostVerify(t)
         \/ RecvCheck(t) \/ CancelSendAndDec(t) \/ ParseEnd(t)
         \/ GetRecv(t)
  PROVE  ContractIInv' /\ Unseen
PROOF
  <1> USE DEF slotVars, sendVars, portVars, mgrVars, localVars
  <1> SUFFICES ContractKept(t)
    BY ContractFrame
  <1>0. TypeOK /\ ThreadsInPlace
    BY Parts DEF Places
  <1>1. CASE RecvPostCheck(t)
    BY <1>0, <1>1
       DEF RecvPostCheck, Test, Pass, ContractKept, Goto, TypeOK,
           ThreadsInPlace, ApiPcs, InitPcs, ParsePcs, RecvChainPcs,
           ReleasePcs, NotToldPcs
  <1>2. CASE RecvPostRecv(t)
    BY <1>0, <1>2
       DEF RecvPostRecv, ContractKept, Goto, TypeOK,
           ThreadsInPlace, ApiPcs, InitPcs, ParsePcs, RecvChainPcs,
           ReleasePcs, NotToldPcs
  <1>3. CASE RecvPostFails(t)
    BY <1>0, <1>3
       DEF RecvPostFails, SetDisconnect, ContractKept, Goto, TypeOK,
           ThreadsInPlace, ApiPcs, InitPcs, ParsePcs, RecvChainPcs,
           ReleasePcs, NotToldPcs
  <1>4. CASE RecvPostAgain(t)
    BY <1>0, <1>4
       DEF RecvPostAgain, Pass, Return, ContractKept, Goto, TypeOK,
           ThreadsInPlace, ApiPcs, InitPcs, ParsePcs, RecvChainPcs,
           ReleasePcs, NotToldPcs
  <1>5. CASE RecvPostIncrement(t)
    BY <1>0, <1>5
       DEF RecvPostIncrement, AddRef, ContractKept, Goto, TypeOK,
           ThreadsInPlace, ApiPcs, InitPcs, ParsePcs, RecvChainPcs,
           ReleasePcs, NotToldPcs
  <1>6. CASE RecvPostVerify(t)
    BY <1>0, <1>6
       DEF RecvPostVerify, CancelRecv, ContractKept, Goto, TypeOK,
           ThreadsInPlace, ApiPcs, InitPcs, ParsePcs, RecvChainPcs,
           ReleasePcs, NotToldPcs
  <1>7. CASE RecvCheck(t)
    BY <1>0, <1>7
       DEF RecvCheck, Test, Pass, ContractKept, Goto, TypeOK,
           ThreadsInPlace, ApiPcs, InitPcs, ParsePcs, RecvChainPcs,
           ReleasePcs, NotToldPcs
  <1>8. CASE CancelSendAndDec(t)
    BY <1>0, <1>8
       DEF CancelSendAndDec, CancelSendStep, CancelSend, ContractKept, Goto, TypeOK,
           ThreadsInPlace, ApiPcs, InitPcs, ParsePcs, RecvChainPcs,
           ReleasePcs, NotToldPcs
  <1>9. CASE ParseEnd(t)
    BY <1>0, <1>9
       DEF ParseEnd, ParseBad, ParseTooSlow, ParseMore, SetDisconnect, Pass,
           ContractKept, Goto, TypeOK,
           ThreadsInPlace, ApiPcs, InitPcs, ParsePcs, RecvChainPcs,
           ReleasePcs, NotToldPcs
  <1>10. CASE GetRecv(t)
    BY <1>0, <1>10
       DEF GetRecv, ContractKept, Goto, TypeOK,
           ThreadsInPlace, ApiPcs, InitPcs, ParsePcs, RecvChainPcs,
           ReleasePcs, NotToldPcs
  <1> QED
    BY <1>1, <1>2, <1>3, <1>4, <1>5, <1>6, <1>7, <1>8, <1>9, <1>10

\* A send completion, and the messages that start a send.
LEMMA DoneUnseen ==
  ASSUME IInv, ContractIInv, NEW t \in Threads,
         \/ SendDone(t) \/ SendDoneOff(t) \/ SendDoneOn(t)
         \/ SendDoneDisc(t) \/ GetDelaySend(t) \/ GetSend(t)
  PROVE  ContractIInv' /\ Unseen
PROOF
  <1> USE DEF slotVars, sendVars, portVars, mgrVars, localVars
  <1> SUFFICES ContractKept(t)
    BY ContractFrame
  <1>0. TypeOK /\ ThreadsInPlace
    BY Parts DEF Places
  <1>1. CASE SendDone(t)
    BY <1>0, <1>1
       DEF SendDone, ContractKept, Goto, TypeOK,
           ThreadsInPlace, ApiPcs, InitPcs, ParsePcs, RecvChainPcs,
           ReleasePcs, NotToldPcs
  <1>2. CASE SendDoneOff(t)
    BY <1>0, <1>2
       DEF SendDoneOff, SetSending, ContractKept, Goto, TypeOK,
           ThreadsInPlace, ApiPcs, InitPcs, ParsePcs, RecvChainPcs,
           ReleasePcs, NotToldPcs
  <1>3. CASE SendDoneOn(t)
    BY <1>0, <1>3
       DEF SendDoneOn, SetSending, ContractKept, Goto, TypeOK,
           ThreadsInPlace, ApiPcs, InitPcs, ParsePcs, RecvChainPcs,
           ReleasePcs, NotToldPcs
  <1>4. CASE SendDoneDisc(t)
    BY <1>0, <1>4
       DEF SendDoneDisc, Test, Pass, ContractKept, Goto, TypeOK,
           ThreadsInPlace, ApiPcs, InitPcs, ParsePcs, RecvChainPcs,
           ReleasePcs, NotToldPcs
  <1>5. CASE GetDelaySend(t)
    BY <1>0, <1>5
       DEF GetDelaySend, ContractKept, Goto, TypeOK,
           ThreadsInPlace, ApiPcs, InitPcs, ParsePcs, RecvChainPcs,
           ReleasePcs, NotToldPcs
  <1>6. CASE GetSend(t)
    BY <1>0, <1>6
       DEF GetSend, ContractKept, Goto, TypeOK,
           ThreadsInPlace, ApiPcs, InitPcs, ParsePcs, RecvChainPcs,
           ReleasePcs, NotToldPcs
  <1> QED
    BY <1>1, <1>2, <1>3, <1>4, <1>5, <1>6

-----------------------------------------------------------------------------
(* The other steps, each with the step of the contract it is.               *)

\* The compare-exchange that raises the flag is the end of the session; it
\* finds no callback running.
LEMMA ReleaseCasEnds ==
  ASSUME IInv, ContractIInv, NEW t \in Threads, ReleaseCas(t)
  PROVE  /\ ContractIInv'
         /\ (sessionId \in Sids /\ Contract!End(sessionId)) \/ Unseen
PROOF
  <1> USE DEF slotVars, sendVars, portVars, mgrVars, localVars
  <1>0. TypeOK /\ ThreadsInPlace /\ pc[t] = "rel"
    BY Parts DEF Places, ReleaseCas
  <1>1. CASE ~(refcount = 0 /\ relFlag = 0)
    <2>1. ContractKept(t)
      BY <1>0, <1>1
         DEF ReleaseCas, Return, ContractKept, Goto, TypeOK, InitPcs, ParsePcs,
             RecvChainPcs, ReleasePcs, NotToldPcs
    <2> QED
      BY <2>1, ContractFrame
  <1>2. CASE refcount = 0 /\ relFlag = 0
    <2>1. /\ Goto(t, "clear") /\ relFlag' = 1
          /\ arg' = [arg EXCEPT ![t] = sessionId]
          /\ UNCHANGED <<sessionId, lastSid, app, ctx, cur, relMsgs, recvOl>>
      BY <1>2 DEF ReleaseCas
    <2>2. pc'[t] = "clear" /\ \A u \in Threads : u # t => pc'[u] = pc[u]
      BY <1>0, <2>1, Moved
    <2>3. arg'[t] = sessionId /\ \A u \in Threads : u # t => arg'[u] = arg[u]
      BY <1>0, <2>1 DEF TypeOK
    <2>4. /\ sessionId \in Sids /\ sessionId = lastSid
          /\ sessionId \notin EndedSids
          /\ \A u \in Threads : pc[u] \notin SlotPcs
      BY <1>2, LiveSession
    <2>5. /\ \A u \in Threads : pc[u] \notin RefPcs /\ ctx[u] = "none"
          /\ recvOl = "none"
      BY <1>2, ZeroMeansNobody
    <2>6. Acceptor \in Threads
      BY DEF Threads
    <2>7. pc'[Acceptor] \notin InitPcs /\ pc[Acceptor] \notin InitPcs
      BY <2>2, <2>4, <2>6 DEF SlotPcs, InitPcs
    <2>8. EndedSids' = EndedSids \cup {sessionId}
      BY <2>1, <2>4, <2>7 DEF EndedSids, InitPcs
    <2>9. RunningSids = {} /\ RunningSids' = {}
      BY <2>1, <2>5 DEF RunningSids
    <2>10. Contract!End(sessionId)
      BY <2>1, <2>4, <2>8, <2>9 DEF Contract!End
    <2>11. ReleasedOnce'
      <3> SUFFICES ASSUME NEW s \in Sids
                   PROVE  Count(Releasing', {s}) + relMsgs[s]
                          + One(app[s] = "released") <= One(s \in EndedSids')
        BY <2>1 DEF ReleasedOnce, Releases
      <3>1. /\ \A u \in Threads : u # t => Releasing'[u] = Releasing[u]
            /\ Releasing[t] = 0 /\ Releasing'[t] = sessionId
        BY <1>0, <2>2, <2>3 DEF Releasing, ReleasePcs
      <3>2. /\ Count(Releasing', {s}) = Count(Releasing, {s})
                 - One(Releasing[t] = s) + One(Releasing'[t] = s)
            /\ Count(Releasing, {s}) \in Nat
        BY <3>1, ReleasingMove
      <3>3. Count(Releasing', {s}) = Count(Releasing, {s}) + One(sessionId = s)
        <4>1. One(Releasing[t] = s) = 0
          BY <3>1 DEF One, Sids
        <4>2. One(sessionId = s) \in Nat
          BY DEF One
        <4> QED
          BY <3>1, <3>2, <4>1, <4>2
      <3>4. Count(Releasing, {s}) + relMsgs[s] + One(app[s] = "released")
              <= One(s \in EndedSids)
        BY DEF ContractIInv, ReleasedOnce, Releases
      <3>5. One(s \in EndedSids') = One(s \in EndedSids) + One(sessionId = s)
        BY <2>4, <2>8 DEF One
      <3>6. /\ relMsgs[s] \in Nat /\ One(app[s] = "released") \in {0, 1}
            /\ One(s \in EndedSids) \in {0, 1} /\ One(sessionId = s) \in {0, 1}
        BY <1>0, ReleasesNumbers DEF One
      <3> QED
        BY <3>2, <3>3, <3>4, <3>5, <3>6
    <2>12. CallbacksOfOpenSession'
      BY <2>1, <2>5 DEF CallbacksOfOpenSession
    <2>13. LatestInSlot'
      BY <2>1, <2>7 DEF LatestInSlot, InitPcs
    <2>14. NotToldBefore'
      <3>1. pc'[Acceptor] \in NotToldPcs => pc[Acceptor] \in NotToldPcs
        BY <2>2, <2>6 DEF NotToldPcs
      <3> QED
        BY <2>1, <3>1 DEF ContractIInv, NotToldBefore
    <2>15. OpenWhileReceiving'
      BY <2>1, <2>2, <2>5
         DEF OpenWhileReceiving, RecvChainPcs, RefPcs, StrongRefPcs
    <2> QED
      BY <2>4, <2>10, <2>11, <2>12, <2>13, <2>14, <2>15 DEF ContractIInv
  <1> QED
    BY <1>1, <1>2

\* Clear forgets the id, of which the content knows it has ended.
LEMMA ClearUnseen ==
  ASSUME IInv, ContractIInv, NEW t \in Threads, Clear(t)
  PROVE  ContractIInv' /\ Unseen
PROOF
  <1> USE DEF slotVars, sendVars, portVars, mgrVars, localVars
  <1>0. TypeOK /\ pc[t] = "clear" /\ Acceptor \in Threads
    BY Parts DEF Clear, Threads
  <1>1. /\ Goto(t, "push")
        /\ UNCHANGED <<relFlag, lastSid, app, ctx, cur, relMsgs, recvOl, arg>>
    BY DEF Clear
  <1>2. pc'[t] = "push" /\ \A u \in Threads : u # t => pc'[u] = pc[u]
    BY <1>0, <1>1, Moved
  <1>3. relFlag = 1 /\ slotFree = 0 /\ Count(pc, SlotPcs) = 1
    BY <1>0, SlotHolderAlone, Parts, CountsNat
       DEF SlotPcs, Balance, SlotOwnerUnique
  <1>4. pc[Acceptor] \notin InitPcs /\ pc'[Acceptor] \notin InitPcs
    <2>1. t # Acceptor => pc[Acceptor] \notin SlotPcs
      BY <1>0, <1>3, CountTwo DEF SlotPcs
    <2> QED
      BY <1>0, <1>2, <2>1 DEF SlotPcs, InitPcs
  <1>5. /\ \A u \in Threads : pc[u] \notin StrongRefPcs /\ ctx[u] = "none"
        /\ recvOl = "none"
    BY <1>3, Parts DEF Places, NobodyOnReleased
  <1>6. RunningSids' = RunningSids
    BY <1>1 DEF RunningSids
  <1>7. EndedSids' = EndedSids
    BY <1>1, <1>4 DEF EndedSids, InitPcs
  <1>8. Releasing' = Releasing
    BY <1>0, <1>1, <1>2 DEF Releasing, ReleasePcs
  <1>9. ReleasedOnce'
    BY <1>1, <1>7, <1>8 DEF ContractIInv, ReleasedOnce, Releases
  <1>10. CallbacksOfOpenSession'
    BY <1>1, <1>5 DEF CallbacksOfOpenSession
  <1>11. LatestInSlot'
    BY <1>1, <1>3, <1>4 DEF LatestInSlot, InitPcs
  <1>12. NotToldBefore'
    <2>1. pc'[Acceptor] \in NotToldPcs => pc[Acceptor] \in NotToldPcs
      BY <1>0, <1>2 DEF NotToldPcs
    <2> QED
      BY <1>1, <2>1 DEF ContractIInv, NotToldBefore
  <1>13. OpenWhileReceiving'
    BY <1>1, <1>2, <1>5 DEF OpenWhileReceiving, RecvChainPcs, StrongRefPcs
  <1> QED
    BY <1>1, <1>6, <1>7, <1>9, <1>10, <1>11, <1>12, <1>13
       DEF ContractIInv, Unseen

\* The release goes from the thread to its RELEASE message.
LEMMA PostReleaseUnseen ==
  ASSUME IInv, ContractIInv, NEW t \in Threads, PostRelease(t)
  PROVE  ContractIInv' /\ Unseen
PROOF
  <1> USE DEF slotVars, sendVars, portVars, mgrVars, localVars
  <1>0. TypeOK /\ pc[t] = "postRel" /\ Acceptor \in Threads
    BY Parts DEF PostRelease, Threads
  <1>1. PICK l \in {"idle", "callback"} :
        /\ Goto(t, l) /\ arg' = [arg EXCEPT ![t] = 0]
        /\ relMsgs' = [relMsgs EXCEPT ![arg[t]] = @ + 1]
        /\ UNCHANGED <<relFlag, sessionId, lastSid, app, ctx, cur, recvOl>>
    BY DEF PostRelease, Return
  <1>2. pc'[t] = l /\ \A u \in Threads : u # t => pc'[u] = pc[u]
    BY <1>0, <1>1, Moved
  <1>3. \A u \in Threads : u # t => arg'[u] = arg[u]
    BY <1>0, <1>1 DEF TypeOK
  <1>4. pc'[Acceptor] \in NotToldPcs <=> pc[Acceptor] \in NotToldPcs
    BY <1>0, <1>2 DEF NotToldPcs
  <1>5. pc'[Acceptor] \in InitPcs <=> pc[Acceptor] \in InitPcs
    BY <1>0, <1>2 DEF InitPcs
  <1>6. pc'[Acceptor] = "acOpen" <=> pc[Acceptor] = "acOpen"
    BY <1>0, <1>2
  <1>7. RunningSids' = RunningSids
    BY <1>1 DEF RunningSids
  <1>8. EndedSids' = EndedSids
    BY <1>1, <1>5 DEF EndedSids, InitPcs
  <1>9. ReleasedOnce'
    <2> SUFFICES ASSUME NEW s \in Sids
                 PROVE  Count(Releasing', {s}) + relMsgs'[s]
                        + One(app[s] = "released") <= One(s \in EndedSids)
      BY <1>1, <1>8 DEF ReleasedOnce, Releases
    <2>1. /\ \A u \in Threads : u # t => Releasing'[u] = Releasing[u]
          /\ Releasing[t] = arg[t] /\ Releasing'[t] = 0
      BY <1>0, <1>2, <1>3 DEF Releasing, ReleasePcs
    <2>2. /\ Count(Releasing', {s}) = Count(Releasing, {s})
               - One(Releasing[t] = s) + One(Releasing'[t] = s)
          /\ Count(Releasing, {s}) \in Nat
      BY <2>1, ReleasingMove
    <2>3. Count(Releasing', {s}) = Count(Releasing, {s}) - One(arg[t] = s)
      <3>1. One(Releasing'[t] = s) = 0
        BY <2>1 DEF One, Sids
      <3>2. One(arg[t] = s) \in Nat
        BY DEF One
      <3> QED
        BY <2>1, <2>2, <3>1, <3>2
    <2>4. relMsgs'[s] = relMsgs[s] + One(arg[t] = s) /\ relMsgs[s] \in Nat
      BY <1>0, <1>1 DEF TypeOK, One
    <2>5. Count(Releasing, {s}) + relMsgs[s] + One(app[s] = "released")
            <= One(s \in EndedSids)
      BY DEF ContractIInv, ReleasedOnce, Releases
    <2>6. One(app[s] = "released") \in Int /\ One(s \in EndedSids) \in Int
          /\ One(arg[t] = s) \in Int
      BY DEF One
    <2> QED
      BY <2>2, <2>3, <2>4, <2>5, <2>6
  <1>10. CallbacksOfOpenSession'
    BY <1>1 DEF ContractIInv, CallbacksOfOpenSession
  <1>11. LatestInSlot'
    BY <1>1, <1>5, <1>6 DEF ContractIInv, LatestInSlot, InitPcs
  <1>12. NotToldBefore'
    BY <1>1, <1>4 DEF ContractIInv, NotToldBefore
  <1>13. OpenWhileReceiving'
    BY <1>1, <1>2 DEF ContractIInv, OpenWhileReceiving, RecvChainPcs
  <1> QED
    BY <1>1, <1>7, <1>8, <1>9, <1>10, <1>11, <1>12, <1>13
       DEF ContractIInv, Unseen

\* AcquireSession takes the next session id.
LEMMA IncSessionCntUnseen ==
  ASSUME IInv, ContractIInv, NEW t \in Threads, IncSessionCnt(t)
  PROVE  ContractIInv' /\ Unseen
PROOF
  <1> USE DEF slotVars, sendVars, portVars, mgrVars, localVars
  <1>0. /\ TypeOK /\ pc[t] = "acCnt" /\ t = Acceptor
        /\ relFlag = 1 /\ lastSid < MaxSid
    BY Parts, SlotHolderAlone
       DEF IncSessionCnt, Places, ThreadsInPlace, SlotPcs
  <1>1. /\ Goto(t, "acInc") /\ lastSid' = lastSid + 1
        /\ UNCHANGED <<relFlag, sessionId, app, ctx, cur, arg, relMsgs, recvOl>>
    BY DEF IncSessionCnt
  <1>2. pc'[t] = "acInc" /\ \A u \in Threads : u # t => pc'[u] = pc[u]
    BY <1>0, <1>1, Moved
  <1>3. /\ \A u \in Threads : pc[u] \notin StrongRefPcs /\ ctx[u] = "none"
        /\ recvOl = "none"
    BY <1>0, Parts DEF Places, NobodyOnReleased
  <1>4. RunningSids' = RunningSids
    BY <1>1 DEF RunningSids
  <1>5. EndedSids' = EndedSids
    <2>1. lastSid \in Nat /\ \A s \in Sids : s \in Nat
      BY <1>0, BoundsAssumption DEF TypeOK, Sids
    <2>2. EndedSids = {s \in Sids : s < lastSid \/ s = lastSid}
      BY <1>0 DEF EndedSids
    <2>3. EndedSids' = {s \in Sids : s < lastSid + 1}
      BY <1>0, <1>1, <1>2 DEF EndedSids
    <2>4. \A s \in Sids : s < lastSid + 1 <=> (s < lastSid \/ s = lastSid)
      BY <2>1
    <2> QED
      BY <2>2, <2>3, <2>4
  <1>6. Releasing' = Releasing
    BY <1>0, <1>1, <1>2 DEF Releasing, ReleasePcs
  <1>7. ReleasedOnce'
    BY <1>1, <1>5, <1>6 DEF ContractIInv, ReleasedOnce, Releases
  <1>8. CallbacksOfOpenSession'
    BY <1>1, <1>3 DEF CallbacksOfOpenSession
  <1>9. LatestInSlot'
    BY <1>0, <1>1, <1>2 DEF LatestInSlot, TypeOK
  <1>10. NotToldBefore'
    <2>1. \A s \in Sids : (s > lastSid + 1 \/ s = lastSid + 1) => s > lastSid
      BY <1>0, BoundsAssumption DEF TypeOK, Sids
    <2> QED
      BY <1>1, <2>1 DEF ContractIInv, NotToldBefore
  <1>11. OpenWhileReceiving'
    BY <1>1, <1>2, <1>3 DEF OpenWhileReceiving, RecvChainPcs, StrongRefPcs
  <1> QED
    BY <1>1, <1>4, <1>5, <1>7, <1>8, <1>9, <1>10, <1>11
       DEF ContractIInv, Unseen

\* stNetSession::Init writes the id, and opens the slot.
LEMMA InitUnseen ==
  ASSUME IInv, ContractIInv, NEW t \in Threads, InitFields(t) \/ InitOpen(t)
  PROVE  ContractIInv' /\ Unseen
PROOF
  <1> USE DEF slotVars, sendVars, portVars, mgrVars, localVars
  <1>0. /\ TypeOK /\ pc[t] \in {"acInit", "acOpen"} /\ t = Acceptor
        /\ relFlag = 1
    BY Parts, SlotHolderAlone
       DEF InitFields, InitOpen, Places, ThreadsInPlace, SlotPcs
  <1>1. PICK l \in {"acOpen", "acReg"} :
        /\ Goto(t, l)
        /\ l = "acOpen" => sessionId' = lastSid /\ relFlag' = relFlag
        /\ l = "acReg" => pc[t] = "acOpen" /\ sessionId' = sessionId
                          /\ relFlag' = 0
        /\ UNCHANGED <<lastSid, app, ctx, cur, arg, relMsgs, recvOl>>
    BY DEF InitFields, InitOpen
  <1>2. pc'[t] = l /\ \A u \in Threads : u # t => pc'[u] = pc[u]
    BY <1>0, <1>1, Moved
  <1>3. /\ \A u \in Threads : pc[u] \notin StrongRefPcs /\ ctx[u] = "none"
        /\ recvOl = "none"
    BY <1>0, Parts DEF Places, NobodyOnReleased
  <1>4. lastSid >= 1 /\ sessionId' = lastSid
    BY <1>0, <1>1 DEF ContractIInv, LatestInSlot
  <1>5. RunningSids' = RunningSids
    BY <1>1 DEF RunningSids
  <1>6. EndedSids' = EndedSids
    BY <1>0, <1>1, <1>2 DEF EndedSids
  <1>7. Releasing' = Releasing
    BY <1>0, <1>1, <1>2 DEF Releasing, ReleasePcs
  <1>8. ReleasedOnce'
    BY <1>1, <1>6, <1>7 DEF ContractIInv, ReleasedOnce, Releases
  <1>9. CallbacksOfOpenSession'
    BY <1>1, <1>3 DEF CallbacksOfOpenSession
  <1>10. LatestInSlot'
    BY <1>1, <1>4 DEF LatestInSlot
  <1>11. NotToldBefore'
    BY <1>0, <1>1, <1>2 DEF ContractIInv, NotToldBefore, NotToldPcs
  <1>12. OpenWhileReceiving'
    BY <1>1, <1>2, <1>3 DEF OpenWhileReceiving, RecvChainPcs, StrongRefPcs
  <1> QED
    BY <1>1, <1>5, <1>6, <1>8, <1>9, <1>10, <1>11, <1>12
       DEF ContractIInv, Unseen

\* A callback begins: OnAccept, of an id the content has not heard of, or
\* OnMessage, of one that is open, while no other callback runs.
LEMMA CallbackBegins ==
  ASSUME IInv, ContractIInv, NEW t \in Threads, Register(t) \/ ParseMessage(t)
  PROVE  /\ ContractIInv'
         /\ sessionId \in Sids
         /\ Contract!OnAccept(sessionId) \/ Contract!OnMessage(sessionId)
PROOF
  <1> USE DEF slotVars, sendVars, portVars, mgrVars, localVars
  <1>0. /\ TypeOK /\ pc[t] \in {"acReg", "parse"} /\ Acceptor \in Threads
        /\ pc[t] = "acReg" => t = Acceptor
        /\ ctx[t] = "none" /\ pc[t] \in RecvChainPcs
    BY Parts
       DEF Register, ParseMessage, Places, ThreadsInPlace, ApiPcs, Threads,
           RecvChainPcs
  <1>1. relFlag = 0 /\ recvOl = "none" /\ \A u \in Threads : ctx[u] = "none"
    BY <1>0, ReceiverLive, ReceiverAlone, NoCallbackWhileParsing
  <1>2. /\ sessionId \in Sids /\ sessionId = lastSid
        /\ sessionId \notin EndedSids
        /\ \A u \in Threads : pc[u] \notin SlotPcs
    BY <1>1, LiveSession
  <1>3. PICK c \in {"accept", "message"} :
        /\ Goto(t, "callback") /\ SetCtx(t, c)
        /\ cur' = [cur EXCEPT ![t] = sessionId]
        /\ c = "accept" => /\ pc[t] = "acReg"
                           /\ app' = [app EXCEPT ![sessionId] = "open"]
        /\ c = "message" => pc[t] = "parse" /\ app' = app
        /\ UNCHANGED <<relFlag, sessionId, lastSid, arg, relMsgs, recvOl>>
    BY DEF Register, ParseMessage, SetCtx
  <1>4. pc'[t] = "callback" /\ \A u \in Threads : u # t => pc'[u] = pc[u]
    BY <1>0, <1>3, Moved
  <1>5. ctx'[t] = c /\ \A u \in Threads : u # t => ctx'[u] = "none"
    BY <1>0, <1>1, <1>3, CtxMoved
  <1>6. cur'[t] = sessionId
    BY <1>0, <1>3 DEF TypeOK
  <1>7. RunningSids = {} /\ RunningSids' = {sessionId}
    BY <1>1, <1>5, <1>6 DEF RunningSids
  <1>8. EndedSids' = EndedSids
    BY <1>1, <1>3 DEF EndedSids
  <1>9. c = "accept" => app[sessionId] = "none"
    BY <1>0, <1>2, <1>3 DEF ContractIInv, NotToldBefore, NotToldPcs
  <1>10. c = "message" => app[sessionId] = "open"
    BY <1>0, <1>3 DEF ContractIInv, OpenWhileReceiving, RecvChainPcs
  <1>11. Contract!OnAccept(sessionId) \/ Contract!OnMessage(sessionId)
    BY <1>2, <1>3, <1>7, <1>8, <1>9, <1>10
       DEF Contract!OnAccept, Contract!OnMessage
  <1>12. app'[sessionId] = "open"
    BY <1>0, <1>2, <1>3, <1>10 DEF TypeOK
  <1>13. \A s \in Sids : s # sessionId => app'[s] = app[s]
    BY <1>0, <1>3 DEF TypeOK
  <1>14. Releasing' = Releasing
    BY <1>0, <1>3, <1>4 DEF Releasing, ReleasePcs
  <1>15. ReleasedOnce'
    <2> SUFFICES ASSUME NEW s \in Sids
                 PROVE  One(app'[s] = "released") = One(app[s] = "released")
      BY <1>3, <1>8, <1>14 DEF ContractIInv, ReleasedOnce, Releases
    <2> QED
      BY <1>9, <1>10, <1>12, <1>13 DEF One
  <1>16. CallbacksOfOpenSession'
    BY <1>3, <1>5, <1>6, <1>12 DEF CallbacksOfOpenSession
  <1>17. pc'[Acceptor] \notin NotToldPcs
    <2>1. CASE t = Acceptor
      BY <1>4, <2>1 DEF NotToldPcs
    <2>2. CASE t # Acceptor
      <3>1. pc[Acceptor] \notin RecvChainPcs \cup SlotPcs
        BY <1>0, <1>2, <2>2, NoOtherRegistration
      <3> QED
        BY <1>0, <1>4, <2>2, <3>1 DEF NotToldPcs, SlotPcs, RecvChainPcs
    <2> QED
      BY <2>1, <2>2
  <1>18. LatestInSlot'
    BY <1>3, <1>17 DEF ContractIInv, LatestInSlot, NotToldPcs
  <1>19. NotToldBefore'
    <2>1. \A s \in Sids : s > lastSid => s # sessionId
      BY <1>0, <1>2 DEF TypeOK, Sids
    <2> QED
      BY <1>3, <1>13, <1>17, <2>1 DEF ContractIInv, NotToldBefore
  <1>20. OpenWhileReceiving'
    BY <1>3, <1>12 DEF OpenWhileReceiving
  <1> QED
    BY <1>2, <1>11, <1>15, <1>16, <1>18, <1>19, <1>20 DEF ContractIInv

\* A callback returns, and the parse loop or the first receive goes on.
LEMMA CallbackEnds ==
  ASSUME IInv, ContractIInv, NEW t \in Threads, EndCallback(t)
  PROVE  /\ ContractIInv'
         /\ sessionId \in Sids /\ Contract!CallbackReturns(sessionId)
PROOF
  <1> USE DEF slotVars, sendVars, portVars, mgrVars, localVars
  <1>0. /\ TypeOK /\ pc[t] = "callback" /\ ctx[t] # "none"
        /\ Acceptor \in Threads
    BY Parts DEF EndCallback, Places, ThreadsInPlace, Threads
  <1>1. relFlag = 0 /\ \A u \in Threads : u # t => ctx[u] = "none"
    BY <1>0, ReceiverLive, CallbackAlone
  <1>2. sessionId \in Sids /\ app[sessionId] = "open" /\ cur[t] = sessionId
    BY <1>0, <1>1, LiveSession DEF ContractIInv, CallbacksOfOpenSession
  <1>3. PICK l \in {"rpCheck", "parse"} :
        /\ Goto(t, l) /\ SetCtx(t, "none")
        /\ UNCHANGED <<relFlag, sessionId, lastSid, app, arg, relMsgs, recvOl>>
    BY DEF EndCallback, SetCtx
  <1>4. pc'[t] = l /\ \A u \in Threads : u # t => pc'[u] = pc[u]
    BY <1>0, <1>3, Moved
  <1>5. \A u \in Threads : ctx'[u] = "none"
    BY <1>0, <1>1, <1>3, CtxMoved
  <1>6. RunningSids = {sessionId} /\ RunningSids' = {}
    BY <1>0, <1>5, Running DEF RunningSids
  <1>7. EndedSids' = EndedSids
    BY <1>1, <1>3 DEF EndedSids
  <1>8. Contract!CallbackReturns(sessionId)
    BY <1>3, <1>6, <1>7 DEF Contract!CallbackReturns
  <1>9. Releasing' = Releasing
    BY <1>0, <1>3, <1>4 DEF Releasing, ReleasePcs
  <1>10. ReleasedOnce'
    BY <1>3, <1>7, <1>9 DEF ContractIInv, ReleasedOnce, Releases
  <1>11. CallbacksOfOpenSession' /\ OpenWhileReceiving'
    BY <1>2, <1>3, <1>5 DEF CallbacksOfOpenSession, OpenWhileReceiving
  <1>12. pc'[Acceptor] \in NotToldPcs => pc[Acceptor] \in NotToldPcs
    BY <1>0, <1>4 DEF NotToldPcs
  <1>13. pc'[Acceptor] \in InitPcs => pc'[Acceptor] = pc[Acceptor]
    BY <1>0, <1>4 DEF InitPcs
  <1>14. LatestInSlot' /\ NotToldBefore'
    BY <1>3, <1>12, <1>13
       DEF ContractIInv, LatestInSlot, NotToldBefore, InitPcs
  <1> QED
    BY <1>2, <1>8, <1>10, <1>11, <1>14 DEF ContractIInv

\* OnRelease is called once, for a session that has ended.
LEMMA GetReleaseReports ==
  ASSUME IInv, ContractIInv, NEW t \in Threads, NEW s \in Sids,
         GetRelease(t, s)
  PROVE  ContractIInv' /\ Contract!OnRelease(s)
PROOF
  <1> USE DEF slotVars, sendVars, portVars, mgrVars, localVars
  <1>0. TypeOK /\ ReleasedOnce /\ Acceptor \in Threads
    BY Parts DEF ContractIInv, Threads
  <1>1. /\ relMsgs[s] > 0 /\ relMsgs' = [relMsgs EXCEPT ![s] = @ - 1]
        /\ app' = [app EXCEPT ![s] = "released"]
        /\ UNCHANGED <<relFlag, sessionId, lastSid, pc, ctx, cur, arg, recvOl>>
    BY DEF GetRelease
  <1>2. s \in EndedSids /\ app[s] # "released" /\ relMsgs[s] = 1
    BY <1>0, <1>1, ReleaseEnded
  <1>3. /\ app'[s] = "released" /\ relMsgs'[s] = 0
        /\ \A r \in Sids : r # s => app'[r] = app[r] /\ relMsgs'[r] = relMsgs[r]
    BY <1>0, <1>1, <1>2 DEF TypeOK
  <1>4. UNCHANGED <<RunningSids, EndedSids, Releasing>>
    BY <1>1 DEF RunningSids, EndedSids, Releasing
  <1>5. Contract!OnRelease(s)
    BY <1>1, <1>2, <1>4 DEF Contract!OnRelease
  <1>6. relFlag = 0 => s # sessionId
    BY <1>2, LiveSession
  <1>7. ReleasedOnce'
    <2> SUFFICES ASSUME NEW r \in Sids
                 PROVE  Count(Releasing, {r}) + relMsgs'[r]
                        + One(app'[r] = "released") <= One(r \in EndedSids)
      BY <1>4 DEF ReleasedOnce, Releases
    <2>1. relMsgs'[r] + One(app'[r] = "released")
            = relMsgs[r] + One(app[r] = "released")
      <3>1. CASE r = s
        BY <1>2, <1>3, <3>1 DEF One
      <3>2. CASE r # s
        BY <1>3, <3>2
      <3> QED
        BY <3>1, <3>2
    <2>2. relMsgs'[r] \in Nat /\ One(app'[r] = "released") \in Nat
      <3>1. relMsgs[r] \in Nat
        BY <1>0, ReleasesNumbers
      <3>2. relMsgs'[r] \in Nat
        BY <1>3, <3>1
      <3> QED
        BY <3>2 DEF One
    <2>3. Count(Releasing, {r}) + relMsgs[r] + One(app[r] = "released")
            <= One(r \in EndedSids)
      BY <1>0 DEF ReleasedOnce, Releases
    <2>4. /\ Count(Releasing, {r}) \in Nat /\ relMsgs[r] \in Nat
          /\ One(app[r] = "released") \in Nat /\ One(r \in EndedSids) \in Nat
      BY <1>0, ReleasesNumbers DEF One
    <2> QED
      BY <2>1, <2>2, <2>3, <2>4
  <1>8. CallbacksOfOpenSession' /\ OpenWhileReceiving'
    <2>1. relFlag = 0 => app'[sessionId] = app[sessionId]
      BY <1>3, <1>6, LiveSession
    <2>2. \/ recvOl # "none"
          \/ \E u \in Threads : ctx[u] # "none" \/ pc[u] \in RecvChainPcs
          => relFlag = 0
      BY ReceiverLive
    <2> QED
      BY <1>1, <2>1, <2>2
         DEF ContractIInv, CallbacksOfOpenSession, OpenWhileReceiving
  <1>9. LatestInSlot'
    BY <1>1 DEF ContractIInv, LatestInSlot
  <1>10. NotToldBefore'
    <2>1. ~(s > lastSid \/ (s = lastSid /\ pc[Acceptor] \in NotToldPcs))
      <3>1. s <= lastSid /\ lastSid \in Int
        BY <1>0, <1>2, BoundsAssumption DEF EndedSids, TypeOK, Sids
      <3>2. s = lastSid => relFlag = 1 /\ pc[Acceptor] \notin InitPcs
        BY <1>0, <1>2, BoundsAssumption DEF EndedSids, InitPcs, TypeOK, Sids
      <3>3. relFlag = 1 => pc[Acceptor] # "acReg"
        BY <1>0, Parts DEF Places, NobodyOnReleased, StrongRefPcs
      <3> QED
        BY <3>1, <3>2, <3>3 DEF NotToldPcs, InitPcs, Sids
    <2>2. /\ UNCHANGED <<lastSid, pc>>
          /\ \A r \in Sids : r # s => app'[r] = app[r]
      BY <1>1, <1>3
    <2> QED
      BY <2>1, <2>2 DEF ContractIInv, NotToldBefore
  <1> QED
    BY <1>5, <1>7, <1>8, <1>9, <1>10 DEF ContractIInv

\* The kernel completes an operation; the content sees nothing.
LEMMA KernelUnseen ==
  ASSUME ContractIInv, RecvCompletes \/ SendCompletes \/ UNCHANGED vars
  PROVE  ContractIInv' /\ Unseen
PROOF
  <1> USE DEF slotVars, sendVars, portVars, mgrVars, localVars
  <1>1. /\ UNCHANGED <<relFlag, sessionId, lastSid, app, pc, ctx, cur, arg,
                       relMsgs>>
        /\ recvOl' # "none" => recvOl # "none"
    BY DEF RecvCompletes, SendCompletes, vars
  <1>2. UNCHANGED <<RunningSids, EndedSids, Releasing>>
    BY <1>1 DEF RunningSids, EndedSids, Releasing
  <1>3. ReleasedOnce'
    BY <1>1, <1>2 DEF ContractIInv, ReleasedOnce, Releases
  <1>4. CallbacksOfOpenSession' /\ LatestInSlot' /\ NotToldBefore'
    BY <1>1 DEF ContractIInv, CallbacksOfOpenSession, LatestInSlot,
                NotToldBefore
  <1>5. OpenWhileReceiving'
    BY <1>1 DEF ContractIInv, OpenWhileReceiving
  <1> QED
    BY <1>1, <1>2, <1>3, <1>4, <1>5 DEF ContractIInv, Unseen

-----------------------------------------------------------------------------
(* The theorems.                                                            *)

\* At first there is no session and nothing has been told.
LEMMA InitContract == Init => ContractIInv /\ Contract!Init
PROOF
  <1> SUFFICES ASSUME Init PROVE ContractIInv /\ Contract!Init
    OBVIOUS
  <1>1. /\ relFlag = 1 /\ lastSid = 0 /\ recvOl = "none"
        /\ relMsgs = [s \in Sids |-> 0] /\ app = [s \in Sids |-> "none"]
        /\ \A t \in Threads : pc[t] = "idle" /\ ctx[t] = "none"
        /\ Acceptor \in Threads
    BY DEF Init, Threads
  <1>2. RunningSids = {}
    BY <1>1 DEF RunningSids
  <1>3. EndedSids = {}
    BY <1>1, BoundsAssumption DEF EndedSids, Sids
  <1>4. ReleasedOnce
    <2> SUFFICES ASSUME NEW s \in Sids
                 PROVE  Count(Releasing, {s}) + relMsgs[s]
                        + One(app[s] = "released") <= One(s \in EndedSids)
      BY DEF ReleasedOnce, Releases
    <2>1. \A t \in Threads : Releasing[t] \notin {s}
      BY <1>1 DEF Releasing, ReleasePcs, Sids
    <2>2. Count(Releasing, {s}) = 0
      BY <2>1, CountNat
    <2>3. relMsgs[s] = 0 /\ One(app[s] = "released") = 0
          /\ One(s \in EndedSids) \in Nat
      BY <1>1 DEF One
    <2> QED
      BY <2>2, <2>3
  <1>5. CallbacksOfOpenSession /\ LatestInSlot
    BY <1>1 DEF CallbacksOfOpenSession, LatestInSlot
  <1>6. NotToldBefore /\ OpenWhileReceiving
    BY <1>1 DEF NotToldBefore, OpenWhileReceiving, RecvChainPcs
  <1>7. Contract!Init
    BY <1>1, <1>2, <1>3 DEF Contract!Init, Contract!Sids, Sids
  <1> QED
    BY <1>4, <1>5, <1>6, <1>7 DEF ContractIInv

\* Every step keeps ContractIInv, and is a step of the contract or none.
LEMMA NextContract ==
  IInv /\ ContractIInv /\ [Next]_vars
    => ContractIInv' /\ [Contract!Next]_Contract!vars
PROOF
  <1> SUFFICES ASSUME IInv, ContractIInv, [Next]_vars
               PROVE  ContractIInv' /\ [Contract!Next]_Contract!vars
    OBVIOUS
  <1>1. Contract!Sids = Sids
    BY DEF Contract!Sids, Sids
  <1>2. Unseen => [Contract!Next]_Contract!vars
    BY DEF Unseen, Contract!vars
  <1>3. \A s \in Sids :
          \/ Contract!OnAccept(s) \/ Contract!OnMessage(s)
          \/ Contract!CallbackReturns(s) \/ Contract!End(s)
          \/ Contract!OnRelease(s)
          => [Contract!Next]_Contract!vars
    BY <1>1 DEF Contract!Next
  <1>4. ASSUME NEW t \in Threads, LibStep(t)
        PROVE  ContractIInv' /\ [Contract!Next]_Contract!vars
    <2>1. CASE ReleaseStep(t)
      BY <1>2, <1>3, <2>1, ReleaseUnseen, ReleaseCasEnds, ClearUnseen,
         PostReleaseUnseen DEF ReleaseStep
    <2>2. CASE AcceptStep(t)
      BY <1>2, <1>3, <2>2, AcceptUnseen, IncSessionCntUnseen, InitUnseen,
         CallbackBegins DEF AcceptStep
    <2>3. CASE ApiStep(t)
      BY <1>2, <2>3, ApiUnseen DEF ApiStep
    <2>4. CASE SendPostStep(t)
      BY <1>2, <2>4, SendPostUnseen DEF SendPostStep
    <2>5. CASE RecvPostStep(t)
      BY <1>2, <2>5, RecvUnseen DEF RecvPostStep
    <2>6. CASE CompletionStep(t)
      BY <1>2, <2>6, DoneUnseen, RecvUnseen DEF CompletionStep
    <2> QED
      BY <1>4, <2>1, <2>2, <2>3, <2>4, <2>5, <2>6 DEF LibStep
  <1>5. ASSUME NEW t \in Threads, GetStep(t) \/ CallStep(t)
        PROVE  ContractIInv' /\ [Contract!Next]_Contract!vars
    BY <1>2, <1>3, <1>5, DoneUnseen, RecvUnseen, GetReleaseReports, ApiUnseen
       DEF GetStep
  <1>6. ASSUME NEW t \in Threads,
               Accept(t) \/ EndCallback(t) \/ ParseMessage(t) \/ ParseEnd(t)
        PROVE  ContractIInv' /\ [Contract!Next]_Contract!vars
    BY <1>2, <1>3, <1>6, AcceptUnseen, RecvUnseen, CallbackBegins, CallbackEnds
  <1>7. CASE RecvCompletes \/ SendCompletes \/ UNCHANGED vars
    BY <1>2, <1>7, KernelUnseen
  <1> QED
    BY <1>4, <1>5, <1>6, <1>7 DEF Next

\* ContractIInv is an invariant, for any number of threads and sessions.
THEOREM ContractInductive == Spec => []ContractIInv
  BY Inductive, InitContract, NextContract, PTL DEF Spec

\* Past its check a call works on the session it was made for, and a
\* callback runs for the session in the slot, which is open.
THEOREM IdStable == Spec => []IdStableUnderRef
  BY ContractInductive, SendInductive, PTL
     DEF ContractIInv, SendIInv, IdStableUnderRef

\* NetSession implements the contract of the callbacks.
THEOREM Refinement == Spec => ContractSpec
PROOF
  <1>1. Init => Contract!Init
    BY InitContract
  <1>2. IInv /\ ContractIInv /\ [Next]_vars => [Contract!Next]_Contract!vars
    BY NextContract
  <1> QED
    BY <1>1, <1>2, Inductive, ContractInductive, PTL
       DEF Spec, ContractSpec, Contract!Spec

=============================================================================
