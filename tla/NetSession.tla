----------------------------- MODULE NetSession -----------------------------
(***************************************************************************)
(* The life of one slot of the session array of Net::CServer               *)
(* (NetSession.cpp, NetServer.cpp): its reference count with the release   *)
(* flag, its two overlapped operations, its send queue, and the threads    *)
(* that meet on it: the accept thread, the IOCP workers, and content       *)
(* threads that call SendPacket and Disconnect with session ids they were  *)
(* given earlier.                                                          *)
(*                                                                         *)
(* One step is one interlocked operation, one read of a field another      *)
(* thread may write, or one call into the kernel.  A sequence of accesses  *)
(* to data only the running thread may touch at that point is one step;    *)
(* that nobody else may touch it is what the invariants establish.         *)
(*                                                                         *)
(* Slots share nothing but the stack of free indexes and the session       *)
(* count, so one slot, reused for one session id after the other, shows    *)
(* every race the reference count protects against.                        *)
(***************************************************************************)
EXTENDS Integers, Sequences, FiniteSets, Functions

CONSTANTS Workers,        \* the IOCP worker threads
          Users,          \* content threads: timers, zones, the console (Stop)
          Acceptor,       \* the accept thread
          Packets,        \* references to CPackets that SendPacket may take
          NoPacket,
          MaxSid,         \* bound: the last session id issued
          SendQMax,       \* SEND_Q_MAX_SIZE; Enqueue refuses only above it
          WsabufMax       \* packets in one WSASend (SERVER_SEND_WSABUF_MAX)

Threads == Workers \cup Users \cup {Acceptor}

ASSUME ThreadsAssumption ==
    /\ IsFiniteSet(Workers) /\ IsFiniteSet(Users)
    /\ Workers \cap Users = {} /\ Acceptor \notin Workers \cup Users

ASSUME PacketsAssumption == NoPacket \notin Packets

ASSUME BoundsAssumption ==
    MaxSid \in Nat /\ SendQMax \in Nat /\ WsabufMax \in Nat \ {0}

VARIABLES
    \* fields of stNetSession; refcount is the count below the flag bit
    refcount, relFlag, sessionId, isDisconnect, isSending,
    sendQ, sendPackets,
    \* recvOl and sendOl with the operation each stands for: not in use, in
    \* the kernel, or completed and queued on the completion port
    recvOl, sendOl,
    \* the other messages on the port: DELAYSEND, and RELEASE per session id
    delaySend, relMsgs,
    \* SessionStructure: the index stack and the count; CServer::_sid
    slotFree, sessionCnt, lastSid,
    \* packet references nobody holds; the session a reference is meant for
    pool, dest,
    \* what the content has been told about each session id
    app,
    \* threads: where they are, the callback they run, their locals
    pc, ctx, arg, cur, pkt

slotVars == <<refcount, relFlag, sessionId, isDisconnect, isSending>>
sendVars == <<sendQ, sendPackets, pool, dest>>
portVars == <<recvOl, sendOl, delaySend, relMsgs>>
mgrVars  == <<slotFree, sessionCnt, lastSid, app>>
localVars == <<ctx, arg, cur, pkt>>
vars == <<slotVars, sendVars, portVars, mgrVars, pc, localVars>>

Sids == 1 .. MaxSid

-----------------------------------------------------------------------------
(* Where a thread can be.  The sets say who holds what.                     *)

\* The thread owns one reference because of where it is.  At "dec",
\* "rpVerify" and "stVerify" the reference may have been taken on a slot
\* that was already released; at "acInit" and "acOpen" it is the first one.
WeakRefPcs   == {"dec", "rpVerify", "stVerify", "acInit", "acOpen"}
StrongRefPcs == {"dcCheck", "dcCancelSend", "cancelRecvDec",
                 "spCheck", "spEnq", "spFull", "spExch", "spDisc", "sendOff",
                 "scFree", "scFail", "scCancelRecv", "scOff", "scOn", "scDisc",
                 "stEmpty", "stOff", "stEmpty2", "stOn", "stDisc",
                 "stTake", "stPost",
                 "rcCheck", "parse", "cancelSendDec", "rpCheck", "rpPost",
                 "acReg"}
RefPcs == WeakRefPcs \cup StrongRefPcs
NoRefPcs == {"idle", "callback", "dcInc", "spInc", "rpAgain", "rpInc",
             "stAgain", "stInc", "rel", "clear", "push", "cntDec", "postRel",
             "acPop", "acCnt", "acInc"}

\* The thread owns isSending: it set it from 0 to 1, or was handed it.
SendRightPcs == {"spDisc", "sendOff", "scFree", "scFail", "scCancelRecv",
                 "scOff", "scDisc", "stEmpty", "stOff", "stDisc", "stTake",
                 "stPost"}

\* The thread is between the end of one use of the slot and the next.
SlotPcs == {"clear", "push", "acCnt", "acInc", "acInit", "acOpen"}

\* The thread owns the receive side: it will post the next receive.
RecvChainPcs == {"acReg", "rcCheck", "parse", "rpCheck", "rpPost"}

\* A callback may have called the library and be here.
ApiPcs == {"callback", "dcInc", "dcCheck", "dcCancelSend", "cancelRecvDec",
           "spInc", "spCheck", "spEnq", "spFull", "spExch", "spDisc",
           "sendOff", "dec", "rel", "clear", "push", "cntDec", "postRel"}

-----------------------------------------------------------------------------
(* Shapes of steps.                                                         *)

Goto(t, l) == pc' = [pc EXCEPT ![t] = l]

\* A library function called from a callback returns into the callback.
Return(t) == Goto(t, IF ctx[t] = "none" THEN "idle" ELSE "callback")

\* A step that changes nothing else.
Pass(t, l, next) ==
    /\ pc[t] = l /\ Goto(t, next)
    /\ UNCHANGED <<slotVars, sendVars, portVars, mgrVars, localVars>>

\* A read of a shared field, and a branch.
Test(t, l, cond, yes, no) == Pass(t, l, IF cond THEN yes ELSE no)

\* _InterlockedIncrement(&refcount)
AddRef(t, l, next) ==
    /\ pc[t] = l /\ Goto(t, next)
    /\ refcount' = refcount + 1
    /\ UNCHANGED <<relFlag, sessionId, isDisconnect, isSending, sendVars,
                   portVars, mgrVars, localVars>>

\* _InterlockedExchange(&isSending, ...) and (&isDisconnect, 1)
SetSending(t, l, value, next) ==
    /\ pc[t] = l /\ Goto(t, next)
    /\ isSending' = value
    /\ UNCHANGED <<refcount, relFlag, sessionId, isDisconnect, sendVars,
                   portVars, mgrVars, localVars>>

SetDisconnect(t, l, next) ==
    /\ pc[t] = l /\ Goto(t, next)
    /\ isDisconnect' = 1
    /\ UNCHANGED <<refcount, relFlag, sessionId, isSending, sendVars,
                   portVars, mgrVars, localVars>>

\* CancelIoEx: an operation in the kernel completes without bytes.
CancelRecv == recvOl' = IF recvOl = "pending" THEN "zero" ELSE recvOl
CancelSend == sendOl' = IF sendOl = "pending" THEN "fail" ELSE sendOl

CancelRecvStep(t, l, next) ==
    /\ pc[t] = l /\ Goto(t, next) /\ CancelRecv
    /\ UNCHANGED <<slotVars, sendVars, sendOl, delaySend, relMsgs, mgrVars,
                   localVars>>

CancelSendStep(t, l, next) ==
    /\ pc[t] = l /\ Goto(t, next) /\ CancelSend
    /\ UNCHANGED <<slotVars, sendVars, recvOl, delaySend, relMsgs, mgrVars,
                   localVars>>

\* CPACKET_FREE of a set of references.
Free(ps) == /\ pool' = pool \cup ps
            /\ dest' = [p \in Packets |-> IF p \in ps THEN 0 ELSE dest[p]]

\* SendPacket gives up: its reference to the packet is freed.
Drop(t) == /\ Free({pkt[t]}) /\ pkt' = [pkt EXCEPT ![t] = NoPacket]
           /\ Goto(t, "dec")

-----------------------------------------------------------------------------
(* Faulty variants of some of the actions below.  They are not part of the  *)
(* specification: each stands for a slip the code could have made, and      *)
(* shows which property notices it.                                         *)

\* ReleaseSession stores the flag instead of comparing with 0 first.
ReleaseCas_PlainStore(t) ==
    /\ pc[t] = "rel"
    /\ relFlag' = 1
    /\ arg' = [arg EXCEPT ![t] = sessionId]
    /\ Goto(t, "clear")
    /\ UNCHANGED <<refcount, sessionId, isDisconnect, isSending, sendVars,
                   portVars, mgrVars, ctx, cur, pkt>>

\* The index is never pushed back, the count is decremented.
PushIndex_Lost(t) == Pass(t, "push", "cntDec")

\* Disconnect cancels the receive only.
DisconnectCancelSend_Forgotten(t) ==
    Pass(t, "dcCancelSend", "cancelRecvDec")

\* SendPacket does not look at the release flag.
SendPacketIncrement_NoFlagCheck(t) == AddRef(t, "spInc", "spCheck")

\* SendPacket does not compare the session ids.
SendPacketCheck_NoIdCheck(t) ==
    /\ pc[t] = "spCheck"
    /\ IF isDisconnect = 1 THEN Drop(t)
                       ELSE Goto(t, "spEnq") /\ UNCHANGED <<pool, dest, pkt>>
    /\ UNCHANGED <<slotVars, sendQ, sendPackets, portVars, mgrVars, ctx, arg,
                   cur>>

\* SendPacket returns without giving its reference back.
SendPacketExchange_KeepsRef(t) ==
    SetSending(t, "spExch", 1, IF isSending = 1 THEN "idle" ELSE "spDisc")

\* SendPost gives the right to send up and does not look at sendQ again.
SendPostOff_NoRecheck(t) == SetSending(t, "stOff", 0, "dec")

\* SendPost goes on sending without taking the right to send again.
SendPostEmptyAgain_NoExchange(t) ==
    Test(t, "stEmpty2", sendQ = <<>>, "dec", "stTake")

\* A send completion does not reset sendPacketsCnt.
SendDone_KeepsCount(t) ==
    /\ pc[t] = "scFree" /\ Goto(t, "scOff")
    /\ Free(Range(sendPackets))
    /\ UNCHANGED <<slotVars, sendQ, sendPackets, portVars, mgrVars, localVars>>

\* A failed send does not cancel the receive.
SendFailedCancelRecv_Forgotten(t) ==
    Pass(t, "scCancelRecv", "sendOff")

\* The worker decrements for the fragment and posts the receive all the same.
ParseTooSlow_PostsRecv(t) ==
    /\ pc[t] = "parse" /\ Goto(t, "rpCheck")
    /\ refcount' = refcount - 1
    /\ UNCHANGED <<relFlag, sessionId, isDisconnect, isSending, sendVars,
                   portVars, mgrVars, localVars>>

-----------------------------------------------------------------------------
Init ==
    /\ refcount = 0 /\ relFlag = 1 /\ sessionId = 0
    /\ isDisconnect = 0 /\ isSending = 0
    /\ sendQ = <<>> /\ sendPackets = <<>>
    /\ recvOl = "none" /\ sendOl = "none"
    /\ delaySend = 0 /\ relMsgs = [s \in Sids |-> 0]
    /\ slotFree = 1 /\ sessionCnt = 0 /\ lastSid = 0
    /\ pool = Packets /\ dest = [p \in Packets |-> 0]
    /\ app = [s \in Sids |-> "none"]
    /\ pc = [t \in Threads |-> "idle"] /\ ctx = [t \in Threads |-> "none"]
    /\ arg = [t \in Threads |-> 0] /\ cur = [t \in Threads |-> 0]
    /\ pkt = [t \in Threads |-> NoPacket]

-----------------------------------------------------------------------------
(* Giving a reference back: DecrementRefcount and ReleaseSession.  RecvPost *)
(* and the accept thread decrement by hand and release on zero, which is    *)
(* the same two steps.                                                      *)

DecrementRefcount(t) ==
    /\ pc[t] = "dec"
    /\ refcount' = refcount - 1
    /\ IF refcount' = 0 /\ relFlag = 0 THEN Goto(t, "rel") ELSE Return(t)
    /\ arg' = [arg EXCEPT ![t] = 0]
    /\ UNCHANGED <<relFlag, sessionId, isDisconnect, isSending, sendVars,
                   portVars, mgrVars, ctx, cur, pkt>>

\* The compare-exchange of refcount from 0 to SESSION_RELEASE_FLAG.
ReleaseCas(t) ==
    /\ pc[t] = "rel"
    /\ IF refcount = 0 /\ relFlag = 0
         THEN /\ relFlag' = 1
              /\ arg' = [arg EXCEPT ![t] = sessionId]
              /\ Goto(t, "clear")
         ELSE Return(t) /\ UNCHANGED <<relFlag, arg>>
    /\ UNCHANGED <<refcount, sessionId, isDisconnect, isSending, sendVars,
                   portVars, mgrVars, ctx, cur, pkt>>

Clear(t) ==
    /\ pc[t] = "clear" /\ Goto(t, "push")
    /\ sessionId' = 0 /\ isSending' = 0
    /\ sendQ' = <<>> /\ sendPackets' = <<>>
    /\ Free(Range(sendQ) \cup Range(sendPackets))
    /\ UNCHANGED <<refcount, relFlag, isDisconnect, portVars, mgrVars,
                   localVars>>

PushIndex(t) ==
    /\ pc[t] = "push" /\ Goto(t, "cntDec")
    /\ slotFree' = 1
    /\ UNCHANGED <<slotVars, sendVars, portVars, sessionCnt, lastSid, app,
                   localVars>>

DecSessionCnt(t) ==
    /\ pc[t] = "cntDec" /\ Goto(t, "postRel")
    /\ sessionCnt' = sessionCnt - 1
    /\ UNCHANGED <<slotVars, sendVars, portVars, slotFree, lastSid, app,
                   localVars>>

PostRelease(t) ==
    /\ pc[t] = "postRel" /\ Return(t)
    /\ relMsgs' = [relMsgs EXCEPT ![arg[t]] = @ + 1]
    /\ arg' = [arg EXCEPT ![t] = 0]
    /\ UNCHANGED <<slotVars, sendVars, recvOl, sendOl, delaySend, mgrVars,
                   ctx, cur, pkt>>

-----------------------------------------------------------------------------
(* The accept thread: the capacity check, AcquireSession, stNetSession::    *)
(* Init, registration on the completion port, OnAccept, the first RecvPost. *)

Accept(t) ==
    /\ t = Acceptor /\ pc[t] = "idle"
    /\ lastSid < MaxSid                              \* bound
    /\ sessionCnt < 1
    /\ Goto(t, "acPop")
    /\ UNCHANGED <<slotVars, sendVars, portVars, mgrVars, localVars>>

PopIndex(t) ==
    /\ pc[t] = "acPop" /\ Goto(t, IF slotFree = 1 THEN "acCnt" ELSE "idle")
    /\ slotFree' = 0
    /\ UNCHANGED <<slotVars, sendVars, portVars, sessionCnt, lastSid, app,
                   localVars>>

IncSessionCnt(t) ==
    /\ pc[t] = "acCnt" /\ Goto(t, "acInc")
    /\ sessionCnt' = sessionCnt + 1
    /\ lastSid' = lastSid + 1
    /\ UNCHANGED <<slotVars, sendVars, portVars, slotFree, app, localVars>>

InitIncrement(t) == AddRef(t, "acInc", "acInit")

InitFields(t) ==
    /\ pc[t] = "acInit" /\ Goto(t, "acOpen")
    /\ sessionId' = lastSid /\ isDisconnect' = 0
    /\ UNCHANGED <<refcount, relFlag, isSending, sendVars, portVars, mgrVars,
                   localVars>>

\* The interlocked And that takes the release flag down.
InitOpen(t) ==
    /\ pc[t] = "acOpen" /\ Goto(t, "acReg")
    /\ relFlag' = 0
    /\ UNCHANGED <<refcount, sessionId, isDisconnect, isSending, sendVars,
                   portVars, mgrVars, localVars>>

\* CreateIoCompletionPort fails and the session is given up ...
RegisterFails(t) == Pass(t, "acReg", "dec")

\* ... or OnAccept runs.
Register(t) ==
    /\ pc[t] = "acReg" /\ Goto(t, "callback")
    /\ ctx' = [ctx EXCEPT ![t] = "accept"]
    /\ cur' = [cur EXCEPT ![t] = sessionId]
    /\ app' = [app EXCEPT ![sessionId] = "open"]
    /\ UNCHANGED <<slotVars, sendVars, portVars, slotFree, sessionCnt,
                   lastSid, arg, pkt>>

-----------------------------------------------------------------------------
(* What the content does, on a thread of its own or inside a callback: it   *)
(* calls Disconnect or SendPacket with any session id it has been told of,  *)
(* however old.  Stop reads the id straight from the slot.                  *)

Calling(t) == pc[t] = "callback" \/ (t \in Users /\ pc[t] = "idle")

CallDisconnect(t, s) ==
    /\ \/ Calling(t) /\ app[s] # "none"
       \/ t \in Users /\ pc[t] = "idle" /\ s = sessionId         \* Stop
    /\ arg' = [arg EXCEPT ![t] = s]
    /\ Goto(t, "dcInc")
    /\ UNCHANGED <<slotVars, sendVars, portVars, mgrVars, ctx, cur, pkt>>

\* SendPacket's first action is to add a reference to the packet.
CallSendPacket(t, s, p) ==
    /\ Calling(t) /\ app[s] # "none" /\ p \in pool
    /\ arg' = [arg EXCEPT ![t] = s] /\ pkt' = [pkt EXCEPT ![t] = p]
    /\ pool' = pool \ {p} /\ dest' = [dest EXCEPT ![p] = s]
    /\ Goto(t, "spInc")
    /\ UNCHANGED <<slotVars, sendQ, sendPackets, portVars, mgrVars, ctx, cur>>

\* OnAccept goes on to the first RecvPost, OnMessage back to the parse loop.
EndCallback(t) ==
    /\ pc[t] = "callback"
    /\ Goto(t, IF ctx[t] = "accept" THEN "rpCheck" ELSE "parse")
    /\ ctx' = [ctx EXCEPT ![t] = "none"]
    /\ cur' = [cur EXCEPT ![t] = 0]
    /\ UNCHANGED <<slotVars, sendVars, portVars, mgrVars, arg, pkt>>

-----------------------------------------------------------------------------
(* CServer::Disconnect                                                      *)

DisconnectIncrement(t) ==
    AddRef(t, "dcInc", IF relFlag = 1 THEN "dec" ELSE "dcCheck")

DisconnectCheck(t) ==
    IF sessionId = arg[t] THEN SetDisconnect(t, "dcCheck", "dcCancelSend")
                          ELSE Pass(t, "dcCheck", "dec")

DisconnectCancelSend(t) == CancelSendStep(t, "dcCancelSend", "cancelRecvDec")

\* Cancel the receive, then DecrementRefcount: the end of Disconnect, and of
\* SendPacket when sendQ is full.
CancelRecvAndDec(t) == CancelRecvStep(t, "cancelRecvDec", "dec")

-----------------------------------------------------------------------------
(* CServer::SendPacket                                                      *)

SendPacketIncrement(t) ==
    /\ pc[t] = "spInc"
    /\ refcount' = refcount + 1
    /\ IF relFlag = 1 THEN Drop(t)
                  ELSE Goto(t, "spCheck") /\ UNCHANGED <<pool, dest, pkt>>
    /\ UNCHANGED <<relFlag, sessionId, isDisconnect, isSending, sendQ,
                   sendPackets, portVars, mgrVars, ctx, arg, cur>>

SendPacketCheck(t) ==
    /\ pc[t] = "spCheck"
    /\ IF sessionId # arg[t] \/ isDisconnect = 1
         THEN Drop(t)
         ELSE Goto(t, "spEnq") /\ UNCHANGED <<pool, dest, pkt>>
    /\ UNCHANGED <<slotVars, sendQ, sendPackets, portVars, mgrVars, ctx, arg,
                   cur>>

SendPacketEnqueue(t) ==
    /\ pc[t] = "spEnq"
    /\ IF Len(sendQ) <= SendQMax
         THEN /\ sendQ' = Append(sendQ, pkt[t])
              /\ Goto(t, "spExch") /\ UNCHANGED <<pool, dest>>
         ELSE /\ Free({pkt[t]})
              /\ Goto(t, "spFull") /\ UNCHANGED sendQ
    /\ pkt' = [pkt EXCEPT ![t] = NoPacket]
    /\ UNCHANGED <<slotVars, sendPackets, portVars, mgrVars, ctx, arg, cur>>

SendPacketFull(t) == SetDisconnect(t, "spFull", "cancelRecvDec")

SendPacketExchange(t) ==
    SetSending(t, "spExch", 1, IF isSending = 1 THEN "dec" ELSE "spDisc")

\* The reference and the right to send travel with the DELAYSEND message.
SendPacketPost(t) ==
    \/ isDisconnect = 1 /\ Pass(t, "spDisc", "sendOff")
    \/ /\ isDisconnect = 0 /\ pc[t] = "spDisc" /\ Return(t)
       /\ delaySend' = delaySend + 1
       /\ arg' = [arg EXCEPT ![t] = 0]
       /\ UNCHANGED <<slotVars, sendVars, recvOl, sendOl, relMsgs, mgrVars,
                      ctx, cur, pkt>>

\* isSending = 0, then DecrementRefcount: every way of giving up the right
\* to send once a disconnect has been seen.
SendOff(t) == SetSending(t, "sendOff", 0, "dec")

-----------------------------------------------------------------------------
(* stNetSession::SendPost                                                   *)

SendPostEmpty(t) == Test(t, "stEmpty", sendQ = <<>>, "stOff", "stTake")
SendPostOff(t) == SetSending(t, "stOff", 0, "stEmpty2")
SendPostEmptyAgain(t) == Test(t, "stEmpty2", sendQ = <<>>, "dec", "stOn")
SendPostOn(t) ==
    SetSending(t, "stOn", 1, IF isSending = 1 THEN "dec" ELSE "stDisc")
SendPostDisc(t) == Test(t, "stDisc", isDisconnect = 1, "sendOff", "stTake")

\* TRY_SEND: at most WsabufMax packets; an empty queue is checked once more
\* after isSending went to 0.
SendPostTake(t) ==
    /\ pc[t] = "stTake"
    /\ LET n == IF Len(sendQ) < WsabufMax THEN Len(sendQ) ELSE WsabufMax
       IN  IF n = 0
             THEN Goto(t, "stOff") /\ UNCHANGED <<sendQ, sendPackets>>
             ELSE /\ sendPackets' = SubSeq(sendQ, 1, n)
                  /\ sendQ' = SubSeq(sendQ, n + 1, Len(sendQ))
                  /\ Goto(t, "stPost")
    /\ UNCHANGED <<slotVars, pool, dest, portVars, mgrVars, localVars>>

\* WSASend is accepted: its completion owns the reference and the right ...
SendPostSend(t) ==
    /\ pc[t] = "stPost" /\ Goto(t, "stAgain")
    /\ sendOl' = "pending"
    /\ cur' = [cur EXCEPT ![t] = sessionId]
    /\ UNCHANGED <<slotVars, sendVars, recvOl, delaySend, relMsgs, mgrVars,
                   ctx, arg, pkt>>

\* ... or it fails, here or (scFail) in its completion: the packets are freed
\* and the session is doomed.
SendFailed(t) ==
    /\ pc[t] \in {"stPost", "scFail"} /\ Goto(t, "scCancelRecv")
    /\ Free(Range(sendPackets)) /\ sendPackets' = <<>>
    /\ isDisconnect' = 1
    /\ UNCHANGED <<refcount, relFlag, sessionId, isSending, sendQ, portVars,
                   mgrVars, localVars>>

\* "Without this the receive may hang for ever."
SendFailedCancelRecv(t) == CancelRecvStep(t, "scCancelRecv", "sendOff")

\* Return from SendPost or RecvPost after the operation was accepted, unless
\* isDisconnect has been raised meanwhile.
SendPostAgain(t) ==
    \/ isDisconnect = 1 /\ Pass(t, "stAgain", "stInc")
    \/ /\ isDisconnect = 0 /\ pc[t] = "stAgain" /\ Return(t)
       /\ cur' = [cur EXCEPT ![t] = 0]
       /\ UNCHANGED <<slotVars, sendVars, portVars, mgrVars, ctx, arg, pkt>>

SendPostIncrement(t) == AddRef(t, "stInc", "stVerify")

\* The flag and the id are read again under the new reference; only this
\* session's send is cancelled.
SendPostVerify(t) ==
    /\ pc[t] = "stVerify" /\ Goto(t, "dec")
    /\ IF relFlag = 0 /\ sessionId = cur[t] THEN CancelSend ELSE UNCHANGED sendOl
    /\ cur' = [cur EXCEPT ![t] = 0]
    /\ UNCHANGED <<slotVars, sendVars, recvOl, delaySend, relMsgs, mgrVars,
                   ctx, arg, pkt>>

-----------------------------------------------------------------------------
(* stNetSession::RecvPost                                                   *)

RecvPostCheck(t) == Test(t, "rpCheck", isDisconnect = 1, "dec", "rpPost")

RecvPostRecv(t) ==
    /\ pc[t] = "rpPost" /\ Goto(t, "rpAgain")
    /\ recvOl' = "pending"
    /\ cur' = [cur EXCEPT ![t] = sessionId]
    /\ UNCHANGED <<slotVars, sendVars, sendOl, delaySend, relMsgs, mgrVars,
                   ctx, arg, pkt>>

RecvPostFails(t) == SetDisconnect(t, "rpPost", "cancelSendDec")

RecvPostAgain(t) ==
    \/ isDisconnect = 1 /\ Pass(t, "rpAgain", "rpInc")
    \/ /\ isDisconnect = 0 /\ pc[t] = "rpAgain" /\ Return(t)
       /\ cur' = [cur EXCEPT ![t] = 0]
       /\ UNCHANGED <<slotVars, sendVars, portVars, mgrVars, ctx, arg, pkt>>

RecvPostIncrement(t) == AddRef(t, "rpInc", "rpVerify")

RecvPostVerify(t) ==
    /\ pc[t] = "rpVerify" /\ Goto(t, "dec")
    /\ IF relFlag = 0 /\ sessionId = cur[t] THEN CancelRecv ELSE UNCHANGED recvOl
    /\ cur' = [cur EXCEPT ![t] = 0]
    /\ UNCHANGED <<slotVars, sendVars, sendOl, delaySend, relMsgs, mgrVars,
                   ctx, arg, pkt>>

-----------------------------------------------------------------------------
(* The worker loop: one message of the completion port at a time.           *)

GetDelaySend(t) ==
    /\ t \in Workers /\ pc[t] = "idle" /\ delaySend > 0
    /\ delaySend' = delaySend - 1
    /\ Goto(t, "stEmpty")
    /\ UNCHANGED <<slotVars, sendVars, recvOl, sendOl, relMsgs, mgrVars,
                   localVars>>

\* OnRelease tells the content that the id is gone.
GetRelease(t, s) ==
    /\ t \in Workers /\ pc[t] = "idle" /\ relMsgs[s] > 0
    /\ relMsgs' = [relMsgs EXCEPT ![s] = @ - 1]
    /\ app' = [app EXCEPT ![s] = "released"]
    /\ UNCHANGED <<slotVars, sendVars, recvOl, sendOl, delaySend, slotFree,
                   sessionCnt, lastSid, pc, localVars>>

\* "fail" stands for a completion with no byte or with fewer than were sent.
GetSend(t) ==
    /\ t \in Workers /\ pc[t] = "idle" /\ sendOl \in {"done", "fail"}
    /\ sendOl' = "none"
    /\ Goto(t, IF sendOl = "done" THEN "scFree" ELSE "scFail")
    /\ UNCHANGED <<slotVars, sendVars, recvOl, delaySend, relMsgs, mgrVars,
                   localVars>>

SendDone(t) ==
    /\ pc[t] = "scFree" /\ Goto(t, "scOff")
    /\ Free(Range(sendPackets)) /\ sendPackets' = <<>>
    /\ UNCHANGED <<slotVars, sendQ, portVars, mgrVars, localVars>>

SendDoneOff(t) == SetSending(t, "scOff", 0, "scOn")
SendDoneOn(t) ==
    SetSending(t, "scOn", 1, IF isSending = 1 THEN "dec" ELSE "scDisc")
SendDoneDisc(t) == Test(t, "scDisc", isDisconnect = 1, "sendOff", "stEmpty")

\* A receive of no bytes dooms the session; one with bytes is parsed unless
\* the session is doomed already.
GetRecv(t) ==
    /\ t \in Workers /\ pc[t] = "idle" /\ recvOl \in {"data", "zero"}
    /\ recvOl' = "none"
    /\ IF recvOl = "zero"
         THEN isDisconnect' = 1 /\ Goto(t, "cancelSendDec")
         ELSE Goto(t, "rcCheck") /\ UNCHANGED isDisconnect
    /\ UNCHANGED <<refcount, relFlag, sessionId, isSending, sendVars, sendOl,
                   delaySend, relMsgs, mgrVars, localVars>>

RecvCheck(t) == Test(t, "rcCheck", isDisconnect = 1, "dec", "parse")

\* A complete message with a good header.
ParseMessage(t) ==
    /\ pc[t] = "parse" /\ Goto(t, "callback")
    /\ ctx' = [ctx EXCEPT ![t] = "message"]
    /\ cur' = [cur EXCEPT ![t] = sessionId]
    /\ UNCHANGED <<slotVars, sendVars, portVars, mgrVars, arg, pkt>>

\* A bad header or an impossible length.
ParseBad(t) == SetDisconnect(t, "parse", "cancelSendDec")

\* IncreaseRecvCntForMessage refuses another fragment: the receive is not
\* posted again, and that is all.
ParseTooSlow(t) == Pass(t, "parse", "dec")

ParseMore(t) == Pass(t, "parse", "rpCheck")

CancelSendAndDec(t) == CancelSendStep(t, "cancelSendDec", "dec")

-----------------------------------------------------------------------------
(* The kernel and the peer: an operation in the kernel may complete.        *)

RecvCompletes ==
    /\ recvOl = "pending" /\ recvOl' \in {"data", "zero"}
    /\ UNCHANGED <<slotVars, sendVars, sendOl, delaySend, relMsgs, mgrVars,
                   pc, localVars>>

SendCompletes ==
    /\ sendOl = "pending" /\ sendOl' \in {"done", "fail"}
    /\ UNCHANGED <<slotVars, sendVars, recvOl, delaySend, relMsgs, mgrVars,
                   pc, localVars>>

-----------------------------------------------------------------------------
ReleaseStep(t) ==
    \/ DecrementRefcount(t) \/ ReleaseCas(t) \/ Clear(t)
    \/ PushIndex(t) \/ DecSessionCnt(t) \/ PostRelease(t)

AcceptStep(t) ==
    \/ PopIndex(t) \/ IncSessionCnt(t) \/ InitIncrement(t) \/ InitFields(t)
    \/ InitOpen(t) \/ RegisterFails(t) \/ Register(t)

ApiStep(t) ==
    \/ DisconnectIncrement(t) \/ DisconnectCheck(t) \/ DisconnectCancelSend(t)
    \/ CancelRecvAndDec(t)
    \/ SendPacketIncrement(t) \/ SendPacketCheck(t) \/ SendPacketEnqueue(t)
    \/ SendPacketFull(t) \/ SendPacketExchange(t) \/ SendPacketPost(t)
    \/ SendOff(t)

SendPostStep(t) ==
    \/ SendPostEmpty(t) \/ SendPostOff(t) \/ SendPostEmptyAgain(t)
    \/ SendPostOn(t) \/ SendPostDisc(t) \/ SendPostTake(t) \/ SendPostSend(t)
    \/ SendFailed(t) \/ SendFailedCancelRecv(t)
    \/ SendPostAgain(t) \/ SendPostIncrement(t) \/ SendPostVerify(t)

RecvPostStep(t) ==
    \/ RecvPostCheck(t) \/ RecvPostRecv(t) \/ RecvPostFails(t)
    \/ RecvPostAgain(t) \/ RecvPostIncrement(t) \/ RecvPostVerify(t)

CompletionStep(t) ==
    \/ SendDone(t) \/ SendDoneOff(t) \/ SendDoneOn(t) \/ SendDoneDisc(t)
    \/ RecvCheck(t) \/ CancelSendAndDec(t)

ParseEnd(t) == ParseBad(t) \/ ParseTooSlow(t) \/ ParseMore(t)

\* What a thread that is inside the library does next.
LibStep(t) ==
    \/ ReleaseStep(t) \/ AcceptStep(t) \/ ApiStep(t) \/ SendPostStep(t)
    \/ RecvPostStep(t) \/ CompletionStep(t)

CallStep(t) ==
    \E s \in Sids :
        CallDisconnect(t, s) \/ \E p \in Packets : CallSendPacket(t, s, p)

GetStep(t) ==
    \/ GetDelaySend(t) \/ GetSend(t) \/ GetRecv(t)
    \/ \E s \in Sids : GetRelease(t, s)

Next ==
    \/ \E t \in Threads :
          \/ LibStep(t) \/ Accept(t) \/ GetStep(t) \/ CallStep(t)
          \/ EndCallback(t) \/ ParseMessage(t) \/ ParseEnd(t)
    \/ RecvCompletes \/ SendCompletes

Spec == Init /\ [][Next]_vars

-----------------------------------------------------------------------------
(* Invariants                                                               *)

TypeOK ==
    /\ refcount \in Nat /\ relFlag \in {0, 1} /\ sessionId \in 0 .. MaxSid
    /\ isDisconnect \in {0, 1} /\ isSending \in {0, 1}
    /\ sendQ \in Seq(Packets) /\ sendPackets \in Seq(Packets)
    /\ recvOl \in {"none", "pending", "data", "zero"}
    /\ sendOl \in {"none", "pending", "done", "fail"}
    /\ delaySend \in Nat /\ relMsgs \in [Sids -> Nat]
    /\ slotFree \in {0, 1} /\ sessionCnt \in Int /\ lastSid \in 0 .. MaxSid
    /\ pool \in SUBSET Packets /\ dest \in [Packets -> 0 .. MaxSid]
    /\ app \in [Sids -> {"none", "open", "released"}]
    /\ pc \in [Threads -> RefPcs \cup NoRefPcs]
    /\ ctx \in [Threads -> {"none", "accept", "message"}]
    /\ arg \in [Threads -> 0 .. MaxSid] /\ cur \in [Threads -> 0 .. MaxSid]
    /\ pkt \in [Threads -> Packets \cup {NoPacket}]

One(b) == IF b THEN 1 ELSE 0
InUse(ol) == IF ol = "none" THEN 0 ELSE 1
Count(f, S) == Cardinality({t \in Threads : f[t] \in S})
Callbacks == {"accept", "message"}

\* The reference count is the number of owners: threads at a place that owns
\* one, callbacks (of the receive chain, or of Init), the two overlapped
\* operations, the queued DELAYSEND messages.  It fails when some path
\* decrements twice or not at all.
RefcountIsOwners ==
    refcount = Count(pc, RefPcs) + Count(ctx, Callbacks)
               + InUse(recvOl) + InUse(sendOl) + delaySend

\* While the release flag is up nobody works on the session: no thread that
\* passed its flag check, no callback, no operation in the kernel or on the
\* port, no DELAYSEND.
NobodyOnReleased ==
    relFlag = 1 =>
        /\ \A t \in Threads : pc[t] \notin StrongRefPcs /\ ctx[t] = "none"
        /\ recvOl = "none" /\ sendOl = "none" /\ delaySend = 0

\* isSending is a lock handed from thread to message to operation: it is 1
\* exactly while one of them has it, so two WSASends never overlap.
SendRightUnique ==
    isSending = Count(pc, SendRightPcs) + InUse(sendOl) + delaySend

\* The receive side of a session is in one hand: a thread that parses or is
\* about to post, a callback, or the operation; a buffer is never parsed by
\* two workers, and recvOl is never posted twice.
RecvChainUnique ==
    Count(pc, RecvChainPcs) + Count(ctx, Callbacks) + InUse(recvOl) <= 1

\* What is queued or being sent was addressed to the session that sends it,
\* though callers use ids of sessions that are gone.
PacketsToOwnSession ==
    \A p \in Range(sendQ) \cup Range(sendPackets) : dest[p] = sessionId

\* Every packet reference is in exactly one place, once: freed, with the
\* thread inside SendPacket, in sendQ, or in sendPackets.  It fails on a
\* leak and on a second free.
PacketsConserved ==
    \A p \in Packets :
        One(p \in pool) + Cardinality({t \in Threads : pkt[t] = p})
        + Cardinality({i \in DOMAIN sendQ : sendQ[i] = p})
        + Cardinality({i \in DOMAIN sendPackets : sendPackets[i] = p}) = 1

\* A packet never waits in sendQ of a live session without somebody who is
\* sending or is bound to look at the queue again.
WakePcs == {"spExch", "stEmpty2", "stOn", "scOn"}
NoLostWakeup ==
    (sendQ # <<>> /\ isSending = 0 /\ isDisconnect = 0 /\ relFlag = 0) =>
        \E t \in Threads : pc[t] \in WakePcs

\* The accept thread trusts the session count: when it is below the maximum
\* an index is on the stack.
PopNeverFails == pc[Acceptor] = "acPop" => slotFree = 1

\* "From here on the session id does not change, because release is
\* impossible": past its check a call works on the session it was made for,
\* and a callback runs for the session in the slot.
CheckedPcs == {"dcCancelSend", "spEnq", "spFull", "spExch", "spDisc"}
CallsOnOwnSession ==
    \A t \in Threads : pc[t] \in CheckedPcs => arg[t] = sessionId
CallbacksOfOpenSession ==
    \A t \in Threads :
        ctx[t] # "none" => cur[t] = sessionId /\ app[sessionId] = "open"
IdStableUnderRef == CallsOnOwnSession /\ CallbacksOfOpenSession

\* While the flag is up the slot is in one hand too: on the stack, with the
\* thread that clears it, or with the accept thread.
SlotOwnerUnique == relFlag = slotFree + Count(pc, SlotPcs)

\* The session count lags behind the index stack by the threads that are
\* between popping an index and counting it, or between pushing and counting.
SessionCntExact ==
    sessionCnt = 1 - slotFree - Count(pc, {"acCnt"})
                 + Count(pc, {"cntDec"})

\* Where a thread is fits the callback it runs and the packet it holds, and
\* only the accept thread accepts.
ThreadsInPlace ==
    \A t \in Threads :
        /\ pc[t] = "callback" => ctx[t] # "none"
        /\ ctx[t] # "none" => pc[t] \in ApiPcs
        /\ pc[t] \in {"spInc", "spCheck", "spEnq"} => pkt[t] \in Packets
        /\ pc[t] \in {"acPop", "acCnt", "acInc", "acInit", "acOpen", "acReg"}
             => t = Acceptor
        /\ pc[t] \in {"acPop", "acCnt"} => lastSid < MaxSid

\* The inductive invariant behind the theorems of NetSessionProofs: the
\* counts above, closed under every step.
IInv == /\ TypeOK /\ RefcountIsOwners /\ NobodyOnReleased /\ SendRightUnique
        /\ RecvChainUnique /\ SlotOwnerUnique /\ SessionCntExact
        /\ PopNeverFails /\ ThreadsInPlace

\* A packet in the hand of a thread is on its way through SendPacket, for
\* the session the call was made for.
CarryPcs == {"spInc", "spCheck", "spEnq"}
PacketInHand ==
    \A t \in Threads :
        pkt[t] # NoPacket => pc[t] \in CarryPcs /\ dest[pkt[t]] = arg[t]

\* Who gives up the right to send without another look at sendQ has seen,
\* or raised, isDisconnect.
DoomSeen ==
    \A t \in Threads : pc[t] \in {"sendOff", "scCancelRecv"} => isDisconnect = 1

\* sendPackets is filled only while its WSASend is being made, in the kernel,
\* or completed and not yet handled.
BatchPcs == {"stPost", "scFree", "scFail"}
BatchInFlight ==
    sendPackets # <<>> =>
        sendOl # "none" \/ \E t \in Threads : pc[t] \in BatchPcs

\* A slot without a session has an empty sendQ once it has been cleared.
ReleasedQueueEmpty ==
    relFlag = 1 => sendQ = <<>> \/ \E t \in Threads : pc[t] = "clear"

\* What is inductive about the send side, together with IInv.
SendIInv == /\ PacketsConserved /\ PacketsToOwnSession /\ NoLostWakeup
            /\ PacketInHand /\ DoomSeen /\ BatchInFlight
            /\ ReleasedQueueEmpty /\ CallsOnOwnSession

\* The callbacks the content sees follow the contract.
EndedSids ==
    {s \in Sids : \/ s < lastSid
                  \/ /\ s = lastSid /\ relFlag = 1
                     /\ pc[Acceptor] \notin {"acInc", "acInit", "acOpen"}}
RunningSids == {cur[t] : t \in {u \in Threads : ctx[u] # "none"}}
Contract == INSTANCE SessionContract
              WITH running <- RunningSids, ended <- EndedSids
ContractSpec == Contract!Spec

\* The session in the slot is the last one accepted.
LatestInSlot ==
    /\ relFlag = 0 => sessionId = lastSid /\ lastSid >= 1
    /\ pc[Acceptor] \in {"acInc", "acInit", "acOpen"} => lastSid >= 1
    /\ pc[Acceptor] = "acOpen" => sessionId = lastSid

\* The content hears nothing of a session before its OnAccept.
NotToldPcs == {"acInc", "acInit", "acOpen", "acReg"}
NotToldBefore ==
    \A s \in Sids :
        (s > lastSid \/ (s = lastSid /\ pc[Acceptor] \in NotToldPcs))
            => app[s] = "none"

\* Whoever parses or receives does so after OnAccept and before OnRelease.
OpenWhileReceiving ==
    (recvOl # "none" \/ \E t \in Threads : pc[t] \in RecvChainPcs \ {"acReg"})
        => app[sessionId] = "open"

\* One release runs for a session that has ended, and only one: it is a
\* thread in Release, a RELEASE message, or the OnRelease there has been.
ReleasePcs == {"clear", "push", "cntDec", "postRel"}
Releasing == [t \in Threads |-> IF pc[t] \in ReleasePcs THEN arg[t] ELSE 0]
Releases(s) == Count(Releasing, {s}) + relMsgs[s] + One(app[s] = "released")
ReleasedOnce ==
    \A s \in Sids : Releases(s) <= One(s \in EndedSids)

\* What is inductive about the contract, together with IInv.
ContractIInv == /\ CallbacksOfOpenSession /\ LatestInSlot /\ NotToldBefore
                /\ OpenWhileReceiving /\ ReleasedOnce

-----------------------------------------------------------------------------
(* Liveness.  A thread inside the library keeps running; a callback returns *)
(* and a receive buffer is parsed to its end; the completion port hands out *)
(* what is queued (it is first-in first-out, hence strong fairness).        *)
(* Nothing is assumed of the peer, of the content's calls, or of accept.    *)

LibFairness ==
    /\ \A t \in Threads : WF_vars(LibStep(t))
    /\ \A t \in Workers \cup {Acceptor} : SF_vars(EndCallback(t))
    /\ \A t \in Workers : SF_vars(ParseEnd(t))
    /\ SF_vars(\E t \in Workers : GetDelaySend(t))
    /\ SF_vars(\E t \in Workers : GetSend(t))
    /\ SF_vars(\E t \in Workers : GetRecv(t))
    /\ SF_vars(\E t \in Workers, s \in Sids : GetRelease(t, s))

LiveSpec == Spec /\ LibFairness

\* The peer keeps reading: an operation in the kernel completes.
PeerReads == WF_vars(SendCompletes)

\* A Disconnect that finds its session gets it released and OnRelease
\* called, though the peer neither reads nor writes.
DisconnectReleases ==
    \A s \in Sids :
        (\E t \in Threads : pc[t] = "dcCancelSend" /\ arg[t] = s)
            ~> app[s] = "released"

\* So does a receive or a send that fails.
BrokenConnectionReleases ==
    \A s \in Sids :
        (sessionId = s /\ (recvOl = "zero" \/ sendOl = "fail"))
            ~> app[s] = "released"

\* Whoever raises isDisconnect, the session is released.
RaisedReleases ==
    \A s \in Sids :
        (sessionId = s /\ isDisconnect = 1 /\ relFlag = 0) ~> app[s] = "released"

\* With a peer that reads, every packet SendPacket queued is sent or freed.
QueuedPacketsLeave ==
    PeerReads => \A p \in Packets : p \in Range(sendQ) ~> p \in pool

=============================================================================
