---------------------------- MODULE ZoneMembers ----------------------------
(***************************************************************************)
(* The sessions of zones (ZoneManager.cpp, Zone.cpp, ZoneServer.cpp):      *)
(* entering, moving and leaving, the jobs that carry them, and the messages *)
(* a zone takes out of its sessions' receive queues.  A zone runs one tick  *)
(* at a time (ZoneLife!TickAlone), so the zone stands for the thread that   *)
(* runs its tick.  A session is released when its last reference goes, and  *)
(* by nobody else (NetSession!NobodyOnReleased), so the two are one step.   *)
(* The module has the operations; what a zone does in its callbacks is the  *)
(* content's (EchoServer).                                                  *)
(***************************************************************************)
EXTENDS Naturals, SequencesExt

CONSTANTS Sessions,   \* session ids
          Zones,
          NoZone,     \* zone id 0
          NoSession

Receive == "receive"    \* the reference of the receive operation

ASSUME MembersAssumption ==
    NoZone \notin Zones /\ NoSession \notin Sessions /\ Receive \notin Zones

VARIABLES
    \* stZoneSession: zoneId, userPtr (whether it is set), isDisconnect, the
    \* holders of references, recvedPackets
    zoneId, userPtr, isDisconnect, refs, recvedPackets,
    leaving,            \* session -> zone its release has yet to tell
    \* CZone: _jobQueue, _sessions
    jobQueue, sessions,
    tick                \* zone -> place in TickUpdate and its locals

sessionVars == <<zoneId, userPtr, isDisconnect, refs, recvedPackets, leaving>>
memberVars == <<sessionVars, jobQueue, sessions, tick>>

Garbage == "garbage"    \* a message that is not one

\* Where a tick is: jobs left to run, sessions left to look at, the session
\* it holds, its message, and the zone it moved from.
Idle == [pc |-> "idle", left |-> 0, todo |-> {}, sid |-> NoSession, msg |-> Garbage, from |-> NoZone]

InitMembers ==
    /\ zoneId = [s \in Sessions |-> NoZone]
    /\ userPtr = [s \in Sessions |-> FALSE]
    /\ isDisconnect = [s \in Sessions |-> FALSE]
    /\ refs = [s \in Sessions |-> {}]
    /\ recvedPackets = [s \in Sessions |-> <<>>]
    /\ leaving = [s \in Sessions |-> NoZone]
    /\ jobQueue = [z \in Zones |-> <<>>]
    /\ sessions = [z \in Zones |-> {}]
    /\ tick = [z \in Zones |-> Idle]

\* CReferenceZoneSession of a session: there is one, and nobody cut it off.
IsAlive(s) == refs[s] # {} /\ ~isDisconnect[s]

EnterJob(s, player) == [kind |-> "enter", sid |-> s, player |-> player]
LeaveJob(s, delete) == [kind |-> "leave", sid |-> s, delete |-> delete]

PushJob(z, job) == jobQueue' = [jobQueue EXCEPT ![z] = Append(@, job)]
Goto(z, l) == tick' = [tick EXCEPT ![z].pc = l]

\* Disconnect of live sessions; the receive is cancelled with the flag.
Disconnect(S) ==
    isDisconnect' = [s \in Sessions |-> isDisconnect[s] \/ (s \in S /\ refs[s] # {})]

-----------------------------------------------------------------------------
(* Faulty variants of definitions below.  No specification uses them.       *)

\* ReleaseSession reads zoneId after Clear.
GiveBack_ClearFirst(s, r) ==
    LET last == refs[s] = {r} IN
    /\ refs' = [refs EXCEPT ![s] = @ \ {r}]
    /\ zoneId' = [zoneId EXCEPT ![s] = IF last THEN NoZone ELSE @]
    /\ userPtr' = [userPtr EXCEPT ![s] = @ /\ ~last]
    /\ recvedPackets' = [recvedPackets EXCEPT ![s] = IF last THEN <<>> ELSE @]
    /\ UNCHANGED leaving

\* One job too few is taken, so one always waits for the next.
TickBegins_OneShort(z) ==
    /\ tick[z].pc = "idle"
    /\ tick' = [tick EXCEPT ![z].pc = "jobs",
                            ![z].left = IF jobQueue[z] = <<>> THEN 0 ELSE Len(jobQueue[z]) - 1]
    /\ UNCHANGED <<sessionVars, jobQueue, sessions>>

\* The zone left is told to delete the player.
MoveLeave_Deletes(z) ==
    /\ tick[z].pc = "moveLeave"
    /\ PushJob(tick[z].from, LeaveJob(tick[z].sid, TRUE))
    /\ Goto(z, "look")
    /\ UNCHANGED <<sessionVars, sessions>>

-----------------------------------------------------------------------------
(* Sessions.                                                                *)

\* EnterZone in OnAccept, before the first receive: nobody else has the id.
EnterZone(s, z) ==
    /\ refs[s] = {} /\ ~isDisconnect[s]     \* not accepted yet
    /\ refs' = [refs EXCEPT ![s] = {Receive}]
    /\ zoneId' = [zoneId EXCEPT ![s] = z]
    /\ PushJob(z, EnterJob(s, userPtr[s]))
    /\ UNCHANGED <<userPtr, isDisconnect, recvedPackets, leaving, sessions, tick>>

\* DecrementRefcount; who gives back the last reference keeps the zone's id
\* and clears the session, ReleaseSession.
GiveBack(s, r) ==
    LET last == refs[s] = {r} IN
    /\ refs' = [refs EXCEPT ![s] = @ \ {r}]
    /\ leaving' = [leaving EXCEPT ![s] = IF last THEN zoneId[s] ELSE @]
    /\ zoneId' = [zoneId EXCEPT ![s] = IF last THEN NoZone ELSE @]
    /\ userPtr' = [userPtr EXCEPT ![s] = @ /\ ~last]
    /\ recvedPackets' = [recvedPackets EXCEPT ![s] = IF last THEN <<>> ELSE @]

\* A message is complete: into the queue of a session that is in a zone.
\* Of one that is not cut off: Received and ReceiveEnds.
Received(s, m) ==
    /\ Receive \in refs[s] /\ ~isDisconnect[s] /\ zoneId[s] # NoZone
    /\ recvedPackets' = [recvedPackets EXCEPT ![s] = Append(@, m)]
    /\ UNCHANGED <<zoneId, userPtr, isDisconnect, refs, leaving, jobQueue, sessions, tick>>

\* The receive completes with nothing, because the peer closed or the
\* operation was cancelled, and its reference goes.
ReceiveEnds(s) ==
    /\ Receive \in refs[s]
    /\ isDisconnect' = [isDisconnect EXCEPT ![s] = TRUE]
    /\ GiveBack(s, Receive)
    /\ UNCHANGED <<jobQueue, sessions, tick>>

\* The end of ReleaseSession, by the worker or the tick that began it.
LeaveZone(s) ==
    /\ leaving[s] # NoZone
    /\ PushJob(leaving[s], LeaveJob(s, TRUE))
    /\ leaving' = [leaving EXCEPT ![s] = NoZone]
    /\ tick' = [z \in Zones |->
                    IF tick[z].pc = "release" /\ tick[z].sid = s
                    THEN [tick[z] EXCEPT !.pc = "receive", !.sid = NoSession] ELSE tick[z]]
    /\ UNCHANGED <<zoneId, userPtr, isDisconnect, refs, recvedPackets, sessions>>

-----------------------------------------------------------------------------
(* TickUpdate.                                                              *)

\* As many jobs are run as there are now.
TickBegins(z) ==
    /\ tick[z].pc = "idle"
    /\ tick' = [tick EXCEPT ![z].pc = "jobs", ![z].left = Len(jobQueue[z])]
    /\ UNCHANGED <<sessionVars, jobQueue, sessions>>

HasJob(z, kind) ==
    /\ tick[z].pc = "jobs" /\ tick[z].left > 0
    /\ Head(jobQueue[z]).kind = kind

JobDone(z) == tick' = [tick EXCEPT ![z].left = @ - 1]

JobsDone(z) ==
    /\ tick[z].pc = "jobs" /\ tick[z].left = 0
    /\ tick' = [tick EXCEPT ![z].pc = "receive", ![z].todo = sessions[z]]
    /\ UNCHANGED <<sessionVars, jobQueue, sessions>>

\* The next session, if it is alive, ...
TakeSession(z, s) ==
    /\ tick[z].pc = "receive" /\ s \in tick[z].todo
    /\ IF IsAlive(s)
       THEN /\ refs' = [refs EXCEPT ![s] = @ \cup {z}]
            /\ tick' = [tick EXCEPT ![z].pc = "look", ![z].sid = s, ![z].todo = @ \ {s}]
       ELSE /\ tick' = [tick EXCEPT ![z].todo = @ \ {s}]
            /\ UNCHANGED refs
    /\ UNCHANGED <<zoneId, userPtr, isDisconnect, recvedPackets, leaving, jobQueue, sessions>>

\* ... has a message: its length is read, and then it is taken out.
Look(z) ==
    /\ tick[z].pc = "look" /\ recvedPackets[tick[z].sid] # <<>>
    /\ tick' = [tick EXCEPT ![z].pc = "take", ![z].msg = Head(recvedPackets[tick[z].sid])]
    /\ UNCHANGED <<sessionVars, jobQueue, sessions>>

\* The ring has no lock for two readers.  If another zone took the message
\* in between, this one takes it too or takes garbage, and the read pointer
\* may be set back or run past the write pointer, to garbage again; bound:
\* that is not left by garbage.
Take(z) ==
    LET s == tick[z].sid
        queue == recvedPackets[s] IN
    /\ tick[z].pc = "take"
    /\ \/ /\ queue # <<>>
          /\ tick' = [tick EXCEPT ![z].pc = "handle", ![z].msg = Head(queue)]
          /\ recvedPackets' = [recvedPackets EXCEPT ![s] = Tail(@)]
       \/ /\ queue = <<>>
          /\ \E m \in {tick[z].msg, Garbage} :
                tick' = [tick EXCEPT ![z].pc = "handle", ![z].msg = m]
          /\ \E rest \in {<<>>, <<Garbage>>} :
                /\ tick[z].msg = Garbage => rest = <<>>
                /\ recvedPackets' = [recvedPackets EXCEPT ![s] = rest]
    /\ UNCHANGED <<zoneId, userPtr, isDisconnect, refs, leaving, jobQueue, sessions>>

\* There is none: the reference is given back, and the session released if
\* it was the last.
Drained(z) ==
    LET s == tick[z].sid IN
    /\ tick[z].pc = "look" /\ recvedPackets[s] = <<>>
    /\ tick' = [tick EXCEPT ![z].msg = Garbage,
                            ![z].pc = IF refs[s] = {z} THEN "release" ELSE "receive",
                            ![z].sid = IF refs[s] = {z} THEN s ELSE NoSession]
    /\ GiveBack(s, z)
    /\ UNCHANGED <<isDisconnect, jobQueue, sessions>>

\* The rest of TickUpdate: OnUpdate, which is the content's, and the end.
TickEnds(z) ==
    /\ tick[z].pc = "receive" /\ tick[z].todo = {}
    /\ tick' = [tick EXCEPT ![z] = Idle]

\* MoveZone of the session whose message is handled: the session's zone is
\* exchanged, the new zone told and then the old one.
MoveCas(z, target) ==
    LET s == tick[z].sid IN
    /\ tick[z].pc = "move"
    /\ IF IsAlive(s)
       THEN /\ zoneId' = [zoneId EXCEPT ![s] = target]
            /\ tick' = [tick EXCEPT ![z].pc = "moveEnter", ![z].from = zoneId[s]]
       ELSE /\ Goto(z, "look")
            /\ UNCHANGED zoneId
    /\ UNCHANGED <<userPtr, isDisconnect, refs, recvedPackets, leaving, jobQueue, sessions>>

MoveEnter(z, target) ==
    /\ tick[z].pc = "moveEnter"
    /\ PushJob(target, EnterJob(tick[z].sid, userPtr[tick[z].sid]))
    /\ Goto(z, "moveLeave")
    /\ UNCHANGED <<sessionVars, sessions>>

MoveLeave(z) ==
    /\ tick[z].pc = "moveLeave"
    /\ PushJob(tick[z].from, LeaveJob(tick[z].sid, FALSE))
    /\ Goto(z, "look")
    /\ UNCHANGED <<sessionVars, sessions>>
=============================================================================
