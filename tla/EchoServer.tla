----------------------------- MODULE EchoServer -----------------------------
(***************************************************************************)
(* The zone echo server (EchoServer.cpp, Zone_Lobby.cpp, Zone_Echo.cpp) on *)
(* the zones of ZoneMembers: a session enters the lobby, logs in, and is   *)
(* moved to the echo zone.  Clients are patient: a client logs in once,    *)
(* waits for the answer, which the echo zone sends, and then has one echo  *)
(* under way at a time.  A heartbeat is an echo without an answer.         *)
(***************************************************************************)
EXTENDS ZoneMembers

CONSTANTS Lobby, Echo, Accounts, NoAccount

ASSUME EchoAssumption ==
    /\ Zones = {Lobby, Echo} /\ Lobby # Echo
    /\ NoAccount \notin Accounts

VARIABLES
    userMap,            \* CLobby, CEcho: _userMap
    user,               \* the CUser of a session: "none", "alloc", "freed"
    account,            \* its account number
    accountMap,         \* CLobby::_accountMap
    client              \* the peer: "silent", "waiting", "in", "asked"

vars == <<memberVars, userMap, user, account, accountMap, client>>

Init ==
    /\ InitMembers
    /\ userMap = [z \in Zones |-> {}]
    /\ user = [s \in Sessions |-> "none"]
    /\ account = [s \in Sessions |-> NoAccount]
    /\ accountMap = [a \in Accounts |-> NoSession]
    /\ client = [s \in Sessions |-> "silent"]

-----------------------------------------------------------------------------
(* Faulty variants of definitions below.  No specification uses them.       *)

\* The entry of an account is erased whoever it names.
ReleaseAccountNo_Anyones(a, s) ==
    [b \in Accounts |-> IF b = a THEN NoSession ELSE accountMap[b]]

-----------------------------------------------------------------------------
(* Connections.                                                             *)

OnAccept(s) ==
    /\ EnterZone(s, Lobby)
    /\ UNCHANGED <<userMap, user, account, accountMap, client>>

ClientSends(s, before, after, m) ==
    /\ client[s] = before
    /\ client' = [client EXCEPT ![s] = after]
    /\ Received(s, m)
    /\ UNCHANGED <<userMap, user, account, accountMap>>

SendLogin(s) == ClientSends(s, "silent", "waiting", "login")
SendEcho(s) == ClientSends(s, "in", "asked", "echo")

ConnectionEnds(s) ==
    /\ ReceiveEnds(s)
    /\ UNCHANGED <<userMap, user, account, accountMap, client>>

Release(s) ==
    /\ LeaveZone(s)
    /\ UNCHANGED <<userMap, user, account, accountMap, client>>

-----------------------------------------------------------------------------
(* Jobs.                                                                    *)

\* An answer that gets to its client.
Answer(s) == client' = [client EXCEPT ![s] = IF IsAlive(s) THEN "in" ELSE @]

ReleaseAccountNo(a, s) ==
    [b \in Accounts |-> IF b = a /\ accountMap[b] = s THEN NoSession ELSE accountMap[b]]

\* EnterFunc of the lobby and OnEnter: a user for the session, if it lives.
\* One that does not has its user in no map, and nobody frees it.
EnterLobby ==
    LET job == Head(jobQueue[Lobby])
        s == job.sid
        new == s \notin sessions[Lobby]
        known == new /\ (job.player \/ IsAlive(s)) IN
    /\ HasJob(Lobby, "enter")
    /\ jobQueue' = [jobQueue EXCEPT ![Lobby] = Tail(@)]
    /\ JobDone(Lobby)
    /\ sessions' = [sessions EXCEPT ![Lobby] = @ \cup {s}]
    /\ user' = [user EXCEPT ![s] = IF new /\ ~job.player THEN "alloc" ELSE @]
    /\ userPtr' = [userPtr EXCEPT ![s] = @ \/ known]
    /\ userMap' = [userMap EXCEPT ![Lobby] = IF known THEN @ \cup {s} ELSE @]
    /\ Disconnect(IF new /\ ~known THEN {s} ELSE {})
    /\ UNCHANGED <<zoneId, refs, recvedPackets, leaving, account, accountMap, client>>

\* EnterFunc of the echo zone and OnEnter, which stops the server if there
\* is no user.
EnterEcho ==
    LET job == Head(jobQueue[Echo])
        s == job.sid
        new == s \notin sessions[Echo] IN
    /\ HasJob(Echo, "enter") /\ (new => job.player)
    /\ jobQueue' = [jobQueue EXCEPT ![Echo] = Tail(@)]
    /\ JobDone(Echo)
    /\ sessions' = [sessions EXCEPT ![Echo] = @ \cup {s}]
    /\ userMap' = [userMap EXCEPT ![Echo] = @ \cup {s}]
    /\ IF new THEN Answer(s) ELSE UNCHANGED client
    /\ UNCHANGED <<sessionVars, user, account, accountMap>>

\* LeaveFunc and OnLeave: of a session that moved, only the entry goes.
Leave(z) ==
    LET job == Head(jobQueue[z])
        s == job.sid
        free == job.delete /\ s \in userMap[z]
        rest == [jobQueue EXCEPT ![z] = Tail(@)] IN
    /\ HasJob(z, "leave")
    /\ JobDone(z)
    /\ sessions' = [sessions EXCEPT ![z] = @ \ {s}]
    /\ userMap' = [userMap EXCEPT ![z] = @ \ {s}]
    /\ user' = [user EXCEPT ![s] = IF free THEN "freed" ELSE @]
    /\ IF free /\ z = Lobby
       THEN accountMap' = ReleaseAccountNo(account[s], s)
       ELSE UNCHANGED accountMap
    /\ jobQueue' = IF free /\ z = Echo
                   THEN [rest EXCEPT ![Lobby] =
                             Append(@, [kind |-> "account", sid |-> s, account |-> account[s]])]
                   ELSE rest
    /\ UNCHANGED <<sessionVars, account, client>>

\* The job CEcho::ReleaseAccountNo sent to the lobby.
RunReleaseAccountNo ==
    LET job == Head(jobQueue[Lobby]) IN
    /\ HasJob(Lobby, "account")
    /\ jobQueue' = [jobQueue EXCEPT ![Lobby] = Tail(@)]
    /\ JobDone(Lobby)
    /\ accountMap' = ReleaseAccountNo(job.account, job.sid)
    /\ UNCHANGED <<sessionVars, sessions, userMap, user, account, client>>

-----------------------------------------------------------------------------
(* Messages.                                                                *)

Handles(z, m) == tick[z].pc = "handle" /\ tick[z].msg = m

\* The session of a message that no handler of the zone takes, or that the
\* handler refuses (no user, a wrong length, an account kept for others or
\* not the user's), is disconnected; its other messages are looked at.
Refuse(z) ==
    /\ tick[z].pc = "handle"
    /\ Disconnect({tick[z].sid})
    /\ Goto(z, "look")
    /\ UNCHANGED <<zoneId, userPtr, refs, recvedPackets, leaving, jobQueue, sessions>>
    /\ UNCHANGED <<userMap, user, account, accountMap, client>>

\* Who was logged in with the account is thrown out.
RequestLogin(a) ==
    LET s == tick[Lobby].sid IN
    /\ Handles(Lobby, "login") /\ s \in userMap[Lobby]
    /\ accountMap' = [accountMap EXCEPT ![a] = s]
    /\ Disconnect({accountMap[a]})
    /\ account' = [account EXCEPT ![s] = a]
    /\ Goto(Lobby, "move")
    /\ UNCHANGED <<zoneId, userPtr, refs, recvedPackets, leaving, jobQueue, sessions>>
    /\ UNCHANGED <<userMap, user, client>>

MoveZone ==
    /\ \/ MoveCas(Lobby, Echo)
       \/ MoveEnter(Lobby, Echo)
       \/ MoveLeave(Lobby)
    /\ UNCHANGED <<userMap, user, account, accountMap, client>>

RequestEcho ==
    LET s == tick[Echo].sid IN
    /\ Handles(Echo, "echo") /\ s \in userMap[Echo]
    /\ Answer(s)
    /\ Goto(Echo, "look")
    /\ UNCHANGED <<sessionVars, jobQueue, sessions, userMap, user, account, accountMap>>

-----------------------------------------------------------------------------
\* OnUpdate: any users of the zone may have been silent for too long.
OnUpdate(z) ==
    /\ TickEnds(z)
    /\ \E S \in SUBSET userMap[z] : Disconnect(S)
    /\ UNCHANGED <<zoneId, userPtr, refs, recvedPackets, leaving, jobQueue, sessions>>
    /\ UNCHANGED <<userMap, user, account, accountMap, client>>

LibraryTick(z) ==
    /\ \/ TickBegins(z) \/ JobsDone(z) \/ Look(z) \/ Take(z) \/ Drained(z)
       \/ \E s \in Sessions : TakeSession(z, s)
    /\ UNCHANGED <<userMap, user, account, accountMap, client>>

LobbyTick ==
    \/ LibraryTick(Lobby) \/ Leave(Lobby) \/ Refuse(Lobby) \/ OnUpdate(Lobby)
    \/ EnterLobby \/ RunReleaseAccountNo \/ MoveZone
    \/ \E a \in Accounts : RequestLogin(a)

EchoTick ==
    \/ LibraryTick(Echo) \/ Leave(Echo) \/ Refuse(Echo) \/ OnUpdate(Echo)
    \/ EnterEcho \/ RequestEcho

Next ==
    \/ LobbyTick \/ EchoTick
    \/ \E s \in Sessions :
           OnAccept(s) \/ SendLogin(s) \/ SendEcho(s) \/ ConnectionEnds(s) \/ Release(s)

\* Ticks go on, a cut connection's receive completes and a release goes on.  A zone
\* gets to the end of a session's queue: the way to the client and back takes
\* longer than the loop that takes messages out.
Fairness ==
    /\ WF_vars(LobbyTick) /\ WF_vars(EchoTick)
    /\ \A z \in Zones : SF_vars(Drained(z) /\ LibraryTick(z))
    /\ \A s \in Sessions : WF_vars(Release(s)) /\ WF_vars(isDisconnect[s] /\ ConnectionEnds(s))

Spec == Init /\ [][Next]_vars /\ Fairness

-----------------------------------------------------------------------------
(* Properties.                                                              *)

Released(s) == refs[s] = {} /\ isDisconnect[s]

\* Something is still under way for a session.
Pending(s) ==
    \/ leaving[s] # NoZone
    \/ \E z \in Zones : \E i \in DOMAIN jobQueue[z] : jobQueue[z][i].sid = s

In(s) ==
    \/ \E z \in Zones : s \in sessions[z] \cup userMap[z]
    \/ \E a \in Accounts : accountMap[a] = s

\* A session that is gone, wherever its move was when it went, is left
\* behind in no zone, no user map and no account: one departure finds it
\* (MoveZone against ReleaseSession).
NothingLeft == \A s \in Sessions : Released(s) /\ ~Pending(s) => ~In(s)

\* Nobody frees a user twice or works on a freed one: a zone that has a
\* freed user in its map has been told to forget it, and not to free it;
\* the echo zone has none, and enters none without a user (OnEnter, OnLeave
\* of the two zones, each on its own thread).
UsersOwned ==
    \A s \in Sessions :
        /\ s \in userMap[Echo] => user[s] = "alloc"
        /\ user[s] = "freed" /\ s \in userMap[Lobby] =>
               \/ tick[Lobby].pc = "moveLeave" /\ tick[Lobby].sid = s
               \/ Contains(jobQueue[Lobby], LeaveJob(s, FALSE))
        /\ user[s] = "freed" /\ s \in userMap[Lobby] =>
               leaving[s] # Lobby /\ ~Contains(jobQueue[Lobby], LeaveJob(s, TRUE))
        /\ ~Contains(jobQueue[Echo], EnterJob(s, FALSE))

\* A session that has logged in and was not cut off is the one its account
\* names: the late departure of an earlier login does not log it out, and
\* no account is logged in twice.
LoginsKnown ==
    \A s \in Sessions :
        account[s] # NoAccount /\ ~isDisconnect[s] => accountMap[account[s]] = s

\* A session that was cut off is released, leaves its zones and gives its
\* account back, whatever the two zones are doing with it.
EveryoneLeaves == \A s \in Sessions : isDisconnect[s] ~> Released(s) /\ ~Pending(s) /\ ~In(s)
-----------------------------------------------------------------------------
(* What the proofs carry from step to step: EchoIInv.                       *)

EnterJobs(player) == [kind : {"enter"}, sid : Sessions, player : {player}]
LeaveJobs(deletes) == [kind : {"leave"}, sid : Sessions, delete : deletes]
AccountJobs == [kind : {"account"}, sid : Sessions, account : Accounts]
LobbyJobs == EnterJobs(FALSE) \cup LeaveJobs(BOOLEAN) \cup AccountJobs
EchoJobs == EnterJobs(TRUE) \cup LeaveJobs({TRUE})

Messages == {"login", "echo", Garbage}
MovePcs == {"move", "moveEnter", "moveLeave"}
HoldPcs == {"look", "take", "handle"} \cup MovePcs
Ticks == [pc : {"idle", "jobs", "receive", "release"} \cup HoldPcs, left : Nat,
          todo : SUBSET Sessions, sid : Sessions \cup {NoSession},
          msg : Messages, from : Zones \cup {NoZone}]

TypeOK ==
    /\ zoneId \in [Sessions -> Zones \cup {NoZone}]
    /\ userPtr \in [Sessions -> BOOLEAN] /\ isDisconnect \in [Sessions -> BOOLEAN]
    /\ refs \in [Sessions -> SUBSET (Zones \cup {Receive})]
    /\ recvedPackets \in [Sessions -> Seq(Messages)]
    /\ leaving \in [Sessions -> Zones \cup {NoZone}]
    /\ jobQueue \in [Zones -> Seq(LobbyJobs \cup EchoJobs)]
    /\ jobQueue[Lobby] \in Seq(LobbyJobs) /\ jobQueue[Echo] \in Seq(EchoJobs)
    /\ sessions \in [Zones -> SUBSET Sessions] /\ tick \in [Zones -> Ticks]
    /\ userMap \in [Zones -> SUBSET Sessions]
    /\ user \in [Sessions -> {"none", "alloc", "freed"}]
    /\ account \in [Sessions -> Accounts \cup {NoAccount}]
    /\ accountMap \in [Accounts -> Sessions \cup {NoSession}]
    /\ client \in [Sessions -> {"silent", "waiting", "in", "asked"}]

\* A zone that runs jobs has as many as it counted; a zone that handles a
\* session's messages holds a reference.
TickHolds == \A z \in Zones :
    /\ tick[z].pc = "jobs" => tick[z].left <= Len(jobQueue[z])
    /\ tick[z].pc \in HoldPcs => tick[z].sid \in Sessions /\ z \in refs[tick[z].sid]

\* The jobs of a session, and where they are in a queue.
IsEnter(x, s) == x.kind = "enter" /\ x.sid = s
IsDelete(x, s) == x = LeaveJob(s, TRUE)
IsForget(x, s) == x = LeaveJob(s, FALSE)
IsAccount(x, s, a) == x = [kind |-> "account", sid |-> s, account |-> a]

HasEnter(q, s) == \E i \in DOMAIN q : IsEnter(q[i], s)
HasDelete(q, s) == \E i \in DOMAIN q : IsDelete(q[i], s)
HasForget(q, s) == \E i \in DOMAIN q : IsForget(q[i], s)
HasAccount(q, s, a) == \E i \in DOMAIN q : IsAccount(q[i], s, a)

\* The departure of a session comes once, and after its entries.
LastIsDelete(q, s) == \A i, j \in DOMAIN q :
    IsDelete(q[i], s) /\ i < j => ~IsDelete(q[j], s) /\ ~IsEnter(q[j], s)
OneEnter(q, s) == \A i, j \in DOMAIN q : IsEnter(q[i], s) /\ IsEnter(q[j], s) => i = j

\* References of a session, and what is left of it when they are gone.
Accepted(s) == refs[s] # {} \/ isDisconnect[s]
Gone(s) == refs[s] = {} /\ isDisconnect[s]
Known(s) == account[s] # NoAccount
References(s) ==
    /\ refs[s] # {} <=> zoneId[s] # NoZone
    /\ refs[s] # {} /\ Receive \notin refs[s] => isDisconnect[s]
    /\ userPtr[s] => refs[s] # {}
    /\ leaving[s] # NoZone \/ user[s] = "freed" => Gone(s)
    /\ \A z \in Zones : HasDelete(jobQueue[z], s) => Gone(s)
    /\ \A a \in Accounts : HasAccount(jobQueue[Lobby], s, a) => Gone(s)
    /\ Known(s) \/ user[s] # "none" \/ HasEnter(jobQueue[Lobby], s) => Accepted(s)

\* There is one departure of a session, and a freed user has had it.
OneDeparture(s) ==
    /\ \A z \in Zones : /\ LastIsDelete(jobQueue[z], s)
                        /\ HasDelete(jobQueue[z], s) => leaving[s] = NoZone /\ user[s] # "freed"
    /\ ~(HasDelete(jobQueue[Lobby], s) /\ HasDelete(jobQueue[Echo], s))
    /\ user[s] = "freed" => leaving[s] = NoZone

\* The zone a session is in, or that is to be told of its departure.
Home(z, s) == zoneId[s] = z \/ leaving[s] = z \/ HasDelete(jobQueue[z], s)
AtMove(s, places) == tick[Lobby].pc \in places /\ tick[Lobby].sid = s
Moving(s) == AtMove(s, {"moveEnter", "moveLeave"})

\* Who is in the lobby is at home there, or the lobby will be told.
InLobby(s) ==
    /\ s \in sessions[Lobby] \cup userMap[Lobby] \/ HasEnter(jobQueue[Lobby], s) =>
           Home(Lobby, s) \/ Moving(s) \/ HasForget(jobQueue[Lobby], s)
    /\ s \in sessions[Lobby] \cup userMap[Lobby] => user[s] # "none"
    /\ HasEnter(jobQueue[Lobby], s) => user[s] = "none" /\ OneEnter(jobQueue[Lobby], s)
    /\ s \in userMap[Lobby] \/ Known(s) => (refs[s] # {} => userPtr[s])

\* Who moves is logged in, and from then on at home in the echo zone.
InEcho(s) ==
    /\ s \in sessions[Echo] \cup userMap[Echo] \/ HasEnter(jobQueue[Echo], s) => Home(Echo, s)
    /\ Home(Echo, s) \/ s \in tick[Echo].todo \/ tick[Echo].sid = s => Known(s)
    /\ HasForget(jobQueue[Lobby], s) \/ AtMove(s, MovePcs) => Known(s)
    /\ Known(s) => user[s] # "none"
    /\ AtMove(s, {"move"}) => zoneId[s] = Lobby
    /\ Moving(s) => zoneId[s] = Echo /\ tick[Lobby].from = Lobby
    /\ HasForget(jobQueue[Lobby], s) => ~Home(Lobby, s)

\* A client logs in once: its login is in one place, and then it is known.
LoginAt(s, i) == i \in DOMAIN recvedPackets[s] /\ recvedPackets[s][i] = "login"
HasLogin(z, s, l) == tick[z].pc = l /\ tick[z].sid = s /\ tick[z].msg = "login"
LoginOnce(s) ==
    /\ \A i, j \in DOMAIN recvedPackets[s] : LoginAt(s, i) /\ LoginAt(s, j) => i = j
    /\ \A i \in DOMAIN recvedPackets[s] : LoginAt(s, i) =>
           ~Known(s) /\ client[s] # "silent" /\ ~HasLogin(Lobby, s, "handle")
    /\ HasLogin(Lobby, s, "handle") \/ Known(s) => client[s] # "silent"
    /\ HasLogin(Lobby, s, "handle") => ~Known(s)
    /\ \A z \in Zones : HasLogin(z, s, "take") => LoginAt(s, 1)
    /\ ~HasLogin(Echo, s, "handle")

\* An account that names a session is the session's, and somebody will give
\* it back.
AccountsGivenBack(s) == \A a \in Accounts :
    accountMap[a] = s =>
        /\ account[s] = a
        /\ \/ Home(Lobby, s) /\ s \in userMap[Lobby]
           \/ /\ Home(Echo, s)
              /\ \/ s \in userMap[Echo] \/ HasEnter(jobQueue[Echo], s)
                 \/ AtMove(s, {"moveEnter"})
           \/ HasAccount(jobQueue[Lobby], s, a)

SessionIInv(s) ==
    /\ References(s) /\ OneDeparture(s) /\ InLobby(s) /\ InEcho(s)
    /\ AccountsGivenBack(s)

EchoIInv ==
    /\ TypeOK /\ TickHolds /\ LoginsKnown
    /\ \A s \in Sessions : SessionIInv(s) /\ LoginOnce(s)
=============================================================================
