------------------------------ MODULE ChatUsers ------------------------------
(***************************************************************************)
(* The users of the chat server (ChatServerV3.cpp, UserV2_Multi.h,         *)
(* UserV2_Multi.cpp, AuthContainer.cpp): user slots, the map from session  *)
(* to user, the map from account to session, the number of users, and the  *)
(* field.  Workers run the callbacks of sessions and the answers of redis, *)
(* the acceptor runs OnAccept, and a timeout thread looks through the      *)
(* slots.  The sessions are those of SessionContract: callbacks come and   *)
(* sessions end as it allows, which NetSession implements.                 *)
(*                                                                         *)
(* A user's fields change only under the user's lock.  A step is one        *)
(* operation on what other threads see without it (a map, the stack of free *)
(* slots, the number of users) together with the taking of the lock before  *)
(* it and the giving back after it, and with what touches only the thread's *)
(* own data or sends to a client.                                           *)
(***************************************************************************)
EXTENDS Field, FiniteSets, SequencesExt

CONSTANTS Workers,      \* IOCP workers
          Acceptor,     \* the accept thread
          TimeoutThread,
          Users,        \* user slots, as many as sessions: Init(maxSession, ...)
          Accounts,
          MaxUser       \* _maxUserCnt

Threads == Workers \cup {Acceptor, TimeoutThread}

NoUser == "nobody"
NoAccount == "none"

ASSUME ChatAssumption ==
    /\ IsFiniteSet(Workers) /\ IsFiniteSet(Users) /\ IsFiniteSet(Accounts)
    /\ Acceptor \notin Workers /\ TimeoutThread \notin Workers \cup {Acceptor}
    /\ MaxUser \in Nat
    /\ NoThread \notin Threads /\ NoUser \notin Users /\ NoAccount \notin Accounts

VARIABLES
    app, running, ended,   \* the sessions: see SessionContract
    cut,                   \* sessions Disconnect was called for
    \* CUser, per slot: _sessionId, _state, _accountNo, _curPos, and the lock
    user, lock,
    indexStack,            \* free slots
    sidToUser,             \* CSessionIdToUser: session -> slot
    loginMap,              \* CLoginMap: account -> session, 0 when there is none
    currentUserCnt,
    requests,              \* CAuthContainer: logins redis is asked about
    at                     \* threads: place in the handler and its locals

sessionVars == <<app, running, ended>>
userVars == <<user, lock, indexStack, sidToUser, loginMap, currentUserCnt>>
vars == <<fieldVars, sessionVars, cut, userVars, requests, at>>

Contract == INSTANCE SessionContract

States == {"NONE", "WAIT_LOGIN", "WAIT_IDENTIFY", "LOGIN", "INFIELD"}
LoggedIn == {"LOGIN", "INFIELD"}

\* CUser::Reset
Reset == [sid |-> 0, state |-> "NONE", acct |-> NoAccount, pos |-> Nowhere]

Idle == [pc |-> "idle", call |-> "none", sid |-> 0, slot |-> NoUser,
         victim |-> NoUser, other |-> 0, acct |-> NoAccount, dest |-> Nowhere,
         left |-> 0, seen |-> EmptyList]

Calls == {"none", "accept", "message", "release", "answer", "timeout"}
Pcs == {"idle", "create", "full", "lock", "findOther", "lockOther", "add", "count",
        "moveSecond", "lockAround", "copy", "leaveSector", "leaveLogin",
        "leaveSid", "leaveSlot"}

Init ==
    /\ InitField
    /\ Contract!Init
    /\ cut = {}
    /\ user = [u \in Users |-> Reset]
    /\ lock = [u \in Users |-> NoThread]
    /\ indexStack \in SetToSeqs(Users)
    /\ sidToUser = [s \in Sids |-> NoUser]
    /\ loginMap = [a \in Accounts |-> 0]
    /\ currentUserCnt = 0
    /\ requests = {}
    /\ at = [t \in Threads |-> Idle]

-----------------------------------------------------------------------------
(* Shapes of steps.                                                         *)

Goto(t, l) == at' = [at EXCEPT ![t].pc = l]

\* The handler returns, and with it the callback of the session, if it is one.
Return(t) ==
    /\ at' = [at EXCEPT ![t] = Idle]
    /\ IF at[t].call \in {"accept", "message"}
       THEN Contract!CallbackReturns(at[t].sid)
       ELSE UNCHANGED sessionVars

Lock(t, u) == lock[u] = NoThread /\ lock' = [lock EXCEPT ![u] = t]
Unlock(u)  == lock' = [lock EXCEPT ![u] = NoThread]

\* ReleaseUser(v) begins, under the lock of v, with what the state of v asks
\* for; "other" is the session Disconnect is called for afterwards.
Releasing(frame, v) ==
    [frame EXCEPT !.victim = v, !.other = user[v].sid,
                  !.pc = CASE user[v].state = "INFIELD" -> "leaveSector"
                           [] user[v].state = "LOGIN"   -> "leaveLogin"
                           [] OTHER                     -> "leaveSid"]

BeginRelease(t, v) == at' = [at EXCEPT ![t] = Releasing(@, v)]

-----------------------------------------------------------------------------
(* Faulty variants of definitions below: a check or a step the code has is  *)
(* left out.  No specification uses them.                                   *)

\* The id in the slot is not compared after Lock.
StillOwn_Unchecked(t) == TRUE

\* ReleaseUser does not ask whether the slot holds a user.
ReleaseFound_Twice(t) ==
    LET u == at[t].slot IN
    /\ at[t].pc = "lock" /\ at[t].call = "release"
    /\ Lock(t, u) /\ BeginRelease(t, u)
    /\ UNCHANGED <<fieldVars, sessionVars, cut, user, indexStack, sidToUser, loginMap,
                   currentUserCnt, requests>>

\* The list of the sector is left as it is.
LeaveSector_Stays(t) ==
    /\ at[t].pc = "leaveSector"
    /\ Goto(t, "leaveLogin")
    /\ UNCHANGED <<fieldVars, sessionVars, cut, userVars, requests>>

\* The login of a user in the field is not taken back.
LeaveSector_KeepsLogin(t) ==
    LET v == at[t].victim IN
    /\ at[t].pc = "leaveSector"
    /\ RemoveSector(user[v].pos, user[v].sid)
    /\ Goto(t, "leaveSid")
    /\ UNCHANGED <<sessionVars, cut, userVars, requests>>

\* FindAndAddAcountNoEx, which takes the account over, in place of
\* FindAndAddAcountNo.
AddLoginMap_Ex(t) ==
    LET u == at[t].slot IN
    /\ \/ /\ at[t].pc = "lock" /\ at[t].call = "answer" /\ user[u].sid = at[t].sid
          /\ Lock(t, u)
       \/ at[t].pc = "add" /\ UNCHANGED lock
    /\ loginMap' = [loginMap EXCEPT ![at[t].acct] = at[t].sid]
    /\ user' = [user EXCEPT ![u].state = "LOGIN", ![u].acct = at[t].acct,
                            ![u].pos = Nowhere]
    /\ Goto(t, "count")
    /\ UNCHANGED <<fieldVars, sessionVars, cut, indexStack, sidToUser,
                   currentUserCnt, requests>>

-----------------------------------------------------------------------------
(* Sessions and clients.                                                    *)

\* Ids are issued in order, and a session slot is free again when its session
\* has ended, which is before OnRelease has run.
NextSid(s) ==
    /\ \A r \in 1 .. s - 1 : app[r] # "none" \/ r \in ended
    /\ Cardinality({r \in Sids \ ended : app[r] # "none"}) < Cardinality(Users)

\* The client goes, or the library carries out a Disconnect.
SessionEnds(s) ==
    /\ app[s] = "none" => NextSid(s)
    /\ Contract!End(s)
    /\ cut' = cut \ {s}
    /\ UNCHANGED <<fieldVars, userVars, requests, at>>

\* Disconnect of CServer: nothing happens to a session that is gone.
CutOff(s) == cut' = cut \cup ({s} \ ended)

\* The head of every handler: FindUser.  Without a user it returns at once.
Begin(t, call, s, a) ==
    at' = [at EXCEPT ![t] = IF sidToUser[s] = NoUser THEN Idle
                            ELSE [Idle EXCEPT !.pc = "lock", !.call = call, !.sid = s,
                                              !.slot = sidToUser[s], !.acct = a]]

\* OnMessage and RequestProc.  The handlers all begin alike and read the message
\* under the lock: what it is, is chosen there.  A message for which there is no
\* user has no effect.
ReceiveMessage(t, s) ==
    /\ at[t].pc = "idle" /\ sidToUser[s] # NoUser
    /\ Contract!OnMessage(s)
    /\ Begin(t, "message", s, NoAccount)
    /\ UNCHANGED <<fieldVars, cut, userVars, requests>>

\* OnUserEvent with PQCS_IDENTIFYING: an auth thread found the key the client sent
\* in redis and posted the answer.  The request stands for the posted answer too.
ReceiveAnswer(t, m) ==
    /\ at[t].pc = "idle" /\ m \in requests
    /\ requests' = requests \ {m}
    /\ Begin(t, "answer", m.sid, m.acct)
    /\ UNCHANGED <<fieldVars, sessionVars, cut, userVars>>

\* Redis holds another key or none, or is out of reach.
AuthFails(m) ==
    /\ m \in requests
    /\ requests' = requests \ {m}
    /\ CutOff(m.sid)
    /\ UNCHANGED <<fieldVars, sessionVars, userVars, at>>

\* OnRelease
ReceiveRelease(t, s) ==
    /\ at[t].pc = "idle"
    /\ Contract!OnRelease(s)
    /\ Begin(t, "release", s, NoAccount)
    /\ UNCHANGED <<fieldVars, cut, userVars, requests>>

-----------------------------------------------------------------------------
(* OnAccept: CreateWaitLogin.                                               *)

\* AcquireUser; without a free slot the session is disconnected.
AcceptSession(s) ==
    /\ at[Acceptor].pc = "idle" /\ NextSid(s)
    /\ indexStack # <<>>
    /\ Contract!OnAccept(s)
    /\ indexStack' = Tail(indexStack)
    /\ at' = [at EXCEPT ![Acceptor] = [Idle EXCEPT !.pc = "create", !.call = "accept",
                                                   !.sid = s, !.slot = Head(indexStack)]]
    /\ UNCHANGED <<fieldVars, cut, user, lock, sidToUser, loginMap, currentUserCnt,
                   requests>>

AcceptFull(s) ==
    /\ at[Acceptor].pc = "idle" /\ NextSid(s)
    /\ indexStack = <<>>
    /\ Contract!OnAccept(s)
    /\ at' = [at EXCEPT ![Acceptor] = [Idle EXCEPT !.pc = "full", !.call = "accept",
                                                   !.sid = s]]
    /\ CutOff(s)
    /\ UNCHANGED <<fieldVars, userVars, requests>>

FullReturns(t) ==
    /\ at[t].pc = "full"
    /\ Return(t)
    /\ UNCHANGED <<fieldVars, cut, userVars, requests>>

\* The slot was pushed while the last handler may still hold its lock.
CreateWaitLogin(t) ==
    LET u == at[t].slot IN
    /\ at[t].pc = "create" /\ lock[u] = NoThread
    /\ user' = [user EXCEPT ![u].sid = at[t].sid, ![u].state = "WAIT_LOGIN"]
    /\ sidToUser' = [sidToUser EXCEPT ![at[t].sid] = u]
    /\ Return(t)
    /\ UNCHANGED <<fieldVars, cut, lock, indexStack, loginMap, currentUserCnt,
                   requests>>

-----------------------------------------------------------------------------
(* After FindUser: Lock, and the check that the slot is still the session's, *)
(* which OnRelease leaves out.                                              *)

StillOwn(t) == user[at[t].slot].sid = at[t].sid
StateOf(t)  == user[at[t].slot].state

\* The lock is free and the slot still the session's: the handler may go on, ...
Enter(t, call) ==
    /\ at[t].pc = "lock" /\ at[t].call = call
    /\ lock[at[t].slot] = NoThread /\ StillOwn(t)

\* ... with message m of the client.  A client is told by the answers it gets how
\* far it has come, and waits for them: it logs in once, moves when it is logged
\* in, and chats when it stands somewhere.
Handles(t, m) ==
    /\ Enter(t, "message")
    /\ \/ m = "login" /\ StateOf(t) = "WAIT_LOGIN"
       \/ m = "move" /\ StateOf(t) \in LoggedIn
       \/ m = "chat" /\ StateOf(t) = "INFIELD"
       \/ m = "heartbeat"

TooLate(t) ==
    /\ at[t].pc = "lock" /\ at[t].call # "release"
    /\ lock[at[t].slot] = NoThread /\ ~StillOwn(t)
    /\ Return(t)
    /\ UNCHANGED <<fieldVars, cut, userVars, requests>>

-----------------------------------------------------------------------------
(* ReleaseUser, under the lock of the victim, then Unlock and Disconnect.   *)

\* OnRelease releases whatever user it finds in the slot.
ReleaseFound(t) ==
    LET u == at[t].slot IN
    /\ at[t].pc = "lock" /\ at[t].call = "release" /\ lock[u] = NoThread
    /\ \/ /\ StateOf(t) # "NONE"
          /\ Lock(t, u) /\ BeginRelease(t, u)
          /\ UNCHANGED sessionVars
       \/ /\ StateOf(t) = "NONE"
          /\ Return(t)
          /\ UNCHANGED lock
    /\ UNCHANGED <<fieldVars, cut, user, indexStack, sidToUser, loginMap,
                   currentUserCnt, requests>>

\* Every handler of a message refuses some: out of turn, malformed, of another
\* account, out of the field, too many, of no known type.  The user is released
\* and the session disconnected.
Refuse(t) ==
    /\ Enter(t, "message") /\ Lock(t, at[t].slot)
    /\ BeginRelease(t, at[t].slot)
    /\ UNCHANGED <<fieldVars, sessionVars, cut, user, indexStack, sidToUser, loginMap,
                   currentUserCnt, requests>>

LeaveSector(t) ==
    LET v == at[t].victim IN
    /\ at[t].pc = "leaveSector"
    /\ RemoveSector(user[v].pos, user[v].sid)
    /\ Goto(t, "leaveLogin")
    /\ UNCHANGED <<sessionVars, cut, userVars, requests>>

RemoveLoginMap(t) ==
    /\ at[t].pc = "leaveLogin"
    /\ loginMap' = [loginMap EXCEPT ![user[at[t].victim].acct] = 0]
    /\ Goto(t, "leaveSid")
    /\ UNCHANGED <<fieldVars, sessionVars, cut, user, lock, indexStack, sidToUser,
                   currentUserCnt, requests>>

\* The number of users, which counts those that have logged in, and the map are
\* never read together.
RemoveSidToUserMap(t) ==
    LET v == at[t].victim IN
    /\ at[t].pc = "leaveSid"
    /\ currentUserCnt' = currentUserCnt - IF user[v].state \in LoggedIn THEN 1 ELSE 0
    /\ sidToUser' = [sidToUser EXCEPT ![user[v].sid] = NoUser]
    /\ user' = [user EXCEPT ![v] = Reset]
    /\ Goto(t, "leaveSlot")
    /\ UNCHANGED <<fieldVars, sessionVars, cut, lock, indexStack, loginMap, requests>>

\* The slot is free.  All but OnRelease go on to Disconnect; an answer that has
\* released the session it met in the login map tries again.
PushIndex(t) ==
    /\ at[t].pc = "leaveSlot"
    /\ indexStack' = <<at[t].victim>> \o indexStack
    /\ Unlock(at[t].victim)
    /\ IF at[t].call = "release" THEN UNCHANGED cut ELSE CutOff(at[t].other)
    /\ IF at[t].call = "answer" /\ at[t].other # at[t].sid
       THEN /\ at' = [at EXCEPT ![t].pc = "add", ![t].victim = NoUser, ![t].other = 0]
            /\ UNCHANGED sessionVars
       ELSE Return(t)
    /\ UNCHANGED <<fieldVars, user, sidToUser, loginMap, currentUserCnt, requests>>

\* TimeoutCheckThread: a user silent for too long, but not one that waits for
\* redis, is released.  When that time comes is left open.
Timeout(u) ==
    /\ at[TimeoutThread].pc = "idle"
    /\ user[u].state \in {"WAIT_LOGIN", "LOGIN", "INFIELD"}
    /\ Lock(TimeoutThread, u)
    /\ at' = [at EXCEPT ![TimeoutThread] =
                Releasing([Idle EXCEPT !.call = "timeout", !.sid = user[u].sid,
                                       !.slot = u], u)]
    /\ UNCHANGED <<fieldVars, sessionVars, cut, user, indexStack, sidToUser, loginMap,
                   currentUserCnt, requests>>

-----------------------------------------------------------------------------
(* RequestLogin, and the answer of redis.                                   *)

\* RequestAuth posts the request when the lock is given back.
RequestLogin(t, a) ==
    LET u == at[t].slot IN
    /\ Handles(t, "login")
    /\ currentUserCnt < MaxUser
    /\ StateOf(t) \notin {"LOGIN", "WAIT_IDENTIFY"}
    /\ user' = [user EXCEPT ![u].acct = a, ![u].state = "WAIT_IDENTIFY"]
    /\ requests' = requests \cup {[sid |-> at[t].sid, acct |-> a]}
    /\ Return(t)
    /\ UNCHANGED <<fieldVars, cut, lock, indexStack, sidToUser, loginMap,
                   currentUserCnt>>

\* AddLoginMap: no session of the account is logged in, and the user becomes one.
AddLoginMap(t) ==
    LET u == at[t].slot IN
    /\ \/ Enter(t, "answer") /\ Lock(t, u)
       \/ at[t].pc = "add" /\ UNCHANGED lock
    /\ loginMap[at[t].acct] = 0
    /\ loginMap' = [loginMap EXCEPT ![at[t].acct] = at[t].sid]
    /\ user' = [user EXCEPT ![u].state = "LOGIN", ![u].acct = at[t].acct,
                            ![u].pos = Nowhere]
    /\ Goto(t, "count")
    /\ UNCHANGED <<fieldVars, sessionVars, cut, indexStack, sidToUser,
                   currentUserCnt, requests>>

\* There is one: it is to be released first, and only once.
MeetOther(t) ==
    /\ Enter(t, "answer") /\ Lock(t, at[t].slot)
    /\ loginMap[at[t].acct] # 0
    /\ at' = [at EXCEPT ![t].pc = "findOther", ![t].other = loginMap[at[t].acct]]
    /\ UNCHANGED <<fieldVars, sessionVars, cut, user, indexStack, sidToUser, loginMap,
                   currentUserCnt, requests>>

GiveUp(t) ==
    /\ at[t].pc = "add" /\ loginMap[at[t].acct] # 0
    /\ BeginRelease(t, at[t].slot)
    /\ UNCHANGED <<fieldVars, sessionVars, cut, userVars, requests>>

FindOther(t) ==
    LET v == sidToUser[at[t].other] IN
    /\ at[t].pc = "findOther"
    /\ at' = [at EXCEPT ![t].pc = IF v = NoUser THEN "add" ELSE "lockOther",
                        ![t].other = IF v = NoUser THEN 0 ELSE @,
                        ![t].victim = v]
    /\ UNCHANGED <<fieldVars, sessionVars, cut, userVars, requests>>

\* A second user's lock, held together with the first.
LockOther(t) ==
    LET v == at[t].victim IN
    /\ at[t].pc = "lockOther" /\ lock[v] = NoThread
    /\ \/ /\ user[v].sid # at[t].other
          /\ at' = [at EXCEPT ![t].pc = "add", ![t].victim = NoUser, ![t].other = 0]
          /\ UNCHANGED lock
       \/ /\ user[v].sid = at[t].other
          /\ Lock(t, v) /\ BeginRelease(t, v)
    /\ UNCHANGED <<fieldVars, sessionVars, cut, user, indexStack, sidToUser,
                   loginMap, currentUserCnt, requests>>

IncreaseUserCnt(t) ==
    /\ at[t].pc = "count"
    /\ currentUserCnt' = currentUserCnt + 1
    /\ Unlock(at[t].slot)
    /\ Return(t)
    /\ UNCHANGED <<fieldVars, cut, user, indexStack, sidToUser, loginMap, requests>>

-----------------------------------------------------------------------------
(* RequestSectorMove, RequestMessage, RequestHeartbeat.                     *)

InTurn(t, m) == Handles(t, m) /\ StateOf(t) # "WAIT_LOGIN"

\* The first move of a user enters the field.
EnterField(t, p) ==
    LET u == at[t].slot IN
    /\ InTurn(t, "move") /\ ~InSectorRange(user[u].pos)
    /\ AddSector(p, user[u].sid)
    /\ user' = [user EXCEPT ![u].state = "INFIELD", ![u].pos = p]
    /\ Return(t)
    /\ UNCHANGED <<cut, lock, indexStack, sidToUser, loginMap, currentUserCnt,
                   requests>>

StayInSector(t) ==
    /\ InTurn(t, "move") /\ InSectorRange(user[at[t].slot].pos)
    /\ Return(t)
    /\ UNCHANGED <<fieldVars, cut, userVars, requests>>

MoveLocksFirst(t, p) ==
    LET u == at[t].slot IN
    /\ InTurn(t, "move") /\ InSectorRange(user[u].pos) /\ user[u].pos # p
    /\ Lock(t, u)
    /\ LockFirst(t, user[u].pos, p)
    /\ at' = [at EXCEPT ![t].pc = "moveSecond", ![t].dest = p]
    /\ UNCHANGED <<sessionVars, cut, user, indexStack, sidToUser, loginMap,
                   currentUserCnt, requests>>

RemoveAndAddSector(t) ==
    LET u == at[t].slot IN
    /\ at[t].pc = "moveSecond"
    /\ LockSecondAndMove(t, user[u].pos, at[t].dest, at[t].sid)
    /\ user' = [user EXCEPT ![u].pos = at[t].dest]
    /\ Unlock(u)
    /\ Return(t)
    /\ UNCHANGED <<cut, indexStack, sidToUser, loginMap, currentUserCnt, requests>>

Around(t) == GetAround(user[at[t].slot].pos)

\* "left" counts the locks taken; the last one starts the copying.
LockAround(t) ==
    LET n == at[t].left + 1 IN
    /\ \/ InTurn(t, "chat") /\ Lock(t, at[t].slot)
       \/ at[t].pc = "lockAround" /\ UNCHANGED lock
    /\ LockShared(t, Around(t)[n])
    /\ at' = [at EXCEPT ![t].pc = IF n = Len(Around(t)) THEN "copy" ELSE "lockAround",
                        ![t].left = IF n = Len(Around(t)) THEN 1 ELSE n]
    /\ UNCHANGED <<sessionVars, cut, user, indexStack, sidToUser, loginMap,
                   currentUserCnt, requests>>

\* "left" is the sector to copy; after the last the user is unlocked and the
\* message goes to everyone seen.
CopySector(t) ==
    LET n == at[t].left IN
    /\ at[t].pc = "copy"
    /\ UnlockShared(t, Around(t)[n])
    /\ \/ /\ n < Len(Around(t))
          /\ at' = [at EXCEPT ![t].seen = Copied(Around(t)[n], @), ![t].left = n + 1]
          /\ UNCHANGED <<lock, sessionVars>>
       \/ /\ n = Len(Around(t))
          /\ Unlock(at[t].slot)
          /\ Return(t)
    /\ UNCHANGED <<cut, user, indexStack, sidToUser, loginMap, currentUserCnt,
                   requests>>

RequestHeartbeat(t) ==
    /\ InTurn(t, "heartbeat")
    /\ Return(t)
    /\ UNCHANGED <<fieldVars, cut, userVars, requests>>

-----------------------------------------------------------------------------
\* A running handler goes on.
Step(t) ==
    \/ CreateWaitLogin(t) \/ TooLate(t) \/ ReleaseFound(t)
    \/ Refuse(t)
    \/ LeaveSector(t) \/ RemoveLoginMap(t)
    \/ RemoveSidToUserMap(t) \/ PushIndex(t) \/ FullReturns(t)
    \/ (\E a \in Accounts : RequestLogin(t, a)) \/ AddLoginMap(t) \/ MeetOther(t) \/ GiveUp(t)
    \/ FindOther(t) \/ LockOther(t) \/ IncreaseUserCnt(t)
    \/ \E p \in Sectors : EnterField(t, p) \/ MoveLocksFirst(t, p)
    \/ StayInSector(t) \/ RemoveAndAddSector(t)
    \/ LockAround(t) \/ CopySector(t) \/ RequestHeartbeat(t)

Next ==
    \/ \E t \in Threads : Step(t)
    \/ \E s \in Sids : AcceptSession(s) \/ AcceptFull(s) \/ SessionEnds(s)
    \/ \E t \in Workers, s \in Sids : ReceiveRelease(t, s) \/ ReceiveMessage(t, s)
    \/ \E m \in requests : AuthFails(m) \/ \E t \in Workers : ReceiveAnswer(t, m)
    \/ \E u \in Users : Timeout(u)

Spec == Init /\ [][Next]_vars

-----------------------------------------------------------------------------
(* Properties                                                               *)

FrameOK(f) ==
    /\ DOMAIN f = DOMAIN Idle
    /\ f.pc \in Pcs /\ f.call \in Calls /\ f.sid \in Sids \cup {0}
    /\ f.slot \in Users \cup {NoUser} /\ f.victim \in Users \cup {NoUser}
    /\ f.other \in Sids \cup {0} /\ f.acct \in Accounts \cup {NoAccount}
    /\ f.dest \in Sectors \cup {Nowhere}

UsersTypeOK ==
    /\ sessionIdList \in [Sectors -> [Sids -> Nat]]
    /\ readers \in [Sectors -> SUBSET Threads]
    /\ writer \in [Sectors -> Threads \cup {NoThread}]
    /\ app \in [Sids -> {"none", "open", "released"}]
    /\ running \subseteq Sids /\ ended \subseteq Sids /\ cut \subseteq Sids
    /\ user \in [Users -> [sid : Sids \cup {0}, state : States,
                           acct : Accounts \cup {NoAccount},
                           pos : Sectors \cup {Nowhere}]]
    /\ lock \in [Users -> Threads \cup {NoThread}]
    /\ indexStack \in Seq(Users)
    /\ sidToUser \in [Sids -> Users \cup {NoUser}]
    /\ loginMap \in [Accounts -> Sids \cup {0}]
    /\ currentUserCnt \in Int
    /\ requests \subseteq [sid : Sids, acct : Accounts]
    /\ DOMAIN at = Threads /\ \A t \in Threads : FrameOK(at[t])

TypeOK ==
    /\ UsersTypeOK /\ currentUserCnt \in Nat
    /\ \A t \in Threads : at[t].left \in 0 .. 9 /\ at[t].seen \in [Sids -> Nat]

\* Some thread is at one of "places" in ReleaseUser(u).
BeingReleased(u, places) == \E t \in Threads : at[t].pc \in places /\ at[t].victim = u

\* An account is logged in by one session at most: the login map and the users
\* agree but for a release under way, and the number of users is that of the
\* map's entries but for a handler between the two.
LoginsExact ==
    /\ \A a \in Accounts : loginMap[a] # 0 =>
          \E u \in Users : /\ user[u].sid = loginMap[a] /\ user[u].acct = a
                           /\ user[u].state \in LoggedIn
    /\ \A u \in Users : user[u].state \in LoggedIn =>
          \/ loginMap[user[u].acct] = user[u].sid
          \/ BeingReleased(u, {"leaveSid"})
    /\ currentUserCnt = Cardinality({a \in Accounts : loginMap[a] # 0})
                        + Cardinality({u \in Users : /\ user[u].state \in LoggedIn
                                                     /\ BeingReleased(u, {"leaveSid"})})
                        - Cardinality({t \in Threads : at[t].pc = "count"})

\* A session stands in the list of the sector its user is in, once, and in no
\* other list.
SectorsMatch ==
    \A s \in Sids, p \in Sectors :
        sessionIdList[p][s] =
            Cardinality({u \in Users :
                /\ user[u].sid = s /\ user[u].state = "INFIELD" /\ user[u].pos = p
                /\ ~BeingReleased(u, {"leaveLogin", "leaveSid"})})

\* A user slot is free, or of one session, or in the hands of one thread that
\* takes it or gives it back.
SlotsConserved ==
    /\ IsInjective(indexStack)
    /\ \A u \in Users :
          Cardinality({s \in Sids : sidToUser[s] = u})
          + Cardinality({k \in DOMAIN indexStack : indexStack[k] = u})
          + Cardinality({t \in Threads :
                \/ at[t].pc = "create" /\ at[t].slot = u
                \/ at[t].pc = "leaveSlot" /\ at[t].victim = u}) = 1
    /\ \A s \in Sids : sidToUser[s] # NoUser => user[sidToUser[s]].sid = s

\* Nothing of a session is left when its OnRelease has returned: no user, no
\* login, no entry in a sector.
NothingLeftBehind ==
    \A s \in Sids :
        app[s] = "released" /\ (\A t \in Threads : at[t].call = "release" => at[t].sid # s)
        => /\ sidToUser[s] = NoUser
           /\ \A a \in Accounts : loginMap[a] # s
           /\ \A p \in Sectors : sessionIdList[p][s] = 0

\* An answer of redis logs in the session that asked, with the account it asked
\* for, and no later user of the slot.
AnswerLogsInAsker ==
    [][\A u \in Users :
         user[u].state # "LOGIN" /\ user'[u].state = "LOGIN" =>
            /\ user[u].state = "WAIT_IDENTIFY"
            /\ user'[u].sid = user[u].sid /\ user'[u].acct = user[u].acct]_vars

\* How often a message is sent to session s: as often as it was copied, and as it
\* stands in the sectors still to be copied.
Heard(t, s) ==
    at[t].seen[s] + Cardinality(UNION {{k} \X (1 .. sessionIdList[Around(t)[k]][s]) :
                                          k \in at[t].left .. Len(Around(t))})

\* A message reaches the users that stood around at one moment, though others
\* move while the sectors are copied and unlocked one by one: nobody twice, and
\* nobody missed.
MessageSeesOneMoment ==
    [][\A t \in Workers, s \in Sids :
         at[t].pc = "copy" =>
            /\ Heard(t, s) <= 1
            /\ at'[t].pc = "copy" => Heard(t, s)' = Heard(t, s)]_vars

\* The threads that hold the lock t has stopped at.
WaitsFor(t) ==
    LET u == at[t].slot
        v == at[t].victim
        Held(p) == readers[p] \cup ({writer[p]} \ {NoThread})
    IN  CASE at[t].pc \in {"create", "lock"} -> {lock[u]} \ {NoThread}
          [] at[t].pc = "lockOther"   -> {lock[v]} \ {NoThread}
          [] at[t].pc = "leaveSector" -> Held(user[v].pos)
          [] at[t].pc = "moveSecond"  -> Held(SecondOf(user[u].pos, at[t].dest))
          [] at[t].pc = "lockAround"  -> {writer[Around(t)[at[t].left + 1]]} \ {NoThread}
          [] OTHER -> {}

\* Threads that hold a user, two users, a user and a sector or several sectors
\* never wait for each other in a circle: of those waited for one goes on.
NoCircularWait ==
    \A t \in Threads :
        WaitsFor(t) = {} \/ \E r \in Threads : at[r].pc # "idle" /\ WaitsFor(r) = {}

\* An open session has a user, or is being disconnected.
NoOrphan ==
    \A s \in Sids :
        app[s] = "open" /\ s \notin ended \cup running \cup cut =>
            \/ sidToUser[s] # NoUser
            \/ \E t \in Threads : at[t].pc # "idle" /\ at[t].other = s
-----------------------------------------------------------------------------
(* What the proofs carry from step to step: ChatIInv.                       *)

\* Handlers past their Lock, and the steps of ReleaseUser; the last of these
\* has reset the user.
AnswerPcs  == {"findOther", "lockOther", "add", "count"}
MessagePcs == {"moveSecond", "lockAround", "copy"}
LeavePcs   == {"leaveSector", "leaveLogin", "leaveSid", "leaveSlot"}

HoldsSlot(t) ==
    \/ at[t].pc \in AnswerPcs \cup MessagePcs
    \/ at[t].pc \in LeavePcs /\ at[t].victim # at[t].slot

\* Which callback a thread at a place runs, and what its locals are.
InPlace(t) ==
    LET f == at[t] IN
    /\ f.pc = "idle" <=> f.call = "none"
    /\ f.pc \in {"create", "full"} <=> f.call = "accept"
    /\ f.call = "accept" => t = Acceptor
    /\ f.call = "timeout" => t = TimeoutThread
    /\ f.pc \in AnswerPcs => f.call = "answer"
    /\ f.pc \in MessagePcs => f.call = "message"
    /\ f.pc # "idle" => f.sid \in Sids
    /\ f.pc \notin {"idle", "full"} => f.slot \in Users
    /\ f.call = "answer" => f.acct \in Accounts
    /\ f.pc \in {"findOther", "lockOther"} => f.other \in Sids
    /\ f.pc = "lockOther" => f.victim \in Users
    /\ f.pc \in LeavePcs => /\ f.victim \in Users /\ f.other \in Sids
                            /\ f.victim # f.slot => f.call = "answer"
                            /\ f.call = "answer" => (f.victim = f.slot <=> f.other = f.sid)

\* A handler holds the lock of the user it works on, and of the user it
\* releases, and as long as it does they are the ones it found there.
Locked(t) ==
    /\ HoldsSlot(t) => lock[at[t].slot] = t
    /\ at[t].pc \in LeavePcs => lock[at[t].victim] = t

Found(t) ==
    /\ HoldsSlot(t) => StillOwn(t)
    /\ at[t].pc \in LeavePcs \ {"leaveSlot"} => user[at[t].victim].sid = at[t].other
    /\ at[t].pc = "leaveSector" => user[at[t].victim].state = "INFIELD"
    /\ at[t].pc = "leaveLogin" => user[at[t].victim].state \in LoggedIn
    /\ at[t].pc = "count" => StateOf(t) = "LOGIN"
    /\ at[t].pc \in MessagePcs => StateOf(t) = "INFIELD"
    /\ at[t].pc = "moveSecond" => at[t].dest \in Sectors

\* The map from sessions to users and the users agree.
UsersMapped ==
    /\ \A s \in Sids : sidToUser[s] # NoUser => user[sidToUser[s]].sid = s
    /\ \A u \in Users : user[u].sid # 0 => sidToUser[user[u].sid] = u
    /\ \A u \in Users :
          /\ user[u].state = "NONE" <=> user[u].sid = 0
          /\ user[u].state \in LoggedIn =>
                 /\ user[u].acct \in Accounts
                 /\ user[u].state = "INFIELD" <=> InSectorRange(user[u].pos)

\* A slot without a user is on the stack, or one thread has it.
OnStack(u) == \E k \in DOMAIN indexStack : indexStack[k] = u
HasIndex(t, u) ==
    \/ at[t].pc = "create" /\ at[t].slot = u
    \/ at[t].pc = "leaveSlot" /\ at[t].victim = u

SlotsHeld ==
    /\ IsInjective(indexStack)
    /\ \A u \in Users :
          /\ user[u].sid = 0 <=> OnStack(u) \/ \E t \in Threads : HasIndex(t, u)
          /\ \A t \in Threads : HasIndex(t, u) => ~OnStack(u)
          /\ \A t, r \in Threads : HasIndex(t, u) /\ HasIndex(r, u) => t = r

\* Sessions with a user were accepted, and callbacks are of open sessions, one
\* each.
InCallback(t) == at[t].call \in {"accept", "message"}
SessionsOpen ==
    /\ \A s \in Sids : /\ sidToUser[s] # NoUser => app[s] # "none"
                       /\ app[s] = "released" => s \in ended
    /\ \A t \in Threads :
          /\ InCallback(t) => /\ at[t].sid \in running \ ended
                              /\ app[at[t].sid] = "open"
          /\ at[t].pc = "create" => sidToUser[at[t].sid] = NoUser
    /\ \A t, r \in Threads :
          InCallback(t) /\ InCallback(r) /\ at[t].sid = at[r].sid => t = r

\* Redis is asked once for a session, and until the answer is handled the user
\* of the session waits for it.
Awaits(s, a) ==
    /\ app[s] # "none"
    /\ \A u \in Users : user[u].sid = s => /\ user[u].state = "WAIT_IDENTIFY"
                                           /\ user[u].acct = a
Answers(t) == at[t].call = "answer"
Answering(t) == Answers(t) /\ at[t].pc # "count"

AskedOnce ==
    /\ \A m \in requests :
          /\ Awaits(m.sid, m.acct)
          /\ \A n \in requests : m.sid = n.sid => m = n
          /\ \A t \in Threads : Answers(t) => at[t].sid # m.sid
          /\ at[Acceptor].pc = "create" => at[Acceptor].sid # m.sid
    /\ \A t \in Threads :
          /\ Answering(t) => Awaits(at[t].sid, at[t].acct)
          /\ Answers(t) => app[at[t].sid] # "none"
          /\ Answers(t) /\ at[Acceptor].pc = "create" => at[Acceptor].sid # at[t].sid
    /\ \A t, r \in Threads :
          Answers(t) /\ Answers(r) /\ at[t].sid = at[r].sid => t = r

\* The login map names users that are logged in and not about to lose their
\* user, and there is an entry for all of these.
Leaving(u) == BeingReleased(u, {"leaveSid"})
IsLogin(u, a) ==
    user[u].state \in LoggedIn /\ user[u].acct = a /\ ~Leaving(u)

LoginsNamed ==
    /\ \A a \in Accounts : loginMap[a] # 0 =>
          \E u \in Users : IsLogin(u, a) /\ user[u].sid = loginMap[a]
    /\ \A u \in Users : user[u].state \in LoggedIn /\ ~Leaving(u) =>
          loginMap[user[u].acct] = user[u].sid

CountExact ==
    currentUserCnt = Cardinality({a \in Accounts : loginMap[a] # 0})
                     + Cardinality({u \in Users : user[u].state \in LoggedIn /\ Leaving(u)})
                     - Cardinality({t \in Threads : at[t].pc = "count"})

\* The lists of the sectors name the users that stand there.
Stands(s, p) ==
    \E u \in Users : /\ user[u].sid = s /\ user[u].state = "INFIELD" /\ user[u].pos = p
                     /\ ~BeingReleased(u, {"leaveLogin", "leaveSid"})
ListsExact ==
    \A s \in Sids, p \in Sectors : sessionIdList[p][s] = IF Stands(s, p) THEN 1 ELSE 0

\* OnRelease works on the slot of its session, and leaves no user.
ReleasesLate ==
    /\ \A t \in Threads : at[t].call = "release" =>
          /\ app[at[t].sid] = "released"
          /\ sidToUser[at[t].sid] \in {NoUser, at[t].slot}
          /\ at[t].pc = "leaveSlot" => sidToUser[at[t].sid] = NoUser
    /\ \A s \in Sids : app[s] = "released" /\ sidToUser[s] # NoUser =>
          \E t \in Threads : at[t].call = "release" /\ at[t].sid = s

ChatIInv ==
    /\ UsersTypeOK
    /\ \A t \in Threads : InPlace(t) /\ Locked(t) /\ Found(t)
    /\ UsersMapped /\ SlotsHeld /\ SessionsOpen /\ AskedOnce
    /\ LoginsNamed /\ CountExact /\ ListsExact /\ ReleasesLate
-----------------------------------------------------------------------------
(* What the proofs carry besides for the locks: LocksIInv.                  *)

\* A user's lock is held by a handler that works on the user.
HoldsUser(t, u) ==
    \/ HoldsSlot(t) /\ at[t].slot = u
    \/ at[t].pc \in LeavePcs /\ at[t].victim = u
UsersLocked == \A u \in Users, t \in Threads : lock[u] = t => HoldsUser(t, u)

\* The sectors a thread holds: to change them, ...
Writes(t, p) ==
    at[t].pc = "moveSecond" /\ p = FirstOf(user[at[t].slot].pos, at[t].dest)

\* ... or to read them: those locked so far, those not copied yet.
Reads(t, p) ==
    \/ at[t].pc = "lockAround" /\ \E k \in 1 .. at[t].left : Around(t)[k] = p
    \/ at[t].pc = "copy" /\ \E k \in at[t].left .. Len(Around(t)) : Around(t)[k] = p

SectorsLocked ==
    \A p \in Sectors :
        /\ writer[p] = NoThread \/ readers[p] = {}
        /\ \A t \in Threads : (writer[p] = t <=> Writes(t, p)) /\ (t \in readers[p] <=> Reads(t, p))

\* How far a message is.
Counted(t) ==
    LET f == at[t] IN
    /\ f.pc \notin {"lockAround", "copy"} => f.left = 0
    /\ f.pc # "copy" => f.seen = EmptyList
    /\ f.pc = "lockAround" => f.left \in 1 .. Len(Around(t)) - 1
    /\ f.pc = "copy" => f.left \in 1 .. Len(Around(t)) /\ f.seen \in [Sids -> Nat]
    /\ f.pc = "moveSecond" => f.dest # user[f.slot].pos

\* Ids are used in order.
Used(s) == app[s] # "none" \/ s \in ended
IdsInOrder == \A s \in Sids : Used(s) => \A r \in 1 .. s - 1 : Used(r)

\* The session an answer found logged in stays so until it is released, and the
\* slot it had is later used for younger sessions only than the answer's.
Met(t) ==
    LET f == at[t]
        a == at[Acceptor]
    IN  /\ f.pc \in {"findOther", "lockOther"} =>
              /\ app[f.other] # "none"
              /\ a.pc = "create" => a.sid # f.other
              /\ \A u \in Users : user[u].sid = f.other => user[u].state \in LoggedIn
        /\ f.pc = "lockOther" =>
              /\ user[f.victim].sid \in {f.other, 0} \/ user[f.victim].sid > f.sid
              /\ a.pc = "create" /\ a.slot = f.victim => a.sid > f.sid

HeardOnce(t) == at[t].pc = "copy" => \A s \in Sids : Heard(t, s) <= 1

LocksIInv ==
    /\ UsersLocked /\ SectorsLocked /\ IdsInOrder
    /\ \A t \in Threads : Counted(t) /\ Met(t) /\ HeardOnce(t)
=============================================================================
