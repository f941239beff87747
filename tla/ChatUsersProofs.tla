--------------------------- MODULE ChatUsersProofs ---------------------------
(***************************************************************************)
(* The users of the chat server, for any number of workers, user slots,     *)
(* accounts and sessions and a field of any size: the user slots, the maps, *)
(* the lists of the sectors and the number of users agree whatever handlers *)
(* of messages, answers, releases and timeouts are under way.               *)
(*                                                                          *)
(* The inductive invariant is ChatIInv.  A step moves one thread; the other *)
(* threads keep what they found because it is under a lock they hold        *)
(* (OtherThreads).  Steps that change no user follow from QuietMove, and    *)
(* the others are worked out one by one.                                    *)
(***************************************************************************)
EXTENDS ChatUsers, FiniteSetTheorems, FunctionTheorems, SequenceTheorems, TLAPS

-----------------------------------------------------------------------------
(* The threads that do not move.                                            *)

Others(t) == \A r \in Threads \ {t} : at'[r] = at[r]

\* What is under the lock of another thread stays as it is.
Guarded(t) ==
    \A u \in Users : lock[u] \notin {NoThread, t} =>
        user'[u] = user[u] /\ lock'[u] = lock[u]

ThreadOK(t) == InPlace(t) /\ Locked(t) /\ Found(t)

\* A thread that does not move still holds what it held and found.
LEMMA OtherThreads ==
  ASSUME NEW t \in Threads, NEW r \in Threads \ {t}, ThreadOK(r),
         Others(t), Guarded(t)
  PROVE  ThreadOK(r)'
PROOF
  <1>1. at'[r] = at[r] /\ r # NoThread
    BY ChatAssumption DEF Others
  <1>2. InPlace(r)'
    BY <1>1 DEF ThreadOK, InPlace
  <1>3. HoldsSlot(r)' <=> HoldsSlot(r)
    BY <1>1 DEF HoldsSlot
  <1>4. HoldsSlot(r) => /\ at[r].slot \in Users /\ lock[at[r].slot] = r
                        /\ user'[at[r].slot] = user[at[r].slot]
                        /\ lock'[at[r].slot] = r
    BY <1>1 DEF ThreadOK, InPlace, Locked, HoldsSlot, Guarded, AnswerPcs, MessagePcs, LeavePcs
  <1>5. at[r].pc \in LeavePcs => /\ at[r].victim \in Users /\ lock[at[r].victim] = r
                                 /\ user'[at[r].victim] = user[at[r].victim]
                                 /\ lock'[at[r].victim] = r
    BY <1>1 DEF ThreadOK, InPlace, Locked, Guarded
  <1>6. Locked(r)'
    BY <1>1, <1>3, <1>4, <1>5 DEF Locked
  <1>7. at[r].pc \in AnswerPcs \cup MessagePcs => HoldsSlot(r)
    BY DEF HoldsSlot
  <1>8. Found(r)'
    BY <1>1, <1>3, <1>4, <1>5, <1>7
       DEF ThreadOK, Found, StillOwn, StateOf, AnswerPcs, MessagePcs, LeavePcs
  <1> QED
    BY <1>2, <1>6, <1>8 DEF ThreadOK
-----------------------------------------------------------------------------
(* Steps that change no user.                                               *)

\* A step of thread t that changes no user, map or list, and that neither
\* begins nor ends at a place the invariants count.
QuietMove(t) ==
    /\ Others(t)
    /\ UNCHANGED <<user, sidToUser, indexStack, loginMap, currentUserCnt, sessionIdList>>
    /\ at[t].pc \notin LeavePcs \cup {"create", "count"}
    /\ at'[t].pc \notin {"create", "leaveSlot", "count"}
    /\ at'[t].pc = "leaveSid" => user[at'[t].victim].state \notin LoggedIn
    /\ at'[t].pc = "leaveLogin" => user[at'[t].victim].state # "INFIELD"

\* After such a step the maps, the slots, the logins and the lists agree as
\* they did before.
LEMMA QuietUsers ==
  ASSUME NEW t \in Threads, QuietMove(t),
         UsersMapped, SlotsHeld, LoginsNamed, CountExact, ListsExact
  PROVE  (UsersMapped /\ SlotsHeld /\ LoginsNamed /\ CountExact /\ ListsExact)'
PROOF
  <1>1. /\ user' = user /\ sidToUser' = sidToUser /\ indexStack' = indexStack
        /\ loginMap' = loginMap /\ currentUserCnt' = currentUserCnt
        /\ sessionIdList' = sessionIdList
    BY DEF QuietMove
  <1>2. \A r \in Threads : r # t => at'[r] = at[r]
    BY DEF QuietMove, Others
  <1>3. UsersMapped'
    BY <1>1 DEF UsersMapped
  <1>4. ASSUME NEW r \in Threads, NEW u PROVE HasIndex(r, u)' <=> HasIndex(r, u)
    <2>1. CASE r = t
      BY <2>1 DEF QuietMove, HasIndex, LeavePcs
    <2>2. CASE r # t
      BY <2>2, <1>2 DEF HasIndex
    <2> QED
      BY <2>1, <2>2
  <1>5. \A u : OnStack(u)' <=> OnStack(u)
    BY <1>1 DEF OnStack
  <1>6. SlotsHeld'
    BY <1>1, <1>4, <1>5 DEF SlotsHeld
  <1>7. ASSUME NEW u \in Users, user[u].state \in LoggedIn
        PROVE  Leaving(u)' <=> Leaving(u)
    <2>1. ASSUME NEW r \in Threads
          PROVE  at'[r].pc \in {"leaveSid"} /\ at'[r].victim = u
                 <=> at[r].pc \in {"leaveSid"} /\ at[r].victim = u
      <3>1. CASE r = t
        BY <3>1, <1>7 DEF QuietMove, LeavePcs
      <3>2. CASE r # t
        BY <3>2, <1>2
      <3> QED
        BY <3>1, <3>2
    <2> QED
      BY <2>1 DEF Leaving, BeingReleased
  <1>8. ASSUME NEW u \in Users, NEW a PROVE IsLogin(u, a)' <=> IsLogin(u, a)
    BY <1>1, <1>7 DEF IsLogin
  <1>9. LoginsNamed'
    BY <1>1, <1>7, <1>8 DEF LoginsNamed
  <1>10. CountExact'
    <2>1. {a \in Accounts : loginMap[a] # 0}' = {a \in Accounts : loginMap[a] # 0}
      BY <1>1
    <2>2. {u \in Users : user[u].state \in LoggedIn /\ Leaving(u)}'
          = {u \in Users : user[u].state \in LoggedIn /\ Leaving(u)}
      BY <1>1, <1>7
    <2>3. {r \in Threads : at[r].pc = "count"}' = {r \in Threads : at[r].pc = "count"}
      BY <1>2 DEF QuietMove
    <2> QED
      BY <1>1, <2>1, <2>2, <2>3 DEF CountExact
  <1>11. ASSUME NEW u \in Users, user[u].state = "INFIELD"
         PROVE  BeingReleased(u, {"leaveLogin", "leaveSid"})'
                <=> BeingReleased(u, {"leaveLogin", "leaveSid"})
    <2>1. ASSUME NEW r \in Threads
          PROVE  at'[r].pc \in {"leaveLogin", "leaveSid"} /\ at'[r].victim = u
                 <=> at[r].pc \in {"leaveLogin", "leaveSid"} /\ at[r].victim = u
      <3>1. CASE r = t
        BY <3>1, <1>11 DEF QuietMove, LeavePcs, LoggedIn
      <3>2. CASE r # t
        BY <3>2, <1>2
      <3> QED
        BY <3>1, <3>2
    <2> QED
      BY <2>1 DEF BeingReleased
  <1>12. \A s, p : Stands(s, p)' <=> Stands(s, p)
    BY <1>1, <1>11 DEF Stands
  <1>13. ListsExact'
    BY <1>1, <1>12 DEF ListsExact
  <1> QED
    BY <1>3, <1>6, <1>9, <1>10, <1>13

-----------------------------------------------------------------------------
(* Sessions, requests and callbacks.                                        *)

\* What redis is asked about and what the content was told stay, and thread t
\* goes on with its callback.
GoesOn(t) ==
    /\ Others(t)
    /\ at'[t].call = at[t].call /\ at'[t].sid = at[t].sid
    /\ at'[t].acct = at[t].acct /\ at'[t].slot = at[t].slot
    /\ UNCHANGED <<sessionVars, requests, sidToUser, user>>
    /\ at'[t].pc \notin {"create", "leaveSlot"} /\ at[t].pc # "count"

\* Then sessions, requests and releases agree as they did before.
LEMMA GoesOnSessions ==
  ASSUME NEW t \in Threads, GoesOn(t), SessionsOpen, AskedOnce, ReleasesLate
  PROVE  (SessionsOpen /\ AskedOnce /\ ReleasesLate)'
PROOF
  <1>1. /\ user' = user /\ sidToUser' = sidToUser /\ app' = app /\ running' = running
        /\ ended' = ended /\ requests' = requests
    BY DEF GoesOn, sessionVars
  <1>2. \A r \in Threads : /\ at'[r].call = at[r].call /\ at'[r].sid = at[r].sid
                           /\ at'[r].acct = at[r].acct /\ at'[r].slot = at[r].slot
                           /\ at'[r].pc = "create" => at[r].pc = "create"
                           /\ at'[r].pc = "leaveSlot" => at[r].pc = "leaveSlot"
                           /\ at[r].pc = "count" => at'[r].pc = "count"
    BY DEF GoesOn, Others
  <1>3. \A s, a : Awaits(s, a)' <=> Awaits(s, a)
    BY <1>1 DEF Awaits
  <1>4. SessionsOpen'
    BY <1>1, <1>2 DEF SessionsOpen, InCallback
  <1>5. Acceptor \in Threads
    BY DEF Threads
  <1>6. AskedOnce'
    BY <1>1, <1>2, <1>3, <1>5 DEF AskedOnce, Answers, Answering
  <1>7. ReleasesLate'
    BY <1>1, <1>2 DEF ReleasesLate
  <1> QED
    BY <1>4, <1>6, <1>7

\* Users change, but none that waits for redis.
KeepsAwaited ==
    \A u \in Users : user'[u] = user[u] \/ /\ user'[u].sid = user[u].sid
                                           /\ user[u].state # "WAIT_IDENTIFY"

\* Thread t returns from its handler; OnRelease with no user left.
ReturnsFrom(t) ==
    /\ Others(t)
    /\ at'[t] = Idle
    /\ Return(t)
    /\ UNCHANGED sidToUser
    /\ at[t].call = "release" => sidToUser[at[t].sid] = NoUser

Returns(t) == ReturnsFrom(t) /\ UNCHANGED requests /\ KeepsAwaited

\* Callbacks and releases after a return.
LEMMA ReturnsOpen ==
  ASSUME NEW t \in Threads, ReturnsFrom(t), SessionsOpen, ReleasesLate
  PROVE  (SessionsOpen /\ ReleasesLate)'
PROOF
  <1>1. sidToUser' = sidToUser /\ app' = app /\ ended' = ended
    BY DEF ReturnsFrom, Return, Contract!CallbackReturns, sessionVars
  <1>2. running' = IF InCallback(t) THEN running \ {at[t].sid} ELSE running
    BY DEF ReturnsFrom, Return, Contract!CallbackReturns, sessionVars, InCallback
  <1>3. /\ \A r \in Threads \ {t} : at'[r] = at[r]
        /\ at'[t].call = "none" /\ at'[t].pc = "idle"
    BY DEF ReturnsFrom, Others, Idle
  <1>4. SessionsOpen'
    <2>1. \A r \in Threads \ {t} : InCallback(r)' <=> InCallback(r)
      BY <1>3 DEF InCallback
    <2>2. ~InCallback(t)'
      BY <1>3 DEF InCallback
    <2>3. ASSUME NEW r \in Threads, InCallback(r)'
          PROVE  at'[r].sid \in running' \ ended' /\ app'[at'[r].sid] = "open"
      <3>1. r # t /\ InCallback(r) /\ at'[r] = at[r]
        BY <2>1, <2>2, <2>3, <1>3
      <3>2. at[r].sid \in running \ ended /\ app[at[r].sid] = "open"
        BY <3>1 DEF SessionsOpen
      <3>3. InCallback(t) => at[t].sid # at[r].sid
        BY <3>1 DEF SessionsOpen
      <3> QED
        BY <1>1, <1>2, <3>1, <3>2, <3>3
    <2> QED
      BY <1>1, <1>3, <2>1, <2>2, <2>3 DEF SessionsOpen
  <1>5. ReleasesLate'
    BY <1>1, <1>3 DEF ReleasesLate, ReturnsFrom
  <1> QED
    BY <1>4, <1>5

\* Sessions, requests and releases after a return.
LEMMA ReturnsSessions ==
  ASSUME NEW t \in Threads, Returns(t), SessionsOpen, AskedOnce, ReleasesLate
  PROVE  (SessionsOpen /\ AskedOnce /\ ReleasesLate)'
PROOF
  <1>1. (SessionsOpen /\ ReleasesLate)'
    BY ReturnsOpen DEF Returns
  <1>2. app' = app /\ requests' = requests
    BY DEF Returns, ReturnsFrom, Return, Contract!CallbackReturns, sessionVars
  <1>3. /\ \A r \in Threads \ {t} : at'[r] = at[r]
        /\ at'[t].call = "none" /\ at'[t].pc = "idle"
    BY DEF Returns, ReturnsFrom, Others, Idle
  <1>4. \A s, a : Awaits(s, a) => Awaits(s, a)'
    BY <1>2 DEF Awaits, Returns, KeepsAwaited
  <1>5. Acceptor \in Threads
    BY DEF Threads
  <1>6. \A r \in Threads : /\ Answers(r)' => Answers(r) /\ at'[r] = at[r]
                           /\ Answering(r)' => Answering(r) /\ at'[r] = at[r]
                           /\ at'[r].pc = "create" => at'[r] = at[r]
    BY <1>3 DEF Answers, Answering
  <1>7. AskedOnce'
    BY <1>2, <1>4, <1>5, <1>6 DEF AskedOnce
  <1> QED
    BY <1>1, <1>7

\* A step that changes no user keeps the invariant if the thread that makes it
\* is still in place afterwards.
LEMMA QuietStep ==
  ASSUME ChatIInv, NEW t \in Threads, UsersTypeOK', Guarded(t), ThreadOK(t)',
         QuietMove(t), GoesOn(t) \/ Returns(t)
  PROVE  ChatIInv'
PROOF
  <1>1. \A r \in Threads \ {t} : ThreadOK(r)'
    BY OtherThreads DEF ChatIInv, ThreadOK, QuietMove
  <1>2. (UsersMapped /\ SlotsHeld /\ LoginsNamed /\ CountExact /\ ListsExact)'
    BY QuietUsers DEF ChatIInv
  <1>3. (SessionsOpen /\ AskedOnce /\ ReleasesLate)'
    BY GoesOnSessions, ReturnsSessions DEF ChatIInv
  <1> QED
    BY <1>1, <1>2, <1>3 DEF ChatIInv, ThreadOK

-----------------------------------------------------------------------------
(* The steps that change no user, one by one.                               *)

\* What a thread that moves alone leaves typed.
LEMMA MovesTyped ==
  ASSUME NEW t \in Threads, UsersTypeOK, NEW f, at' = [at EXCEPT ![t] = f], FrameOK(f)
  PROVE  /\ DOMAIN at' = Threads /\ \A r \in Threads : FrameOK(at[r])'
         /\ at'[t] = f /\ Others(t)
PROOF
  <1>1. DOMAIN at = Threads
    BY DEF UsersTypeOK
  <1>2. at'[t] = f /\ Others(t) /\ DOMAIN at' = Threads
    BY <1>1 DEF Others
  <1>3. ASSUME NEW r \in Threads PROVE FrameOK(at[r])'
    <2>1. FrameOK(at'[r])
      BY <1>2 DEF UsersTypeOK, Others
    <2> QED
      BY <2>1 DEF FrameOK, Idle
  <1> QED
    BY <1>2, <1>3

\* The frame of a thread that is in no handler.
LEMMA IdleTyped == FrameOK(Idle) /\ Idle.pc = "idle" /\ Idle.call = "none"
PROOF
  BY DEF FrameOK, Idle, Pcs, Calls

\* An idle thread is in place.
LEMMA IdleInPlace ==
  ASSUME NEW t \in Threads, at'[t] = Idle
  PROVE  ThreadOK(t)'
PROOF
  <1>1. at'[t].pc = "idle" /\ at'[t].call = "none"
    BY IdleTyped
  <1>2. ~HoldsSlot(t)'
    BY <1>1 DEF HoldsSlot, AnswerPcs, MessagePcs, LeavePcs
  <1> QED
    BY <1>1, <1>2
       DEF ThreadOK, InPlace, Locked, Found, AnswerPcs, MessagePcs, LeavePcs

\* What a step that changes no user may do to the locks.
LocksMove(t) ==
    /\ readers' \in [Sectors -> SUBSET Threads]
    /\ writer' \in [Sectors -> Threads \cup {NoThread}]
    /\ lock' \in [Users -> Threads \cup {NoThread}]
    /\ \A u \in Users : lock[u] \notin {NoThread, t} => lock'[u] = lock[u]

KeepsUsers ==
    UNCHANGED <<user, sidToUser, indexStack, loginMap, currentUserCnt, sessionIdList, requests>>

\* A handler returns, and no user has changed.
LEMMA QuietReturn ==
  ASSUME ChatIInv, NEW t \in Threads, Return(t), KeepsUsers, LocksMove(t), UNCHANGED cut,
         at[t].pc \in {"full", "lock", "copy"},
         at[t].call = "release" => sidToUser[at[t].sid] = NoUser
  PROVE  ChatIInv'
PROOF
  <1>1. /\ DOMAIN at' = Threads /\ \A r \in Threads : FrameOK(at[r])'
        /\ at'[t] = Idle /\ Others(t)
    BY MovesTyped, IdleTyped DEF ChatIInv, Return
  <1>2. app' = app /\ ended' = ended /\ running' \subseteq running
    BY DEF Return, Contract!CallbackReturns, sessionVars
  <1>3. UsersTypeOK'
    BY <1>1, <1>2 DEF ChatIInv, UsersTypeOK, KeepsUsers, LocksMove
  <1>4. Guarded(t)
    BY DEF Guarded, KeepsUsers, LocksMove
  <1>5. QuietMove(t)
    BY <1>1, IdleTyped DEF QuietMove, KeepsUsers, LeavePcs
  <1>6. Returns(t)
    BY <1>1 DEF Returns, ReturnsFrom, KeepsAwaited, KeepsUsers
  <1> QED
    BY <1>1, <1>3, <1>4, <1>5, <1>6, IdleInPlace, QuietStep

\* A handler goes on, and no user has changed.
LEMMA QuietGoesOn ==
  ASSUME ChatIInv, NEW t \in Threads, NEW f, at' = [at EXCEPT ![t] = f], FrameOK(f),
         KeepsUsers, UNCHANGED <<sessionVars, cut>>, LocksMove(t), ThreadOK(t)',
         f.call = at[t].call, f.sid = at[t].sid, f.acct = at[t].acct, f.slot = at[t].slot,
         at[t].pc \notin LeavePcs \cup {"create", "count"},
         f.pc \notin {"create", "leaveSlot", "count"},
         f.pc = "leaveSid" => user[f.victim].state \notin LoggedIn,
         f.pc = "leaveLogin" => user[f.victim].state # "INFIELD"
  PROVE  ChatIInv'
PROOF
  <1>1. /\ DOMAIN at' = Threads /\ \A r \in Threads : FrameOK(at[r])'
        /\ at'[t] = f /\ Others(t)
    BY MovesTyped DEF ChatIInv
  <1>2. UsersTypeOK'
    BY <1>1 DEF ChatIInv, UsersTypeOK, KeepsUsers, LocksMove, sessionVars
  <1>3. Guarded(t)
    BY DEF Guarded, KeepsUsers, LocksMove
  <1>4. QuietMove(t)
    BY <1>1 DEF QuietMove, KeepsUsers
  <1>5. GoesOn(t)
    BY <1>1 DEF GoesOn, KeepsUsers
  <1> QED
    BY <1>2, <1>3, <1>4, <1>5, QuietStep

\* What the invariant says of one thread.
LEMMA ThreadFacts ==
  ASSUME ChatIInv, NEW t \in Threads
  PROVE  /\ FrameOK(at[t]) /\ InPlace(t) /\ Locked(t) /\ Found(t)
         /\ DOMAIN at = Threads /\ t # NoThread /\ NoUser \notin Users
PROOF
  BY ChatAssumption DEF ChatIInv, UsersTypeOK

\* The frame that begins a release of v is typed, and who it disconnects is
\* the session of v.
LEMMA ReleasingTyped ==
  ASSUME NEW f, FrameOK(f), NEW v \in Users, user[v].sid \in Sids
  PROVE  LET g == Releasing(f, v) IN
         /\ FrameOK(g) /\ g.victim = v /\ g.other = user[v].sid
         /\ g.call = f.call /\ g.sid = f.sid /\ g.acct = f.acct /\ g.slot = f.slot
         /\ g.pc \in {"leaveSector", "leaveLogin", "leaveSid"}
         /\ g.pc = "leaveSector" <=> user[v].state = "INFIELD"
         /\ g.pc = "leaveLogin" <=> user[v].state = "LOGIN"
PROOF
  BY DEF Releasing, FrameOK, Idle, Pcs

\* Thread t begins ReleaseUser(v), under the lock of v.
LEMMA ReleaseBegins ==
  ASSUME ChatIInv, NEW t \in Threads, NEW v \in Users, user[v].sid \in Sids,
         at' = [at EXCEPT ![t] = Releasing(@, v)],
         at[t].pc \in {"lock", "add", "lockOther"},
         KeepsUsers, UNCHANGED <<sessionVars, cut>>, LocksMove(t), lock'[v] = t,
         v # at[t].slot => /\ at[t].call = "answer" /\ lock'[at[t].slot] = t
                           /\ StillOwn(t),
         at[t].call = "answer" => (v = at[t].slot <=> user[v].sid = at[t].sid)
  PROVE  ChatIInv'
PROOF
  <1>1. FrameOK(at[t]) /\ InPlace(t) /\ DOMAIN at = Threads
    BY ThreadFacts
  <1> DEFINE g == Releasing(at[t], v)
  <1>2. /\ FrameOK(g) /\ g.victim = v /\ g.other = user[v].sid
        /\ g.call = at[t].call /\ g.sid = at[t].sid /\ g.acct = at[t].acct
        /\ g.slot = at[t].slot
        /\ g.pc \in {"leaveSector", "leaveLogin", "leaveSid"}
        /\ g.pc = "leaveSector" <=> user[v].state = "INFIELD"
        /\ g.pc = "leaveLogin" <=> user[v].state = "LOGIN"
    BY <1>1, ReleasingTyped
  <1>3. at' = [at EXCEPT ![t] = g]
    OBVIOUS
  <1>4. at'[t] = g
    BY <1>1, <1>3
  <1> HIDE DEF g
  <1>5. InPlace(t)'
    BY <1>1, <1>2, <1>4 DEF InPlace, LeavePcs, AnswerPcs, MessagePcs
  <1>6. HoldsSlot(t)' <=> v # at[t].slot
    BY <1>2, <1>4 DEF HoldsSlot, LeavePcs, AnswerPcs, MessagePcs
  <1>7. Locked(t)'
    BY <1>2, <1>4, <1>6 DEF Locked
  <1>8. user' = user
    BY DEF KeepsUsers
  <1>9. Found(t)'
    BY <1>2, <1>4, <1>6, <1>8 DEF Found, StillOwn, LoggedIn, MessagePcs
  <1>10. ThreadOK(t)'
    BY <1>5, <1>7, <1>9 DEF ThreadOK
  <1>11. at[t].pc \notin LeavePcs \cup {"create", "count"}
    BY DEF LeavePcs
  <1>12. g.pc = "leaveSid" => user[g.victim].state \notin LoggedIn
    BY <1>2 DEF LoggedIn
  <1> QED
    BY <1>2, <1>3, <1>10, <1>11, <1>12, QuietGoesOn

\* Which users a thread past its Lock, or at it, may have found.
LEMMA SlotOfSession ==
  ASSUME ChatIInv, NEW u \in Users
  PROVE  /\ user[u].sid \in Sids \cup {0}
         /\ user[u].state = "NONE" <=> user[u].sid = 0
         /\ \A v \in Users : user[u].sid = user[v].sid /\ user[u].sid # 0 => u = v
PROOF
  BY DEF ChatIInv, UsersMapped, UsersTypeOK

\* The lock of u is taken by t, or t goes on with it.
LEMMA TakesLock ==
  ASSUME ChatIInv, NEW t \in Threads, NEW u \in Users, UNCHANGED <<readers, writer>>,
         Lock(t, u) \/ UNCHANGED lock
  PROVE  /\ LocksMove(t)
         /\ \A w \in Users : lock[w] = t => lock'[w] = t
         /\ Lock(t, u) => lock[u] = NoThread /\ lock'[u] = t
PROOF
  BY ThreadFacts DEF Lock, LocksMove, ChatIInv, UsersTypeOK

\* The slot is another session's by now: TooLate keeps the invariant.
LEMMA TooLateInv ==
  ASSUME ChatIInv, NEW t \in Threads, TooLate(t)
  PROVE  ChatIInv'
PROOF
  BY QuietReturn, TakesLock, ThreadFacts
     DEF TooLate, KeepsUsers, LocksMove, fieldVars, userVars, ChatIInv, UsersTypeOK

\* OnAccept without a free slot returns: FullReturns keeps the invariant.
LEMMA FullReturnsInv ==
  ASSUME ChatIInv, NEW t \in Threads, FullReturns(t)
  PROVE  ChatIInv'
PROOF
  <1>1. at[t].call # "release"
    BY ThreadFacts DEF FullReturns, InPlace
  <1> QED
    BY <1>1, QuietReturn
       DEF FullReturns, KeepsUsers, LocksMove, fieldVars, userVars, ChatIInv, UsersTypeOK

\* A move to the same sector changes nothing: StayInSector keeps the invariant.
LEMMA StayInSectorInv ==
  ASSUME ChatIInv, NEW t \in Threads, StayInSector(t)
  PROVE  ChatIInv'
PROOF
  BY QuietReturn
     DEF StayInSector, InTurn, Handles, Enter, KeepsUsers, LocksMove, fieldVars, userVars,
         ChatIInv, UsersTypeOK

\* A heartbeat changes nothing: RequestHeartbeat keeps the invariant.
LEMMA RequestHeartbeatInv ==
  ASSUME ChatIInv, NEW t \in Threads, RequestHeartbeat(t)
  PROVE  ChatIInv'
PROOF
  BY QuietReturn
     DEF RequestHeartbeat, InTurn, Handles, Enter, KeepsUsers, LocksMove, fieldVars, userVars,
         ChatIInv, UsersTypeOK

\* A refused message begins the release of its user: Refuse keeps the invariant.
LEMMA RefuseInv ==
  ASSUME ChatIInv, NEW t \in Threads, Refuse(t)
  PROVE  ChatIInv'
PROOF
  <1> DEFINE u == at[t].slot
  <1>1. /\ at[t].pc = "lock" /\ at[t].call = "message" /\ lock[u] = NoThread
        /\ user[u].sid = at[t].sid /\ Lock(t, u)
        /\ at' = [at EXCEPT ![t] = Releasing(@, u)]
        /\ KeepsUsers /\ UNCHANGED <<sessionVars, cut, readers, writer>>
    BY DEF Refuse, Enter, StillOwn, BeginRelease, KeepsUsers, fieldVars
  <1>2. u \in Users /\ at[t].sid \in Sids
    BY <1>1, ThreadFacts DEF InPlace
  <1>3. LocksMove(t) /\ lock'[u] = t
    BY <1>1, <1>2, TakesLock
  <1> QED
    BY <1>1, <1>2, <1>3, ReleaseBegins

\* OnRelease begins the release of the user it finds: ReleaseFound keeps the
\* invariant.
LEMMA ReleaseFoundInv ==
  ASSUME ChatIInv, NEW t \in Threads, ReleaseFound(t)
  PROVE  ChatIInv'
PROOF
  <1> DEFINE u == at[t].slot
  <1>1. /\ at[t].pc = "lock" /\ at[t].call = "release" /\ lock[u] = NoThread
        /\ KeepsUsers /\ UNCHANGED <<cut, readers, writer>>
    BY DEF ReleaseFound, KeepsUsers, fieldVars
  <1>2. u \in Users /\ at[t].sid \in Sids
    BY <1>1, ThreadFacts DEF InPlace
  <1>3. CASE user[u].state # "NONE" /\ Lock(t, u) /\ BeginRelease(t, u) /\ UNCHANGED sessionVars
    <2>1. LocksMove(t) /\ lock'[u] = t
      BY <1>1, <1>2, <1>3, TakesLock
    <2>2. user[u].sid \in Sids
      BY <1>2, <1>3, SlotOfSession
    <2> QED
      BY <1>1, <1>2, <1>3, <2>1, <2>2, ReleaseBegins DEF BeginRelease
  <1>4. CASE user[u].state = "NONE" /\ Return(t) /\ UNCHANGED lock
    <2>1. LocksMove(t)
      BY <1>1, <1>2, <1>4, TakesLock
    <2>2. user[u].sid = 0
      BY <1>2, <1>4, SlotOfSession
    <2>3. sidToUser[at[t].sid] # u
      BY <1>2, <2>2, ThreadFacts DEF ChatIInv, UsersMapped, Sids
    <2>4. sidToUser[at[t].sid] = NoUser
      BY <1>1, <2>3 DEF ChatIInv, ReleasesLate
    <2> QED
      BY <1>1, <1>4, <2>1, <2>4, QuietReturn
  <1> QED
    BY <1>3, <1>4 DEF ReleaseFound, StateOf

\* A thread at one of the steps of an answer before "count" that holds its slot.
LEMMA AnswerInPlace ==
  ASSUME NEW t \in Threads, NEW f, FrameOK(f), InPlace(t), at'[t] = f,
         f.pc \in {"findOther", "lockOther", "add"}, at[t].call = "answer",
         f.call = at[t].call, f.sid = at[t].sid, f.acct = at[t].acct, f.slot = at[t].slot,
         f.pc # "add" => f.other \in Sids, f.pc = "lockOther" => f.victim \in Users,
         lock'[at[t].slot] = t, user' = user, StillOwn(t)
  PROVE  ThreadOK(t)'
PROOF
  <1>1. InPlace(t)'
    BY DEF InPlace, AnswerPcs, MessagePcs, LeavePcs
  <1>2. Locked(t)'
    BY DEF Locked, LeavePcs
  <1>3. Found(t)'
    BY DEF Found, StillOwn, MessagePcs, LeavePcs
  <1> QED
    BY <1>1, <1>2, <1>3 DEF ThreadOK

\* What holds of a thread at these steps before it moves.
LEMMA AnswerFacts ==
  ASSUME ChatIInv, NEW t \in Threads, at[t].pc \in {"findOther", "lockOther", "add"}
  PROVE  /\ at[t].call = "answer" /\ at[t].sid \in Sids /\ at[t].acct \in Accounts
         /\ at[t].slot \in Users /\ lock[at[t].slot] = t /\ StillOwn(t)
         /\ at[t].pc # "add" => at[t].other \in Sids
         /\ at[t].pc = "lockOther" => at[t].victim \in Users
         /\ at[t].pc \notin LeavePcs \cup {"create", "count"}
PROOF
  BY ThreadFacts DEF InPlace, Locked, Found, HoldsSlot, AnswerPcs, LeavePcs

\* Another session of the account is logged in: MeetOther keeps the invariant.
LEMMA MeetOtherInv ==
  ASSUME ChatIInv, NEW t \in Threads, MeetOther(t)
  PROVE  ChatIInv'
PROOF
  <1> DEFINE f == [at[t] EXCEPT !.pc = "findOther", !.other = loginMap[at[t].acct]]
  <1>1. /\ at[t].pc = "lock" /\ at[t].call = "answer" /\ Lock(t, at[t].slot)
        /\ StillOwn(t) /\ loginMap[at[t].acct] # 0
        /\ at' = [at EXCEPT ![t] = f]
        /\ KeepsUsers /\ UNCHANGED <<sessionVars, cut, readers, writer>>
    BY DEF MeetOther, Enter, KeepsUsers, fieldVars
  <1>2. FrameOK(at[t]) /\ InPlace(t) /\ DOMAIN at = Threads
    BY ThreadFacts
  <1>3. at[t].slot \in Users /\ loginMap[at[t].acct] \in Sids
    BY <1>1, <1>2 DEF InPlace, ChatIInv, UsersTypeOK
  <1>4. /\ FrameOK(f) /\ f.pc = "findOther" /\ f.other \in Sids
        /\ f.call = at[t].call /\ f.sid = at[t].sid /\ f.acct = at[t].acct
        /\ f.slot = at[t].slot
    BY <1>2, <1>3 DEF FrameOK, Idle, Pcs
  <1>5. at'[t] = f
    BY <1>1, <1>2
  <1> HIDE DEF f
  <1>6. LocksMove(t) /\ lock'[at[t].slot] = t
    BY <1>1, <1>3, TakesLock
  <1>7. ThreadOK(t)'
    BY <1>1, <1>2, <1>4, <1>5, <1>6, AnswerInPlace DEF KeepsUsers
  <1>8. at[t].pc \notin LeavePcs \cup {"create", "count"}
    BY <1>1 DEF LeavePcs
  <1> QED
    BY <1>1, <1>4, <1>6, <1>7, <1>8, QuietGoesOn

\* Its user is looked up without a lock: FindOther keeps the invariant.
LEMMA FindOtherInv ==
  ASSUME ChatIInv, NEW t \in Threads, FindOther(t)
  PROVE  ChatIInv'
PROOF
  <1> DEFINE v == sidToUser[at[t].other]
             f == [at[t] EXCEPT !.pc = IF v = NoUser THEN "add" ELSE "lockOther",
                                !.other = IF v = NoUser THEN 0 ELSE @, !.victim = v]
  <1>1. /\ at[t].pc = "findOther" /\ at' = [at EXCEPT ![t] = f] /\ lock' = lock
        /\ KeepsUsers /\ UNCHANGED <<sessionVars, cut, readers, writer>>
    BY DEF FindOther, KeepsUsers, fieldVars, userVars
  <1>2. FrameOK(at[t]) /\ InPlace(t) /\ DOMAIN at = Threads /\ NoUser \notin Users
    BY ThreadFacts
  <1>3. /\ at[t].call = "answer" /\ at[t].slot \in Users /\ lock[at[t].slot] = t
        /\ StillOwn(t) /\ at[t].other \in Sids
        /\ at[t].pc \notin LeavePcs \cup {"create", "count"}
    BY <1>1, AnswerFacts
  <1>4. v \in Users \cup {NoUser}
    BY <1>3 DEF ChatIInv, UsersTypeOK
  <1>5. /\ FrameOK(f) /\ f.pc \in {"add", "lockOther"}
        /\ f.pc # "add" => f.other \in Sids /\ f.victim \in Users
        /\ f.call = at[t].call /\ f.sid = at[t].sid /\ f.acct = at[t].acct
        /\ f.slot = at[t].slot
    BY <1>2, <1>3, <1>4 DEF FrameOK, Idle, Pcs
  <1>6. at'[t] = f
    BY <1>1, <1>2
  <1> HIDE DEF f
  <1>7. LocksMove(t)
    BY <1>1, <1>3, TakesLock
  <1>8. ThreadOK(t)'
    BY <1>1, <1>2, <1>3, <1>5, <1>6, AnswerInPlace DEF KeepsUsers
  <1> QED
    BY <1>1, <1>3, <1>5, <1>7, <1>8, QuietGoesOn

\* The second attempt fails and the own user is released: GiveUp keeps the
\* invariant.
LEMMA GiveUpInv ==
  ASSUME ChatIInv, NEW t \in Threads, GiveUp(t)
  PROVE  ChatIInv'
PROOF
  <1> DEFINE u == at[t].slot
  <1>1. /\ at[t].pc = "add" /\ at' = [at EXCEPT ![t] = Releasing(@, u)] /\ lock' = lock
        /\ KeepsUsers /\ UNCHANGED <<sessionVars, cut, readers, writer>>
    BY DEF GiveUp, BeginRelease, KeepsUsers, fieldVars, userVars
  <1>2. /\ u \in Users /\ at[t].sid \in Sids /\ user[u].sid = at[t].sid /\ lock[u] = t
    BY <1>1, AnswerFacts DEF StillOwn
  <1>3. LocksMove(t) /\ lock'[u] = t
    BY <1>1, <1>2, TakesLock
  <1> QED
    BY <1>1, <1>2, <1>3, ReleaseBegins

\* The other user is released if its slot is still the session's: LockOther keeps
\* the invariant.
LEMMA LockOtherInv ==
  ASSUME ChatIInv, NEW t \in Threads, LockOther(t)
  PROVE  ChatIInv'
PROOF
  <1> DEFINE v == at[t].victim
             f == [at[t] EXCEPT !.pc = "add", !.victim = NoUser, !.other = 0]
  <1>1. /\ at[t].pc = "lockOther" /\ lock[v] = NoThread
        /\ KeepsUsers /\ UNCHANGED <<sessionVars, cut, readers, writer>>
    BY DEF LockOther, KeepsUsers, fieldVars
  <1>2. FrameOK(at[t]) /\ InPlace(t) /\ DOMAIN at = Threads /\ t # NoThread
    BY ThreadFacts
  <1>3. /\ at[t].call = "answer" /\ at[t].slot \in Users /\ lock[at[t].slot] = t
        /\ StillOwn(t) /\ v \in Users /\ at[t].other \in Sids /\ at[t].sid \in Sids
        /\ at[t].pc \notin LeavePcs \cup {"create", "count"}
    BY <1>1, AnswerFacts
  <1>4. CASE user[v].sid # at[t].other /\ at' = [at EXCEPT ![t] = f] /\ lock' = lock
    <2>1. /\ FrameOK(f) /\ f.pc = "add"
          /\ f.call = at[t].call /\ f.sid = at[t].sid /\ f.acct = at[t].acct
          /\ f.slot = at[t].slot
      BY <1>2 DEF FrameOK, Idle, Pcs
    <2>2. at'[t] = f
      BY <1>2, <1>4
    <2> HIDE DEF f
    <2>3. LocksMove(t)
      BY <1>1, <1>3, <1>4, TakesLock
    <2>4. ThreadOK(t)'
      BY <1>1, <1>2, <1>3, <1>4, <2>1, <2>2, AnswerInPlace DEF KeepsUsers
    <2> QED
      BY <1>1, <1>3, <1>4, <2>1, <2>3, <2>4, QuietGoesOn
  <1>5. CASE user[v].sid = at[t].other /\ Lock(t, v) /\ BeginRelease(t, v)
    <2>1. v # at[t].slot
      BY <1>1, <1>2, <1>3
    <2>2. user[v].sid # at[t].sid
      BY <1>3, <2>1, SlotOfSession DEF StillOwn, Sids
    <2>3. LocksMove(t) /\ lock'[v] = t /\ lock'[at[t].slot] = t
      BY <1>1, <1>3, <1>5, TakesLock
    <2> QED
      BY <1>1, <1>3, <1>5, <2>1, <2>2, <2>3, ReleaseBegins DEF BeginRelease
  <1> QED
    BY <1>4, <1>5 DEF LockOther

\* A thread past its Lock in the handler of a message.
LEMMA MessageInPlace ==
  ASSUME NEW t \in Threads, NEW f, FrameOK(f), InPlace(t), at'[t] = f,
         f.pc \in MessagePcs, at[t].call = "message",
         f.call = at[t].call, f.sid = at[t].sid, f.slot = at[t].slot,
         at[t].pc # "idle", at[t].pc # "full",
         f.pc = "moveSecond" => f.dest \in Sectors,
         lock'[at[t].slot] = t, user' = user, StillOwn(t), StateOf(t) = "INFIELD"
  PROVE  ThreadOK(t)'
PROOF
  <1>1. InPlace(t)'
    BY DEF InPlace, AnswerPcs, MessagePcs, LeavePcs
  <1>2. Locked(t)'
    BY DEF Locked, HoldsSlot, MessagePcs, LeavePcs
  <1>3. Found(t)'
    BY DEF Found, StillOwn, StateOf, MessagePcs, LeavePcs
  <1> QED
    BY <1>1, <1>2, <1>3 DEF ThreadOK

\* What holds of a thread there before it moves.
LEMMA MessageFacts ==
  ASSUME ChatIInv, NEW t \in Threads, at[t].pc \in MessagePcs
  PROVE  /\ at[t].call = "message" /\ at[t].sid \in Sids
         /\ at[t].slot \in Users /\ lock[at[t].slot] = t /\ StillOwn(t)
         /\ StateOf(t) = "INFIELD"
         /\ at[t].pc = "moveSecond" => at[t].dest \in Sectors
         /\ at[t].pc \notin LeavePcs \cup {"create", "count"}
PROOF
  BY ThreadFacts DEF InPlace, Locked, Found, HoldsSlot, MessagePcs, LeavePcs

\* What holds of a thread that may handle a message.
LEMMA HandlesFacts ==
  ASSUME ChatIInv, NEW t \in Threads, NEW m, Handles(t, m)
  PROVE  /\ at[t].pc = "lock" /\ at[t].call = "message" /\ at[t].sid \in Sids
         /\ at[t].slot \in Users /\ lock[at[t].slot] = NoThread
         /\ user[at[t].slot].sid = at[t].sid /\ StillOwn(t)
         /\ at[t].pc \notin LeavePcs \cup {"create", "count"}
PROOF
  BY ThreadFacts DEF Handles, Enter, StillOwn, InPlace, LeavePcs

\* The first sector of a move is locked: MoveLocksFirst keeps the invariant.
LEMMA MoveLocksFirstInv ==
  ASSUME ChatIInv, NEW t \in Threads, NEW p \in Sectors, MoveLocksFirst(t, p)
  PROVE  ChatIInv'
PROOF
  <1> DEFINE u == at[t].slot
             f == [at[t] EXCEPT !.pc = "moveSecond", !.dest = p]
  <1>1. /\ Handles(t, "move") /\ InSectorRange(user[u].pos) /\ StateOf(t) # "WAIT_LOGIN"
        /\ Lock(t, u) /\ LockFirst(t, user[u].pos, p) /\ at' = [at EXCEPT ![t] = f]
        /\ KeepsUsers /\ UNCHANGED <<sessionVars, cut>>
    BY DEF MoveLocksFirst, InTurn, LockFirst, KeepsUsers
  <1>2. FrameOK(at[t]) /\ InPlace(t) /\ DOMAIN at = Threads
    BY ThreadFacts
  <1>3. /\ at[t].pc = "lock" /\ at[t].call = "message" /\ u \in Users
        /\ lock[u] = NoThread /\ StillOwn(t)
        /\ at[t].pc \notin LeavePcs \cup {"create", "count"}
    BY <1>1, HandlesFacts
  <1>4. StateOf(t) = "INFIELD"
    BY <1>1, <1>3 DEF Handles, ChatIInv, UsersMapped, InSectorRange, LoggedIn, StateOf
  <1>5. /\ FrameOK(f) /\ f.pc = "moveSecond" /\ f.dest = p
        /\ f.call = at[t].call /\ f.sid = at[t].sid /\ f.acct = at[t].acct
        /\ f.slot = at[t].slot
    BY <1>2 DEF FrameOK, Idle, Pcs
  <1>6. at'[t] = f
    BY <1>1, <1>2
  <1> HIDE DEF f
  <1>7. LocksMove(t) /\ lock'[u] = t
    BY <1>1, <1>3 DEF Lock, LockFirst, LocksMove, ChatIInv, UsersTypeOK
  <1>8. ThreadOK(t)'
    BY <1>1, <1>2, <1>3, <1>4, <1>5, <1>6, <1>7, MessageInPlace DEF KeepsUsers, MessagePcs
  <1> QED
    BY <1>1, <1>3, <1>5, <1>7, <1>8, QuietGoesOn

\* One more sector around is locked: LockAround keeps the invariant.
LEMMA LockAroundInv ==
  ASSUME ChatIInv, NEW t \in Threads, LockAround(t)
  PROVE  ChatIInv'
PROOF
  <1> DEFINE u == at[t].slot
             n == at[t].left + 1
             l == IF n = Len(Around(t)) THEN "copy" ELSE "lockAround"
             m == IF n = Len(Around(t)) THEN 1 ELSE n
             f == [at[t] EXCEPT !.pc = l, !.left = m]
  <1>1. /\ at' = [at EXCEPT ![t] = f] /\ LockShared(t, Around(t)[n])
        /\ KeepsUsers /\ UNCHANGED <<sessionVars, cut>>
        /\ \/ Handles(t, "chat") /\ Lock(t, u)
           \/ at[t].pc = "lockAround" /\ UNCHANGED lock
    BY DEF LockAround, InTurn, LockShared, KeepsUsers
  <1>2. FrameOK(at[t]) /\ InPlace(t) /\ DOMAIN at = Threads
    BY ThreadFacts
  <1>3. /\ at[t].call = "message" /\ u \in Users /\ StillOwn(t) /\ StateOf(t) = "INFIELD"
        /\ lock[u] \in {NoThread, t} /\ lock'[u] = t
        /\ at[t].pc \notin LeavePcs \cup {"create", "count", "idle", "full"}
    <2>1. CASE Handles(t, "chat") /\ Lock(t, u)
      <3>1. /\ at[t].pc = "lock" /\ at[t].call = "message" /\ u \in Users
            /\ lock[u] = NoThread /\ StillOwn(t) /\ StateOf(t) = "INFIELD"
        BY <2>1, HandlesFacts DEF Handles
      <3> QED
        BY <2>1, <3>1 DEF Lock, LeavePcs, ChatIInv, UsersTypeOK
    <2>2. CASE at[t].pc = "lockAround" /\ UNCHANGED lock
      BY <2>2, MessageFacts DEF MessagePcs, LeavePcs
    <2> QED
      BY <1>1, <2>1, <2>2
  <1>4. l \in {"copy", "lockAround"}
    OBVIOUS
  <1> HIDE DEF l, m
  <1>5. /\ FrameOK(f) /\ f.pc = l
        /\ f.call = at[t].call /\ f.sid = at[t].sid /\ f.acct = at[t].acct
        /\ f.slot = at[t].slot
    BY <1>2, <1>4 DEF FrameOK, Idle, Pcs
  <1>6. at'[t] = f
    BY <1>1, <1>2
  <1> HIDE DEF f
  <1>7. LocksMove(t)
    BY <1>1 DEF Lock, LockShared, LocksMove, ChatIInv, UsersTypeOK
  <1>8. ThreadOK(t)'
    BY <1>1, <1>2, <1>3, <1>4, <1>5, <1>6, MessageInPlace DEF KeepsUsers, MessagePcs
  <1> QED
    BY <1>1, <1>3, <1>4, <1>5, <1>7, <1>8, QuietGoesOn

\* One sector is copied and unlocked: CopySector keeps the invariant.
LEMMA CopySectorInv ==
  ASSUME ChatIInv, NEW t \in Threads, CopySector(t)
  PROVE  ChatIInv'
PROOF
  <1> DEFINE n == at[t].left
             e == Copied(Around(t)[n], at[t].seen)
             f == [at[t] EXCEPT !.seen = e, !.left = n + 1]
  <1>1. /\ at[t].pc = "copy" /\ UnlockShared(t, Around(t)[n])
        /\ KeepsUsers /\ UNCHANGED cut
    BY DEF CopySector, UnlockShared, KeepsUsers
  <1>2. FrameOK(at[t]) /\ InPlace(t) /\ DOMAIN at = Threads
    BY ThreadFacts
  <1>3. /\ at[t].call = "message" /\ at[t].slot \in Users /\ lock[at[t].slot] = t
        /\ StillOwn(t) /\ StateOf(t) = "INFIELD"
        /\ at[t].pc \notin LeavePcs \cup {"create", "count"}
    BY <1>1, MessageFacts DEF MessagePcs
  <1>4. /\ readers' \in [Sectors -> SUBSET Threads]
        /\ writer' \in [Sectors -> Threads \cup {NoThread}]
    BY <1>1 DEF UnlockShared, ChatIInv, UsersTypeOK
  <1>5. CASE at' = [at EXCEPT ![t] = f] /\ UNCHANGED <<lock, sessionVars>>
    <2> HIDE DEF e
    <2>1. /\ FrameOK(f) /\ f.pc = "copy"
          /\ f.call = at[t].call /\ f.sid = at[t].sid /\ f.acct = at[t].acct
          /\ f.slot = at[t].slot
      BY <1>1, <1>2 DEF FrameOK, Idle, Pcs
    <2>2. at'[t] = f
      BY <1>2, <1>5
    <2> HIDE DEF f
    <2>3. LocksMove(t)
      BY <1>4, <1>5 DEF LocksMove, ChatIInv, UsersTypeOK
    <2>4. ThreadOK(t)'
      BY <1>1, <1>2, <1>3, <1>5, <2>1, <2>2, MessageInPlace DEF KeepsUsers, MessagePcs
    <2> QED
      BY <1>1, <1>3, <1>5, <2>1, <2>3, <2>4, QuietGoesOn
  <1>6. CASE Unlock(at[t].slot) /\ Return(t)
    <2>1. LocksMove(t)
      BY <1>3, <1>4, <1>6 DEF Unlock, LocksMove, ChatIInv, UsersTypeOK
    <2> QED
      BY <1>1, <1>3, <1>6, <2>1, QuietReturn
  <1> QED
    BY <1>5, <1>6 DEF CopySector

-----------------------------------------------------------------------------
(* Handlers begin, and sessions end.                                        *)

\* A thread that waits for the lock of a slot is in place.
LEMMA WaiterInPlace ==
  ASSUME NEW t \in Threads, NEW f, at'[t] = f, f.pc = "lock",
         f.call \in {"message", "answer", "release"}, f.sid \in Sids, f.slot \in Users,
         f.call = "answer" => f.acct \in Accounts
  PROVE  ThreadOK(t)'
PROOF
  <1>1. InPlace(t)'
    BY DEF InPlace, AnswerPcs, MessagePcs, LeavePcs
  <1>2. Locked(t)'
    BY DEF Locked, HoldsSlot, AnswerPcs, MessagePcs, LeavePcs
  <1>3. Found(t)'
    BY DEF Found, HoldsSlot, AnswerPcs, MessagePcs, LeavePcs
  <1> QED
    BY <1>1, <1>2, <1>3 DEF ThreadOK

\* What Begin makes of an idle thread.
BeginsAs(t, call, s, a) ==
    IF sidToUser[s] = NoUser THEN Idle
    ELSE [Idle EXCEPT !.pc = "lock", !.call = call, !.sid = s, !.slot = sidToUser[s],
                      !.acct = a]

\* A handler begins: what that does to the thread.
LEMMA BeginMoves ==
  ASSUME ChatIInv, NEW t \in Threads, NEW call \in {"message", "answer", "release"},
         NEW s \in Sids, NEW a \in Accounts \cup {NoAccount}, call = "answer" => a \in Accounts,
         at[t].pc = "idle", Begin(t, call, s, a), UNCHANGED <<fieldVars, userVars>>
  PROVE  /\ DOMAIN at' = Threads /\ \A r \in Threads : FrameOK(at[r])'
         /\ Others(t) /\ QuietMove(t) /\ ThreadOK(t)' /\ Guarded(t)
         /\ at[t].call = "none"
         /\ IF sidToUser[s] = NoUser
            THEN at'[t].pc = "idle" /\ at'[t].call = "none"
            ELSE /\ at'[t].pc = "lock" /\ at'[t].call = call /\ at'[t].sid = s
                 /\ at'[t].slot = sidToUser[s] /\ at'[t].acct = a
PROOF
  <1> DEFINE f == BeginsAs(t, call, s, a)
  <1>1. at' = [at EXCEPT ![t] = f]
    BY DEF Begin, BeginsAs
  <1>2. sidToUser[s] \in Users \cup {NoUser} /\ at[t].call = "none"
    BY ThreadFacts DEF ChatIInv, UsersTypeOK, InPlace
  <1>3. /\ FrameOK(f)
        /\ IF sidToUser[s] = NoUser
           THEN f = Idle
           ELSE /\ f.pc = "lock" /\ f.call = call /\ f.sid = s
                /\ f.slot = sidToUser[s] /\ f.acct = a
    BY <1>2 DEF BeginsAs, FrameOK, Idle, Pcs, Calls
  <1> HIDE DEF f
  <1>4. /\ DOMAIN at' = Threads /\ \A r \in Threads : FrameOK(at[r])'
        /\ at'[t] = f /\ Others(t)
    BY <1>1, <1>3, MovesTyped DEF ChatIInv
  <1>5. ThreadOK(t)'
    BY <1>2, <1>3, <1>4, IdleInPlace, WaiterInPlace
  <1>6. QuietMove(t)
    BY <1>3, <1>4, IdleTyped DEF QuietMove, userVars, fieldVars, LeavePcs
  <1>7. Guarded(t)
    BY DEF Guarded, userVars
  <1> QED
    BY <1>2, <1>3, <1>4, <1>5, <1>6, <1>7, IdleTyped

\* A step that begins a handler keeps the invariant if the sessions, the
\* requests and the releases agree afterwards.
LEMMA BeginStep ==
  ASSUME ChatIInv, NEW t \in Threads, UsersTypeOK', QuietMove(t), ThreadOK(t)', Guarded(t),
         (SessionsOpen /\ AskedOnce /\ ReleasesLate)'
  PROVE  ChatIInv'
PROOF
  <1>1. \A r \in Threads \ {t} : ThreadOK(r)'
    BY OtherThreads DEF ChatIInv, ThreadOK, QuietMove
  <1>2. (UsersMapped /\ SlotsHeld /\ LoginsNamed /\ CountExact /\ ListsExact)'
    BY QuietUsers DEF ChatIInv
  <1> QED
    BY <1>1, <1>2 DEF ChatIInv, ThreadOK

\* A message comes: ReceiveMessage keeps the invariant.
LEMMA ReceiveMessageInv ==
  ASSUME ChatIInv, NEW t \in Workers, NEW s \in Sids, ReceiveMessage(t, s)
  PROVE  ChatIInv'
PROOF
  <1>1. /\ at[t].pc = "idle" /\ sidToUser[s] # NoUser
        /\ app[s] = "open" /\ s \notin ended /\ s \notin running
        /\ running' = running \cup {s} /\ UNCHANGED <<app, ended>>
        /\ Begin(t, "message", s, NoAccount)
        /\ UNCHANGED <<fieldVars, cut, userVars, requests>>
    BY DEF ReceiveMessage, Contract!OnMessage
  <1>2. t \in Threads /\ Acceptor \in Threads
    BY DEF Threads
  <1>3. /\ DOMAIN at' = Threads /\ \A r \in Threads : FrameOK(at[r])'
        /\ Others(t) /\ QuietMove(t) /\ ThreadOK(t)' /\ Guarded(t)
        /\ at'[t].pc = "lock" /\ at'[t].call = "message" /\ at'[t].sid = s
    BY <1>1, <1>2, BeginMoves
  <1>4. UsersTypeOK'
    BY <1>1, <1>3 DEF ChatIInv, UsersTypeOK, fieldVars, userVars
  <1>5. \A r \in Threads : r # t => at'[r] = at[r]
    BY <1>3 DEF Others
  <1>6. InCallback(t)' /\ \A r \in Threads : r # t => (InCallback(r)' <=> InCallback(r))
    BY <1>3, <1>5 DEF InCallback
  <1>7. sidToUser' = sidToUser /\ user' = user /\ requests' = requests
    BY <1>1 DEF userVars
  <1>8. \A r \in Threads : InCallback(r) => at[r].sid # s
    BY <1>1 DEF ChatIInv, SessionsOpen
  <1>9. SessionsOpen'
    BY <1>1, <1>2, <1>3, <1>5, <1>6, <1>7, <1>8 DEF ChatIInv, SessionsOpen
  <1>10. \A r \in Threads : /\ Answers(r)' => Answers(r) /\ at'[r] = at[r]
                            /\ Answering(r)' => Answering(r) /\ at'[r] = at[r]
                            /\ at'[r].pc = "create" => at'[r] = at[r]
    BY <1>3, <1>5 DEF Answers, Answering
  <1>11. \A x, a : Awaits(x, a)' <=> Awaits(x, a)
    BY <1>1, <1>7 DEF Awaits
  <1>12. AskedOnce'
    BY <1>1, <1>2, <1>7, <1>10, <1>11 DEF ChatIInv, AskedOnce
  <1>13. at[t].call # "release"
    BY <1>1, <1>2, ThreadFacts DEF InPlace
  <1>14. ReleasesLate'
    BY <1>1, <1>3, <1>5, <1>7, <1>13 DEF ChatIInv, ReleasesLate
  <1> QED
    BY <1>2, <1>3, <1>4, <1>9, <1>12, <1>14, BeginStep

\* An answer comes: ReceiveAnswer keeps the invariant.
LEMMA ReceiveAnswerInv ==
  ASSUME ChatIInv, NEW t \in Workers, NEW m \in requests, ReceiveAnswer(t, m)
  PROVE  ChatIInv'
PROOF
  <1>1. /\ at[t].pc = "idle" /\ requests' = requests \ {m}
        /\ Begin(t, "answer", m.sid, m.acct)
        /\ UNCHANGED <<fieldVars, sessionVars, cut, userVars>>
    BY DEF ReceiveAnswer
  <1>2. t \in Threads /\ Acceptor \in Threads /\ t # Acceptor
    BY ChatAssumption DEF Threads
  <1>3. m.sid \in Sids /\ m.acct \in Accounts
    BY DEF ChatIInv, UsersTypeOK
  <1>4. /\ DOMAIN at' = Threads /\ \A r \in Threads : FrameOK(at[r])'
        /\ Others(t) /\ QuietMove(t) /\ ThreadOK(t)' /\ Guarded(t) /\ at[t].call = "none"
        /\ \/ at'[t].pc = "idle" /\ at'[t].call = "none"
           \/ /\ at'[t].pc = "lock" /\ at'[t].call = "answer" /\ at'[t].sid = m.sid
              /\ at'[t].acct = m.acct
    BY <1>1, <1>2, <1>3, BeginMoves
  <1>5. UsersTypeOK'
    BY <1>1, <1>4 DEF ChatIInv, UsersTypeOK, fieldVars, userVars, sessionVars
  <1>6. \A r \in Threads : r # t => at'[r] = at[r]
    BY <1>4 DEF Others
  <1>7. /\ sidToUser' = sidToUser /\ user' = user /\ app' = app /\ ended' = ended
        /\ running' = running
    BY <1>1 DEF userVars, sessionVars
  <1>8. \A r \in Threads : InCallback(r)' => InCallback(r) /\ at'[r] = at[r]
    BY <1>4, <1>6 DEF InCallback
  <1>9. SessionsOpen'
    BY <1>4, <1>6, <1>7, <1>8 DEF ChatIInv, SessionsOpen
  <1>10. \A x, a : Awaits(x, a)' <=> Awaits(x, a)
    BY <1>7 DEF Awaits
  <1>11. ~Answers(t)
    BY <1>4 DEF Answers
  <1>12. \A r \in Threads : r # t => /\ Answers(r)' <=> Answers(r)
                                     /\ Answering(r)' <=> Answering(r)
    BY <1>6 DEF Answers, Answering
  <1>13. at'[Acceptor] = at[Acceptor]
    BY <1>2, <1>6
  <1>14. Answers(t)' => at'[t].sid = m.sid /\ at'[t].acct = m.acct
    BY <1>4 DEF Answers
  <1>15. AskedOnce'
    <2>1. \A n \in requests' : n \in requests /\ n # m /\ n.sid # m.sid
      BY <1>1 DEF ChatIInv, AskedOnce
    <2>2. \A r \in Threads : Answers(r) => at[r].sid # m.sid
      BY DEF ChatIInv, AskedOnce
    <2>3. Awaits(m.sid, m.acct) /\ (at[Acceptor].pc = "create" => at[Acceptor].sid # m.sid)
      BY DEF ChatIInv, AskedOnce
    <2>4. ASSUME NEW n \in requests'
          PROVE  /\ Awaits(n.sid, n.acct)'
                 /\ \A k \in requests' : n.sid = k.sid => n = k
                 /\ \A r \in Threads : Answers(r)' => at'[r].sid # n.sid
                 /\ at'[Acceptor].pc = "create" => at'[Acceptor].sid # n.sid
      BY <1>6, <1>10, <1>12, <1>13, <1>14, <2>1, <2>4 DEF ChatIInv, AskedOnce
    <2>5. ASSUME NEW r \in Threads
          PROVE  /\ Answering(r)' => (Awaits(at[r].sid, at[r].acct))'
                 /\ Answers(r)' => app'[at'[r].sid] # "none"
                 /\ Answers(r)' /\ at'[Acceptor].pc = "create" => at'[Acceptor].sid # at'[r].sid
      <3>1. CASE r = t
        <4>1. Answering(t)' => Answers(t)'
          BY DEF Answering
        <4>2. Awaits(m.sid, m.acct)' /\ app'[m.sid] # "none"
          BY <1>7, <1>10, <2>3 DEF Awaits
        <4> QED
          BY <3>1, <1>13, <1>14, <2>3, <4>1, <4>2
      <3>2. CASE r # t
        <4>1. at'[r] = at[r]
          BY <3>2, <1>6
        <4> QED
          BY <3>2, <4>1, <1>7, <1>10, <1>12, <1>13 DEF ChatIInv, AskedOnce
      <3> QED
        BY <3>1, <3>2
    <2>6. ASSUME NEW r \in Threads, NEW q \in Threads, Answers(r)', Answers(q)',
                 at'[r].sid = at'[q].sid
          PROVE  r = q
      BY <1>6, <1>12, <1>14, <2>2, <2>6 DEF ChatIInv, AskedOnce
    <2> QED
      BY <2>4, <2>5, <2>6 DEF AskedOnce
  <1>16. ReleasesLate'
    BY <1>4, <1>6, <1>7 DEF ChatIInv, ReleasesLate
  <1> QED
    BY <1>2, <1>4, <1>5, <1>9, <1>15, <1>16, BeginStep

\* OnRelease comes: ReceiveRelease keeps the invariant.
LEMMA ReceiveReleaseInv ==
  ASSUME ChatIInv, NEW t \in Workers, NEW s \in Sids, ReceiveRelease(t, s)
  PROVE  ChatIInv'
PROOF
  <1>1. /\ at[t].pc = "idle" /\ s \in ended /\ app[s] # "released"
        /\ app' = [app EXCEPT ![s] = "released"] /\ UNCHANGED <<running, ended>>
        /\ Begin(t, "release", s, NoAccount)
        /\ UNCHANGED <<fieldVars, cut, userVars, requests>>
    BY DEF ReceiveRelease, Contract!OnRelease
  <1>2. t \in Threads /\ Acceptor \in Threads
    BY DEF Threads
  <1>3. /\ DOMAIN at' = Threads /\ \A r \in Threads : FrameOK(at[r])'
        /\ Others(t) /\ QuietMove(t) /\ ThreadOK(t)' /\ Guarded(t) /\ at[t].call = "none"
        /\ \/ sidToUser[s] = NoUser /\ at'[t].pc = "idle" /\ at'[t].call = "none"
           \/ /\ at'[t].pc = "lock" /\ at'[t].call = "release" /\ at'[t].sid = s
              /\ at'[t].slot = sidToUser[s]
    BY <1>1, <1>2, BeginMoves
  <1>4. /\ app'[s] = "released" /\ \A x \in Sids : x # s => app'[x] = app[x]
        /\ app' \in [Sids -> {"none", "open", "released"}]
    BY <1>1 DEF ChatIInv, UsersTypeOK
  <1>5. UsersTypeOK'
    BY <1>1, <1>3, <1>4 DEF ChatIInv, UsersTypeOK, fieldVars, userVars
  <1>6. \A r \in Threads : r # t => at'[r] = at[r]
    BY <1>3 DEF Others
  <1>7. sidToUser' = sidToUser /\ user' = user /\ requests' = requests
    BY <1>1 DEF userVars
  <1>8. \A r \in Threads : InCallback(r)' => InCallback(r) /\ at'[r] = at[r]
    BY <1>3, <1>6 DEF InCallback
  <1>9. SessionsOpen'
    <2>1. \A r \in Threads : InCallback(r) => at[r].sid \in Sids /\ at[r].sid # s
      BY <1>1 DEF ChatIInv, SessionsOpen, UsersTypeOK
    <2> QED
      BY <1>1, <1>3, <1>4, <1>6, <1>7, <1>8, <2>1 DEF ChatIInv, SessionsOpen
  <1>10. \A x \in Sids : \A a : Awaits(x, a) => Awaits(x, a)'
    BY <1>4, <1>7 DEF Awaits
  <1>11. \A r \in Threads : /\ Answers(r)' => Answers(r) /\ at'[r] = at[r] /\ at[r].sid \in Sids
                            /\ Answering(r)' => Answering(r) /\ at'[r] = at[r]
                            /\ at'[r].pc = "create" => at'[r] = at[r]
    <2>1. \A r \in Threads : /\ Answers(r)' => Answers(r) /\ at'[r] = at[r]
                             /\ Answering(r)' => Answering(r) /\ at'[r] = at[r]
                             /\ at'[r].pc = "create" => at'[r] = at[r]
      BY <1>3, <1>6 DEF Answers, Answering
    <2>2. \A r \in Threads : Answers(r) => at[r].sid \in Sids
      BY ThreadFacts DEF Answers, InPlace
    <2> QED
      BY <2>1, <2>2
  <1>12. \A n \in requests : n.sid \in Sids
    BY DEF ChatIInv, UsersTypeOK
  <1>13. AskedOnce'
    <2>1. \A x \in Sids : app[x] # "none" => app'[x] # "none"
      BY <1>4
    <2>2. \A r \in Threads : Answering(r) => Answers(r)
      BY DEF Answering
    <2>3. ASSUME NEW n \in requests'
          PROVE  /\ (Awaits(n.sid, n.acct))'
                 /\ \A k \in requests' : n.sid = k.sid => n = k
                 /\ \A r \in Threads : Answers(r)' => at'[r].sid # n.sid
                 /\ at'[Acceptor].pc = "create" => at'[Acceptor].sid # n.sid
      BY <1>2, <1>7, <1>10, <1>11, <1>12, <2>3 DEF ChatIInv, AskedOnce
    <2>4. ASSUME NEW r \in Threads
          PROVE  /\ Answering(r)' => (Awaits(at[r].sid, at[r].acct))'
                 /\ Answers(r)' => app'[at'[r].sid] # "none"
                 /\ Answers(r)' /\ at'[Acceptor].pc = "create" => at'[Acceptor].sid # at'[r].sid
      <3>1. Answers(r) => /\ at[r].sid \in Sids /\ app[at[r].sid] # "none"
                          /\ at[Acceptor].pc = "create" => at[Acceptor].sid # at[r].sid
        BY ThreadFacts DEF ChatIInv, AskedOnce, Answers, InPlace
      <3>2. Answering(r) => Awaits(at[r].sid, at[r].acct)
        BY DEF ChatIInv, AskedOnce
      <3>3. Answering(r)' => (Awaits(at[r].sid, at[r].acct))'
        <4> SUFFICES ASSUME Answering(r)' PROVE (Awaits(at[r].sid, at[r].acct))'
          OBVIOUS
        <4>1. /\ Awaits(at[r].sid, at[r].acct) /\ at[r].sid \in Sids /\ at'[r] = at[r]
          BY <1>11, <2>2, <3>1, <3>2
        <4> QED
          BY <4>1, <1>4, <1>7 DEF Awaits
      <3> QED
        BY <1>2, <1>11, <2>1, <3>1, <3>3
    <2>5. \A r, q \in Threads : Answers(r)' /\ Answers(q)' /\ at'[r].sid = at'[q].sid => r = q
      BY <1>11 DEF ChatIInv, AskedOnce
    <2> QED
      BY <2>3, <2>4, <2>5 DEF AskedOnce
  <1>14. ReleasesLate'
    <2>1. \A r \in Threads : at[r].call = "release" => at[r].sid # s /\ at[r].sid \in Sids
      BY <1>1, ThreadFacts DEF ChatIInv, ReleasesLate, InPlace
    <2>2. ASSUME NEW r \in Threads, at'[r].call = "release"
          PROVE  /\ app'[at'[r].sid] = "released"
                 /\ sidToUser'[at'[r].sid] \in {NoUser, at'[r].slot}
                 /\ at'[r].pc = "leaveSlot" => sidToUser'[at'[r].sid] = NoUser
      <3>1. CASE r = t
        BY <3>1, <2>2, <1>3, <1>4, <1>7
      <3>2. CASE r # t
        BY <3>2, <2>1, <2>2, <1>4, <1>6, <1>7 DEF ChatIInv, ReleasesLate
      <3> QED
        BY <3>1, <3>2
    <2>3. ASSUME NEW x \in Sids, app'[x] = "released", sidToUser'[x] # NoUser
          PROVE  \E r \in Threads : at'[r].call = "release" /\ at'[r].sid = x
      <3>1. CASE x = s
        BY <3>1, <2>3, <1>2, <1>3, <1>7
      <3>2. CASE x # s
        <4>1. PICK r \in Threads : at[r].call = "release" /\ at[r].sid = x
          BY <3>2, <2>3, <1>4, <1>7 DEF ChatIInv, ReleasesLate
        <4>2. at'[r] = at[r]
          BY <4>1, <1>3, <1>6
        <4> QED
          BY <4>1, <4>2
      <3> QED
        BY <3>1, <3>2
    <2> QED
      BY <2>2, <2>3 DEF ReleasesLate
  <1> QED
    BY <1>2, <1>3, <1>5, <1>9, <1>13, <1>14, BeginStep

\* A user silent for too long: Timeout keeps the invariant.
LEMMA TimeoutInv ==
  ASSUME ChatIInv, NEW u \in Users, Timeout(u)
  PROVE  ChatIInv'
PROOF
  <1> DEFINE t == TimeoutThread
             e == [Idle EXCEPT !.call = "timeout", !.sid = user[u].sid, !.slot = u]
             f == Releasing(e, u)
  <1>1. /\ at[t].pc = "idle" /\ user[u].state \in {"WAIT_LOGIN", "LOGIN", "INFIELD"}
        /\ Lock(t, u) /\ at' = [at EXCEPT ![t] = f]
        /\ UNCHANGED <<fieldVars, sessionVars, cut, user, indexStack, sidToUser, loginMap,
                       currentUserCnt, requests>>
    BY DEF Timeout
  <1>2. t \in Threads /\ Acceptor \in Threads
    BY DEF Threads
  <1>3. InPlace(t) /\ DOMAIN at = Threads /\ at[t].call = "none"
    BY <1>1, <1>2, ThreadFacts DEF InPlace
  <1>4. user[u].sid \in Sids
    BY <1>1, SlotOfSession
  <1>5. /\ FrameOK(e) /\ e.call = "timeout" /\ e.sid = user[u].sid /\ e.slot = u
    BY <1>4 DEF FrameOK, Idle, Pcs, Calls
  <1> HIDE DEF e
  <1>6. /\ FrameOK(f) /\ f.victim = u /\ f.other = user[u].sid
        /\ f.call = "timeout" /\ f.sid \in Sids /\ f.slot = u
        /\ f.pc \in {"leaveSector", "leaveLogin", "leaveSid"}
        /\ f.pc = "leaveSector" <=> user[u].state = "INFIELD"
        /\ f.pc = "leaveLogin" <=> user[u].state = "LOGIN"
    BY <1>4, <1>5, ReleasingTyped
  <1> HIDE DEF f
  <1>7. /\ DOMAIN at' = Threads /\ \A r \in Threads : FrameOK(at[r])'
        /\ at'[t] = f /\ Others(t)
    BY <1>1, <1>2, <1>6, MovesTyped DEF ChatIInv
  <1> HIDE DEF t
  <1>8. /\ user' = user /\ sidToUser' = sidToUser /\ app' = app /\ running' = running
        /\ ended' = ended /\ requests' = requests /\ lock'[u] = t
        /\ \A w \in Users : lock[w] # NoThread => lock'[w] = lock[w]
        /\ lock' \in [Users -> Threads \cup {NoThread}]
    BY <1>1, <1>2 DEF sessionVars, Lock, ChatIInv, UsersTypeOK
  <1>9. UsersTypeOK'
    BY <1>1, <1>7, <1>8 DEF ChatIInv, UsersTypeOK, fieldVars
  <1>10. Guarded(t)
    BY <1>8 DEF Guarded
  <1>11. ThreadOK(t)'
    <2>1. InPlace(t)'
      BY <1>4, <1>6, <1>7 DEF InPlace, AnswerPcs, MessagePcs, LeavePcs, t
    <2>2. ~HoldsSlot(t)'
      BY <1>6, <1>7 DEF HoldsSlot, AnswerPcs, MessagePcs, LeavePcs
    <2>3. Locked(t)'
      BY <1>6, <1>7, <1>8, <2>2 DEF Locked
    <2>4. Found(t)'
      BY <1>6, <1>7, <1>8, <2>2 DEF Found, LoggedIn, MessagePcs
    <2> QED
      BY <2>1, <2>3, <2>4 DEF ThreadOK
  <1>12. QuietMove(t)
    BY <1>1, <1>6, <1>7 DEF QuietMove, LeavePcs, LoggedIn, fieldVars
  <1>13. \A r \in Threads : r # t => at'[r] = at[r]
    BY <1>7 DEF Others
  <1>14. \A r \in Threads : /\ InCallback(r)' => InCallback(r) /\ at'[r] = at[r]
                            /\ Answers(r)' => Answers(r) /\ at'[r] = at[r]
                            /\ Answering(r)' => Answering(r) /\ at'[r] = at[r]
                            /\ at'[r].pc = "create" => at'[r] = at[r]
    BY <1>6, <1>7, <1>13 DEF InCallback, Answers, Answering
  <1>15. SessionsOpen'
    BY <1>8, <1>14 DEF ChatIInv, SessionsOpen
  <1>16. \A x, a : Awaits(x, a)' <=> Awaits(x, a)
    BY <1>8 DEF Awaits
  <1>17. AskedOnce'
    BY <1>2, <1>8, <1>14, <1>16 DEF ChatIInv, AskedOnce
  <1>18. at[t].call # "release" /\ at'[t].call # "release"
    BY <1>3, <1>6, <1>7 DEF t
  <1>19. ReleasesLate'
    BY <1>8, <1>13, <1>18 DEF ChatIInv, ReleasesLate
  <1> QED
    BY <1>2, <1>9, <1>10, <1>11, <1>12, <1>15, <1>17, <1>19, BeginStep DEF t

\* Nothing about users, maps, lists, locks or threads changes.
LEMMA NothingMoves ==
  ASSUME ChatIInv, UNCHANGED <<fieldVars, userVars, at>>, UsersTypeOK',
         (SessionsOpen /\ AskedOnce /\ ReleasesLate)'
  PROVE  ChatIInv'
PROOF
  <1>1. /\ at' = at /\ user' = user /\ lock' = lock /\ sidToUser' = sidToUser
        /\ indexStack' = indexStack /\ loginMap' = loginMap
        /\ currentUserCnt' = currentUserCnt /\ sessionIdList' = sessionIdList
    BY DEF fieldVars, userVars
  <1>2. \A t \in Threads : InPlace(t)' /\ Locked(t)' /\ Found(t)'
    BY <1>1 DEF ChatIInv, InPlace, Locked, Found, HoldsSlot, StillOwn, StateOf
  <1>3. UsersMapped' /\ SlotsHeld'
    BY <1>1 DEF ChatIInv, UsersMapped, SlotsHeld, OnStack, HasIndex
  <1>4. LoginsNamed' /\ CountExact'
    BY <1>1 DEF ChatIInv, LoginsNamed, CountExact, IsLogin, Leaving, BeingReleased
  <1>5. ListsExact'
    BY <1>1 DEF ChatIInv, ListsExact, Stands, BeingReleased
  <1> QED
    BY <1>2, <1>3, <1>4, <1>5 DEF ChatIInv

\* A session ends: SessionEnds keeps the invariant.
LEMMA SessionEndsInv ==
  ASSUME ChatIInv, NEW s \in Sids, SessionEnds(s)
  PROVE  ChatIInv'
PROOF
  <1>1. /\ s \notin running /\ ended' = ended \cup {s} /\ app' = app /\ running' = running
        /\ cut' = cut \ {s} /\ UNCHANGED <<fieldVars, userVars, at>>
        /\ requests' = requests /\ at' = at /\ sidToUser' = sidToUser /\ user' = user
    BY DEF SessionEnds, Contract!End, userVars
  <1>2. UsersTypeOK'
    BY <1>1 DEF ChatIInv, UsersTypeOK, fieldVars, userVars, FrameOK, Idle
  <1>3. SessionsOpen'
    BY <1>1 DEF ChatIInv, SessionsOpen, InCallback
  <1>4. AskedOnce'
    BY <1>1 DEF ChatIInv, AskedOnce, Awaits, Answers, Answering
  <1>5. ReleasesLate'
    BY <1>1 DEF ChatIInv, ReleasesLate
  <1> QED
    BY <1>1, <1>2, <1>3, <1>4, <1>5, NothingMoves

\* Redis does not know the client: AuthFails keeps the invariant.
LEMMA AuthFailsInv ==
  ASSUME ChatIInv, NEW m \in requests, AuthFails(m)
  PROVE  ChatIInv'
PROOF
  <1>1. /\ requests' = requests \ {m} /\ UNCHANGED <<fieldVars, userVars, at, sessionVars>>
        /\ cut' \subseteq cut \cup {m.sid}
        /\ ended' = ended /\ app' = app /\ running' = running
        /\ at' = at /\ sidToUser' = sidToUser /\ user' = user
    BY DEF AuthFails, CutOff, userVars, sessionVars
  <1>2. m.sid \in Sids
    BY DEF ChatIInv, UsersTypeOK
  <1>3. UsersTypeOK'
    BY <1>1, <1>2 DEF ChatIInv, UsersTypeOK, fieldVars, userVars, FrameOK, Idle
  <1>4. SessionsOpen'
    BY <1>1 DEF ChatIInv, SessionsOpen, InCallback
  <1>5. AskedOnce'
    BY <1>1 DEF ChatIInv, AskedOnce, Awaits, Answers, Answering
  <1>6. ReleasesLate'
    BY <1>1 DEF ChatIInv, ReleasesLate
  <1> QED
    BY <1>1, <1>3, <1>4, <1>5, <1>6, NothingMoves

-----------------------------------------------------------------------------
(* Steps that change users, slots or maps: what most of them leave alone.   *)

\* Thread t moves, but not to or from the middle of ReleaseUser.
CalmMove(t) ==
    /\ Others(t)
    /\ at[t].pc \notin {"leaveLogin", "leaveSid"}
    /\ at'[t].pc \notin {"leaveLogin", "leaveSid"}

\* Then the users about to be lost are those that were.
LEMMA CalmReleases ==
  ASSUME NEW t \in Threads, CalmMove(t), NEW u
  PROVE  /\ Leaving(u)' <=> Leaving(u)
         /\ BeingReleased(u, {"leaveLogin", "leaveSid"})'
            <=> BeingReleased(u, {"leaveLogin", "leaveSid"})
PROOF
  <1>1. ASSUME NEW r \in Threads
        PROVE  /\ at'[r].pc \in {"leaveSid"} /\ at'[r].victim = u
                  <=> at[r].pc \in {"leaveSid"} /\ at[r].victim = u
               /\ at'[r].pc \in {"leaveLogin", "leaveSid"} /\ at'[r].victim = u
                  <=> at[r].pc \in {"leaveLogin", "leaveSid"} /\ at[r].victim = u
    BY DEF CalmMove, Others
  <1> QED
    BY <1>1 DEF Leaving, BeingReleased

\* Who is logged in, and as whom, has not changed.
SameLogins ==
    \A v \in Users :
        /\ user'[v].state \in LoggedIn <=> user[v].state \in LoggedIn
        /\ user[v].state \in LoggedIn => /\ user'[v].sid = user[v].sid
                                         /\ user'[v].acct = user[v].acct
                                         /\ Leaving(v)' <=> Leaving(v)

\* Then the login map agrees with the users as it did before, ...
LEMMA SameLoginsNamed ==
  ASSUME SameLogins, LoginsNamed, UNCHANGED loginMap
  PROVE  LoginsNamed'
PROOF
  <1>1. \A v \in Users : \A a : IsLogin(v, a)' <=> IsLogin(v, a)
    BY DEF SameLogins, IsLogin
  <1>2. \A v \in Users : \A a : IsLogin(v, a) => user'[v].sid = user[v].sid
    BY DEF SameLogins, IsLogin
  <1> QED
    BY <1>1, <1>2 DEF SameLogins, LoginsNamed

\* ... and so does the number of users.
LEMMA SameCount ==
  ASSUME SameLogins, CountExact, UNCHANGED <<loginMap, currentUserCnt>>,
         NEW t \in Threads, Others(t), at[t].pc # "count", at'[t].pc # "count"
  PROVE  CountExact'
PROOF
  <1>1. {a \in Accounts : loginMap[a] # 0}' = {a \in Accounts : loginMap[a] # 0}
    OBVIOUS
  <1>2. {u \in Users : user[u].state \in LoggedIn /\ Leaving(u)}'
        = {u \in Users : user[u].state \in LoggedIn /\ Leaving(u)}
    BY DEF SameLogins
  <1>3. {r \in Threads : at[r].pc = "count"}' = {r \in Threads : at[r].pc = "count"}
    BY DEF Others
  <1> QED
    BY <1>1, <1>2, <1>3 DEF CountExact

\* Who stands where has not changed.
SamePlaces ==
    \A v \in Users :
        /\ user'[v].state = "INFIELD" <=> user[v].state = "INFIELD"
        /\ user[v].state = "INFIELD" =>
               /\ user'[v].sid = user[v].sid /\ user'[v].pos = user[v].pos
               /\ BeingReleased(v, {"leaveLogin", "leaveSid"})'
                  <=> BeingReleased(v, {"leaveLogin", "leaveSid"})

\* Then the lists agree with the users as they did before.
LEMMA SamePlacesLists ==
  ASSUME SamePlaces, ListsExact, UNCHANGED sessionIdList
  PROVE  ListsExact'
PROOF
  <1>1. \A s, p : Stands(s, p)' <=> Stands(s, p)
    BY DEF SamePlaces, Stands
  <1> QED
    BY <1>1 DEF ListsExact

-----------------------------------------------------------------------------
(* OnAccept.                                                                *)

\* The content is told of session s, and the accept thread works for it.
LEMMA AcceptSessions ==
  ASSUME ChatIInv, NEW s \in Sids, Contract!OnAccept(s), Others(Acceptor),
         at[Acceptor].pc = "idle", at'[Acceptor].call = "accept", at'[Acceptor].sid = s,
         UNCHANGED <<sidToUser, user, requests>>
  PROVE  (SessionsOpen /\ AskedOnce /\ ReleasesLate)'
PROOF
  <1>1. /\ app[s] = "none" /\ s \notin ended
        /\ app' = [app EXCEPT ![s] = "open"] /\ running' = running \cup {s} /\ ended' = ended
    BY DEF Contract!OnAccept
  <1>2. Acceptor \in Threads /\ \A r \in Threads : r # Acceptor => at'[r] = at[r]
    BY DEF Threads, Others
  <1>3. app'[s] = "open" /\ \A x \in Sids : x # s => app'[x] = app[x]
    BY <1>1 DEF ChatIInv, UsersTypeOK
  <1>4. sidToUser[s] = NoUser /\ at[Acceptor].call = "none"
    BY <1>1, <1>2, ThreadFacts DEF ChatIInv, SessionsOpen, InPlace
  <1>5. \A r \in Threads : at[r].call # "none" => at[r].sid \in Sids
    BY ThreadFacts DEF InPlace
  <1>6. \A r \in Threads : InCallback(r)' <=> r = Acceptor \/ InCallback(r)
    BY <1>2 DEF InCallback
  <1>7. \A r \in Threads : InCallback(r) => /\ at[r].sid \in Sids /\ at[r].sid # s
                                            /\ r # Acceptor
    BY <1>1, <1>4, <1>5 DEF ChatIInv, SessionsOpen, InCallback
  <1>8. SessionsOpen'
    BY <1>1, <1>2, <1>3, <1>4, <1>6, <1>7 DEF ChatIInv, SessionsOpen
  <1>9. \A x \in Sids : app[x] # "none" => app'[x] # "none" /\ x # s
    BY <1>1, <1>3
  <1>10. \A x \in Sids : \A a : Awaits(x, a) => Awaits(x, a)' /\ x # s
    BY <1>9 DEF Awaits
  <1>11. \A m \in requests : m.sid \in Sids
    BY DEF ChatIInv, UsersTypeOK
  <1>12. \A r \in Threads : /\ Answers(r)' => Answers(r) /\ at'[r] = at[r] /\ at[r].sid \in Sids
                            /\ Answering(r)' => Answering(r) /\ at'[r] = at[r]
                            /\ Answering(r) => Answers(r)
    BY <1>2, <1>4, <1>5 DEF Answers, Answering
  <1>13. AskedOnce'
    <2>1. ASSUME NEW n \in requests'
          PROVE  /\ (Awaits(n.sid, n.acct))'
                 /\ \A k \in requests' : n.sid = k.sid => n = k
                 /\ \A r \in Threads : Answers(r)' => at'[r].sid # n.sid
                 /\ at'[Acceptor].sid # n.sid
      BY <1>10, <1>11, <1>12, <2>1 DEF ChatIInv, AskedOnce
    <2>2. ASSUME NEW r \in Threads
          PROVE  /\ Answering(r)' => (Awaits(at[r].sid, at[r].acct))'
                 /\ Answers(r)' => app'[at'[r].sid] # "none"
                 /\ Answers(r)' => at'[Acceptor].sid # at'[r].sid
      <3>1. Answers(r) => at[r].sid \in Sids /\ app[at[r].sid] # "none"
        BY <1>5 DEF ChatIInv, AskedOnce, Answers
      <3>2. Answering(r) => Awaits(at[r].sid, at[r].acct)
        BY DEF ChatIInv, AskedOnce
      <3>3. Answering(r)' => (Awaits(at[r].sid, at[r].acct))'
        <4> SUFFICES ASSUME Answering(r)' PROVE (Awaits(at[r].sid, at[r].acct))'
          OBVIOUS
        <4>1. Awaits(at[r].sid, at[r].acct) /\ at[r].sid \in Sids /\ at'[r] = at[r]
          BY <1>12, <3>1, <3>2
        <4> QED
          BY <4>1, <1>9 DEF Awaits
      <3> QED
        BY <1>9, <1>12, <3>1, <3>3
    <2>3. \A r, q \in Threads : Answers(r)' /\ Answers(q)' /\ at'[r].sid = at'[q].sid => r = q
      BY <1>12 DEF ChatIInv, AskedOnce
    <2> QED
      BY <2>1, <2>2, <2>3 DEF AskedOnce
  <1>14. ReleasesLate'
    <2>1. \A r \in Threads : at'[r].call = "release" => /\ at'[r] = at[r] /\ at[r].sid \in Sids
      BY <1>2, <1>5
    <2>2. \A r \in Threads : at[r].call = "release" => at'[r] = at[r]
      BY <1>2, <1>4
    <2>3. \A x \in Sids : app'[x] = "released" <=> app[x] = "released"
      BY <1>1, <1>3
    <2> QED
      BY <1>1, <2>1, <2>2, <2>3 DEF ChatIInv, ReleasesLate
  <1> QED
    BY <1>8, <1>13, <1>14


\* No slot is free: AcceptFull keeps the invariant, for no user changes.
LEMMA AcceptFullInv ==
  ASSUME ChatIInv, NEW s \in Sids, AcceptFull(s)
  PROVE  ChatIInv'
PROOF
  <1> DEFINE t == Acceptor
             f == [Idle EXCEPT !.pc = "full", !.call = "accept", !.sid = s]
  <1>1. /\ at[t].pc = "idle" /\ Contract!OnAccept(s) /\ at' = [at EXCEPT ![t] = f]
        /\ UNCHANGED <<fieldVars, userVars, requests>> /\ cut' = cut \cup ({s} \ ended)
    BY DEF AcceptFull, CutOff
  <1>2. /\ FrameOK(f) /\ f.pc = "full" /\ f.call = "accept" /\ f.sid = s
    BY DEF FrameOK, Idle, Pcs, Calls
  <1>3. t \in Threads
    BY DEF Threads
  <1> HIDE DEF f
  <1>4. /\ DOMAIN at' = Threads /\ \A r \in Threads : FrameOK(at[r])'
        /\ at'[t] = f /\ Others(t)
    BY <1>1, <1>2, <1>3, MovesTyped DEF ChatIInv
  <1>5. /\ app' \in [Sids -> {"none", "open", "released"}] /\ running' \subseteq Sids
        /\ ended' = ended
    BY <1>1 DEF Contract!OnAccept, ChatIInv, UsersTypeOK
  <1>6. /\ user' = user /\ lock' = lock /\ sidToUser' = sidToUser /\ indexStack' = indexStack
        /\ loginMap' = loginMap /\ currentUserCnt' = currentUserCnt /\ requests' = requests
        /\ sessionIdList' = sessionIdList /\ readers' = readers /\ writer' = writer
    BY <1>1 DEF userVars, fieldVars
  <1>7. UsersTypeOK'
    BY <1>1, <1>4, <1>5, <1>6 DEF ChatIInv, UsersTypeOK
  <1>8. Guarded(t)
    BY <1>6 DEF Guarded
  <1>9. QuietMove(t)
    BY <1>1, <1>2, <1>4, <1>6 DEF QuietMove, LeavePcs
  <1>10. ThreadOK(t)'
    <2>1. InPlace(t)'
      BY <1>2, <1>4 DEF InPlace, AnswerPcs, MessagePcs, LeavePcs
    <2>2. Locked(t)' /\ Found(t)'
      BY <1>2, <1>4 DEF Locked, Found, HoldsSlot, AnswerPcs, MessagePcs, LeavePcs
    <2> QED
      BY <2>1, <2>2 DEF ThreadOK
  <1>11. (SessionsOpen /\ AskedOnce /\ ReleasesLate)'
    BY <1>1, <1>2, <1>4, <1>6, AcceptSessions
  <1> QED
    BY <1>3, <1>7, <1>8, <1>9, <1>10, <1>11, BeginStep

\* The first free slot leaves the stack.
LEMMA PopsSlot ==
  ASSUME indexStack \in Seq(Users), indexStack # <<>>, IsInjective(indexStack),
         indexStack' = Tail(indexStack)
  PROVE  /\ indexStack' \in Seq(Users) /\ IsInjective(indexStack)'
         /\ Head(indexStack) \in Users /\ OnStack(Head(indexStack))
         /\ \A u : OnStack(u)' <=> OnStack(u) /\ u # Head(indexStack)
PROOF
  <1> DEFINE q == indexStack
             n == Len(q)
  <1>1. /\ n \in Nat \ {0} /\ Head(q) = q[1] /\ DOMAIN q = 1 .. n /\ q[1] \in Users
        /\ q' \in Seq(Users) /\ Len(q') = n - 1 /\ DOMAIN q' = 1 .. n - 1
        /\ \A k \in 1 .. n - 1 : q'[k] = q[k + 1]
    BY HeadTailProperties, EmptySeq, LenProperties
  <1>2. \A j, k \in 1 .. n : q[j] = q[k] => j = k
    BY <1>1 DEF IsInjective
  <1>3. OnStack(q[1])
    BY <1>1 DEF OnStack
  <1>4. \A j, k \in 1 .. n - 1 : q'[j] = q'[k] => j = k
    <2> SUFFICES ASSUME NEW j \in 1 .. n - 1, NEW k \in 1 .. n - 1, q'[j] = q'[k] PROVE j = k
      OBVIOUS
    <2>1. j + 1 \in 1 .. n /\ k + 1 \in 1 .. n /\ q[j + 1] = q[k + 1]
      BY <1>1
    <2>2. j + 1 = k + 1
      BY <1>2, <2>1
    <2> QED
      BY <2>2
  <1>5. IsInjective(indexStack)'
    BY <1>1, <1>4 DEF IsInjective
  <1>6. ASSUME NEW u PROVE OnStack(u)' <=> OnStack(u) /\ u # q[1]
    <2>1. ASSUME OnStack(u)' PROVE OnStack(u) /\ u # q[1]
      <3>1. PICK k \in 1 .. n - 1 : q'[k] = u
        BY <1>1, <2>1 DEF OnStack
      <3>2. k + 1 \in 1 .. n /\ k + 1 # 1 /\ 1 \in 1 .. n /\ q[k + 1] = u
        BY <1>1, <3>1
      <3> QED
        BY <1>1, <1>2, <3>2 DEF OnStack
    <2>2. ASSUME OnStack(u), u # q[1] PROVE OnStack(u)'
      <3>1. PICK k \in 1 .. n : q[k] = u
        BY <1>1, <2>2 DEF OnStack
      <3>2. k - 1 \in 1 .. n - 1 /\ (k - 1) + 1 = k
        BY <1>1, <2>2, <3>1
      <3>3. q'[k - 1] = u
        BY <1>1, <3>1, <3>2
      <3> QED
        BY <1>1, <3>2, <3>3 DEF OnStack
    <2> QED
      BY <2>1, <2>2
  <1> QED
    BY <1>1, <1>3, <1>5, <1>6


\* A free slot is taken from the stack: AcceptSession keeps the invariant.
LEMMA AcceptSessionInv ==
  ASSUME ChatIInv, NEW s \in Sids, AcceptSession(s)
  PROVE  ChatIInv'
PROOF
  <1> DEFINE t == Acceptor
             h == Head(indexStack)
             f == [Idle EXCEPT !.pc = "create", !.call = "accept", !.sid = s, !.slot = h]
  <1>1. /\ at[t].pc = "idle" /\ Contract!OnAccept(s) /\ at' = [at EXCEPT ![t] = f]
        /\ indexStack # <<>> /\ indexStack' = Tail(indexStack)
        /\ UNCHANGED <<fieldVars, cut, user, lock, sidToUser, loginMap, currentUserCnt,
                       requests>>
    BY DEF AcceptSession
  <1>2. /\ indexStack' \in Seq(Users) /\ IsInjective(indexStack)'
        /\ h \in Users /\ OnStack(h)
        /\ \A u : OnStack(u)' <=> OnStack(u) /\ u # h
    BY <1>1, PopsSlot DEF ChatIInv, UsersTypeOK, SlotsHeld
  <1>3. /\ FrameOK(f) /\ f.pc = "create" /\ f.call = "accept" /\ f.sid = s /\ f.slot = h
    BY <1>2 DEF FrameOK, Idle, Pcs, Calls
  <1>4. t \in Threads
    BY DEF Threads
  <1> HIDE DEF f, h
  <1>5. /\ DOMAIN at' = Threads /\ \A r \in Threads : FrameOK(at[r])'
        /\ at'[t] = f /\ Others(t)
    BY <1>1, <1>3, <1>4, MovesTyped DEF ChatIInv
  <1>6. /\ app' \in [Sids -> {"none", "open", "released"}] /\ running' \subseteq Sids
        /\ ended' = ended
    BY <1>1 DEF Contract!OnAccept, ChatIInv, UsersTypeOK
  <1>7. /\ user' = user /\ lock' = lock /\ sidToUser' = sidToUser
        /\ loginMap' = loginMap /\ currentUserCnt' = currentUserCnt /\ requests' = requests
        /\ sessionIdList' = sessionIdList /\ readers' = readers /\ writer' = writer
        /\ cut' = cut
    BY <1>1 DEF fieldVars
  <1>8. UsersTypeOK'
    BY <1>2, <1>5, <1>6, <1>7 DEF ChatIInv, UsersTypeOK
  <1>9. Guarded(t)
    BY <1>7 DEF Guarded
  <1>10. ThreadOK(t)'
    <2>1. InPlace(t)'
      BY <1>2, <1>3, <1>5 DEF InPlace, AnswerPcs, MessagePcs, LeavePcs
    <2>2. Locked(t)' /\ Found(t)'
      BY <1>3, <1>5 DEF Locked, Found, HoldsSlot, AnswerPcs, MessagePcs, LeavePcs
    <2> QED
      BY <2>1, <2>2 DEF ThreadOK
  <1>11. \A r \in Threads \ {t} : ThreadOK(r)'
    BY <1>4, <1>5, <1>9, OtherThreads DEF ChatIInv, ThreadOK
  <1>12. (SessionsOpen /\ AskedOnce /\ ReleasesLate)'
    BY <1>1, <1>3, <1>5, <1>7, AcceptSessions
  <1>13. UsersMapped'
    BY <1>7 DEF ChatIInv, UsersMapped
  <1>14. \A r \in Threads : r # t => at'[r] = at[r]
    BY <1>5 DEF Others
  <1>15. /\ \A u : HasIndex(t, u)' <=> u = h
         /\ \A r \in Threads : r # t => \A u : HasIndex(r, u)' <=> HasIndex(r, u)
         /\ \A u : ~HasIndex(t, u)
    BY <1>1, <1>3, <1>5, <1>14 DEF HasIndex
  <1>16. SlotsHeld'
    <2>1. ASSUME NEW u \in Users
          PROVE  /\ user'[u].sid = 0 <=> OnStack(u)' \/ \E r \in Threads : HasIndex(r, u)'
                 /\ \A r \in Threads : HasIndex(r, u)' => ~OnStack(u)'
                 /\ \A r, q \in Threads : HasIndex(r, u)' /\ HasIndex(q, u)' => r = q
      <3>1. CASE u = h
        <4>1. user[h].sid = 0 /\ \A r \in Threads : ~HasIndex(r, h)
          BY <1>2 DEF ChatIInv, SlotsHeld
        <4> QED
          BY <3>1, <4>1, <1>2, <1>4, <1>7, <1>15
      <3>2. CASE u # h
        <4>1. /\ OnStack(u)' <=> OnStack(u) 
              /\ \A r \in Threads : HasIndex(r, u)' <=> HasIndex(r, u)
          BY <3>2, <1>2, <1>15
        <4> QED
          BY <4>1, <1>7 DEF ChatIInv, SlotsHeld
      <3> QED
        BY <3>1, <3>2
    <2> QED
      BY <1>2, <2>1 DEF SlotsHeld
  <1>17. CalmMove(t)
    BY <1>1, <1>3, <1>5 DEF CalmMove
  <1>18. SameLogins /\ SamePlaces
    BY <1>4, <1>7, <1>17, CalmReleases DEF SameLogins, SamePlaces
  <1>19. LoginsNamed' /\ CountExact' /\ ListsExact'
    BY <1>1, <1>3, <1>4, <1>5, <1>7, <1>18, SameLoginsNamed, SameCount, SamePlacesLists
       DEF ChatIInv
  <1> QED
    BY <1>8, <1>10, <1>11, <1>12, <1>13, <1>16, <1>19 DEF ChatIInv, ThreadOK


\* The slot taken becomes the user of the session accepted: CreateWaitLogin
\* keeps the invariant.
LEMMA CreateWaitLoginInv ==
  ASSUME ChatIInv, NEW t \in Threads, CreateWaitLogin(t)
  PROVE  ChatIInv'
PROOF
  <1> DEFINE u == at[t].slot
             s == at[t].sid
  <1>1. /\ at[t].pc = "create" /\ lock[u] = NoThread
        /\ user' = [user EXCEPT ![u].sid = s, ![u].state = "WAIT_LOGIN"]
        /\ sidToUser' = [sidToUser EXCEPT ![s] = u]
        /\ Return(t)
        /\ UNCHANGED <<fieldVars, cut, lock, indexStack, loginMap, currentUserCnt, requests>>
    BY DEF CreateWaitLogin
  <1>2. /\ t = Acceptor /\ at[t].call = "accept" /\ u \in Users /\ s \in Sids
        /\ NoUser \notin Users
    BY <1>1, ThreadFacts DEF InPlace
  <1>3. /\ user[u].sid = 0 /\ ~OnStack(u) /\ \A r \in Threads : HasIndex(r, u) => r = t
    <2>1. HasIndex(t, u)
      BY <1>1 DEF HasIndex
    <2> QED
      BY <2>1, <1>2 DEF ChatIInv, SlotsHeld
  <1>4. /\ sidToUser[s] = NoUser /\ app[s] = "open" /\ user[u].state = "NONE"
        /\ \A r \in Threads : InCallback(r) /\ at[r].sid = s => r = t
    BY <1>1, <1>2, <1>3 DEF ChatIInv, SessionsOpen, UsersMapped, InCallback
  <1>5. /\ at' = [at EXCEPT ![t] = Idle] /\ running' = running \ {s}
        /\ app' = app /\ ended' = ended
    BY <1>1, <1>2 DEF Return, Contract!CallbackReturns
  <1>6. /\ DOMAIN at' = Threads /\ \A r \in Threads : FrameOK(at[r])'
        /\ at'[t] = Idle /\ Others(t)
    BY <1>5, IdleTyped, MovesTyped DEF ChatIInv
  <1>7. /\ user'[u].sid = s /\ user'[u].state = "WAIT_LOGIN"
        /\ \A v \in Users : v # u => user'[v] = user[v]
        /\ user' \in [Users -> [sid : Sids \cup {0}, state : States,
                                acct : Accounts \cup {NoAccount},
                                pos : Sectors \cup {Nowhere}]]
    <2>1. [user[u] EXCEPT !.sid = s, !.state = "WAIT_LOGIN"]
             \in [sid : Sids \cup {0}, state : States, acct : Accounts \cup {NoAccount},
                  pos : Sectors \cup {Nowhere}]
      <3>1. /\ user[u].acct \in Accounts \cup {NoAccount}
            /\ user[u].pos \in Sectors \cup {Nowhere}
            /\ user[u] \in [sid : Sids \cup {0}, state : States,
                            acct : Accounts \cup {NoAccount}, pos : Sectors \cup {Nowhere}]
        BY <1>2 DEF ChatIInv, UsersTypeOK
      <3> QED
        BY <3>1, <1>2 DEF States
    <2>2. user' = [user EXCEPT ![u] = [user[u] EXCEPT !.sid = s, !.state = "WAIT_LOGIN"]]
      BY <1>1, <1>2 DEF ChatIInv, UsersTypeOK
    <2> QED
      BY <2>1, <2>2, <1>2 DEF ChatIInv, UsersTypeOK
  <1>8. /\ sidToUser'[s] = u /\ \A x \in Sids : x # s => sidToUser'[x] = sidToUser[x]
        /\ sidToUser' \in [Sids -> Users \cup {NoUser}]
    BY <1>1, <1>2 DEF ChatIInv, UsersTypeOK
  <1>9. /\ lock' = lock /\ indexStack' = indexStack
        /\ loginMap' = loginMap /\ currentUserCnt' = currentUserCnt /\ requests' = requests
        /\ sessionIdList' = sessionIdList /\ readers' = readers /\ writer' = writer
        /\ cut' = cut
    BY <1>1 DEF fieldVars
  <1> HIDE DEF u, s
  <1>10. UsersTypeOK'
    BY <1>5, <1>6, <1>7, <1>8, <1>9 DEF ChatIInv, UsersTypeOK
  <1>11. Guarded(t)
    BY <1>1, <1>7, <1>9 DEF Guarded
  <1>12. \A r \in Threads : ThreadOK(r)'
    BY <1>6, <1>11, IdleInPlace, OtherThreads DEF ChatIInv, ThreadOK
  <1>13. UsersMapped'
    <2>1. ASSUME NEW x \in Sids, sidToUser'[x] # NoUser PROVE user'[sidToUser'[x]].sid = x
      <3>1. CASE x = s
        BY <3>1, <1>7, <1>8
      <3>2. CASE x # s
        <4>1. /\ sidToUser'[x] = sidToUser[x] /\ sidToUser[x] \in Users
              /\ user[sidToUser[x]].sid = x
          BY <3>2, <2>1, <1>8 DEF ChatIInv, UsersMapped, UsersTypeOK
        <4> QED
          BY <4>1, <1>3, <1>7 DEF Sids
      <3> QED
        BY <3>1, <3>2
    <2>2. ASSUME NEW v \in Users, user'[v].sid # 0 PROVE sidToUser'[user'[v].sid] = v
      <3>1. CASE v = u
        BY <3>1, <1>7, <1>8
      <3>2. CASE v # u
        <4>1. user[v].sid \in Sids /\ sidToUser[user[v].sid] = v /\ user'[v] = user[v]
          BY <3>2, <2>2, <1>7 DEF ChatIInv, UsersMapped, UsersTypeOK
        <4> QED
          BY <4>1, <1>2, <1>4, <1>8
      <3> QED
        BY <3>1, <3>2
    <2>3. ASSUME NEW v \in Users
          PROVE  /\ user'[v].state = "NONE" <=> user'[v].sid = 0
                 /\ user'[v].state \in LoggedIn =>
                       /\ user'[v].acct \in Accounts
                       /\ user'[v].state = "INFIELD" <=> InSectorRange(user'[v].pos)
      <3>1. CASE v = u
        BY <3>1, <1>2, <1>7 DEF Sids, LoggedIn
      <3>2. CASE v # u
        BY <3>2, <1>7 DEF ChatIInv, UsersMapped
      <3> QED
        BY <3>1, <3>2
    <2> QED
      BY <2>1, <2>2, <2>3 DEF UsersMapped, InSectorRange
  <1>14. /\ \A r \in Threads : r # t => at'[r] = at[r]
         /\ at'[t].pc = "idle" /\ at'[t].call = "none"
    BY <1>6, IdleTyped DEF Others
  <1>15. SlotsHeld'
    <2>1. /\ \A v : OnStack(v)' <=> OnStack(v)
          /\ \A v : ~HasIndex(t, v)' /\ (HasIndex(t, v) => v = u)
          /\ \A r \in Threads : r # t => \A v : HasIndex(r, v)' <=> HasIndex(r, v)
      BY <1>1, <1>9, <1>14 DEF OnStack, HasIndex, u
    <2>2. ASSUME NEW v \in Users
          PROVE  /\ user'[v].sid = 0 <=> OnStack(v)' \/ \E r \in Threads : HasIndex(r, v)'
                 /\ \A r \in Threads : HasIndex(r, v)' => ~OnStack(v)'
                 /\ \A r, q \in Threads : HasIndex(r, v)' /\ HasIndex(q, v)' => r = q
      <3>1. CASE v = u
        <4>1. user'[v].sid # 0
          BY <3>1, <1>2, <1>7 DEF Sids
        <4> QED
          BY <3>1, <4>1, <2>1, <1>3
      <3>2. CASE v # u
        BY <3>2, <2>1, <1>7 DEF ChatIInv, SlotsHeld
      <3> QED
        BY <3>1, <3>2
    <2> QED
      BY <2>2, <1>9 DEF ChatIInv, SlotsHeld
  <1>16. SessionsOpen'
    <2>1. \A r \in Threads : (InCallback(r)' \/ at'[r].pc = "create") => r # t /\ at'[r] = at[r]
      BY <1>14 DEF InCallback
    <2>2. \A r \in Threads : at[r].pc = "create" => r = t
      BY <1>2, ThreadFacts DEF InPlace
    <2>3. \A r \in Threads : InCallback(r)' => InCallback(r) /\ at[r].sid # s
      BY <2>1, <1>4 DEF InCallback
    <2> QED
      BY <2>1, <2>2, <2>3, <1>4, <1>5, <1>8 DEF ChatIInv, SessionsOpen
  <1>17. /\ \A m \in requests : m.sid # s
         /\ \A r \in Threads : Answers(r) => at[r].sid # s /\ r # t
    BY <1>1, <1>2 DEF ChatIInv, AskedOnce, Answers, s
  <1>18. \A x, a : Awaits(x, a) /\ x # s => Awaits(x, a)'
    BY <1>5, <1>7 DEF Awaits
  <1>19. \A r \in Threads : /\ Answers(r)' => Answers(r) /\ at'[r] = at[r]
                            /\ Answering(r)' => Answering(r) /\ at'[r] = at[r]
                            /\ Answering(r) => Answers(r)
    BY <1>14 DEF Answers, Answering
  <1>20. AskedOnce'
    <2>1. ASSUME NEW m \in requests'
          PROVE  /\ (Awaits(m.sid, m.acct))'
                 /\ \A n \in requests' : m.sid = n.sid => m = n
                 /\ \A r \in Threads : Answers(r)' => at'[r].sid # m.sid
      BY <1>9, <1>17, <1>18, <1>19 DEF ChatIInv, AskedOnce
    <2>2. ASSUME NEW r \in Threads
          PROVE  /\ Answering(r)' => (Awaits(at[r].sid, at[r].acct))'
                 /\ Answers(r)' => app'[at'[r].sid] # "none"
      <3>1. Answering(r)' => (Awaits(at[r].sid, at[r].acct))'
        <4> SUFFICES ASSUME Answering(r)' PROVE (Awaits(at[r].sid, at[r].acct))'
          OBVIOUS
        <4>1. Awaits(at[r].sid, at[r].acct) /\ at[r].sid # s /\ at'[r] = at[r]
          BY <1>17, <1>19 DEF ChatIInv, AskedOnce
        <4> QED
          BY <4>1, <1>18
      <3> QED
        BY <3>1, <1>5, <1>19 DEF ChatIInv, AskedOnce
    <2>3. \A r, q \in Threads : Answers(r)' /\ Answers(q)' /\ at'[r].sid = at'[q].sid => r = q
      BY <1>19 DEF ChatIInv, AskedOnce
    <2> QED
      BY <2>1, <2>2, <2>3, <1>2, <1>14 DEF AskedOnce
  <1>21. ReleasesLate'
    <2>1. ASSUME NEW r \in Threads, at'[r].call = "release"
          PROVE  /\ app'[at'[r].sid] = "released"
                 /\ sidToUser'[at'[r].sid] \in {NoUser, at'[r].slot}
                 /\ at'[r].pc = "leaveSlot" => sidToUser'[at'[r].sid] = NoUser
      <3>1. r # t /\ at'[r] = at[r]
        BY <2>1, <1>14
      <3>2. at[r].sid # s /\ at[r].sid \in Sids
        BY <2>1, <3>1, <1>4, ThreadFacts DEF ChatIInv, ReleasesLate, InPlace
      <3> QED
        BY <2>1, <3>1, <3>2, <1>5, <1>8 DEF ChatIInv, ReleasesLate
    <2>2. \A r \in Threads : at[r].call = "release" => at'[r] = at[r]
      BY <1>2, <1>14
    <2>3. \A x \in Sids : app'[x] = "released" => x # s
      BY <1>4, <1>5
    <2> QED
      BY <2>1, <2>2, <2>3, <1>5, <1>8 DEF ChatIInv, ReleasesLate
  <1>22. CalmMove(t)
    BY <1>1, <1>6, <1>14 DEF CalmMove
  <1>23. SameLogins /\ SamePlaces
    BY <1>4, <1>7, <1>22, CalmReleases DEF SameLogins, SamePlaces, LoggedIn
  <1>24. LoginsNamed' /\ CountExact' /\ ListsExact'
    BY <1>1, <1>6, <1>9, <1>14, <1>23, SameLoginsNamed, SameCount, SamePlacesLists
       DEF ChatIInv
  <1> QED
    BY <1>10, <1>12, <1>13, <1>15, <1>16, <1>20, <1>21, <1>24 DEF ChatIInv, ThreadOK


-----------------------------------------------------------------------------
(* ReleaseUser.                                                             *)

\* What holds of a thread in ReleaseUser, and of the user it releases: no other
\* thread releases that user.
LEMMA LeaveFacts ==
  ASSUME ChatIInv, NEW t \in Threads, at[t].pc \in LeavePcs
  PROVE  /\ at[t].victim \in Users /\ at[t].other \in Sids /\ at[t].sid \in Sids
         /\ at[t].slot \in Users /\ lock[at[t].victim] = t
         /\ \A r \in Threads : at[r].pc \in LeavePcs /\ at[r].victim = at[t].victim => r = t
         /\ at[t].pc # "leaveSlot" => user[at[t].victim].sid = at[t].other
PROOF
  <1>1. at[t].pc \notin {"idle", "full"} /\ t # NoThread
    BY ThreadFacts DEF LeavePcs
  <1>2. \A r \in Threads : at[r].pc \in LeavePcs => lock[at[r].victim] = r
    BY ThreadFacts DEF Locked
  <1> QED
    BY <1>1, <1>2, ThreadFacts DEF InPlace, Found

\* A step of ReleaseUser that changes no user keeps the invariant if logins and
\* lists agree afterwards.
LEMMA LeaveStep ==
  ASSUME ChatIInv, NEW t \in Threads, NEW l \in {"leaveLogin", "leaveSid"}, Goto(t, l),
         at[t].pc \in {"leaveSector", "leaveLogin"},
         l = "leaveLogin" => at[t].pc = "leaveSector",
         UNCHANGED <<readers, writer, sessionVars, cut, user, lock, indexStack, sidToUser,
                     currentUserCnt, requests>>,
         sessionIdList' \in [Sectors -> [Sids -> Nat]],
         loginMap' \in [Accounts -> Sids \cup {0}],
         (LoginsNamed /\ CountExact /\ ListsExact)'
  PROVE  ChatIInv'
PROOF
  <1> DEFINE f == [at[t] EXCEPT !.pc = l]
  <1>1. FrameOK(at[t]) /\ InPlace(t) /\ Locked(t) /\ Found(t) /\ DOMAIN at = Threads
    BY ThreadFacts
  <1>2. /\ FrameOK(f) /\ f.pc = l /\ f.call = at[t].call /\ f.sid = at[t].sid
        /\ f.slot = at[t].slot /\ f.victim = at[t].victim /\ f.other = at[t].other
        /\ f.acct = at[t].acct
    BY <1>1 DEF FrameOK, Idle, Pcs
  <1>3. at' = [at EXCEPT ![t] = f]
    BY <1>1 DEF Goto
  <1> HIDE DEF f
  <1>4. /\ DOMAIN at' = Threads /\ \A r \in Threads : FrameOK(at[r])'
        /\ at'[t] = f /\ Others(t)
    BY <1>2, <1>3, MovesTyped DEF ChatIInv
  <1>5. /\ user' = user /\ lock' = lock /\ sidToUser' = sidToUser
        /\ indexStack' = indexStack /\ app' = app /\ ended' = ended /\ running' = running
        /\ readers' = readers /\ writer' = writer /\ cut' = cut
        /\ requests' = requests /\ currentUserCnt' = currentUserCnt
    BY DEF sessionVars
  <1>6. UsersTypeOK'
    BY <1>4, <1>5 DEF ChatIInv, UsersTypeOK
  <1>7. Guarded(t)
    BY <1>5 DEF Guarded
  <1>8. ThreadOK(t)'
    <2>1. InPlace(t)'
      BY <1>1, <1>2, <1>4 DEF InPlace, AnswerPcs, MessagePcs, LeavePcs
    <2>2. HoldsSlot(t)' <=> HoldsSlot(t)
      BY <1>2, <1>4 DEF HoldsSlot, AnswerPcs, MessagePcs, LeavePcs
    <2>3. Locked(t)'
      BY <1>1, <1>2, <1>4, <1>5, <2>2 DEF Locked, LeavePcs
    <2>4. Found(t)'
      BY <1>1, <1>2, <1>4, <1>5, <2>2 DEF Found, StillOwn, LeavePcs, MessagePcs, LoggedIn
    <2> QED
      BY <2>1, <2>3, <2>4 DEF ThreadOK
  <1>9. \A r \in Threads : ThreadOK(r)'
    BY <1>4, <1>7, <1>8, OtherThreads DEF ChatIInv, ThreadOK
  <1>10. UsersMapped'
    BY <1>5 DEF ChatIInv, UsersMapped
  <1>11. SlotsHeld'
    <2>1. \A r \in Threads : \A u : HasIndex(r, u)' <=> HasIndex(r, u)
      BY <1>2, <1>4 DEF HasIndex, Others
    <2>2. \A u : OnStack(u)' <=> OnStack(u)
      BY <1>5 DEF OnStack
    <2> QED
      BY <1>5, <2>1, <2>2 DEF ChatIInv, SlotsHeld
  <1>12. (SessionsOpen /\ AskedOnce /\ ReleasesLate)'
    <2>1. GoesOn(t)
      BY <1>2, <1>4, <1>5 DEF GoesOn
    <2> QED
      BY <2>1, GoesOnSessions DEF ChatIInv
  <1> QED
    BY <1>6, <1>9, <1>10, <1>11, <1>12 DEF ChatIInv, ThreadOK

\* The session leaves the list of its sector: LeaveSector keeps the invariant.
LEMMA LeaveSectorInv ==
  ASSUME ChatIInv, NEW t \in Threads, LeaveSector(t)
  PROVE  ChatIInv'
PROOF
  <1> DEFINE v == at[t].victim
             s == user[v].sid
             p == user[v].pos
  <1>1. /\ at[t].pc = "leaveSector" /\ Goto(t, "leaveLogin")
        /\ sessionIdList' = Relocated(s, p, Nowhere)
        /\ UNCHANGED <<readers, writer, sessionVars, cut, user, lock, indexStack, sidToUser,
                       loginMap, currentUserCnt, requests>>
    BY DEF LeaveSector, RemoveSector, userVars
  <1>2. /\ v \in Users /\ s \in Sids /\ user[v].state = "INFIELD"
        /\ \A r \in Threads : at[r].pc \in LeavePcs /\ at[r].victim = v => r = t
    BY <1>1, LeaveFacts, ThreadFacts DEF LeavePcs, Found
  <1>3. p \in Sectors /\ Nowhere \notin Sectors
    BY <1>2, FieldAssumption
       DEF ChatIInv, UsersMapped, InSectorRange, LoggedIn, Sectors, Nowhere
  <1>4. DOMAIN at = Threads
    BY ThreadFacts
  <1>5. /\ at'[t].pc = "leaveLogin" /\ at'[t].victim = v
        /\ \A r \in Threads : r # t => at'[r] = at[r]
    BY <1>1, <1>4, ThreadFacts DEF Goto, FrameOK, Idle
  <1> HIDE DEF v, s, p
  <1>6. Stands(s, p) /\ sessionIdList[p][s] = 1
    <2>1. ~BeingReleased(v, {"leaveLogin", "leaveSid"})
      BY <1>1, <1>2 DEF BeingReleased, LeavePcs
    <2>2. Stands(s, p)
      BY <1>2, <2>1 DEF Stands, s, p
    <2> QED
      BY <1>2, <1>3, <2>2 DEF ChatIInv, ListsExact
  <1>7. /\ sessionIdList' \in [Sectors -> [Sids -> Nat]]
        /\ sessionIdList'[p][s] = 0
        /\ \A x \in Sids, q \in Sectors :
              x # s \/ q # p => sessionIdList'[q][x] = sessionIdList[q][x]
    <2>1. sessionIdList \in [Sectors -> [Sids -> Nat]]
      BY DEF ChatIInv, UsersTypeOK
    <2> QED
      BY <1>1, <1>2, <1>3, <1>6, <2>1 DEF Relocated
  <1>8. ASSUME NEW u
        PROVE  /\ Leaving(u)' <=> Leaving(u)
               /\ u # v => (BeingReleased(u, {"leaveLogin", "leaveSid"})'
                            <=> BeingReleased(u, {"leaveLogin", "leaveSid"}))
    <2>1. ASSUME NEW r \in Threads
          PROVE  /\ at'[r].pc \in {"leaveSid"} /\ at'[r].victim = u
                    <=> at[r].pc \in {"leaveSid"} /\ at[r].victim = u
                 /\ u # v => (at'[r].pc \in {"leaveLogin", "leaveSid"} /\ at'[r].victim = u
                              <=> at[r].pc \in {"leaveLogin", "leaveSid"} /\ at[r].victim = u)
      BY <1>1, <1>5 DEF v
    <2> QED
      BY <2>1 DEF Leaving, BeingReleased
  <1>9. \A u : u = v => BeingReleased(u, {"leaveLogin", "leaveSid"})'
    BY <1>5 DEF BeingReleased
  <1>10. ListsExact'
    <2>1. ASSUME NEW x \in Sids, NEW q \in Sectors
          PROVE  sessionIdList'[q][x] = IF Stands(x, q)' THEN 1 ELSE 0
      <3>1. CASE x = s /\ q = p
        <4>1. \A u \in Users : user[u].sid = s => u = v
          BY <1>2, SlotOfSession DEF s, Sids
        <4>2. ~Stands(x, q)'
          BY <1>1, <1>9, <3>1, <4>1 DEF Stands
        <4> QED
          BY <1>7, <3>1, <4>2
      <3>2. CASE x # s \/ q # p
        <4>1. \A u \in Users : user[u].sid = x /\ user[u].pos = q => u # v
          BY <3>2 DEF s, p
        <4>2. Stands(x, q)' <=> Stands(x, q)
          BY <1>1, <1>8, <4>1 DEF Stands
        <4> QED
          BY <1>7, <3>2, <4>2 DEF ChatIInv, ListsExact
      <3> QED
        BY <3>1, <3>2
    <2> QED
      BY <2>1 DEF ListsExact
  <1>11. SameLogins
    BY <1>1, <1>8 DEF SameLogins
  <1>12. LoginsNamed' /\ CountExact'
    BY <1>1, <1>5, <1>11, SameLoginsNamed, SameCount DEF ChatIInv, Others
  <1>13. loginMap' \in [Accounts -> Sids \cup {0}]
    BY <1>1 DEF ChatIInv, UsersTypeOK
  <1> QED
    BY <1>1, <1>7, <1>10, <1>12, <1>13, LeaveStep


\* The sets CountExact counts.
Listed   == {a \in Accounts : loginMap[a] # 0}
Losing   == {u \in Users : user[u].state \in LoggedIn /\ Leaving(u)}
Counting == {r \in Threads : at[r].pc = "count"}

\* They are finite, so that their cardinalities can be counted with.
LEMMA CountedSets ==
  /\ CountExact <=> currentUserCnt = Cardinality(Listed) + Cardinality(Losing)
                                     - Cardinality(Counting)
  /\ CountExact' <=> currentUserCnt' = Cardinality(Listed') + Cardinality(Losing')
                                       - Cardinality(Counting')
  /\ IsFiniteSet(Listed) /\ IsFiniteSet(Losing) /\ IsFiniteSet(Counting)
  /\ IsFiniteSet(Listed') /\ IsFiniteSet(Losing') /\ IsFiniteSet(Counting')
PROOF
  <1>1. IsFiniteSet(Threads) /\ IsFiniteSet(Users) /\ IsFiniteSet(Accounts)
    <2>1. IsFiniteSet({Acceptor}) /\ IsFiniteSet({TimeoutThread})
      BY FS_Singleton
    <2>2. IsFiniteSet({Acceptor} \cup {TimeoutThread})
      BY <2>1, FS_Union
    <2>3. Threads = Workers \cup ({Acceptor} \cup {TimeoutThread})
      BY DEF Threads
    <2> QED
      BY <2>2, <2>3, ChatAssumption, FS_Union
  <1>2. /\ Listed \subseteq Accounts /\ Losing \subseteq Users /\ Counting \subseteq Threads
        /\ Listed' \subseteq Accounts /\ Losing' \subseteq Users /\ Counting' \subseteq Threads
    BY DEF Listed, Losing, Counting
  <1>3. /\ IsFiniteSet(Listed) /\ IsFiniteSet(Losing) /\ IsFiniteSet(Counting)
        /\ IsFiniteSet(Listed') /\ IsFiniteSet(Losing') /\ IsFiniteSet(Counting')
    BY <1>1, <1>2, FS_Subset
  <1> QED
    BY <1>3 DEF CountExact, Listed, Losing, Counting

\* One element more in a finite set.
LEMMA OneMore ==
  ASSUME NEW S, NEW T, IsFiniteSet(S), NEW x, x \notin S, T = S \cup {x}
  PROVE  Cardinality(T) = Cardinality(S) + 1 /\ Cardinality(S) \in Nat
PROOF
  BY FS_AddElement, FS_CardinalityType

\* The login is taken back: RemoveLoginMap keeps the invariant.
LEMMA RemoveLoginMapInv ==
  ASSUME ChatIInv, NEW t \in Threads, RemoveLoginMap(t)
  PROVE  ChatIInv'
PROOF
  <1> DEFINE v == at[t].victim
             s == user[v].sid
             a == user[v].acct
  <1>1. /\ at[t].pc = "leaveLogin" /\ Goto(t, "leaveSid")
        /\ loginMap' = [loginMap EXCEPT ![a] = 0]
        /\ UNCHANGED <<sessionIdList, readers, writer, sessionVars, cut, user, lock,
                       indexStack, sidToUser, currentUserCnt, requests>>
    BY DEF RemoveLoginMap, fieldVars
  <1>2. /\ v \in Users /\ s \in Sids /\ user[v].state \in LoggedIn
        /\ \A r \in Threads : at[r].pc \in LeavePcs /\ at[r].victim = v => r = t
    BY <1>1, LeaveFacts, ThreadFacts DEF LeavePcs, Found
  <1>3. a \in Accounts
    BY <1>2 DEF ChatIInv, UsersMapped
  <1>4. DOMAIN at = Threads
    BY ThreadFacts
  <1>5. /\ at'[t].pc = "leaveSid" /\ at'[t].victim = v
        /\ \A r \in Threads : r # t => at'[r] = at[r]
    BY <1>1, <1>4, ThreadFacts DEF Goto, FrameOK, Idle
  <1> HIDE DEF v, s, a
  <1>6. ~Leaving(v) /\ \A u : u = v => Leaving(u)'
    <2>1. ~Leaving(v)
      BY <1>1, <1>2 DEF Leaving, BeingReleased, LeavePcs
    <2> QED
      BY <2>1, <1>5 DEF Leaving, BeingReleased
  <1>7. ASSUME NEW u
        PROVE  /\ u # v => (Leaving(u)' <=> Leaving(u))
               /\ BeingReleased(u, {"leaveLogin", "leaveSid"})'
                  <=> BeingReleased(u, {"leaveLogin", "leaveSid"})
    <2>1. ASSUME NEW r \in Threads
          PROVE  /\ u # v => (at'[r].pc \in {"leaveSid"} /\ at'[r].victim = u
                              <=> at[r].pc \in {"leaveSid"} /\ at[r].victim = u)
                 /\ at'[r].pc \in {"leaveLogin", "leaveSid"} /\ at'[r].victim = u
                    <=> at[r].pc \in {"leaveLogin", "leaveSid"} /\ at[r].victim = u
      BY <1>1, <1>5 DEF v
    <2> QED
      BY <2>1 DEF Leaving, BeingReleased
  <1>8. /\ loginMap' \in [Accounts -> Sids \cup {0}] /\ loginMap'[a] = 0
        /\ \A b \in Accounts : b # a => loginMap'[b] = loginMap[b]
    BY <1>1, <1>3 DEF ChatIInv, UsersTypeOK
  <1>9. loginMap[a] = s /\ s # 0
    BY <1>2, <1>6 DEF ChatIInv, LoginsNamed, s, a, Sids
  <1>10. \A u \in Users : user[u].sid = s => u = v
    BY <1>2, <1>9, SlotOfSession DEF s
  <1>11. \A u \in Users : /\ user'[u] = user[u]
                          /\ user[u].state \in LoggedIn => user[u].acct \in Accounts
    BY <1>1 DEF ChatIInv, UsersMapped
  <1>12. LoginsNamed'
    <2>1. ASSUME NEW b \in Accounts, loginMap'[b] # 0
          PROVE  \E u \in Users : IsLogin(u, b)' /\ user'[u].sid = loginMap'[b]
      <3>1. b # a /\ loginMap'[b] = loginMap[b]
        BY <2>1, <1>8
      <3>2. PICK u \in Users : IsLogin(u, b) /\ user[u].sid = loginMap[b]
        BY <3>1, <2>1 DEF ChatIInv, LoginsNamed
      <3>3. u # v
        BY <3>1, <3>2 DEF IsLogin, a
      <3>4. IsLogin(u, b)'
        BY <3>2, <3>3, <1>7, <1>11 DEF IsLogin
      <3> QED
        BY <3>1, <3>2, <3>4, <1>11
    <2>2. ASSUME NEW u \in Users, user'[u].state \in LoggedIn, ~Leaving(u)'
          PROVE  loginMap'[user'[u].acct] = user'[u].sid
      <3>1. u # v /\ user[u].state \in LoggedIn /\ ~Leaving(u) /\ user[u].acct \in Accounts
        BY <2>2, <1>6, <1>7, <1>11
      <3>2. loginMap[user[u].acct] = user[u].sid
        BY <3>1 DEF ChatIInv, LoginsNamed
      <3>3. user[u].acct # a
        BY <3>1, <3>2, <1>9, <1>10
      <3> QED
        BY <3>1, <3>2, <3>3, <1>8, <1>11
    <2> QED
      BY <2>1, <2>2 DEF LoginsNamed
  <1>13. CountExact'
    <2>1. Listed = Listed' \cup {a} /\ a \notin Listed'
      BY <1>3, <1>8, <1>9 DEF Listed
    <2>2. Losing' = Losing \cup {v} /\ v \notin Losing
      BY <1>2, <1>6, <1>7, <1>11 DEF Losing
    <2>3. Counting' = Counting
      BY <1>1, <1>5 DEF Counting
    <2>4. Cardinality(Listed) = Cardinality(Listed') + 1 /\ Cardinality(Listed') \in Nat
      BY <2>1, CountedSets, OneMore
    <2>5. Cardinality(Losing') = Cardinality(Losing) + 1 /\ Cardinality(Losing) \in Nat
      BY <2>2, CountedSets, OneMore
    <2>6. Cardinality(Counting) \in Nat
      BY CountedSets, FS_CardinalityType
    <2>7. currentUserCnt = Cardinality(Listed) + Cardinality(Losing) - Cardinality(Counting)
      BY CountedSets DEF ChatIInv
    <2> QED
      BY <2>3, <2>4, <2>5, <2>6, <2>7, <1>1, CountedSets
  <1>14. SamePlaces
    BY <1>7, <1>11 DEF SamePlaces
  <1>15. ListsExact' /\ sessionIdList' \in [Sectors -> [Sids -> Nat]]
    BY <1>1, <1>14, SamePlacesLists DEF ChatIInv, UsersTypeOK
  <1> QED
    BY <1>1, <1>8, <1>12, <1>13, <1>15, LeaveStep


\* The user is reset and its slot in the hands of the thread: RemoveSidToUserMap
\* keeps the invariant.
LEMMA RemoveSidToUserMapInv ==
  ASSUME ChatIInv, NEW t \in Threads, RemoveSidToUserMap(t)
  PROVE  ChatIInv'
PROOF
  <1> DEFINE v == at[t].victim
             s == user[v].sid
             d == IF user[v].state \in LoggedIn THEN 1 ELSE 0
             f == [at[t] EXCEPT !.pc = "leaveSlot"]
  <1>1. /\ at[t].pc = "leaveSid" /\ at' = [at EXCEPT ![t].pc = "leaveSlot"]
        /\ currentUserCnt' = currentUserCnt - d
        /\ sidToUser' = [sidToUser EXCEPT ![s] = NoUser]
        /\ user' = [user EXCEPT ![v] = Reset]
        /\ UNCHANGED <<fieldVars, sessionVars, cut, lock, indexStack, loginMap, requests>>
    BY DEF RemoveSidToUserMap, Goto
  <1>2. /\ v \in Users /\ s \in Sids /\ at[t].other = s /\ lock[v] = t
        /\ \A r \in Threads : at[r].pc \in LeavePcs /\ at[r].victim = v => r = t
        /\ at[t].slot \in Users /\ at[t].sid \in Sids
    BY <1>1, LeaveFacts DEF LeavePcs
  <1>3. FrameOK(at[t]) /\ InPlace(t) /\ Locked(t) /\ Found(t) /\ DOMAIN at = Threads
        /\ NoUser \notin Users
    BY ThreadFacts
  <1>4. /\ FrameOK(f) /\ f.pc = "leaveSlot" /\ f.call = at[t].call /\ f.sid = at[t].sid
        /\ f.slot = at[t].slot /\ f.victim = v /\ f.other = at[t].other
        /\ f.acct = at[t].acct
    BY <1>3 DEF FrameOK, Idle, Pcs
  <1>5. at' = [at EXCEPT ![t] = f]
    BY <1>1, <1>3
  <1> HIDE DEF f
  <1>6. /\ DOMAIN at' = Threads /\ \A r \in Threads : FrameOK(at[r])'
        /\ at'[t] = f /\ Others(t)
    BY <1>4, <1>5, MovesTyped DEF ChatIInv
  <1>7. /\ user'[v].sid = 0 /\ user'[v].state = "NONE"
        /\ \A u \in Users : u # v => user'[u] = user[u]
        /\ user' \in [Users -> [sid : Sids \cup {0}, state : States,
                                acct : Accounts \cup {NoAccount},
                                pos : Sectors \cup {Nowhere}]]
    <2>1. Reset \in [sid : Sids \cup {0}, state : States,
                     acct : Accounts \cup {NoAccount}, pos : Sectors \cup {Nowhere}]
      BY DEF Reset, States
    <2>2. Reset.sid = 0 /\ Reset.state = "NONE"
      BY DEF Reset
    <2> HIDE DEF v
    <2> QED
      BY <2>1, <2>2, <1>1, <1>2 DEF ChatIInv, UsersTypeOK
  <1>8. /\ sidToUser'[s] = NoUser /\ \A x \in Sids : x # s => sidToUser'[x] = sidToUser[x]
        /\ sidToUser' \in [Sids -> Users \cup {NoUser}]
    BY <1>1, <1>2 DEF ChatIInv, UsersTypeOK
  <1>9. /\ lock' = lock /\ indexStack' = indexStack /\ app' = app /\ ended' = ended
        /\ running' = running /\ cut' = cut /\ loginMap' = loginMap /\ requests' = requests
        /\ sessionIdList' = sessionIdList /\ readers' = readers /\ writer' = writer
    BY <1>1 DEF fieldVars, sessionVars
  <1>10. currentUserCnt \in Int /\ currentUserCnt' \in Int /\ d \in {0, 1}
    BY <1>1 DEF ChatIInv, UsersTypeOK
  <1>11. at[t].call = "release" => v = at[t].slot
    BY <1>1, <1>3 DEF InPlace, LeavePcs
  <1> HIDE DEF v, s
  <1>12. UsersTypeOK'
    BY <1>6, <1>7, <1>8, <1>9, <1>10 DEF ChatIInv, UsersTypeOK
  <1>13. Guarded(t)
    BY <1>2, <1>7, <1>9 DEF Guarded
  <1>14. ThreadOK(t)'
    <2>1. InPlace(t)'
      BY <1>1, <1>3, <1>4, <1>6 DEF InPlace, AnswerPcs, MessagePcs, LeavePcs, v
    <2>2. (HoldsSlot(t)' <=> HoldsSlot(t)) /\ (HoldsSlot(t)' => v # at[t].slot)
      BY <1>1, <1>4, <1>6 DEF HoldsSlot, AnswerPcs, MessagePcs, LeavePcs, v
    <2>3. Locked(t)'
      BY <1>1, <1>2, <1>3, <1>4, <1>6, <1>9, <2>2 DEF Locked, LeavePcs
    <2>4. HoldsSlot(t)' => StillOwn(t)'
      BY <1>2, <1>3, <1>4, <1>6, <1>7, <2>2 DEF Found, StillOwn
    <2>5. Found(t)'
      BY <1>4, <1>6, <2>4 DEF Found, LeavePcs, MessagePcs
    <2> QED
      BY <2>1, <2>3, <2>5 DEF ThreadOK
  <1>15. \A r \in Threads : ThreadOK(r)'
    BY <1>6, <1>13, <1>14, OtherThreads DEF ChatIInv, ThreadOK
  <1>16. \A u \in Users : user[u].sid = s => u = v
    BY <1>2, SlotOfSession DEF s, Sids
  <1>17. UsersMapped'
    <2>1. ASSUME NEW x \in Sids, sidToUser'[x] # NoUser PROVE user'[sidToUser'[x]].sid = x
      <3>1. x # s /\ sidToUser'[x] = sidToUser[x] /\ sidToUser[x] \in Users
        BY <2>1, <1>8 DEF ChatIInv, UsersTypeOK
      <3>2. user[sidToUser[x]].sid = x
        BY <2>1, <3>1 DEF ChatIInv, UsersMapped
      <3>3. sidToUser[x] # v
        BY <3>1, <3>2 DEF s
      <3> QED
        BY <3>1, <3>2, <3>3, <1>7
    <2>2. ASSUME NEW u \in Users, user'[u].sid # 0 PROVE sidToUser'[user'[u].sid] = u
      <3>1. u # v /\ user'[u] = user[u] /\ user[u].sid \in Sids /\ user[u].sid # s
        BY <2>2, <1>7, <1>16 DEF ChatIInv, UsersTypeOK
      <3> QED
        BY <2>2, <3>1, <1>8 DEF ChatIInv, UsersMapped
    <2>3. ASSUME NEW u \in Users
          PROVE  /\ user'[u].state = "NONE" <=> user'[u].sid = 0
                 /\ user'[u].state \in LoggedIn =>
                       /\ user'[u].acct \in Accounts
                       /\ user'[u].state = "INFIELD" <=> InSectorRange(user'[u].pos)
      <3>1. CASE u = v
        BY <3>1, <1>7 DEF LoggedIn
      <3>2. CASE u # v
        BY <3>2, <1>7 DEF ChatIInv, UsersMapped
      <3> QED
        BY <3>1, <3>2
    <2> QED
      BY <2>1, <2>2, <2>3 DEF UsersMapped, InSectorRange
  <1>18. \A r \in Threads : r # t => at'[r] = at[r]
    BY <1>6 DEF Others
  <1>19. SlotsHeld'
    <2>1. user[v].sid # 0
      BY <1>2 DEF s, Sids
    <2>2. ~OnStack(v) /\ \A r \in Threads : ~HasIndex(r, v)
      BY <1>2, <2>1 DEF ChatIInv, SlotsHeld
    <2>3. /\ \A u : OnStack(u)' <=> OnStack(u)
          /\ \A u : HasIndex(t, u)' <=> u = v
          /\ \A u : ~HasIndex(t, u)
          /\ \A r \in Threads : r # t => \A u : HasIndex(r, u)' <=> HasIndex(r, u)
      BY <1>1, <1>4, <1>6, <1>9, <1>18 DEF OnStack, HasIndex
    <2>4. ASSUME NEW u \in Users
          PROVE  /\ user'[u].sid = 0 <=> OnStack(u)' \/ \E r \in Threads : HasIndex(r, u)'
                 /\ \A r \in Threads : HasIndex(r, u)' => ~OnStack(u)'
                 /\ \A r, q \in Threads : HasIndex(r, u)' /\ HasIndex(q, u)' => r = q
      <3>1. CASE u = v
        BY <3>1, <2>2, <2>3, <1>7
      <3>2. CASE u # v
        <4>1. /\ OnStack(u)' <=> OnStack(u)
              /\ \A r \in Threads : HasIndex(r, u)' <=> HasIndex(r, u)
          BY <3>2, <2>3
        <4> QED
          BY <3>2, <4>1, <1>7 DEF ChatIInv, SlotsHeld
      <3> QED
        BY <3>1, <3>2
    <2> QED
      BY <2>4, <1>9 DEF ChatIInv, SlotsHeld
  <1>20. \A r \in Threads : /\ at'[r].call = at[r].call /\ at'[r].sid = at[r].sid
                            /\ at'[r].slot = at[r].slot /\ at'[r].acct = at[r].acct
                            /\ at'[r].pc = "create" <=> at[r].pc = "create"
                            /\ at'[r].pc = "count" <=> at[r].pc = "count"
                            /\ at'[r].pc = "leaveSlot" /\ r # t => at[r].pc = "leaveSlot"
    BY <1>1, <1>4, <1>6, <1>18
  <1>21. \A x \in Sids : sidToUser'[x] = sidToUser[x] \/ sidToUser'[x] = NoUser
    BY <1>8
  <1>22. \A r \in Threads : at[r].call # "none" => at[r].sid \in Sids
    BY ThreadFacts DEF InPlace
  <1>23. SessionsOpen'
    <2>1. \A x \in Sids : sidToUser'[x] # NoUser => app'[x] # "none"
      BY <1>9, <1>21 DEF ChatIInv, SessionsOpen
    <2>2. ASSUME NEW r \in Threads, at'[r].pc = "create" PROVE sidToUser'[at'[r].sid] = NoUser
      <3>1. at[r].pc = "create" /\ at[r].call # "none" /\ at[r].sid \in Sids
        BY <2>2, <1>20, <1>22, ThreadFacts DEF InPlace
      <3> QED
        BY <3>1, <1>20, <1>21 DEF ChatIInv, SessionsOpen
    <2>3. \A r \in Threads : InCallback(r)' <=> InCallback(r)
      BY <1>20 DEF InCallback
    <2> QED
      BY <2>1, <2>2, <2>3, <1>9, <1>20 DEF ChatIInv, SessionsOpen
  <1>24. \A x \in Sids : \A a : Awaits(x, a) => Awaits(x, a)'
    BY <1>7, <1>9 DEF Awaits, Sids
  <1>25. AskedOnce'
    <2>1. \A r \in Threads : /\ Answers(r)' <=> Answers(r)
                             /\ Answering(r)' <=> Answering(r)
                             /\ Answers(r) => at[r].sid \in Sids
                             /\ Answering(r) => Answers(r)
      BY <1>20, <1>22 DEF Answers, Answering
    <2>2. ASSUME NEW m \in requests'
          PROVE  /\ (Awaits(m.sid, m.acct))'
                 /\ \A n \in requests' : m.sid = n.sid => m = n
                 /\ \A r \in Threads : Answers(r)' => at'[r].sid # m.sid
                 /\ at'[Acceptor].pc = "create" => at'[Acceptor].sid # m.sid
      <3>1. m.sid \in Sids /\ Acceptor \in Threads /\ m \in requests
        BY <1>9 DEF ChatIInv, UsersTypeOK, Threads
      <3> QED
        BY <3>1, <2>1, <1>9, <1>20, <1>24 DEF ChatIInv, AskedOnce
    <2>3. ASSUME NEW r \in Threads
          PROVE  /\ Answering(r)' => (Awaits(at[r].sid, at[r].acct))'
                 /\ Answers(r)' => app'[at'[r].sid] # "none"
                 /\ Answers(r)' /\ at'[Acceptor].pc = "create"
                       => at'[Acceptor].sid # at'[r].sid
      <3>1. Acceptor \in Threads
        BY DEF Threads
      <3>2. Answering(r)' => (Awaits(at[r].sid, at[r].acct))'
        <4> SUFFICES ASSUME Answering(r)' PROVE (Awaits(at[r].sid, at[r].acct))'
          OBVIOUS
        <4>1. /\ Awaits(at[r].sid, at[r].acct) /\ at[r].sid \in Sids
              /\ at'[r].sid = at[r].sid /\ at'[r].acct = at[r].acct
          BY <2>1, <1>20 DEF ChatIInv, AskedOnce
        <4>2. \A x \in Sids : \A a : Awaits(x, a) => Awaits(x, a)'
          BY <1>24
        <4> QED
          BY <4>1, <1>7, <1>9 DEF Awaits, Sids
      <3> QED
        BY <3>1, <3>2, <2>1, <1>9, <1>20 DEF ChatIInv, AskedOnce
    <2>4. \A r, q \in Threads : Answers(r)' /\ Answers(q)' /\ at'[r].sid = at'[q].sid => r = q
      BY <2>1, <1>20 DEF ChatIInv, AskedOnce
    <2> QED
      BY <2>2, <2>3, <2>4 DEF AskedOnce
  <1>26. ReleasesLate'
    <2>1. ASSUME NEW r \in Threads, at'[r].call = "release"
          PROVE  /\ app'[at'[r].sid] = "released"
                 /\ sidToUser'[at'[r].sid] \in {NoUser, at'[r].slot}
                 /\ at'[r].pc = "leaveSlot" => sidToUser'[at'[r].sid] = NoUser
      <3>1. /\ at[r].call = "release" /\ at'[r].sid = at[r].sid /\ at'[r].slot = at[r].slot
            /\ at[r].sid \in Sids
        BY <2>1, <1>20, <1>22
      <3>2. /\ app[at[r].sid] = "released" /\ sidToUser[at[r].sid] \in {NoUser, at[r].slot}
            /\ at[r].pc = "leaveSlot" => sidToUser[at[r].sid] = NoUser
        BY <3>1 DEF ChatIInv, ReleasesLate
      <3>3. r = t => sidToUser'[at[r].sid] = NoUser
        <4> SUFFICES ASSUME r = t, sidToUser[at[t].sid] # NoUser
                     PROVE  sidToUser'[at[t].sid] = NoUser
          BY <3>1, <1>21
        <4>1. sidToUser[at[t].sid] = v
          BY <3>1, <3>2, <1>11
        <4>2. at[t].sid = s
          BY <4>1, <3>1, <1>2, <1>3 DEF ChatIInv, UsersMapped, s
        <4> QED
          BY <4>2, <1>8
      <3> QED
        BY <3>1, <3>2, <3>3, <1>9, <1>20, <1>21
    <2>2. ASSUME NEW x \in Sids, app'[x] = "released", sidToUser'[x] # NoUser
          PROVE  \E r \in Threads : at'[r].call = "release" /\ at'[r].sid = x
      <3>1. PICK r \in Threads : at[r].call = "release" /\ at[r].sid = x
        BY <2>2, <1>9, <1>21 DEF ChatIInv, ReleasesLate
      <3> QED
        BY <3>1, <1>20
    <2> QED
      BY <2>1, <2>2 DEF ReleasesLate
  <1>27. ASSUME NEW u, u # v
         PROVE  /\ Leaving(u)' <=> Leaving(u)
                /\ BeingReleased(u, {"leaveLogin", "leaveSid"})'
                   <=> BeingReleased(u, {"leaveLogin", "leaveSid"})
    <2>1. ASSUME NEW r \in Threads
          PROVE  /\ at'[r].pc \in {"leaveSid"} /\ at'[r].victim = u
                    <=> at[r].pc \in {"leaveSid"} /\ at[r].victim = u
                 /\ at'[r].pc \in {"leaveLogin", "leaveSid"} /\ at'[r].victim = u
                    <=> at[r].pc \in {"leaveLogin", "leaveSid"} /\ at[r].victim = u
      <3>1. CASE r = t
        BY <3>1, <1>1, <1>4, <1>6, <1>27 DEF v
      <3>2. CASE r # t
        BY <3>2, <1>18
      <3> QED
        BY <3>1, <3>2
    <2> QED
      BY <2>1 DEF Leaving, BeingReleased
  <1>28. Leaving(v) /\ BeingReleased(v, {"leaveLogin", "leaveSid"})
    BY <1>1 DEF Leaving, BeingReleased, v
  <1>29. LoginsNamed'
    <2>1. ASSUME NEW b \in Accounts, loginMap'[b] # 0
          PROVE  \E u \in Users : IsLogin(u, b)' /\ user'[u].sid = loginMap'[b]
      <3>1. PICK u \in Users : IsLogin(u, b) /\ user[u].sid = loginMap[b]
        BY <2>1, <1>9 DEF ChatIInv, LoginsNamed
      <3>2. u # v
        BY <3>1, <1>28 DEF IsLogin
      <3>3. IsLogin(u, b)'
        BY <3>1, <3>2, <1>7, <1>27 DEF IsLogin
      <3> QED
        BY <3>1, <3>2, <3>3, <1>7, <1>9
    <2>2. ASSUME NEW u \in Users, user'[u].state \in LoggedIn, ~Leaving(u)'
          PROVE  loginMap'[user'[u].acct] = user'[u].sid
      <3>1. u # v
        BY <2>2, <1>7 DEF LoggedIn
      <3> QED
        BY <2>2, <3>1, <1>7, <1>9, <1>27 DEF ChatIInv, LoginsNamed
    <2> QED
      BY <2>1, <2>2 DEF LoginsNamed
  <1>30. CountExact'
    <2>1. Listed' = Listed /\ Counting' = Counting
      BY <1>9, <1>20 DEF Listed, Counting
    <2>2. v \notin Losing' /\ \A u \in Users : u # v => (u \in Losing' <=> u \in Losing)
      BY <1>7, <1>27 DEF Losing, LoggedIn
    <2>3. Cardinality(Listed) \in Nat /\ Cardinality(Losing) \in Nat
          /\ Cardinality(Losing') \in Nat /\ Cardinality(Counting) \in Nat
      BY CountedSets, FS_CardinalityType
    <2>4. Cardinality(Losing) = Cardinality(Losing') + d
      <3>1. Losing \subseteq Users /\ Losing' \subseteq Users
        BY DEF Losing
      <3>2. CASE user[v].state \in LoggedIn
        <4>1. Losing = Losing' \cup {v}
          BY <3>1, <3>2, <2>2, <1>2, <1>28 DEF Losing
        <4> QED
          BY <4>1, <3>2, <2>2, CountedSets, OneMore
      <3>3. CASE user[v].state \notin LoggedIn
        <4>1. v \notin Losing
          BY <3>3 DEF Losing
        <4>2. Losing = Losing'
          BY <3>1, <4>1, <2>2
        <4> QED
          BY <3>3, <4>2, <2>3
      <3> QED
        BY <3>2, <3>3
    <2>5. currentUserCnt = Cardinality(Listed) + Cardinality(Losing) - Cardinality(Counting)
      BY CountedSets DEF ChatIInv
    <2> HIDE DEF d
    <2> QED
      BY <2>1, <2>3, <2>4, <2>5, <1>1, <1>10, CountedSets
  <1>31. ListsExact'
    <2>1. ASSUME NEW x \in Sids, NEW q \in Sectors PROVE Stands(x, q)' <=> Stands(x, q)
      <3>1. \A u \in Users :
               (/\ user[u].sid = x /\ user[u].state = "INFIELD" /\ user[u].pos = q
                /\ ~BeingReleased(u, {"leaveLogin", "leaveSid"}))
               <=> (/\ user'[u].sid = x /\ user'[u].state = "INFIELD" /\ user'[u].pos = q
                    /\ ~BeingReleased(u, {"leaveLogin", "leaveSid"})')
        BY <1>7, <1>27, <1>28
      <3> QED
        BY <3>1 DEF Stands
    <2> QED
      BY <2>1, <1>9 DEF ChatIInv, ListsExact
  <1> QED
    BY <1>12, <1>15, <1>17, <1>19, <1>23, <1>25, <1>26, <1>29, <1>30, <1>31
       DEF ChatIInv, ThreadOK


\* A slot is put on the stack.
LEMMA PushesSlot ==
  ASSUME indexStack \in Seq(Users), IsInjective(indexStack), NEW v \in Users, ~OnStack(v),
         indexStack' = <<v>> \o indexStack
  PROVE  /\ indexStack' \in Seq(Users) /\ IsInjective(indexStack)'
         /\ \A u : OnStack(u)' <=> OnStack(u) \/ u = v
PROOF
  <1> DEFINE q == indexStack
             n == Len(q)
  <1>1. /\ n \in Nat /\ DOMAIN q = 1 .. n /\ <<v>> \in Seq(Users) /\ Len(<<v>>) = 1
        /\ <<v>>[1] = v
    BY LenProperties
  <1>2. /\ q' \in Seq(Users) /\ Len(q') = n + 1 /\ DOMAIN q' = 1 .. n + 1
        /\ q'[1] = v /\ \A k \in 2 .. n + 1 : q'[k] = q[k - 1]
    <2> HIDE DEF q
    <2>1. <<v>> \o q \in Seq(Users) /\ Len(<<v>> \o q) = 1 + n
      BY <1>1, ConcatProperties DEF q
    <2>2. \A k \in 1 .. n + 1 : (<<v>> \o q)[k] = IF k <= 1 THEN <<v>>[k] ELSE q[k - 1]
      BY <1>1, ConcatProperties DEF q
    <2>3. DOMAIN (<<v>> \o q) = 1 .. n + 1
      BY <2>1, <1>1, LenProperties
    <2> QED
      BY <2>1, <2>2, <2>3, <1>1 DEF q
  <1>3. \A k \in 1 .. n : q[k] # v
    BY <1>1 DEF OnStack
  <1>4. \A j, k \in 1 .. n : q[j] = q[k] => j = k
    BY <1>1 DEF IsInjective
  <1> HIDE DEF q, n
  <1>5. \A j, k \in 1 .. n + 1 : q'[j] = q'[k] => j = k
    <2> SUFFICES ASSUME NEW j \in 1 .. n + 1, NEW k \in 1 .. n + 1, q'[j] = q'[k] PROVE j = k
      OBVIOUS
    <2>1. CASE j = 1 /\ k = 1
      BY <2>1
    <2>2. CASE j = 1 /\ k # 1
      BY <2>2, <1>1, <1>2, <1>3
    <2>3. CASE j # 1 /\ k = 1
      BY <2>3, <1>1, <1>2, <1>3
    <2>4. CASE j # 1 /\ k # 1
      <3>1. j - 1 \in 1 .. n /\ k - 1 \in 1 .. n /\ q[j - 1] = q[k - 1]
        BY <2>4, <1>1, <1>2
      <3>2. j - 1 = k - 1
        BY <3>1, <1>4
      <3> QED
        BY <3>2
    <2> QED
      BY <2>1, <2>2, <2>3, <2>4
  <1>6. ASSUME NEW u PROVE OnStack(u)' <=> OnStack(u) \/ u = v
    <2>1. OnStack(u) <=> \E k \in 1 .. n : q[k] = u
      BY <1>1 DEF OnStack, q
    <2>2. OnStack(u)' <=> \E k \in 1 .. n + 1 : q'[k] = u
      BY <1>2 DEF OnStack, q
    <2>3. \A k \in 1 .. n : k + 1 \in 2 .. n + 1 /\ (k + 1) - 1 = k /\ k + 1 \in 1 .. n + 1
      BY <1>1
    <2>4. OnStack(u) => OnStack(u)'
      BY <1>2, <2>1, <2>2, <2>3
    <2>5. 1 \in 1 .. n + 1
      BY <1>1
    <2>6. \A k \in 1 .. n + 1 : k = 1 \/ (k \in 2 .. n + 1 /\ k - 1 \in 1 .. n)
      BY <1>1
    <2> QED
      BY <1>2, <2>1, <2>2, <2>4, <2>5, <2>6
  <1>7. IsInjective(indexStack)'
    BY <1>2, <1>5 DEF IsInjective, q
  <1> QED
    BY <1>2, <1>6, <1>7 DEF q

\* The slot is free and the lock given back: PushIndex keeps the invariant.
LEMMA PushIndexInv ==
  ASSUME ChatIInv, NEW t \in Threads, PushIndex(t)
  PROVE  ChatIInv'
PROOF
  <1> DEFINE v == at[t].victim
             f == [at[t] EXCEPT !.pc = "add", !.victim = NoUser, !.other = 0]
             goesOn == at[t].call = "answer" /\ at[t].other # at[t].sid
  <1>1. /\ at[t].pc = "leaveSlot"
        /\ indexStack' = <<v>> \o indexStack
        /\ lock' = [lock EXCEPT ![v] = NoThread]
        /\ cut' = cut \/ cut' = cut \cup ({at[t].other} \ ended)
        /\ UNCHANGED <<fieldVars, user, sidToUser, loginMap, currentUserCnt, requests>>
        /\ \/ goesOn /\ at' = [at EXCEPT ![t] = f] /\ UNCHANGED sessionVars
           \/ ~goesOn /\ Return(t)
    BY DEF PushIndex, Unlock, CutOff
  <1>2. /\ v \in Users /\ at[t].other \in Sids /\ at[t].sid \in Sids /\ at[t].slot \in Users
        /\ lock[v] = t
    BY <1>1, LeaveFacts DEF LeavePcs
  <1>3. /\ FrameOK(at[t]) /\ InPlace(t) /\ Locked(t) /\ Found(t) /\ DOMAIN at = Threads
        /\ t # NoThread
    BY ThreadFacts
  <1>4. at[t].call # "accept"
    BY <1>1, <1>3 DEF InPlace
  <1>5. /\ FrameOK(f) /\ f.pc = "add" /\ f.call = at[t].call /\ f.sid = at[t].sid
        /\ f.slot = at[t].slot /\ f.acct = at[t].acct
    BY <1>3 DEF FrameOK, Idle, Pcs
  <1>6. goesOn => v # at[t].slot
    BY <1>1, <1>3 DEF InPlace, LeavePcs
  <1> HIDE DEF f
  <1> DEFINE g == IF goesOn THEN f ELSE Idle
  <1>7. at' = [at EXCEPT ![t] = g]
    BY <1>1 DEF Return
  <1>8. FrameOK(g) /\ g.pc \in {"add", "idle"}
    BY <1>5, IdleTyped
  <1>9. (goesOn => g = f) /\ (~goesOn => g = Idle)
    OBVIOUS
  <1> HIDE DEF g, goesOn
  <1>10. /\ DOMAIN at' = Threads /\ \A r \in Threads : FrameOK(at[r])'
         /\ at'[t] = g /\ Others(t)
    BY <1>7, <1>8, MovesTyped DEF ChatIInv
  <1>11. HasIndex(t, v) /\ ~OnStack(v) /\ user[v].sid = 0
    <2>1. HasIndex(t, v)
      BY <1>1 DEF HasIndex
    <2> QED
      BY <1>2, <2>1 DEF ChatIInv, SlotsHeld
  <1>12. /\ indexStack' \in Seq(Users) /\ IsInjective(indexStack)'
         /\ \A u : OnStack(u)' <=> OnStack(u) \/ u = v
    BY <1>1, <1>2, <1>11, PushesSlot DEF ChatIInv, UsersTypeOK, SlotsHeld
  <1>13. /\ lock'[v] = NoThread /\ \A u \in Users : u # v => lock'[u] = lock[u]
         /\ lock' \in [Users -> Threads \cup {NoThread}]
    BY <1>1, <1>2 DEF ChatIInv, UsersTypeOK
  <1>14. /\ user' = user /\ sidToUser' = sidToUser /\ loginMap' = loginMap
         /\ currentUserCnt' = currentUserCnt /\ requests' = requests
         /\ sessionIdList' = sessionIdList /\ readers' = readers /\ writer' = writer
         /\ app' = app /\ ended' = ended /\ running' \subseteq running /\ cut' \subseteq Sids
    <2>1. cut' \subseteq Sids
      BY <1>1, <1>2 DEF ChatIInv, UsersTypeOK
    <2>2. app' = app /\ ended' = ended /\ running' \subseteq running
      BY <1>1 DEF Return, Contract!CallbackReturns, sessionVars
    <2> QED
      BY <1>1, <2>1, <2>2 DEF fieldVars
  <1> HIDE DEF v
  <1>15. UsersTypeOK'
    BY <1>10, <1>12, <1>13, <1>14 DEF ChatIInv, UsersTypeOK
  <1>16. Guarded(t)
    BY <1>2, <1>13, <1>14 DEF Guarded
  <1>17. ThreadOK(t)'
    <2>1. CASE ~goesOn
      BY <2>1, <1>9, <1>10, IdleInPlace
    <2>2. CASE goesOn
      <3>1. at[t].call = "answer"
        BY <2>2 DEF goesOn
      <3>2. HoldsSlot(t)
        BY <2>2, <1>1, <1>6 DEF HoldsSlot, LeavePcs, v
      <3>3. lock'[at[t].slot] = t /\ StillOwn(t)
        BY <2>2, <3>2, <1>2, <1>3, <1>6, <1>13 DEF Locked, Found
      <3> QED
        BY <2>2, <3>1, <3>3, <1>3, <1>5, <1>9, <1>10, <1>14, AnswerInPlace
    <2> QED
      BY <2>1, <2>2
  <1>18. \A r \in Threads : ThreadOK(r)'
    BY <1>10, <1>16, <1>17, OtherThreads DEF ChatIInv, ThreadOK
  <1>19. UsersMapped'
    BY <1>14 DEF ChatIInv, UsersMapped
  <1>20. \A r \in Threads : r # t => at'[r] = at[r]
    BY <1>10 DEF Others
  <1>21. SlotsHeld'
    <2>1. /\ \A u : ~HasIndex(t, u)' /\ (HasIndex(t, u) => u = v)
          /\ \A r \in Threads : r # t => \A u : HasIndex(r, u)' <=> HasIndex(r, u)
      BY <1>1, <1>8, <1>10, <1>20 DEF HasIndex, v
    <2>2. ASSUME NEW u \in Users
          PROVE  /\ user'[u].sid = 0 <=> OnStack(u)' \/ \E r \in Threads : HasIndex(r, u)'
                 /\ \A r \in Threads : HasIndex(r, u)' => ~OnStack(u)'
                 /\ \A r, q \in Threads : HasIndex(r, u)' /\ HasIndex(q, u)' => r = q
      <3>1. CASE u = v
        <4>1. \A r \in Threads : HasIndex(r, v) => r = t
          BY <1>2, <1>11 DEF ChatIInv, SlotsHeld
        <4>2. \A r \in Threads : ~HasIndex(r, u)'
          BY <3>1, <4>1, <2>1
        <4> QED
          BY <3>1, <4>2, <1>11, <1>12, <1>14
      <3>2. CASE u # v
        <4>1. /\ OnStack(u)' <=> OnStack(u)
              /\ \A r \in Threads : HasIndex(r, u)' <=> HasIndex(r, u)
          BY <3>2, <1>12, <2>1
        <4> QED
          BY <4>1, <1>14 DEF ChatIInv, SlotsHeld
      <3> QED
        BY <3>1, <3>2
    <2> QED
      BY <1>12, <2>2 DEF SlotsHeld
  <1>22. (SessionsOpen /\ AskedOnce /\ ReleasesLate)'
    <2>1. CASE goesOn
      <3>1. GoesOn(t)
        BY <2>1, <1>1, <1>5, <1>9, <1>10, <1>14 DEF GoesOn
      <3> QED
        BY <3>1, GoesOnSessions DEF ChatIInv
    <2>2. CASE ~goesOn
      <3>1. at[t].call = "release" => sidToUser[at[t].sid] = NoUser
        BY <1>1 DEF ChatIInv, ReleasesLate
      <3>2. Returns(t)
        BY <2>2, <3>1, <1>1, <1>9, <1>10, <1>14 DEF Returns, ReturnsFrom, KeepsAwaited
      <3> QED
        BY <3>2, ReturnsSessions DEF ChatIInv
    <2> QED
      BY <2>1, <2>2
  <1>23. CalmMove(t)
    BY <1>1, <1>8, <1>10 DEF CalmMove
  <1>24. SameLogins /\ SamePlaces
    BY <1>14, <1>23, CalmReleases DEF SameLogins, SamePlaces
  <1>25. LoginsNamed' /\ CountExact' /\ ListsExact'
    BY <1>1, <1>8, <1>10, <1>14, <1>24, SameLoginsNamed, SameCount, SamePlacesLists
       DEF ChatIInv
  <1> QED
    BY <1>15, <1>18, <1>19, <1>21, <1>22, <1>25 DEF ChatIInv, ThreadOK


-----------------------------------------------------------------------------
(* Handlers that change the user of their session and return.               *)

UserRecord == [sid : Sids \cup {0}, state : States, acct : Accounts \cup {NoAccount},
               pos : Sectors \cup {Nowhere}]

\* Thread t returns from its handler and leaves r in slot u: still a user of
\* the session, logged in if it was, and before that not one that waited for
\* redis.
LEMMA UserReturns ==
  ASSUME ChatIInv, NEW t \in Threads, NEW u \in Users, NEW r \in UserRecord,
         user' = [user EXCEPT ![u] = r], r.sid = user[u].sid, r.sid # 0,
         user[u].state # "WAIT_IDENTIFY", r.state # "NONE",
         r.state \in LoggedIn <=> user[u].state \in LoggedIn,
         r.state \in LoggedIn => /\ r.acct = user[u].acct
                                 /\ r.state = "INFIELD" <=> InSectorRange(r.pos),
         lock[u] \in {NoThread, t}, LocksMove(t),
         Return(t), at[t].pc \notin LeavePcs \cup {"create", "count"},
         at[t].call # "release",
         UNCHANGED <<cut, indexStack, sidToUser, loginMap, currentUserCnt>>,
         sessionIdList' \in [Sectors -> [Sids -> Nat]],
         requests' \subseteq [sid : Sids, acct : Accounts],
         requests' = requests \/ AskedOnce', ListsExact'
  PROVE  ChatIInv'
PROOF
  <1>1. /\ DOMAIN at' = Threads /\ \A q \in Threads : FrameOK(at[q])'
        /\ at'[t] = Idle /\ Others(t)
    BY MovesTyped, IdleTyped DEF ChatIInv, Return
  <1>2. app' = app /\ ended' = ended /\ running' \subseteq running
    BY DEF Return, Contract!CallbackReturns, sessionVars
  <1>3. /\ user'[u] = r /\ \A v \in Users : v # u => user'[v] = user[v]
        /\ user' \in [Users -> UserRecord] /\ user \in [Users -> UserRecord]
    BY DEF ChatIInv, UsersTypeOK, UserRecord
  <1>4. UsersTypeOK'
    BY <1>1, <1>2, <1>3 DEF ChatIInv, UsersTypeOK, LocksMove, UserRecord
  <1>5. Guarded(t)
    BY <1>3 DEF Guarded, LocksMove
  <1>6. \A q \in Threads : ThreadOK(q)'
    BY <1>1, <1>5, IdleInPlace, OtherThreads DEF ChatIInv, ThreadOK
  <1>7. \A v \in Users : user'[v].sid = user[v].sid
    BY <1>3
  <1>8. UsersMapped'
    <2>1. \A x \in Sids : sidToUser[x] # NoUser => sidToUser[x] \in Users
      BY DEF ChatIInv, UsersTypeOK
    <2>2. ASSUME NEW v \in Users
          PROVE  /\ user'[v].state = "NONE" <=> user'[v].sid = 0
                 /\ user'[v].state \in LoggedIn =>
                       /\ user'[v].acct \in Accounts
                       /\ user'[v].state = "INFIELD" <=> InSectorRange(user'[v].pos)
      <3>1. CASE v = u
        BY <3>1, <1>3 DEF ChatIInv, UsersMapped
      <3>2. CASE v # u
        BY <3>2, <1>3 DEF ChatIInv, UsersMapped
      <3> QED
        BY <3>1, <3>2
    <2> QED
      BY <2>1, <2>2, <1>7 DEF ChatIInv, UsersMapped, InSectorRange
  <1>9. SlotsHeld'
    <2>1. \A q \in Threads : \A v : HasIndex(q, v)' <=> HasIndex(q, v)
      BY <1>1, IdleTyped DEF HasIndex, Others, LeavePcs
    <2>2. \A v : OnStack(v)' <=> OnStack(v)
      BY DEF OnStack
    <2> QED
      BY <1>7, <2>1, <2>2 DEF ChatIInv, SlotsHeld
  <1>10. ReturnsFrom(t) /\ KeepsAwaited
    BY <1>1, <1>3 DEF ReturnsFrom, KeepsAwaited
  <1>11. (SessionsOpen /\ ReleasesLate)'
    BY <1>10, ReturnsOpen DEF ChatIInv
  <1>12. AskedOnce'
    BY <1>10, ReturnsSessions DEF ChatIInv, Returns
  <1>13. CalmMove(t)
    BY <1>1, IdleTyped DEF CalmMove, LeavePcs
  <1>14. SameLogins
    BY <1>3, <1>13, CalmReleases DEF SameLogins
  <1>15. LoginsNamed' /\ CountExact'
    BY <1>1, <1>14, IdleTyped, SameLoginsNamed, SameCount DEF ChatIInv
  <1> QED
    BY <1>4, <1>6, <1>8, <1>9, <1>11, <1>12, <1>15 DEF ChatIInv, ThreadOK

\* Redis is asked: RequestLogin keeps the invariant.
LEMMA RequestLoginInv ==
  ASSUME ChatIInv, NEW t \in Threads, NEW a \in Accounts, RequestLogin(t, a)
  PROVE  ChatIInv'
PROOF
  <1> DEFINE u == at[t].slot
             s == at[t].sid
             r == [user[u] EXCEPT !.acct = a, !.state = "WAIT_IDENTIFY"]
             n == [sid |-> s, acct |-> a]
  <1>1. /\ Handles(t, "login") /\ user[u].state = "WAIT_LOGIN"
        /\ user' = [user EXCEPT ![u].acct = a, ![u].state = "WAIT_IDENTIFY"]
        /\ requests' = requests \cup {n}
        /\ Return(t)
        /\ UNCHANGED <<fieldVars, cut, lock, indexStack, sidToUser, loginMap, currentUserCnt>>
    BY DEF RequestLogin, Handles, StateOf
  <1>2. /\ at[t].pc = "lock" /\ at[t].call = "message" /\ s \in Sids /\ u \in Users
        /\ lock[u] = NoThread /\ user[u].sid = s
        /\ at[t].pc \notin LeavePcs \cup {"create", "count"}
    BY <1>1, HandlesFacts
  <1>3. /\ user[u] \in UserRecord /\ user \in [Users -> UserRecord]
        /\ user[u].pos \in Sectors \cup {Nowhere}
    BY <1>2 DEF ChatIInv, UsersTypeOK, UserRecord
  <1>4. r \in UserRecord /\ r.sid = s /\ r.state = "WAIT_IDENTIFY" /\ r.acct = a
    BY <1>2, <1>3 DEF UserRecord, States
  <1>5. user' = [user EXCEPT ![u] = r]
    BY <1>1, <1>2, <1>3
  <1>6. /\ DOMAIN at' = Threads
        /\ at'[t] = Idle /\ Others(t)
    BY <1>1, MovesTyped, IdleTyped DEF ChatIInv, Return
  <1>7. app' = app
    BY <1>1 DEF Return, Contract!CallbackReturns, sessionVars
  <1> HIDE DEF r, u, s
  <1>8. \A v \in Users : user[v].sid = s => v = u
    BY <1>2, SlotOfSession DEF Sids
  <1>9. /\ \A q \in Threads : /\ Answers(q)' => Answers(q) /\ at'[q] = at[q] /\ q # t
                              /\ Answering(q)' => Answering(q) /\ at'[q] = at[q]
                              /\ Answering(q) => Answers(q)
        /\ at'[Acceptor].pc = "create" => at'[Acceptor] = at[Acceptor]
    BY <1>6, IdleTyped DEF Answers, Answering, Others, Threads
  <1>10. user'[u] = r /\ \A v \in Users : v # u => user'[v] = user[v]
    BY <1>2, <1>3, <1>5
  <1>11. \A x, b : Awaits(x, b) => Awaits(x, b)' /\ x # s
    <2>1. ASSUME NEW x, NEW b, Awaits(x, b) PROVE x # s
      BY <2>1, <1>1, <1>2 DEF Awaits, u
    <2> QED
      BY <2>1, <1>2, <1>4, <1>7, <1>10 DEF Awaits
  <1>12. app[s] # "none"
    BY <1>2 DEF ChatIInv, SessionsOpen, InCallback, s
  <1>13. \A b : b = s => Awaits(b, a)'
    BY <1>4, <1>7, <1>8, <1>10, <1>12 DEF Awaits, ChatIInv
  <1>14. \A q \in Threads : Answers(q) => at[q].sid # s
    <2> SUFFICES ASSUME NEW q \in Threads, Answers(q), at[q].sid = s PROVE FALSE
      OBVIOUS
    <2>1. CASE Answering(q)
      BY <2>1, <1>11 DEF ChatIInv, AskedOnce
    <2>2. CASE at[q].pc = "count"
      <3>1. HoldsSlot(q) /\ at[q].slot \in Users
        BY <2>2, ThreadFacts DEF HoldsSlot, AnswerPcs, InPlace
      <3>2. user[at[q].slot].sid = s /\ user[at[q].slot].state = "LOGIN"
        BY <2>2, <3>1, ThreadFacts DEF Found, StillOwn, StateOf
      <3> QED
        BY <3>1, <3>2, <1>1, <1>8 DEF u
    <2> QED
      BY <2>1, <2>2 DEF Answering
  <1>15. at[Acceptor].pc = "create" => at[Acceptor].sid # s
    <2>1. sidToUser[s] = u /\ u # NoUser
      BY <1>2, ThreadFacts DEF ChatIInv, UsersMapped, Sids
    <2> QED
      BY <2>1 DEF ChatIInv, SessionsOpen, Threads
  <1>16. AskedOnce'
    <2>1. \A m \in requests : m.sid # s
      BY <1>11 DEF ChatIInv, AskedOnce
    <2>2. ASSUME NEW m \in requests'
          PROVE  /\ (Awaits(m.sid, m.acct))'
                 /\ \A k \in requests' : m.sid = k.sid => m = k
                 /\ \A q \in Threads : Answers(q)' => at'[q].sid # m.sid
                 /\ at'[Acceptor].pc = "create" => at'[Acceptor].sid # m.sid
      <3>1. CASE m = n
        BY <3>1, <1>1, <1>9, <1>13, <1>14, <1>15, <2>1
      <3>2. CASE m \in requests
        BY <3>2, <1>1, <1>9, <1>11, <2>1 DEF ChatIInv, AskedOnce
      <3> QED
        BY <3>1, <3>2, <1>1
    <2>3. ASSUME NEW q \in Threads
          PROVE  /\ Answering(q)' => (Awaits(at[q].sid, at[q].acct))'
                 /\ Answers(q)' => app'[at'[q].sid] # "none"
                 /\ Answers(q)' /\ at'[Acceptor].pc = "create" => at'[Acceptor].sid # at'[q].sid
      <3>1. Answering(q)' => (Awaits(at[q].sid, at[q].acct))'
        <4> SUFFICES ASSUME Answering(q)' PROVE (Awaits(at[q].sid, at[q].acct))'
          OBVIOUS
        <4>1. Awaits(at[q].sid, at[q].acct) /\ at'[q] = at[q]
          BY <1>9 DEF ChatIInv, AskedOnce
        <4> QED
          BY <4>1, <1>11
      <3> QED
        BY <3>1, <1>7, <1>9 DEF ChatIInv, AskedOnce
    <2>4. \A p, q \in Threads : Answers(p)' /\ Answers(q)' /\ at'[p].sid = at'[q].sid => p = q
      BY <1>9 DEF ChatIInv, AskedOnce
    <2> QED
      BY <2>2, <2>3, <2>4 DEF AskedOnce
  <1>17. LocksMove(t)
    BY <1>1 DEF LocksMove, fieldVars, ChatIInv, UsersTypeOK
  <1>18. CalmMove(t)
    BY <1>2, <1>6, IdleTyped DEF CalmMove
  <1>19. SamePlaces
    BY <1>1, <1>4, <1>10, <1>18, CalmReleases DEF SamePlaces, u
  <1>20. ListsExact' /\ sessionIdList' \in [Sectors -> [Sids -> Nat]]
    BY <1>1, <1>19, SamePlacesLists DEF fieldVars, ChatIInv, UsersTypeOK
  <1>21. requests' \subseteq [sid : Sids, acct : Accounts]
    BY <1>1, <1>2 DEF ChatIInv, UsersTypeOK
  <1>22. user[u].state = "WAIT_LOGIN" /\ user[u].sid = s /\ s # 0
    BY <1>1, <1>2 DEF u, s, Sids
  <1> QED
    BY <1>1, <1>2, <1>4, <1>5, <1>16, <1>17, <1>20, <1>21, <1>22, UserReturns DEF LoggedIn


\* Nobody releases a user whose lock is free or held by a thread that is not in
\* ReleaseUser.
LEMMA NotReleased ==
  ASSUME ChatIInv, NEW t \in Threads, NEW u \in Users, lock[u] \in {NoThread, t},
         at[t].pc \notin LeavePcs
  PROVE  ~BeingReleased(u, {"leaveLogin", "leaveSid"})
PROOF
  <1>1. ASSUME NEW r \in Threads, at[r].pc \in {"leaveLogin", "leaveSid"}, at[r].victim = u
        PROVE  FALSE
    <2>1. lock[u] = r /\ r # NoThread
      BY <1>1, ThreadFacts DEF Locked, LeavePcs
    <2> QED
      BY <1>1, <2>1 DEF LeavePcs
  <1> QED
    BY <1>1 DEF BeingReleased

\* The user of session s goes to sector "to", from the sector it was in if it was
\* in one: the lists agree with where the users are.
LEMMA Relocates ==
  ASSUME ChatIInv, NEW t \in Threads, CalmMove(t), NEW u \in Users, NEW s \in Sids,
         user[u].sid = s, ~BeingReleased(u, {"leaveLogin", "leaveSid"}),
         user'[u].sid = s, user'[u].state = "INFIELD", NEW to \in Sectors, user'[u].pos = to,
         \A v \in Users : v # u => user'[v] = user[v],
         NEW from, user[u].state = "INFIELD" => from = user[u].pos,
         user[u].state # "INFIELD" => from = Nowhere,
         sessionIdList' = Relocated(s, from, to)
  PROVE  ListsExact' /\ sessionIdList' \in [Sectors -> [Sids -> Nat]]
PROOF
  <1>1. sessionIdList \in [Sectors -> [Sids -> Nat]]
    BY DEF ChatIInv, UsersTypeOK
  <1>2. Nowhere \notin Sectors
    BY FieldAssumption DEF Sectors, Nowhere
  <1>3. \A v \in Users : (user[v].sid = s \/ user'[v].sid = s) => v = u
    BY SlotOfSession DEF Sids
  <1>4. \A v : BeingReleased(v, {"leaveLogin", "leaveSid"})'
               <=> BeingReleased(v, {"leaveLogin", "leaveSid"})
    BY CalmReleases
  <1>5. \A q \in Sectors : Stands(s, q) <=> q = from
    <2>1. ASSUME NEW q \in Sectors, Stands(s, q) PROVE q = from
      BY <2>1, <1>3 DEF Stands
    <2>2. from \in Sectors => user[u].state = "INFIELD" /\ from = user[u].pos
      BY <1>2
    <2>3. from \in Sectors => Stands(s, from)
      BY <2>2 DEF Stands
    <2> QED
      BY <2>1, <2>3
  <1>6. \A q \in Sectors : Stands(s, q)' <=> q = to
    <2>1. \A q \in Sectors : Stands(s, q)' => q = to
      BY <1>3 DEF Stands
    <2>2. Stands(s, to)'
      BY <1>4 DEF Stands
    <2> QED
      BY <2>1, <2>2
  <1>7. \A x \in Sids, q \in Sectors : x # s => (Stands(x, q)' <=> Stands(x, q))
    <2>1. ASSUME NEW x \in Sids, NEW q \in Sectors, x # s
          PROVE  \A v \in Users :
                   (/\ user[v].sid = x /\ user[v].state = "INFIELD" /\ user[v].pos = q
                    /\ ~BeingReleased(v, {"leaveLogin", "leaveSid"}))
                   <=> (/\ user'[v].sid = x /\ user'[v].state = "INFIELD"
                        /\ user'[v].pos = q
                        /\ ~BeingReleased(v, {"leaveLogin", "leaveSid"})')
      BY <2>1, <1>4
    <2> QED
      BY <2>1 DEF Stands
  <1>8. \A q \in Sectors : sessionIdList[q][s] = IF q = from THEN 1 ELSE 0
    BY <1>5 DEF ChatIInv, ListsExact
  <1>9. \A q \in Sectors :
           sessionIdList'[q] = [sessionIdList[q] EXCEPT ![s] = IF q = to THEN 1 ELSE 0]
    <2>1. ASSUME NEW q \in Sectors
          PROVE  (IF q = from /\ sessionIdList[q][s] > 0
                  THEN sessionIdList[q][s] - 1 ELSE sessionIdList[q][s])
                 + (IF q = to THEN 1 ELSE 0) = IF q = to THEN 1 ELSE 0
      BY <1>8
    <2>2. ASSUME NEW q \in Sectors
          PROVE  sessionIdList'[q] =
                   [sessionIdList[q] EXCEPT
                      ![s] = (IF q = from /\ sessionIdList[q][s] > 0
                              THEN sessionIdList[q][s] - 1 ELSE sessionIdList[q][s])
                             + (IF q = to THEN 1 ELSE 0)]
      BY DEF Relocated
    <2> QED
      BY <2>1, <2>2
  <1>10. ASSUME NEW q \in Sectors
         PROVE  /\ sessionIdList'[q] \in [Sids -> Nat]
                /\ sessionIdList'[q][s] = IF q = to THEN 1 ELSE 0
                /\ \A x \in Sids : x # s => sessionIdList'[q][x] = sessionIdList[q][x]
    <2> DEFINE n == IF q = to THEN 1 ELSE 0
    <2>1. n \in Nat /\ sessionIdList[q] \in [Sids -> Nat]
      BY <1>1
    <2>2. sessionIdList'[q] = [sessionIdList[q] EXCEPT ![s] = n]
      BY <1>9
    <2> HIDE DEF n
    <2>3. /\ sessionIdList'[q] \in [Sids -> Nat] /\ sessionIdList'[q][s] = n
          /\ \A x \in Sids : x # s => sessionIdList'[q][x] = sessionIdList[q][x]
      BY <2>1, <2>2
    <2> QED
      BY <2>3 DEF n
  <1>11. sessionIdList' \in [Sectors -> [Sids -> Nat]]
    <2>1. sessionIdList' = [q \in Sectors |-> sessionIdList'[q]]
      BY DEF Relocated
    <2> QED
      BY <2>1, <1>10
  <1>12. ListsExact'
    <2>1. ASSUME NEW x \in Sids, NEW q \in Sectors
          PROVE  sessionIdList'[q][x] = IF Stands(x, q)' THEN 1 ELSE 0
      <3>1. CASE x = s
        BY <3>1, <1>6, <1>10
      <3>2. CASE x # s
        BY <3>2, <1>7, <1>10 DEF ChatIInv, ListsExact
      <3> QED
        BY <3>1, <3>2
    <2> QED
      BY <2>1 DEF ListsExact
  <1> QED
    BY <1>11, <1>12


\* The first move of a user: EnterField keeps the invariant.
LEMMA EnterFieldInv ==
  ASSUME ChatIInv, NEW t \in Threads, NEW p \in Sectors, EnterField(t, p)
  PROVE  ChatIInv'
PROOF
  <1> DEFINE u == at[t].slot
             s == at[t].sid
             r == [user[u] EXCEPT !.state = "INFIELD", !.pos = p]
  <1>1. /\ Handles(t, "move") /\ ~InSectorRange(user[u].pos)
        /\ user[u].state \in LoggedIn
        /\ user' = [user EXCEPT ![u].state = "INFIELD", ![u].pos = p]
        /\ sessionIdList' = Relocated(user[u].sid, Nowhere, p)
        /\ Return(t)
        /\ UNCHANGED <<readers, writer, cut, lock, indexStack, sidToUser, loginMap,
                       currentUserCnt, requests>>
    <2>1. StateOf(t) = "WAIT_LOGIN" \/ StateOf(t) # "WAIT_LOGIN"
      OBVIOUS
    <2> QED
      BY DEF EnterField, InTurn, Handles, StateOf, AddSector
  <1>2. /\ at[t].pc = "lock" /\ at[t].call = "message" /\ s \in Sids /\ u \in Users
        /\ lock[u] = NoThread /\ user[u].sid = s
        /\ at[t].pc \notin LeavePcs \cup {"create", "count"}
    BY <1>1, HandlesFacts
  <1>3. user[u].state = "LOGIN"
    BY <1>1, <1>2 DEF ChatIInv, UsersMapped, LoggedIn, InSectorRange
  <1>4. /\ user[u] \in UserRecord /\ user \in [Users -> UserRecord]
        /\ user[u].acct \in Accounts \cup {NoAccount}
    BY <1>2 DEF ChatIInv, UsersTypeOK, UserRecord
  <1>5. /\ r \in UserRecord /\ r.sid = s /\ r.state = "INFIELD" /\ r.pos = p
        /\ r.acct = user[u].acct
    BY <1>2, <1>4 DEF UserRecord, States
  <1>6. user' = [user EXCEPT ![u] = r]
    BY <1>1, <1>2, <1>4
  <1>7. Others(t) /\ at'[t] = Idle
    BY <1>1, MovesTyped, IdleTyped DEF ChatIInv, Return
  <1> HIDE DEF r
  <1>8. CalmMove(t)
    BY <1>2, <1>7, IdleTyped DEF CalmMove
  <1>9. user'[u] = r /\ \A v \in Users : v # u => user'[v] = user[v]
    BY <1>2, <1>4, <1>6
  <1>10. ~BeingReleased(u, {"leaveLogin", "leaveSid"})
    BY <1>2, NotReleased
  <1> HIDE DEF u, s
  <1>11. \A v : v = u => user'[v].sid = s /\ user'[v].state = "INFIELD" /\ user'[v].pos = p
    BY <1>5, <1>9
  <1>12. ListsExact' /\ sessionIdList' \in [Sectors -> [Sids -> Nat]]
    <2>1. sessionIdList' = Relocated(s, Nowhere, p)
      BY <1>1, <1>2
    <2>2. user[u].state # "INFIELD"
      BY <1>3
    <2>3. PICK w \in Users : w = u
      BY <1>2
    <2>4. /\ user[w].sid = s /\ ~BeingReleased(w, {"leaveLogin", "leaveSid"})
          /\ user'[w].sid = s /\ user'[w].state = "INFIELD" /\ user'[w].pos = p
          /\ \A v \in Users : v # w => user'[v] = user[v]
          /\ user[w].state # "INFIELD" /\ s \in Sids
      BY <1>2, <1>9, <1>10, <1>11, <2>2, <2>3
    <2>5. PICK x \in Sids : x = s
      BY <1>2
    <2> QED
      BY <2>1, <2>4, <2>5, <1>8, Relocates
  <1>13. LocksMove(t)
    BY <1>1 DEF LocksMove, ChatIInv, UsersTypeOK
  <1>14. requests' \subseteq [sid : Sids, acct : Accounts]
    BY <1>1 DEF ChatIInv, UsersTypeOK
  <1>15. user[u].sid # 0 /\ r.sid = user[u].sid
    BY <1>2, <1>5 DEF Sids
  <1>16. r.state = "INFIELD" <=> InSectorRange(r.pos)
    BY <1>5 DEF InSectorRange
  <1> QED
    BY <1>1, <1>2, <1>3, <1>5, <1>6, <1>12, <1>13, <1>14, <1>15, <1>16, UserReturns
       DEF LoggedIn

\* A move from one sector to the other: RemoveAndAddSector keeps the invariant.
LEMMA RemoveAndAddSectorInv ==
  ASSUME ChatIInv, NEW t \in Threads, RemoveAndAddSector(t)
  PROVE  ChatIInv'
PROOF
  <1> DEFINE u == at[t].slot
             s == at[t].sid
             p == at[t].dest
             r == [user[u] EXCEPT !.pos = p]
  <1>1. /\ at[t].pc = "moveSecond"
        /\ sessionIdList' = Relocated(s, user[u].pos, p)
        /\ writer' = [writer EXCEPT ![FirstOf(user[u].pos, p)] = NoThread]
        /\ user' = [user EXCEPT ![u].pos = p]
        /\ lock' = [lock EXCEPT ![u] = NoThread]
        /\ Return(t)
        /\ UNCHANGED <<readers, cut, indexStack, sidToUser, loginMap, currentUserCnt, requests>>
    BY DEF RemoveAndAddSector, LockSecondAndMove, Unlock
  <1>2. /\ at[t].call = "message" /\ s \in Sids /\ u \in Users
        /\ lock[u] = t /\ user[u].sid = s /\ user[u].state = "INFIELD" /\ p \in Sectors
        /\ at[t].pc \notin LeavePcs \cup {"create", "count"}
    BY <1>1, MessageFacts DEF MessagePcs, StillOwn, StateOf
  <1>3. /\ user[u] \in UserRecord /\ user \in [Users -> UserRecord]
        /\ user[u].acct \in Accounts \cup {NoAccount}
    BY <1>2 DEF ChatIInv, UsersTypeOK, UserRecord
  <1>4. /\ r \in UserRecord /\ r.sid = s /\ r.state = "INFIELD" /\ r.pos = p
        /\ r.acct = user[u].acct
    BY <1>2, <1>3 DEF UserRecord, States
  <1>5. user' = [user EXCEPT ![u] = r]
    BY <1>1, <1>2, <1>3
  <1>6. Others(t) /\ at'[t] = Idle
    BY <1>1, MovesTyped, IdleTyped DEF ChatIInv, Return
  <1> HIDE DEF r
  <1>7. CalmMove(t)
    BY <1>1, <1>6, IdleTyped DEF CalmMove
  <1>8. user'[u] = r /\ \A v \in Users : v # u => user'[v] = user[v]
    BY <1>2, <1>3, <1>5
  <1>9. ~BeingReleased(u, {"leaveLogin", "leaveSid"})
    BY <1>2, NotReleased
  <1>10. LocksMove(t)
    BY <1>1, <1>2 DEF LocksMove, ChatIInv, UsersTypeOK
  <1> HIDE DEF u, s, p
  <1>11. \A v : v = u => user'[v] = r
    BY <1>8
  <1>12. ListsExact' /\ sessionIdList' \in [Sectors -> [Sids -> Nat]]
    <2>1. PICK w \in Users : w = u
      BY <1>2
    <2>2. PICK x \in Sids : x = s
      BY <1>2
    <2>3. PICK to \in Sectors : to = p
      BY <1>2
    <2>4. sessionIdList' = Relocated(x, user[w].pos, to)
      BY <1>1, <2>1, <2>2, <2>3
    <2>5. /\ user[w].sid = x /\ ~BeingReleased(w, {"leaveLogin", "leaveSid"})
          /\ user'[w].sid = x /\ user'[w].state = "INFIELD" /\ user'[w].pos = to
          /\ \A v \in Users : v # w => user'[v] = user[v]
          /\ user[w].state = "INFIELD"
      BY <1>2, <1>4, <1>8, <1>9, <1>11, <2>1, <2>2, <2>3
    <2> QED
      BY <2>4, <2>5, <1>7, Relocates
  <1>13. requests' \subseteq [sid : Sids, acct : Accounts]
    BY <1>1 DEF ChatIInv, UsersTypeOK
  <1>14. user[u].sid # 0 /\ r.sid = user[u].sid
    BY <1>2, <1>4 DEF Sids
  <1>15. r.state = "INFIELD" <=> InSectorRange(r.pos)
    BY <1>2, <1>4 DEF InSectorRange
  <1> QED
    BY <1>1, <1>2, <1>4, <1>5, <1>10, <1>12, <1>13, <1>14, <1>15, UserReturns
       DEF LoggedIn


-----------------------------------------------------------------------------
(* The answer of redis.                                                     *)

\* The login is entered: AddLoginMap keeps the invariant.
LEMMA AddLoginMapInv ==
  ASSUME ChatIInv, NEW t \in Threads, AddLoginMap(t)
  PROVE  ChatIInv'
PROOF
  <1> DEFINE u == at[t].slot
             s == at[t].sid
             a == at[t].acct
             r == [user[u] EXCEPT !.state = "LOGIN", !.acct = a, !.pos = Nowhere]
             f == [at[t] EXCEPT !.pc = "count"]
  <1>1. /\ at' = [at EXCEPT ![t].pc = "count"] /\ loginMap[a] = 0
        /\ loginMap' = [loginMap EXCEPT ![a] = s]
        /\ user' = [user EXCEPT ![u].state = "LOGIN", ![u].acct = a, ![u].pos = Nowhere]
        /\ \/ /\ at[t].pc = "lock" /\ at[t].call = "answer" /\ StillOwn(t) /\ Lock(t, u)
           \/ at[t].pc = "add" /\ UNCHANGED lock
        /\ UNCHANGED <<fieldVars, sessionVars, cut, indexStack, sidToUser, currentUserCnt,
                       requests>>
    BY DEF AddLoginMap, Enter, Goto
  <1>2. FrameOK(at[t]) /\ InPlace(t) /\ DOMAIN at = Threads /\ t # NoThread
    BY ThreadFacts
  <1>3. /\ at[t].pc \in {"lock", "add"} /\ at[t].call = "answer" /\ s \in Sids
        /\ a \in Accounts /\ u \in Users /\ lock[u] \in {NoThread, t} /\ user[u].sid = s
        /\ at[t].pc \notin LeavePcs \cup {"create", "count"}
    <2>1. CASE at[t].pc = "lock" /\ at[t].call = "answer" /\ StillOwn(t) /\ Lock(t, u)
      BY <2>1, <1>2 DEF InPlace, StillOwn, Lock, LeavePcs
    <2>2. CASE at[t].pc = "add" /\ UNCHANGED lock
      BY <2>2, AnswerFacts DEF StillOwn
    <2> QED
      BY <1>1, <2>1, <2>2
  <1>4. /\ lock'[u] = t
        /\ \A v \in Users : v # u => lock'[v] = lock[v]
        /\ \A v \in Users : lock[v] \notin {NoThread, t} => lock'[v] = lock[v]
        /\ lock' \in [Users -> Threads \cup {NoThread}]
    <2>1. CASE at[t].pc = "lock" /\ Lock(t, u)
      BY <2>1, <1>3 DEF Lock, ChatIInv, UsersTypeOK
    <2>2. CASE at[t].pc = "add" /\ UNCHANGED lock
      BY <2>2, AnswerFacts DEF ChatIInv, UsersTypeOK
    <2> QED
      BY <1>1, <2>1, <2>2
  <1>5. user[u].state = "WAIT_IDENTIFY"
    <2>1. Answering(t)
      BY <1>3 DEF Answering, Answers
    <2> QED
      BY <2>1, <1>3 DEF ChatIInv, AskedOnce, Awaits
  <1>6. user[u] \in UserRecord /\ user \in [Users -> UserRecord]
    BY <1>3 DEF ChatIInv, UsersTypeOK, UserRecord
  <1>7. /\ r \in UserRecord /\ r.sid = s /\ r.state = "LOGIN" /\ r.pos = Nowhere /\ r.acct = a
    BY <1>3, <1>6 DEF UserRecord, States
  <1>8. user' = [user EXCEPT ![u] = r]
    BY <1>1, <1>3, <1>6
  <1>9. /\ FrameOK(f) /\ f.pc = "count" /\ f.call = at[t].call /\ f.sid = s
        /\ f.slot = u /\ f.acct = a
    BY <1>2 DEF FrameOK, Idle, Pcs
  <1>10. at' = [at EXCEPT ![t] = f]
    BY <1>1, <1>2
  <1> HIDE DEF r, f
  <1>11. /\ DOMAIN at' = Threads /\ \A q \in Threads : FrameOK(at[q])'
         /\ at'[t] = f /\ Others(t)
    BY <1>9, <1>10, MovesTyped DEF ChatIInv
  <1>12. /\ user'[u] = r /\ \A v \in Users : v # u => user'[v] = user[v]
         /\ user' \in [Users -> UserRecord]
    BY <1>3, <1>6, <1>7, <1>8
  <1>13. /\ loginMap'[a] = s /\ \A b \in Accounts : b # a => loginMap'[b] = loginMap[b]
         /\ loginMap' \in [Accounts -> Sids \cup {0}]
    BY <1>1, <1>3 DEF ChatIInv, UsersTypeOK
  <1>14. /\ sidToUser' = sidToUser /\ indexStack' = indexStack /\ requests' = requests
         /\ currentUserCnt' = currentUserCnt /\ sessionIdList' = sessionIdList
         /\ readers' = readers /\ writer' = writer /\ cut' = cut
         /\ app' = app /\ ended' = ended /\ running' = running
    BY <1>1 DEF fieldVars, sessionVars
  <1>15. ~Leaving(u)
    BY <1>3, NotReleased DEF Leaving, BeingReleased
  <1>16. CalmMove(t)
    BY <1>3, <1>9, <1>11 DEF CalmMove
  <1>17. \A v : Leaving(v)' <=> Leaving(v)
    BY <1>16, CalmReleases
  <1>18. loginMap[a] = 0 /\ s # 0
    BY <1>1, <1>3 DEF Sids
  <1> HIDE DEF u, s, a
  <1>19. \A v : v = u => user'[v] = r /\ ~Leaving(v)'
    BY <1>12, <1>15, <1>17
  <1>20. UsersTypeOK'
    BY <1>4, <1>11, <1>12, <1>13, <1>14 DEF ChatIInv, UsersTypeOK, UserRecord
  <1>21. Guarded(t)
    BY <1>3, <1>4, <1>12 DEF Guarded
  <1>22. ThreadOK(t)'
    <2>1. InPlace(t)'
      BY <1>2, <1>3, <1>9, <1>11 DEF InPlace, AnswerPcs, MessagePcs, LeavePcs
    <2>2. Locked(t)'
      BY <1>4, <1>9, <1>11 DEF Locked, LeavePcs
    <2>3. Found(t)'
      BY <1>7, <1>9, <1>11, <1>12 DEF Found, StillOwn, StateOf, LeavePcs, MessagePcs
    <2> QED
      BY <2>1, <2>2, <2>3 DEF ThreadOK
  <1>23. \A q \in Threads : ThreadOK(q)'
    BY <1>11, <1>21, <1>22, OtherThreads DEF ChatIInv, ThreadOK
  <1>24. \A v \in Users : user'[v].sid = user[v].sid
    BY <1>3, <1>7, <1>12
  <1>25. UsersMapped'
    <2>1. \A x \in Sids : sidToUser[x] # NoUser => sidToUser[x] \in Users
      BY DEF ChatIInv, UsersTypeOK
    <2>2. Nowhere \notin Sectors
      BY FieldAssumption DEF Sectors, Nowhere
    <2>3. ASSUME NEW v \in Users
          PROVE  /\ user'[v].state = "NONE" <=> user'[v].sid = 0
                 /\ user'[v].state \in LoggedIn =>
                       /\ user'[v].acct \in Accounts
                       /\ user'[v].state = "INFIELD" <=> InSectorRange(user'[v].pos)
      <3>1. CASE v = u
        BY <3>1, <2>2, <1>3, <1>7, <1>12, <1>18 DEF InSectorRange
      <3>2. CASE v # u
        BY <3>2, <1>12 DEF ChatIInv, UsersMapped
      <3> QED
        BY <3>1, <3>2
    <2> QED
      BY <2>1, <2>3, <1>14, <1>24 DEF ChatIInv, UsersMapped, InSectorRange
  <1>26. \A q \in Threads : q # t => at'[q] = at[q]
    BY <1>11 DEF Others
  <1>27. SlotsHeld'
    <2>1. \A q \in Threads : \A v : HasIndex(q, v)' <=> HasIndex(q, v)
      BY <1>3, <1>9, <1>11, <1>26 DEF HasIndex
    <2>2. \A v : OnStack(v)' <=> OnStack(v)
      BY <1>14 DEF OnStack
    <2> QED
      BY <1>14, <1>24, <2>1, <2>2 DEF ChatIInv, SlotsHeld
  <1>28. \A q \in Threads : /\ at'[q].call = at[q].call /\ at'[q].sid = at[q].sid
                            /\ at'[q].acct = at[q].acct /\ at'[q].slot = at[q].slot
                            /\ at'[q].pc = "create" <=> at[q].pc = "create"
                            /\ at'[q].pc = "leaveSlot" <=> at[q].pc = "leaveSlot"
                            /\ Answers(q)' <=> Answers(q)
                            /\ Answering(q)' => Answering(q) /\ q # t
    BY <1>3, <1>9, <1>11, <1>26 DEF Answers, Answering, u, s, a
  <1>29. SessionsOpen'
    BY <1>14, <1>28 DEF ChatIInv, SessionsOpen, InCallback
  <1>30. ReleasesLate'
    BY <1>14, <1>28 DEF ChatIInv, ReleasesLate
  <1>31. \A x, b : Awaits(x, b) /\ x # s => Awaits(x, b)'
    BY <1>7, <1>12, <1>14 DEF Awaits
  <1>32. AskedOnce'
    <2>1. Answers(t) /\ Acceptor \in Threads
      BY <1>3 DEF Answers, Threads
    <2>2. /\ \A m \in requests : m.sid # s
          /\ \A q \in Threads : q # t /\ Answers(q) => at[q].sid # s
      BY <2>1 DEF ChatIInv, AskedOnce, s
    <2>3. ASSUME NEW m \in requests'
          PROVE  /\ (Awaits(m.sid, m.acct))'
                 /\ \A k \in requests' : m.sid = k.sid => m = k
                 /\ \A q \in Threads : Answers(q)' => at'[q].sid # m.sid
                 /\ at'[Acceptor].pc = "create" => at'[Acceptor].sid # m.sid
      BY <2>1, <2>2, <1>14, <1>28, <1>31 DEF ChatIInv, AskedOnce
    <2>4. ASSUME NEW q \in Threads
          PROVE  /\ Answering(q)' => (Awaits(at[q].sid, at[q].acct))'
                 /\ Answers(q)' => app'[at'[q].sid] # "none"
                 /\ Answers(q)' /\ at'[Acceptor].pc = "create" => at'[Acceptor].sid # at'[q].sid
      <3>1. Answering(q)' => (Awaits(at[q].sid, at[q].acct))'
        <4> SUFFICES ASSUME Answering(q)' PROVE (Awaits(at[q].sid, at[q].acct))'
          OBVIOUS
        <4>1. Answering(q) /\ q # t /\ at'[q] = at[q]
          BY <1>26, <1>28
        <4>2. Awaits(at[q].sid, at[q].acct) /\ at[q].sid # s
          BY <4>1, <2>2 DEF ChatIInv, AskedOnce, Answering
        <4> QED
          BY <4>1, <4>2, <1>31
      <3> QED
        BY <2>1, <3>1, <1>14, <1>28 DEF ChatIInv, AskedOnce
    <2>5. \A p, q \in Threads : Answers(p)' /\ Answers(q)' /\ at'[p].sid = at'[q].sid => p = q
      BY <1>28 DEF ChatIInv, AskedOnce
    <2> QED
      BY <2>3, <2>4, <2>5 DEF AskedOnce
  <1>33. LoginsNamed'
    <2>1. ASSUME NEW b \in Accounts, loginMap'[b] # 0
          PROVE  \E v \in Users : IsLogin(v, b)' /\ user'[v].sid = loginMap'[b]
      <3>1. CASE b = a
        <4>1. PICK v \in Users : v = u
          BY <1>3
        <4>2. /\ user'[v].state = "LOGIN" /\ user'[v].acct = b /\ ~Leaving(v)'
              /\ user'[v].sid = loginMap'[b]
          BY <3>1, <4>1, <1>7, <1>13, <1>19
        <4> QED
          BY <4>2 DEF IsLogin, LoggedIn
      <3>2. CASE b # a
        <4>1. PICK v \in Users : IsLogin(v, b) /\ user[v].sid = loginMap[b]
          BY <2>1, <3>2, <1>13 DEF ChatIInv, LoginsNamed
        <4>2. v # u
          BY <4>1, <1>5 DEF IsLogin, LoggedIn
        <4>3. IsLogin(v, b)'
          BY <4>1, <4>2, <1>12, <1>17 DEF IsLogin
        <4> QED
          BY <3>2, <4>1, <4>2, <4>3, <1>12, <1>13
      <3> QED
        BY <3>1, <3>2
    <2>2. ASSUME NEW v \in Users, user'[v].state \in LoggedIn, ~Leaving(v)'
          PROVE  loginMap'[user'[v].acct] = user'[v].sid
      <3>1. CASE v = u
        BY <3>1, <1>7, <1>12, <1>13
      <3>2. CASE v # u
        <4>1. /\ user[v].state \in LoggedIn /\ ~Leaving(v) /\ user'[v] = user[v]
              /\ user[v].acct \in Accounts /\ user[v].sid # 0
          BY <2>2, <3>2, <1>12, <1>17 DEF ChatIInv, UsersMapped, LoggedIn
        <4>2. loginMap[user[v].acct] = user[v].sid
          BY <4>1 DEF ChatIInv, LoginsNamed
        <4> QED
          BY <4>1, <4>2, <1>13, <1>18
      <3> QED
        BY <3>1, <3>2
    <2> QED
      BY <2>1, <2>2 DEF LoginsNamed
  <1>34. CountExact'
    <2>1. Listed' = Listed \cup {a} /\ a \notin Listed
      BY <1>3, <1>13, <1>18 DEF Listed
    <2>2. Counting' = Counting \cup {t} /\ t \notin Counting
      BY <1>3, <1>9, <1>11, <1>26 DEF Counting
    <2>3. Losing' = Losing
      BY <1>5, <1>12, <1>15, <1>17, <1>19 DEF Losing, LoggedIn
    <2>4. Cardinality(Listed') = Cardinality(Listed) + 1 /\ Cardinality(Listed) \in Nat
      BY <2>1, CountedSets, OneMore
    <2>5. Cardinality(Counting') = Cardinality(Counting) + 1 /\ Cardinality(Counting) \in Nat
      BY <2>2, CountedSets, OneMore
    <2>6. Cardinality(Losing) \in Nat
      BY CountedSets, FS_CardinalityType
    <2>7. currentUserCnt = Cardinality(Listed) + Cardinality(Losing) - Cardinality(Counting)
      BY CountedSets DEF ChatIInv
    <2> QED
      BY <2>3, <2>4, <2>5, <2>6, <2>7, <1>14, CountedSets
  <1>35. SamePlaces
    BY <1>5, <1>7, <1>12, <1>16, CalmReleases DEF SamePlaces
  <1>36. ListsExact'
    BY <1>14, <1>35, SamePlacesLists DEF ChatIInv
  <1> QED
    BY <1>20, <1>23, <1>25, <1>27, <1>29, <1>30, <1>32, <1>33, <1>34, <1>36
       DEF ChatIInv, ThreadOK

\* The number of users goes up: IncreaseUserCnt keeps the invariant.
LEMMA IncreaseUserCntInv ==
  ASSUME ChatIInv, NEW t \in Threads, IncreaseUserCnt(t)
  PROVE  ChatIInv'
PROOF
  <1> DEFINE u == at[t].slot
  <1>1. /\ at[t].pc = "count" /\ currentUserCnt' = currentUserCnt + 1
        /\ lock' = [lock EXCEPT ![u] = NoThread] /\ Return(t)
        /\ UNCHANGED <<fieldVars, cut, user, indexStack, sidToUser, loginMap, requests>>
    BY DEF IncreaseUserCnt, Unlock
  <1>2. at[t].call = "answer" /\ u \in Users /\ lock[u] = t
    BY <1>1, ThreadFacts DEF InPlace, Locked, HoldsSlot, AnswerPcs
  <1>3. /\ DOMAIN at' = Threads /\ \A q \in Threads : FrameOK(at[q])'
        /\ at'[t] = Idle /\ Others(t)
    BY <1>1, MovesTyped, IdleTyped DEF ChatIInv, Return
  <1>4. app' = app /\ ended' = ended /\ running' = running
    BY <1>1, <1>2 DEF Return, sessionVars
  <1>5. /\ lock' \in [Users -> Threads \cup {NoThread}]
        /\ \A v \in Users : lock[v] \notin {NoThread, t} => lock'[v] = lock[v]
    BY <1>1, <1>2 DEF ChatIInv, UsersTypeOK
  <1>6. /\ user' = user /\ sidToUser' = sidToUser /\ indexStack' = indexStack
        /\ loginMap' = loginMap /\ requests' = requests /\ cut' = cut
        /\ sessionIdList' = sessionIdList /\ readers' = readers /\ writer' = writer
    BY <1>1 DEF fieldVars
  <1>7. UsersTypeOK'
    BY <1>1, <1>3, <1>4, <1>5, <1>6 DEF ChatIInv, UsersTypeOK
  <1>8. Guarded(t)
    BY <1>5, <1>6 DEF Guarded
  <1>9. \A q \in Threads : ThreadOK(q)'
    BY <1>3, <1>8, IdleInPlace, OtherThreads DEF ChatIInv, ThreadOK
  <1>10. UsersMapped'
    BY <1>6 DEF ChatIInv, UsersMapped
  <1>11. \A q \in Threads : q # t => at'[q] = at[q]
    BY <1>3 DEF Others
  <1>12. SlotsHeld'
    <2>1. \A q \in Threads : \A v : HasIndex(q, v)' <=> HasIndex(q, v)
      BY <1>1, <1>3, <1>11, IdleTyped DEF HasIndex
    <2>2. \A v : OnStack(v)' <=> OnStack(v)
      BY <1>6 DEF OnStack
    <2> QED
      BY <1>6, <2>1, <2>2 DEF ChatIInv, SlotsHeld
  <1>13. (SessionsOpen /\ AskedOnce /\ ReleasesLate)'
    <2>1. Returns(t)
      BY <1>1, <1>2, <1>3, <1>6 DEF Returns, ReturnsFrom, KeepsAwaited
    <2> QED
      BY <2>1, ReturnsSessions DEF ChatIInv
  <1>14. CalmMove(t)
    BY <1>1, <1>3, IdleTyped DEF CalmMove
  <1>15. SameLogins /\ SamePlaces
    BY <1>6, <1>14, CalmReleases DEF SameLogins, SamePlaces
  <1>16. LoginsNamed' /\ ListsExact'
    BY <1>6, <1>15, SameLoginsNamed, SamePlacesLists DEF ChatIInv
  <1>17. CountExact'
    <2>1. Listed' = Listed
      BY <1>6 DEF Listed
    <2>2. Counting = Counting' \cup {t} /\ t \notin Counting'
      BY <1>1, <1>3, <1>11, IdleTyped DEF Counting
    <2>3. Losing' = Losing
      BY <1>6, <1>14, CalmReleases DEF Losing
    <2>4. Cardinality(Counting) = Cardinality(Counting') + 1 /\ Cardinality(Counting') \in Nat
      BY <2>2, CountedSets, OneMore
    <2>5. Cardinality(Listed) \in Nat /\ Cardinality(Losing) \in Nat
      BY CountedSets, FS_CardinalityType
    <2>6. currentUserCnt = Cardinality(Listed) + Cardinality(Losing) - Cardinality(Counting)
      BY CountedSets DEF ChatIInv
    <2> QED
      BY <2>1, <2>3, <2>4, <2>5, <2>6, <1>1, CountedSets
  <1> QED
    BY <1>7, <1>9, <1>10, <1>12, <1>13, <1>16, <1>17 DEF ChatIInv, ThreadOK


-----------------------------------------------------------------------------
(* The invariant.                                                           *)

\* Init puts every slot on the stack, once.
LEMMA AllSlotsFree ==
  ASSUME indexStack \in SetToSeqs(Users)
  PROVE  indexStack \in Seq(Users) /\ IsInjective(indexStack) /\ \A u \in Users : OnStack(u)
PROOF
  <1> DEFINE n == Cardinality(Users)
  <1>1. n \in Nat /\ IsFiniteSet(Users)
    BY ChatAssumption, FS_CardinalityType
  <1>2. /\ indexStack \in [1 .. n -> Users]
        /\ \A i, j \in 1 .. n : i # j => indexStack[i] # indexStack[j]
    BY DEF SetToSeqs
  <1>3. IsFiniteSet(1 .. n) /\ Cardinality(1 .. n) = n
    BY <1>1, FS_Interval
  <1> HIDE DEF n
  <1>4. IsInjective(indexStack) /\ indexStack \in Injection(1 .. n, Users)
    BY <1>2 DEF IsInjective, Injection
  <1>5. indexStack \in Surjection(1 .. n, Users)
    <2>1. Cardinality(1 .. n) = Cardinality(Users)
      BY <1>3 DEF n
    <2> QED
      BY <2>1, <1>1, <1>4, FS_Injection
  <1>6. \A u \in Users : OnStack(u)
    BY <1>2, <1>5 DEF Surjection, OnStack
  <1>7. indexStack \in Seq(Users)
    BY <1>1, <1>2
  <1> QED
    BY <1>4, <1>6, <1>7

\* In the beginning the invariant holds.
LEMMA ChatInit == Init => ChatIInv
PROOF
  <1> SUFFICES ASSUME Init PROVE ChatIInv
    OBVIOUS
  <1>1. /\ sessionIdList = [p \in Sectors |-> EmptyList]
        /\ readers = [p \in Sectors |-> {}] /\ writer = [p \in Sectors |-> NoThread]
        /\ app = [s \in Sids |-> "none"] /\ running = {} /\ ended = {} /\ cut = {}
        /\ user = [u \in Users |-> Reset] /\ lock = [u \in Users |-> NoThread]
        /\ sidToUser = [s \in Sids |-> NoUser] /\ loginMap = [a \in Accounts |-> 0]
        /\ currentUserCnt = 0 /\ requests = {} /\ at = [t \in Threads |-> Idle]
    BY DEF Init, InitField, Contract!Init, Contract!Sids, Sids
  <1>2. /\ indexStack \in Seq(Users) /\ IsInjective(indexStack)
        /\ \A u \in Users : OnStack(u)
    BY AllSlotsFree DEF Init
  <1>3. \A u \in Users : user[u] = Reset /\ user[u].sid = 0 /\ user[u].state = "NONE"
    BY <1>1 DEF Reset
  <1>4. \A t \in Threads : at[t] = Idle /\ at[t].pc = "idle" /\ at[t].call = "none"
    BY <1>1, IdleTyped
  <1>5. UsersTypeOK
    <2>1. sessionIdList \in [Sectors -> [Sids -> Nat]]
      BY <1>1 DEF EmptyList
    <2>2. Reset \in [sid : Sids \cup {0}, state : States,
                     acct : Accounts \cup {NoAccount}, pos : Sectors \cup {Nowhere}]
      BY DEF Reset, States
    <2>3. \A t \in Threads : FrameOK(at[t])
      BY <1>4, IdleTyped
    <2> HIDE DEF Reset
    <2> QED
      BY <1>1, <1>2, <2>1, <2>2, <2>3 DEF UsersTypeOK
  <1>6. \A t \in Threads : ~HoldsSlot(t)
    BY <1>4 DEF HoldsSlot, AnswerPcs, MessagePcs, LeavePcs
  <1>7. \A t \in Threads : InPlace(t) /\ Locked(t) /\ Found(t)
    BY <1>4, <1>6 DEF InPlace, Locked, Found, AnswerPcs, MessagePcs, LeavePcs
  <1>8. UsersMapped
    BY <1>1, <1>3 DEF UsersMapped, LoggedIn
  <1>9. SlotsHeld
    BY <1>2, <1>3, <1>4 DEF SlotsHeld, HasIndex
  <1>10. SessionsOpen /\ AskedOnce /\ ReleasesLate
    BY <1>1, <1>4 DEF SessionsOpen, AskedOnce, ReleasesLate, InCallback, Answers, Answering
  <1>11. LoginsNamed
    BY <1>1, <1>3 DEF LoginsNamed, LoggedIn
  <1>12. CountExact
    <2>1. Listed = {} /\ Losing = {} /\ Counting = {}
      BY <1>1, <1>3, <1>4 DEF Listed, Losing, Counting, LoggedIn
    <2> QED
      BY <1>1, <2>1, CountedSets, FS_EmptySet
  <1>13. ListsExact
    <2>1. \A s, p : ~Stands(s, p)
      BY <1>3 DEF Stands
    <2> QED
      BY <1>1, <2>1 DEF ListsExact, EmptyList
  <1> QED
    BY <1>5, <1>7, <1>8, <1>9, <1>10, <1>11, <1>12, <1>13 DEF ChatIInv

\* Every step of a handler, and every step that begins one, keeps it.
LEMMA ChatNext == ChatIInv /\ [Next]_vars => ChatIInv'
PROOF
  <1> SUFFICES ASSUME ChatIInv, [Next]_vars PROVE ChatIInv'
    OBVIOUS
  <1>1. ASSUME NEW t \in Threads, Step(t) PROVE ChatIInv'
    BY <1>1, CreateWaitLoginInv, TooLateInv, ReleaseFoundInv, RefuseInv, LeaveSectorInv,
       RemoveLoginMapInv, RemoveSidToUserMapInv, PushIndexInv, FullReturnsInv,
       RequestLoginInv, AddLoginMapInv, MeetOtherInv, GiveUpInv, FindOtherInv, LockOtherInv,
       IncreaseUserCntInv, EnterFieldInv, MoveLocksFirstInv, StayInSectorInv,
       RemoveAndAddSectorInv, LockAroundInv, CopySectorInv, RequestHeartbeatInv
       DEF Step
  <1>2. ASSUME NEW s \in Sids, AcceptSession(s) \/ AcceptFull(s) \/ SessionEnds(s)
        PROVE  ChatIInv'
    BY <1>2, AcceptSessionInv, AcceptFullInv, SessionEndsInv
  <1>3. ASSUME NEW t \in Workers, NEW s \in Sids, ReceiveRelease(t, s) \/ ReceiveMessage(t, s)
        PROVE  ChatIInv'
    BY <1>3, ReceiveReleaseInv, ReceiveMessageInv
  <1>4. ASSUME NEW m \in requests,
               AuthFails(m) \/ \E t \in Workers : ReceiveAnswer(t, m)
        PROVE  ChatIInv'
    BY <1>4, AuthFailsInv, ReceiveAnswerInv
  <1>5. ASSUME NEW u \in Users, Timeout(u) PROVE ChatIInv'
    BY <1>5, TimeoutInv
  <1>6. CASE UNCHANGED vars
    <2>1. /\ UNCHANGED <<fieldVars, userVars, at>>
          /\ sessionIdList' = sessionIdList /\ readers' = readers /\ writer' = writer
          /\ app' = app /\ running' = running /\ ended' = ended /\ cut' = cut
          /\ user' = user /\ lock' = lock /\ indexStack' = indexStack
          /\ sidToUser' = sidToUser /\ loginMap' = loginMap
          /\ currentUserCnt' = currentUserCnt /\ requests' = requests /\ at' = at
      BY <1>6 DEF vars, fieldVars, sessionVars, userVars
    <2>2. UsersTypeOK'
      BY <2>1 DEF ChatIInv, UsersTypeOK, FrameOK, Idle
    <2>3. (SessionsOpen /\ AskedOnce /\ ReleasesLate)'
      BY <2>1 DEF ChatIInv, SessionsOpen, AskedOnce, ReleasesLate, InCallback, Answers,
                  Answering, Awaits
    <2> QED
      BY <2>1, <2>2, <2>3, NothingMoves
  <1> QED
    BY <1>1, <1>2, <1>3, <1>4, <1>5, <1>6 DEF Next

\* Users, slots, maps, lists, logins and callbacks agree in every state of the
\* chat server: ChatIInv is an invariant.
THEOREM ChatInvariant == Spec => []ChatIInv
PROOF
  BY ChatInit, ChatNext, PTL DEF Spec


-----------------------------------------------------------------------------
(* What follows from it.                                                    *)

\* The login map and the users agree but for a release under way, and the number
\* of users is that of the entries but for a handler between the two.
THEOREM ChatLogins == Spec => []LoginsExact
PROOF
  <1>1. ASSUME ChatIInv PROVE LoginsExact
    <2>1. LoginsNamed /\ CountExact
      BY <1>1 DEF ChatIInv
    <2>2. \A a \in Accounts : loginMap[a] # 0 =>
             \E u \in Users : /\ user[u].sid = loginMap[a] /\ user[u].acct = a
                              /\ user[u].state \in LoggedIn
      BY <2>1 DEF LoginsNamed, IsLogin
    <2>3. \A u \in Users : user[u].state \in LoggedIn =>
             \/ loginMap[user[u].acct] = user[u].sid
             \/ BeingReleased(u, {"leaveSid"})
      BY <2>1 DEF LoginsNamed, Leaving
    <2> QED
      BY <2>1, <2>2, <2>3 DEF LoginsExact, CountExact, Leaving
  <1> QED
    BY <1>1, ChatInvariant, PTL

\* A session stands once in the list of the sector its user is in, and in no
\* other list.
THEOREM ChatSectors == Spec => []SectorsMatch
PROOF
  <1>1. ASSUME ChatIInv PROVE SectorsMatch
    <2> SUFFICES ASSUME NEW s \in Sids, NEW p \in Sectors
                 PROVE  sessionIdList[p][s] =
                          Cardinality({u \in Users :
                            /\ user[u].sid = s /\ user[u].state = "INFIELD" /\ user[u].pos = p
                            /\ ~BeingReleased(u, {"leaveLogin", "leaveSid"})})
      BY DEF SectorsMatch
    <2> DEFINE S == {u \in Users :
                       /\ user[u].sid = s /\ user[u].state = "INFIELD" /\ user[u].pos = p
                       /\ ~BeingReleased(u, {"leaveLogin", "leaveSid"})}
    <2>1. sessionIdList[p][s] = IF Stands(s, p) THEN 1 ELSE 0
      BY <1>1 DEF ChatIInv, ListsExact
    <2>2. \A u, v \in S : u = v
      BY <1>1, SlotOfSession DEF Sids
    <2>3. Stands(s, p) <=> S # {}
      BY DEF Stands
    <2>4. CASE S = {}
      BY <2>1, <2>3, <2>4, FS_EmptySet
    <2>5. CASE S # {}
      <3>1. PICK u : S = {u}
        BY <2>2, <2>5
      <3> QED
        BY <2>1, <2>3, <2>5, <3>1, FS_Singleton
    <2> QED
      BY <2>4, <2>5
  <1> QED
    BY <1>1, ChatInvariant, PTL

\* Nothing of a session is left when its OnRelease has returned.
THEOREM ChatReleases == Spec => []NothingLeftBehind
PROOF
  <1>1. ASSUME ChatIInv PROVE NothingLeftBehind
    <2> SUFFICES ASSUME NEW s \in Sids, app[s] = "released",
                        \A t \in Threads : at[t].call = "release" => at[t].sid # s
                 PROVE  /\ sidToUser[s] = NoUser
                        /\ \A a \in Accounts : loginMap[a] # s
                        /\ \A p \in Sectors : sessionIdList[p][s] = 0
      BY DEF NothingLeftBehind
    <2>1. sidToUser[s] = NoUser
      BY <1>1 DEF ChatIInv, ReleasesLate
    <2>2. \A u \in Users : user[u].sid # s
      BY <1>1, <2>1, ChatAssumption DEF ChatIInv, UsersMapped, Sids
    <2>3. \A a \in Accounts : loginMap[a] # s
      BY <1>1, <2>2 DEF ChatIInv, LoginsNamed, Sids
    <2>4. \A p \in Sectors : ~Stands(s, p)
      BY <2>2 DEF Stands
    <2>5. \A p \in Sectors : sessionIdList[p][s] = 0
      BY <1>1, <2>4 DEF ChatIInv, ListsExact
    <2> QED
      BY <2>1, <2>3, <2>5
  <1> QED
    BY <1>1, ChatInvariant, PTL

\* Sets of at most one element.
LEMMA AtMostOne ==
  ASSUME NEW S, \A x, y \in S : x = y
  PROVE  Cardinality(S) = IF S = {} THEN 0 ELSE 1
PROOF
  <1>1. CASE S = {}
    BY <1>1, FS_EmptySet
  <1>2. CASE S # {}
    <2>1. PICK x : S = {x}
      BY <1>2
    <2> QED
      BY <1>2, <2>1, FS_Singleton
  <1> QED
    BY <1>1, <1>2

\* A user slot is free, or of one session, or in the hands of one thread that
\* takes it or gives it back: none is lost and none is used twice.
THEOREM ChatSlots == Spec => []SlotsConserved
PROOF
  <1>1. ASSUME ChatIInv PROVE SlotsConserved
    <2>1. IsInjective(indexStack) /\ \A s \in Sids : sidToUser[s] # NoUser =>
                                        user[sidToUser[s]].sid = s
      BY <1>1 DEF ChatIInv, SlotsHeld, UsersMapped
    <2>2. ASSUME NEW u \in Users
          PROVE  Cardinality({s \in Sids : sidToUser[s] = u})
                 + Cardinality({k \in DOMAIN indexStack : indexStack[k] = u})
                 + Cardinality({t \in Threads :
                       \/ at[t].pc = "create" /\ at[t].slot = u
                       \/ at[t].pc = "leaveSlot" /\ at[t].victim = u}) = 1
      <3> DEFINE A == {s \in Sids : sidToUser[s] = u}
                 B == {k \in DOMAIN indexStack : indexStack[k] = u}
                 C == {t \in Threads : \/ at[t].pc = "create" /\ at[t].slot = u
                                       \/ at[t].pc = "leaveSlot" /\ at[t].victim = u}
      <3>1. u # NoUser /\ (user[u].sid # 0 => user[u].sid \in Sids)
        BY <1>1, ChatAssumption DEF ChatIInv, UsersTypeOK
      <3>2. \A s \in Sids : sidToUser[s] = u <=> user[u].sid = s
        BY <1>1, <3>1 DEF ChatIInv, UsersMapped, Sids
      <3>3. (\A x, y \in A : x = y) /\ (A # {} <=> user[u].sid # 0)
        BY <3>1, <3>2 DEF Sids
      <3>4. (\A x, y \in B : x = y) /\ (B # {} <=> OnStack(u))
        BY <2>1 DEF IsInjective, OnStack
      <3>5. C = {t \in Threads : HasIndex(t, u)}
        BY DEF HasIndex
      <3>6. (\A x, y \in C : x = y) /\ (C # {} <=> \E t \in Threads : HasIndex(t, u))
        BY <1>1, <3>5 DEF ChatIInv, SlotsHeld
      <3>7. /\ A = {} <=> OnStack(u) \/ \E t \in Threads : HasIndex(t, u)
            /\ ~(OnStack(u) /\ \E t \in Threads : HasIndex(t, u))
        BY <1>1, <3>3 DEF ChatIInv, SlotsHeld
      <3>8. /\ Cardinality(A) = IF A = {} THEN 0 ELSE 1
            /\ Cardinality(B) = IF B = {} THEN 0 ELSE 1
            /\ Cardinality(C) = IF C = {} THEN 0 ELSE 1
        BY <3>3, <3>4, <3>6, AtMostOne
      <3> HIDE DEF A, B, C
      <3>9. Cardinality(A) + Cardinality(B) + Cardinality(C) = 1
        BY <3>4, <3>6, <3>7, <3>8
      <3> QED
        BY <3>9 DEF A, B, C
    <2> QED
      BY <2>1, <2>2 DEF SlotsConserved
  <1> QED
    BY <1>1, ChatInvariant, PTL


\* What AnswerLogsInAsker says of a step.
AsksFirst ==
    \A u \in Users :
        user[u].state # "LOGIN" /\ user'[u].state = "LOGIN" =>
            /\ user[u].state = "WAIT_IDENTIFY"
            /\ user'[u].sid = user[u].sid /\ user'[u].acct = user[u].acct

\* AddLoginMap logs in the user that waits for the answer, as what it asked for.
LEMMA LogsInAsker ==
  ASSUME ChatIInv, NEW t \in Threads, AddLoginMap(t)
  PROVE  AsksFirst
PROOF
  <1> DEFINE w == at[t].slot
             a == at[t].acct
  <1>1. /\ user' = [user EXCEPT ![w].state = "LOGIN", ![w].acct = a, ![w].pos = Nowhere]
        /\ \/ at[t].pc = "lock" /\ at[t].call = "answer" /\ StillOwn(t)
           \/ at[t].pc = "add"
    BY DEF AddLoginMap, Enter
  <1>2. at[t].pc # "count" /\ at[t].call = "answer" /\ StillOwn(t) /\ w \in Users
    BY <1>1, AnswerFacts, ThreadFacts DEF InPlace
  <1>3. user[w].state = "WAIT_IDENTIFY" /\ user[w].acct = a
    BY <1>2 DEF ChatIInv, AskedOnce, Awaits, Answering, Answers, StillOwn
  <1>4. user \in [Users -> UserRecord] /\ user[w] \in UserRecord
    BY <1>2 DEF ChatIInv, UsersTypeOK, UserRecord
  <1> HIDE DEF w, a
  <1>5. /\ \A u \in Users : u # w => user'[u] = user[u]
        /\ user'[w].sid = user[w].sid /\ user'[w].acct = a
    BY <1>1, <1>2, <1>4 DEF UserRecord
  <1> QED
    BY <1>3, <1>5 DEF AsksFirst

\* The other steps that change users log in none.
LEMMA OthersLogInNone ==
  ASSUME ChatIInv, NEW t \in Threads,
         \/ CreateWaitLogin(t) \/ RemoveSidToUserMap(t) \/ RemoveAndAddSector(t)
         \/ (\E a \in Accounts : RequestLogin(t, a)) \/ (\E p \in Sectors : EnterField(t, p))
  PROVE  AsksFirst
PROOF
  <1>1. user \in [Users -> UserRecord] /\ at[t].slot \in Users \cup {NoUser}
        /\ NoUser \notin Users
    BY ThreadFacts DEF ChatIInv, UsersTypeOK, UserRecord, FrameOK
  <1>3. CASE CreateWaitLogin(t)
    BY <1>1, <1>3 DEF CreateWaitLogin, AsksFirst, UserRecord
  <1>4. CASE RemoveSidToUserMap(t)
    BY <1>1, <1>4 DEF RemoveSidToUserMap, AsksFirst, UserRecord, Reset
  <1>5. CASE RemoveAndAddSector(t)
    BY <1>1, <1>5 DEF RemoveAndAddSector, AsksFirst, UserRecord
  <1>6. ASSUME NEW a \in Accounts, RequestLogin(t, a) PROVE AsksFirst
    BY <1>1, <1>6 DEF RequestLogin, AsksFirst, UserRecord
  <1>7. ASSUME NEW p \in Sectors, EnterField(t, p) PROVE AsksFirst
    BY <1>1, <1>7 DEF EnterField, AsksFirst, UserRecord
  <1> QED
    BY <1>3, <1>4, <1>5, <1>6, <1>7

\* An answer of redis logs in the session that asked, with the account it asked
\* for, and no later user of the slot.
THEOREM ChatAnswers == Spec => AnswerLogsInAsker
PROOF
  <1>1. ASSUME ChatIInv, [Next]_vars PROVE AsksFirst
    <2>1. CASE UNCHANGED user
      BY <2>1 DEF AsksFirst
    <2>2. ASSUME NEW t \in Threads, Step(t), ~UNCHANGED user PROVE AsksFirst
      <3>1. \/ CreateWaitLogin(t) \/ RemoveSidToUserMap(t) \/ RemoveAndAddSector(t)
            \/ (\E a \in Accounts : RequestLogin(t, a)) \/ (\E p \in Sectors : EnterField(t, p))
            \/ AddLoginMap(t)
        BY <2>2 DEF Step, TooLate, ReleaseFound, Refuse, LeaveSector, RemoveLoginMap, PushIndex,
             FullReturns, MeetOther, GiveUp, FindOther, LockOther, IncreaseUserCnt,
             MoveLocksFirst, StayInSector, LockAround, CopySector, RequestHeartbeat, userVars
      <3> QED
        BY <1>1, <3>1, LogsInAsker, OthersLogInNone
    <2>3. (\E t \in Threads : Step(t)) \/ UNCHANGED user
      BY <1>1 DEF Next, vars, userVars, AcceptSession, AcceptFull, SessionEnds, ReceiveRelease,
           ReceiveMessage, AuthFails, ReceiveAnswer, Timeout
    <2> QED
      BY <2>1, <2>2, <2>3
  <1>2. ChatIInv /\ [Next]_vars => [AsksFirst]_vars
    BY <1>1
  <1>3. AnswerLogsInAsker <=> [][AsksFirst]_vars
    BY DEF AnswerLogsInAsker, AsksFirst
  <1> QED
    BY <1>2, <1>3, ChatInvariant, PTL DEF Spec


\* The state is well typed, and the number of users never falls below zero:
\* whoever is about to be counted is in the login map.
THEOREM ChatCounts == Spec => [](UsersTypeOK /\ currentUserCnt \in Nat)
PROOF
  <1>1. ASSUME ChatIInv PROVE UsersTypeOK /\ currentUserCnt \in Nat
    <2> DEFINE f == [t \in Counting |-> user[at[t].slot].acct]
    <2>1. ASSUME NEW t \in Counting
          PROVE  /\ t \in Threads /\ at[t].slot \in Users /\ lock[at[t].slot] = t
                 /\ user[at[t].slot].acct \in Listed
                 /\ loginMap[user[at[t].slot].acct] = user[at[t].slot].sid
                 /\ user[at[t].slot].sid # 0
      <3>1. t \in Threads /\ at[t].pc = "count"
        BY DEF Counting
      <3>2. HoldsSlot(t) /\ at[t].slot \in Users /\ at[t].pc \notin LeavePcs
        BY <1>1, <3>1, ThreadFacts DEF HoldsSlot, AnswerPcs, LeavePcs, InPlace
      <3>3. lock[at[t].slot] = t /\ user[at[t].slot].state = "LOGIN"
        BY <1>1, <3>1, <3>2, ThreadFacts DEF Locked, Found, StateOf
      <3>4. ~Leaving(at[t].slot)
        BY <1>1, <3>1, <3>2, <3>3, NotReleased DEF Leaving, BeingReleased
      <3>5. /\ user[at[t].slot].acct \in Accounts
            /\ loginMap[user[at[t].slot].acct] = user[at[t].slot].sid
            /\ user[at[t].slot].sid # 0
        BY <1>1, <3>2, <3>3, <3>4 DEF ChatIInv, UsersMapped, LoginsNamed, LoggedIn
      <3> QED
        BY <3>1, <3>2, <3>3, <3>5 DEF Listed
    <2>2. ASSUME NEW t \in Counting, NEW r \in Counting,
                 user[at[t].slot].acct = user[at[r].slot].acct
          PROVE  t = r
      <3>1. user[at[t].slot].sid = user[at[r].slot].sid
        BY <2>1, <2>2
      <3>2. at[t].slot = at[r].slot
        BY <1>1, <2>1, <3>1, SlotOfSession
      <3> QED
        BY <2>1, <3>2
    <2>3. f \in Injection(Counting, Listed)
      BY <2>1, <2>2 DEF Injection, IsInjective
    <2>4. Cardinality(Counting) <= Cardinality(Listed)
      BY <2>3, CountedSets, FS_Injection
    <2>5. /\ Cardinality(Listed) \in Nat /\ Cardinality(Losing) \in Nat
          /\ Cardinality(Counting) \in Nat
      BY CountedSets, FS_CardinalityType
    <2>6. currentUserCnt = Cardinality(Listed) + Cardinality(Losing) - Cardinality(Counting)
      BY <1>1, CountedSets DEF ChatIInv
    <2>7. currentUserCnt \in Nat
      BY <2>4, <2>5, <2>6
    <2> QED
      BY <1>1, <2>7 DEF ChatIInv
  <1> QED
    BY <1>1, ChatInvariant, PTL
=============================================================================
