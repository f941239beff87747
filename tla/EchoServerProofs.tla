-------------------------- MODULE EchoServerProofs --------------------------
(***************************************************************************)
(* Proofs about EchoServer, for any number of sessions and accounts:       *)
(* LoginsKnown, UsersOwned and NothingLeft, from the inductive invariant   *)
(* EchoIInv.                                                               *)
(***************************************************************************)
EXTENDS EchoServer, SequenceTheorems, TLAPS

-----------------------------------------------------------------------------
(* Jobs.                                                                    *)

Jobs == LobbyJobs \cup EchoJobs

LEMMA TwoZones == Lobby \in Zones /\ Echo \in Zones /\ Lobby # Echo
                  /\ \A z \in Zones : z = Lobby \/ z = Echo
  BY EchoAssumption

\* The shape of a job, by its kind.
LEMMA JobShapes ==
  ASSUME NEW x \in Jobs
  PROVE  /\ x.sid \in Sessions
         /\ x.kind \in {"enter", "leave", "account"}
         /\ x.kind = "enter" => x.player \in BOOLEAN /\ x = EnterJob(x.sid, x.player)
                                /\ (x \in LobbyJobs <=> ~x.player)
         /\ x.kind = "leave" => x.delete \in BOOLEAN /\ x = LeaveJob(x.sid, x.delete)
                                /\ x \in LobbyJobs /\ (x \in EchoJobs => x.delete)
         /\ x.kind = "account" => x.account \in Accounts /\ x \in LobbyJobs /\ x \notin EchoJobs
                /\ x = [kind |-> "account", sid |-> x.sid, account |-> x.account]
PROOF
  <1>1. CASE x \in EnterJobs(FALSE)
    BY <1>1 DEF EnterJobs, LeaveJobs, AccountJobs, EnterJob, LobbyJobs, EchoJobs
  <1>2. CASE x \in EnterJobs(TRUE)
    BY <1>2 DEF EnterJobs, LeaveJobs, AccountJobs, EnterJob, LobbyJobs, EchoJobs
  <1>3. CASE x \in LeaveJobs({TRUE})
    BY <1>3 DEF EnterJobs, LeaveJobs, AccountJobs, LeaveJob, LobbyJobs, EchoJobs
  <1>4. CASE x \in LeaveJobs(BOOLEAN)
    BY <1>4 DEF EnterJobs, LeaveJobs, AccountJobs, LeaveJob, LobbyJobs, EchoJobs
  <1>5. CASE x \in AccountJobs
    BY <1>5 DEF EnterJobs, LeaveJobs, AccountJobs, LobbyJobs, EchoJobs
  <1> QED
    BY <1>1, <1>2, <1>3, <1>4, <1>5 DEF Jobs, LobbyJobs, EchoJobs

LEMMA JobFields ==
  ASSUME NEW s \in Sessions, NEW a \in Accounts, NEW b \in BOOLEAN
  PROVE  /\ EnterJob(s, b).kind = "enter" /\ EnterJob(s, b).sid = s
         /\ EnterJob(s, b).player = b
         /\ LeaveJob(s, b).kind = "leave" /\ LeaveJob(s, b).sid = s
         /\ LeaveJob(s, b).delete = b
         /\ EnterJob(s, FALSE) \in LobbyJobs /\ EnterJob(s, TRUE) \in EchoJobs
         /\ LeaveJob(s, b) \in LobbyJobs /\ LeaveJob(s, TRUE) \in EchoJobs
         /\ [kind |-> "account", sid |-> s, account |-> a] \in LobbyJobs
  BY DEF EnterJob, LeaveJob, EnterJobs, LeaveJobs, AccountJobs, LobbyJobs, EchoJobs

\* What the jobs of s in a queue are, as far as the invariant is concerned.
SameJobs(q, r, s) ==
  /\ HasEnter(r, s) <=> HasEnter(q, s)
  /\ HasDelete(r, s) <=> HasDelete(q, s)
  /\ HasForget(r, s) <=> HasForget(q, s)
  /\ \A a : HasAccount(r, s, a) <=> HasAccount(q, s, a)
  /\ LastIsDelete(q, s) => LastIsDelete(r, s)
  /\ OneEnter(q, s) => OneEnter(r, s)

\* A job pushed.
PushedFacts(q, x, r, s) ==
  /\ HasEnter(r, s) <=> HasEnter(q, s) \/ IsEnter(x, s)
  /\ HasDelete(r, s) <=> HasDelete(q, s) \/ IsDelete(x, s)
  /\ HasForget(r, s) <=> HasForget(q, s) \/ IsForget(x, s)
  /\ \A a : HasAccount(r, s, a) <=> HasAccount(q, s, a) \/ IsAccount(x, s, a)
  /\ LastIsDelete(q, s) /\ (HasDelete(q, s) => ~IsDelete(x, s) /\ ~IsEnter(x, s))
       => LastIsDelete(r, s)
  /\ OneEnter(q, s) /\ ~(HasEnter(q, s) /\ IsEnter(x, s)) => OneEnter(r, s)

LEMMA Pushed ==
  ASSUME NEW q \in Seq(Jobs), NEW x \in Jobs, NEW s
  PROVE  PushedFacts(q, x, Append(q, x), s)
PROOF
  <1> DEFINE r == Append(q, x)
  <1>1. /\ DOMAIN q = 1 .. Len(q) /\ Len(q) \in Nat /\ DOMAIN r = 1 .. Len(q) + 1
        /\ r[Len(q) + 1] = x /\ \A i \in DOMAIN q : r[i] = q[i]
    OBVIOUS
  <1> DEFINE n == Len(q) + 1
  <1>2. n \in DOMAIN r /\ n \notin DOMAIN q /\ r[n] = x
        /\ (\A i \in DOMAIN r : i \in DOMAIN q \/ i = n)
        /\ (\A i \in DOMAIN q : i \in DOMAIN r /\ r[i] = q[i] /\ i < n)
        /\ (\A i \in DOMAIN r : ~(n < i)) /\ (\A i, j \in DOMAIN r : i < j \/ i = j \/ j < i)
    BY <1>1
  <1> HIDE DEF n
  <1>3. /\ HasEnter(r, s) <=> HasEnter(q, s) \/ IsEnter(x, s)
        /\ HasDelete(r, s) <=> HasDelete(q, s) \/ IsDelete(x, s)
        /\ HasForget(r, s) <=> HasForget(q, s) \/ IsForget(x, s)
        /\ \A a : HasAccount(r, s, a) <=> HasAccount(q, s, a) \/ IsAccount(x, s, a)
    BY <1>2 DEF HasEnter, HasDelete, HasForget, HasAccount
  <1>4. LastIsDelete(q, s) /\ (HasDelete(q, s) => ~IsDelete(x, s) /\ ~IsEnter(x, s))
              => LastIsDelete(r, s)
    <2> SUFFICES ASSUME LastIsDelete(q, s),
                        HasDelete(q, s) => ~IsDelete(x, s) /\ ~IsEnter(x, s),
                        NEW i \in DOMAIN r, NEW j \in DOMAIN r,
                        IsDelete(r[i], s), i < j
                 PROVE  ~IsDelete(r[j], s) /\ ~IsEnter(r[j], s)
      BY DEF LastIsDelete
    <2>1. i \in DOMAIN q /\ IsDelete(q[i], s)
      BY <1>2
    <2>2. HasDelete(q, s)
      BY <2>1 DEF HasDelete
    <2> QED
      BY <1>2, <2>1, <2>2 DEF LastIsDelete
  <1>5. OneEnter(q, s) /\ ~(HasEnter(q, s) /\ IsEnter(x, s)) => OneEnter(r, s)
    <2> SUFFICES ASSUME OneEnter(q, s), ~(HasEnter(q, s) /\ IsEnter(x, s)),
                        NEW i \in DOMAIN r, NEW j \in DOMAIN r,
                        IsEnter(r[i], s), IsEnter(r[j], s)
                 PROVE  i = j
      BY DEF OneEnter
    <2> QED
      BY <1>2 DEF OneEnter, HasEnter
  <1> QED
    BY <1>3, <1>4, <1>5 DEF PushedFacts

\* The first job taken.
PoppedFacts(q, x, r, s) ==
  /\ HasEnter(q, s) <=> HasEnter(r, s) \/ IsEnter(x, s)
  /\ HasDelete(q, s) <=> HasDelete(r, s) \/ IsDelete(x, s)
  /\ HasForget(q, s) <=> HasForget(r, s) \/ IsForget(x, s)
  /\ \A a : HasAccount(q, s, a) <=> HasAccount(r, s, a) \/ IsAccount(x, s, a)
  /\ LastIsDelete(q, s) => LastIsDelete(r, s)
  /\ LastIsDelete(q, s) /\ IsDelete(x, s) => ~HasDelete(r, s) /\ ~HasEnter(r, s)
  /\ OneEnter(q, s) => OneEnter(r, s)
  /\ OneEnter(q, s) /\ IsEnter(x, s) => ~HasEnter(r, s)

LEMMA Popped ==
  ASSUME NEW q \in Seq(Jobs), q # <<>>, NEW s
  PROVE  Head(q) \in Jobs /\ PoppedFacts(q, Head(q), Tail(q), s)
PROOF
  <1> DEFINE r == Tail(q)
  <1>1. /\ DOMAIN q = 1 .. Len(q) /\ Len(q) \in Nat /\ Len(q) >= 1
        /\ DOMAIN r = 1 .. Len(q) - 1
        /\ q[1] = Head(q) /\ \A i \in DOMAIN r : r[i] = q[i + 1]
    OBVIOUS
  <1>2. Head(q) \in Jobs
    OBVIOUS
  <1>3. /\ 1 \in DOMAIN q /\ q[1] = Head(q)
        /\ \A i \in DOMAIN r : i + 1 \in DOMAIN q /\ r[i] = q[i + 1] /\ 1 < i + 1 /\ 1 # i + 1
        /\ \A i \in DOMAIN q : i = 1 \/ (\E k \in DOMAIN r : i = k + 1)
        /\ \A i, j \in DOMAIN r : /\ i < j => i + 1 < j + 1
                                  /\ i + 1 = j + 1 => i = j
    <2>1. \A i \in DOMAIN q : i = 1 \/ (i - 1 \in DOMAIN r /\ i = (i - 1) + 1)
      BY <1>1
    <2>2. /\ \A i \in DOMAIN r : i + 1 \in DOMAIN q /\ r[i] = q[i + 1] /\ 1 < i + 1 /\ 1 # i + 1
          /\ \A i, j \in DOMAIN r : /\ i < j => i + 1 < j + 1
                                    /\ i + 1 = j + 1 => i = j
      BY <1>1
    <2> QED
      BY <1>1, <2>1, <2>2
  <1>4. /\ HasEnter(q, s) <=> HasEnter(r, s) \/ IsEnter(Head(q), s)
        /\ HasDelete(q, s) <=> HasDelete(r, s) \/ IsDelete(Head(q), s)
        /\ HasForget(q, s) <=> HasForget(r, s) \/ IsForget(Head(q), s)
        /\ \A a : HasAccount(q, s, a) <=> HasAccount(r, s, a) \/ IsAccount(Head(q), s, a)
    BY <1>3 DEF HasEnter, HasDelete, HasForget, HasAccount
  <1>5. LastIsDelete(q, s) => LastIsDelete(r, s)
    BY <1>3 DEF LastIsDelete, OneEnter, HasEnter, HasDelete
  <1>6. LastIsDelete(q, s) /\ IsDelete(Head(q), s) => ~HasDelete(r, s) /\ ~HasEnter(r, s)
    BY <1>3 DEF LastIsDelete, OneEnter, HasEnter, HasDelete
  <1>7. OneEnter(q, s) => OneEnter(r, s)
    BY <1>3 DEF LastIsDelete, OneEnter, HasEnter, HasDelete
  <1>8. OneEnter(q, s) /\ IsEnter(Head(q), s) => ~HasEnter(r, s)
    BY <1>3 DEF LastIsDelete, OneEnter, HasEnter, HasDelete
  <1> QED
    BY <1>2, <1>4, <1>5, <1>6, <1>7, <1>8 DEF PoppedFacts
-----------------------------------------------------------------------------
(* Types.                                                                   *)

QueuesOK ==
  /\ jobQueue \in [Zones -> Seq(LobbyJobs \cup EchoJobs)]
  /\ jobQueue[Lobby] \in Seq(LobbyJobs) /\ jobQueue[Echo] \in Seq(EchoJobs)

LEMMA Queues ==
  ASSUME QueuesOK
  PROVE  /\ \A z \in Zones : jobQueue[z] \in Seq(Jobs)
         /\ jobQueue[Lobby] \in Seq(LobbyJobs) /\ jobQueue[Echo] \in Seq(EchoJobs)
  BY DEF QueuesOK, Jobs

\* A job pushed, or the first one taken, is of the right kind for its zone.
LEMMA QueuesPush ==
  ASSUME QueuesOK, NEW z \in Zones, NEW x,
         z = Lobby => x \in LobbyJobs, z = Echo => x \in EchoJobs,
         jobQueue' = [jobQueue EXCEPT ![z] = Append(@, x)]
  PROVE  QueuesOK'
PROOF
  <1>1. x \in LobbyJobs \cup EchoJobs
    BY TwoZones
  <1>2. Append(jobQueue[z], x) \in Seq(LobbyJobs \cup EchoJobs)
    BY <1>1 DEF QueuesOK
  <1>3. CASE z = Lobby
    <2>1. Append(jobQueue[Lobby], x) \in Seq(LobbyJobs)
      BY <1>3 DEF QueuesOK
    <2> QED
      BY <1>2, <1>3, <2>1, TwoZones DEF QueuesOK
  <1>4. CASE z = Echo
    <2>1. Append(jobQueue[Echo], x) \in Seq(EchoJobs)
      BY <1>4 DEF QueuesOK
    <2> QED
      BY <1>2, <1>4, <2>1, TwoZones DEF QueuesOK
  <1> QED
    BY <1>3, <1>4, TwoZones

LEMMA QueuesPop ==
  ASSUME QueuesOK, NEW z \in Zones, jobQueue[z] # <<>>,
         jobQueue' = [jobQueue EXCEPT ![z] = Tail(@)]
  PROVE  QueuesOK'
PROOF
  <1>2. Tail(jobQueue[z]) \in Seq(LobbyJobs \cup EchoJobs)
    BY DEF QueuesOK
  <1>3. CASE z = Lobby
    <2>1. Tail(jobQueue[Lobby]) \in Seq(LobbyJobs)
      BY <1>3 DEF QueuesOK
    <2> QED
      BY <1>2, <1>3, <2>1, TwoZones DEF QueuesOK
  <1>4. CASE z = Echo
    <2>1. Tail(jobQueue[Echo]) \in Seq(EchoJobs)
      BY <1>4 DEF QueuesOK
    <2> QED
      BY <1>2, <1>4, <2>1, TwoZones DEF QueuesOK
  <1> QED
    BY <1>3, <1>4, TwoZones

\* The departure job a zone runs may send another to the lobby.
LEMMA QueuesPopPush ==
  ASSUME QueuesOK, jobQueue[Echo] # <<>>, NEW x \in LobbyJobs,
         jobQueue' = [[jobQueue EXCEPT ![Echo] = Tail(@)] EXCEPT ![Lobby] = Append(@, x)]
  PROVE  QueuesOK'
PROOF
  <1>1. /\ jobQueue'[Echo] = Tail(jobQueue[Echo])
        /\ jobQueue'[Lobby] = Append(jobQueue[Lobby], x)
        /\ jobQueue' \in [Zones -> {jobQueue'[Lobby], jobQueue'[Echo]}]
    BY TwoZones DEF QueuesOK
  <1>2. Tail(jobQueue[Echo]) \in Seq(EchoJobs) /\ Append(jobQueue[Lobby], x) \in Seq(LobbyJobs)
    BY DEF QueuesOK
  <1>3. Tail(jobQueue[Echo]) \in Seq(LobbyJobs \cup EchoJobs)
    BY TwoZones DEF QueuesOK
  <1>4. Append(jobQueue[Lobby], x) \in Seq(LobbyJobs \cup EchoJobs)
    BY DEF QueuesOK
  <1> QED
    BY <1>1, <1>2, <1>3, <1>4, TwoZones DEF QueuesOK

LEMMA HeadJob ==
  ASSUME EchoIInv, NEW z \in Zones, NEW kind, HasJob(z, kind)
  PROVE  /\ jobQueue[z] \in Seq(Jobs) /\ jobQueue[z] # <<>>
         /\ Head(jobQueue[z]) \in Jobs /\ Head(jobQueue[z]).kind = kind
         /\ z = Lobby => Head(jobQueue[z]) \in LobbyJobs
         /\ z = Echo => Head(jobQueue[z]) \in EchoJobs
         /\ Head(jobQueue[z]).sid \in Sessions
         /\ tick[z].pc = "jobs" /\ tick[z].left \in Nat /\ tick[z].left - 1 \in Nat
         /\ tick[z].left <= Len(jobQueue[z])
PROOF
  <1>1. QueuesOK /\ tick[z] \in Ticks
    BY DEF EchoIInv, TypeOK, QueuesOK
  <1>2. /\ tick[z].pc = "jobs" /\ tick[z].left > 0 /\ Head(jobQueue[z]).kind = kind
        /\ tick[z].left <= Len(jobQueue[z])
    BY DEF EchoIInv, TickHolds, HasJob
  <1>3. tick[z].left \in Nat
    BY <1>1 DEF Ticks
  <1>4. jobQueue[z] \in Seq(Jobs) /\ jobQueue[z] # <<>>
    BY <1>1, <1>2, <1>3, Queues
  <1>5. Head(jobQueue[z]) \in Jobs
    BY <1>4
  <1>6. CASE z = Lobby
    BY <1>1, <1>2, <1>3, <1>4, <1>5, <1>6, JobShapes, TwoZones, Queues
  <1>7. CASE z = Echo
    BY <1>1, <1>2, <1>3, <1>4, <1>5, <1>7, JobShapes, TwoZones, Queues
  <1> QED
    BY <1>6, <1>7, TwoZones

\* The parts of TypeOK.
SessionsOK ==
  /\ zoneId \in [Sessions -> Zones \cup {NoZone}]
  /\ userPtr \in [Sessions -> BOOLEAN] /\ isDisconnect \in [Sessions -> BOOLEAN]
  /\ refs \in [Sessions -> SUBSET (Zones \cup {Receive})]
  /\ recvedPackets \in [Sessions -> Seq(Messages)]
  /\ leaving \in [Sessions -> Zones \cup {NoZone}]

MapsOK == sessions \in [Zones -> SUBSET Sessions] /\ userMap \in [Zones -> SUBSET Sessions]

TicksOK == tick \in [Zones -> Ticks]

UsersOK ==
  /\ user \in [Sessions -> {"none", "alloc", "freed"}]
  /\ account \in [Sessions -> Accounts \cup {NoAccount}]
  /\ accountMap \in [Accounts -> Sessions \cup {NoSession}]
  /\ client \in [Sessions -> {"silent", "waiting", "in", "asked"}]

LEMMA TypeParts ==
  /\ TypeOK <=> SessionsOK /\ QueuesOK /\ MapsOK /\ TicksOK /\ UsersOK
  /\ TypeOK' <=> SessionsOK' /\ QueuesOK' /\ MapsOK' /\ TicksOK' /\ UsersOK'
  BY DEF TypeOK, SessionsOK, QueuesOK, MapsOK, TicksOK, UsersOK

LEMMA TickFields ==
  ASSUME NEW t \in Ticks
  PROVE  /\ t.pc \in {"idle", "jobs", "receive", "release"} \cup HoldPcs
         /\ t.left \in Nat /\ t.todo \in SUBSET Sessions
         /\ t.sid \in Sessions \cup {NoSession} /\ t.msg \in Messages
         /\ t.from \in Zones \cup {NoZone}
  BY DEF Ticks

TickPcs == {"idle", "jobs", "receive", "release"} \cup HoldPcs

\* Changes of a tick's fields.
LEMMA TickChanges ==
  ASSUME NEW t \in Ticks
  PROVE  /\ \A p \in TickPcs : [t EXCEPT !.pc = p] \in Ticks
         /\ \A n \in Nat : [t EXCEPT !.left = n] \in Ticks
         /\ \A S \in SUBSET Sessions : [t EXCEPT !.todo = S] \in Ticks
         /\ \A s \in Sessions \cup {NoSession} : [t EXCEPT !.sid = s] \in Ticks
         /\ \A m \in Messages : [t EXCEPT !.msg = m] \in Ticks
         /\ \A z \in Zones \cup {NoZone} : [t EXCEPT !.from = z] \in Ticks
  BY DEF Ticks, TickPcs

LEMMA IdleTick == Idle \in Ticks
  BY DEF Idle, Ticks, Messages

LEMMA TickTypes ==
  ASSUME TicksOK, NEW z \in Zones, NEW t \in Ticks, tick' = [tick EXCEPT ![z] = t]
  PROVE  TicksOK'
  BY DEF TicksOK

\* A job that a zone runs.
LEMMA JobDoneTypes ==
  ASSUME EchoIInv, NEW z \in Zones, NEW kind, HasJob(z, kind), JobDone(z)
  PROVE  /\ TicksOK'
         /\ \A y \in Zones : /\ tick'[y].pc = tick[y].pc /\ tick'[y].sid = tick[y].sid
                             /\ tick'[y].todo = tick[y].todo /\ tick'[y].msg = tick[y].msg
                             /\ tick'[y].from = tick[y].from
                             /\ y # z => tick'[y] = tick[y]
         /\ tick'[z].left = tick[z].left - 1
PROOF
  <1>1. TicksOK /\ tick[z] \in Ticks /\ tick[z].left - 1 \in Nat
    BY HeadJob DEF EchoIInv, TypeOK, TicksOK
  <1> DEFINE t == [tick[z] EXCEPT !.left = tick[z].left - 1]
  <1>2. t \in Ticks /\ tick' = [tick EXCEPT ![z] = t]
    BY <1>1, TickChanges DEF JobDone
  <1>3. /\ t.pc = tick[z].pc /\ t.sid = tick[z].sid /\ t.todo = tick[z].todo
        /\ t.msg = tick[z].msg /\ t.from = tick[z].from /\ t.left = tick[z].left - 1
    BY <1>1 DEF Ticks
  <1> HIDE DEF t
  <1>4. \A y \in Zones : tick'[y] = IF y = z THEN t ELSE tick[y]
    BY <1>1, <1>2 DEF TicksOK
  <1> QED
    BY <1>1, <1>2, <1>3, <1>4, TickTypes

LEMMA GotoTypes ==
  ASSUME TypeOK, NEW z \in Zones, NEW p \in TickPcs, Goto(z, p)
  PROVE  /\ TicksOK'
         /\ \A y \in Zones : /\ tick'[y].pc = IF y = z THEN p ELSE tick[y].pc
                             /\ tick'[y].sid = tick[y].sid /\ tick'[y].left = tick[y].left
                             /\ tick'[y].todo = tick[y].todo /\ tick'[y].msg = tick[y].msg
                             /\ tick'[y].from = tick[y].from
                             /\ y # z => tick'[y] = tick[y]
PROOF
  <1>1. TicksOK /\ tick[z] \in Ticks
    BY DEF TypeOK, TicksOK
  <1> DEFINE t == [tick[z] EXCEPT !.pc = p]
  <1>2. t \in Ticks /\ tick' = [tick EXCEPT ![z] = t]
    BY <1>1, TickChanges DEF Goto
  <1>3. /\ t.pc = p /\ t.sid = tick[z].sid /\ t.todo = tick[z].todo
        /\ t.msg = tick[z].msg /\ t.from = tick[z].from /\ t.left = tick[z].left
    BY <1>1 DEF Ticks
  <1> HIDE DEF t
  <1>4. \A y \in Zones : tick'[y] = IF y = z THEN t ELSE tick[y]
    BY <1>1, <1>2 DEF TicksOK
  <1>5. TicksOK'
    BY <1>1, <1>2, TickTypes
  <1> QED
    BY <1>3, <1>4, <1>5
-----------------------------------------------------------------------------
(* A session a step has nothing to do with.                                 *)

SameSession(u) ==
  /\ zoneId'[u] = zoneId[u] /\ userPtr'[u] = userPtr[u] /\ leaving'[u] = leaving[u]
  /\ isDisconnect[u] => isDisconnect'[u]
  /\ refs'[u] = {} <=> refs[u] = {}
  /\ Receive \in refs'[u] <=> Receive \in refs[u]

SameUser(u) ==
  /\ user'[u] = user[u] /\ account'[u] = account[u]
  /\ \A a \in Accounts : accountMap'[a] = u => accountMap[a] = u
  /\ \A z \in Zones : /\ u \in sessions'[z] <=> u \in sessions[z]
                      /\ u \in userMap'[z] <=> u \in userMap[z]

SameQueues(u) == \A z \in Zones : SameJobs(jobQueue[z], jobQueue'[z], u)

SameTicks(u) ==
  /\ \A p \in MovePcs : AtMove(u, {p})' <=> AtMove(u, {p})
  /\ Moving(u) => tick'[Lobby].from = tick[Lobby].from
  /\ u \in tick'[Echo].todo \/ tick'[Echo].sid = u =>
        u \in tick[Echo].todo \/ tick[Echo].sid = u \/ u \in sessions[Echo]

Same(u) == SameSession(u) /\ SameUser(u) /\ SameQueues(u) /\ SameTicks(u)

LEMMA SameMoves ==
  ASSUME NEW u, SameTicks(u)
  PROVE  /\ Moving(u)' <=> Moving(u)
         /\ AtMove(u, MovePcs)' <=> AtMove(u, MovePcs)
         /\ AtMove(u, {"move"})' <=> AtMove(u, {"move"})
         /\ AtMove(u, {"moveEnter"})' <=> AtMove(u, {"moveEnter"})
         /\ Moving(u)' => tick'[Lobby].from = tick[Lobby].from
         /\ Moving(u) => AtMove(u, MovePcs)
         /\ u \in tick'[Echo].todo \/ tick'[Echo].sid = u =>
               u \in tick[Echo].todo \/ tick[Echo].sid = u \/ u \in sessions[Echo]
  BY DEF SameTicks, AtMove, Moving, MovePcs

LEMMA SameQueue ==
  ASSUME NEW u, SameQueues(u)
  PROVE  \A z \in Zones :
            /\ HasEnter(jobQueue'[z], u) <=> HasEnter(jobQueue[z], u)
            /\ HasDelete(jobQueue'[z], u) <=> HasDelete(jobQueue[z], u)
            /\ HasForget(jobQueue'[z], u) <=> HasForget(jobQueue[z], u)
            /\ \A a : HasAccount(jobQueue'[z], u, a) <=> HasAccount(jobQueue[z], u, a)
            /\ LastIsDelete(jobQueue[z], u) => LastIsDelete(jobQueue'[z], u)
            /\ OneEnter(jobQueue[z], u) => OneEnter(jobQueue'[z], u)
  BY DEF SameQueues, SameJobs

LEMMA SameHome ==
  ASSUME NEW u, SameSession(u), SameQueues(u)
  PROVE  \A z \in Zones : Home(z, u)' <=> Home(z, u)
  BY SameQueue DEF SameSession, Home

\* The invariant of a session that a step does nothing to.
LEMMA Bystander ==
  ASSUME NEW u \in Sessions, SessionIInv(u), Same(u)
  PROVE  SessionIInv(u)'
PROOF
  <1>0. SameSession(u) /\ SameUser(u) /\ SameQueues(u) /\ SameTicks(u)
    BY DEF Same
  <1>1. Known(u)' <=> Known(u)
    BY <1>0 DEF SameUser, Known
  <1>2. (Accepted(u) => Accepted(u)') /\ (Gone(u) => Gone(u)')
    BY <1>0 DEF SameSession, Accepted, Gone
  <1>3. References(u)'
    BY <1>0, <1>1, <1>2, SameQueue, TwoZones DEF SessionIInv, References, SameSession, SameUser
  <1>4. OneDeparture(u)'
    BY <1>0, SameQueue, TwoZones DEF SessionIInv, OneDeparture, SameSession, SameUser
  <1>5. InLobby(u)'
    BY <1>0, <1>1, SameQueue, SameHome, SameMoves, TwoZones
       DEF SessionIInv, InLobby, SameSession, SameUser
  <1>6. InEcho(u)'
    <2>0. InEcho(u)
      BY DEF SessionIInv
    <2>1. /\ \A z \in Zones : Home(z, u)' <=> Home(z, u)
          /\ \A z \in Zones : /\ HasEnter(jobQueue'[z], u) <=> HasEnter(jobQueue[z], u)
                              /\ HasForget(jobQueue'[z], u) <=> HasForget(jobQueue[z], u)
      BY <1>0, SameQueue, SameHome
    <2>2. (u \in sessions[Echo] \cup userMap[Echo] \/ HasEnter(jobQueue[Echo], u) => Home(Echo, u))'
      BY <1>0, <2>0, <2>1, TwoZones DEF InEcho, SameUser
    <2>3. /\ (Home(Echo, u) \/ u \in tick[Echo].todo \/ tick[Echo].sid = u => Known(u))'
          /\ (HasForget(jobQueue[Lobby], u) \/ AtMove(u, MovePcs) => Known(u))'
      BY <1>0, <1>1, <2>0, <2>1, SameMoves, TwoZones DEF InEcho
    <2>4. (Known(u) => user[u] # "none")'
      BY <1>0, <1>1, <2>0 DEF InEcho, SameUser
    <2>5. /\ (AtMove(u, {"move"}) => zoneId[u] = Lobby)'
          /\ (Moving(u) => zoneId[u] = Echo /\ tick[Lobby].from = Lobby)'
      BY <1>0, <2>0, SameMoves DEF InEcho, SameSession
    <2>6. (HasForget(jobQueue[Lobby], u) => ~Home(Lobby, u))'
      BY <2>0, <2>1, TwoZones DEF InEcho
    <2> QED
      BY <2>2, <2>3, <2>4, <2>5, <2>6 DEF InEcho
  <1>7. AccountsGivenBack(u)'
    BY <1>0, SameQueue, SameHome, SameMoves, TwoZones
       DEF SessionIInv, AccountsGivenBack, SameUser
  <1> QED
    BY <1>3, <1>4, <1>5, <1>6, <1>7 DEF SessionIInv
-----------------------------------------------------------------------------
(* What each step of a tick does to the ticks, and the types.               *)

LEMMA TickSet ==
  ASSUME TicksOK, NEW z \in Zones, NEW t \in Ticks, tick' = [tick EXCEPT ![z] = t]
  PROVE  TicksOK' /\ tick'[z] = t /\ \A y \in Zones : y # z => tick'[y] = tick[y]
  BY DEF TicksOK

\* The ticks of the other zones are as they were.
OtherTicks(z) == \A y \in Zones : y # z => tick'[y] = tick[y]

LEMMA Parts ==
  ASSUME EchoIInv
  PROVE  TypeOK /\ SessionsOK /\ QueuesOK /\ MapsOK /\ TicksOK /\ UsersOK /\ TickHolds
         /\ LoginsKnown /\ \A s \in Sessions : SessionIInv(s) /\ LoginOnce(s)
  BY TypeParts DEF EchoIInv

LEMMA TickBeginsDoes ==
  ASSUME EchoIInv, NEW z \in Zones, TickBegins(z)
  PROVE  /\ tick[z].pc = "idle" /\ TicksOK' /\ OtherTicks(z)
         /\ tick'[z].pc = "jobs" /\ tick'[z].left = Len(jobQueue[z])
         /\ tick'[z].todo = tick[z].todo /\ tick'[z].sid = tick[z].sid
         /\ tick'[z].msg = tick[z].msg /\ tick'[z].from = tick[z].from
         /\ UNCHANGED <<sessionVars, jobQueue, sessions>>
PROOF
  <1>1. TicksOK /\ tick[z] \in Ticks /\ Len(jobQueue[z]) \in Nat
    BY Parts, Queues DEF TicksOK
  <1> DEFINE t == [tick[z] EXCEPT !.pc = "jobs", !.left = Len(jobQueue[z])]
  <1>2. t \in Ticks
    BY <1>1 DEF Ticks
  <1>3. /\ t.pc = "jobs" /\ t.sid = tick[z].sid /\ t.todo = tick[z].todo
        /\ t.msg = tick[z].msg /\ t.from = tick[z].from /\ t.left = Len(jobQueue[z])
    BY <1>1 DEF Ticks
  <1>4. tick' = [tick EXCEPT ![z] = t] /\ tick[z].pc = "idle"
        /\ UNCHANGED <<sessionVars, jobQueue, sessions>>
    BY DEF TickBegins
  <1> HIDE DEF t
  <1>5. TicksOK' /\ tick'[z] = t /\ OtherTicks(z)
    BY <1>1, <1>2, <1>4, TickSet DEF OtherTicks
  <1> QED
    BY <1>3, <1>4, <1>5

LEMMA JobsDoneDoes ==
  ASSUME EchoIInv, NEW z \in Zones, JobsDone(z)
  PROVE  /\ tick[z].pc = "jobs" /\ TicksOK' /\ OtherTicks(z)
         /\ tick'[z].pc = "receive" /\ tick'[z].todo = sessions[z]
         /\ tick'[z].sid = tick[z].sid
         /\ tick'[z].msg = tick[z].msg /\ tick'[z].from = tick[z].from
         /\ UNCHANGED <<sessionVars, jobQueue, sessions>>
PROOF
  <1>1. TicksOK /\ tick[z] \in Ticks /\ sessions[z] \in SUBSET Sessions
    BY Parts DEF TicksOK, MapsOK
  <1> DEFINE t == [tick[z] EXCEPT !.pc = "receive", !.todo = sessions[z]]
  <1>2. t \in Ticks
    BY <1>1 DEF Ticks
  <1>3. /\ t.pc = "receive" /\ t.sid = tick[z].sid /\ t.todo = sessions[z]
        /\ t.msg = tick[z].msg /\ t.from = tick[z].from
    BY <1>1 DEF Ticks
  <1>4. tick' = [tick EXCEPT ![z] = t] /\ tick[z].pc = "jobs"
        /\ UNCHANGED <<sessionVars, jobQueue, sessions>>
    BY DEF JobsDone
  <1> HIDE DEF t
  <1>5. TicksOK' /\ tick'[z] = t /\ OtherTicks(z)
    BY <1>1, <1>2, <1>4, TickSet DEF OtherTicks
  <1> QED
    BY <1>3, <1>4, <1>5

LEMMA TakeSessionDoes ==
  ASSUME EchoIInv, NEW z \in Zones, NEW s \in Sessions, TakeSession(z, s)
  PROVE  /\ tick[z].pc = "receive" /\ s \in tick[z].todo /\ TicksOK' /\ OtherTicks(z)
         /\ tick'[z].todo = tick[z].todo \ {s}
         /\ tick'[z].msg = tick[z].msg /\ tick'[z].from = tick[z].from
         /\ \/ /\ IsAlive(s) /\ tick'[z].pc = "look" /\ tick'[z].sid = s
               /\ refs' = [refs EXCEPT ![s] = @ \cup {z}]
            \/ /\ ~IsAlive(s) /\ tick'[z].pc = "receive" /\ tick'[z].sid = tick[z].sid
               /\ refs' = refs
         /\ UNCHANGED <<zoneId, userPtr, isDisconnect, recvedPackets, leaving, jobQueue, sessions>>
PROOF
  <1>1. TicksOK /\ tick[z] \in Ticks
    BY Parts DEF TicksOK
  <1>2. tick[z].pc = "receive" /\ s \in tick[z].todo
        /\ UNCHANGED <<zoneId, userPtr, isDisconnect, recvedPackets, leaving, jobQueue, sessions>>
    BY DEF TakeSession
  <1>3. CASE IsAlive(s)
    <2> DEFINE t == [tick[z] EXCEPT !.pc = "look", !.sid = s, !.todo = @ \ {s}]
    <2>2. t \in Ticks
      BY <1>1 DEF Ticks, HoldPcs
    <2>3. /\ t.pc = "look" /\ t.sid = s /\ t.todo = tick[z].todo \ {s}
          /\ t.msg = tick[z].msg /\ t.from = tick[z].from
      BY <1>1 DEF Ticks
    <2>4. tick' = [tick EXCEPT ![z] = t] /\ refs' = [refs EXCEPT ![s] = @ \cup {z}]
      BY <1>3 DEF TakeSession
    <2> HIDE DEF t
    <2>5. TicksOK' /\ tick'[z] = t /\ OtherTicks(z)
      BY <1>1, <2>2, <2>4, TickSet DEF OtherTicks
    <2> QED
      BY <1>2, <1>3, <2>3, <2>4, <2>5
  <1>4. CASE ~IsAlive(s)
    <2> DEFINE t == [tick[z] EXCEPT !.todo = @ \ {s}]
    <2>2. t \in Ticks
      BY <1>1 DEF Ticks
    <2>3. /\ t.pc = tick[z].pc /\ t.sid = tick[z].sid /\ t.todo = tick[z].todo \ {s}
          /\ t.msg = tick[z].msg /\ t.from = tick[z].from
      BY <1>1 DEF Ticks
    <2>4. tick' = [tick EXCEPT ![z] = t] /\ refs' = refs
      BY <1>4 DEF TakeSession
    <2> HIDE DEF t
    <2>5. TicksOK' /\ tick'[z] = t /\ OtherTicks(z)
      BY <1>1, <2>2, <2>4, TickSet DEF OtherTicks
    <2> QED
      BY <1>2, <1>4, <2>3, <2>4, <2>5
  <1> QED
    BY <1>3, <1>4

LEMMA LookDoes ==
  ASSUME EchoIInv, NEW z \in Zones, Look(z)
  PROVE  /\ tick[z].pc = "look" /\ TicksOK' /\ OtherTicks(z)
         /\ tick[z].sid \in Sessions /\ z \in refs[tick[z].sid]
         /\ recvedPackets[tick[z].sid] # <<>>
         /\ tick'[z].pc = "take" /\ tick'[z].msg = Head(recvedPackets[tick[z].sid])
         /\ tick'[z].sid = tick[z].sid
         /\ tick'[z].todo = tick[z].todo /\ tick'[z].from = tick[z].from
         /\ UNCHANGED <<sessionVars, jobQueue, sessions>>
PROOF
  <1>0. tick[z].pc = "look" /\ recvedPackets[tick[z].sid] # <<>>
        /\ UNCHANGED <<sessionVars, jobQueue, sessions>>
    BY DEF Look
  <1>1. TicksOK /\ tick[z] \in Ticks /\ tick[z].sid \in Sessions /\ z \in refs[tick[z].sid]
    BY <1>0, Parts DEF TicksOK, TickHolds, HoldPcs
  <1>2. recvedPackets[tick[z].sid] \in Seq(Messages)
    BY <1>1, Parts DEF SessionsOK
  <1> DEFINE m == Head(recvedPackets[tick[z].sid])
             t == [tick[z] EXCEPT !.pc = "take", !.msg = m]
  <1>3. m \in Messages
    BY <1>0, <1>2
  <1>4. tick' = [tick EXCEPT ![z] = t]
    BY DEF Look
  <1> HIDE DEF m
  <1>5. t \in Ticks
    BY <1>1, <1>3 DEF Ticks, HoldPcs
  <1>6. /\ t.pc = "take" /\ t.sid = tick[z].sid /\ t.todo = tick[z].todo
        /\ t.msg = m /\ t.from = tick[z].from
    BY <1>1 DEF Ticks
  <1> HIDE DEF t
  <1>7. TicksOK' /\ tick'[z] = t /\ OtherTicks(z)
    BY <1>1, <1>4, <1>5, TickSet DEF OtherTicks
  <1> QED
    BY <1>0, <1>1, <1>6, <1>7 DEF m

\* What is left in the receive queue, and what was taken, of one that two
\* zones read.
LEMMA TakeDoes ==
  ASSUME EchoIInv, NEW z \in Zones, Take(z)
  PROVE  /\ tick[z].pc = "take" /\ TicksOK' /\ OtherTicks(z)
         /\ tick[z].sid \in Sessions /\ z \in refs[tick[z].sid]
         /\ tick'[z].pc = "handle" /\ tick'[z].sid = tick[z].sid
         /\ tick'[z].todo = tick[z].todo /\ tick'[z].from = tick[z].from
         /\ recvedPackets' \in [Sessions -> Seq(Messages)]
         /\ \A s \in Sessions : s # tick[z].sid => recvedPackets'[s] = recvedPackets[s]
         /\ \/ /\ recvedPackets[tick[z].sid] # <<>>
               /\ tick'[z].msg = Head(recvedPackets[tick[z].sid])
               /\ recvedPackets'[tick[z].sid] = Tail(recvedPackets[tick[z].sid])
            \/ /\ recvedPackets[tick[z].sid] = <<>>
               /\ tick'[z].msg \in {tick[z].msg, Garbage}
               /\ recvedPackets'[tick[z].sid] \in {<<>>, <<Garbage>>}
         /\ UNCHANGED <<zoneId, userPtr, isDisconnect, refs, leaving, jobQueue, sessions>>
PROOF
  <1> DEFINE s == tick[z].sid
             q == recvedPackets[s]
  <1>0. tick[z].pc = "take"
        /\ UNCHANGED <<zoneId, userPtr, isDisconnect, refs, leaving, jobQueue, sessions>>
    BY DEF Take
  <1>1. TicksOK /\ tick[z] \in Ticks /\ s \in Sessions /\ z \in refs[s]
    BY <1>0, Parts DEF TicksOK, TickHolds, HoldPcs
  <1>2. recvedPackets \in [Sessions -> Seq(Messages)] /\ q \in Seq(Messages)
    BY <1>1, Parts DEF SessionsOK
  <1>3. PICK m, rest :
          /\ tick' = [tick EXCEPT ![z].pc = "handle", ![z].msg = m]
          /\ recvedPackets' = [recvedPackets EXCEPT ![s] = rest]
          /\ \/ q # <<>> /\ m = Head(q) /\ rest = Tail(q)
             \/ q = <<>> /\ m \in {tick[z].msg, Garbage} /\ rest \in {<<>>, <<Garbage>>}
    BY DEF Take
  <1>4. tick[z].msg \in Messages /\ Garbage \in Messages
    BY <1>1, TickFields DEF Messages
  <1>5. <<>> \in Seq(Messages) /\ <<Garbage>> \in Seq(Messages)
    BY <1>4
  <1>6. m \in Messages /\ rest \in Seq(Messages)
    <2>1. CASE q # <<>> /\ m = Head(q) /\ rest = Tail(q)
      BY <1>2, <2>1
    <2>2. CASE q = <<>> /\ m \in {tick[z].msg, Garbage} /\ rest \in {<<>>, <<Garbage>>}
      BY <1>4, <1>5, <2>2
    <2> QED
      BY <1>3, <2>1, <2>2
  <1> DEFINE t == [tick[z] EXCEPT !.pc = "handle", !.msg = m]
  <1>7. tick' = [tick EXCEPT ![z] = t]
    BY <1>3
  <1>8. t \in Ticks
    BY <1>1, <1>6 DEF Ticks, HoldPcs
  <1>9. /\ t.pc = "handle" /\ t.sid = tick[z].sid /\ t.todo = tick[z].todo
        /\ t.msg = m /\ t.from = tick[z].from
    BY <1>1 DEF Ticks
  <1> HIDE DEF t, q
  <1>10. TicksOK' /\ tick'[z] = t /\ OtherTicks(z)
    BY <1>1, <1>7, <1>8, TickSet DEF OtherTicks
  <1>11. /\ recvedPackets' \in [Sessions -> Seq(Messages)] /\ recvedPackets'[s] = rest
         /\ \A u \in Sessions : u # s => recvedPackets'[u] = recvedPackets[u]
    BY <1>1, <1>2, <1>3, <1>6
  <1> QED
    BY <1>0, <1>1, <1>3, <1>9, <1>10, <1>11 DEF q

\* Who gives back a reference; who gives back the last one clears the session.
LEMMA GiveBackDoes ==
  ASSUME EchoIInv, NEW s \in Sessions, NEW r \in refs[s], GiveBack(s, r)
  PROVE  /\ zoneId' \in [Sessions -> Zones \cup {NoZone}] /\ userPtr' \in [Sessions -> BOOLEAN]
         /\ refs' \in [Sessions -> SUBSET (Zones \cup {Receive})]
         /\ recvedPackets' \in [Sessions -> Seq(Messages)]
         /\ leaving' \in [Sessions -> Zones \cup {NoZone}]
         /\ refs'[s] = refs[s] \ {r}
         /\ \A u \in Sessions : u # s =>
               /\ zoneId'[u] = zoneId[u] /\ userPtr'[u] = userPtr[u] /\ refs'[u] = refs[u]
               /\ recvedPackets'[u] = recvedPackets[u] /\ leaving'[u] = leaving[u]
         /\ \/ /\ refs[s] = {r} /\ refs'[s] = {} /\ zoneId'[s] = NoZone /\ userPtr'[s] = FALSE
               /\ leaving'[s] = zoneId[s] /\ recvedPackets'[s] = <<>>
            \/ /\ refs[s] # {r} /\ refs'[s] # {} /\ zoneId'[s] = zoneId[s]
               /\ userPtr'[s] = userPtr[s]
               /\ leaving'[s] = leaving[s] /\ recvedPackets'[s] = recvedPackets[s]
PROOF
  <1>1. SessionsOK /\ <<>> \in Seq(Messages)
    BY Parts
  <1>2. /\ refs' = [refs EXCEPT ![s] = @ \ {r}]
        /\ leaving' = [leaving EXCEPT ![s] = IF refs[s] = {r} THEN zoneId[s] ELSE @]
        /\ zoneId' = [zoneId EXCEPT ![s] = IF refs[s] = {r} THEN NoZone ELSE @]
        /\ userPtr' = [userPtr EXCEPT ![s] = @ /\ ~(refs[s] = {r})]
        /\ recvedPackets' = [recvedPackets EXCEPT ![s] = IF refs[s] = {r} THEN <<>> ELSE @]
    BY DEF GiveBack
  <1>3. CASE refs[s] = {r}
    <2>1. recvedPackets' = [recvedPackets EXCEPT ![s] = <<>>]
          /\ userPtr' = [userPtr EXCEPT ![s] = FALSE]
          /\ leaving' = [leaving EXCEPT ![s] = zoneId[s]] /\ zoneId' = [zoneId EXCEPT ![s] = NoZone]
      BY <1>1, <1>2, <1>3 DEF SessionsOK
    <2> QED
      BY <1>1, <1>2, <1>3, <2>1 DEF SessionsOK
  <1>4. CASE refs[s] # {r}
    <2>1. recvedPackets' = recvedPackets /\ zoneId' = zoneId /\ leaving' = leaving
      BY <1>1, <1>2, <1>4 DEF SessionsOK
    <2>2. userPtr'[s] = userPtr[s] /\ userPtr' \in [Sessions -> BOOLEAN]
          /\ \A u \in Sessions : u # s => userPtr'[u] = userPtr[u]
      BY <1>1, <1>2, <1>4 DEF SessionsOK
    <2>3. refs'[s] = refs[s] \ {r} /\ refs' \in [Sessions -> SUBSET (Zones \cup {Receive})]
          /\ \A u \in Sessions : u # s => refs'[u] = refs[u]
      BY <1>1, <1>2 DEF SessionsOK
    <2>4. refs'[s] # {}
      BY <1>4, <2>3
    <2> QED
      BY <1>1, <1>4, <2>1, <2>2, <2>3, <2>4 DEF SessionsOK
  <1> QED
    BY <1>3, <1>4

LEMMA DrainedDoes ==
  ASSUME EchoIInv, NEW z \in Zones, Drained(z)
  PROVE  LET s == tick[z].sid IN
         /\ tick[z].pc = "look" /\ TicksOK' /\ OtherTicks(z)
         /\ s \in Sessions /\ z \in refs[s] /\ recvedPackets[s] = <<>>
         /\ tick'[z].pc \in {"release", "receive"} /\ tick'[z].sid \in {s, NoSession}
         /\ tick'[z].todo = tick[z].todo /\ tick'[z].from = tick[z].from
         /\ tick'[z].msg = Garbage
         /\ GiveBack(s, z)
         /\ UNCHANGED <<isDisconnect, jobQueue, sessions>>
PROOF
  <1> DEFINE s == tick[z].sid
  <1>0. /\ tick[z].pc = "look" /\ recvedPackets[s] = <<>> /\ GiveBack(s, z)
        /\ UNCHANGED <<isDisconnect, jobQueue, sessions>>
    BY DEF Drained
  <1>1. TicksOK /\ tick[z] \in Ticks /\ s \in Sessions /\ z \in refs[s]
    BY <1>0, Parts DEF TicksOK, TickHolds, HoldPcs
  <1> DEFINE p == IF refs[s] = {z} THEN "release" ELSE "receive"
             i == IF refs[s] = {z} THEN s ELSE NoSession
             t == [tick[z] EXCEPT !.msg = Garbage, !.pc = p, !.sid = i]
  <1>2. tick' = [tick EXCEPT ![z] = t]
    BY DEF Drained
  <1>3. p \in {"release", "receive"} /\ i \in {s, NoSession}
    OBVIOUS
  <1> HIDE DEF p, i
  <1>4. t \in Ticks
    BY <1>1, <1>3 DEF Ticks, Messages
  <1>5. /\ t.pc = p /\ t.sid = i /\ t.todo = tick[z].todo
        /\ t.msg = Garbage /\ t.from = tick[z].from
    BY <1>1 DEF Ticks
  <1> HIDE DEF t
  <1>6. TicksOK' /\ tick'[z] = t /\ OtherTicks(z)
    BY <1>1, <1>2, <1>4, TickSet DEF OtherTicks
  <1> QED
    BY <1>0, <1>1, <1>3, <1>5, <1>6

LEMMA TickEndsDoes ==
  ASSUME EchoIInv, NEW z \in Zones, TickEnds(z)
  PROVE  /\ tick[z].pc = "receive" /\ TicksOK' /\ OtherTicks(z) /\ tick'[z] = Idle
PROOF
  <1>1. tick[z].pc = "receive" /\ tick' = [tick EXCEPT ![z] = Idle]
    BY DEF TickEnds
  <1> QED
    BY <1>1, Parts, IdleTick, TickSet DEF OtherTicks

LEMMA MoveCasDoes ==
  ASSUME EchoIInv, MoveCas(Lobby, Echo)
  PROVE  LET s == tick[Lobby].sid IN
         /\ tick[Lobby].pc = "move" /\ TicksOK' /\ OtherTicks(Lobby)
         /\ s \in Sessions /\ Lobby \in refs[s]
         /\ tick'[Lobby].sid = s /\ tick'[Lobby].todo = tick[Lobby].todo
         /\ tick'[Lobby].msg = tick[Lobby].msg
         /\ \/ /\ IsAlive(s) /\ tick'[Lobby].pc = "moveEnter" /\ tick'[Lobby].from = zoneId[s]
               /\ zoneId' = [zoneId EXCEPT ![s] = Echo]
            \/ /\ ~IsAlive(s) /\ tick'[Lobby].pc = "look" /\ tick'[Lobby].from = tick[Lobby].from
               /\ zoneId' = zoneId
         /\ UNCHANGED <<userPtr, isDisconnect, refs, recvedPackets, leaving, jobQueue, sessions>>
PROOF
  <1> DEFINE s == tick[Lobby].sid
  <1>0. /\ tick[Lobby].pc = "move"
        /\ UNCHANGED <<userPtr, isDisconnect, refs, recvedPackets, leaving, jobQueue, sessions>>
    BY DEF MoveCas
  <1>1. TicksOK /\ tick[Lobby] \in Ticks /\ s \in Sessions /\ Lobby \in refs[s]
    BY <1>0, Parts, TwoZones DEF TicksOK, TickHolds, HoldPcs, MovePcs
  <1>2. zoneId[s] \in Zones \cup {NoZone}
    BY <1>1, Parts DEF SessionsOK
  <1>3. CASE IsAlive(s)
    <2> DEFINE t == [tick[Lobby] EXCEPT !.pc = "moveEnter", !.from = zoneId[s]]
    <2>1. tick' = [tick EXCEPT ![Lobby] = t] /\ zoneId' = [zoneId EXCEPT ![s] = Echo]
      BY <1>3 DEF MoveCas
    <2>2. t \in Ticks
      BY <1>1, <1>2 DEF Ticks, HoldPcs, MovePcs
    <2>3. /\ t.pc = "moveEnter" /\ t.sid = s /\ t.todo = tick[Lobby].todo
          /\ t.msg = tick[Lobby].msg /\ t.from = zoneId[s]
      BY <1>1 DEF Ticks
    <2> HIDE DEF t
    <2>4. TicksOK' /\ tick'[Lobby] = t /\ OtherTicks(Lobby)
      BY <1>1, <2>1, <2>2, TickSet, TwoZones DEF OtherTicks
    <2> QED
      BY <1>0, <1>1, <1>3, <2>1, <2>3, <2>4
  <1>4. CASE ~IsAlive(s)
    <2>1. Goto(Lobby, "look") /\ zoneId' = zoneId
      BY <1>4 DEF MoveCas
    <2>2. "look" \in TickPcs
      BY DEF TickPcs, HoldPcs
    <2>3. /\ TicksOK' /\ OtherTicks(Lobby)
          /\ tick'[Lobby].pc = "look" /\ tick'[Lobby].from = tick[Lobby].from
          /\ tick'[Lobby].sid = s /\ tick'[Lobby].todo = tick[Lobby].todo
          /\ tick'[Lobby].msg = tick[Lobby].msg
      BY <2>1, <2>2, Parts, GotoTypes, TwoZones DEF OtherTicks
    <2> QED
      BY <1>0, <1>1, <1>4, <2>1, <2>3
  <1> QED
    BY <1>3, <1>4

\* The release that ends: of a worker, or of a tick, which goes on.
LEMMA LeaveZoneDoes ==
  ASSUME EchoIInv, NEW s \in Sessions, LeaveZone(s)
  PROVE  /\ leaving[s] \in Zones /\ leaving' = [leaving EXCEPT ![s] = NoZone]
         /\ jobQueue' = [jobQueue EXCEPT ![leaving[s]] = Append(@, LeaveJob(s, TRUE))]
         /\ TicksOK'
         /\ \A z \in Zones :
               \/ tick'[z] = tick[z]
               \/ /\ tick[z].pc = "release" /\ tick[z].sid = s
                  /\ tick'[z].pc = "receive" /\ tick'[z].sid = NoSession
                  /\ tick'[z].todo = tick[z].todo /\ tick'[z].msg = tick[z].msg
                  /\ tick'[z].from = tick[z].from /\ tick'[z].left = tick[z].left
         /\ UNCHANGED <<zoneId, userPtr, isDisconnect, refs, recvedPackets, sessions>>
PROOF
  <1>1. TicksOK /\ leaving[s] \in Zones
    BY Parts DEF LeaveZone, SessionsOK
  <1> DEFINE t(z) == [tick[z] EXCEPT !.pc = "receive", !.sid = NoSession]
  <1>2. \A z \in Zones : /\ t(z) \in Ticks /\ t(z).pc = "receive" /\ t(z).sid = NoSession
                         /\ t(z).todo = tick[z].todo /\ t(z).msg = tick[z].msg
                         /\ t(z).from = tick[z].from /\ t(z).left = tick[z].left
    <2> SUFFICES ASSUME NEW z \in Zones
                 PROVE  /\ t(z) \in Ticks /\ t(z).pc = "receive" /\ t(z).sid = NoSession
                        /\ t(z).todo = tick[z].todo /\ t(z).msg = tick[z].msg
                        /\ t(z).from = tick[z].from /\ t(z).left = tick[z].left
      OBVIOUS
    <2> QED
      BY <1>1 DEF TicksOK, Ticks
  <1>3. tick' = [z \in Zones |-> IF tick[z].pc = "release" /\ tick[z].sid = s
                                 THEN t(z) ELSE tick[z]]
    BY DEF LeaveZone
  <1> HIDE DEF t
  <1>4. TicksOK'
    BY <1>1, <1>2, <1>3 DEF TicksOK
  <1>5. \A z \in Zones :
               \/ tick'[z] = tick[z]
               \/ /\ tick[z].pc = "release" /\ tick[z].sid = s
                  /\ tick'[z].pc = "receive" /\ tick'[z].sid = NoSession
                  /\ tick'[z].todo = tick[z].todo /\ tick'[z].msg = tick[z].msg
                  /\ tick'[z].from = tick[z].from /\ tick'[z].left = tick[z].left
    BY <1>2, <1>3
  <1>6. /\ leaving' = [leaving EXCEPT ![s] = NoZone]
        /\ jobQueue' = [jobQueue EXCEPT ![leaving[s]] = Append(@, LeaveJob(s, TRUE))]
        /\ UNCHANGED <<zoneId, userPtr, isDisconnect, refs, recvedPackets, sessions>>
    BY DEF LeaveZone, PushJob
  <1> QED
    BY <1>1, <1>4, <1>5, <1>6

-----------------------------------------------------------------------------
(* TickHolds.                                                               *)

HoldsIn(z) ==
  /\ tick[z].pc = "jobs" => tick[z].left <= Len(jobQueue[z])
  /\ tick[z].pc \in HoldPcs => tick[z].sid \in Sessions /\ z \in refs[tick[z].sid]

LEMMA PushDoes ==
  ASSUME QueuesOK, NEW z \in Zones, NEW x, jobQueue' = [jobQueue EXCEPT ![z] = Append(@, x)]
  PROVE  /\ jobQueue'[z] = Append(jobQueue[z], x)
         /\ \A y \in Zones : y # z => jobQueue'[y] = jobQueue[y]
         /\ \A y \in Zones : Len(jobQueue'[y]) >= Len(jobQueue[y])
PROOF
  <1>1. /\ jobQueue'[z] = Append(jobQueue[z], x)
        /\ \A y \in Zones : y # z => jobQueue'[y] = jobQueue[y]
    BY DEF QueuesOK
  <1> DEFINE q == jobQueue[z]
  <1>2. Len(jobQueue'[z]) >= Len(jobQueue[z])
    <2>1. q \in Seq(Jobs) /\ jobQueue'[z] = Append(q, x)
      BY <1>1, Queues
    <2> HIDE DEF q
    <2>2. Len(Append(q, x)) = Len(q) + 1 /\ Len(q) \in Nat
      BY <2>1
    <2> QED
      BY <2>1, <2>2 DEF q
  <1>3. \A y \in Zones : Len(jobQueue[y]) >= Len(jobQueue[y])
    BY Queues
  <1> QED
    BY <1>1, <1>2, <1>3

LEMMA PopDoes ==
  ASSUME QueuesOK, NEW z \in Zones, jobQueue[z] # <<>>,
         jobQueue' = [jobQueue EXCEPT ![z] = Tail(@)]
  PROVE  /\ jobQueue'[z] = Tail(jobQueue[z])
         /\ \A y \in Zones : y # z => jobQueue'[y] = jobQueue[y]
         /\ Len(jobQueue'[z]) = Len(jobQueue[z]) - 1
PROOF
  <1>1. /\ jobQueue'[z] = Tail(jobQueue[z])
        /\ \A y \in Zones : y # z => jobQueue'[y] = jobQueue[y]
    BY DEF QueuesOK
  <1> DEFINE q == jobQueue[z]
  <1>2. Len(jobQueue'[z]) = Len(jobQueue[z]) - 1
    <2>1. q \in Seq(Jobs) /\ q # <<>> /\ jobQueue'[z] = Tail(q)
      BY <1>1, Queues
    <2> HIDE DEF q
    <2>2. Len(Tail(q)) = Len(q) - 1
      BY <2>1
    <2> QED
      BY <2>1, <2>2 DEF q
  <1> QED
    BY <1>1, <1>2

\* The ticks of zones other than z hold what they held.
LEMMA HoldsKept ==
  ASSUME EchoIInv, QueuesOK', NEW z \in Zones, HoldsIn(z)', OtherTicks(z),
         \A y \in Zones : y # z => Len(jobQueue'[y]) >= Len(jobQueue[y]),
         \A y \in Zones, s \in Sessions : y # z /\ y \in refs[s] => y \in refs'[s]
  PROVE  TickHolds'
PROOF
  <1> SUFFICES ASSUME NEW y \in Zones
               PROVE  HoldsIn(y)'
    BY DEF TickHolds, HoldsIn
  <1>1. CASE y = z
    BY <1>1
  <1>2. CASE y # z
    <2>1. tick'[y] = tick[y] /\ tick[y].left \in Nat /\ tick[y].pc \in TickPcs
      BY <1>2, Parts, TickFields DEF OtherTicks, TicksOK, TickPcs
    <2>2. /\ tick[y].pc = "jobs" => tick[y].left <= Len(jobQueue[y])
          /\ tick[y].pc \in HoldPcs => tick[y].sid \in Sessions /\ y \in refs[tick[y].sid]
      BY Parts DEF TickHolds
    <2>3. tick[y].pc = "jobs" => tick[y].left <= Len(jobQueue'[y])
      <3>1. SUFFICES ASSUME tick[y].pc = "jobs" PROVE tick[y].left <= Len(jobQueue'[y])
        OBVIOUS
      <3>2. tick[y].left <= Len(jobQueue[y]) /\ Len(jobQueue'[y]) >= Len(jobQueue[y])
        BY <1>2, <2>2, <3>1
      <3>3. Len(jobQueue[y]) \in Nat /\ Len(jobQueue'[y]) \in Nat
        BY Parts, Queues DEF QueuesOK
      <3> QED
        BY <2>1, <3>2, <3>3
    <2> QED
      BY <1>2, <2>1, <2>2, <2>3 DEF HoldsIn
  <1> QED
    BY <1>1, <1>2

-----------------------------------------------------------------------------
(* Steps that leave every session where it is.                              *)

\* The tick of z neither begins nor ends a move, and looks at no session
\* that is not in the zone.
TickQuiet(z) ==
  /\ z = Lobby => tick[z].pc \notin MovePcs /\ tick'[z].pc \notin MovePcs
  /\ z = Echo => \A u \in Sessions : u \in tick'[z].todo \/ tick'[z].sid = u =>
                     u \in tick[z].todo \/ tick[z].sid = u \/ u \in sessions[z]

LEMMA QueuesUnchanged ==
  ASSUME jobQueue' = jobQueue, NEW u
  PROVE  SameQueues(u)
  BY DEF SameQueues, SameJobs

LEMMA QuietTicks ==
  ASSUME NEW z \in Zones, OtherTicks(z), TickQuiet(z), NEW u \in Sessions
  PROVE  SameTicks(u)
PROOF
  <1>1. CASE z = Lobby
    BY <1>1, TwoZones DEF OtherTicks, TickQuiet, SameTicks, AtMove, Moving, MovePcs
  <1>2. CASE z = Echo
    BY <1>2, TwoZones DEF OtherTicks, TickQuiet, SameTicks, AtMove, Moving, MovePcs
  <1> QED
    BY <1>1, <1>2, TwoZones

LEMMA MembersUnchanged ==
  ASSUME UNCHANGED <<sessions, userMap, user, account, accountMap>>, NEW u
  PROVE  SameUser(u)
  BY DEF SameUser

LEMMA QuietStep ==
  ASSUME EchoIInv, NEW z \in Zones, OtherTicks(z), TickQuiet(z),
         UNCHANGED <<zoneId, userPtr, leaving, jobQueue, sessions, userMap, user, account, accountMap>>,
         \A u \in Sessions : /\ isDisconnect[u] => isDisconnect'[u]
                             /\ refs'[u] = {} <=> refs[u] = {}
                             /\ Receive \in refs'[u] <=> Receive \in refs[u]
  PROVE  \A u \in Sessions : SessionIInv(u)'
PROOF
  <1> SUFFICES ASSUME NEW u \in Sessions
               PROVE  SessionIInv(u)'
    OBVIOUS
  <1>1. SameSession(u)
    BY DEF SameSession
  <1> QED
    BY <1>1, QuietTicks, MembersUnchanged, QueuesUnchanged, Parts, Bystander DEF Same

\* The login of a session is where it was.
LoginKept(u) ==
  /\ recvedPackets'[u] = recvedPackets[u] /\ account'[u] = account[u]
  /\ client[u] # "silent" => client'[u] # "silent"
  /\ \A z \in Zones : \A l \in {"take", "handle"} : HasLogin(z, u, l)' => HasLogin(z, u, l)

LEMMA LoginStays ==
  ASSUME NEW u, LoginOnce(u), LoginKept(u)
  PROVE  LoginOnce(u)'
PROOF
  <1>1. \A i : LoginAt(u, i)' <=> LoginAt(u, i)
    BY DEF LoginKept, LoginAt
  <1>2. Known(u)' <=> Known(u)
    BY DEF LoginKept, Known
  <1>3. \A z \in Zones : /\ HasLogin(z, u, "take")' => HasLogin(z, u, "take")
                         /\ HasLogin(z, u, "handle")' => HasLogin(z, u, "handle")
    BY DEF LoginKept
  <1>4. \A i, j \in DOMAIN recvedPackets'[u] : LoginAt(u, i)' /\ LoginAt(u, j)' => i = j
    BY <1>1 DEF LoginOnce, LoginKept
  <1>5. \A i \in DOMAIN recvedPackets'[u] : LoginAt(u, i)' =>
           ~Known(u)' /\ client'[u] # "silent" /\ ~HasLogin(Lobby, u, "handle")'
    BY <1>1, <1>2, <1>3, TwoZones DEF LoginOnce, LoginKept
  <1>6. (HasLogin(Lobby, u, "handle") \/ Known(u) => client[u] # "silent")'
    BY <1>2, <1>3, TwoZones DEF LoginOnce, LoginKept
  <1>7. (HasLogin(Lobby, u, "handle") => ~Known(u))' /\ ~HasLogin(Echo, u, "handle")'
    BY <1>2, <1>3, TwoZones DEF LoginOnce
  <1>8. \A z \in Zones : HasLogin(z, u, "take")' => LoginAt(u, 1)'
    BY <1>1, <1>3 DEF LoginOnce
  <1> QED
    BY <1>4, <1>5, <1>6, <1>7, <1>8 DEF LoginOnce

LEMMA LoginsKnownKept ==
  ASSUME EchoIInv, account' = account, accountMap' = accountMap,
         \A u \in Sessions : isDisconnect[u] => isDisconnect'[u]
  PROVE  LoginsKnown'
  BY Parts DEF LoginsKnown

LEMMA AllParts ==
  ASSUME SessionsOK', QueuesOK', MapsOK', TicksOK', UsersOK', TickHolds', LoginsKnown',
         \A s \in Sessions : SessionIInv(s)', \A s \in Sessions : LoginOnce(s)'
  PROVE  EchoIInv'
  BY TypeParts DEF EchoIInv

UsersUnchanged == UNCHANGED <<userMap, user, account, accountMap, client>>

LEMMA UnchangedParts ==
  ASSUME EchoIInv
  PROVE  /\ UNCHANGED <<zoneId, userPtr, isDisconnect, refs, recvedPackets, leaving>> => SessionsOK'
         /\ UNCHANGED jobQueue => QueuesOK'
         /\ UNCHANGED <<sessions, userMap>> => MapsOK'
         /\ UNCHANGED <<user, account, accountMap, client>> => UsersOK'
  BY Parts DEF SessionsOK, QueuesOK, MapsOK, UsersOK

\* Queues and references that stay keep what the other zones hold.
LEMMA HoldsStill ==
  ASSUME EchoIInv, QueuesOK', NEW z \in Zones, HoldsIn(z)', OtherTicks(z), jobQueue' = jobQueue,
         \A y \in Zones, s \in Sessions : y # z /\ y \in refs[s] => y \in refs'[s]
  PROVE  TickHolds'
PROOF
  <1>1. \A y \in Zones : Len(jobQueue'[y]) >= Len(jobQueue[y])
    <2> SUFFICES ASSUME NEW y \in Zones PROVE Len(jobQueue'[y]) >= Len(jobQueue[y])
      OBVIOUS
    <2>1. Len(jobQueue[y]) \in Nat
      BY Parts, Queues
    <2> QED
      BY <2>1
  <1> QED
    BY <1>1, HoldsKept

LEMMA LoginsStay ==
  ASSUME EchoIInv, UNCHANGED <<recvedPackets, account, client>>,
         \A z \in Zones : \A u \in Sessions : \A l \in {"take", "handle"} :
            HasLogin(z, u, l)' => HasLogin(z, u, l)
  PROVE  \A u \in Sessions : LoginOnce(u)'
  BY Parts, LoginStays DEF LoginKept

LEMMA TickBeginsKeeps ==
  ASSUME EchoIInv, NEW z \in Zones, TickBegins(z), UsersUnchanged
  PROVE  EchoIInv'
PROOF
  <1>1. UNCHANGED <<zoneId, userPtr, isDisconnect, refs, recvedPackets, leaving>>
        /\ UNCHANGED <<jobQueue, sessions, userMap, user, account, accountMap, client>>
        /\ OtherTicks(z) /\ TicksOK'
    BY TickBeginsDoes DEF sessionVars, UsersUnchanged
  <1>2. SessionsOK' /\ QueuesOK' /\ MapsOK' /\ UsersOK'
    BY <1>1, UnchangedParts
  <1>3. HoldsIn(z)'
    <2>1. Len(jobQueue[z]) \in Nat
      BY Parts, Queues
    <2> QED
      BY <1>1, <2>1, TickBeginsDoes DEF HoldsIn, HoldPcs, MovePcs
  <1>4. TickHolds'
    BY <1>1, <1>2, <1>3, HoldsStill
  <1>5. LoginsKnown'
    BY <1>1, LoginsKnownKept
  <1>6. TickQuiet(z)
    BY TickBeginsDoes DEF TickQuiet, MovePcs
  <1>7. \A u \in Sessions : SessionIInv(u)'
    BY <1>1, <1>6, QuietStep
  <1>8. \A u \in Sessions : LoginOnce(u)'
    BY <1>1, TickBeginsDoes, LoginsStay DEF HasLogin, OtherTicks
  <1> QED
    BY <1>1, <1>2, <1>4, <1>5, <1>7, <1>8, AllParts

LEMMA JobsDoneKeeps ==
  ASSUME EchoIInv, NEW z \in Zones, JobsDone(z), UsersUnchanged
  PROVE  EchoIInv'
PROOF
  <1>1. UNCHANGED <<zoneId, userPtr, isDisconnect, refs, recvedPackets, leaving>>
        /\ UNCHANGED <<jobQueue, sessions, userMap, user, account, accountMap, client>>
        /\ OtherTicks(z) /\ TicksOK'
    BY JobsDoneDoes DEF sessionVars, UsersUnchanged
  <1>2. SessionsOK' /\ QueuesOK' /\ MapsOK' /\ UsersOK'
    BY <1>1, UnchangedParts
  <1>3. HoldsIn(z)'
    BY <1>1, JobsDoneDoes DEF HoldsIn, HoldPcs, MovePcs
  <1>4. TickHolds'
    BY <1>1, <1>2, <1>3, HoldsStill
  <1>5. LoginsKnown'
    BY <1>1, LoginsKnownKept
  <1>6. TickQuiet(z)
    BY JobsDoneDoes DEF TickQuiet, MovePcs
  <1>7. \A u \in Sessions : SessionIInv(u)'
    BY <1>1, <1>6, QuietStep
  <1>8. \A u \in Sessions : LoginOnce(u)'
    BY <1>1, JobsDoneDoes, LoginsStay DEF HasLogin, OtherTicks
  <1> QED
    BY <1>1, <1>2, <1>4, <1>5, <1>7, <1>8, AllParts

LEMMA TakeSessionKeeps ==
  ASSUME EchoIInv, NEW z \in Zones, NEW s \in Sessions, TakeSession(z, s), UsersUnchanged
  PROVE  EchoIInv'
PROOF
  <1>1. UNCHANGED <<zoneId, userPtr, isDisconnect, recvedPackets, leaving>>
        /\ UNCHANGED <<jobQueue, sessions, userMap, user, account, accountMap, client>>
        /\ OtherTicks(z) /\ TicksOK'
    BY TakeSessionDoes DEF UsersUnchanged
  <1>2. QueuesOK' /\ MapsOK' /\ UsersOK' /\ SessionsOK
    BY <1>1, UnchangedParts, Parts
  <1>3. /\ refs' \in [Sessions -> SUBSET (Zones \cup {Receive})]
        /\ \A u \in Sessions : refs[u] \subseteq refs'[u]
        /\ \A u \in Sessions : /\ refs'[u] = {} <=> refs[u] = {}
                               /\ Receive \in refs'[u] <=> Receive \in refs[u]
    <2>1. CASE IsAlive(s) /\ refs' = [refs EXCEPT ![s] = @ \cup {z}]
      <3>1. refs' \in [Sessions -> SUBSET (Zones \cup {Receive})]
            /\ refs'[s] = refs[s] \cup {z}
            /\ \A u \in Sessions : u # s => refs'[u] = refs[u]
        BY <1>2, <2>1 DEF SessionsOK
      <3>2. z # Receive /\ refs[s] # {}
        BY <2>1, MembersAssumption DEF IsAlive
      <3> QED
        BY <3>1, <3>2
    <2>2. CASE refs' = refs
      BY <1>2, <2>2 DEF SessionsOK
    <2> QED
      BY <2>1, <2>2, TakeSessionDoes
  <1>4. SessionsOK'
    BY <1>1, <1>2, <1>3 DEF SessionsOK
  <1>5. HoldsIn(z)'
    <2>1. CASE tick'[z].pc = "receive"
      BY <2>1 DEF HoldsIn, HoldPcs, MovePcs
    <2>2. CASE tick'[z].pc = "look" /\ tick'[z].sid = s /\ refs' = [refs EXCEPT ![s] = @ \cup {z}]
      BY <1>2, <2>2 DEF HoldsIn, SessionsOK
    <2> QED
      BY <2>1, <2>2, TakeSessionDoes
  <1>6. TickHolds'
    BY <1>1, <1>2, <1>3, <1>5, HoldsStill
  <1>7. LoginsKnown'
    BY <1>1, LoginsKnownKept
  <1>8. TickQuiet(z)
    BY TakeSessionDoes DEF TickQuiet, MovePcs
  <1>9. \A u \in Sessions : SessionIInv(u)'
    BY <1>1, <1>3, <1>8, QuietStep
  <1>10. \A u \in Sessions : LoginOnce(u)'
    BY <1>1, TakeSessionDoes, LoginsStay DEF HasLogin, OtherTicks
  <1> QED
    BY <1>1, <1>2, <1>4, <1>6, <1>7, <1>9, <1>10, AllParts

LEMMA LookKeeps ==
  ASSUME EchoIInv, NEW z \in Zones, Look(z), UsersUnchanged
  PROVE  EchoIInv'
PROOF
  <1>1. UNCHANGED <<zoneId, userPtr, isDisconnect, refs, recvedPackets, leaving>>
        /\ UNCHANGED <<jobQueue, sessions, userMap, user, account, accountMap, client>>
        /\ OtherTicks(z) /\ TicksOK'
    BY LookDoes DEF sessionVars, UsersUnchanged
  <1>2. SessionsOK' /\ QueuesOK' /\ MapsOK' /\ UsersOK'
    BY <1>1, UnchangedParts
  <1>3. HoldsIn(z)'
    BY <1>1, LookDoes DEF HoldsIn
  <1>4. TickHolds'
    BY <1>1, <1>2, <1>3, HoldsStill
  <1>5. LoginsKnown'
    BY <1>1, LoginsKnownKept
  <1>6. TickQuiet(z)
    BY LookDoes DEF TickQuiet, MovePcs
  <1>7. \A u \in Sessions : SessionIInv(u)'
    BY <1>1, <1>6, QuietStep
  <1>8. \A u \in Sessions : LoginOnce(u)'
    <2> SUFFICES ASSUME NEW u \in Sessions
                 PROVE  LoginOnce(u)'
      OBVIOUS
    <2>1. LoginOnce(u)
      BY Parts
    <2>2. \A i : LoginAt(u, i)' <=> LoginAt(u, i)
      BY <1>1 DEF LoginAt
    <2>3. \A y \in Zones : HasLogin(y, u, "handle")' => HasLogin(y, u, "handle")
      BY LookDoes DEF HasLogin, OtherTicks
    <2>4. \A y \in Zones : HasLogin(y, u, "take")' => LoginAt(u, 1)'
      <3> SUFFICES ASSUME NEW y \in Zones, HasLogin(y, u, "take")'
                   PROVE  LoginAt(u, 1)
        BY <2>2
      <3>1. CASE y # z
        BY <2>1, <3>1, LookDoes DEF OtherTicks, HasLogin, LoginOnce
      <3>2. CASE y = z
        <4>1. u = tick[z].sid /\ recvedPackets[u] # <<>> /\ Head(recvedPackets[u]) = "login"
          BY <3>2, LookDoes DEF HasLogin
        <4>2. recvedPackets[u] \in Seq(Messages)
          BY Parts DEF SessionsOK
        <4> QED
          BY <4>1, <4>2 DEF LoginAt
      <3> QED
        BY <3>1, <3>2
    <2>5. (Known(u)' <=> Known(u)) /\ client' = client
      BY <1>1 DEF Known
    <2> QED
      BY <1>1, <2>1, <2>2, <2>3, <2>4, <2>5, TwoZones DEF LoginOnce
  <1> QED
    BY <1>1, <1>2, <1>4, <1>5, <1>7, <1>8, AllParts

\* A login is taken out of a queue by the lobby only: the echo zone looks at
\* sessions that have logged in.
LEMMA TakeLogins ==
  ASSUME EchoIInv, NEW z \in Zones, Take(z), UsersUnchanged
  PROVE  \A u \in Sessions : LoginOnce(u)'
PROOF
  <1> SUFFICES ASSUME NEW u \in Sessions
               PROVE  LoginOnce(u)'
    OBVIOUS
  <1>1. LoginOnce(u)
    BY Parts
  <1>2. (Known(u)' <=> Known(u)) /\ client' = client
    BY DEF Known, UsersUnchanged
  <1>3. CASE u # tick[z].sid
    BY <1>1, <1>2, <1>3, TakeDoes, LoginStays
       DEF LoginKept, HasLogin, OtherTicks, UsersUnchanged
  <1>4. CASE u = tick[z].sid
    <2>1. \A y \in Zones : y # z =>
            /\ HasLogin(y, u, "handle")' <=> HasLogin(y, u, "handle")
            /\ HasLogin(y, u, "take")' <=> HasLogin(y, u, "take")
      BY TakeDoes DEF HasLogin, OtherTicks
    <2>2. /\ ~HasLogin(z, u, "take")' /\ ~HasLogin(z, u, "handle")
          /\ HasLogin(z, u, "handle")' <=> tick'[z].msg = "login"
          /\ tick[z].msg = "login" => HasLogin(z, u, "take")
      BY <1>4, TakeDoes DEF HasLogin
    <2>3. tick[Echo].sid = u => Known(u)
      BY Parts DEF SessionIInv, InEcho
    <2> DEFINE q == recvedPackets[u]
               r == recvedPackets'[u]
    <2>4. q \in Seq(Messages)
      BY Parts DEF SessionsOK
    <2>5. CASE q # <<>> /\ tick'[z].msg = Head(q) /\ r = Tail(q)
      <3>1. /\ 1 \in DOMAIN q /\ q[1] = Head(q)
            /\ \A i \in DOMAIN r : i \in Nat /\ i + 1 \in DOMAIN q /\ r[i] = q[i + 1] /\ i + 1 # 1
        <4> HIDE DEF q, r
        <4> QED
          BY <2>4, <2>5
      <3>2. /\ \A i : LoginAt(u, i)' <=> i \in DOMAIN r /\ r[i] = "login"
            /\ \A i : LoginAt(u, i) <=> i \in DOMAIN q /\ q[i] = "login"
        BY DEF LoginAt
      <3> HIDE DEF q, r
      <3>3. \A i : LoginAt(u, i)' => i \in Nat /\ LoginAt(u, i + 1) /\ i + 1 # 1
        BY <3>1, <3>2
      <3>4. LoginAt(u, 1) <=> Head(q) = "login"
        BY <3>1, <3>2
      <3>4a. \A i : LoginAt(u, i) => i \in DOMAIN recvedPackets[u]
        BY DEF LoginAt
      <3>5. LoginAt(u, 1) => \A i : ~LoginAt(u, i)'
        BY <1>1, <3>3, <3>4a DEF LoginOnce
      <3>6. LoginAt(u, 1) => tick[Echo].sid # u
        BY <1>1, <2>3, <3>4a DEF LoginOnce
      <3>7. \A y \in Zones : ~HasLogin(y, u, "take")'
        <4> SUFFICES ASSUME NEW y \in Zones, HasLogin(y, u, "take")'
                     PROVE  FALSE
          OBVIOUS
        <4>1. y # z /\ HasLogin(y, u, "take")
          BY <2>1, <2>2
        <4>2. LoginAt(u, 1) /\ tick[y].sid = u /\ tick[z].sid = u
          BY <1>1, <1>4, <4>1 DEF LoginOnce, HasLogin
        <4> QED
          BY <3>6, <4>1, <4>2, TwoZones
      <3>8. HasLogin(z, u, "handle")' => z = Lobby /\ LoginAt(u, 1)
        <4>1. HasLogin(z, u, "handle")' => LoginAt(u, 1)
          BY <2>2, <2>5, <3>4
        <4> QED
          BY <1>4, <3>6, <4>1, TwoZones
      <3>9. ~HasLogin(Echo, u, "handle")'
        BY <1>1, <2>1, <3>8, TwoZones DEF LoginOnce
      <3>10. HasLogin(Lobby, u, "handle")' => LoginAt(u, 1) \/ HasLogin(Lobby, u, "handle")
        BY <2>1, <3>8, TwoZones
      <3>11. LoginAt(u, 1) => ~Known(u) /\ client[u] # "silent"
        BY <1>1, <3>4a DEF LoginOnce
      <3>12. \A i : LoginAt(u, i)' =>
                ~Known(u) /\ client[u] # "silent" /\ ~HasLogin(Lobby, u, "handle")
                /\ ~LoginAt(u, 1)
        BY <1>1, <3>3, <3>4a, <3>5 DEF LoginOnce
      <3>13. \A i, j : LoginAt(u, i)' /\ LoginAt(u, j)' => i = j
        <4> SUFFICES ASSUME NEW i, NEW j, LoginAt(u, i)', LoginAt(u, j)'
                     PROVE  i = j
          OBVIOUS
        <4>1. i \in Nat /\ j \in Nat /\ LoginAt(u, i + 1) /\ LoginAt(u, j + 1)
          BY <3>3
        <4>2. i + 1 = j + 1
          BY <1>1, <3>4a, <4>1 DEF LoginOnce
        <4> QED
          BY <4>1, <4>2
      <3> QED
        BY <1>1, <1>2, <3>7, <3>9, <3>10, <3>11, <3>12, <3>13 DEF LoginOnce
    <2>6. CASE q = <<>> /\ tick'[z].msg \in {tick[z].msg, Garbage} /\ r \in {<<>>, <<Garbage>>}
      <3>1. \A i : ~LoginAt(u, i)
        BY <2>6 DEF LoginAt
      <3>2. \A i : ~LoginAt(u, i)'
        <4>1. \A i \in DOMAIN r : r[i] = Garbage
          BY <2>6
        <4> QED
          BY <4>1 DEF LoginAt, Garbage
      <3>3. \A y \in Zones : ~HasLogin(y, u, "take")
        BY <1>1, <3>1 DEF LoginOnce
      <3>4. tick'[z].msg # "login"
        BY <2>2, <2>6, <3>3 DEF Garbage
      <3>5. ~HasLogin(z, u, "handle")'
        BY <2>2, <3>4
      <3>6. \A y \in Zones : /\ HasLogin(y, u, "handle")' => HasLogin(y, u, "handle")
                             /\ ~HasLogin(y, u, "take")'
        BY <2>1, <2>2, <3>3, <3>5
      <3> QED
        BY <1>1, <1>2, <3>2, <3>6, TwoZones DEF LoginOnce
    <2> QED
      BY <1>4, <2>5, <2>6, TakeDoes
  <1> QED
    BY <1>3, <1>4

LEMMA TakeKeeps ==
  ASSUME EchoIInv, NEW z \in Zones, Take(z), UsersUnchanged
  PROVE  EchoIInv'
PROOF
  <1>1. UNCHANGED <<zoneId, userPtr, isDisconnect, refs, leaving>>
        /\ UNCHANGED <<jobQueue, sessions, userMap, user, account, accountMap, client>>
        /\ OtherTicks(z) /\ TicksOK' /\ recvedPackets' \in [Sessions -> Seq(Messages)]
    BY TakeDoes DEF UsersUnchanged
  <1>2. QueuesOK' /\ MapsOK' /\ UsersOK'
    BY <1>1, UnchangedParts
  <1>3. SessionsOK'
    BY <1>1, Parts DEF SessionsOK
  <1>4. HoldsIn(z)'
    BY <1>1, TakeDoes DEF HoldsIn
  <1>5. TickHolds'
    BY <1>1, <1>2, <1>4, HoldsStill
  <1>6. LoginsKnown'
    BY <1>1, LoginsKnownKept
  <1>7. TickQuiet(z)
    BY TakeDoes DEF TickQuiet, MovePcs
  <1>8. \A u \in Sessions : SessionIInv(u)'
    BY <1>1, <1>7, QuietStep
  <1> QED
    BY <1>1, <1>2, <1>3, <1>5, <1>6, <1>8, TakeLogins, AllParts

LEMMA CutDoes ==
  ASSUME EchoIInv, NEW S, Disconnect(S)
  PROVE  /\ isDisconnect' \in [Sessions -> BOOLEAN]
         /\ \A u \in Sessions : isDisconnect'[u] <=> isDisconnect[u] \/ (u \in S /\ refs[u] # {})
  BY Parts DEF Disconnect, SessionsOK

\* A step of a tick that handles a message, ends the tick or cuts sessions
\* off, and changes nothing else.
LEMMA HandleKeeps ==
  ASSUME EchoIInv, NEW z \in Zones, TicksOK', OtherTicks(z), HoldsIn(z)', TickQuiet(z),
         isDisconnect' \in [Sessions -> BOOLEAN],
         \A u \in Sessions : isDisconnect[u] => isDisconnect'[u],
         \A u \in Sessions : \A l \in {"take", "handle"} : ~HasLogin(z, u, l)',
         UNCHANGED <<zoneId, userPtr, refs, recvedPackets, leaving, jobQueue, sessions,
                     userMap, user, account, accountMap>>,
         client' \in [Sessions -> {"silent", "waiting", "in", "asked"}],
         \A u \in Sessions : client[u] # "silent" => client'[u] # "silent"
  PROVE  EchoIInv'
PROOF
  <1>1. QueuesOK' /\ MapsOK'
    BY UnchangedParts
  <1>2. SessionsOK' /\ UsersOK'
    BY Parts DEF SessionsOK, UsersOK
  <1>3. TickHolds'
    BY <1>1, HoldsStill
  <1>4. LoginsKnown'
    BY LoginsKnownKept
  <1>5. \A u \in Sessions : SessionIInv(u)'
    BY QuietStep
  <1>6. \A u \in Sessions : LoginOnce(u)'
    <2> SUFFICES ASSUME NEW u \in Sessions
                 PROVE  LoginOnce(u)'
      OBVIOUS
    <2>1. \A y \in Zones : \A l \in {"take", "handle"} : HasLogin(y, u, l)' => HasLogin(y, u, l)
      BY DEF OtherTicks, HasLogin
    <2> QED
      BY <2>1, Parts, LoginStays DEF LoginKept
  <1> QED
    BY <1>1, <1>2, <1>3, <1>4, <1>5, <1>6, AllParts

LEMMA GotoDoes ==
  ASSUME EchoIInv, NEW z \in Zones, tick[z].pc = "handle", Goto(z, "look")
  PROVE  /\ TicksOK' /\ OtherTicks(z) /\ TickQuiet(z) /\ tick'[z].pc = "look"
         /\ tick'[z].sid = tick[z].sid
         /\ tick[z].sid \in Sessions /\ z \in refs[tick[z].sid]
         /\ (z \in refs'[tick[z].sid]) => HoldsIn(z)'
         /\ \A u \in Sessions : \A l \in {"take", "handle"} : ~HasLogin(z, u, l)'
PROOF
  <1>1. "look" \in TickPcs
    BY DEF TickPcs, HoldPcs
  <1>2. /\ TicksOK' /\ OtherTicks(z) /\ tick'[z].pc = "look" /\ tick'[z].sid = tick[z].sid
        /\ tick'[z].todo = tick[z].todo
    BY <1>1, Parts, GotoTypes DEF OtherTicks
  <1>3. tick[z].sid \in Sessions /\ z \in refs[tick[z].sid]
    BY Parts DEF TickHolds, HoldPcs
  <1> QED
    BY <1>2, <1>3 DEF TickQuiet, MovePcs, HoldsIn, HasLogin

LEMMA RefuseKeeps ==
  ASSUME EchoIInv, NEW z \in Zones, Refuse(z)
  PROVE  EchoIInv'
PROOF
  <1>1. /\ tick[z].pc = "handle" /\ Goto(z, "look") /\ Disconnect({tick[z].sid})
        /\ UNCHANGED <<zoneId, userPtr, refs, recvedPackets, leaving, jobQueue, sessions,
                     userMap, user, account, accountMap, client>>
    BY DEF Refuse
  <1>2. /\ isDisconnect' \in [Sessions -> BOOLEAN]
        /\ \A u \in Sessions : isDisconnect[u] => isDisconnect'[u]
    BY <1>1, CutDoes
  <1>3. /\ TicksOK' /\ OtherTicks(z) /\ TickQuiet(z) /\ HoldsIn(z)'
        /\ \A u \in Sessions : \A l \in {"take", "handle"} : ~HasLogin(z, u, l)'
    BY <1>1, GotoDoes
  <1>4. client' \in [Sessions -> {"silent", "waiting", "in", "asked"}]
    BY <1>1, Parts DEF UsersOK
  <1> QED
    BY <1>1, <1>2, <1>3, <1>4, HandleKeeps

LEMMA OnUpdateKeeps ==
  ASSUME EchoIInv, NEW z \in Zones, OnUpdate(z)
  PROVE  EchoIInv'
PROOF
  <1>1. /\ TickEnds(z) /\ \E S \in SUBSET userMap[z] : Disconnect(S)
        /\ UNCHANGED <<zoneId, userPtr, refs, recvedPackets, leaving, jobQueue, sessions,
                     userMap, user, account, accountMap, client>>
    BY DEF OnUpdate
  <1>2. /\ isDisconnect' \in [Sessions -> BOOLEAN]
        /\ \A u \in Sessions : isDisconnect[u] => isDisconnect'[u]
    BY <1>1, CutDoes
  <1>3. tick[z].pc = "receive" /\ TicksOK' /\ OtherTicks(z) /\ tick'[z] = Idle
    BY <1>1, TickEndsDoes
  <1>4. /\ tick'[z].pc = "idle" /\ tick'[z].sid = NoSession /\ tick'[z].todo = {}
    BY <1>3 DEF Idle
  <1>5. TickQuiet(z) /\ HoldsIn(z)'
    BY <1>3, <1>4, MembersAssumption DEF TickQuiet, HoldsIn, HoldPcs, MovePcs
  <1>6. \A u \in Sessions : \A l \in {"take", "handle"} : ~HasLogin(z, u, l)'
    BY <1>4 DEF HasLogin
  <1>7. client' \in [Sessions -> {"silent", "waiting", "in", "asked"}]
    BY <1>1, Parts DEF UsersOK
  <1> QED
    BY <1>1, <1>2, <1>3, <1>5, <1>6, <1>7, HandleKeeps

LEMMA AnswerDoes ==
  ASSUME EchoIInv, NEW s \in Sessions, Answer(s)
  PROVE  /\ client' \in [Sessions -> {"silent", "waiting", "in", "asked"}]
         /\ \A u \in Sessions : client[u] # "silent" => client'[u] # "silent"
  BY Parts DEF UsersOK, Answer

LEMMA RequestEchoKeeps ==
  ASSUME EchoIInv, RequestEcho
  PROVE  EchoIInv'
PROOF
  <1>1. /\ tick[Echo].pc = "handle" /\ Goto(Echo, "look") /\ Answer(tick[Echo].sid)
        /\ UNCHANGED <<zoneId, userPtr, isDisconnect, refs, recvedPackets, leaving, jobQueue,
                     sessions, userMap, user, account, accountMap>>
    BY DEF RequestEcho, Handles, sessionVars
  <1>2. /\ TicksOK' /\ OtherTicks(Echo) /\ TickQuiet(Echo) /\ HoldsIn(Echo)'
        /\ tick[Echo].sid \in Sessions
        /\ \A u \in Sessions : \A l \in {"take", "handle"} : ~HasLogin(Echo, u, l)'
    BY <1>1, GotoDoes, TwoZones
  <1>3. /\ client' \in [Sessions -> {"silent", "waiting", "in", "asked"}]
        /\ \A u \in Sessions : client[u] # "silent" => client'[u] # "silent"
    BY <1>1, <1>2, AnswerDoes
  <1>4. isDisconnect' \in [Sessions -> BOOLEAN]
    BY <1>1, Parts DEF SessionsOK
  <1> QED
    BY <1>1, <1>2, <1>3, <1>4, HandleKeeps, TwoZones

-----------------------------------------------------------------------------
(* Steps outside the ticks.                                                 *)

LEMMA TicksUnchanged ==
  ASSUME EchoIInv, tick' = tick
  PROVE  TicksOK' /\ \A u \in Sessions : SameTicks(u)
  BY Parts DEF TicksOK, SameTicks, AtMove, Moving

\* What zones hold stays when queues do not get shorter and no zone gives
\* back a reference.
LEMMA HoldsOutside ==
  ASSUME EchoIInv, QueuesOK',
         \A z \in Zones : /\ tick'[z].pc \in {"jobs"} \cup HoldPcs => tick'[z] = tick[z]
                          /\ Len(jobQueue'[z]) >= Len(jobQueue[z]),
         \A z \in Zones, s \in Sessions : z \in refs[s] => z \in refs'[s]
  PROVE  TickHolds'
PROOF
  <1> SUFFICES ASSUME NEW z \in Zones
               PROVE  HoldsIn(z)'
    BY DEF TickHolds, HoldsIn
  <1>1. /\ tick[z].pc = "jobs" => tick[z].left <= Len(jobQueue[z])
        /\ tick[z].pc \in HoldPcs => tick[z].sid \in Sessions /\ z \in refs[tick[z].sid]
    BY Parts DEF TickHolds
  <1>2. tick'[z].pc = "jobs" => tick'[z].left <= Len(jobQueue'[z])
    <2> SUFFICES ASSUME tick'[z].pc = "jobs" PROVE tick'[z].left <= Len(jobQueue'[z])
      OBVIOUS
    <2>1. tick'[z] = tick[z] /\ tick[z].left <= Len(jobQueue[z])
      BY <1>1
    <2>2. tick[z].left \in Nat
      BY Parts, TickFields DEF TicksOK
    <2>3. Len(jobQueue[z]) \in Nat /\ Len(jobQueue'[z]) \in Nat
      BY Parts, Queues DEF QueuesOK
    <2>4. tick[z].left <= Len(jobQueue'[z])
      BY <2>1, <2>2, <2>3
    <2> QED
      BY <2>1, <2>4
  <1>3. tick'[z].pc \in HoldPcs => tick'[z].sid \in Sessions /\ z \in refs'[tick'[z].sid]
    BY <1>1
  <1> QED
    BY <1>2, <1>3 DEF HoldsIn

LEMMA LensStay ==
  ASSUME EchoIInv, jobQueue' = jobQueue
  PROVE  \A z \in Zones : Len(jobQueue'[z]) >= Len(jobQueue[z])
PROOF
  <1> SUFFICES ASSUME NEW z \in Zones PROVE Len(jobQueue'[z]) >= Len(jobQueue[z])
    OBVIOUS
  <1>1. Len(jobQueue[z]) \in Nat
    BY Parts, Queues
  <1> QED
    BY <1>1

LEMMA Appended ==
  ASSUME NEW q \in Seq(Messages), NEW m \in Messages
  PROVE  /\ Append(q, m) \in Seq(Messages)
         /\ Len(q) + 1 \notin DOMAIN q
         /\ \A i : i \in DOMAIN Append(q, m) <=> i \in DOMAIN q \/ i = Len(q) + 1
         /\ \A i \in DOMAIN q : Append(q, m)[i] = q[i]
         /\ Append(q, m)[Len(q) + 1] = m
PROOF
  <1>1. Append(q, m) \in Seq(Messages)
    OBVIOUS
  <1>2. /\ Len(q) \in Nat /\ DOMAIN q = 1 .. Len(q) /\ DOMAIN Append(q, m) = 1 .. Len(q) + 1
        /\ \A i \in DOMAIN q : Append(q, m)[i] = q[i]
        /\ Append(q, m)[Len(q) + 1] = m
    OBVIOUS
  <1> DEFINE n == Len(q)
             d == DOMAIN q
             e == DOMAIN Append(q, m)
  <1>3. n + 1 \notin d /\ \A i : i \in e <=> i \in d \/ i = n + 1
    <2>1. n \in Nat /\ d = 1 .. n /\ e = 1 .. n + 1
      BY <1>2
    <2> HIDE DEF n, d, e
    <2> QED
      BY <2>1
  <1> QED
    BY <1>1, <1>2, <1>3

LEMMA ClientSendsKeeps ==
  ASSUME EchoIInv, NEW s \in Sessions, SendLogin(s) \/ SendEcho(s)
  PROVE  EchoIInv'
PROOF
  <1>1. PICK before, after, m :
          /\ ClientSends(s, before, after, m)
          /\ \/ before = "silent" /\ after = "waiting" /\ m = "login"
             \/ before = "in" /\ after = "asked" /\ m = "echo"
    BY DEF SendLogin, SendEcho
  <1>2. /\ client[s] = before /\ client' = [client EXCEPT ![s] = after]
        /\ recvedPackets' = [recvedPackets EXCEPT ![s] = Append(@, m)]
        /\ UNCHANGED <<zoneId, userPtr, isDisconnect, refs, leaving>>
        /\ UNCHANGED <<jobQueue, sessions, tick, userMap, user, account, accountMap>>
    BY <1>1 DEF ClientSends, Received
  <1>3. m \in Messages /\ after \in {"waiting", "asked"}
    BY <1>1 DEF Messages
  <1> DEFINE q == recvedPackets[s]
             r == recvedPackets'[s]
  <1>4. q \in Seq(Messages) /\ Append(q, m) \in Seq(Messages)
    BY <1>3, Parts DEF SessionsOK
  <1>5. /\ recvedPackets' \in [Sessions -> Seq(Messages)] /\ r = Append(q, m)
        /\ client' \in [Sessions -> {"silent", "waiting", "in", "asked"}] /\ client'[s] = after
        /\ \A u \in Sessions : u # s => /\ recvedPackets'[u] = recvedPackets[u]
                                        /\ client'[u] = client[u]
    BY <1>2, <1>3, <1>4, Parts DEF SessionsOK, UsersOK
  <1>6. SessionsOK' /\ UsersOK' /\ QueuesOK' /\ MapsOK' /\ TicksOK'
    BY <1>2, <1>5, Parts DEF SessionsOK, UsersOK, QueuesOK, MapsOK, TicksOK
  <1>7. TickHolds'
    BY <1>2, <1>6, LensStay, HoldsOutside
  <1>8. LoginsKnown'
    BY <1>2, LoginsKnownKept
  <1>9. \A u \in Sessions : SessionIInv(u)'
    <2> SUFFICES ASSUME NEW u \in Sessions
                 PROVE  SessionIInv(u)'
      OBVIOUS
    <2>1. SameSession(u)
      BY <1>2 DEF SameSession
    <2> QED
      BY <1>2, <2>1, TicksUnchanged, MembersUnchanged, QueuesUnchanged, Parts, Bystander DEF Same
  <1>10. \A u \in Sessions : u # s => LoginOnce(u)'
    BY <1>2, <1>5, Parts, LoginStays DEF LoginKept, HasLogin
  <1>11. LoginOnce(s)'
    <2>1. LoginOnce(s)
      BY Parts
    <2>2. \A y \in Zones : /\ HasLogin(y, s, "handle")' <=> HasLogin(y, s, "handle")
                           /\ HasLogin(y, s, "take")' <=> HasLogin(y, s, "take")
      BY <1>2 DEF HasLogin
    <2>3. (Known(s)' <=> Known(s)) /\ client'[s] # "silent"
      BY <1>2, <1>3, <1>5 DEF Known
    <2>4. /\ \A i : LoginAt(s, i)' <=> i \in DOMAIN r /\ r[i] = "login"
          /\ \A i : LoginAt(s, i) <=> i \in DOMAIN q /\ q[i] = "login"
      BY DEF LoginAt
    <2>5. /\ Len(q) + 1 \notin DOMAIN q
          /\ \A i : i \in DOMAIN r <=> i \in DOMAIN q \/ i = Len(q) + 1
          /\ \A i \in DOMAIN q : r[i] = q[i]
          /\ r[Len(q) + 1] = m
      BY <1>3, <1>4, <1>5, Appended
    <2> DEFINE n == Len(q) + 1
    <2> HIDE DEF q, r, n
    <2>6. \A i : LoginAt(s, i)' <=> LoginAt(s, i) \/ (i = n /\ m = "login")
      BY <2>4, <2>5 DEF n
    <2>7. \A i : LoginAt(s, i) => i \in DOMAIN recvedPackets[s]
      BY DEF LoginAt
    <2>8. CASE m = "login"
      <3>1. client[s] = "silent"
        BY <1>1, <1>2, <2>8
      <3>2. \A i : ~LoginAt(s, i)
        BY <2>1, <2>7, <3>1 DEF LoginOnce
      <3>3. ~Known(s) /\ ~HasLogin(Lobby, s, "handle")
            /\ \A y \in Zones : ~HasLogin(y, s, "take")
        BY <2>1, <3>1, <3>2 DEF LoginOnce
      <3> QED
        BY <2>1, <2>2, <2>3, <2>6, <3>2, <3>3, TwoZones DEF LoginOnce
    <2>9. CASE m # "login"
      <3>1. \A i : LoginAt(s, i)' <=> LoginAt(s, i)
        BY <2>6, <2>9
      <3> QED
        BY <2>1, <2>2, <2>3, <2>7, <3>1, TwoZones DEF LoginOnce
    <2> QED
      BY <2>8, <2>9
  <1> QED
    BY <1>6, <1>7, <1>8, <1>9, <1>10, <1>11, AllParts

-----------------------------------------------------------------------------
(* Jobs of one session.                                                     *)

LEMMA NotMine ==
  ASSUME NEW x, NEW u, x.sid # u
  PROVE  ~IsEnter(x, u) /\ ~IsDelete(x, u) /\ ~IsForget(x, u) /\ \A a : ~IsAccount(x, u, a)
  BY DEF IsEnter, IsDelete, IsForget, IsAccount, LeaveJob

LEMMA PushOther ==
  ASSUME NEW q \in Seq(Jobs), NEW x \in Jobs, NEW u, x.sid # u
  PROVE  SameJobs(q, Append(q, x), u)
PROOF
  <1> DEFINE r == Append(q, x)
  <1>1. ~IsEnter(x, u) /\ ~IsDelete(x, u) /\ ~IsForget(x, u) /\ \A a : ~IsAccount(x, u, a)
    BY NotMine
  <1>2. /\ HasEnter(r, u) <=> HasEnter(q, u) \/ IsEnter(x, u)
        /\ HasDelete(r, u) <=> HasDelete(q, u) \/ IsDelete(x, u)
        /\ HasForget(r, u) <=> HasForget(q, u) \/ IsForget(x, u)
        /\ \A a : HasAccount(r, u, a) <=> HasAccount(q, u, a) \/ IsAccount(x, u, a)
        /\ LastIsDelete(q, u) /\ (HasDelete(q, u) => ~IsDelete(x, u) /\ ~IsEnter(x, u))
             => LastIsDelete(r, u)
        /\ OneEnter(q, u) /\ ~(HasEnter(q, u) /\ IsEnter(x, u)) => OneEnter(r, u)
    BY Pushed DEF PushedFacts
  <1> QED
    BY <1>1, <1>2 DEF SameJobs

LEMMA PopOther ==
  ASSUME NEW q \in Seq(Jobs), q # <<>>, NEW u, Head(q).sid # u
  PROVE  SameJobs(q, Tail(q), u)
PROOF
  <1> DEFINE r == Tail(q)
             x == Head(q)
  <1>1. ~IsEnter(x, u) /\ ~IsDelete(x, u) /\ ~IsForget(x, u) /\ \A a : ~IsAccount(x, u, a)
    BY NotMine
  <1>2. /\ HasEnter(q, u) <=> HasEnter(r, u) \/ IsEnter(x, u)
        /\ HasDelete(q, u) <=> HasDelete(r, u) \/ IsDelete(x, u)
        /\ HasForget(q, u) <=> HasForget(r, u) \/ IsForget(x, u)
        /\ \A a : HasAccount(q, u, a) <=> HasAccount(r, u, a) \/ IsAccount(x, u, a)
        /\ LastIsDelete(q, u) => LastIsDelete(r, u)
        /\ OneEnter(q, u) => OneEnter(r, u)
    BY Popped DEF PoppedFacts
  <1> QED
    BY <1>1, <1>2 DEF SameJobs

LEMMA SameAsItself ==
  ASSUME NEW q, NEW u
  PROVE  SameJobs(q, q, u)
  BY DEF SameJobs

\* The kinds of jobs exclude each other.
LEMMA Kinds ==
  ASSUME NEW s \in Sessions, NEW u, NEW b \in BOOLEAN, NEW a \in Accounts
  PROVE  /\ IsEnter(EnterJob(s, b), u) <=> u = s
         /\ ~IsDelete(EnterJob(s, b), u) /\ ~IsForget(EnterJob(s, b), u)
         /\ \A c : ~IsAccount(EnterJob(s, b), u, c)
         /\ ~IsEnter(LeaveJob(s, b), u)
         /\ IsDelete(LeaveJob(s, b), u) <=> u = s /\ b
         /\ IsForget(LeaveJob(s, b), u) <=> u = s /\ ~b
         /\ \A c : ~IsAccount(LeaveJob(s, b), u, c)
         /\ ~IsEnter([kind |-> "account", sid |-> s, account |-> a], u)
         /\ ~IsDelete([kind |-> "account", sid |-> s, account |-> a], u)
         /\ ~IsForget([kind |-> "account", sid |-> s, account |-> a], u)
         /\ \A c : IsAccount([kind |-> "account", sid |-> s, account |-> a], u, c)
                     <=> u = s /\ c = a
PROOF
  <1>1. /\ IsEnter(EnterJob(s, b), u) <=> u = s
        /\ ~IsEnter(LeaveJob(s, b), u)
        /\ ~IsEnter([kind |-> "account", sid |-> s, account |-> a], u)
    BY DEF IsEnter, EnterJob, LeaveJob
  <1>2. /\ ~IsDelete(EnterJob(s, b), u) /\ ~IsForget(EnterJob(s, b), u)
        /\ ~IsDelete([kind |-> "account", sid |-> s, account |-> a], u)
        /\ ~IsForget([kind |-> "account", sid |-> s, account |-> a], u)
    <2>1. /\ EnterJob(s, b).kind = "enter" /\ LeaveJob(u, TRUE).kind = "leave"
          /\ LeaveJob(u, FALSE).kind = "leave"
          /\ [kind |-> "account", sid |-> s, account |-> a].kind = "account"
      BY DEF EnterJob, LeaveJob
    <2> QED
      BY <2>1 DEF IsDelete, IsForget
  <1>3. /\ \A c : ~IsAccount(EnterJob(s, b), u, c)
        /\ \A c : ~IsAccount(LeaveJob(s, b), u, c)
    <2>1. /\ EnterJob(s, b).kind = "enter" /\ LeaveJob(s, b).kind = "leave"
          /\ \A c : [kind |-> "account", sid |-> u, account |-> c].kind = "account"
      BY DEF EnterJob, LeaveJob
    <2> QED
      BY <2>1 DEF IsAccount
  <1>4. /\ IsDelete(LeaveJob(s, b), u) <=> u = s /\ b
        /\ IsForget(LeaveJob(s, b), u) <=> u = s /\ ~b
    <2>1. /\ LeaveJob(s, b).sid = s /\ LeaveJob(s, b).delete = b
          /\ LeaveJob(u, TRUE).sid = u /\ LeaveJob(u, TRUE).delete = TRUE
          /\ LeaveJob(u, FALSE).sid = u /\ LeaveJob(u, FALSE).delete = FALSE
      BY DEF LeaveJob
    <2>2. CASE b = TRUE
      BY <2>1, <2>2 DEF IsDelete, IsForget
    <2>3. CASE b = FALSE
      BY <2>1, <2>3 DEF IsDelete, IsForget
    <2> QED
      BY <2>2, <2>3
  <1>5. \A c : IsAccount([kind |-> "account", sid |-> s, account |-> a], u, c) <=> u = s /\ c = a
    <2> SUFFICES ASSUME NEW c
                 PROVE  IsAccount([kind |-> "account", sid |-> s, account |-> a], u, c)
                           <=> u = s /\ c = a
      OBVIOUS
    <2> DEFINE x == [kind |-> "account", sid |-> s, account |-> a]
               y == [kind |-> "account", sid |-> u, account |-> c]
    <2>1. x.sid = s /\ x.account = a /\ y.sid = u /\ y.account = c /\ (u = s /\ c = a => x = y)
      OBVIOUS
    <2>2. x = y <=> u = s /\ c = a
      <3> HIDE DEF x, y
      <3> QED
        BY <2>1
    <2> QED
      BY <2>2 DEF IsAccount
  <1> QED
    BY <1>1, <1>2, <1>3, <1>4, <1>5

\* What a job for s, pushed to the queue of z, means for s and for others.
LEMMA PushJobs ==
  ASSUME EchoIInv, NEW z \in Zones, NEW x \in Jobs, NEW s, x.sid = s,
         jobQueue' = [jobQueue EXCEPT ![z] = Append(@, x)]
  PROVE  /\ \A u : u # s => SameQueues(u)
         /\ \A y \in Zones : y # z => jobQueue'[y] = jobQueue[y]
         /\ \A y \in Zones : Len(jobQueue'[y]) >= Len(jobQueue[y])
         /\ PushedFacts(jobQueue[z], x, jobQueue'[z], s)
PROOF
  <1>1. QueuesOK /\ jobQueue[z] \in Seq(Jobs)
    BY Parts, Queues
  <1>2. /\ jobQueue'[z] = Append(jobQueue[z], x)
        /\ \A y \in Zones : y # z => jobQueue'[y] = jobQueue[y]
        /\ \A y \in Zones : Len(jobQueue'[y]) >= Len(jobQueue[y])
    BY <1>1, PushDoes
  <1>3. \A u : u # s => SameQueues(u)
    <2> SUFFICES ASSUME NEW u, u # s, NEW y \in Zones
                 PROVE  SameJobs(jobQueue[y], jobQueue'[y], u)
      BY DEF SameQueues
    <2>1. CASE y = z
      BY <1>1, <1>2, <2>1, PushOther
    <2>2. CASE y # z
      BY <1>2, <2>2, SameAsItself
    <2> QED
      BY <2>1, <2>2
  <1>4. PushedFacts(jobQueue[z], x, jobQueue'[z], s)
    BY <1>1, <1>2, Pushed
  <1> QED
    BY <1>2, <1>3, <1>4

\* What the job a zone runs was for its session, and is for others.
LEMMA PopJobs ==
  ASSUME EchoIInv, NEW z \in Zones, NEW s, jobQueue[z] # <<>>, Head(jobQueue[z]).sid = s,
         jobQueue' = [jobQueue EXCEPT ![z] = Tail(@)]
  PROVE  /\ \A u : u # s => SameQueues(u)
         /\ \A y \in Zones : y # z => jobQueue'[y] = jobQueue[y]
         /\ PoppedFacts(jobQueue[z], Head(jobQueue[z]), jobQueue'[z], s)
PROOF
  <1>1. QueuesOK /\ jobQueue[z] \in Seq(Jobs)
    BY Parts, Queues
  <1>2. /\ jobQueue'[z] = Tail(jobQueue[z])
        /\ \A y \in Zones : y # z => jobQueue'[y] = jobQueue[y]
    BY <1>1, PopDoes
  <1>3. \A u : u # s => SameQueues(u)
    <2> SUFFICES ASSUME NEW u, u # s, NEW y \in Zones
                 PROVE  SameJobs(jobQueue[y], jobQueue'[y], u)
      BY DEF SameQueues
    <2>1. CASE y = z
      BY <1>1, <1>2, <2>1, PopOther
    <2>2. CASE y # z
      BY <1>2, <2>2, SameAsItself
    <2> QED
      BY <2>1, <2>2
  <1>4. PoppedFacts(jobQueue[z], Head(jobQueue[z]), jobQueue'[z], s)
    BY <1>1, <1>2, Popped
  <1> QED
    BY <1>2, <1>3, <1>4

\* The invariant of a session, and what it says of one that is not accepted.
LEMMA NotAccepted ==
  ASSUME EchoIInv, NEW s \in Sessions, refs[s] = {}, ~isDisconnect[s]
  PROVE  /\ zoneId[s] = NoZone /\ ~userPtr[s] /\ leaving[s] = NoZone /\ user[s] = "none"
         /\ ~Known(s) /\ ~Moving(s) /\ ~AtMove(s, MovePcs)
         /\ \A z \in Zones : /\ ~HasDelete(jobQueue[z], s) /\ ~HasEnter(jobQueue[z], s)
                             /\ ~Home(z, s) /\ s \notin sessions[z] \cup userMap[z]
         /\ ~HasForget(jobQueue[Lobby], s)
         /\ \A a \in Accounts : ~HasAccount(jobQueue[Lobby], s, a) /\ accountMap[a] # s
         /\ s \notin tick[Echo].todo /\ tick[Echo].sid # s
PROOF
  <1>1. References(s) /\ OneDeparture(s) /\ InLobby(s) /\ InEcho(s) /\ AccountsGivenBack(s)
    BY Parts DEF SessionIInv
  <1>2. ~Accepted(s) /\ ~Gone(s)
    BY DEF Accepted, Gone
  <1>3. /\ zoneId[s] = NoZone /\ ~userPtr[s] /\ leaving[s] = NoZone /\ user[s] = "none" /\ ~Known(s)
        /\ \A z \in Zones : ~HasDelete(jobQueue[z], s)
        /\ \A a \in Accounts : ~HasAccount(jobQueue[Lobby], s, a)
        /\ ~HasEnter(jobQueue[Lobby], s)
    BY <1>1, <1>2 DEF References
  <1>4. \A z \in Zones : ~Home(z, s)
    BY <1>3, MembersAssumption DEF Home
  <1>5. /\ ~AtMove(s, MovePcs) /\ ~HasForget(jobQueue[Lobby], s)
        /\ s \notin tick[Echo].todo /\ tick[Echo].sid # s
    BY <1>1, <1>3 DEF InEcho
  <1>6. ~Moving(s)
    BY <1>5 DEF Moving, AtMove, MovePcs
  <1>7. \A z \in Zones : ~HasEnter(jobQueue[z], s) /\ s \notin sessions[z] \cup userMap[z]
    BY <1>1, <1>3, <1>4, <1>5, <1>6, TwoZones DEF InLobby, InEcho
  <1>8. \A a \in Accounts : accountMap[a] # s
    BY <1>1, <1>3, <1>4, TwoZones DEF AccountsGivenBack
  <1> QED
    BY <1>3, <1>4, <1>5, <1>6, <1>7, <1>8

LEMMA OnAcceptKeeps ==
  ASSUME EchoIInv, NEW s \in Sessions, OnAccept(s)
  PROVE  EchoIInv'
PROOF
  <1>1. /\ refs[s] = {} /\ ~isDisconnect[s]
        /\ refs' = [refs EXCEPT ![s] = {Receive}] /\ zoneId' = [zoneId EXCEPT ![s] = Lobby]
        /\ jobQueue' = [jobQueue EXCEPT ![Lobby] = Append(@, EnterJob(s, userPtr[s]))]
        /\ UNCHANGED <<userPtr, isDisconnect, recvedPackets, leaving, sessions, tick>>
        /\ UNCHANGED <<userMap, user, account, accountMap, client>>
    BY DEF OnAccept, EnterZone, PushJob
  <1>2. ~userPtr[s] /\ userPtr[s] \in BOOLEAN
    BY <1>1, NotAccepted, Parts DEF SessionsOK
  <1> DEFINE x == EnterJob(s, FALSE)
  <1>3. jobQueue' = [jobQueue EXCEPT ![Lobby] = Append(@, x)]
    BY <1>1, <1>2
  <1>4. x \in LobbyJobs /\ x \in Jobs /\ x.sid = s
    BY JobFields DEF Jobs, EnterJob, EnterJobs, LobbyJobs
  <1>5. IsEnter(x, s) /\ ~IsDelete(x, s) /\ ~IsForget(x, s) /\ \A a : ~IsAccount(x, s, a)
    <2>1. Accounts = {} \/ \E a : a \in Accounts
      OBVIOUS
    <2>2. IsEnter(x, s)
      BY DEF IsEnter, EnterJob
    <2>3. x.kind = "enter" /\ LeaveJob(s, TRUE).kind = "leave" /\ LeaveJob(s, FALSE).kind = "leave"
      BY DEF EnterJob, LeaveJob
    <2>4. \A a : [kind |-> "account", sid |-> s, account |-> a].kind = "account"
      OBVIOUS
    <2> HIDE DEF x
    <2> QED
      BY <2>2, <2>3, <2>4 DEF IsDelete, IsForget, IsAccount
  <1> HIDE DEF x
  <1>6. /\ refs'[s] = {Receive} /\ zoneId'[s] = Lobby
        /\ refs' \in [Sessions -> SUBSET (Zones \cup {Receive})]
        /\ zoneId' \in [Sessions -> Zones \cup {NoZone}]
        /\ \A u \in Sessions : u # s => refs'[u] = refs[u] /\ zoneId'[u] = zoneId[u]
    BY <1>1, Parts, TwoZones DEF SessionsOK
  <1>7. QueuesOK'
    BY <1>3, <1>4, Parts, QueuesPush, TwoZones
  <1>8. SessionsOK' /\ MapsOK' /\ TicksOK' /\ UsersOK'
    BY <1>1, <1>6, Parts DEF SessionsOK, MapsOK, TicksOK, UsersOK
  <1>9. /\ \A u : u # s => SameQueues(u)
        /\ \A y \in Zones : y # Lobby => jobQueue'[y] = jobQueue[y]
        /\ \A y \in Zones : Len(jobQueue'[y]) >= Len(jobQueue[y])
        /\ PushedFacts(jobQueue[Lobby], x, jobQueue'[Lobby], s)
    BY <1>3, <1>4, PushJobs, TwoZones
  <1>10. TickHolds'
    <2>1. \A z \in Zones, u \in Sessions : z \in refs[u] => z \in refs'[u]
      BY <1>1, <1>6
    <2> QED
      BY <1>1, <1>7, <1>9, <2>1, HoldsOutside
  <1>11. LoginsKnown'
    BY <1>1, LoginsKnownKept
  <1>12. \A u \in Sessions : LoginOnce(u)'
    BY <1>1, LoginsStay DEF HasLogin
  <1>13. \A u \in Sessions : u # s => SessionIInv(u)'
    <2> SUFFICES ASSUME NEW u \in Sessions, u # s
                 PROVE  SessionIInv(u)'
      OBVIOUS
    <2>1. SameSession(u)
      BY <1>1, <1>6 DEF SameSession
    <2> QED
      BY <1>1, <1>9, <2>1, TicksUnchanged, MembersUnchanged, Parts, Bystander DEF Same
  <1>14. SessionIInv(s)'
    <2>1. References(s) /\ OneDeparture(s) /\ InLobby(s) /\ InEcho(s) /\ AccountsGivenBack(s)
      BY Parts DEF SessionIInv
    <2>2. /\ zoneId[s] = NoZone /\ ~userPtr[s] /\ leaving[s] = NoZone /\ user[s] = "none"
          /\ ~Known(s) /\ ~Moving(s) /\ ~AtMove(s, MovePcs)
          /\ \A z \in Zones : /\ ~HasDelete(jobQueue[z], s) /\ ~HasEnter(jobQueue[z], s)
                              /\ ~Home(z, s) /\ s \notin sessions[z] \cup userMap[z]
          /\ ~HasForget(jobQueue[Lobby], s)
          /\ \A a \in Accounts : ~HasAccount(jobQueue[Lobby], s, a) /\ accountMap[a] # s
          /\ s \notin tick[Echo].todo /\ tick[Echo].sid # s
      BY <1>1, NotAccepted
    <2>3. /\ \A z \in Zones : ~HasDelete(jobQueue'[z], s)
          /\ \A a \in Accounts : ~HasAccount(jobQueue'[Lobby], s, a)
          /\ ~HasForget(jobQueue'[Lobby], s) /\ ~HasEnter(jobQueue'[Echo], s)
      BY <1>5, <1>9, <2>2, TwoZones DEF PushedFacts
    <2>4. ~Known(s)' /\ ~AtMove(s, MovePcs)' /\ ~Moving(s)' /\ ~AtMove(s, {"move"})'
      BY <1>1, <2>2 DEF Known, AtMove, Moving, MovePcs
    <2>5. \A z \in Zones : Home(z, s)' <=> z = Lobby
      BY <1>1, <1>6, <2>2, <2>3, MembersAssumption DEF Home
    <2>6. Accepted(s)'
      BY <1>6 DEF Accepted
    <2>7. References(s)'
      BY <1>1, <1>6, <2>2, <2>3, <2>4, <2>6, TwoZones, MembersAssumption DEF References
    <2>8. OneDeparture(s)'
      <3>1. LastIsDelete(jobQueue[Lobby], s) /\ LastIsDelete(jobQueue[Echo], s)
        BY <2>1, TwoZones DEF OneDeparture
      <3>2. \A z \in Zones : LastIsDelete(jobQueue'[z], s)
        BY <1>9, <2>2, <3>1, TwoZones DEF PushedFacts
      <3> QED
        BY <1>1, <2>2, <2>3, <3>2, TwoZones DEF OneDeparture
    <2>9. InLobby(s)'
      <3>1. OneEnter(jobQueue[Lobby], s)
        BY <2>2, TwoZones DEF HasEnter, OneEnter
      <3>2. OneEnter(jobQueue'[Lobby], s)
        BY <1>9, <2>2, <3>1, TwoZones DEF PushedFacts
      <3> QED
        BY <1>1, <2>2, <2>4, <2>5, <3>2, TwoZones DEF InLobby
    <2>10. InEcho(s)'
      BY <1>1, <2>2, <2>3, <2>4, <2>5, TwoZones DEF InEcho
    <2>11. AccountsGivenBack(s)'
      BY <1>1, <2>2 DEF AccountsGivenBack
    <2> QED
      BY <2>7, <2>8, <2>9, <2>10, <2>11 DEF SessionIInv
  <1>15. \A u \in Sessions : SessionIInv(u)'
    BY <1>13, <1>14
  <1> QED
    BY <1>7, <1>8, <1>10, <1>11, <1>12, <1>15, AllParts

\* A session that holds a reference has not begun to depart.
LEMMA Held ==
  ASSUME EchoIInv, NEW s \in Sessions, refs[s] # {}
  PROVE  /\ zoneId[s] # NoZone /\ leaving[s] = NoZone /\ user[s] # "freed"
         /\ \A z \in Zones : ~HasDelete(jobQueue[z], s) /\ (Home(z, s) <=> zoneId[s] = z)
         /\ \A a \in Accounts : ~HasAccount(jobQueue[Lobby], s, a)
         /\ Receive \notin refs[s] => isDisconnect[s]
         /\ Accepted(s)
PROOF
  <1>1. References(s)
    BY Parts DEF SessionIInv
  <1>2. ~Gone(s) /\ Accepted(s)
    BY DEF Gone, Accepted
  <1>3. /\ zoneId[s] # NoZone /\ leaving[s] = NoZone /\ user[s] # "freed"
        /\ \A z \in Zones : ~HasDelete(jobQueue[z], s)
        /\ \A a \in Accounts : ~HasAccount(jobQueue[Lobby], s, a)
        /\ Receive \notin refs[s] => isDisconnect[s]
    BY <1>1, <1>2 DEF References
  <1>4. \A z \in Zones : Home(z, s) <=> zoneId[s] = z
    BY <1>3, MembersAssumption DEF Home
  <1> QED
    BY <1>2, <1>3, <1>4

LEMMA GiveBackSession ==
  ASSUME EchoIInv, NEW s \in Sessions, NEW r \in refs[s], GiveBack(s, r),
         isDisconnect[s] => isDisconnect'[s], r = Receive => isDisconnect'[s],
         UNCHANGED <<jobQueue, sessions, userMap, user, account, accountMap>>,
         SameTicks(s), refs[s] = {r} => ~AtMove(s, MovePcs)'
  PROVE  SessionIInv(s)'
PROOF
  <1>1. References(s) /\ OneDeparture(s) /\ InLobby(s) /\ InEcho(s) /\ AccountsGivenBack(s)
    BY Parts DEF SessionIInv
  <1>2. /\ zoneId[s] # NoZone /\ leaving[s] = NoZone /\ user[s] # "freed"
        /\ \A z \in Zones : ~HasDelete(jobQueue[z], s) /\ (Home(z, s) <=> zoneId[s] = z)
        /\ \A a \in Accounts : ~HasAccount(jobQueue[Lobby], s, a)
        /\ Receive \notin refs[s] => isDisconnect[s]
    BY Held
  <1>3. /\ refs'[s] = refs[s] \ {r}
        /\ \/ /\ refs[s] = {r} /\ refs'[s] = {} /\ zoneId'[s] = NoZone /\ userPtr'[s] = FALSE
              /\ leaving'[s] = zoneId[s]
           \/ /\ refs[s] # {r} /\ refs'[s] # {} /\ zoneId'[s] = zoneId[s]
              /\ userPtr'[s] = userPtr[s] /\ leaving'[s] = leaving[s]
    BY GiveBackDoes
  <1>4. Known(s)' <=> Known(s)
    BY DEF Known
  <1>5. /\ Moving(s)' <=> Moving(s)
        /\ AtMove(s, MovePcs)' <=> AtMove(s, MovePcs)
        /\ AtMove(s, {"move"})' <=> AtMove(s, {"move"})
        /\ AtMove(s, {"moveEnter"})' <=> AtMove(s, {"moveEnter"})
        /\ Moving(s)' => tick'[Lobby].from = tick[Lobby].from
        /\ s \in tick'[Echo].todo \/ tick'[Echo].sid = s =>
              s \in tick[Echo].todo \/ tick[Echo].sid = s \/ s \in sessions[Echo]
    BY SameMoves
  <1>6. \A z \in Zones : Home(z, s)' <=> zoneId[s] = z
    BY <1>2, <1>3, MembersAssumption DEF Home
  <1>7. refs'[s] = {} => isDisconnect'[s]
    <2>1. refs[s] = {r} /\ r # Receive => Receive \notin refs[s]
      OBVIOUS
    <2> QED
      BY <1>2, <1>3, <2>1
  <1>8. Accepted(s)' /\ (Gone(s)' <=> refs'[s] = {})
    BY <1>7 DEF Accepted, Gone
  <1>9. References(s)'
    <2>1. refs'[s] # {} <=> zoneId'[s] # NoZone
      BY <1>2, <1>3
    <2>2. refs'[s] # {} /\ Receive \notin refs'[s] => isDisconnect'[s]
      BY <1>2, <1>3
    <2>3. userPtr'[s] => refs'[s] # {}
      BY <1>3
    <2>4. leaving'[s] # NoZone \/ user'[s] = "freed" => Gone(s)'
      BY <1>2, <1>3, <1>8
    <2> QED
      BY <1>2, <1>8, <2>1, <2>2, <2>3, <2>4 DEF References
  <1>10. OneDeparture(s)'
    BY <1>1, <1>2, TwoZones DEF OneDeparture
  <1>11. InLobby(s)'
    <2>1. /\ Home(Lobby, s)' <=> Home(Lobby, s)
          /\ refs'[s] # {} => userPtr'[s] = userPtr[s]
      BY <1>2, <1>3, <1>6, TwoZones
    <2> QED
      BY <1>1, <1>4, <1>5, <2>1 DEF InLobby
  <1>12. InEcho(s)'
    <2>1. /\ Home(Echo, s)' <=> Home(Echo, s)
          /\ Home(Lobby, s)' <=> Home(Lobby, s)
      BY <1>2, <1>6, TwoZones
    <2>2. (s \in sessions[Echo] \cup userMap[Echo] \/ HasEnter(jobQueue[Echo], s) => Home(Echo, s))'
      BY <1>1, <2>1 DEF InEcho
    <2>3. (Home(Echo, s) \/ s \in tick[Echo].todo \/ tick[Echo].sid = s => Known(s))'
      BY <1>1, <1>4, <1>5, <2>1 DEF InEcho
    <2>4. /\ (HasForget(jobQueue[Lobby], s) \/ AtMove(s, MovePcs) => Known(s))'
          /\ (Known(s) => user[s] # "none")'
          /\ (HasForget(jobQueue[Lobby], s) => ~Home(Lobby, s))'
      BY <1>1, <1>4, <1>5, <2>1 DEF InEcho
    <2>5. AtMove(s, MovePcs)' => zoneId'[s] = zoneId[s]
      BY <1>3
    <2>6. AtMove(s, {"move"})' \/ Moving(s)' => AtMove(s, MovePcs)'
      BY DEF AtMove, Moving, MovePcs
    <2>7. /\ (AtMove(s, {"move"}) => zoneId[s] = Lobby)'
          /\ (Moving(s) => zoneId[s] = Echo /\ tick[Lobby].from = Lobby)'
      BY <1>1, <1>5, <2>5, <2>6 DEF InEcho
    <2> QED
      BY <2>2, <2>3, <2>4, <2>7 DEF InEcho
  <1>13. AccountsGivenBack(s)'
    BY <1>1, <1>2, <1>5, <1>6, TwoZones DEF AccountsGivenBack
  <1> QED
    BY <1>9, <1>10, <1>11, <1>12, <1>13 DEF SessionIInv

LEMMA GiveBackKeeps ==
  ASSUME EchoIInv, NEW s \in Sessions, NEW r \in refs[s], GiveBack(s, r),
         isDisconnect' \in [Sessions -> BOOLEAN],
         \A u \in Sessions : isDisconnect[u] => isDisconnect'[u], r = Receive => isDisconnect'[s],
         UNCHANGED <<jobQueue, sessions, userMap, user, account, accountMap, client>>,
         \A u \in Sessions : SameTicks(u), refs[s] = {r} => ~AtMove(s, MovePcs)',
         TicksOK', TickHolds',
         \A y \in Zones : \A u \in Sessions : \A l \in {"take", "handle"} :
             HasLogin(y, u, l)' => HasLogin(y, u, l),
         refs[s] = {r} => \A y \in Zones : ~HasLogin(y, s, "take")'
  PROVE  EchoIInv'
PROOF
  <1>1. /\ zoneId' \in [Sessions -> Zones \cup {NoZone}] /\ userPtr' \in [Sessions -> BOOLEAN]
        /\ refs' \in [Sessions -> SUBSET (Zones \cup {Receive})]
        /\ recvedPackets' \in [Sessions -> Seq(Messages)]
        /\ leaving' \in [Sessions -> Zones \cup {NoZone}]
        /\ \A u \in Sessions : u # s =>
               /\ zoneId'[u] = zoneId[u] /\ userPtr'[u] = userPtr[u] /\ refs'[u] = refs[u]
               /\ recvedPackets'[u] = recvedPackets[u] /\ leaving'[u] = leaving[u]
        /\ \/ refs[s] = {r} /\ recvedPackets'[s] = <<>>
           \/ refs[s] # {r} /\ recvedPackets'[s] = recvedPackets[s]
    BY GiveBackDoes
  <1>2. SessionsOK' /\ QueuesOK' /\ MapsOK' /\ UsersOK'
    BY <1>1, UnchangedParts DEF SessionsOK
  <1>3. LoginsKnown'
    BY LoginsKnownKept
  <1>4. \A u \in Sessions : u # s => SessionIInv(u)'
    <2> SUFFICES ASSUME NEW u \in Sessions, u # s
                 PROVE  SessionIInv(u)'
      OBVIOUS
    <2>1. SameSession(u)
      BY <1>1 DEF SameSession
    <2> QED
      BY <2>1, QueuesUnchanged, MembersUnchanged, Parts, Bystander DEF Same
  <1>5. SessionIInv(s)'
    BY GiveBackSession
  <1>6. \A u \in Sessions : SessionIInv(u)'
    BY <1>4, <1>5
  <1>7. \A u \in Sessions : recvedPackets'[u] = recvedPackets[u] => LoginOnce(u)'
    BY Parts, LoginStays DEF LoginKept
  <1>8. refs[s] = {r} => LoginOnce(s)'
    <2> SUFFICES ASSUME refs[s] = {r}
                 PROVE  LoginOnce(s)'
      OBVIOUS
    <2>1. recvedPackets'[s] = <<>>
      BY <1>1
    <2>2. DOMAIN recvedPackets'[s] = {}
      BY <2>1
    <2>3. \A i : ~LoginAt(s, i)'
      BY <2>2 DEF LoginAt
    <2>4. (Known(s)' <=> Known(s)) /\ client' = client
      BY DEF Known
    <2>5. \A y \in Zones : (HasLogin(y, s, "handle")' => HasLogin(y, s, "handle"))
                           /\ ~HasLogin(y, s, "take")'
      OBVIOUS
    <2> QED
      BY <2>2, <2>4, <2>5, Parts, TwoZones DEF LoginOnce
  <1>9. \A u \in Sessions : LoginOnce(u)'
    BY <1>1, <1>7, <1>8
  <1> QED
    BY <1>2, <1>3, <1>6, <1>9, AllParts

LEMMA ConnectionEndsKeeps ==
  ASSUME EchoIInv, NEW s \in Sessions, ConnectionEnds(s)
  PROVE  EchoIInv'
PROOF
  <1>1. /\ Receive \in refs[s] /\ GiveBack(s, Receive)
        /\ isDisconnect' = [isDisconnect EXCEPT ![s] = TRUE]
        /\ UNCHANGED <<jobQueue, sessions, tick, userMap, user, account, accountMap, client>>
    BY DEF ConnectionEnds, ReceiveEnds
  <1>2. /\ isDisconnect' \in [Sessions -> BOOLEAN] /\ isDisconnect'[s]
        /\ \A u \in Sessions : isDisconnect[u] => isDisconnect'[u]
    BY <1>1, Parts DEF SessionsOK
  <1>3. /\ refs'[s] = refs[s] \ {Receive}
        /\ \A u \in Sessions : u # s => refs'[u] = refs[u]
    BY <1>1, GiveBackDoes
  <1>4. QueuesOK'
    BY <1>1, UnchangedParts
  <1>5. \A z \in Zones, u \in Sessions : z \in refs[u] => z \in refs'[u]
    BY <1>3, MembersAssumption
  <1>6. TickHolds'
    BY <1>1, <1>4, <1>5, LensStay, HoldsOutside
  <1>7. TicksOK' /\ \A u \in Sessions : SameTicks(u)
    BY <1>1, TicksUnchanged
  <1>8. refs[s] = {Receive} =>
          ~AtMove(s, MovePcs)' /\ \A y \in Zones : ~HasLogin(y, s, "take")'
    BY <1>1, Parts, MembersAssumption, TwoZones DEF AtMove, HasLogin, TickHolds, HoldPcs
  <1>9. \A y \in Zones : \A u \in Sessions : \A l \in {"take", "handle"} :
            HasLogin(y, u, l)' => HasLogin(y, u, l)
    BY <1>1 DEF HasLogin
  <1> QED
    BY <1>1, <1>2, <1>6, <1>7, <1>8, <1>9, GiveBackKeeps

LEMMA DrainedKeeps ==
  ASSUME EchoIInv, NEW z \in Zones, Drained(z), UsersUnchanged
  PROVE  EchoIInv'
PROOF
  <1>0. PICK s : s = tick[z].sid
    OBVIOUS
  <1>1. /\ tick[z].pc = "look" /\ TicksOK' /\ OtherTicks(z)
        /\ s \in Sessions /\ z \in refs[s]
        /\ tick'[z].pc \in {"release", "receive"} /\ tick'[z].sid \in {s, NoSession}
        /\ tick'[z].todo = tick[z].todo
        /\ GiveBack(s, z)
        /\ UNCHANGED <<isDisconnect, jobQueue, sessions, userMap, user, account, accountMap, client>>
    BY <1>0, DrainedDoes DEF UsersUnchanged
  <1>2. /\ isDisconnect' \in [Sessions -> BOOLEAN]
        /\ \A u \in Sessions : isDisconnect[u] => isDisconnect'[u]
    BY <1>1, Parts DEF SessionsOK
  <1>3. /\ refs'[s] = refs[s] \ {z}
        /\ \A u \in Sessions : u # s => refs'[u] = refs[u]
    BY <1>1, GiveBackDoes
  <1>4. QueuesOK'
    BY <1>1, UnchangedParts
  <1>5. HoldsIn(z)'
    BY <1>1 DEF HoldsIn, HoldPcs, MovePcs
  <1>6. TickHolds'
    <2>1. \A y \in Zones, u \in Sessions : y # z /\ y \in refs[u] => y \in refs'[u]
      BY <1>3
    <2> QED
      BY <1>1, <1>4, <1>5, <2>1, HoldsStill
  <1>7. TickQuiet(z)
    BY <1>0, <1>1, MembersAssumption DEF TickQuiet, MovePcs
  <1>8. \A u \in Sessions : SameTicks(u)
    BY <1>1, <1>7, QuietTicks
  <1>9. \A y \in Zones : \A u \in Sessions : \A l \in {"take", "handle"} :
            HasLogin(y, u, l)' => HasLogin(y, u, l)
    BY <1>1 DEF HasLogin, OtherTicks
  <1>10. refs[s] = {z} => ~AtMove(s, MovePcs)' /\ \A y \in Zones : ~HasLogin(y, s, "take")'
    <2> SUFFICES ASSUME refs[s] = {z}
                 PROVE  ~AtMove(s, MovePcs)' /\ \A y \in Zones : ~HasLogin(y, s, "take")'
      OBVIOUS
    <2>1. \A y \in Zones : tick'[y].pc \in HoldPcs => y # z /\ tick'[y].sid # s
      BY <1>1, Parts DEF TickHolds, OtherTicks, HoldPcs, MovePcs
    <2>2. ~AtMove(s, MovePcs)'
      BY <2>1, TwoZones DEF AtMove, HoldPcs
    <2>3. \A y \in Zones : ~HasLogin(y, s, "take")'
      BY <2>1 DEF HasLogin, HoldPcs
    <2> QED
      BY <2>2, <2>3
  <1>11. z = Receive => isDisconnect'[s]
    BY MembersAssumption
  <1> QED
    BY <1>1, <1>2, <1>6, <1>8, <1>9, <1>10, <1>11, GiveBackKeeps

LEMMA ReleaseKeeps ==
  ASSUME EchoIInv, NEW s \in Sessions, Release(s)
  PROVE  EchoIInv'
PROOF
  <1> DEFINE x == LeaveJob(s, TRUE)
  <1>0. PICK z : z = leaving[s]
    OBVIOUS
  <1>1. /\ z \in Zones /\ leaving' = [leaving EXCEPT ![s] = NoZone]
        /\ jobQueue' = [jobQueue EXCEPT ![z] = Append(@, x)]
        /\ TicksOK'
        /\ \A y \in Zones :
               \/ tick'[y] = tick[y]
               \/ /\ tick[y].pc = "release" /\ tick[y].sid = s
                  /\ tick'[y].pc = "receive" /\ tick'[y].sid = NoSession
                  /\ tick'[y].todo = tick[y].todo /\ tick'[y].msg = tick[y].msg
                  /\ tick'[y].from = tick[y].from /\ tick'[y].left = tick[y].left
        /\ UNCHANGED <<zoneId, userPtr, isDisconnect, refs, recvedPackets, sessions>>
        /\ UNCHANGED <<userMap, user, account, accountMap, client>>
    BY <1>0, LeaveZoneDoes DEF Release
  <1>2. x \in LobbyJobs /\ x \in EchoJobs /\ x \in Jobs /\ x.sid = s
    BY DEF Jobs, LeaveJob, LeaveJobs, LobbyJobs, EchoJobs
  <1>3. IsDelete(x, s) /\ ~IsEnter(x, s) /\ ~IsForget(x, s) /\ \A a : ~IsAccount(x, s, a)
    <2>1. x.kind = "leave" /\ x.delete = TRUE /\ LeaveJob(s, FALSE).delete = FALSE
      BY DEF LeaveJob
    <2>2. \A a : [kind |-> "account", sid |-> s, account |-> a].kind = "account"
      OBVIOUS
    <2>3. IsDelete(x, s)
      BY DEF IsDelete
    <2> HIDE DEF x
    <2> QED
      BY <2>1, <2>2, <2>3 DEF IsEnter, IsForget, IsAccount
  <1> HIDE DEF x
  <1>4. /\ leaving'[s] = NoZone /\ leaving' \in [Sessions -> Zones \cup {NoZone}]
        /\ \A u \in Sessions : u # s => leaving'[u] = leaving[u]
    BY <1>1, Parts DEF SessionsOK
  <1>5. QueuesOK'
    BY <1>1, <1>2, Parts, QueuesPush
  <1>6. SessionsOK' /\ MapsOK' /\ UsersOK'
    BY <1>1, <1>4, Parts DEF SessionsOK, MapsOK, UsersOK
  <1>7. /\ \A u : u # s => SameQueues(u)
        /\ \A y \in Zones : y # z => jobQueue'[y] = jobQueue[y]
        /\ \A y \in Zones : Len(jobQueue'[y]) >= Len(jobQueue[y])
        /\ PushedFacts(jobQueue[z], x, jobQueue'[z], s)
    <2>1. z \in Zones /\ jobQueue' = [jobQueue EXCEPT ![z] = Append(@, x)]
      BY <1>1
    <2> QED
      BY <1>2, <2>1, PushJobs
  <1>8. TickHolds'
    <2>1. \A y \in Zones : tick'[y].pc \in {"jobs"} \cup HoldPcs => tick'[y] = tick[y]
      BY <1>1 DEF HoldPcs, MovePcs
    <2> QED
      BY <1>1, <1>5, <1>7, <2>1, HoldsOutside
  <1>9. LoginsKnown'
    BY <1>1, LoginsKnownKept
  <1>10. \A u \in Sessions : LoginOnce(u)'
    <2>1. \A y \in Zones : \A u \in Sessions : \A l \in {"take", "handle"} :
            HasLogin(y, u, l)' => HasLogin(y, u, l)
      BY <1>1 DEF HasLogin
    <2> QED
      BY <1>1, <2>1, LoginsStay
  <1>11. \A u \in Sessions : SameTicks(u)
    <2> SUFFICES ASSUME NEW u \in Sessions
                 PROVE  SameTicks(u)
      OBVIOUS
    <2>1. \A p \in MovePcs : AtMove(u, {p})' <=> AtMove(u, {p})
      BY <1>1, TwoZones DEF AtMove, MovePcs
    <2>2. tick'[Lobby].from = tick[Lobby].from
      BY <1>1, TwoZones
    <2>3. u \in tick'[Echo].todo \/ tick'[Echo].sid = u =>
            u \in tick[Echo].todo \/ tick[Echo].sid = u
      BY <1>1, TwoZones, MembersAssumption
    <2> QED
      BY <2>1, <2>2, <2>3 DEF SameTicks
  <1>12. \A u \in Sessions : u # s => SessionIInv(u)'
    <2> SUFFICES ASSUME NEW u \in Sessions, u # s
                 PROVE  SessionIInv(u)'
      OBVIOUS
    <2>1. SameSession(u)
      BY <1>1, <1>4 DEF SameSession
    <2> QED
      BY <1>1, <1>7, <1>11, <2>1, MembersUnchanged, Parts, Bystander DEF Same
  <1>13. SessionIInv(s)'
    <2>1. References(s) /\ OneDeparture(s) /\ InLobby(s) /\ InEcho(s) /\ AccountsGivenBack(s)
      BY Parts DEF SessionIInv
    <2>2. z # NoZone /\ Gone(s)
      BY <1>0, <1>1, <2>1, MembersAssumption DEF References
    <2>3. zoneId[s] = NoZone /\ Gone(s)'
      BY <1>1, <2>1, <2>2 DEF References, Gone
    <2>4. user[s] # "freed" /\ \A y \in Zones : ~HasDelete(jobQueue[y], s)
      BY <1>0, <2>1, <2>2 DEF OneDeparture
    <2>5. \A y \in Zones :
            /\ HasEnter(jobQueue'[y], s) <=> HasEnter(jobQueue[y], s)
            /\ HasDelete(jobQueue'[y], s) <=> y = z
            /\ HasForget(jobQueue'[y], s) <=> HasForget(jobQueue[y], s)
            /\ \A a : HasAccount(jobQueue'[y], s, a) <=> HasAccount(jobQueue[y], s, a)
            /\ LastIsDelete(jobQueue[y], s) => LastIsDelete(jobQueue'[y], s)
            /\ OneEnter(jobQueue[y], s) => OneEnter(jobQueue'[y], s)
      BY <1>3, <1>7, <2>4 DEF PushedFacts
    <2>6. \A y \in Zones : /\ Home(y, s)' <=> y = z
                           /\ Home(y, s) <=> y = z
      BY <1>0, <1>1, <1>4, <2>3, <2>4, <2>5, MembersAssumption DEF Home
    <2>7. Known(s)' <=> Known(s)
      BY <1>1 DEF Known
    <2>8. /\ Moving(s)' <=> Moving(s)
          /\ AtMove(s, MovePcs)' <=> AtMove(s, MovePcs)
          /\ AtMove(s, {"move"})' <=> AtMove(s, {"move"})
          /\ AtMove(s, {"moveEnter"})' <=> AtMove(s, {"moveEnter"})
          /\ Moving(s)' => tick'[Lobby].from = tick[Lobby].from
          /\ s \in tick'[Echo].todo \/ tick'[Echo].sid = s =>
                s \in tick[Echo].todo \/ tick[Echo].sid = s \/ s \in sessions[Echo]
      BY <1>11, SameMoves
    <2>9. References(s)'
      <3>1. Accepted(s)'
        BY <2>3 DEF Gone, Accepted
      <3> QED
        BY <1>1, <1>4, <2>1, <2>3, <2>4, <3>1 DEF References
    <2>10. OneDeparture(s)'
      BY <1>1, <1>4, <2>1, <2>4, <2>5, TwoZones DEF OneDeparture
    <2>11. InLobby(s)'
      BY <1>1, <2>1, <2>5, <2>6, <2>7, <2>8, TwoZones DEF InLobby
    <2>12. InEcho(s)'
      <3>1. (s \in sessions[Echo] \cup userMap[Echo] \/ HasEnter(jobQueue[Echo], s) => Home(Echo, s))'
        BY <1>1, <2>1, <2>5, <2>6, TwoZones DEF InEcho
      <3>2. (Home(Echo, s) \/ s \in tick[Echo].todo \/ tick[Echo].sid = s => Known(s))'
        BY <2>1, <2>6, <2>7, <2>8, TwoZones DEF InEcho
      <3>3. /\ (HasForget(jobQueue[Lobby], s) \/ AtMove(s, MovePcs) => Known(s))'
            /\ (Known(s) => user[s] # "none")'
            /\ (HasForget(jobQueue[Lobby], s) => ~Home(Lobby, s))'
            /\ (AtMove(s, {"move"}) => zoneId[s] = Lobby)'
            /\ (Moving(s) => zoneId[s] = Echo /\ tick[Lobby].from = Lobby)'
        BY <1>1, <2>1, <2>5, <2>6, <2>7, <2>8, TwoZones DEF InEcho
      <3> QED
        BY <3>1, <3>2, <3>3 DEF InEcho
    <2>13. AccountsGivenBack(s)'
      BY <1>1, <2>1, <2>5, <2>6, <2>8, TwoZones DEF AccountsGivenBack
    <2> QED
      BY <2>9, <2>10, <2>11, <2>12, <2>13 DEF SessionIInv
  <1>14. \A u \in Sessions : SessionIInv(u)'
    BY <1>12, <1>13
  <1> QED
    BY <1>1, <1>5, <1>6, <1>8, <1>9, <1>10, <1>14, AllParts

-----------------------------------------------------------------------------
(* Moves.                                                                   *)

\* Of the session that is moved, while the lobby's tick holds it.
LEMMA Mover ==
  ASSUME EchoIInv, NEW s, s = tick[Lobby].sid, tick[Lobby].pc \in MovePcs
  PROVE  /\ s \in Sessions /\ refs[s] # {} /\ Lobby \in refs[s] /\ Known(s) /\ userPtr[s] = TRUE
         /\ AtMove(s, MovePcs) /\ user[s] = "alloc"
         /\ zoneId[s] = IF tick[Lobby].pc = "move" THEN Lobby ELSE Echo
         /\ Moving(s) <=> tick[Lobby].pc # "move"
         /\ AtMove(s, {"moveEnter"}) <=> tick[Lobby].pc = "moveEnter"
         /\ tick[Lobby].pc # "move" => tick[Lobby].from = Lobby
         /\ \A u : u # s => ~AtMove(u, MovePcs) /\ ~Moving(u)
PROOF
  <1>1. s \in Sessions /\ Lobby \in refs[s]
    BY Parts, TwoZones DEF TickHolds, HoldPcs
  <1>2. References(s) /\ InLobby(s) /\ InEcho(s) /\ userPtr[s] \in BOOLEAN
        /\ user[s] \in {"none", "alloc", "freed"}
    BY <1>1, Parts DEF SessionIInv, SessionsOK, UsersOK
  <1>3. AtMove(s, MovePcs) /\ refs[s] # {}
    BY <1>1 DEF AtMove
  <1>4. Known(s) /\ user[s] # "none" /\ user[s] # "freed"
    BY <1>1, <1>2, <1>3, Held DEF InEcho
  <1>5. userPtr[s] = TRUE
    BY <1>2, <1>3, <1>4 DEF InLobby
  <1>6. /\ Moving(s) <=> tick[Lobby].pc # "move"
        /\ AtMove(s, {"moveEnter"}) <=> tick[Lobby].pc = "moveEnter"
        /\ AtMove(s, {"move"}) <=> tick[Lobby].pc = "move"
        /\ \A u : u # s => ~AtMove(u, MovePcs) /\ ~Moving(u)
    BY DEF Moving, AtMove, MovePcs
  <1>7. /\ zoneId[s] = IF tick[Lobby].pc = "move" THEN Lobby ELSE Echo
        /\ tick[Lobby].pc # "move" => tick[Lobby].from = Lobby
    BY <1>2, <1>6 DEF InEcho
  <1> QED
    BY <1>1, <1>2, <1>3, <1>4, <1>5, <1>6, <1>7

\* Where the lobby's tick is after a step of a move.
LEMMA MoverTicks ==
  ASSUME EchoIInv, NEW s, s = tick[Lobby].sid, tick[Lobby].pc \in MovePcs,
         TicksOK', OtherTicks(Lobby),
         tick'[Lobby].sid = s, tick'[Lobby].pc \in {"moveEnter", "moveLeave", "look"}
  PROVE  /\ \A u \in Sessions : u # s => SameTicks(u)
         /\ Moving(s)' <=> tick'[Lobby].pc # "look"
         /\ AtMove(s, MovePcs)' <=> tick'[Lobby].pc # "look"
         /\ ~AtMove(s, {"move"})'
         /\ AtMove(s, {"moveEnter"})' <=> tick'[Lobby].pc = "moveEnter"
         /\ tick'[Echo] = tick[Echo]
         /\ \A y \in Zones : \A u \in Sessions : \A l \in {"take", "handle"} :
               HasLogin(y, u, l)' => HasLogin(y, u, l)
         /\ \A y \in Zones : tick'[y].pc = "jobs" => tick'[y] = tick[y]
         /\ \A y \in Zones : tick'[y].pc \in HoldPcs => tick[y].pc \in HoldPcs /\ tick'[y].sid = tick[y].sid
PROOF
  <1>1. tick'[Echo] = tick[Echo]
    BY TwoZones DEF OtherTicks
  <1>2. /\ Moving(s)' <=> tick'[Lobby].pc # "look"
        /\ AtMove(s, MovePcs)' <=> tick'[Lobby].pc # "look"
        /\ ~AtMove(s, {"move"})'
        /\ AtMove(s, {"moveEnter"})' <=> tick'[Lobby].pc = "moveEnter"
    BY DEF Moving, AtMove, MovePcs
  <1>3. \A u \in Sessions : u # s => SameTicks(u)
    BY <1>1 DEF SameTicks, AtMove, Moving, MovePcs
  <1>4. \A y \in Zones : y = Lobby \/ tick'[y] = tick[y]
    BY <1>1, TwoZones
  <1>5. \A y \in Zones : \A u \in Sessions : \A l \in {"take", "handle"} :
               HasLogin(y, u, l)' => HasLogin(y, u, l)
    BY <1>4 DEF HasLogin
  <1>6. /\ \A y \in Zones : tick'[y].pc = "jobs" => tick'[y] = tick[y]
        /\ \A y \in Zones : tick'[y].pc \in HoldPcs => tick[y].pc \in HoldPcs /\ tick'[y].sid = tick[y].sid
    BY <1>4 DEF HoldPcs
  <1> QED
    BY <1>1, <1>2, <1>3, <1>5, <1>6

LEMMA MoverHolds ==
  ASSUME EchoIInv, QueuesOK', refs' = refs,
         \A y \in Zones : Len(jobQueue'[y]) >= Len(jobQueue[y]),
         \A y \in Zones : tick'[y].pc = "jobs" => tick'[y] = tick[y],
         \A y \in Zones : tick'[y].pc \in HoldPcs => tick[y].pc \in HoldPcs /\ tick'[y].sid = tick[y].sid
  PROVE  TickHolds'
PROOF
  <1> SUFFICES ASSUME NEW z \in Zones
               PROVE  HoldsIn(z)'
    BY DEF TickHolds, HoldsIn
  <1>1. /\ tick[z].pc = "jobs" => tick[z].left <= Len(jobQueue[z])
        /\ tick[z].pc \in HoldPcs => tick[z].sid \in Sessions /\ z \in refs[tick[z].sid]
    BY Parts DEF TickHolds
  <1>2. tick'[z].pc = "jobs" => tick'[z].left <= Len(jobQueue'[z])
    <2> SUFFICES ASSUME tick'[z].pc = "jobs" PROVE tick'[z].left <= Len(jobQueue'[z])
      OBVIOUS
    <2>1. tick'[z] = tick[z] /\ tick[z].left <= Len(jobQueue[z])
      BY <1>1
    <2>2. tick[z].left \in Nat
      BY Parts, TickFields DEF TicksOK
    <2>3. Len(jobQueue[z]) \in Nat /\ Len(jobQueue'[z]) \in Nat
      BY Parts, Queues DEF QueuesOK
    <2>4. tick[z].left <= Len(jobQueue'[z])
      BY <2>1, <2>2, <2>3
    <2> QED
      BY <2>1, <2>4
  <1>3. tick'[z].pc \in HoldPcs => tick'[z].sid \in Sessions /\ z \in refs'[tick'[z].sid]
    BY <1>1
  <1> QED
    BY <1>2, <1>3 DEF HoldsIn

LEMMA MoveCasKeeps ==
  ASSUME EchoIInv, MoveCas(Lobby, Echo), UsersUnchanged
  PROVE  EchoIInv'
PROOF
  <1>0. PICK s : s = tick[Lobby].sid
    OBVIOUS
  <1>1. /\ tick[Lobby].pc = "move" /\ TicksOK' /\ OtherTicks(Lobby)
        /\ s \in Sessions /\ Lobby \in refs[s] /\ tick'[Lobby].sid = s
        /\ \/ /\ IsAlive(s) /\ tick'[Lobby].pc = "moveEnter" /\ tick'[Lobby].from = zoneId[s]
              /\ zoneId' = [zoneId EXCEPT ![s] = Echo]
           \/ ~IsAlive(s) /\ tick'[Lobby].pc = "look" /\ zoneId' = zoneId
        /\ UNCHANGED <<userPtr, isDisconnect, refs, recvedPackets, leaving, jobQueue, sessions>>
        /\ UNCHANGED <<userMap, user, account, accountMap, client>>
    BY <1>0, MoveCasDoes DEF UsersUnchanged
  <1>2. tick[Lobby].pc \in MovePcs /\ tick'[Lobby].pc \in {"moveEnter", "moveLeave", "look"}
    BY <1>1 DEF MovePcs
  <1>3. /\ refs[s] # {} /\ Known(s) /\ userPtr[s] = TRUE /\ AtMove(s, MovePcs) /\ user[s] = "alloc"
        /\ zoneId[s] = Lobby /\ ~Moving(s) /\ ~AtMove(s, {"moveEnter"})
    BY <1>0, <1>1, <1>2, Mover
  <1>4. /\ \A u \in Sessions : u # s => SameTicks(u)
        /\ Moving(s)' <=> tick'[Lobby].pc # "look"
        /\ AtMove(s, MovePcs)' <=> tick'[Lobby].pc # "look"
        /\ ~AtMove(s, {"move"})'
        /\ AtMove(s, {"moveEnter"})' <=> tick'[Lobby].pc = "moveEnter"
        /\ tick'[Echo] = tick[Echo]
        /\ \A y \in Zones : \A u \in Sessions : \A l \in {"take", "handle"} :
               HasLogin(y, u, l)' => HasLogin(y, u, l)
        /\ \A y \in Zones : tick'[y].pc = "jobs" => tick'[y] = tick[y]
        /\ \A y \in Zones : tick'[y].pc \in HoldPcs => tick[y].pc \in HoldPcs /\ tick'[y].sid = tick[y].sid
    BY <1>0, <1>1, <1>2, MoverTicks
  <1>5. /\ zoneId' \in [Sessions -> Zones \cup {NoZone}]
        /\ \A u \in Sessions : u # s => zoneId'[u] = zoneId[u]
        /\ \/ /\ tick'[Lobby].pc = "moveEnter" /\ tick'[Lobby].from = Lobby /\ zoneId'[s] = Echo
           \/ tick'[Lobby].pc = "look" /\ zoneId'[s] = Lobby
    <2>1. CASE tick'[Lobby].pc = "moveEnter" /\ tick'[Lobby].from = zoneId[s]
               /\ zoneId' = [zoneId EXCEPT ![s] = Echo]
      BY <1>1, <1>3, <2>1, Parts, TwoZones DEF SessionsOK
    <2>2. CASE tick'[Lobby].pc = "look" /\ zoneId' = zoneId
      BY <1>3, <2>2, Parts DEF SessionsOK
    <2> QED
      BY <1>1, <2>1, <2>2
  <1>6. SessionsOK' /\ QueuesOK' /\ MapsOK' /\ UsersOK'
    BY <1>1, <1>5, Parts, UnchangedParts DEF SessionsOK
  <1>7. TickHolds'
    BY <1>1, <1>4, <1>6, LensStay, MoverHolds
  <1>8. LoginsKnown'
    BY <1>1, LoginsKnownKept
  <1>9. \A u \in Sessions : LoginOnce(u)'
    BY <1>1, <1>4, LoginsStay
  <1>10. \A u \in Sessions : u # s => SessionIInv(u)'
    <2> SUFFICES ASSUME NEW u \in Sessions, u # s
                 PROVE  SessionIInv(u)'
      OBVIOUS
    <2>1. SameSession(u)
      BY <1>1, <1>5 DEF SameSession
    <2> QED
      BY <1>1, <1>4, <2>1, QueuesUnchanged, MembersUnchanged, Parts, Bystander DEF Same
  <1>11. SessionIInv(s)'
    <2>1. References(s) /\ OneDeparture(s) /\ InLobby(s) /\ InEcho(s) /\ AccountsGivenBack(s)
      BY <1>1, Parts DEF SessionIInv
    <2>2. /\ leaving[s] = NoZone
          /\ \A z \in Zones : ~HasDelete(jobQueue[z], s) /\ (Home(z, s) <=> zoneId[s] = z)
          /\ Accepted(s)
      BY <1>1, <1>3, Held
    <2>3. /\ Known(s)' <=> Known(s)
          /\ Accepted(s)' <=> Accepted(s)
          /\ Gone(s)' <=> Gone(s)
      BY <1>1 DEF Known, Accepted, Gone
    <2>4. \A z \in Zones : Home(z, s)' <=> zoneId'[s] = z
      BY <1>1, <2>2, MembersAssumption DEF Home
    <2>5. /\ Home(Lobby, s) /\ ~Home(Echo, s)
          /\ \/ /\ tick'[Lobby].pc = "moveEnter" /\ tick'[Lobby].from = Lobby /\ zoneId'[s] = Echo
                /\ Home(Echo, s)' /\ ~Home(Lobby, s)'
             \/ /\ tick'[Lobby].pc = "look" /\ zoneId'[s] = Lobby
                /\ Home(Lobby, s)' /\ ~Home(Echo, s)'
      BY <1>3, <1>5, <2>2, <2>4, TwoZones
    <2>6. References(s)'
      <3>1. zoneId'[s] # NoZone
        BY <1>5, TwoZones, MembersAssumption
      <3> QED
        BY <1>1, <1>3, <2>1, <2>3, <3>1 DEF References
    <2>7. OneDeparture(s)'
      BY <1>1, <2>1 DEF OneDeparture
    <2>8. InLobby(s)'
      BY <1>1, <1>3, <1>4, <2>1, <2>3, <2>5 DEF InLobby
    <2>9. InEcho(s)'
      <3>1. s \notin sessions[Echo] \cup userMap[Echo] /\ ~HasEnter(jobQueue[Echo], s)
        BY <2>1, <2>5 DEF InEcho
      <3>2. tick'[Lobby].pc = "look" => ~HasForget(jobQueue[Lobby], s)
        BY <2>1, <2>5 DEF InEcho
      <3> QED
        BY <1>1, <1>3, <1>4, <2>1, <2>3, <2>5, <3>1, <3>2 DEF InEcho
    <2>10. AccountsGivenBack(s)'
      BY <1>1, <1>3, <1>4, <2>1, <2>5 DEF AccountsGivenBack
    <2> QED
      BY <2>6, <2>7, <2>8, <2>9, <2>10 DEF SessionIInv
  <1>12. \A u \in Sessions : SessionIInv(u)'
    BY <1>10, <1>11
  <1> QED
    BY <1>1, <1>6, <1>7, <1>8, <1>9, <1>12, AllParts

LEMMA MoveEnterKeeps ==
  ASSUME EchoIInv, MoveEnter(Lobby, Echo), UsersUnchanged
  PROVE  EchoIInv'
PROOF
  <1>0. PICK s : s = tick[Lobby].sid
    OBVIOUS
  <1> DEFINE x == EnterJob(s, TRUE)
  <1>1. /\ tick[Lobby].pc = "moveEnter" /\ Goto(Lobby, "moveLeave")
        /\ jobQueue' = [jobQueue EXCEPT ![Echo] = Append(@, EnterJob(s, userPtr[s]))]
        /\ UNCHANGED <<zoneId, userPtr, isDisconnect, refs, recvedPackets, leaving, sessions>>
        /\ UNCHANGED <<userMap, user, account, accountMap, client>>
    BY <1>0 DEF MoveEnter, PushJob, UsersUnchanged, sessionVars
  <1>2. tick[Lobby].pc \in MovePcs /\ "moveLeave" \in TickPcs
    BY <1>1 DEF MovePcs, TickPcs, HoldPcs
  <1>3. /\ TicksOK' /\ OtherTicks(Lobby) /\ tick'[Lobby].sid = s
        /\ tick'[Lobby].pc = "moveLeave" /\ tick'[Lobby].from = tick[Lobby].from
    BY <1>0, <1>1, <1>2, Parts, GotoTypes, TwoZones DEF OtherTicks
  <1>4. /\ s \in Sessions /\ refs[s] # {} /\ Known(s) /\ userPtr[s] = TRUE
        /\ AtMove(s, MovePcs) /\ user[s] = "alloc" /\ zoneId[s] = Echo /\ Moving(s)
        /\ tick[Lobby].from = Lobby
    BY <1>0, <1>1, <1>2, Mover
  <1>5. /\ \A u \in Sessions : u # s => SameTicks(u)
        /\ Moving(s)' /\ AtMove(s, MovePcs)' /\ ~AtMove(s, {"move"})' /\ ~AtMove(s, {"moveEnter"})'
        /\ tick'[Echo] = tick[Echo]
        /\ \A y \in Zones : \A u \in Sessions : \A l \in {"take", "handle"} :
               HasLogin(y, u, l)' => HasLogin(y, u, l)
        /\ \A y \in Zones : tick'[y].pc = "jobs" => tick'[y] = tick[y]
        /\ \A y \in Zones : tick'[y].pc \in HoldPcs => tick[y].pc \in HoldPcs /\ tick'[y].sid = tick[y].sid
    BY <1>0, <1>1, <1>2, <1>3, MoverTicks
  <1>6. jobQueue' = [jobQueue EXCEPT ![Echo] = Append(@, x)]
    BY <1>1, <1>4
  <1>7. x \in EchoJobs /\ x \in Jobs /\ x.sid = s
    BY <1>4 DEF Jobs, EnterJob, EnterJobs, EchoJobs
  <1>8. IsEnter(x, s) /\ ~IsDelete(x, s) /\ ~IsForget(x, s) /\ \A a : ~IsAccount(x, s, a)
    <2>1. x.kind = "enter" /\ LeaveJob(s, TRUE).kind = "leave" /\ LeaveJob(s, FALSE).kind = "leave"
          /\ x.sid = s
      BY DEF EnterJob, LeaveJob
    <2>2. \A a : [kind |-> "account", sid |-> s, account |-> a].kind = "account"
      OBVIOUS
    <2> HIDE DEF x
    <2> QED
      BY <2>1, <2>2 DEF IsEnter, IsDelete, IsForget, IsAccount
  <1> HIDE DEF x
  <1>9. QueuesOK'
    BY <1>6, <1>7, Parts, QueuesPush, TwoZones
  <1>10. SessionsOK' /\ MapsOK' /\ UsersOK'
    BY <1>1, UnchangedParts
  <1>11. /\ \A u : u # s => SameQueues(u)
         /\ \A y \in Zones : y # Echo => jobQueue'[y] = jobQueue[y]
         /\ \A y \in Zones : Len(jobQueue'[y]) >= Len(jobQueue[y])
         /\ PushedFacts(jobQueue[Echo], x, jobQueue'[Echo], s)
    BY <1>6, <1>7, PushJobs, TwoZones
  <1>12. TickHolds'
    BY <1>1, <1>5, <1>9, <1>11, MoverHolds
  <1>13. LoginsKnown'
    BY <1>1, LoginsKnownKept
  <1>14. \A u \in Sessions : LoginOnce(u)'
    BY <1>1, <1>5, LoginsStay
  <1>15. \A u \in Sessions : u # s => SessionIInv(u)'
    <2> SUFFICES ASSUME NEW u \in Sessions, u # s
                 PROVE  SessionIInv(u)'
      OBVIOUS
    <2>1. SameSession(u)
      BY <1>1 DEF SameSession
    <2> QED
      BY <1>1, <1>5, <1>11, <2>1, MembersUnchanged, Parts, Bystander DEF Same
  <1>16. SessionIInv(s)'
    <2>1. References(s) /\ OneDeparture(s) /\ InLobby(s) /\ InEcho(s) /\ AccountsGivenBack(s)
      BY <1>4, Parts DEF SessionIInv
    <2>2. /\ leaving[s] = NoZone
          /\ \A z \in Zones : ~HasDelete(jobQueue[z], s) /\ (Home(z, s) <=> zoneId[s] = z)
      BY <1>4, Held
    <2>3. /\ Known(s)' <=> Known(s)
          /\ Accepted(s)' <=> Accepted(s)
          /\ Gone(s)' <=> Gone(s)
      BY <1>1 DEF Known, Accepted, Gone
    <2>4. /\ jobQueue'[Lobby] = jobQueue[Lobby]
          /\ \A z \in Zones : ~HasDelete(jobQueue'[z], s)
          /\ HasEnter(jobQueue'[Echo], s)
          /\ LastIsDelete(jobQueue[Echo], s) => LastIsDelete(jobQueue'[Echo], s)
      BY <1>8, <1>11, <2>2, TwoZones DEF PushedFacts
    <2>5. \A z \in Zones : Home(z, s)' <=> zoneId[s] = z
      BY <1>1, <2>2, <2>4, MembersAssumption DEF Home
    <2>6. Home(Echo, s) /\ Home(Echo, s)' /\ ~Home(Lobby, s) /\ ~Home(Lobby, s)'
      BY <1>4, <2>2, <2>5, TwoZones
    <2>7. References(s)'
      BY <1>1, <2>1, <2>2, <2>3, <2>4 DEF References
    <2>8. OneDeparture(s)'
      BY <1>1, <2>1, <2>2, <2>4, TwoZones DEF OneDeparture
    <2>9. InLobby(s)'
      BY <1>1, <1>4, <1>5, <2>1, <2>3, <2>4, <2>6 DEF InLobby
    <2>10. InEcho(s)'
      BY <1>1, <1>3, <1>4, <1>5, <2>1, <2>3, <2>4, <2>6 DEF InEcho
    <2>11. AccountsGivenBack(s)'
      BY <1>1, <1>5, <2>1, <2>4, <2>6 DEF AccountsGivenBack
    <2> QED
      BY <2>7, <2>8, <2>9, <2>10, <2>11 DEF SessionIInv
  <1>17. \A u \in Sessions : SessionIInv(u)'
    BY <1>15, <1>16
  <1> QED
    BY <1>3, <1>9, <1>10, <1>12, <1>13, <1>14, <1>17, AllParts

LEMMA MoveLeaveKeeps ==
  ASSUME EchoIInv, MoveLeave(Lobby), UsersUnchanged
  PROVE  EchoIInv'
PROOF
  <1>0. PICK s : s = tick[Lobby].sid
    OBVIOUS
  <1> DEFINE x == LeaveJob(s, FALSE)
  <1>1. /\ tick[Lobby].pc = "moveLeave" /\ Goto(Lobby, "look")
        /\ jobQueue' = [jobQueue EXCEPT ![tick[Lobby].from] = Append(@, x)]
        /\ UNCHANGED <<zoneId, userPtr, isDisconnect, refs, recvedPackets, leaving, sessions>>
        /\ UNCHANGED <<userMap, user, account, accountMap, client>>
    BY <1>0 DEF MoveLeave, PushJob, UsersUnchanged, sessionVars
  <1>2. tick[Lobby].pc \in MovePcs /\ "look" \in TickPcs
    BY <1>1 DEF MovePcs, TickPcs, HoldPcs
  <1>3. /\ TicksOK' /\ OtherTicks(Lobby) /\ tick'[Lobby].sid = s /\ tick'[Lobby].pc = "look"
    BY <1>0, <1>1, <1>2, Parts, GotoTypes, TwoZones DEF OtherTicks
  <1>4. /\ s \in Sessions /\ refs[s] # {} /\ Known(s) /\ userPtr[s] = TRUE
        /\ AtMove(s, MovePcs) /\ user[s] = "alloc" /\ zoneId[s] = Echo
        /\ ~AtMove(s, {"moveEnter"}) /\ tick[Lobby].from = Lobby
    BY <1>0, <1>1, <1>2, Mover
  <1>5. /\ \A u \in Sessions : u # s => SameTicks(u)
        /\ ~Moving(s)' /\ ~AtMove(s, MovePcs)' /\ ~AtMove(s, {"move"})' /\ ~AtMove(s, {"moveEnter"})'
        /\ tick'[Echo] = tick[Echo]
        /\ \A y \in Zones : \A u \in Sessions : \A l \in {"take", "handle"} :
               HasLogin(y, u, l)' => HasLogin(y, u, l)
        /\ \A y \in Zones : tick'[y].pc = "jobs" => tick'[y] = tick[y]
        /\ \A y \in Zones : tick'[y].pc \in HoldPcs => tick[y].pc \in HoldPcs /\ tick'[y].sid = tick[y].sid
    BY <1>0, <1>1, <1>2, <1>3, MoverTicks
  <1>6. jobQueue' = [jobQueue EXCEPT ![Lobby] = Append(@, x)]
    BY <1>1, <1>4
  <1>7. x \in LobbyJobs /\ x \in Jobs /\ x.sid = s
    BY <1>4 DEF Jobs, LeaveJob, LeaveJobs, LobbyJobs
  <1>8. ~IsEnter(x, s) /\ ~IsDelete(x, s) /\ IsForget(x, s) /\ \A a : ~IsAccount(x, s, a)
    <2>1. x.kind = "leave" /\ x.delete = FALSE /\ LeaveJob(s, TRUE).delete = TRUE
      BY DEF LeaveJob
    <2>2. \A a : [kind |-> "account", sid |-> s, account |-> a].kind = "account"
      OBVIOUS
    <2>3. IsForget(x, s)
      BY DEF IsForget
    <2> HIDE DEF x
    <2> QED
      BY <2>1, <2>2, <2>3 DEF IsEnter, IsDelete, IsAccount
  <1> HIDE DEF x
  <1>9. QueuesOK'
    BY <1>6, <1>7, Parts, QueuesPush, TwoZones
  <1>10. SessionsOK' /\ MapsOK' /\ UsersOK'
    BY <1>1, UnchangedParts
  <1>11. /\ \A u : u # s => SameQueues(u)
         /\ \A y \in Zones : y # Lobby => jobQueue'[y] = jobQueue[y]
         /\ \A y \in Zones : Len(jobQueue'[y]) >= Len(jobQueue[y])
         /\ PushedFacts(jobQueue[Lobby], x, jobQueue'[Lobby], s)
    BY <1>6, <1>7, PushJobs, TwoZones
  <1>12. TickHolds'
    BY <1>1, <1>5, <1>9, <1>11, MoverHolds
  <1>13. LoginsKnown'
    BY <1>1, LoginsKnownKept
  <1>14. \A u \in Sessions : LoginOnce(u)'
    BY <1>1, <1>5, LoginsStay
  <1>15. \A u \in Sessions : u # s => SessionIInv(u)'
    <2> SUFFICES ASSUME NEW u \in Sessions, u # s
                 PROVE  SessionIInv(u)'
      OBVIOUS
    <2>1. SameSession(u)
      BY <1>1 DEF SameSession
    <2> QED
      BY <1>1, <1>5, <1>11, <2>1, MembersUnchanged, Parts, Bystander DEF Same
  <1>16. SessionIInv(s)'
    <2>1. References(s) /\ OneDeparture(s) /\ InLobby(s) /\ InEcho(s) /\ AccountsGivenBack(s)
      BY <1>4, Parts DEF SessionIInv
    <2>2. /\ leaving[s] = NoZone
          /\ \A z \in Zones : ~HasDelete(jobQueue[z], s) /\ (Home(z, s) <=> zoneId[s] = z)
      BY <1>4, Held
    <2>3. /\ Known(s)' <=> Known(s)
          /\ Accepted(s)' <=> Accepted(s)
          /\ Gone(s)' <=> Gone(s)
      BY <1>1 DEF Known, Accepted, Gone
    <2>4. /\ jobQueue'[Echo] = jobQueue[Echo]
          /\ \A z \in Zones : ~HasDelete(jobQueue'[z], s)
          /\ HasForget(jobQueue'[Lobby], s)
          /\ HasEnter(jobQueue'[Lobby], s) <=> HasEnter(jobQueue[Lobby], s)
          /\ \A a : HasAccount(jobQueue'[Lobby], s, a) <=> HasAccount(jobQueue[Lobby], s, a)
          /\ LastIsDelete(jobQueue[Lobby], s) => LastIsDelete(jobQueue'[Lobby], s)
          /\ OneEnter(jobQueue[Lobby], s) => OneEnter(jobQueue'[Lobby], s)
      BY <1>8, <1>11, <2>2, TwoZones DEF PushedFacts
    <2>5. \A z \in Zones : Home(z, s)' <=> zoneId[s] = z
      BY <1>1, <2>2, <2>4, MembersAssumption DEF Home
    <2>6. Home(Echo, s) /\ Home(Echo, s)' /\ ~Home(Lobby, s) /\ ~Home(Lobby, s)'
      BY <1>4, <2>2, <2>5, TwoZones
    <2>7. References(s)'
      BY <1>1, <2>1, <2>2, <2>3, <2>4 DEF References
    <2>8. OneDeparture(s)'
      BY <1>1, <2>1, <2>2, <2>4, TwoZones DEF OneDeparture
    <2>9. InLobby(s)'
      BY <1>1, <1>4, <1>5, <2>1, <2>3, <2>4, <2>6 DEF InLobby
    <2>10. InEcho(s)'
      BY <1>1, <1>3, <1>4, <1>5, <2>1, <2>3, <2>4, <2>6 DEF InEcho
    <2>11. AccountsGivenBack(s)'
      BY <1>1, <1>4, <1>5, <2>1, <2>4, <2>6 DEF AccountsGivenBack
    <2> QED
      BY <2>7, <2>8, <2>9, <2>10, <2>11 DEF SessionIInv
  <1>17. \A u \in Sessions : SessionIInv(u)'
    BY <1>15, <1>16
  <1> QED
    BY <1>3, <1>9, <1>10, <1>12, <1>13, <1>14, <1>17, AllParts

-----------------------------------------------------------------------------
(* Jobs run.                                                                *)

LEMMA JobRun ==
  ASSUME EchoIInv, NEW z \in Zones, NEW kind, HasJob(z, kind), JobDone(z), QueuesOK',
         Len(jobQueue'[z]) = Len(jobQueue[z]) - 1,
         \A y \in Zones : y # z => Len(jobQueue'[y]) >= Len(jobQueue[y]),
         UNCHANGED <<refs, recvedPackets, account>>,
         \A u \in Sessions : client[u] # "silent" => client'[u] # "silent"
  PROVE  /\ TicksOK' /\ TickHolds'
         /\ \A u \in Sessions : SameTicks(u) /\ LoginOnce(u)'
PROOF
  <1>1. /\ TicksOK'
        /\ \A y \in Zones : /\ tick'[y].pc = tick[y].pc /\ tick'[y].sid = tick[y].sid
                            /\ tick'[y].todo = tick[y].todo /\ tick'[y].msg = tick[y].msg
                            /\ tick'[y].from = tick[y].from
                            /\ y # z => tick'[y] = tick[y]
        /\ tick'[z].left = tick[z].left - 1
    BY JobDoneTypes
  <1>2. HoldsIn(z)'
    <2>1. /\ tick[z].pc = "jobs" /\ tick[z].left \in Nat /\ tick[z].left <= Len(jobQueue[z])
          /\ jobQueue[z] \in Seq(Jobs)
      BY HeadJob
    <2>2. Len(jobQueue[z]) \in Nat
      BY <2>1
    <2>3. tick'[z].left <= Len(jobQueue'[z])
      BY <1>1, <2>1, <2>2
    <2>4. tick'[z].pc \notin HoldPcs
      BY <1>1, <2>1 DEF HoldPcs, MovePcs
    <2> QED
      BY <2>3, <2>4 DEF HoldsIn
  <1>3. TickHolds'
    BY <1>1, <1>2, HoldsKept DEF OtherTicks
  <1>4. \A u \in Sessions : SameTicks(u)
    BY <1>1, TwoZones DEF SameTicks, AtMove, Moving
  <1>5. \A y \in Zones : \A u \in Sessions : \A l \in {"take", "handle"} :
             HasLogin(y, u, l)' => HasLogin(y, u, l)
    BY <1>1 DEF HasLogin
  <1>6. \A u \in Sessions : LoginOnce(u)'
    BY <1>5, Parts, LoginStays DEF LoginKept
  <1> QED
    BY <1>1, <1>3, <1>4, <1>6

\* A job of s taken by z.
LEMMA JobTaken ==
  ASSUME EchoIInv, NEW z \in Zones, NEW kind, HasJob(z, kind),
         jobQueue' = [jobQueue EXCEPT ![z] = Tail(@)],
         NEW s, s = Head(jobQueue[z]).sid
  PROVE  /\ s \in Sessions /\ QueuesOK'
         /\ Len(jobQueue'[z]) = Len(jobQueue[z]) - 1
         /\ \A y \in Zones : y # z => jobQueue'[y] = jobQueue[y]
                                     /\ Len(jobQueue'[y]) >= Len(jobQueue[y])
         /\ \A u : u # s => SameQueues(u)
         /\ PoppedFacts(jobQueue[z], Head(jobQueue[z]), jobQueue'[z], s)
PROOF
  <1>1. jobQueue[z] # <<>> /\ s \in Sessions /\ QueuesOK
    BY HeadJob, Parts
  <1>2. QueuesOK'
    BY <1>1, QueuesPop
  <1>3. /\ Len(jobQueue'[z]) = Len(jobQueue[z]) - 1
        /\ \A y \in Zones : y # z => jobQueue'[y] = jobQueue[y]
    BY <1>1, PopDoes
  <1>4. \A y \in Zones : y # z => Len(jobQueue'[y]) >= Len(jobQueue[y])
    <2> SUFFICES ASSUME NEW y \in Zones, y # z PROVE Len(jobQueue'[y]) >= Len(jobQueue[y])
      OBVIOUS
    <2>1. Len(jobQueue[y]) \in Nat /\ jobQueue'[y] = jobQueue[y]
      BY <1>1, <1>3, Queues
    <2> QED
      BY <2>1
  <1>5. /\ \A u : u # s => SameQueues(u)
        /\ PoppedFacts(jobQueue[z], Head(jobQueue[z]), jobQueue'[z], s)
    BY <1>1, PopJobs
  <1> QED
    BY <1>1, <1>2, <1>3, <1>4, <1>5

LEMMA JobKinds ==
  ASSUME NEW x \in Jobs, NEW s, s = x.sid
  PROVE  /\ IsEnter(x, s) <=> x.kind = "enter"
         /\ IsDelete(x, s) <=> x.kind = "leave" /\ x.delete = TRUE
         /\ IsForget(x, s) <=> x.kind = "leave" /\ x.delete = FALSE
         /\ \A a : IsAccount(x, s, a) <=> x.kind = "account" /\ x.account = a
PROOF
  <1>1. IsEnter(x, s) <=> x.kind = "enter"
    BY DEF IsEnter
  <1>2. LeaveJob(s, TRUE).kind = "leave" /\ LeaveJob(s, TRUE).delete = TRUE
        /\ LeaveJob(s, FALSE).kind = "leave" /\ LeaveJob(s, FALSE).delete = FALSE
    BY DEF LeaveJob
  <1>3. x.kind = "leave" => x.delete \in BOOLEAN /\ x = LeaveJob(s, x.delete)
    BY JobShapes
  <1>4. /\ IsDelete(x, s) <=> x.kind = "leave" /\ x.delete = TRUE
        /\ IsForget(x, s) <=> x.kind = "leave" /\ x.delete = FALSE
    BY <1>2, <1>3 DEF IsDelete, IsForget
  <1>5. \A a : IsAccount(x, s, a) <=> x.kind = "account" /\ x.account = a
    BY JobShapes DEF IsAccount
  <1> QED
    BY <1>1, <1>4, <1>5

\* A job that is in a queue, and the first of it.
LEMMA HeadIn ==
  ASSUME NEW q, NEW x, NEW r, NEW s, PoppedFacts(q, x, r, s)
  PROVE  /\ IsEnter(x, s) => HasEnter(q, s)
         /\ IsDelete(x, s) => HasDelete(q, s)
         /\ IsForget(x, s) => HasForget(q, s)
         /\ \A a : IsAccount(x, s, a) => HasAccount(q, s, a)
  BY DEF PoppedFacts

LEMMA RunReleaseAccountNoKeeps ==
  ASSUME EchoIInv, RunReleaseAccountNo
  PROVE  EchoIInv'
PROOF
  <1> DEFINE x == Head(jobQueue[Lobby])
  <1>0. PICK s, a : s = x.sid /\ a = x.account
    OBVIOUS
  <1>1. /\ HasJob(Lobby, "account") /\ JobDone(Lobby)
        /\ jobQueue' = [jobQueue EXCEPT ![Lobby] = Tail(@)]
        /\ accountMap' = ReleaseAccountNo(a, s)
        /\ UNCHANGED <<zoneId, userPtr, isDisconnect, refs, recvedPackets, leaving>>
        /\ UNCHANGED <<sessions, userMap, user, account, client>>
    BY <1>0 DEF RunReleaseAccountNo, sessionVars
  <1>2. /\ s \in Sessions /\ QueuesOK'
        /\ Len(jobQueue'[Lobby]) = Len(jobQueue[Lobby]) - 1
        /\ \A y \in Zones : y # Lobby => jobQueue'[y] = jobQueue[y]
                                     /\ Len(jobQueue'[y]) >= Len(jobQueue[y])
        /\ \A u : u # s => SameQueues(u)
        /\ PoppedFacts(jobQueue[Lobby], x, jobQueue'[Lobby], s)
    BY <1>0, <1>1, JobTaken, TwoZones
  <1>3. x \in Jobs /\ x.kind = "account"
    BY <1>1, HeadJob, TwoZones
  <1>4. a \in Accounts /\ ~IsEnter(x, s) /\ ~IsDelete(x, s) /\ ~IsForget(x, s)
        /\ \A b : IsAccount(x, s, b) <=> b = a
    <2>1. a \in Accounts
      BY <1>0, <1>3, JobShapes
    <2>2. /\ ~IsEnter(x, s) /\ ~IsDelete(x, s) /\ ~IsForget(x, s)
          /\ \A b : IsAccount(x, s, b) <=> b = a
      BY <1>0, <1>3, JobKinds
    <2> QED
      BY <2>1, <2>2
  <1>5. Gone(s)
    BY <1>2, <1>4, HeadIn, Parts DEF SessionIInv, References
  <1> HIDE DEF x
  <1>6. accountMap' = [b \in Accounts |-> IF b = a /\ accountMap[b] = s THEN NoSession ELSE accountMap[b]]
    BY <1>1 DEF ReleaseAccountNo
  <1>7. SessionsOK' /\ MapsOK' /\ UsersOK'
    BY <1>1, <1>6, Parts, UnchangedParts DEF UsersOK
  <1>8. TicksOK' /\ TickHolds' /\ \A u \in Sessions : SameTicks(u) /\ LoginOnce(u)'
    BY <1>1, <1>2, JobRun, TwoZones
  <1>9. LoginsKnown'
    <2> SUFFICES ASSUME NEW u \in Sessions, account'[u] # NoAccount, ~isDisconnect'[u]
                 PROVE  accountMap'[account'[u]] = u
      BY DEF LoginsKnown
    <2>1. account[u] \in Accounts /\ accountMap[account[u]] = u /\ ~isDisconnect[u]
      BY <1>1, Parts DEF LoginsKnown, UsersOK
    <2>2. u # s
      BY <1>5, <2>1 DEF Gone
    <2> QED
      BY <1>1, <1>6, <2>1, <2>2
  <1>10. \A u \in Sessions, b \in Accounts :
            accountMap'[b] = u => accountMap[b] = u /\ ~(b = a /\ u = s)
    BY <1>6, MembersAssumption
  <1>11. \A u \in Sessions : u # s => SessionIInv(u)'
    <2> SUFFICES ASSUME NEW u \in Sessions, u # s
                 PROVE  SessionIInv(u)'
      OBVIOUS
    <2>1. SameSession(u) /\ SameUser(u)
      BY <1>1, <1>10 DEF SameSession, SameUser
    <2> QED
      BY <1>2, <1>8, <2>1, Parts, Bystander DEF Same
  <1>12. SessionIInv(s)'
    <2>1. References(s) /\ OneDeparture(s) /\ InLobby(s) /\ InEcho(s) /\ AccountsGivenBack(s)
      BY <1>2, Parts DEF SessionIInv
    <2>2. /\ Known(s)' <=> Known(s)
          /\ Accepted(s)' <=> Accepted(s)
          /\ Gone(s)'
      BY <1>1, <1>5 DEF Known, Accepted, Gone
    <2>3. \A y \in Zones :
            /\ HasEnter(jobQueue'[y], s) <=> HasEnter(jobQueue[y], s)
            /\ HasDelete(jobQueue'[y], s) <=> HasDelete(jobQueue[y], s)
            /\ HasForget(jobQueue'[y], s) <=> HasForget(jobQueue[y], s)
            /\ \A b : b # a => (HasAccount(jobQueue'[y], s, b) <=> HasAccount(jobQueue[y], s, b))
            /\ LastIsDelete(jobQueue[y], s) => LastIsDelete(jobQueue'[y], s)
            /\ OneEnter(jobQueue[y], s) => OneEnter(jobQueue'[y], s)
      BY <1>2, <1>4, TwoZones DEF PoppedFacts
    <2>4. \A y \in Zones : Home(y, s)' <=> Home(y, s)
      BY <1>1, <2>3 DEF Home
    <2>5. /\ Moving(s)' <=> Moving(s)
          /\ AtMove(s, MovePcs)' <=> AtMove(s, MovePcs)
          /\ AtMove(s, {"move"})' <=> AtMove(s, {"move"})
          /\ AtMove(s, {"moveEnter"})' <=> AtMove(s, {"moveEnter"})
          /\ Moving(s)' => tick'[Lobby].from = tick[Lobby].from
          /\ s \in tick'[Echo].todo \/ tick'[Echo].sid = s =>
                s \in tick[Echo].todo \/ tick[Echo].sid = s \/ s \in sessions[Echo]
      BY <1>2, <1>8, SameMoves
    <2>6. References(s)'
      BY <1>1, <2>1, <2>2, <2>3, TwoZones DEF References
    <2>7. OneDeparture(s)'
      BY <1>1, <2>1, <2>3, TwoZones DEF OneDeparture
    <2>8. InLobby(s)'
      BY <1>1, <2>1, <2>2, <2>3, <2>4, <2>5, TwoZones DEF InLobby
    <2>9. InEcho(s)'
      <3>1. (s \in sessions[Echo] \cup userMap[Echo] \/ HasEnter(jobQueue[Echo], s) => Home(Echo, s))'
        BY <1>1, <2>1, <2>3, <2>4, TwoZones DEF InEcho
      <3>2. (Home(Echo, s) \/ s \in tick[Echo].todo \/ tick[Echo].sid = s => Known(s))'
        BY <2>1, <2>2, <2>4, <2>5, TwoZones DEF InEcho
      <3>3. /\ (HasForget(jobQueue[Lobby], s) \/ AtMove(s, MovePcs) => Known(s))'
            /\ (Known(s) => user[s] # "none")'
            /\ (HasForget(jobQueue[Lobby], s) => ~Home(Lobby, s))'
            /\ (AtMove(s, {"move"}) => zoneId[s] = Lobby)'
            /\ (Moving(s) => zoneId[s] = Echo /\ tick[Lobby].from = Lobby)'
        BY <1>1, <2>1, <2>2, <2>3, <2>4, <2>5, TwoZones DEF InEcho
      <3> QED
        BY <3>1, <3>2, <3>3 DEF InEcho
    <2>10. AccountsGivenBack(s)'
      <3> SUFFICES ASSUME NEW b \in Accounts, accountMap'[b] = s
                   PROVE  /\ account'[s] = b
                          /\ \/ Home(Lobby, s)' /\ s \in userMap'[Lobby]
                             \/ /\ Home(Echo, s)'
                                /\ \/ s \in userMap'[Echo] \/ HasEnter(jobQueue'[Echo], s)
                                   \/ AtMove(s, {"moveEnter"})'
                             \/ HasAccount(jobQueue'[Lobby], s, b)
        BY DEF AccountsGivenBack
      <3>1. accountMap[b] = s /\ b # a
        BY <1>2, <1>10
      <3> QED
        BY <1>1, <2>1, <2>3, <2>4, <2>5, <3>1, TwoZones DEF AccountsGivenBack
    <2> QED
      BY <2>6, <2>7, <2>8, <2>9, <2>10 DEF SessionIInv
  <1>13. \A u \in Sessions : SessionIInv(u)'
    BY <1>11, <1>12
  <1>14. \A u \in Sessions : LoginOnce(u)'
    BY <1>8
  <1> QED
    BY <1>2, <1>7, <1>8, <1>9, <1>13, <1>14, AllParts

\* A session that the lobby is told to enter is new to it and at home there.
LEMMA Entering ==
  ASSUME EchoIInv, NEW s \in Sessions, HasEnter(jobQueue[Lobby], s)
  PROVE  /\ user[s] = "none" /\ ~Known(s) /\ Home(Lobby, s) /\ ~Home(Echo, s) /\ Accepted(s)
         /\ s \notin sessions[Lobby] \cup userMap[Lobby] /\ s \notin sessions[Echo] \cup userMap[Echo]
         /\ ~Moving(s) /\ ~AtMove(s, MovePcs) /\ ~HasForget(jobQueue[Lobby], s)
         /\ ~HasEnter(jobQueue[Echo], s)
         /\ s \notin tick[Echo].todo /\ tick[Echo].sid # s
         /\ OneEnter(jobQueue[Lobby], s) /\ \A a \in Accounts : accountMap[a] # s
PROOF
  <1>1. References(s) /\ OneDeparture(s) /\ InLobby(s) /\ InEcho(s) /\ AccountsGivenBack(s)
    BY Parts DEF SessionIInv
  <1>2. user[s] = "none" /\ OneEnter(jobQueue[Lobby], s) /\ Accepted(s)
    BY <1>1 DEF InLobby, References
  <1>3. ~Known(s) /\ s \notin sessions[Lobby] \cup userMap[Lobby]
    BY <1>1, <1>2 DEF InEcho, InLobby
  <1>4. /\ ~Home(Echo, s) /\ s \notin tick[Echo].todo /\ tick[Echo].sid # s
        /\ ~HasForget(jobQueue[Lobby], s) /\ ~AtMove(s, MovePcs)
    BY <1>1, <1>3 DEF InEcho
  <1>5. ~Moving(s)
    BY <1>4 DEF Moving, AtMove, MovePcs
  <1>6. Home(Lobby, s)
    BY <1>1, <1>4, <1>5 DEF InLobby
  <1>7. s \notin sessions[Echo] \cup userMap[Echo] /\ ~HasEnter(jobQueue[Echo], s)
    BY <1>1, <1>4 DEF InEcho
  <1>8. \A a \in Accounts : accountMap[a] # s
    BY <1>1, <1>3, EchoAssumption DEF AccountsGivenBack, Known
  <1> QED
    BY <1>2, <1>3, <1>4, <1>5, <1>6, <1>7, <1>8

LEMMA EnterLobbyKeeps ==
  ASSUME EchoIInv, EnterLobby
  PROVE  EchoIInv'
PROOF
  <1> DEFINE x == Head(jobQueue[Lobby])
  <1>0. PICK s, alive : s = x.sid /\ alive = IsAlive(s) /\ alive \in BOOLEAN
    BY DEF IsAlive
  <1>1. HasJob(Lobby, "enter") /\ JobDone(Lobby)
        /\ jobQueue' = [jobQueue EXCEPT ![Lobby] = Tail(@)]
    BY DEF EnterLobby
  <1>2. /\ s \in Sessions /\ QueuesOK'
        /\ Len(jobQueue'[Lobby]) = Len(jobQueue[Lobby]) - 1
        /\ \A y \in Zones : y # Lobby => jobQueue'[y] = jobQueue[y]
                                     /\ Len(jobQueue'[y]) >= Len(jobQueue[y])
        /\ \A u : u # s => SameQueues(u)
        /\ PoppedFacts(jobQueue[Lobby], x, jobQueue'[Lobby], s)
    BY <1>0, <1>1, JobTaken, TwoZones
  <1>3. x \in Jobs /\ x \in LobbyJobs /\ x.kind = "enter"
    BY <1>1, HeadJob, TwoZones
  <1>4. ~x.player /\ IsEnter(x, s) /\ ~IsDelete(x, s) /\ ~IsForget(x, s)
        /\ \A a : ~IsAccount(x, s, a)
    <2>1. ~x.player
      BY <1>3, JobShapes
    <2>2. IsEnter(x, s) /\ ~IsDelete(x, s) /\ ~IsForget(x, s) /\ \A a : ~IsAccount(x, s, a)
      BY <1>0, <1>3, JobKinds
    <2> QED
      BY <2>1, <2>2
  <1>5. HasEnter(jobQueue[Lobby], s)
    BY <1>2, <1>4, HeadIn
  <1>6. /\ user[s] = "none" /\ ~Known(s) /\ Home(Lobby, s) /\ ~Home(Echo, s) /\ Accepted(s)
        /\ s \notin sessions[Lobby] \cup userMap[Lobby] /\ s \notin sessions[Echo] \cup userMap[Echo]
        /\ ~Moving(s) /\ ~AtMove(s, MovePcs) /\ ~HasForget(jobQueue[Lobby], s)
        /\ ~HasEnter(jobQueue[Echo], s)
        /\ s \notin tick[Echo].todo /\ tick[Echo].sid # s
        /\ OneEnter(jobQueue[Lobby], s) /\ \A a \in Accounts : accountMap[a] # s
    BY <1>2, <1>5, Entering
  <1>7. /\ sessions' = [sessions EXCEPT ![Lobby] = @ \cup {s}]
        /\ user' = [user EXCEPT ![s] = "alloc"]
        /\ userPtr' = [userPtr EXCEPT ![s] = @ \/ alive]
        /\ userMap' = [userMap EXCEPT ![Lobby] = IF alive THEN @ \cup {s} ELSE @]
        /\ Disconnect(IF ~alive THEN {s} ELSE {})
        /\ UNCHANGED <<zoneId, refs, recvedPackets, leaving, account, accountMap, client>>
    <2>1. s \notin sessions[Lobby] /\ ~x.player
      BY <1>4, <1>6
    <2> DEFINE new == s \notin sessions[Lobby]
               known == new /\ (x.player \/ IsAlive(s))
    <2>2. new /\ (known <=> alive) /\ (new /\ ~x.player) /\ ((new /\ ~known) <=> ~alive)
      BY <1>0, <2>1
    <2>3. /\ sessions' = [sessions EXCEPT ![Lobby] = @ \cup {s}]
          /\ user' = [user EXCEPT ![s] = IF new /\ ~x.player THEN "alloc" ELSE @]
          /\ userPtr' = [userPtr EXCEPT ![s] = @ \/ known]
          /\ userMap' = [userMap EXCEPT ![Lobby] = IF known THEN @ \cup {s} ELSE @]
          /\ Disconnect(IF new /\ ~known THEN {s} ELSE {})
          /\ UNCHANGED <<zoneId, refs, recvedPackets, leaving, account, accountMap, client>>
      BY <1>0 DEF EnterLobby
    <2> HIDE DEF new, known
    <2>4. known = alive
      BY <1>0, <2>2 DEF known
    <2>5. (IF new /\ ~known THEN {s} ELSE {}) = (IF ~alive THEN {s} ELSE {})
      BY <2>2
    <2> QED
      BY <2>2, <2>3, <2>4, <2>5
  <1> HIDE DEF x
  <1>8. /\ sessions'[Lobby] = sessions[Lobby] \cup {s} /\ sessions'[Echo] = sessions[Echo]
        /\ userMap'[Echo] = userMap[Echo]
        /\ userMap'[Lobby] = IF alive THEN userMap[Lobby] \cup {s} ELSE userMap[Lobby]
        /\ MapsOK'
    BY <1>2, <1>7, Parts, TwoZones DEF MapsOK
  <1>9. /\ user'[s] = "alloc" /\ \A u \in Sessions : u # s => user'[u] = user[u]
        /\ UsersOK'
    BY <1>2, <1>7, Parts DEF UsersOK
  <1>10. /\ userPtr'[s] = (userPtr[s] \/ alive) /\ userPtr' \in [Sessions -> BOOLEAN]
         /\ \A u \in Sessions : u # s => userPtr'[u] = userPtr[u]
    BY <1>0, <1>2, <1>7, Parts DEF SessionsOK
  <1>11. /\ isDisconnect' \in [Sessions -> BOOLEAN]
         /\ \A u \in Sessions : isDisconnect[u] => isDisconnect'[u]
    BY <1>7, CutDoes
  <1>12. SessionsOK'
    BY <1>7, <1>10, <1>11, Parts DEF SessionsOK
  <1>13. TicksOK' /\ TickHolds' /\ \A u \in Sessions : SameTicks(u) /\ LoginOnce(u)'
    BY <1>1, <1>2, <1>7, JobRun, TwoZones
  <1>14. LoginsKnown'
    BY <1>7, <1>11, LoginsKnownKept
  <1>15. \A u \in Sessions : u # s => SessionIInv(u)'
    <2> SUFFICES ASSUME NEW u \in Sessions, u # s
                 PROVE  SessionIInv(u)'
      OBVIOUS
    <2>1. SameSession(u)
      BY <1>7, <1>10, <1>11 DEF SameSession
    <2>2. SameUser(u)
      BY <1>7, <1>8, <1>9, TwoZones DEF SameUser
    <2> QED
      BY <1>2, <1>13, <2>1, <2>2, Parts, Bystander DEF Same
  <1>16. SessionIInv(s)'
    <2>1. References(s) /\ OneDeparture(s) /\ InLobby(s) /\ InEcho(s) /\ AccountsGivenBack(s)
      BY <1>2, Parts DEF SessionIInv
    <2>2. /\ ~Known(s)' /\ Accepted(s)' /\ (Gone(s) => Gone(s)')
      BY <1>2, <1>6, <1>7, <1>11 DEF Known, Accepted, Gone
    <2>3. \A y \in Zones :
            /\ HasDelete(jobQueue'[y], s) <=> HasDelete(jobQueue[y], s)
            /\ HasForget(jobQueue'[y], s) <=> HasForget(jobQueue[y], s)
            /\ \A b : HasAccount(jobQueue'[y], s, b) <=> HasAccount(jobQueue[y], s, b)
            /\ LastIsDelete(jobQueue[y], s) => LastIsDelete(jobQueue'[y], s)
            /\ ~HasEnter(jobQueue'[y], s)
      BY <1>2, <1>4, <1>6, TwoZones DEF PoppedFacts
    <2>4. \A y \in Zones : Home(y, s)' <=> Home(y, s)
      BY <1>7, <2>3 DEF Home
    <2>5. /\ ~Moving(s)' /\ ~AtMove(s, MovePcs)' /\ ~AtMove(s, {"move"})'
          /\ s \notin tick'[Echo].todo /\ tick'[Echo].sid # s
      <3>1. ~AtMove(s, {"move"})
        BY <1>6 DEF AtMove, MovePcs
      <3>2. s \notin sessions[Echo]
        BY <1>6
      <3> QED
        BY <1>2, <1>6, <1>13, <3>1, <3>2, SameMoves
    <2>6. refs[s] # {} /\ Receive \notin refs[s] => isDisconnect'[s]
      BY <1>2, <1>11, <2>1 DEF References
    <2>7. alive => refs[s] # {}
      BY <1>0 DEF IsAlive
    <2>8. refs[s] # {} /\ ~alive => isDisconnect'[s]
      BY <1>0, <1>2, <1>11 DEF IsAlive
    <2>9. References(s)'
      BY <1>7, <1>9, <1>10, <2>1, <2>2, <2>3, <2>6, <2>7, TwoZones DEF References
    <2>10. OneDeparture(s)'
      BY <1>7, <1>9, <2>1, <2>3, TwoZones DEF OneDeparture
    <2>11. InLobby(s)'
      BY <1>6, <1>7, <1>8, <1>9, <1>10, <2>2, <2>3, <2>4, TwoZones DEF InLobby
    <2>12. InEcho(s)'
      BY <1>6, <1>8, <2>2, <2>3, <2>4, <2>5, TwoZones DEF InEcho
    <2>13. AccountsGivenBack(s)'
      BY <1>6, <1>7 DEF AccountsGivenBack
    <2> QED
      BY <2>9, <2>10, <2>11, <2>12, <2>13 DEF SessionIInv
  <1>17. \A u \in Sessions : SessionIInv(u)'
    BY <1>15, <1>16
  <1>18. \A u \in Sessions : LoginOnce(u)'
    BY <1>13
  <1> QED
    BY <1>2, <1>8, <1>9, <1>12, <1>13, <1>14, <1>17, <1>18, AllParts

LEMMA EnterEchoKeeps ==
  ASSUME EchoIInv, EnterEcho
  PROVE  EchoIInv'
PROOF
  <1> DEFINE x == Head(jobQueue[Echo])
  <1>0. PICK s : s = x.sid
    OBVIOUS
  <1>1. /\ HasJob(Echo, "enter") /\ JobDone(Echo)
        /\ jobQueue' = [jobQueue EXCEPT ![Echo] = Tail(@)]
        /\ sessions' = [sessions EXCEPT ![Echo] = @ \cup {s}]
        /\ userMap' = [userMap EXCEPT ![Echo] = @ \cup {s}]
        /\ Answer(s) \/ client' = client
        /\ UNCHANGED <<zoneId, userPtr, isDisconnect, refs, recvedPackets, leaving>>
        /\ UNCHANGED <<user, account, accountMap>>
    BY <1>0 DEF EnterEcho, sessionVars
  <1>2. /\ s \in Sessions /\ QueuesOK'
        /\ Len(jobQueue'[Echo]) = Len(jobQueue[Echo]) - 1
        /\ \A y \in Zones : y # Echo => jobQueue'[y] = jobQueue[y]
                                     /\ Len(jobQueue'[y]) >= Len(jobQueue[y])
        /\ \A u : u # s => SameQueues(u)
        /\ PoppedFacts(jobQueue[Echo], x, jobQueue'[Echo], s)
    BY <1>0, <1>1, JobTaken, TwoZones
  <1>3. x \in Jobs /\ x.kind = "enter"
    BY <1>1, HeadJob, TwoZones
  <1>4. IsEnter(x, s) /\ ~IsDelete(x, s) /\ ~IsForget(x, s) /\ \A a : ~IsAccount(x, s, a)
    BY <1>0, <1>3, JobKinds
  <1>5. HasEnter(jobQueue[Echo], s)
    BY <1>2, <1>4, HeadIn
  <1> HIDE DEF x
  <1>6. /\ sessions'[Echo] = sessions[Echo] \cup {s} /\ sessions'[Lobby] = sessions[Lobby]
        /\ userMap'[Lobby] = userMap[Lobby] /\ userMap'[Echo] = userMap[Echo] \cup {s}
        /\ MapsOK'
    BY <1>1, <1>2, Parts, TwoZones DEF MapsOK
  <1>7. /\ client' \in [Sessions -> {"silent", "waiting", "in", "asked"}]
        /\ \A u \in Sessions : client[u] # "silent" => client'[u] # "silent"
    BY <1>1, <1>2, AnswerDoes, Parts DEF UsersOK
  <1>8. SessionsOK' /\ UsersOK'
    BY <1>1, <1>7, Parts, UnchangedParts DEF UsersOK
  <1>9. TicksOK' /\ TickHolds' /\ \A u \in Sessions : SameTicks(u) /\ LoginOnce(u)'
    BY <1>1, <1>2, <1>7, JobRun, TwoZones
  <1>10. LoginsKnown'
    BY <1>1, LoginsKnownKept
  <1>11. \A u \in Sessions : u # s => SessionIInv(u)'
    <2> SUFFICES ASSUME NEW u \in Sessions, u # s
                 PROVE  SessionIInv(u)'
      OBVIOUS
    <2>1. SameSession(u)
      BY <1>1 DEF SameSession
    <2>2. SameUser(u)
      BY <1>1, <1>6, TwoZones DEF SameUser
    <2> QED
      BY <1>2, <1>9, <2>1, <2>2, Parts, Bystander DEF Same
  <1>12. SessionIInv(s)'
    <2>1. References(s) /\ OneDeparture(s) /\ InLobby(s) /\ InEcho(s) /\ AccountsGivenBack(s)
      BY <1>2, Parts DEF SessionIInv
    <2>2. Home(Echo, s) /\ Known(s)
      BY <1>5, <2>1 DEF InEcho
    <2>3. /\ Known(s)' /\ (Accepted(s)' <=> Accepted(s)) /\ (Gone(s)' <=> Gone(s))
      BY <1>1, <2>2 DEF Known, Accepted, Gone
    <2>4. \A y \in Zones :
            /\ HasDelete(jobQueue'[y], s) <=> HasDelete(jobQueue[y], s)
            /\ HasForget(jobQueue'[y], s) <=> HasForget(jobQueue[y], s)
            /\ \A b : HasAccount(jobQueue'[y], s, b) <=> HasAccount(jobQueue[y], s, b)
            /\ LastIsDelete(jobQueue[y], s) => LastIsDelete(jobQueue'[y], s)
            /\ HasEnter(jobQueue'[y], s) => HasEnter(jobQueue[y], s)
            /\ OneEnter(jobQueue[y], s) => OneEnter(jobQueue'[y], s)
      BY <1>2, <1>4, TwoZones DEF PoppedFacts
    <2>5. \A y \in Zones : Home(y, s)' <=> Home(y, s)
      BY <1>1, <2>4 DEF Home
    <2>6. /\ Moving(s)' <=> Moving(s)
          /\ AtMove(s, MovePcs)' <=> AtMove(s, MovePcs)
          /\ AtMove(s, {"move"})' <=> AtMove(s, {"move"})
          /\ AtMove(s, {"moveEnter"})' <=> AtMove(s, {"moveEnter"})
          /\ Moving(s)' => tick'[Lobby].from = tick[Lobby].from
          /\ s \in tick'[Echo].todo \/ tick'[Echo].sid = s =>
                s \in tick[Echo].todo \/ tick[Echo].sid = s \/ s \in sessions[Echo]
      BY <1>2, <1>9, SameMoves
    <2>7. References(s)'
      <3>1. Accepted(s)'
        BY <2>1, <2>2, <2>3 DEF References
      <3>2. /\ refs'[s] # {} <=> zoneId'[s] # NoZone
            /\ refs'[s] # {} /\ Receive \notin refs'[s] => isDisconnect'[s]
            /\ userPtr'[s] => refs'[s] # {}
        BY <1>1, <2>1 DEF References
      <3>3. leaving'[s] # NoZone \/ user'[s] = "freed" => Gone(s)'
        BY <1>1, <2>1, <2>3 DEF References
      <3>4. /\ \A y \in Zones : HasDelete(jobQueue'[y], s) => Gone(s)'
            /\ \A a \in Accounts : HasAccount(jobQueue'[Lobby], s, a) => Gone(s)'
        BY <2>1, <2>3, <2>4, TwoZones DEF References
      <3> QED
        BY <3>1, <3>2, <3>3, <3>4 DEF References
    <2>8. OneDeparture(s)'
      BY <1>1, <2>1, <2>4, TwoZones DEF OneDeparture
    <2>9. InLobby(s)'
      BY <1>1, <1>6, <2>1, <2>2, <2>3, <2>4, <2>5, <2>6, TwoZones DEF InLobby
    <2>10. InEcho(s)'
      BY <1>1, <1>6, <2>1, <2>2, <2>3, <2>4, <2>5, <2>6, TwoZones DEF InEcho
    <2>11. AccountsGivenBack(s)'
      BY <1>1, <1>6, <2>1, <2>2, <2>4, <2>5, TwoZones DEF AccountsGivenBack
    <2> QED
      BY <2>7, <2>8, <2>9, <2>10, <2>11 DEF SessionIInv
  <1>13. \A u \in Sessions : SessionIInv(u)'
    BY <1>11, <1>12
  <1>14. \A u \in Sessions : LoginOnce(u)'
    BY <1>9
  <1> QED
    BY <1>2, <1>6, <1>8, <1>9, <1>10, <1>13, <1>14, AllParts

\* A job of s taken by the echo zone that sends another of s to the lobby.
LEMMA JobSent ==
  ASSUME EchoIInv, NEW kind, HasJob(Echo, kind), NEW s, s = Head(jobQueue[Echo]).sid,
         NEW x \in LobbyJobs, x.sid = s,
         jobQueue' = [[jobQueue EXCEPT ![Echo] = Tail(@)] EXCEPT ![Lobby] = Append(@, x)]
  PROVE  /\ s \in Sessions /\ QueuesOK'
         /\ Len(jobQueue'[Echo]) = Len(jobQueue[Echo]) - 1
         /\ \A y \in Zones : y # Echo => Len(jobQueue'[y]) >= Len(jobQueue[y])
         /\ \A u : u # s => SameQueues(u)
         /\ PoppedFacts(jobQueue[Echo], Head(jobQueue[Echo]), jobQueue'[Echo], s)
         /\ PushedFacts(jobQueue[Lobby], x, jobQueue'[Lobby], s)
PROOF
  <1>1. jobQueue[Echo] # <<>> /\ s \in Sessions /\ QueuesOK
    BY HeadJob, Parts, TwoZones
  <1>2. QueuesOK'
    BY <1>1, QueuesPopPush
  <1>3. jobQueue[Echo] \in Seq(Jobs) /\ jobQueue[Lobby] \in Seq(Jobs) /\ x \in Jobs
    BY <1>1, Queues, TwoZones DEF Jobs
  <1>4. /\ jobQueue'[Echo] = Tail(jobQueue[Echo])
        /\ jobQueue'[Lobby] = Append(jobQueue[Lobby], x)
    BY <1>1, TwoZones DEF QueuesOK
  <1>5. Len(jobQueue'[Echo]) = Len(jobQueue[Echo]) - 1
    <2>1. \A q \in Seq(Jobs) : q # <<>> => Len(Tail(q)) = Len(q) - 1
      OBVIOUS
    <2> QED
      BY <1>1, <1>3, <1>4, <2>1
  <1>6. Len(jobQueue'[Lobby]) >= Len(jobQueue[Lobby])
    BY <1>3, <1>4
  <1>7. \A u : u # s => SameQueues(u)
    <2> SUFFICES ASSUME NEW u, u # s
                 PROVE  SameQueues(u)
      OBVIOUS
    <2>1. SameJobs(jobQueue[Echo], jobQueue'[Echo], u)
      BY <1>1, <1>3, <1>4, PopOther
    <2>2. SameJobs(jobQueue[Lobby], jobQueue'[Lobby], u)
      BY <1>3, <1>4, PushOther
    <2> QED
      BY <2>1, <2>2, TwoZones DEF SameQueues
  <1>8. PoppedFacts(jobQueue[Echo], Head(jobQueue[Echo]), jobQueue'[Echo], s)
    BY <1>1, <1>3, <1>4, Popped
  <1>9. PushedFacts(jobQueue[Lobby], x, jobQueue'[Lobby], s)
    BY <1>3, <1>4, Pushed
  <1> QED
    BY <1>1, <1>2, <1>5, <1>6, <1>7, <1>8, <1>9, TwoZones

\* The maps after s has left z.
LeftMaps(z, s) ==
  /\ MapsOK'
  /\ sessions'[z] = sessions[z] \ {s} /\ userMap'[z] = userMap[z] \ {s}
  /\ \A y \in Zones : y # z => sessions'[y] = sessions[y] /\ userMap'[y] = userMap[y]

LEMMA LeaveMaps ==
  ASSUME EchoIInv, NEW z \in Zones, NEW s,
         sessions' = [sessions EXCEPT ![z] = @ \ {s}],
         userMap' = [userMap EXCEPT ![z] = @ \ {s}]
  PROVE  LeftMaps(z, s)
  BY Parts DEF MapsOK, LeftMaps

\* Of others, a departure changes nothing.
LEMMA LeaveOthers ==
  ASSUME EchoIInv, NEW z \in Zones, NEW s, LeftMaps(z, s),
         \A u : u # s => SameQueues(u),
         \A u \in Sessions : SameTicks(u),
         UNCHANGED <<zoneId, userPtr, isDisconnect, refs, recvedPackets, leaving, account>>,
         \A u \in Sessions : u # s => user'[u] = user[u],
         \A u \in Sessions, b \in Accounts : accountMap'[b] = u => accountMap[b] = u
  PROVE  \A u \in Sessions : u # s => SessionIInv(u)'
PROOF
  <1> SUFFICES ASSUME NEW u \in Sessions, u # s
               PROVE  SessionIInv(u)'
    OBVIOUS
  <1>1. SameSession(u)
    BY DEF SameSession
  <1>2. \A y \in Zones : /\ u \in sessions'[y] <=> u \in sessions[y]
                         /\ u \in userMap'[y] <=> u \in userMap[y]
    BY DEF LeftMaps
  <1>3. SameUser(u)
    BY <1>2 DEF SameUser
  <1> QED
    BY <1>1, <1>3, Parts, Bystander DEF Same

\* A session that moved: the lobby forgets it.
LEMMA LeaveForgets ==
  ASSUME EchoIInv, Leave(Lobby), NEW s, s = Head(jobQueue[Lobby]).sid,
         ~Head(jobQueue[Lobby]).delete
  PROVE  EchoIInv'
PROOF
  <1> DEFINE x == Head(jobQueue[Lobby])
  <1>1. /\ HasJob(Lobby, "leave") /\ JobDone(Lobby)
        /\ jobQueue' = [jobQueue EXCEPT ![Lobby] = Tail(@)]
        /\ sessions' = [sessions EXCEPT ![Lobby] = @ \ {s}]
        /\ userMap' = [userMap EXCEPT ![Lobby] = @ \ {s}]
        /\ user' = [user EXCEPT ![s] = user[s]] /\ accountMap' = accountMap
        /\ UNCHANGED <<zoneId, userPtr, isDisconnect, refs, recvedPackets, leaving>>
        /\ UNCHANGED <<account, client>>
    BY DEF Leave, sessionVars
  <1>2. /\ s \in Sessions /\ QueuesOK'
        /\ Len(jobQueue'[Lobby]) = Len(jobQueue[Lobby]) - 1
        /\ \A y \in Zones : y # Lobby => jobQueue'[y] = jobQueue[y]
                                     /\ Len(jobQueue'[y]) >= Len(jobQueue[y])
        /\ \A u : u # s => SameQueues(u)
        /\ PoppedFacts(jobQueue[Lobby], x, jobQueue'[Lobby], s)
    BY <1>1, JobTaken, TwoZones
  <1>3. x \in Jobs /\ x.kind = "leave" /\ x.sid = s /\ x.delete = FALSE
    BY <1>1, HeadJob, JobShapes, TwoZones
  <1>4. ~IsEnter(x, s) /\ ~IsDelete(x, s) /\ IsForget(x, s) /\ \A a : ~IsAccount(x, s, a)
    BY <1>3, JobKinds
  <1>5. HasForget(jobQueue[Lobby], s)
    BY <1>2, <1>4, HeadIn
  <1> HIDE DEF x
  <1>6. LeftMaps(Lobby, s)
    BY <1>1, LeaveMaps, TwoZones
  <1>7. user' = user
    BY <1>1, Parts DEF UsersOK
  <1>8. SessionsOK' /\ UsersOK'
    BY <1>1, <1>7, Parts, UnchangedParts DEF UsersOK
  <1>9. TicksOK' /\ TickHolds' /\ \A u \in Sessions : SameTicks(u) /\ LoginOnce(u)'
    BY <1>1, <1>2, JobRun, TwoZones
  <1>10. LoginsKnown'
    BY <1>1, LoginsKnownKept
  <1>11. \A u \in Sessions : u # s => SessionIInv(u)'
    BY <1>1, <1>2, <1>6, <1>7, <1>9, LeaveOthers, TwoZones
  <1>12. SessionIInv(s)'
    <2>1. References(s) /\ OneDeparture(s) /\ InLobby(s) /\ InEcho(s) /\ AccountsGivenBack(s)
      BY <1>2, Parts DEF SessionIInv
    <2>2. Known(s) /\ ~Home(Lobby, s) /\ user[s] # "none" /\ ~HasEnter(jobQueue[Lobby], s)
      BY <1>5, <2>1 DEF InEcho, InLobby
    <2>3. /\ Known(s)' /\ (Accepted(s)' <=> Accepted(s)) /\ (Gone(s)' <=> Gone(s))
      BY <1>1, <2>2 DEF Known, Accepted, Gone
    <2>4. \A y \in Zones :
            /\ HasDelete(jobQueue'[y], s) <=> HasDelete(jobQueue[y], s)
            /\ HasForget(jobQueue'[y], s) => HasForget(jobQueue[y], s)
            /\ \A b : HasAccount(jobQueue'[y], s, b) <=> HasAccount(jobQueue[y], s, b)
            /\ LastIsDelete(jobQueue[y], s) => LastIsDelete(jobQueue'[y], s)
            /\ HasEnter(jobQueue'[y], s) <=> HasEnter(jobQueue[y], s)
            /\ OneEnter(jobQueue[y], s) => OneEnter(jobQueue'[y], s)
      BY <1>2, <1>4, TwoZones DEF PoppedFacts
    <2>5. \A y \in Zones : Home(y, s)' <=> Home(y, s)
      BY <1>1, <2>4 DEF Home
    <2>6. /\ Moving(s)' <=> Moving(s)
          /\ AtMove(s, MovePcs)' <=> AtMove(s, MovePcs)
          /\ AtMove(s, {"move"})' <=> AtMove(s, {"move"})
          /\ AtMove(s, {"moveEnter"})' <=> AtMove(s, {"moveEnter"})
          /\ Moving(s)' => tick'[Lobby].from = tick[Lobby].from
          /\ s \in tick'[Echo].todo \/ tick'[Echo].sid = s =>
                s \in tick[Echo].todo \/ tick[Echo].sid = s \/ s \in sessions[Echo]
      BY <1>2, <1>9, SameMoves
    <2>7. References(s)'
      <3>1. Accepted(s)'
        BY <2>1, <2>2, <2>3 DEF References
      <3>2. /\ refs'[s] # {} <=> zoneId'[s] # NoZone
            /\ refs'[s] # {} /\ Receive \notin refs'[s] => isDisconnect'[s]
            /\ userPtr'[s] => refs'[s] # {}
        BY <1>1, <2>1 DEF References
      <3>3. leaving'[s] # NoZone \/ user'[s] = "freed" => Gone(s)'
        BY <1>1, <1>7, <2>1, <2>3 DEF References
      <3>4. /\ \A y \in Zones : HasDelete(jobQueue'[y], s) => Gone(s)'
            /\ \A a \in Accounts : HasAccount(jobQueue'[Lobby], s, a) => Gone(s)'
        BY <2>1, <2>3, <2>4, TwoZones DEF References
      <3> QED
        BY <3>1, <3>2, <3>3, <3>4 DEF References
    <2>8. OneDeparture(s)'
      BY <1>1, <1>7, <2>1, <2>4, TwoZones DEF OneDeparture
    <2>9. InLobby(s)'
      <3>1. s \notin sessions'[Lobby] \cup userMap'[Lobby] /\ ~HasEnter(jobQueue'[Lobby], s)
        BY <1>6, <2>2, <2>4, TwoZones DEF LeftMaps
      <3>2. refs'[s] # {} => userPtr'[s]
        BY <1>1, <2>1, <2>2 DEF InLobby
      <3> QED
        BY <3>1, <3>2 DEF InLobby
    <2>10. InEcho(s)'
      BY <1>1, <1>6, <1>7, <2>1, <2>2, <2>3, <2>4, <2>5, <2>6, TwoZones DEF InEcho, LeftMaps
    <2>11. AccountsGivenBack(s)'
      BY <1>1, <1>6, <2>1, <2>2, <2>4, <2>5, <2>6, TwoZones DEF AccountsGivenBack, LeftMaps
    <2> QED
      BY <2>7, <2>8, <2>9, <2>10, <2>11 DEF SessionIInv
  <1>13. \A u \in Sessions : SessionIInv(u)'
    BY <1>11, <1>12
  <1>14. \A u \in Sessions : LoginOnce(u)'
    BY <1>9
  <1>15. MapsOK'
    BY <1>6 DEF LeftMaps
  <1> QED
    BY <1>2, <1>8, <1>9, <1>10, <1>13, <1>14, <1>15, AllParts

\* A session that is told to leave z for good is gone, and nobody else will
\* be told.
IsDeparting(z, s, r) ==
  /\ Gone(s) /\ zoneId[s] = NoZone /\ leaving[s] = NoZone /\ user[s] # "freed"
  /\ ~Moving(s) /\ ~AtMove(s, MovePcs)
  /\ HasDelete(jobQueue[z], s) /\ ~HasDelete(r, s)
  /\ ~HasEnter(jobQueue[z], s) /\ ~HasEnter(r, s)
  /\ \A y \in Zones : y # z => ~Home(y, s)

LEMMA Departing ==
  ASSUME EchoIInv, NEW z \in Zones, NEW s \in Sessions, NEW x, NEW r,
         IsDelete(x, s), ~IsEnter(x, s), PoppedFacts(jobQueue[z], x, r, s)
  PROVE  IsDeparting(z, s, r)
PROOF
  <1>1. References(s) /\ OneDeparture(s)
    BY Parts DEF SessionIInv
  <1>2. HasDelete(jobQueue[z], s)
    BY HeadIn
  <1>3. Gone(s)
    BY <1>1, <1>2 DEF References
  <1>4. zoneId[s] = NoZone
    BY <1>1, <1>3 DEF References, Gone
  <1>5. leaving[s] = NoZone /\ user[s] # "freed" /\ LastIsDelete(jobQueue[z], s)
    BY <1>1, <1>2 DEF OneDeparture
  <1>6. ~HasDelete(r, s) /\ ~HasEnter(r, s)
    BY <1>5 DEF PoppedFacts
  <1>7. ~HasEnter(jobQueue[z], s)
    BY <1>6 DEF PoppedFacts
  <1>8. ~AtMove(s, MovePcs)
    BY <1>3, Parts, TwoZones DEF AtMove, HoldPcs, TickHolds, Gone
  <1>9. ~Moving(s)
    BY <1>8 DEF Moving, AtMove, MovePcs
  <1>10. \A y \in Zones : y # z => ~HasDelete(jobQueue[y], s)
    BY <1>1, <1>2, TwoZones DEF OneDeparture
  <1>11. \A y \in Zones : y # z => ~Home(y, s)
    BY <1>4, <1>5, <1>10, MembersAssumption DEF Home
  <1> QED
    BY <1>2, <1>3, <1>4, <1>5, <1>6, <1>7, <1>8, <1>9, <1>11 DEF IsDeparting

\* The lobby frees the user of a session that is gone, unless it has none.
LEMMA LeaveFrees ==
  ASSUME EchoIInv, Leave(Lobby), NEW s, s = Head(jobQueue[Lobby]).sid,
         Head(jobQueue[Lobby]).delete = TRUE
  PROVE  EchoIInv'
PROOF
  <1> DEFINE x == Head(jobQueue[Lobby])
             free == s \in userMap[Lobby]
  <1>1. /\ HasJob(Lobby, "leave") /\ JobDone(Lobby)
        /\ jobQueue' = [jobQueue EXCEPT ![Lobby] = Tail(@)]
        /\ sessions' = [sessions EXCEPT ![Lobby] = @ \ {s}]
        /\ userMap' = [userMap EXCEPT ![Lobby] = @ \ {s}]
        /\ user' = [user EXCEPT ![s] = IF free THEN "freed" ELSE @]
        /\ accountMap' = IF free THEN ReleaseAccountNo(account[s], s) ELSE accountMap
        /\ UNCHANGED <<zoneId, userPtr, isDisconnect, refs, recvedPackets, leaving>>
        /\ UNCHANGED <<account, client>>
    BY TwoZones DEF Leave, sessionVars
  <1>2. /\ s \in Sessions /\ QueuesOK'
        /\ Len(jobQueue'[Lobby]) = Len(jobQueue[Lobby]) - 1
        /\ \A y \in Zones : y # Lobby => jobQueue'[y] = jobQueue[y]
                                     /\ Len(jobQueue'[y]) >= Len(jobQueue[y])
        /\ \A u : u # s => SameQueues(u)
        /\ PoppedFacts(jobQueue[Lobby], x, jobQueue'[Lobby], s)
    BY <1>1, JobTaken, TwoZones
  <1>3. x \in Jobs /\ x.kind = "leave" /\ x.sid = s /\ x.delete = TRUE
    BY <1>1, HeadJob, JobShapes, TwoZones
  <1>4. ~IsEnter(x, s) /\ IsDelete(x, s) /\ ~IsForget(x, s) /\ \A a : ~IsAccount(x, s, a)
    BY <1>3, JobKinds
  <1> HIDE DEF x
  <1>5. /\ Gone(s) /\ zoneId[s] = NoZone /\ leaving[s] = NoZone /\ user[s] # "freed"
        /\ ~Moving(s) /\ ~AtMove(s, MovePcs)
        /\ ~HasDelete(jobQueue'[Lobby], s)
        /\ ~HasEnter(jobQueue[Lobby], s) /\ ~HasEnter(jobQueue'[Lobby], s)
        /\ ~Home(Echo, s)
    <2>1. /\ Lobby \in Zones /\ s \in Sessions /\ IsDelete(x, s) /\ ~IsEnter(x, s)
          /\ PoppedFacts(jobQueue[Lobby], x, jobQueue'[Lobby], s)
      BY <1>2, <1>4, TwoZones
    <2>2. PICK r : r = jobQueue'[Lobby]
      OBVIOUS
    <2>3. PoppedFacts(jobQueue[Lobby], x, r, s)
      BY <2>1, <2>2
    <2>4. IsDeparting(Lobby, s, r)
      BY <2>1, <2>3, Departing
    <2> QED
      BY <2>2, <2>4, TwoZones DEF IsDeparting
  <1>6. LeftMaps(Lobby, s)
    BY <1>1, LeaveMaps, TwoZones
  <1>7. /\ user' \in [Sessions -> {"none", "alloc", "freed"}]
        /\ \A u \in Sessions : u # s => user'[u] = user[u]
        /\ user'[s] = IF free THEN "freed" ELSE user[s]
    BY <1>1, <1>2, Parts DEF UsersOK
  <1>8. /\ accountMap' \in [Accounts -> Sessions \cup {NoSession}]
        /\ \A b \in Accounts : accountMap'[b] = IF free /\ b = account[s] /\ accountMap[b] = s
                                                THEN NoSession ELSE accountMap[b]
    <2>1. accountMap \in [Accounts -> Sessions \cup {NoSession}]
      BY Parts DEF UsersOK
    <2>2. CASE free
      BY <1>1, <2>1, <2>2 DEF ReleaseAccountNo
    <2>3. CASE ~free
      BY <1>1, <2>1, <2>3
    <2> QED
      BY <2>2, <2>3
  <1>9. \A u \in Sessions, b \in Accounts : accountMap'[b] = u => accountMap[b] = u
    BY <1>8, MembersAssumption
  <1>10. SessionsOK' /\ UsersOK' /\ MapsOK'
    <2>1. account' \in [Sessions -> Accounts \cup {NoAccount}]
          /\ client' \in [Sessions -> {"silent", "waiting", "in", "asked"}]
      BY <1>1, Parts DEF UsersOK
    <2>2. SessionsOK'
      BY <1>1, UnchangedParts
    <2> QED
      BY <1>6, <1>7, <1>8, <2>1, <2>2 DEF UsersOK, LeftMaps
  <1>11. TicksOK' /\ TickHolds' /\ \A u \in Sessions : SameTicks(u) /\ LoginOnce(u)'
    BY <1>1, <1>2, JobRun, TwoZones
  <1>12. LoginsKnown'
    <2> SUFFICES ASSUME NEW u \in Sessions, account'[u] # NoAccount, ~isDisconnect'[u]
                 PROVE  accountMap'[account'[u]] = u
      BY DEF LoginsKnown
    <2>1. account[u] \in Accounts /\ accountMap[account[u]] = u /\ ~isDisconnect[u]
      BY <1>1, Parts DEF LoginsKnown, UsersOK
    <2>2. u # s
      BY <1>5, <2>1 DEF Gone
    <2> QED
      BY <1>1, <1>8, <2>1, <2>2
  <1>13. \A u \in Sessions : u # s => SessionIInv(u)'
    BY <1>1, <1>2, <1>6, <1>7, <1>9, <1>11, LeaveOthers, TwoZones
  <1>14. SessionIInv(s)'
    <2>1. References(s) /\ OneDeparture(s) /\ InLobby(s) /\ InEcho(s) /\ AccountsGivenBack(s)
      BY <1>2, Parts DEF SessionIInv
    <2>2. /\ Known(s)' <=> Known(s)
          /\ Accepted(s)' /\ Gone(s)' /\ refs'[s] = {} /\ refs[s] = {}
          /\ zoneId'[s] = NoZone /\ leaving'[s] = NoZone
      BY <1>1, <1>5 DEF Known, Accepted, Gone
    <2>3. \A y \in Zones :
            /\ HasForget(jobQueue'[y], s) <=> HasForget(jobQueue[y], s)
            /\ \A b : HasAccount(jobQueue'[y], s, b) <=> HasAccount(jobQueue[y], s, b)
            /\ LastIsDelete(jobQueue[y], s) => LastIsDelete(jobQueue'[y], s)
            /\ HasEnter(jobQueue'[y], s) => HasEnter(jobQueue[y], s)
      BY <1>2, <1>4, TwoZones DEF PoppedFacts
    <2>4. ~HasDelete(jobQueue'[Lobby], s) /\ ~HasDelete(jobQueue'[Echo], s)
      BY <1>2, <1>5, TwoZones DEF Home
    <2>5. ~Home(Lobby, s)' /\ ~Home(Echo, s)'
      BY <2>2, <2>4, MembersAssumption, TwoZones DEF Home
    <2>6. /\ ~Moving(s)' /\ ~AtMove(s, MovePcs)' /\ ~AtMove(s, {"move"})'
          /\ s \in tick'[Echo].todo \/ tick'[Echo].sid = s =>
                s \in tick[Echo].todo \/ tick[Echo].sid = s \/ s \in sessions[Echo]
      <3>1. ~AtMove(s, {"move"})
        BY <1>5 DEF AtMove, MovePcs
      <3> QED
        BY <1>2, <1>5, <1>11, <3>1, SameMoves
    <2>7. user[s] # "none" => user'[s] # "none"
      BY <1>7
    <2>8. References(s)'
      <3>1. /\ refs'[s] # {} <=> zoneId'[s] # NoZone
            /\ refs'[s] # {} /\ Receive \notin refs'[s] => isDisconnect'[s]
            /\ userPtr'[s] => refs'[s] # {}
        BY <1>1, <2>1 DEF References
      <3> QED
        BY <2>2, <3>1 DEF References
    <2>9. OneDeparture(s)'
      <3>1. \A y \in Zones : LastIsDelete(jobQueue'[y], s) /\ ~HasDelete(jobQueue'[y], s)
        BY <2>1, <2>3, <2>4, TwoZones DEF OneDeparture
      <3> QED
        BY <2>2, <3>1, TwoZones DEF OneDeparture
    <2>10. InLobby(s)'
      <3>1. s \notin sessions'[Lobby] \cup userMap'[Lobby]
        BY <1>6 DEF LeftMaps
      <3> QED
        BY <1>5, <2>2, <3>1 DEF InLobby
    <2>11. InEcho(s)'
      <3>1. s \notin sessions[Echo] \cup userMap[Echo] /\ ~HasEnter(jobQueue[Echo], s)
        BY <1>5, <2>1 DEF InEcho
      <3>2. s \notin sessions'[Echo] \cup userMap'[Echo] /\ ~HasEnter(jobQueue'[Echo], s)
        BY <1>6, <2>3, <3>1, TwoZones DEF LeftMaps
      <3>3. s \in tick'[Echo].todo \/ tick'[Echo].sid = s => Known(s)'
        BY <2>1, <2>2, <2>6, <3>1 DEF InEcho
      <3>4. (HasForget(jobQueue[Lobby], s) => Known(s))' /\ (Known(s) => user[s] # "none")'
        BY <2>1, <2>2, <2>3, <2>7, TwoZones DEF InEcho
      <3> QED
        BY <2>5, <2>6, <3>2, <3>3, <3>4 DEF InEcho
    <2>12. AccountsGivenBack(s)'
      <3> SUFFICES ASSUME NEW b \in Accounts, accountMap'[b] = s
                   PROVE  /\ account'[s] = b
                          /\ HasAccount(jobQueue'[Lobby], s, b)
        BY DEF AccountsGivenBack
      <3>1. accountMap[b] = s /\ account[s] = b
        BY <1>2, <1>9, <2>1 DEF AccountsGivenBack
      <3>2. ~free
        BY <1>2, <1>8, <3>1, MembersAssumption
      <3>3. s \notin userMap[Lobby]
        BY <3>2
      <3>4. HasAccount(jobQueue[Lobby], s, b)
        BY <1>5, <2>1, <3>1, <3>3 DEF AccountsGivenBack
      <3> QED
        BY <1>1, <2>3, <3>1, <3>4, TwoZones
    <2> QED
      BY <2>8, <2>9, <2>10, <2>11, <2>12 DEF SessionIInv
  <1>15. \A u \in Sessions : SessionIInv(u)'
    BY <1>13, <1>14
  <1>16. \A u \in Sessions : LoginOnce(u)'
    BY <1>11
  <1> QED
    BY <1>2, <1>10, <1>11, <1>12, <1>15, <1>16, AllParts

\* The echo zone frees the user of a session that is gone, unless it has
\* none, and sends the lobby its account.
LEMMA LeaveEcho ==
  ASSUME EchoIInv, Leave(Echo), NEW s, s = Head(jobQueue[Echo]).sid
  PROVE  EchoIInv'
PROOF
  <1> DEFINE x == Head(jobQueue[Echo])
             free == s \in userMap[Echo]
             y == [kind |-> "account", sid |-> s, account |-> account[s]]
  <1>1. HasJob(Echo, "leave")
    BY DEF Leave
  <1>2. x \in Jobs /\ x.kind = "leave" /\ x.sid = s /\ x.delete = TRUE /\ s \in Sessions
    BY <1>1, HeadJob, JobShapes, TwoZones
  <1>3. /\ JobDone(Echo)
        /\ sessions' = [sessions EXCEPT ![Echo] = @ \ {s}]
        /\ userMap' = [userMap EXCEPT ![Echo] = @ \ {s}]
        /\ user' = [user EXCEPT ![s] = IF free THEN "freed" ELSE @]
        /\ jobQueue' = IF free THEN [[jobQueue EXCEPT ![Echo] = Tail(@)] EXCEPT ![Lobby] = Append(@, y)]
                               ELSE [jobQueue EXCEPT ![Echo] = Tail(@)]
        /\ UNCHANGED <<zoneId, userPtr, isDisconnect, refs, recvedPackets, leaving>>
        /\ UNCHANGED <<account, accountMap, client>>
    BY <1>2, TwoZones DEF Leave, sessionVars
  <1>4. ~IsEnter(x, s) /\ IsDelete(x, s) /\ ~IsForget(x, s) /\ \A a : ~IsAccount(x, s, a)
    BY <1>2, JobKinds
  <1>5. References(s) /\ OneDeparture(s) /\ InLobby(s) /\ InEcho(s) /\ AccountsGivenBack(s)
    BY <1>2, Parts DEF SessionIInv
  <1>6. PoppedFacts(jobQueue[Echo], x, Tail(jobQueue[Echo]), s)
    BY <1>1, HeadJob, Popped, TwoZones
  <1> HIDE DEF x, y
  <1>7. /\ Gone(s) /\ zoneId[s] = NoZone /\ leaving[s] = NoZone /\ user[s] # "freed"
        /\ ~Moving(s) /\ ~AtMove(s, MovePcs)
        /\ HasDelete(jobQueue[Echo], s) /\ ~HasDelete(Tail(jobQueue[Echo]), s)
        /\ ~HasEnter(jobQueue[Echo], s) /\ ~HasEnter(Tail(jobQueue[Echo]), s)
        /\ ~Home(Lobby, s)
    <2>1. Echo \in Zones /\ s \in Sessions /\ IsDelete(x, s) /\ ~IsEnter(x, s)
      BY <1>2, <1>4, TwoZones
    <2>2. PICK r : r = Tail(jobQueue[Echo])
      OBVIOUS
    <2>3. PoppedFacts(jobQueue[Echo], x, r, s)
      BY <1>6, <2>2
    <2>4. IsDeparting(Echo, s, r)
      BY <2>1, <2>3, Departing
    <2> QED
      BY <2>2, <2>4, TwoZones DEF IsDeparting
  <1>8. Known(s) /\ user[s] = "alloc" /\ account[s] \in Accounts /\ ~HasEnter(jobQueue[Lobby], s)
    <2>1. Known(s)
      BY <1>5, <1>7 DEF InEcho, Home
    <2>2. user[s] # "none" /\ account[s] \in Accounts /\ user[s] \in {"none", "alloc", "freed"}
      BY <1>2, <1>5, <2>1, Parts DEF InEcho, Known, UsersOK
    <2> QED
      BY <1>5, <1>7, <2>1, <2>2 DEF InLobby
  <1>9. y \in LobbyJobs /\ y.sid = s
    BY <1>2, <1>8, JobFields DEF y
  <1>10. ~IsEnter(y, s) /\ ~IsDelete(y, s) /\ ~IsForget(y, s)
         /\ \A a : IsAccount(y, s, a) <=> a = account[s]
    <2>1. y.kind = "account" /\ y.account = account[s] /\ y \in Jobs
      BY <1>9 DEF y, Jobs
    <2> QED
      BY <1>9, <2>1, JobKinds
  <1>11. /\ QueuesOK'
         /\ Len(jobQueue'[Echo]) = Len(jobQueue[Echo]) - 1
         /\ \A w \in Zones : w # Echo => Len(jobQueue'[w]) >= Len(jobQueue[w])
         /\ \A u : u # s => SameQueues(u)
         /\ jobQueue'[Echo] = Tail(jobQueue[Echo])
         /\ free => PushedFacts(jobQueue[Lobby], y, jobQueue'[Lobby], s)
         /\ ~free => jobQueue'[Lobby] = jobQueue[Lobby]
    <2>1. QueuesOK
      BY Parts
    <2>2. CASE free
      <3>1. jobQueue' = [[jobQueue EXCEPT ![Echo] = Tail(@)] EXCEPT ![Lobby] = Append(@, y)]
        BY <1>3, <2>2
      <3>2. jobQueue'[Echo] = Tail(jobQueue[Echo])
        BY <2>1, <3>1, TwoZones DEF QueuesOK
      <3> QED
        BY <1>1, <1>9, <2>2, <3>1, <3>2, JobSent
    <2>3. CASE ~free
      <3>1. jobQueue' = [jobQueue EXCEPT ![Echo] = Tail(@)]
        BY <1>3, <2>3
      <3>2. jobQueue'[Echo] = Tail(jobQueue[Echo])
        BY <2>1, <3>1, TwoZones DEF QueuesOK
      <3>3. /\ QueuesOK'
            /\ Len(jobQueue'[Echo]) = Len(jobQueue[Echo]) - 1
            /\ \A w \in Zones : w # Echo => jobQueue'[w] = jobQueue[w]
                                     /\ Len(jobQueue'[w]) >= Len(jobQueue[w])
            /\ \A u : u # s => SameQueues(u)
        BY <1>1, <3>1, JobTaken, TwoZones
      <3> QED
        BY <2>3, <3>2, <3>3, TwoZones
    <2> QED
      BY <2>2, <2>3
  <1>12. LeftMaps(Echo, s)
    BY <1>3, LeaveMaps, TwoZones
  <1>13. /\ user' \in [Sessions -> {"none", "alloc", "freed"}]
         /\ \A u \in Sessions : u # s => user'[u] = user[u]
         /\ user'[s] = IF free THEN "freed" ELSE user[s]
    BY <1>2, <1>3, Parts DEF UsersOK
  <1>14. SessionsOK' /\ UsersOK' /\ MapsOK'
    <2>1. /\ account' \in [Sessions -> Accounts \cup {NoAccount}]
          /\ accountMap' \in [Accounts -> Sessions \cup {NoSession}]
          /\ client' \in [Sessions -> {"silent", "waiting", "in", "asked"}]
      BY <1>3, Parts DEF UsersOK
    <2>2. SessionsOK'
      BY <1>3, UnchangedParts
    <2> QED
      BY <1>12, <1>13, <2>1, <2>2 DEF UsersOK, LeftMaps
  <1>15. TicksOK' /\ TickHolds' /\ \A u \in Sessions : SameTicks(u) /\ LoginOnce(u)'
    BY <1>1, <1>3, <1>11, JobRun, TwoZones
  <1>16. LoginsKnown'
    BY <1>3, LoginsKnownKept
  <1>17. \A u \in Sessions : u # s => SessionIInv(u)'
    BY <1>3, <1>11, <1>12, <1>13, <1>15, LeaveOthers, TwoZones
  <1>18. SessionIInv(s)'
    <2>1. /\ Known(s)' /\ Accepted(s)' /\ Gone(s)' /\ refs'[s] = {}
          /\ zoneId'[s] = NoZone /\ leaving'[s] = NoZone /\ user'[s] # "none"
      BY <1>3, <1>7, <1>8, <1>13 DEF Known, Accepted, Gone
    <2>2. /\ HasDelete(jobQueue'[Lobby], s) <=> HasDelete(jobQueue[Lobby], s)
          /\ HasForget(jobQueue'[Lobby], s) <=> HasForget(jobQueue[Lobby], s)
          /\ LastIsDelete(jobQueue[Lobby], s) => LastIsDelete(jobQueue'[Lobby], s)
          /\ ~HasEnter(jobQueue'[Lobby], s)
          /\ \A b : HasAccount(jobQueue[Lobby], s, b) => HasAccount(jobQueue'[Lobby], s, b)
          /\ free => HasAccount(jobQueue'[Lobby], s, account[s])
      BY <1>8, <1>10, <1>11 DEF PushedFacts
    <2>3. /\ ~HasDelete(jobQueue'[Echo], s) /\ ~HasEnter(jobQueue'[Echo], s)
          /\ LastIsDelete(jobQueue[Echo], s) => LastIsDelete(jobQueue'[Echo], s)
      BY <1>6, <1>7, <1>11 DEF PoppedFacts
    <2>4. ~HasDelete(jobQueue'[Lobby], s)
      BY <1>7, <2>2 DEF Home
    <2>5. ~Home(Lobby, s)' /\ ~Home(Echo, s)'
      BY <2>1, <2>3, <2>4, MembersAssumption, TwoZones DEF Home
    <2>6. ~Moving(s)' /\ ~AtMove(s, MovePcs)' /\ ~AtMove(s, {"move"})'
      <3>1. ~AtMove(s, {"move"})
        BY <1>7 DEF AtMove, MovePcs
      <3> QED
        BY <1>2, <1>7, <1>15, <3>1, SameMoves
    <2>7. References(s)'
      <3>1. /\ refs'[s] # {} <=> zoneId'[s] # NoZone
            /\ refs'[s] # {} /\ Receive \notin refs'[s] => isDisconnect'[s]
            /\ userPtr'[s] => refs'[s] # {}
        BY <1>3, <1>5 DEF References
      <3> QED
        BY <2>1, <3>1 DEF References
    <2>8. OneDeparture(s)'
      <3>1. \A w \in Zones : LastIsDelete(jobQueue'[w], s) /\ ~HasDelete(jobQueue'[w], s)
        BY <1>5, <2>2, <2>3, <2>4, TwoZones DEF OneDeparture
      <3> QED
        BY <2>1, <3>1, TwoZones DEF OneDeparture
    <2>9. InLobby(s)'
      <3>1. s \in sessions'[Lobby] \cup userMap'[Lobby] => HasForget(jobQueue'[Lobby], s)
        BY <1>5, <1>7, <1>12, <2>2, TwoZones DEF InLobby, LeftMaps
      <3> QED
        BY <2>1, <2>2, <3>1 DEF InLobby
    <2>10. InEcho(s)'
      <3>1. s \notin sessions'[Echo] \cup userMap'[Echo]
        BY <1>12 DEF LeftMaps
      <3> QED
        BY <2>1, <2>3, <2>5, <2>6, <3>1 DEF InEcho
    <2>11. AccountsGivenBack(s)'
      <3> SUFFICES ASSUME NEW b \in Accounts, accountMap'[b] = s
                   PROVE  /\ account'[s] = b
                          /\ HasAccount(jobQueue'[Lobby], s, b)
        BY DEF AccountsGivenBack
      <3>1. accountMap[b] = s /\ account[s] = b /\ account'[s] = b
        BY <1>3, <1>5 DEF AccountsGivenBack
      <3>2. ~AtMove(s, {"moveEnter"})
        BY <1>7 DEF Moving, AtMove
      <3>3. s \in userMap[Echo] \/ HasAccount(jobQueue[Lobby], s, b)
        BY <1>5, <1>7, <3>1, <3>2 DEF AccountsGivenBack
      <3> QED
        BY <2>2, <3>1, <3>3
    <2> QED
      BY <2>7, <2>8, <2>9, <2>10, <2>11 DEF SessionIInv
  <1>19. \A u \in Sessions : SessionIInv(u)'
    BY <1>17, <1>18
  <1>20. \A u \in Sessions : LoginOnce(u)'
    BY <1>15
  <1> QED
    BY <1>11, <1>14, <1>15, <1>16, <1>19, <1>20, AllParts

LEMMA LeaveKeeps ==
  ASSUME EchoIInv, NEW z \in Zones, Leave(z)
  PROVE  EchoIInv'
PROOF
  <1>1. PICK s : s = Head(jobQueue[z]).sid
    OBVIOUS
  <1>2. CASE z = Echo
    BY <1>1, <1>2, LeaveEcho
  <1>3. CASE z = Lobby
    <2>1. HasJob(Lobby, "leave")
      BY <1>3 DEF Leave
    <2>2. Head(jobQueue[Lobby]) \in Jobs /\ Head(jobQueue[Lobby]).kind = "leave"
      BY <2>1, HeadJob, TwoZones
    <2>3. Head(jobQueue[Lobby]).delete \in BOOLEAN
      BY <2>2, JobShapes
    <2>4. CASE Head(jobQueue[Lobby]).delete = TRUE
      BY <1>1, <1>3, <2>4, LeaveFrees
    <2>5. CASE Head(jobQueue[Lobby]).delete = FALSE
      BY <1>1, <1>3, <2>5, LeaveForgets
    <2> QED
      BY <2>3, <2>4, <2>5
  <1> QED
    BY <1>2, <1>3, TwoZones

\* A login makes its session known, and cuts off who had the account.
LEMMA RequestLoginKeeps ==
  ASSUME EchoIInv, NEW a \in Accounts, RequestLogin(a)
  PROVE  EchoIInv'
PROOF
  <1>0. PICK s : s = tick[Lobby].sid
    OBVIOUS
  <1>1. /\ tick[Lobby].pc = "handle" /\ tick[Lobby].msg = "login" /\ s \in userMap[Lobby]
        /\ accountMap' = [accountMap EXCEPT ![a] = s] /\ Disconnect({accountMap[a]})
        /\ account' = [account EXCEPT ![s] = a] /\ Goto(Lobby, "move")
        /\ UNCHANGED <<zoneId, userPtr, refs, recvedPackets, leaving, jobQueue, sessions>>
        /\ UNCHANGED <<userMap, user, client>>
    BY <1>0 DEF RequestLogin, Handles
  <1>2. "move" \in TickPcs /\ tick[Lobby].pc \in HoldPcs /\ tick[Lobby].pc \notin MovePcs
    BY <1>1 DEF TickPcs, HoldPcs, MovePcs
  <1>3. s \in Sessions /\ Lobby \in refs[s] /\ refs[s] # {}
    BY <1>0, <1>2, Parts, TwoZones DEF TickHolds
  <1>4. References(s) /\ OneDeparture(s) /\ InLobby(s) /\ InEcho(s) /\ AccountsGivenBack(s)
        /\ LoginOnce(s)
    BY <1>3, Parts DEF SessionIInv
  <1>5. HasLogin(Lobby, s, "handle") /\ ~Known(s) /\ client[s] # "silent"
    BY <1>0, <1>1, <1>4 DEF HasLogin, LoginOnce
  <1>6. /\ zoneId[s] # NoZone /\ leaving[s] = NoZone /\ user[s] # "freed"
        /\ \A z \in Zones : ~HasDelete(jobQueue[z], s) /\ (Home(z, s) <=> zoneId[s] = z)
        /\ \A b \in Accounts : ~HasAccount(jobQueue[Lobby], s, b)
        /\ Receive \notin refs[s] => isDisconnect[s]
    BY <1>3, Held
  <1>7. ~Moving(s) /\ ~AtMove(s, MovePcs) /\ ~HasForget(jobQueue[Lobby], s)
    BY <1>2, <1>4, <1>5 DEF Moving, AtMove, InEcho, MovePcs
  <1>8. Home(Lobby, s) /\ zoneId[s] = Lobby /\ user[s] # "none" /\ userPtr[s]
        /\ ~HasEnter(jobQueue[Lobby], s)
    BY <1>1, <1>3, <1>4, <1>6, <1>7, TwoZones DEF InLobby
  <1>9. /\ ~Home(Echo, s) /\ s \notin sessions[Echo] \cup userMap[Echo]
        /\ ~HasEnter(jobQueue[Echo], s) /\ s \notin tick[Echo].todo /\ tick[Echo].sid # s
    BY <1>4, <1>5 DEF InEcho
  <1>10. /\ TicksOK' /\ tick'[Echo] = tick[Echo] /\ tick'[Lobby].pc = "move"
         /\ tick'[Lobby].sid = s /\ tick'[Lobby].from = tick[Lobby].from
    BY <1>0, <1>1, <1>2, Parts, GotoTypes, TwoZones
  <1>11. /\ \A y \in Zones : tick'[y].pc = "jobs" => tick'[y] = tick[y]
         /\ \A y \in Zones : tick'[y].pc \in HoldPcs => tick[y].pc \in HoldPcs /\ tick'[y].sid = tick[y].sid
    BY <1>0, <1>2, <1>10, TwoZones
  <1>12. /\ isDisconnect' \in [Sessions -> BOOLEAN]
         /\ \A u \in Sessions : isDisconnect'[u] <=> isDisconnect[u] \/ (u = accountMap[a] /\ refs[u] # {})
    BY <1>1, CutDoes
  <1>13. /\ account' \in [Sessions -> Accounts \cup {NoAccount}]
         /\ account'[s] = a /\ \A u \in Sessions : u # s => account'[u] = account[u]
         /\ accountMap' \in [Accounts -> Sessions \cup {NoSession}]
         /\ accountMap'[a] = s /\ \A b \in Accounts : b # a => accountMap'[b] = accountMap[b]
    BY <1>1, <1>3, Parts DEF UsersOK
  <1>14. SessionsOK' /\ QueuesOK' /\ MapsOK' /\ UsersOK'
    <2>1. QueuesOK' /\ MapsOK'
      BY <1>1, UnchangedParts
    <2>2. SessionsOK'
      BY <1>1, <1>12, Parts DEF SessionsOK
    <2>3. UsersOK'
      BY <1>1, <1>13, Parts DEF UsersOK
    <2> QED
      BY <2>1, <2>2, <2>3
  <1>15. TickHolds'
    BY <1>1, <1>11, <1>14, LensStay, MoverHolds
  <1>16. LoginsKnown'
    <2> SUFFICES ASSUME NEW u \in Sessions, account'[u] # NoAccount, ~isDisconnect'[u]
                 PROVE  accountMap'[account'[u]] = u
      BY DEF LoginsKnown
    <2>1. CASE u = s
      BY <1>13, <2>1
    <2>2. CASE u # s
      <3>1. account'[u] = account[u] /\ account[u] \in Accounts /\ Known(u) /\ ~isDisconnect[u]
        BY <1>12, <1>13, <2>2, Parts DEF UsersOK, Known
      <3>2. accountMap[account[u]] = u
        BY <3>1, Parts DEF LoginsKnown, Known
      <3>3. refs[u] # {}
        BY <3>1, Parts DEF SessionIInv, References, Accepted
      <3>4. account[u] # a
        BY <1>12, <3>2, <3>3
      <3> QED
        BY <1>13, <3>1, <3>2, <3>4
    <2> QED
      BY <2>1, <2>2
  <1>17. \A u \in Sessions : u # s => SessionIInv(u)'
    <2> SUFFICES ASSUME NEW u \in Sessions, u # s
                 PROVE  SessionIInv(u)'
      OBVIOUS
    <2>1. SameSession(u)
      BY <1>1, <1>12 DEF SameSession
    <2>2. SameUser(u)
      BY <1>1, <1>13 DEF SameUser
    <2>3. SameTicks(u)
      BY <1>0, <1>2, <1>10 DEF SameTicks, AtMove, Moving, MovePcs
    <2> QED
      BY <1>1, <2>1, <2>2, <2>3, QueuesUnchanged, Parts, Bystander DEF Same
  <1>18. SessionIInv(s)'
    <2>1. Known(s)' /\ Accepted(s)' /\ ~Gone(s)'
      BY <1>1, <1>3, <1>13, EchoAssumption DEF Known, Accepted, Gone
    <2>2. \A y \in Zones : Home(y, s)' <=> Home(y, s)
      BY <1>1 DEF Home
    <2>3. ~Moving(s)'
      BY <1>10 DEF Moving, AtMove
    <2>4. References(s)'
      BY <1>1, <1>3, <1>4, <1>6, <1>12, <2>1 DEF References
    <2>5. OneDeparture(s)'
      BY <1>1, <1>4 DEF OneDeparture
    <2>6. InLobby(s)'
      BY <1>1, <1>8, <2>2, TwoZones DEF InLobby
    <2>7. InEcho(s)'
      BY <1>1, <1>7, <1>8, <1>9, <1>10, <2>1, <2>2, <2>3, TwoZones DEF InEcho
    <2>8. AccountsGivenBack(s)'
      <3> SUFFICES ASSUME NEW b \in Accounts, accountMap'[b] = s
                   PROVE  /\ account'[s] = b
                          /\ Home(Lobby, s)' /\ s \in userMap'[Lobby]
        BY DEF AccountsGivenBack
      <3>1. b = a
        <4>1. ASSUME b # a PROVE FALSE
          <5>1. account[s] = b
            BY <1>4, <1>13, <4>1 DEF AccountsGivenBack
          <5> QED
            BY <1>5, <5>1, EchoAssumption DEF Known
        <4> QED
          BY <4>1
      <3> QED
        BY <1>1, <1>8, <1>13, <2>2, <3>1, TwoZones
    <2> QED
      BY <2>4, <2>5, <2>6, <2>7, <2>8 DEF SessionIInv
  <1>19. \A u \in Sessions : SessionIInv(u)'
    BY <1>17, <1>18
  <1>20. \A y \in Zones : \A u \in Sessions : \A l \in {"take", "handle"} :
               HasLogin(y, u, l)' => HasLogin(y, u, l)
    BY <1>10, TwoZones DEF HasLogin
  <1>21. \A u \in Sessions : u # s => LoginOnce(u)'
    BY <1>1, <1>13, <1>20, Parts, LoginStays DEF LoginKept
  <1>22. LoginOnce(s)'
    <2>1. \A i : LoginAt(s, i)' <=> LoginAt(s, i)
      BY <1>1 DEF LoginAt
    <2>2. \A i \in DOMAIN recvedPackets[s] : ~LoginAt(s, i)
      BY <1>4, <1>5 DEF LoginOnce
    <2>3. ~HasLogin(Lobby, s, "handle")'
      BY <1>10 DEF HasLogin
    <2>4. ~HasLogin(Echo, s, "handle")'
      BY <1>3, <1>4, <1>20, TwoZones DEF LoginOnce
    <2>5. \A z \in Zones : HasLogin(z, s, "take")' => LoginAt(s, 1)'
      BY <1>3, <1>4, <1>20, <2>1 DEF LoginOnce
    <2> QED
      BY <1>1, <1>5, <2>1, <2>2, <2>3, <2>4, <2>5 DEF LoginOnce
  <1>23. \A u \in Sessions : LoginOnce(u)'
    BY <1>21, <1>22
  <1> QED
    BY <1>10, <1>14, <1>15, <1>16, <1>19, <1>23, AllParts

-----------------------------------------------------------------------------
(* The inductive invariant.                                                 *)

LEMMA InitKeeps ==
  ASSUME Init
  PROVE  EchoIInv
PROOF
  <1>1. /\ zoneId = [s \in Sessions |-> NoZone] /\ userPtr = [s \in Sessions |-> FALSE]
        /\ isDisconnect = [s \in Sessions |-> FALSE] /\ refs = [s \in Sessions |-> {}]
        /\ recvedPackets = [s \in Sessions |-> <<>>] /\ leaving = [s \in Sessions |-> NoZone]
        /\ jobQueue = [z \in Zones |-> <<>>] /\ sessions = [z \in Zones |-> {}]
        /\ tick = [z \in Zones |-> Idle] /\ userMap = [z \in Zones |-> {}]
        /\ user = [s \in Sessions |-> "none"] /\ account = [s \in Sessions |-> NoAccount]
        /\ accountMap = [b \in Accounts |-> NoSession] /\ client = [s \in Sessions |-> "silent"]
    BY DEF Init, InitMembers
  <1>2. Idle.pc = "idle" /\ Idle.sid = NoSession /\ Idle.todo = {}
    BY DEF Idle
  <1>3. SessionsOK /\ MapsOK /\ UsersOK
    BY <1>1 DEF SessionsOK, MapsOK, UsersOK
  <1>4. QueuesOK
    BY <1>1, TwoZones DEF QueuesOK
  <1>5. TicksOK
    BY <1>1, IdleTick DEF TicksOK
  <1>6. TickHolds
    BY <1>1, <1>2 DEF TickHolds, HoldPcs, MovePcs
  <1>7. LoginsKnown
    BY <1>1 DEF LoginsKnown
  <1>8. ASSUME NEW s \in Sessions
        PROVE  SessionIInv(s) /\ LoginOnce(s)
    <2>1. \A z \in Zones :
            /\ ~HasEnter(jobQueue[z], s) /\ ~HasDelete(jobQueue[z], s) /\ ~HasForget(jobQueue[z], s)
            /\ \A b : ~HasAccount(jobQueue[z], s, b)
            /\ LastIsDelete(jobQueue[z], s)
      BY <1>1 DEF HasEnter, HasDelete, HasForget, HasAccount, LastIsDelete
    <2>2. \A z \in Zones : ~Home(z, s)
      BY <1>1, <2>1, MembersAssumption DEF Home
    <2>3. /\ ~Moving(s) /\ ~AtMove(s, MovePcs) /\ ~AtMove(s, {"move"})
          /\ s \notin tick[Echo].todo /\ tick[Echo].sid # s
      BY <1>1, <1>2, MembersAssumption, TwoZones DEF Moving, AtMove, MovePcs
    <2>4. /\ zoneId[s] = NoZone /\ ~userPtr[s] /\ ~isDisconnect[s] /\ refs[s] = {}
          /\ recvedPackets[s] = <<>> /\ leaving[s] = NoZone /\ user[s] = "none" /\ ~Known(s)
          /\ \A z \in Zones : s \notin sessions[z] \cup userMap[z]
          /\ \A b \in Accounts : accountMap[b] # s
      BY <1>1, MembersAssumption DEF Known
    <2>5. References(s)
      BY <2>1, <2>4, TwoZones DEF References
    <2>6. OneDeparture(s)
      BY <2>1, <2>4, TwoZones DEF OneDeparture
    <2>7. InLobby(s)
      BY <2>1, <2>4, TwoZones DEF InLobby
    <2>8. InEcho(s)
      BY <2>1, <2>2, <2>3, <2>4, TwoZones DEF InEcho
    <2>9. AccountsGivenBack(s)
      BY <2>4 DEF AccountsGivenBack
    <2>10. LoginOnce(s)
      <3>1. DOMAIN recvedPackets[s] = {}
        BY <2>4
      <3>2. \A z \in Zones : \A l \in {"take", "handle"} : ~HasLogin(z, s, l)
        BY <1>1, <1>2 DEF HasLogin
      <3> QED
        BY <2>4, <3>1, <3>2, TwoZones DEF LoginOnce
    <2> QED
      BY <2>5, <2>6, <2>7, <2>8, <2>9, <2>10 DEF SessionIInv
  <1> QED
    BY <1>3, <1>4, <1>5, <1>6, <1>7, <1>8, TypeParts DEF EchoIInv

\* A tick of the library.
LEMMA LibraryTickKeeps ==
  ASSUME EchoIInv, NEW z \in Zones, LibraryTick(z)
  PROVE  EchoIInv'
PROOF
  <1>1. UsersUnchanged
    BY DEF LibraryTick, UsersUnchanged
  <1>2. \/ TickBegins(z) \/ JobsDone(z) \/ Look(z) \/ Take(z) \/ Drained(z)
        \/ \E s \in Sessions : TakeSession(z, s)
    BY DEF LibraryTick
  <1> QED
    BY <1>1, <1>2, TickBeginsKeeps, JobsDoneKeeps, LookKeeps, TakeKeeps, DrainedKeeps, TakeSessionKeeps

LEMMA MoveZoneKeeps ==
  ASSUME EchoIInv, MoveZone
  PROVE  EchoIInv'
PROOF
  <1>1. UsersUnchanged /\ (MoveCas(Lobby, Echo) \/ MoveEnter(Lobby, Echo) \/ MoveLeave(Lobby))
    BY DEF MoveZone, UsersUnchanged
  <1> QED
    BY <1>1, MoveCasKeeps, MoveEnterKeeps, MoveLeaveKeeps

LEMMA StutterKeeps ==
  ASSUME EchoIInv, UNCHANGED vars
  PROVE  EchoIInv'
PROOF
  <1>1. /\ UNCHANGED <<zoneId, userPtr, isDisconnect, refs, recvedPackets, leaving>>
        /\ UNCHANGED <<jobQueue, sessions, tick, userMap, user, account, accountMap, client>>
    BY DEF vars, memberVars, sessionVars
  <1>2. SessionsOK' /\ QueuesOK' /\ MapsOK' /\ UsersOK'
    BY <1>1, UnchangedParts
  <1>3. TicksOK'
    BY <1>1, Parts DEF TicksOK
  <1>4. TickHolds'
    BY <1>1, <1>2, LensStay, MoverHolds
  <1>5. LoginsKnown'
    BY <1>1, LoginsKnownKept
  <1>6. \A u \in Sessions : LoginOnce(u)'
    BY <1>1, LoginsStay DEF HasLogin
  <1>7. ASSUME NEW u \in Sessions
        PROVE  SessionIInv(u)'
    <2>1. SameSession(u)
      BY <1>1 DEF SameSession
    <2>2. SameTicks(u)
      BY <1>1 DEF SameTicks, AtMove
    <2> QED
      BY <1>1, <2>1, <2>2, QueuesUnchanged, MembersUnchanged, Parts, Bystander DEF Same
  <1> QED
    BY <1>2, <1>3, <1>4, <1>5, <1>6, <1>7, AllParts

LEMMA LobbyTickKeeps ==
  ASSUME EchoIInv, LobbyTick
  PROVE  EchoIInv'
  BY LibraryTickKeeps, LeaveKeeps, RefuseKeeps, OnUpdateKeeps, EnterLobbyKeeps,
     RunReleaseAccountNoKeeps, MoveZoneKeeps, RequestLoginKeeps, TwoZones DEF LobbyTick

LEMMA EchoTickKeeps ==
  ASSUME EchoIInv, EchoTick
  PROVE  EchoIInv'
  BY LibraryTickKeeps, LeaveKeeps, RefuseKeeps, OnUpdateKeeps, EnterEchoKeeps,
     RequestEchoKeeps, TwoZones DEF EchoTick

LEMMA NextKeeps ==
  ASSUME EchoIInv, [Next]_vars
  PROVE  EchoIInv'
PROOF
  <1>1. CASE UNCHANGED vars
    BY <1>1, StutterKeeps
  <1>2. CASE LobbyTick
    BY <1>2, LobbyTickKeeps
  <1>3. CASE EchoTick
    BY <1>3, EchoTickKeeps
  <1>4. ASSUME NEW s \in Sessions,
               OnAccept(s) \/ SendLogin(s) \/ SendEcho(s) \/ ConnectionEnds(s) \/ Release(s)
        PROVE  EchoIInv'
    BY <1>4, OnAcceptKeeps, ClientSendsKeeps, ConnectionEndsKeeps, ReleaseKeeps
  <1> QED
    BY <1>1, <1>2, <1>3, <1>4 DEF Next

-----------------------------------------------------------------------------
(* The theorems.                                                            *)

\* The invariant that the steps carry: where the references, the jobs, the
\* maps, the moves, the logins and the accounts of every session are
\* together, after any number of steps of the two zones, the clients and
\* the workers that release sessions.
THEOREM EchoInductive == Spec => []EchoIInv
PROOF
  <1>1. Init => EchoIInv
    BY InitKeeps
  <1>2. EchoIInv /\ [Next]_vars => EchoIInv'
    BY NextKeeps
  <1> QED
    BY <1>1, <1>2, PTL DEF Spec

\* The types, among them which jobs a zone is sent: the lobby enters only
\* sessions without a player, the echo zone only sessions with one, and is
\* never told to forget.
THEOREM Types == Spec => []TypeOK
PROOF
  <1>1. EchoIInv => TypeOK
    BY DEF EchoIInv
  <1> QED
    BY <1>1, EchoInductive, PTL

\* A session that has logged in and was not cut off is the one its account
\* names (CLobby::RequestLogin against the late ReleaseAccountNo of an
\* earlier login, from either zone).
THEOREM LoginIsNamed == Spec => []LoginsKnown
PROOF
  <1>1. EchoIInv => LoginsKnown
    BY DEF EchoIInv
  <1> QED
    BY <1>1, EchoInductive, PTL

LEMMA FreedHasLeft ==
  ASSUME EchoIInv, NEW s \in Sessions, user[s] = "freed"
  PROVE  /\ leaving[s] = NoZone /\ ~Moving(s)
         /\ \A z \in Zones : ~HasDelete(jobQueue[z], s) /\ ~Home(z, s)
PROOF
  <1>1. References(s) /\ OneDeparture(s)
    BY Parts DEF SessionIInv
  <1>2. refs[s] = {} /\ zoneId[s] = NoZone /\ leaving[s] = NoZone
    BY <1>1 DEF References, OneDeparture, Gone
  <1>3. \A z \in Zones : ~HasDelete(jobQueue[z], s)
    BY <1>1 DEF OneDeparture
  <1>4. ~Moving(s)
    BY <1>2, Parts, TwoZones DEF Moving, AtMove, TickHolds, HoldPcs, MovePcs
  <1> QED
    BY <1>2, <1>3, <1>4, MembersAssumption DEF Home

\* Nobody frees a user twice or works on a freed one: what is left of a
\* freed user is an entry of the lobby that it has been told to forget
\* (OnEnter and OnLeave of the two zones, each on its own thread).
THEOREM UsersFreedOnce == Spec => []UsersOwned
PROOF
  <1>1. EchoIInv => UsersOwned
    <2> SUFFICES ASSUME EchoIInv, NEW s \in Sessions
                 PROVE  /\ s \in userMap[Echo] => user[s] = "alloc"
                        /\ user[s] = "freed" /\ s \in userMap[Lobby] =>
                              \/ tick[Lobby].pc = "moveLeave" /\ tick[Lobby].sid = s
                              \/ Contains(jobQueue[Lobby], LeaveJob(s, FALSE))
                        /\ user[s] = "freed" /\ s \in userMap[Lobby] =>
                              leaving[s] # Lobby /\ ~Contains(jobQueue[Lobby], LeaveJob(s, TRUE))
                        /\ ~Contains(jobQueue[Echo], EnterJob(s, FALSE))
      BY DEF UsersOwned
    <2>1. /\ InLobby(s) /\ InEcho(s) /\ user[s] \in {"none", "alloc", "freed"}
          /\ jobQueue[Lobby] \in Seq(LobbyJobs) /\ jobQueue[Echo] \in Seq(EchoJobs)
      BY Parts DEF SessionIInv, UsersOK, QueuesOK
    <2>2. /\ DOMAIN jobQueue[Lobby] = 1 .. Len(jobQueue[Lobby])
          /\ DOMAIN jobQueue[Echo] = 1 .. Len(jobQueue[Echo])
          /\ \A i \in DOMAIN jobQueue[Echo] : jobQueue[Echo][i] \in EchoJobs
      BY <2>1
    <2>3. s \in userMap[Echo] => user[s] = "alloc"
      <3> SUFFICES ASSUME s \in userMap[Echo]
                   PROVE  user[s] = "alloc"
        OBVIOUS
      <3>1. Home(Echo, s) /\ user[s] # "none"
        BY <2>1 DEF InEcho
      <3> QED
        BY <2>1, <3>1, FreedHasLeft, TwoZones
    <2>4. ASSUME user[s] = "freed", s \in userMap[Lobby]
          PROVE  /\ Contains(jobQueue[Lobby], LeaveJob(s, FALSE))
                 /\ leaving[s] # Lobby /\ ~Contains(jobQueue[Lobby], LeaveJob(s, TRUE))
      <3>1. /\ leaving[s] = NoZone /\ ~Moving(s) /\ ~Home(Lobby, s)
            /\ ~HasDelete(jobQueue[Lobby], s)
        BY <2>4, FreedHasLeft, TwoZones
      <3>2. HasForget(jobQueue[Lobby], s)
        BY <2>1, <2>4, <3>1 DEF InLobby
      <3>3. Contains(jobQueue[Lobby], LeaveJob(s, FALSE))
        BY <2>2, <3>2 DEF HasForget, IsForget, Contains
      <3>4. ~Contains(jobQueue[Lobby], LeaveJob(s, TRUE))
        BY <2>2, <3>1 DEF HasDelete, IsDelete, Contains
      <3> QED
        BY <3>1, <3>3, <3>4, MembersAssumption, TwoZones
    <2>5. ~Contains(jobQueue[Echo], EnterJob(s, FALSE))
      <3>1. \A x \in EchoJobs : x # EnterJob(s, FALSE)
        <4>1. \A x \in EchoJobs : x.kind = "leave" \/ x.player = TRUE
          BY DEF EchoJobs, EnterJobs, LeaveJobs
        <4>2. EnterJob(s, FALSE).kind = "enter" /\ EnterJob(s, FALSE).player = FALSE
          BY DEF EnterJob
        <4> QED
          BY <4>1, <4>2
      <3> QED
        BY <2>2, <3>1 DEF Contains
    <2> QED
      BY <2>3, <2>4, <2>5
  <1> QED
    BY <1>1, EchoInductive, PTL

\* A session that is gone and that nothing is under way for is in no zone,
\* no user map and no account: one departure finds it, wherever its move was
\* (MoveZone against ReleaseSession).
THEOREM GoneLeavesNothing == Spec => []NothingLeft
PROOF
  <1>1. EchoIInv => NothingLeft
    <2> SUFFICES ASSUME EchoIInv, NEW s \in Sessions, Released(s), ~Pending(s)
                 PROVE  ~In(s)
      BY DEF NothingLeft
    <2>1. References(s) /\ InLobby(s) /\ InEcho(s) /\ AccountsGivenBack(s)
      BY Parts DEF SessionIInv
    <2>2. refs[s] = {} /\ zoneId[s] = NoZone /\ leaving[s] = NoZone
      BY <2>1 DEF References, Released, Pending
    <2>3. \A z \in Zones : \A i \in DOMAIN jobQueue[z] : jobQueue[z][i].sid # s
      BY DEF Pending
    <2>4. \A z \in Zones :
            /\ ~HasEnter(jobQueue[z], s) /\ ~HasDelete(jobQueue[z], s) /\ ~HasForget(jobQueue[z], s)
            /\ \A a : ~HasAccount(jobQueue[z], s, a)
      BY <2>3, NotMine DEF HasEnter, HasDelete, HasForget, HasAccount
    <2>5. \A z \in Zones : ~Home(z, s)
      BY <2>2, <2>4, MembersAssumption DEF Home
    <2>6. ~Moving(s)
      BY <2>2, Parts, TwoZones DEF Moving, AtMove, TickHolds, HoldPcs, MovePcs
    <2>7. s \notin sessions[Lobby] \cup userMap[Lobby]
      BY <2>1, <2>4, <2>5, <2>6, TwoZones DEF InLobby
    <2>8. s \notin sessions[Echo] \cup userMap[Echo]
      BY <2>1, <2>5, TwoZones DEF InEcho
    <2>9. \A a \in Accounts : accountMap[a] # s
      BY <2>1, <2>4, <2>5, TwoZones DEF AccountsGivenBack
    <2> QED
      BY <2>7, <2>8, <2>9, TwoZones DEF In
  <1> QED
    BY <1>1, EchoInductive, PTL
=============================================================================
