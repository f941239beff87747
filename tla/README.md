# Servers and IOCP network core: a verification project

The repository is a C++ network core for Windows (`src/NetLibrary`, built on the
containers and timers of `src/Core`) and four servers written on it: chat, login,
monitoring and a zone echo test. This directory holds TLA+ modules translated from that
code, the TLC configurations that check them on small instances, and the TLAPS proofs of
what holds for instances of any size. `PROJECT.json` lists the components, the runs, the
faulty variants every property is tried against, the source lines of every definition, the
hazards of the code and the theorems.

## The system

**CServer (`NetServer.cpp`, `NetSession.cpp`).** An accept thread, a pool of workers on one
I/O completion port (IOCP), and an array of `stNetSession` slots. A slot has a `refcount`
whose top bit is the release flag, an `isDisconnect` flag, an `isSending` flag, two
OVERLAPPED structures (`recvOl`, `sendOl`), a lock-free `sendQ` of packets, the
`sendPackets` being sent, and a session id that combines a running number with the slot's
index. The accept thread takes an index from a lock-free stack, initialises the slot, calls
`OnAccept` and posts the first receive. Workers take completions from the port: a receive is
parsed into `OnMessage` calls and posted again, a send frees its packets and sends what was
queued meanwhile. Content threads call `SendPacket` and `Disconnect` at any time with any id
they remember. Whoever gives back the last reference clears the slot, pushes its index, and
posts a message from which a worker later calls `OnRelease`.

**CClient (`NetClient.cpp`).** One outgoing connection with the same session, reused for each
`Connect`, by two workers.

**Zones (`Zone*.cpp`).** `ZoneServer` is `CServer` with sessions that belong to zones. A zone
is a slot with a reference count, a release flag, a queue of jobs and of entering and leaving
sessions, and a tick that runs as a timer job posted to the workers, or on a pinned thread.
`ZoneManager` creates and destroys zones and moves sessions between them.

**Core.** `CTimerManager` (one thread, a priority queue of jobs, an event),
`LockFreeQueue`, `LockFreeStack`, object pools with per-thread lists, `RingBufferV4`, the
packets (`CPacket`, reference counted, with a read and a write pointer and an encode flag).

**Chat server.** One `CUser` per session with a lock and a state (WAIT_LOGIN,
WAIT_IDENTIFY, LOGIN, IN_FIELD), maps from session id and account number to users, sectors
with a shared lock each. A login is checked against a token in redis by `AuthContainer`; the
answer comes back to a worker as a user event. A thread times out silent users.

**Login server** (database look-up, token into redis), **monitoring server** (counters, an
older copy of the library), **zone echo server** (a lobby and echo zones).

How they interact: by direct calls under a reference (content to session), by messages on the
completion port (DELAYSEND, RELEASE, zone ticks, user events), by operations the kernel
completes, by callbacks (`OnAccept`, `OnMessage`, `OnRelease`, `OnEnter`, `OnLeave`), and by
the shared stacks, queues and counters.

What is hard, and makes each part correct:

| part | what is hard | what must hold |
| --- | --- | --- |
| session | a reference taken on a slot that is free, being cleared or reused | the count is exact; nobody works on a released slot; a call reaches only the session it was made for |
| send path | `isSending` is a lock passed between threads, messages and completions | one WSASend at a time; no packet left behind, leaked or freed twice |
| receive path | the next receive is posted after the buffer is parsed, callbacks in between | one owner of the receive side |
| disconnect | two operations to cancel, either may be in the kernel or not | it ends in `OnRelease` without help from the peer |
| callbacks | `OnRelease` is delayed while the slot is reused | per session id: accept, messages one at a time, release once |
| client | no id in `SendPacket`, a slot of its own | a packet is sent on the connection it was meant for |
| zones | tick against destroy against reuse of the slot; enter and leave on two threads | a tick runs alone and only for its zone; a session is in one zone |
| timer | push while the thread goes to sleep | a job runs when due |
| queue, stack, pools | node reuse under tagged pointers | FIFO per producer, no element lost or doubled |
| chat | nested user locks, sector locks in order, answers that arrive late | no deadlock; an account is in one session; sector sets match positions; the user count is right |

`PROJECT.json` lists each hazard at its line.

## What is modelled

`NetSession` is one slot of the session array, reused for one session id after the other
(`MaxSid`), with the threads that meet on it. Slots share only the index stack and the
session count; both are in the model for the one slot. A step is one interlocked operation,
one read of a field that another thread may write, or one call into the kernel; accesses to
fields only the running thread may touch at that point are one step, and that nobody else may
touch them is what the invariants establish.

| model | code |
| --- | --- |
| `refcount`, `relFlag` | the low bits and the top bit of `stNetSession::refcount` |
| `isDisconnect`, `isSending`, `sessionId`, `sendQ`, `sendPackets` | the fields of the same name |
| `recvOl`, `sendOl` | the two OVERLAPPEDs: not in use, in the kernel (`pending`), completed with bytes (`data`, `done`) or without (`zero`, `fail`) and queued on the port |
| `delaySend`, `relMsgs` | DELAYSEND and RELEASE messages on the port |
| `slotFree`, `sessionCnt`, `lastSid` | the index stack, `_sessionCnt`, `_sid` |
| `pool`, `dest` | packet references nobody holds; ghost: the session a reference is for |
| `app` | ghost: what the content has been told of each id |
| `pc`, `ctx`, `arg`, `cur`, `pkt` | threads: place, callback they run, local variables |

The names of the actions are those of the functions: `DisconnectIncrement` to
`CancelRecvAndDec` are `Disconnect`; `SendPacket...`, `SendPost...`, `RecvPost...` the
functions of that name; `GetRecv`, `RecvCheck`, `Parse...` and `GetSend`, `SendDone...` the two
completions; `DecrementRefcount` to `PostRelease` the release; `Accept` to `Register` the accept
thread. `RecvCompletes`, `SendCompletes` and the cancel steps are the kernel. A receive that
completes with bytes holds messages, bad headers, or fragments, chosen freely, so the parse
loop ends in any of its ways. The queue is a FIFO with the limit the code compares
(`_size > _maxSize`). Packet contents, logging and counters are left out.

`SessionContract` is the abstract specification: what `OnAccept`, `OnMessage` and
`OnRelease` promise for a session id. `NetSession!ContractSpec` instantiates it with the running
callbacks and the ids the library has given up.

`ZoneLife` is the zone array: `CreateZone`, `DestroyZone`, `PushJob`, the ticks and the release
of zones. A zone is written as an actor without locks, so what matters is that it has one tick
at a time, and one ahead of it. A tick that is asked for is a message on the port, an entry in
the timer's queue, an id in a pinned thread's queue, or with the thread that carries it
(`Ticks`).

| model | code |
| --- | --- |
| `refCount` | `CZone::_refCount`, modulo `Word`, the release flag its upper half |
| `zoneId`, `pinnedThread`, `jobQueue` | `_zoneId`, `_pinnedThreadIndex`, `_jobQueue` (of a job, the zone it was pushed to) |
| `jobZoneId`, `jobValid` | the `CZoneTimerJob` of the slot, one object for all its zones |
| `slotFree`, `lastId` | `_indexes`, the ids `CreateZone` gave out |
| `port`, `timerQ`, `zoneQueue`, `wakeEvent` | `SERVER_MSG_ZONE_UPDATE` messages, `CTimerManager::_pq`, `_zoneQueue`, the auto-reset `_wakeEvent` |
| `known`, `destroyed`, `pushed` | ids the content holds and has destroyed; jobs pushed |
| `pc`, `on`, `after`, `aim` | threads: place, zone they work for, what follows `DecreaseRefcount`, thread they wake |

`PopIndex` to `FirstWake` are `CreateZone`, `CallDestroyZone` and `DestroyZone` are `DestroyZone`,
`CallPushJob` to `PushJob` are `PushJob` with its `CReferenceZone`, `GetZoneUpdate` to `ExecuteCheck`
are `RequestZoneExcute`, `PinnedWake` to `PinnedCheck` the pinned thread, `Tick...` is `TickUpdate`,
`Timer...` the timer thread with `CZoneTimerJob::Excute`, `DecreaseRefcount` to `PushIndex` the
release. Whether a tick is late, which thread a zone is pinned to and when a job is due are
free choices. The weights of pinned threads and `Clear` are left out;
`DestroyZone` is called once for an id.

`ZoneMembers` has the sessions of zones: `EnterZone`, `MoveZone`, the departure that `ReleaseSession`
tells the zone of, and what a tick does with jobs and messages. A zone runs one tick at a time
(`TickAlone` of `ZoneLife`), so here a zone is the thread that runs it; a session is released by
whoever gives back its last reference and by nobody else (`NobodyOnReleased` of `NetSession`), so
that is one step, and the departure the next. `EchoServer` composes it with the echo server: its lobby
and its echo zone, their users and the accounts.

| model | code |
| --- | --- |
| `zoneId`, `userPtr`, `isDisconnect`, `recvedPackets` | the fields of `stZoneSession`; of `userPtr`, whether it is set |
| `refs` | its references by holder: the receive, and the zones that look at it |
| `leaving` | the zone the thread in `ReleaseSession` has yet to tell |
| `jobQueue`, `sessions` | `CZone::_jobQueue` and `_sessions` |
| `tick` | a zone's place in `TickUpdate`, `OnMessage` and `MoveZone`, and the locals |
| `userMap`, `accountMap` | `_userMap` of both zones, `CLobby::_accountMap` |
| `user`, `account` | the `CUser` of a session (allocated, freed), its account number |
| `client` | what the peer waits for |

A job is one step, with `EnterFunc`, `LeaveFunc` and the callback in it: it takes no lock and what it
changes belongs to the zone. A message is taken in two steps, because the ring of a session that
moves may have two readers (below). `MoveZone` is three: the exchange of the zone id, the entry, the
departure. Which users a zone's `OnUpdate` finds silent for too long is a free choice.

`Field` is `CField`: the users of each sector and the lock of each sector, exclusive for moves
and shared for messages. `ChatUsers` composes it with the users of the chat server. Its sessions
are those of `SessionContract`, which `NetSession` implements: the two are joined by that contract,
so `ChatUsers` meets every order of callbacks the library may produce, late `OnRelease`s included.

| model | code |
| --- | --- |
| `user`, `lock` | `CUser` per slot: `_sessionId`, `_state`, `_accountNo`, `_curPos`; its lock |
| `indexStack`, `sidToUser`, `loginMap`, `currentUserCnt` | the free slots, `CSessionIdToUser`, `CLoginMap`, `_currentUserCnt` |
| `requests` | logins redis is asked about, and answers on the port |
| `app`, `running`, `ended`, `cut` | the sessions as `SessionContract` has them; sessions `Disconnect` was called for |
| `at` | threads: place in a handler and its locals |
| `sessionIdList`, `readers`, `writer` of `Field` | how often a sector lists a session; the shared and the exclusive holders of its `SRWLOCK` |

`AcceptSession` to `CreateWaitLogin` are `OnAccept`; `ReceiveMessage` begins `OnMessage`, followed by
`RequestLogin`, `EnterField`, `StayInSector`, `MoveLocksFirst` and `RemoveAndAddSector`
(`RequestSectorMove`), `LockAround` and `CopySector` (`RequestMessage`), `RequestHeartbeat`, `Refuse`;
`ReceiveAnswer` to `IncreaseUserCnt` are `OnUserEvent`; `ReceiveRelease`, `ReleaseFound` are `OnRelease`;
`LeaveSector` to `PushIndex` are `ReleaseUser`, whoever calls it; `Timeout` the timeout thread. A step
is one operation on what other threads see without the user's lock, with the taking of the lock
before and the giving back after it and what only the thread itself sees; the maps have locks of
their own and are one step each. A sector move and a message take the sector locks one after
another.

`LockFreeQueue` is `CLockFreeQueue` with its node pool. A step is one shared read or one
interlocked operation. Pointers are pairs of a node and the counter kept in the upper 17 bits;
the next pointers have none, as in the code. `Alloc` may return any free node (nodes never used
are alike), so a node given back may come out again at once.

| model | code |
| --- | --- |
| `head`, `tail`, `size` | `_head`, `_tail`, `_size` |
| `next`, `data` | the fields of the nodes |
| `free` | nodes with the object pool |
| `at` | threads: next access in `Enqueue`, `Enqueue_NotFail` or `Dequeue`, and the locals |
| `calls`, `accepted`, `taken` | ghost: calls made, elements whose enqueue returned true, how often each was handed out |

## The runs

| run | instance | shows |
| --- | --- | --- |
| `session_reuse` | 2 workers, 1 content thread, 1 packet, 2 session ids | exact count, nobody on a released slot, receive side in one hand, packets only to their session, index stack never empty, and `SessionContract` |
| `session_send` | the same threads, 3 packets, 1 id, queue limit 0 | `isSending` in one hand, packets conserved, no lost wake-up |
| `session_live` | 1 worker, 1 packet, 1 id | a disconnect, and a failed operation, end in `OnRelease`; with a peer that reads a queued packet is sent or freed |
| `session_full` | 1 worker, 3 packets | expected violation, see below |
| `zone_life` | 2 workers, a pinned thread, the timer, 2 content threads, 1 slot, 2 zones in turn, 2 jobs | exact count, nobody on a released zone, one tick at a time and one ahead, jobs only to their zone |
| `zone_live` | 1 worker, a pinned thread, the timer, 1 content thread, 1 slot, 2 zones in turn | a zone ticks until it is destroyed, a destroyed zone is released |
| `zone_reuse` | 2 workers, the timer, 1 slot, 3 zones in turn | expected violation, see below |
| `zone_echo` | the lobby and the echo zone, 2 sessions, 1 account | a session that goes at any point of its move is left behind nowhere; users are freed once; a late departure does not log the next session out; everyone who is cut off leaves |
| `chat` | 2 workers, the accept and the timeout thread, 2 user slots, 2 accounts, 3 sessions, a field of 2 sectors | login map, user count, sectors and slots agree during and after every release; an answer logs in the session that asked; a message is heard by those who stood around at one moment; locks never close a circle |
| `chat_orphan` | 1 worker, the accept and the timeout thread, 1 user slot, 1 account, 2 sessions, 1 sector | expected violation, see below |
| `queue` | 2 threads, 5 nodes, limit 1, 2 enqueues and 2 dequeues each | no node is in the list and free, no element lost or doubled, the size does not drift, a thread that runs finishes its call whatever the other does |
| `queue_empty` | 2 threads | expected violation, see below |

Bounds: two workers because a completion of each of the two operations may be handled at the
same time; a content thread besides, because its calls race with both; callbacks add calls on
the workers and on the accept thread. Two session ids let every late step of the first session
meet the second. With queue limit 0 the queue holds one packet, so with three packets one is
being sent, one is queued and one finds the queue full. `WsabufMax` is 1 so that a queue is
sent in more than one WSASend. Deadlock is not checked: when the last id is used up and the
content is quiet the system rests.

Fairness (`LibFairness`): a thread inside the library goes on; callbacks return; a buffer is
parsed to its end; the port hands out what is queued. The port is first in first out and a
worker may be kept busy by other messages, so its deliveries are strongly fair. Nothing is
assumed of the peer, of accept or of the calls the content makes; `QueuedPacketsLeave` has the
peer that reads (`PeerReads`) as the antecedent of the property. `NobodyWaits` of the queue assumes
of each thread only that this thread runs (`Runs(t)`, an antecedent too), so that a thread which
stops anywhere may not hold up another.

`session_full`: a full `sendQ` makes `SendPacket` raise `isDisconnect` and cancel the receive
only (`NetServer.cpp:583-585`). If the receive is with a worker at that moment nothing is
cancelled, that worker sees the flag and merely returns its reference; the send in the kernel is
never cancelled. Against a peer that does not read, the session stays, although the log line
at 571 announces its release.

In the zone runs two workers and the timer let a tick meet the one before it, and a second
zone in the slot lets every late caller of the first meet another id. `zone_life` and
`zone_live` assume `CarefulReuse`: a slot is used again only after the last tick of its zone
ended. It is an assumption about the content, not a guard of the code, and `zone_reuse` shows
what happens without it. They have one zone on the pinned thread at a time: two requests to such a thread before it wakes
set its auto-reset event once, and the thread takes one id per wake-up (`ZoneManager.cpp:51-54`), so
with two zones on it one may stand still until something else is asked of the thread, and
`KeepsTicking` does not hold. `zone_live` assumes besides the fairness of threads, port and timer that the references
of one tick and the next do not overlap for ever (`LastReference`, `FlagUp`): the timer waits
between ticks and a thread gives its reference back right after it asked for the next tick. A zone
whose every tick is late has only the scheduler to thank for it.

`zone_reuse`: `RequestZoneExcute` has no `return` after it gave back the reference to a zone that
is not the one it came for (`ZoneServer.cpp:1084-1087`). It ticks that zone and gives a reference
back again; when the zone is destroyed its count goes below zero, which `DecreaseRefcount` takes
for a fault (`ZoneManager.cpp:381-385`).

In `zone_echo` two sessions are what an account that changes hands needs, and one account is the case
in which they meet; every session may close, be timed out or be refused at any point. Clients send
the login once and an echo only after the answer to the last request, as the clients of this server
do. Fairness: ticks go on (`ZoneLife`), a thread in `ReleaseSession` goes on, the receive of a session
that is cut off completes, and the loop that takes messages out of one session reaches its end,
because a message goes to the client and back slower than the loop turns (`Drained`, strongly fair).
Deadlock is checked: zones tick for ever.

What does not hold there: `MoveZone` pushes the entry into the echo zone while the lobby is still in
the loop over that session's messages (`Zone.cpp:208`). If the echo zone enters it, the client gets
its answer and the next message arrives before the lobby has come to the end of the loop, both zones
read one ring that has no lock. The lobby may take the message, or garbage, refuse it and cut off a
client that did nothing wrong. `Look` and `Take` have these steps, with two outcomes for the reader
that comes late (the message again, or garbage) and one piece of garbage left behind as bound; the
properties of the run hold in spite of it. And a session that is gone when the lobby enters it leaves
a user allocated that is in no map (`Zone_Lobby.cpp:159`): `EnterLobby` has that too, and no departure
frees it.

In `chat` three sessions in two slots let a session's late handlers meet the next user of its
slot, and a third one find no slot free (`AcceptFull`); two accounts let a second login meet the
first. Two sectors next to one another are enough for two moves in opposite directions and a
message between them. The clients are patient: they send the next request that needs an answer
only after the answer, as the clients of this server do. In `queue` two calls of each kind per
thread and five nodes let a node be freed and come out again under a thread that still holds a
pointer to it; the 17-bit counters do not wrap within so few calls (`CounterAssumption`), and whether
they may wrap in practice is not asked. The pool is never empty.

`chat_orphan`: `OnRelease` finds its user, waits for the lock and releases the user without
comparing the session id again, as all other handlers do (`ChatServerV3.cpp:381`). When a timeout
releases the user in between and the slot goes to a new session, that session loses its user
while its connection stays open.

`queue_empty`: the exchange that links a node compares a next pointer without a counter. If the
node at the stale tail was freed, allocated again and is last once more, the link succeeds and
the exchange of the tail fails; `Enqueue` returns and leaves the tail one node behind
(`LockFreeQueue.hpp:289`). With no call under way, `isEmpty` says true though an element is in the
list, until the next `Enqueue` or `Dequeue`. `SendPost` asks `sendQ.isEmpty()`
(`NetSession.cpp:303`, 312, 398), so a packet may stay until the next send. `NetSession` takes
`sendQ` as a FIFO whose calls are atomic: its `QueuedPacketsLeave` does not cover that case. That
the elements are neither lost nor doubled (`ExactlyOnce`) holds all the same.

Every property of a passing run is tried against a faulty variant of an action (the section
"Faulty variants" of the module): a compare-exchange turned into a store, a check or a cancel
left out, a wake-up check dropped.

## The proofs

`NetSessionProofs` proves, for any finite sets of threads and any bounds, `Spec => []IInv` and from
it the type invariant, `RefcountIsOwners`, `NobodyOnReleased`, `SendRightUnique`, `RecvChainUnique`
and `PopNeverFails`. Assumed are only the three assumptions of `NetSession` on its constants.

`RefcountIsOwners` alone is not inductive: that a decrement finds a positive count needs the
thread to be one of the owners counted; that an operation is not posted on top of itself needs
the right to send (`SendRightUnique`) and the receive side (`RecvChainUnique`) to be in one hand;
that these start afresh with a new session needs nobody to be left when the flag goes up
(`NobodyOnReleased`); that the accept thread finds the slot clear needs the slot to have one
owner while the flag is up (`SlotOwnerUnique`), for which the session count and the stack must
agree (`SessionCntExact`, `PopNeverFails`). `ThreadsInPlace` ties callbacks to places. `IInv` is
their conjunction; of its parts the runs check those named above.

The counts are cardinalities of sets of threads. `CountUpdate` says what one moving thread does
to one; `Balance` collects the counting invariants. Most steps move a thread between places
that own the same things and follow from `NeutralStep`; the others have their balance worked out
one by one (`ReleaseInv`, `AcceptInv`, `ApiInv`, `SendPostInv`, `RecvPostInv`, `CompletionInv`,
`ParseInv`, `GetInv`, `CallInv`, `StillInv`).

`NetSessionSendProofs` proves the send side on top of `IInv`: `PacketsConserved`,
`PacketsToOwnSession` and `NoLostWakeup`, as `Spec => []SendIInv`. To `IInv`, which says who may
send, `SendIInv` adds who holds which packet reference: `PacketInHand` (a packet in the hand of a
thread is on its way through `SendPacket`), `BatchInFlight` (`sendPackets` is filled only while its
WSASend is made, in the kernel, or not yet handled), `ReleasedQueueEmpty` (the queue of a slot without a
session is empty once it was cleared, or the next session would send what the last one left), `CallsOnOwnSession` (a
call that passed the id check works for the slot's session) and `DoomSeen` (who gives up the right to
send without another look at the queue has seen `isDisconnect`). References are
counted by occurrence (`Times`): a sequence that is appended to, cut or cleared changes one
number.

`NetSessionContractProofs` proves `IdStableUnderRef` and that `NetSession` implements
`SessionContract`. `ContractIInv` adds to `IInv` what the content was told against what the slot
holds: `CallbacksOfOpenSession`, `LatestInSlot`, `NotToldBefore`, `OpenWhileReceiving`,
`ReleasedOnce`. `Register` maps to `OnAccept`, `ParseMessage` to `OnMessage`, `EndCallback` to
`CallbackReturns`, the exchange that raises the release flag to `End`, `GetRelease` to
`OnRelease`; every other step is a stutter.

`ZoneLifeProofs` proves `TypeOK` without a hypothesis and, for runs on which `CarefulReuse`
always holds, `RefcountIsOwners`, `NobodyOnReleased`, `OneTickAtATime`, `TickAlone` and
`JobsOfOwnZone`. The hypothesis is the one of the runs: an assumption about the content, not a
guard of the code, and TLC finds each of the five properties violated without it. `ZoneIInv`
consists of `TypeOK`, `HandlerAlone`, `IdsIssued`, `ZoneInSlot`, `OnZone`, `CreationHeld`,
`HeldOpen`, `CountExact`, `TicksLatest`, `TicksApart` and `JobsOfOwnZone`. The count is exact
only if nobody takes a reference on a zone that is not the one he came for; that is so because a
tick under way is always of the latest zone (`TicksLatest`), which is what `CarefulReuse` is for.
`TicksApart` says of the places a tick can be at (a thread, the port, the timer, a pinned
thread's queue) that a slot has one in one of them, once, and that a living zone has one.

`EchoServerProofs` proves `TypeOK`, `LoginsKnown`, `UsersOwned` and `NothingLeft` of the zone echo
server, from `MembersAssumption` and `EchoAssumption` alone. `EchoIInv` is `TypeOK`, `TickHolds`
(what a zone's loop has in hand is in its place), `LoginsKnown` and, for each session,
`References` (what is left of it
when its references are gone), `OneDeparture` (a departure is told once, and after its entries),
`InLobby` (who is in the lobby is at home there, moving, or about to be forgotten), `InEcho` (who is
in the echo zone or on its way there is logged in and has a user), `AccountsGivenBack` (an entry of
the account map names its session, and somebody is still to give it back: a zone the session is at
home in, or a job) and `LoginOnce` (a client logs in once, so a login that is handled finds the
session unknown). None of the three properties is inductive alone: that a departure from the echo
zone finds the user to free needs the entry to have come first, which is an order between two
queues' entries and a thread. Sessions a step does not touch follow from `Bystander`.

`ChatUsersProofs` proves `LoginsExact`, `SectorsMatch`, `SlotsConserved`, `NothingLeftBehind` and the
action property `AnswerLogsInAsker` of the chat server, for any number of workers, slots, accounts
and sessions and a field of any size, from `ChatAssumption` and `FieldAssumption` alone. `ChatIInv`
has two sorts of parts. Of each thread: `InPlace` (the callback it runs and what its locals are),
`Locked` (the users' locks it holds) and `Found` (what it read of these users still is so). Of the
tables: `UsersMapped` (the map of sessions and the users name each other), `SlotsHeld` (a slot without
a user is on the stack or in one hand), `SessionsOpen` (a session has one callback at a time),
`AskedOnce` (redis is asked once for a session, and its user waits until the answer was handled),
`LoginsNamed` and `CountExact` (the login map, the users and their number, with what is under way
between them), `ListsExact` (the lists of the sectors) and `ReleasesLate` (`OnRelease` works on the
slot of its session and is what takes the last user away). A user changes only under its lock, or
without a holder in a step that finds the lock free, so a thread that does not move keeps what it
found (`OtherThreads`), which most of the parts need: that `AddLoginMap` may overwrite the entry
it found empty, that the entry `RemoveLoginMap` clears is still the user's own, that the slot that
`OnRelease` resets is counted once. `AskedOnce` is what makes the answer of a session that has left
harmless: the next user of its slot has another session id. `ChatCounts` says that
`_currentUserCnt`, which is raised and lowered apart from the map, never goes below zero.

`ChatLocksProofs` goes on with `LocksIInv` and proves `NoCircularWait`, the action property
`MessageSeesOneMoment` and all of `TypeOK`, again for any number of threads and any field. `LocksIInv`
says what the holder of a lock is doing: `UsersLocked` (the lock of a user is with a handler that works
on the user), `SectorsLocked` (the lock of a sector is with the one move that took it first, or with
the messages that have locked it and not copied it yet), `Counted` (how far a message is), `IdsInOrder`
(session ids are used in order), `Met` and `HeardOnce`. The case that is not plain is the one with two
users: an answer holds the user that logs in and waits for the user that is logged in already, in a
slot that may be released and filled again meanwhile. `Met` says that this slot then holds a younger
session than the answer's own, and that before that its user is logged in, while a thread that waits
for a second user has one that is not. So threads can be ranked: those that wait for a first lock
(they have none), those that wait for a second user (by the age of their session, younger above older),
those that leave a sector, and those that move or speak, by the order of the last sector they hold. Who
is waited for and waits itself ranks higher (`WaitsUp`), the ranking has a top (`RankBounded`), so
somebody at the top goes on. That the nine sectors around come in the order of the locks, at the
border too, is `AroundOrdered`; that the order is total is `OrderSeparates`. For
`MessageSeesOneMoment`, a list changes only with its sector locked alone (`ListKept`), so of what is
still to be copied nothing changes (`NothingCopied`), and what is copied is counted once
(`OneCopied`), because a session stands in one sector (`StandsOnce`, from `ListsExact`).

`LockFreeQueueProofs` proves `ListIsSound`, `ExactlyOnce` and `SizeAgrees` of the queue, for any
number of threads and calls, from `QueueAssumption` (there are more nodes than elements, so the
pool is never empty) and `CounterAssumption`. The latter is the bound of the runs in general form: fewer
enqueues than the 2^17 values of a counter. With it no counter comes round while a thread sleeps;
a thread that sleeps through 2^17 moves of the pointer it read is outside of the theorems and of
the runs.

None of the three is inductive, and the difficulty is the exchange of `queue_empty`: it compares a
next pointer, which has no counter. The node a thread saw at the tail may have gone back to the
pool and be held by another thread, stored into and not yet linked, and `Enqueue` then links behind
that one. So the list is not the only thing with a shape: `QueueIInv` speaks of chains,
the list and one for each thread between `Alloc` and the exchange that links. What a node is (in the
list, held, taken out, in the pool), in whose chain and at which place, and how old a thread's node
is are not variables of the model; the invariant says that such values exist, and each step of the
proof names those of the next state. Its parts are the types (`QueueTypeOK`); `Placed`, `Holds`, `Ends`
(every node is somewhere, once); `Chained` and `Dense` (one node a place, each linked to the next, no
gaps); `Aged` (a thread links only behind a node held since later than its own, so that two held
chains never close a circle); `Tails` and `Heads` (a copy of the tail or head whose counter agrees is
the pointer of now, because the counter is the place of the node in all the list there ever was);
`Contents`, `Items` and `Kept` (the elements stored are those given out or in one live node), `Called`
and `Counts` (the head has moved once for each element given out, which bounds the places below 2^17;
the size follows from the two counters). The steps that only look follow from `LookingKeeps`; `AllocKeeps`,
`LinkedKeeps`, `TailMoves`, `HeadMoves` and `FreeKeeps` are the others. A link that succeeds puts the
whole chain of the thread behind another one: behind the list, or behind what a thread holds.

The properties follow the list with a recursive function, `Hop`. That it finds the node that the
invariant has at a place (`HopIsNodeAt`) is not proved by an induction over a formula, which the
provers cannot instantiate: the places where the two differ are a set of numbers, a set that is
not empty has a least one, and the step before it gives the contradiction.

Only model-checked: the liveness properties (`NobodyWaits` of the queue among them) and the absence
of deadlock in the sense of TLC, which are outside the prover's reach. `QueueIInv` asserts that
values exist which TLC could not enumerate, so no run has it; its three consequences are what `queue`
checks.

## Not modelled

- Of zones: sessions of a zone that is destroyed, messages of sessions that are in no zone, and the
  messages of a ring that is full; the echo server destroys its zones after all threads ended. The
  reference count and the send path of `ZoneServer`, copies of those of `CServer`.
- `CClient`: the receive and send paths are those of `NetSession`; its own rules (one session for
  all connections, sends without an id) are listed as hazards.
- `CTimerManager` beyond what `ZoneLife` has of it; `LockFreeStack` and the pools, which the other
  modules take as sets; `MutexQueue`, one lock around a queue.
- Packet pointers, encoding and `RingBufferV4`: sequential code on bytes.
- The login and the monitoring server, the variant of the chat server the build
  leaves out: request and answer around a database, counters, an older copy of the library.
- Start-up, configuration, diagnostics, logging, crash dumps.
- Vendored code (cpp_redis, tacopie, MySQL and OpenSSL headers) and the copies of the library
  that each server keeps: most of the lines of the repository are these, so the lines the map
  names are a small share of all lines and a large one of the library and the chat server.

## Plan

1. Done: `SessionContract`, `NetSession`, `ZoneLife`, `ZoneMembers`, `EchoServer`, `Field`,
   `ChatUsers`, `LockFreeQueue`; the proofs of all safety properties the passing runs check.
2. Then `CClient` and `LockFreeStack`.
