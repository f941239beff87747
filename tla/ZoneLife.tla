------------------------------- MODULE ZoneLife -------------------------------
(***************************************************************************)
(* The life of zones (Zone.cpp, ZoneManager.cpp, ZoneServer.cpp): a slot of *)
(* the zone array with its reference count and release flag, the queue of   *)
(* jobs, and the tick.  A tick ends by asking for the next one: of the      *)
(* timer, when there is time left, else of the completion port or of the    *)
(* zone's pinned thread.  Content threads create and destroy zones and push *)
(* jobs to them with ids they remember.                                     *)
(*                                                                         *)
(* A zone id is a slot and the number of the zone in it.  As in NetSession  *)
(* one step is one interlocked operation, one read of a field another       *)
(* thread may write, or one operation on a queue or an event.               *)
(***************************************************************************)
EXTENDS Integers, Sequences, FiniteSets, Functions

CONSTANTS Workers,       \* IOCP workers: they run ZONE_UPDATE messages
          Pinned,        \* pinned threads
          Timer,         \* the timer thread of the zone manager
          Users,         \* content threads
          Slots,         \* the zone array
          MaxLife,       \* bound: zones created per slot
          MaxJobs,       \* bound: jobs pushed per slot
          Word,          \* 2^32 scaled down: refCount counts modulo Word
          CarefulReuse   \* a slot is used again only after its last tick

Threads == Workers \cup Pinned \cup Users \cup {Timer}

ASSUME ZoneThreadsAssumption ==
    /\ IsFiniteSet(Workers) /\ IsFiniteSet(Pinned) /\ IsFiniteSet(Users)
    /\ Workers \cap Pinned = {} /\ Users \cap (Workers \cup Pinned) = {}
    /\ Timer \notin Workers \cup Pinned \cup Users
    /\ Slots # {}

\* The flag is the top bit, and more threads than half the word cannot be.
ASSUME ZoneBoundsAssumption ==
    /\ MaxLife \in Nat /\ MaxJobs \in Nat
    /\ Word \in Nat /\ Word % 2 = 0 /\ Word > 2 * (Cardinality(Threads) + 1)
    /\ CarefulReuse \in BOOLEAN

RELEASE_FLAG == Word \div 2

Lives == 0 .. MaxLife             \* 0: the slot holds no zone
Ids == Slots \X Lives
NoThread == "none"

VARIABLES
    \* CZone, per slot
    refCount, zoneId, pinnedThread,
    jobQueue,       \* the zones the queued jobs were pushed to
    \* CZoneTimerJob, one object per slot
    jobZoneId, jobValid,
    \* CZoneManager: the index stack, the ids issued
    slotFree, lastId,
    \* ZONE_UPDATE messages on the port; entries in the timer's queue
    port, timerQ,
    \* CPinnedZoneThreads
    zoneQueue, wakeEvent,
    \* content: the ids CreateZone returned and those given to DestroyZone,
    \* and the number of jobs pushed
    known, destroyed, pushed,
    \* threads: place, the zone id they work for, what follows
    \* DecreaseRefcount, the pinned thread they are about to wake
    pc, on, after, aim

zoneVars == <<refCount, zoneId, pinnedThread, jobQueue, jobZoneId, jobValid>>
mgrVars  == <<slotFree, lastId>>
tickVars == <<port, timerQ, zoneQueue, wakeEvent>>
appVars  == <<known, destroyed, pushed>>
vars == <<zoneVars, mgrVars, tickVars, appVars, pc, on, after, aim>>

Pcs == {"idle", "crAcquire", "crInc", "crOpen", "crPin", "crQueue", "crWake",
        "dzCheck", "pjInc", "pjCheck", "pjPush", "exInc", "exCheck", "pnInc",
        "pnCheck", "tick", "tickEnd", "tkWake", "tmValid", "tmInc", "tmCheck",
        "tmPost", "tmWake", "dec", "rel", "clear", "push"}

\* A reference taken by the thread; before "...Check" it may be on a slot
\* whose release flag is up.
RefPcs == {"pjCheck", "pjPush", "exCheck", "pnCheck", "tick", "tickEnd",
           "tkWake", "tmCheck", "tmPost", "tmWake", "dec"}
TickPcs == {"tick", "tickEnd"}

-----------------------------------------------------------------------------
(* Shapes of steps.                                                         *)

Slot(t) == on[t][1]
Flag(n) == n >= RELEASE_FLAG

Goto(t, l) == pc' = [pc EXCEPT ![t] = l]

NoZone == <<CHOOSE s \in Slots : TRUE, 0>>

\* The thread is done with the zone.
Idle(t) == Goto(t, "idle") /\ on' = [on EXCEPT ![t] = NoZone]

\* What follows DecreaseRefcount: nothing, or the rest of RequestZoneExcute.
Resume(t) ==
    /\ IF after[t] = "idle" THEN Idle(t) ELSE Goto(t, after[t]) /\ UNCHANGED on
    /\ after' = [after EXCEPT ![t] = "idle"]

\* DecreaseRefcount, and then what follows.
DecThen(t, next) == Goto(t, "dec") /\ after' = [after EXCEPT ![t] = next]

\* IncreaseRefcount; isReleasing looks at the value it returns.
IncreaseRefcount(t, l, next, flagged) ==
    /\ pc[t] = l
    /\ LET n == (refCount[Slot(t)] + 1) % Word
       IN  /\ refCount' = [refCount EXCEPT ![Slot(t)] = n]
           /\ IF Flag(n) /\ flagged # next
                THEN DecThen(t, flagged)
                ELSE Goto(t, next) /\ UNCHANGED after
    /\ UNCHANGED <<zoneId, pinnedThread, jobQueue, jobZoneId, jobValid, mgrVars,
                   tickVars, appVars, on, aim>>
\* The id of the zone in the slot against the id the thread came for.
CheckId(t, l, next) ==
    /\ pc[t] = l
    /\ IF zoneId[Slot(t)] = on[t][2]
         THEN Goto(t, next) /\ UNCHANGED after
         ELSE DecThen(t, "idle")
    /\ UNCHANGED <<zoneVars, mgrVars, tickVars, appVars, on, aim>>

\* Ask for a tick: ZonePQCS posts it to the workers; UpdateRequest queues it
\* for a pinned thread and then sets the event (at "...Wake").
RequestTick(t, id, posted, queued) ==
    LET p == pinnedThread[Slot(t)]
    IN  IF p = NoThread
          THEN /\ port' = [port EXCEPT ![id] = @ + 1]
               /\ posted /\ UNCHANGED <<timerQ, zoneQueue, wakeEvent, aim>>
          ELSE /\ zoneQueue' = [zoneQueue EXCEPT ![p] = Append(@, id)]
               /\ aim' = [aim EXCEPT ![t] = p]
               /\ queued /\ UNCHANGED <<port, timerQ, wakeEvent>>

SetWakeEvent(t, l) ==
    /\ pc[t] = l
    /\ wakeEvent' = [wakeEvent EXCEPT ![aim[t]] = TRUE]
    /\ aim' = [aim EXCEPT ![t] = NoThread]
    /\ UNCHANGED <<zoneVars, mgrVars, port, timerQ, zoneQueue, appVars>>

\* The threads of a slot at some places.
At(s, places) == {t \in Threads : pc[t] \in places /\ Slot(t) = s}

CreatePcs == {"crAcquire", "crInc", "crOpen", "crPin", "crQueue"}

\* A tick of the slot is asked for or running: with a thread that carries it
\* or creates the zone, on the port, with the timer or in a queue.
TickPlaces == CreatePcs \cup
    {"exInc", "exCheck", "pnInc", "pnCheck", "tick", "tickEnd",
     "tmValid", "tmInc", "tmCheck", "tmPost"}

Ticks(s) ==
    {<<"thread", t>> : t \in At(s, TickPlaces)}
    \cup (UNION {{<<"port", i, n>> : n \in 1 .. port[<<s, i>>]} : i \in Lives})
    \cup {<<"timer", n>> : n \in 1 .. timerQ[s]}
    \cup (UNION {{<<"queue", p, i>> :
                     i \in {j \in DOMAIN zoneQueue[p] : zoneQueue[p][j][1] = s}} :
                  p \in Pinned})

-----------------------------------------------------------------------------
(* Faulty variants of some of the actions below.  They are not part of the  *)
(* specification: each stands for a slip the code could have made, and      *)
(* shows which property notices it.                                         *)

\* PushJob returns without giving its reference back when the id differs.
PushJobCheck_KeepsRef(t) ==
    /\ pc[t] = "pjCheck"
    /\ IF zoneId[Slot(t)] = on[t][2] THEN Goto(t, "pjPush") /\ UNCHANGED on
                                     ELSE Idle(t)
    /\ UNCHANGED <<zoneVars, mgrVars, tickVars, appVars, after, aim>>

\* The flag is stored, whatever the count is by now.
ReleaseCas_PlainStore(t) ==
    /\ pc[t] = "rel" /\ Goto(t, "clear")
    /\ refCount' = [refCount EXCEPT ![Slot(t)] = RELEASE_FLAG]
    /\ UNCHANGED <<zoneId, pinnedThread, jobQueue, jobZoneId, jobValid, mgrVars,
                   tickVars, appVars, on, after, aim>>

\* The flag is subtracted, also from a slot never released.
CreateOpen_Subtracts(t) ==
    /\ pc[t] = "crOpen"
    /\ refCount' = [refCount EXCEPT ![Slot(t)] = @ - RELEASE_FLAG]
    /\ Goto(t, "crQueue") \/ (Pinned # {} /\ Goto(t, "crPin"))
    /\ UNCHANGED <<zoneId, pinnedThread, jobQueue, jobZoneId, jobValid, mgrVars,
                   tickVars, appVars, on, after, aim>>

\* Without the else a pinned zone is also posted to the workers.
FirstTick_Both(t) ==
    /\ pc[t] = "crQueue" /\ known' = known \cup {on[t]}
    /\ port' = [port EXCEPT ![on[t]] = @ + 1]
    /\ IF pinnedThread[Slot(t)] = NoThread
         THEN Idle(t) /\ UNCHANGED <<zoneQueue, aim>>
         ELSE /\ zoneQueue' = [zoneQueue EXCEPT ![pinnedThread[Slot(t)]] =
                                   Append(@, on[t])]
              /\ aim' = [aim EXCEPT ![t] = pinnedThread[Slot(t)]]
              /\ Goto(t, "crWake") /\ UNCHANGED on
    /\ UNCHANGED <<zoneVars, mgrVars, timerQ, wakeEvent, destroyed, pushed, after>>

\* The creation's reference is not given back.
DestroyZone_KeepsRef(t) ==
    /\ pc[t] = "dzCheck" /\ Idle(t)
    /\ UNCHANGED <<zoneVars, mgrVars, tickVars, appVars, after, aim>>

\* The job goes to whatever zone is in the slot.
PushJobCheck_NoIdCheck(t) ==
    /\ pc[t] = "pjCheck" /\ Goto(t, "pjPush")
    /\ UNCHANGED <<zoneVars, mgrVars, tickVars, appVars, on, after, aim>>

\* A late tick is also left to the timer.
TickLate_AndTimer(t) ==
    /\ pc[t] = "tickEnd" /\ DecThen(t, "idle")
    /\ port' = [port EXCEPT ![<<Slot(t), zoneId[Slot(t)]>>] = @ + 1]
    /\ timerQ' = [timerQ EXCEPT ![Slot(t)] = @ + 1]
    /\ UNCHANGED <<zoneVars, mgrVars, zoneQueue, wakeEvent, appVars, on, aim>>

\* The pinned thread's event is not set.
TickWake_NoEvent(t) ==
    /\ pc[t] = "tkWake" /\ DecThen(t, "idle")
    /\ aim' = [aim EXCEPT ![t] = NoThread]
    /\ UNCHANGED <<zoneVars, mgrVars, tickVars, appVars, on>>

-----------------------------------------------------------------------------
Init ==
    \* CZone::Init: no flag yet, though the slot holds no zone
    /\ refCount = [s \in Slots |-> 0] /\ zoneId = [s \in Slots |-> 0]
    /\ pinnedThread = [s \in Slots |-> NoThread]
    /\ jobQueue = [s \in Slots |-> <<>>]
    /\ jobZoneId = [s \in Slots |-> 0] /\ jobValid = [s \in Slots |-> 1]
    /\ slotFree = [s \in Slots |-> TRUE] /\ lastId = [s \in Slots |-> 0]
    /\ port = [id \in Ids |-> 0] /\ timerQ = [s \in Slots |-> 0]
    /\ zoneQueue = [p \in Pinned |-> <<>>]
    /\ wakeEvent = [p \in Pinned |-> FALSE]
    /\ known = {} /\ destroyed = {} /\ pushed = [s \in Slots |-> 0]
    /\ pc = [t \in Threads |-> "idle"]
    /\ on = [t \in Threads |-> NoZone]
    /\ after = [t \in Threads |-> "idle"]
    /\ aim = [t \in Threads |-> NoThread]

-----------------------------------------------------------------------------
(* CZoneManager::DecreaseRefcount and ReleaseZone.                          *)

DecreaseRefcount(t) ==
    /\ pc[t] = "dec"
    /\ LET n == (refCount[Slot(t)] + Word - 1) % Word
       IN  /\ refCount' = [refCount EXCEPT ![Slot(t)] = n]
           /\ IF n = 0 THEN Goto(t, "rel") /\ UNCHANGED <<on, after>>
                       ELSE Resume(t)
    /\ UNCHANGED <<zoneId, pinnedThread, jobQueue, jobZoneId, jobValid, mgrVars,
                   tickVars, appVars, aim>>
ReleaseCas(t) ==
    /\ pc[t] = "rel"
    /\ IF refCount[Slot(t)] = 0
         THEN /\ refCount' = [refCount EXCEPT ![Slot(t)] = RELEASE_FLAG]
              /\ Goto(t, "clear") /\ UNCHANGED <<on, after>>
         ELSE Resume(t) /\ UNCHANGED refCount
    /\ UNCHANGED <<zoneId, pinnedThread, jobQueue, jobZoneId, jobValid, mgrVars,
                   tickVars, appVars, aim>>
\* CZone::Release: the jobs left are deleted, the timer job is cancelled.
Release(t) ==
    /\ pc[t] = "clear" /\ Goto(t, "push")
    /\ zoneId' = [zoneId EXCEPT ![Slot(t)] = 0]
    /\ jobQueue' = [jobQueue EXCEPT ![Slot(t)] = <<>>]
    /\ jobValid' = [jobValid EXCEPT ![Slot(t)] = 0]
    /\ UNCHANGED <<refCount, pinnedThread, jobZoneId, mgrVars, tickVars, appVars,
                   on, after, aim>>

PushIndex(t) ==
    /\ pc[t] = "push" /\ Resume(t)
    /\ slotFree' = [slotFree EXCEPT ![Slot(t)] = TRUE]
    /\ UNCHANGED <<zoneVars, lastId, tickVars, appVars, aim>>

-----------------------------------------------------------------------------
(* CZoneManager::CreateZone                                                 *)

PopIndex(t, s) ==
    /\ t \in Users /\ pc[t] = "idle" /\ slotFree[s]
    /\ lastId[s] < MaxLife                              \* bound
    /\ CarefulReuse => Ticks(s) = {}
    /\ slotFree' = [slotFree EXCEPT ![s] = FALSE]
    /\ lastId' = [lastId EXCEPT ![s] = @ + 1]
    /\ on' = [on EXCEPT ![t] = <<s, lastId'[s]>>]
    /\ Goto(t, "crAcquire")
    /\ UNCHANGED <<zoneVars, tickVars, appVars, after, aim>>

\* CZone::Acquire, while the flag of the last zone is still up.
Acquire(t) ==
    /\ pc[t] = "crAcquire" /\ Goto(t, "crInc")
    /\ zoneId' = [zoneId EXCEPT ![Slot(t)] = on[t][2]]
    /\ jobZoneId' = [jobZoneId EXCEPT ![Slot(t)] = on[t][2]]
    /\ jobValid' = [jobValid EXCEPT ![Slot(t)] = 1]
    /\ pinnedThread' = [pinnedThread EXCEPT ![Slot(t)] = NoThread]
    /\ UNCHANGED <<refCount, jobQueue, mgrVars, tickVars, appVars, on, after, aim>>

CreateIncrement(t) == IncreaseRefcount(t, "crInc", "crOpen", "crOpen")
\* The interlocked And takes the flag down; usePinned is the caller's choice.
CreateOpen(t) ==
    /\ pc[t] = "crOpen"
    /\ refCount' = [refCount EXCEPT ![Slot(t)] = @ % RELEASE_FLAG]
    /\ Goto(t, "crQueue") \/ (Pinned # {} /\ Goto(t, "crPin"))
    /\ UNCHANGED <<zoneId, pinnedThread, jobQueue, jobZoneId, jobValid, mgrVars,
                   tickVars, appVars, on, after, aim>>

\* The pinned thread with the least weight: any one here.
SetPinned(t) ==
    /\ pc[t] = "crPin" /\ Goto(t, "crQueue")
    /\ \E p \in Pinned : pinnedThread' = [pinnedThread EXCEPT ![Slot(t)] = p]
    /\ UNCHANGED <<refCount, zoneId, jobQueue, jobZoneId, jobValid, mgrVars,
                   tickVars, appVars, on, after, aim>>
\* The first tick is asked for and the id returned.
FirstTick(t) ==
    /\ pc[t] = "crQueue"
    /\ RequestTick(t, on[t], Idle(t), Goto(t, "crWake") /\ UNCHANGED on)
    /\ known' = known \cup {on[t]}
    /\ UNCHANGED <<zoneVars, mgrVars, destroyed, pushed, after>>

FirstWake(t) == SetWakeEvent(t, "crWake") /\ Idle(t) /\ UNCHANGED after

-----------------------------------------------------------------------------
(* DestroyZone, called once for an id, and PushJob, called at any time.     *)

CallDestroyZone(t, id) ==
    /\ t \in Users /\ pc[t] = "idle" /\ id \in known \ destroyed
    /\ destroyed' = destroyed \cup {id}
    /\ on' = [on EXCEPT ![t] = id] /\ Goto(t, "dzCheck")
    /\ UNCHANGED <<zoneVars, mgrVars, tickVars, known, pushed, after, aim>>
DestroyZone(t) ==
    /\ pc[t] = "dzCheck"
    /\ IF zoneId[Slot(t)] = on[t][2]
         THEN DecThen(t, "idle") /\ UNCHANGED on
         ELSE Idle(t) /\ UNCHANGED after
    /\ UNCHANGED <<zoneVars, mgrVars, tickVars, appVars, aim>>

CallPushJob(t, id) ==
    /\ t \in Users /\ pc[t] = "idle" /\ id \in known
    /\ pushed[id[1]] < MaxJobs                          \* bound
    /\ pushed' = [pushed EXCEPT ![id[1]] = @ + 1]
    /\ on' = [on EXCEPT ![t] = id] /\ Goto(t, "pjInc")
    /\ UNCHANGED <<zoneVars, mgrVars, tickVars, known, destroyed, after, aim>>

\* CReferenceZone: a reference, then the flag and the id.
PushJobIncrement(t) == IncreaseRefcount(t, "pjInc", "pjCheck", "idle")
PushJobCheck(t) == CheckId(t, "pjCheck", "pjPush")

PushJob(t) ==
    /\ pc[t] = "pjPush" /\ DecThen(t, "idle")
    /\ jobQueue' = [jobQueue EXCEPT ![Slot(t)] = Append(@, on[t][2])]
    /\ UNCHANGED <<refCount, zoneId, pinnedThread, jobZoneId, jobValid, mgrVars,
                   tickVars, appVars, on, aim>>

-----------------------------------------------------------------------------
(* A ZONE_UPDATE message on a worker: RequestZoneExcute.                    *)

GetZoneUpdate(t, id) ==
    /\ t \in Workers /\ pc[t] = "idle" /\ port[id] > 0
    /\ port' = [port EXCEPT ![id] = @ - 1]
    /\ on' = [on EXCEPT ![t] = id] /\ Goto(t, "exInc")
    /\ UNCHANGED <<zoneVars, mgrVars, timerQ, zoneQueue, wakeEvent, appVars,
                   after, aim>>

ExecuteIncrement(t) == IncreaseRefcount(t, "exInc", "exCheck", "idle")

\* On another id the reference is given back, and the function goes on.
ExecuteCheck(t) ==
    /\ pc[t] = "exCheck"
    /\ IF zoneId[Slot(t)] = on[t][2]
         THEN Goto(t, "tick") /\ UNCHANGED after
         ELSE DecThen(t, "tick")
    /\ UNCHANGED <<zoneVars, mgrVars, tickVars, appVars, on, aim>>

-----------------------------------------------------------------------------
(* CPinnedZoneThreads::PinnedThreadFunc: one id for each wake-up.           *)

PinnedWake(t) ==
    /\ t \in Pinned /\ pc[t] = "idle" /\ wakeEvent[t]
    /\ wakeEvent' = [wakeEvent EXCEPT ![t] = FALSE]
    /\ IF zoneQueue[t] = <<>>
         THEN UNCHANGED <<zoneQueue, on, pc>>
         ELSE /\ zoneQueue' = [zoneQueue EXCEPT ![t] = Tail(@)]
              /\ on' = [on EXCEPT ![t] = Head(zoneQueue[t])]
              /\ Goto(t, "pnInc")
    /\ UNCHANGED <<zoneVars, mgrVars, port, timerQ, appVars, after, aim>>

PinnedIncrement(t) == IncreaseRefcount(t, "pnInc", "pnCheck", "idle")
PinnedCheck(t) == CheckId(t, "pnCheck", "tick")

-----------------------------------------------------------------------------
(* CZone::TickUpdate: the jobs queued, then the next tick is asked for.     *)

TickJobs(t) ==
    /\ pc[t] = "tick" /\ Goto(t, "tickEnd")
    /\ jobQueue' = [jobQueue EXCEPT ![Slot(t)] = <<>>]
    /\ UNCHANGED <<refCount, zoneId, pinnedThread, jobZoneId, jobValid, mgrVars,
                   tickVars, appVars, on, after, aim>>

\* There is time left: the timer job of the slot is queued.
TickToTimer(t) ==
    /\ pc[t] = "tickEnd" /\ DecThen(t, "idle")
    /\ timerQ' = [timerQ EXCEPT ![Slot(t)] = @ + 1]
    /\ UNCHANGED <<zoneVars, mgrVars, port, zoneQueue, wakeEvent, appVars, on,
                   aim>>
\* The tick took too long: the next one is asked for at once.
TickLate(t) ==
    /\ pc[t] = "tickEnd"
    /\ RequestTick(t, <<Slot(t), zoneId[Slot(t)]>>, DecThen(t, "idle"),
                   Goto(t, "tkWake") /\ UNCHANGED after)
    /\ UNCHANGED <<zoneVars, mgrVars, appVars, on>>
TickWake(t) ==
    SetWakeEvent(t, "tkWake") /\ DecThen(t, "idle") /\ UNCHANGED on

-----------------------------------------------------------------------------
(* The timer thread: a job that is due, if it is valid, is executed.        *)

TimerPop(s) ==
    /\ pc[Timer] = "idle" /\ timerQ[s] > 0
    /\ timerQ' = [timerQ EXCEPT ![s] = @ - 1]
    /\ on' = [on EXCEPT ![Timer] = <<s, 0>>] /\ Goto(Timer, "tmValid")
    /\ UNCHANGED <<zoneVars, mgrVars, port, zoneQueue, wakeEvent, appVars, after,
                   aim>>

TimerValid ==
    /\ pc[Timer] = "tmValid"
    /\ IF jobValid[Slot(Timer)] = 1 THEN Goto(Timer, "tmInc") /\ UNCHANGED on
                                    ELSE Idle(Timer)
    /\ UNCHANGED <<zoneVars, mgrVars, tickVars, appVars, after, aim>>

\* CZoneTimerJob::Excute
TimerIncrement == IncreaseRefcount(Timer, "tmInc", "tmCheck", "idle")

\* The id of the zone against the id in the job object of the same slot.
TimerCheck ==
    /\ pc[Timer] = "tmCheck"
    /\ IF zoneId[Slot(Timer)] = jobZoneId[Slot(Timer)]
         THEN Goto(Timer, "tmPost") /\ UNCHANGED after
         ELSE DecThen(Timer, "idle")
    /\ UNCHANGED <<zoneVars, mgrVars, tickVars, appVars, on, aim>>

TimerPost ==
    /\ pc[Timer] = "tmPost"
    /\ RequestTick(Timer, <<Slot(Timer), jobZoneId[Slot(Timer)]>>,
                   DecThen(Timer, "idle"),
                   Goto(Timer, "tmWake") /\ UNCHANGED after)
    /\ UNCHANGED <<zoneVars, mgrVars, appVars, on>>

TimerWake ==
    SetWakeEvent(Timer, "tmWake") /\ DecThen(Timer, "idle") /\ UNCHANGED on

-----------------------------------------------------------------------------
\* What a thread inside the library does next.
LibStep(t) ==
    \/ DecreaseRefcount(t) \/ ReleaseCas(t) \/ Release(t) \/ PushIndex(t)
    \/ Acquire(t) \/ CreateIncrement(t) \/ CreateOpen(t) \/ SetPinned(t)
    \/ FirstTick(t) \/ FirstWake(t) \/ DestroyZone(t)
    \/ PushJobIncrement(t) \/ PushJobCheck(t) \/ PushJob(t)
    \/ ExecuteIncrement(t) \/ ExecuteCheck(t)
    \/ PinnedIncrement(t) \/ PinnedCheck(t)
    \/ TickJobs(t) \/ TickToTimer(t) \/ TickLate(t) \/ TickWake(t)

TimerStep == TimerValid \/ TimerIncrement \/ TimerCheck \/ TimerPost \/ TimerWake

CallStep(t) ==
    \/ \E s \in Slots : PopIndex(t, s)
    \/ \E id \in Ids : CallDestroyZone(t, id) \/ CallPushJob(t, id)

Next ==
    \/ \E t \in Threads : LibStep(t) \/ CallStep(t) \/ PinnedWake(t)
    \/ \E t \in Workers, id \in Ids : GetZoneUpdate(t, id)
    \/ \E s \in Slots : TimerPop(s)
    \/ TimerStep

Spec == Init /\ [][Next]_vars

\* The last reference of the slot goes, and the flag goes up.
LastReference(s) == \E t \in Threads :
    DecreaseRefcount(t) /\ Slot(t) = s /\ refCount'[s] = 0
FlagUp(s) == \E t \in Threads : ReleaseCas(t) /\ Slot(t) = s /\ Flag(refCount'[s])

\* Threads inside the library go on; the port and the timer get to every
\* message and every job that is due; a pinned thread answers its event.  The
\* references of two ticks do not overlap for ever: the timer waits between
\* them, and a thread gives its own back right after it asked for the next.
Fairness ==
    /\ \A s \in Slots : SF_vars(LastReference(s)) /\ SF_vars(FlagUp(s))
    /\ \A t \in Threads : WF_vars(LibStep(t)) /\ WF_vars(PinnedWake(t))
    /\ \A id \in Ids : SF_vars(\E t \in Workers : GetZoneUpdate(t, id))
    /\ \A s \in Slots : SF_vars(TimerPop(s))
    /\ WF_vars(TimerStep)

LiveSpec == Spec /\ Fairness

-----------------------------------------------------------------------------
(* Properties                                                               *)

TypeOK ==
    /\ refCount \in [Slots -> 0 .. Word - 1] /\ zoneId \in [Slots -> Lives]
    /\ pinnedThread \in [Slots -> Pinned \cup {NoThread}]
    /\ jobQueue \in [Slots -> Seq(Lives)]
    /\ jobZoneId \in [Slots -> Lives] /\ jobValid \in [Slots -> {0, 1}]
    /\ slotFree \in [Slots -> BOOLEAN] /\ lastId \in [Slots -> Lives]
    /\ port \in [Ids -> Nat] /\ timerQ \in [Slots -> Nat]
    /\ zoneQueue \in [Pinned -> Seq(Ids)] /\ wakeEvent \in [Pinned -> BOOLEAN]
    /\ known \in SUBSET Ids /\ destroyed \in SUBSET known
    /\ pushed \in [Slots -> 0 .. MaxJobs]
    /\ pc \in [Threads -> Pcs] /\ on \in [Threads -> Ids]
    /\ after \in [Threads -> {"idle", "tick"}]
    /\ aim \in [Threads -> Pinned \cup {NoThread}]

Alive(s) == <<s, zoneId[s]>> \in known \ destroyed

\* The reference CreateZone took and DestroyZone gives back.
Creation(s) ==
    IF /\ zoneId[s] # 0 /\ At(s, {"crAcquire", "crInc"}) = {}
       /\ <<s, zoneId[s]>> \in destroyed => At(s, {"dzCheck"}) # {}
      THEN 1 ELSE 0

\* The count below the flag is the number of owners: the creation and the
\* threads that took a reference.  It fails when a path gives back twice.
RefcountIsOwners ==
    \A s \in Slots :
        refCount[s] % RELEASE_FLAG = Creation(s) + Cardinality(At(s, RefPcs))

\* While the flag is up nobody runs a tick, pushes a job or asks for a tick.
NobodyOnReleased ==
    \A s \in Slots : Flag(refCount[s]) =>
        At(s, {"pjPush", "tick", "tickEnd", "tkWake", "tmPost", "tmWake"}) = {}

\* A zone is a single-threaded actor: its sessions, its jobs and its content
\* have no lock, so two threads must not be in its tick, and a tick asked for
\* by one zone must not run for another.
TickAlone ==
    /\ \A s \in Slots : Cardinality(At(s, TickPcs)) <= 1
    /\ \A t \in Workers \cup Pinned :
           pc[t] \in TickPcs => zoneId[Slot(t)] = on[t][2]

\* Exactly one tick of a living zone is asked for or running; with none the
\* zone would stand still, with two it would run on two threads.
OneTickAtATime ==
    \A s \in Slots : /\ \A x, y \in Ticks(s) : x = y
                     /\ Alive(s) => Ticks(s) # {}

\* A job is run by the zone it was pushed to, or by none.
JobsOfOwnZone ==
    \A s \in Slots : Range(jobQueue[s]) \subseteq {zoneId[s]} \ {0}

\* A zone that was destroyed is released, and its slot given back.
DestroyReleases ==
    \A id \in Ids : id \in destroyed ~> slotFree[id[1]] \/ lastId[id[1]] > id[2]

\* A zone ticks until it is destroyed.
KeepsTicking ==
    \A id \in Ids : id \in known ~>
        id \in destroyed \/ \E t \in Threads : pc[t] = "tick" /\ on[t] = id

\* The count never goes below zero.
CountNeverNegative == \A s \in Slots : refCount[s] # Word - 1

-----------------------------------------------------------------------------
(* What the proofs carry from step to step, when a slot is used again only  *)
(* after its last tick: ZoneIInv.                                           *)

Somebody(s, places) == \E t \in Threads : pc[t] \in places /\ Slot(t) = s

\* Who creates or releases a zone has the slot to itself.
HandlerPcs == CreatePcs \cup {"clear", "push"}
HandlerAlone == \A s \in Slots :
    /\ \A t, u \in At(s, HandlerPcs) : t = u
    /\ slotFree[s] => ~Somebody(s, HandlerPcs)

\* From the compare-exchange that raises the flag until the next zone is
\* open; before the first zone of the slot there is no flag.
Closed(s) ==
    slotFree[s] \/ Somebody(s, {"clear", "push", "crAcquire", "crInc", "crOpen"})
Used(s) == <<s, 1>> \in known
FlagBit(s) == IF Closed(s) /\ Used(s) THEN RELEASE_FLAG ELSE 0

\* The ids the content knows are the ones issued, but for the zone that is
\* being created.
IdsIssued == \A s \in Slots :
    /\ ~slotFree[s] => lastId[s] > 0
    /\ \A i \in Lives : <<s, i>> \in known <=>
           0 < i /\ i <= lastId[s] /\ (i = lastId[s] => ~Somebody(s, CreatePcs))

\* The slot and its timer job hold the zone with the last id, or the slot
\* holds none.
ZoneInSlot == \A s \in Slots :
    IF slotFree[s] \/ Somebody(s, {"push", "crAcquire"})
      THEN zoneId[s] = 0
      ELSE zoneId[s] = lastId[s] /\ jobZoneId[s] = lastId[s] /\ jobValid[s] = 1

\* The zone a thread works for.
LatestPcs == CreatePcs \cup {"exInc", "exCheck", "pnInc", "pnCheck", "tick", "tickEnd"}
OnZone == \A t \in Threads :
    /\ pc[t] \in LatestPcs => on[t][2] = lastId[Slot(t)]
    /\ pc[t] \notin CreatePcs \cup {"idle"} => Used(Slot(t))
    /\ pc[t] = "pjPush" => on[t][2] = zoneId[Slot(t)]
    /\ pc[t] = "dzCheck" => on[t] \in destroyed
    /\ after[t] = "idle"

\* A zone whose creation has not been given back is open, and one thread
\* gives it back.
CreationHeld ==
    /\ \A id \in known :
           id \notin destroyed \/ (\E t \in Threads : pc[t] = "dzCheck" /\ on[t] = id)
               => id[2] = lastId[id[1]] /\ ~Closed(id[1])
    /\ \A t, u \in Threads :
           pc[t] = "dzCheck" /\ pc[u] = "dzCheck" /\ on[t] = on[u] => t = u

\* A reference taken with the flag down keeps the slot open.
HeldPcs == RefPcs \ {"dec"}
HeldOpen == \A t \in Threads : pc[t] \in HeldPcs => ~Closed(Slot(t))

Owners(s) == Creation(s) + Cardinality(At(s, RefPcs))
CountExact == \A s \in Slots : refCount[s] = Owners(s) + FlagBit(s)

\* A tick that waits is of the last zone created.
TicksLatest ==
    /\ \A s \in Slots :
           /\ \A i \in Lives : port[<<s, i>>] > 0 => i = lastId[s] /\ Used(s)
           /\ timerQ[s] > 0 => Used(s)
    /\ \A p \in Pinned : \A i \in DOMAIN zoneQueue[p] :
           LET id == zoneQueue[p][i] IN id[2] = lastId[id[1]] /\ Used(id[1])

\* One tick at a time, said of the places a tick can be at.
OnPort(s) == \E i \in Lives : port[<<s, i>>] > 0
InQueue(s) == \E p \in Pinned : \E i \in DOMAIN zoneQueue[p] :
                                    zoneQueue[p][i][1] = s
Ticking(s) ==
    Somebody(s, TickPlaces) \/ OnPort(s) \/ timerQ[s] > 0 \/ InQueue(s)

OnePlace(s) ==
    /\ Somebody(s, TickPlaces) => ~(OnPort(s) \/ timerQ[s] > 0 \/ InQueue(s))
    /\ OnPort(s) => ~(timerQ[s] > 0 \/ InQueue(s))
    /\ timerQ[s] > 0 => ~InQueue(s)
OnceThere(s) ==
    /\ \A t, u \in Threads : pc[t] \in TickPlaces /\ pc[u] \in TickPlaces
                              /\ Slot(t) = s /\ Slot(u) = s => t = u
    /\ \A i \in Lives : port[<<s, i>>] <= 1
    /\ timerQ[s] <= 1
    /\ \A p, q \in Pinned : \A i \in DOMAIN zoneQueue[p], j \in DOMAIN zoneQueue[q] :
           zoneQueue[p][i][1] = s /\ zoneQueue[q][j][1] = s => p = q /\ i = j

TicksApart == \A s \in Slots :
    OnePlace(s) /\ OnceThere(s) /\ (Alive(s) => Ticking(s))

ZoneIInv ==
    /\ TypeOK /\ HandlerAlone /\ IdsIssued /\ ZoneInSlot /\ OnZone
    /\ CreationHeld /\ HeldOpen /\ CountExact /\ TicksLatest
    /\ TicksApart /\ JobsOfOwnZone
=============================================================================
