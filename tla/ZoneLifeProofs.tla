--------------------------- MODULE ZoneLifeProofs ---------------------------
(***************************************************************************)
(* For any number of threads, slots, zones and jobs: the reference count of *)
(* a zone is exact, nobody works in a released one, and one tick of a       *)
(* living zone is asked for or running, as long as a slot is used again     *)
(* only after its last tick.  The inductive invariant is ZoneIInv.          *)
(***************************************************************************)
EXTENDS ZoneLife, FiniteSetTheorems, SequenceTheorems, TLAPS

-----------------------------------------------------------------------------
(* The word and the flag.                                                   *)

LEMMA ThreadsFinite == IsFiniteSet(Threads)
  BY ZoneThreadsAssumption, FS_Union, FS_Singleton DEF Threads

\* The flag is half the word, above what the threads and one creation hold.
LEMMA FlagNumbers ==
  /\ RELEASE_FLAG \in Nat /\ Word = 2 * RELEASE_FLAG
  /\ Cardinality(Threads) \in Nat
  /\ RELEASE_FLAG > Cardinality(Threads) + 1
PROOF
  <1>1. Cardinality(Threads) \in Nat
    BY ThreadsFinite, FS_CardinalityType
  <1>2. Word \in Nat /\ Word % 2 = 0 /\ Word > 2 * (Cardinality(Threads) + 1)
    BY ZoneBoundsAssumption
  <1> DEFINE c == Cardinality(Threads)
  <1> HIDE DEF c
  <1>3. \A w, k \in Nat : w % 2 = 0 /\ w > 2 * (k + 1)
           => w \div 2 \in Nat /\ w = 2 * (w \div 2) /\ w \div 2 > k + 1
    OBVIOUS
  <1> QED
    BY <1>1, <1>2, <1>3 DEF RELEASE_FLAG

\* Counting below the flag, with the flag up or down.
LEMMA ModFlag ==
  \A f \in Nat : \A n \in Nat : n < f =>
     /\ n % f = n /\ (n + f) % f = n
     /\ n % (2 * f) = n /\ (n + f) % (2 * f) = n + f
PROOF
  <1> TAKE f \in Nat
  <1> TAKE n \in Nat
  <1> HAVE n < f
  <1>1. n % f = n
    OBVIOUS
  <1>2. (n + f) % f = n
    OBVIOUS
  <1>3. n % (2 * f) = n
    OBVIOUS
  <1>4. (n + f) % (2 * f) = n + f
    OBVIOUS
  <1> QED
    BY <1>1, <1>2, <1>3, <1>4

-----------------------------------------------------------------------------
(* Types.                                                                   *)

LEMMA NoZoneType == NoZone \in Ids
PROOF
  <1>1. \E s \in Slots : TRUE
    BY ZoneThreadsAssumption
  <1>2. (CHOOSE s \in Slots : TRUE) \in Slots
    BY <1>1
  <1>3. 0 \in Lives
    BY ZoneBoundsAssumption DEF Lives
  <1> QED
    BY <1>2, <1>3 DEF NoZone, Ids

\* What every step keeps of a count.
LEMMA CountTypes ==
  /\ \A n \in 0 .. Word - 1 : /\ (n + 1) % Word \in 0 .. Word - 1
                             /\ (n + Word - 1) % Word \in 0 .. Word - 1
                             /\ n % RELEASE_FLAG \in 0 .. Word - 1
  /\ 0 \in 0 .. Word - 1 /\ RELEASE_FLAG \in 0 .. Word - 1
PROOF
  <1>1. RELEASE_FLAG \in Nat /\ Word = 2 * RELEASE_FLAG /\ RELEASE_FLAG > 1
    BY FlagNumbers
  <1>2. \A f \in Nat : f > 1 =>
          /\ \A n \in 0 .. 2 * f - 1 : /\ (n + 1) % (2 * f) \in 0 .. 2 * f - 1
                                     /\ (n + 2 * f - 1) % (2 * f) \in 0 .. 2 * f - 1
                                     /\ n % f \in 0 .. 2 * f - 1
          /\ 0 \in 0 .. 2 * f - 1 /\ f \in 0 .. 2 * f - 1
    OBVIOUS
  <1> QED
    BY <1>1, <1>2

\* A thread at a slot has the parts of an id.
LEMMA OnType ==
  ASSUME TypeOK, NEW t \in Threads
  PROVE  /\ Slot(t) \in Slots /\ on[t][2] \in Lives /\ on[t] \in Ids
         /\ on[t] = <<Slot(t), on[t][2]>> /\ pc[t] \in Pcs
  BY DEF TypeOK, Ids, Slot

\* What asking for a tick does to the places a tick waits at.
Asked(t, id) ==
  LET p == pinnedThread[Slot(t)]
  IN  /\ timerQ' = timerQ /\ wakeEvent' = wakeEvent
      /\ \/ /\ p = NoThread
            /\ port' = [port EXCEPT ![id] = @ + 1]
            /\ zoneQueue' = zoneQueue /\ aim' = aim
         \/ /\ p \in Pinned
            /\ zoneQueue' = [zoneQueue EXCEPT ![p] = Append(@, id)]
            /\ port' = port /\ aim' = [aim EXCEPT ![t] = p]

LEMMA AskedTypes ==
  ASSUME TypeOK, NEW t \in Threads, NEW id \in Ids, Asked(t, id)
  PROVE  /\ port' \in [Ids -> Nat] /\ timerQ' \in [Slots -> Nat]
         /\ zoneQueue' \in [Pinned -> Seq(Ids)]
         /\ wakeEvent' \in [Pinned -> BOOLEAN]
         /\ aim' \in [Threads -> Pinned \cup {NoThread}]
PROOF
  <1>1. CASE port' = [port EXCEPT ![id] = @ + 1] /\ zoneQueue' = zoneQueue /\ aim' = aim
    BY <1>1 DEF Asked, TypeOK
  <1>2. ASSUME NEW p \in Pinned, port' = port, aim' = [aim EXCEPT ![t] = p],
               zoneQueue' = [zoneQueue EXCEPT ![p] = Append(@, id)]
        PROVE  /\ zoneQueue' \in [Pinned -> Seq(Ids)] /\ port' \in [Ids -> Nat]
               /\ aim' \in [Threads -> Pinned \cup {NoThread}]
    BY <1>2 DEF TypeOK
  <1> QED
    BY <1>1, <1>2 DEF Asked, TypeOK

\* The three steps that ask for a tick, each for the zone in its slot.
LEMMA Asking ==
  ASSUME TypeOK, NEW t \in Threads
  PROVE  /\ FirstTick(t) =>
              /\ Asked(t, on[t]) /\ known' = known \cup {on[t]}
              /\ Idle(t) \/ (Goto(t, "crWake") /\ on' = on)
         /\ TickLate(t) => /\ Asked(t, <<Slot(t), zoneId[Slot(t)]>>)
                           /\ \/ DecThen(t, "idle")
                              \/ Goto(t, "tkWake") /\ after' = after
                           /\ on' = on
         /\ TimerPost /\ t = Timer =>
              /\ Asked(t, <<Slot(t), jobZoneId[Slot(t)]>>)
              /\ DecThen(t, "idle") \/ (Goto(t, "tmWake") /\ after' = after)
              /\ on' = on
PROOF
  <1>1. pinnedThread[Slot(t)] \in Pinned \cup {NoThread}
    BY OnType DEF TypeOK
  <1> QED
    BY <1>1 DEF FirstTick, TickLate, TimerPost, RequestTick, Asked, zoneVars

LEMMA LibStepTypes ==
  ASSUME TypeOK, NEW t \in Threads, LibStep(t)
  PROVE  TypeOK'
PROOF
  <1> USE DEF zoneVars, mgrVars, tickVars, appVars
  <1>0. /\ Slot(t) \in Slots /\ on[t][2] \in Lives /\ on[t] \in Ids
        /\ 0 \in Lives /\ NoZone \in Ids
    BY OnType, NoZoneType, ZoneBoundsAssumption DEF Lives
  <1>1. CASE DecreaseRefcount(t)
    BY <1>0, <1>1, CountTypes
       DEF DecreaseRefcount, Resume, Idle, TypeOK, Goto, Pcs
  <1>2. CASE ReleaseCas(t)
    BY <1>0, <1>2, CountTypes
       DEF ReleaseCas, Resume, Idle, TypeOK, Goto, Pcs
  <1>3. CASE Release(t)
    BY <1>0, <1>3
       DEF Release, TypeOK, Goto, Pcs
  <1>4. CASE PushIndex(t)
    BY <1>0, <1>4
       DEF PushIndex, Resume, Idle, TypeOK, Goto, Pcs
  <1>5. CASE Acquire(t)
    BY <1>0, <1>5
       DEF Acquire, TypeOK, Goto, Pcs
  <1>6. CASE CreateIncrement(t)
    BY <1>0, <1>6, CountTypes
       DEF CreateIncrement, IncreaseRefcount, DecThen, TypeOK, Goto, Pcs
  <1>7. CASE CreateOpen(t)
    BY <1>0, <1>7, CountTypes
       DEF CreateOpen, TypeOK, Goto, Pcs
  <1>8. CASE SetPinned(t)
    BY <1>0, <1>8
       DEF SetPinned, TypeOK, Goto, Pcs
  <1>9. CASE FirstTick(t)
    <2>1. /\ Asked(t, on[t]) /\ known' = known \cup {on[t]}
          /\ Idle(t) \/ (Goto(t, "crWake") /\ on' = on)
      BY <1>9, Asking
    <2>2. /\ UNCHANGED <<zoneVars, mgrVars, destroyed, pushed, after>>
          /\ known' \in SUBSET Ids /\ destroyed' \in SUBSET known'
      BY <1>0, <1>9, <2>1 DEF FirstTick, TypeOK
    <2>3. /\ port' \in [Ids -> Nat] /\ timerQ' \in [Slots -> Nat]
          /\ zoneQueue' \in [Pinned -> Seq(Ids)]
          /\ wakeEvent' \in [Pinned -> BOOLEAN]
          /\ aim' \in [Threads -> Pinned \cup {NoThread}]
      BY <1>0, <2>1, AskedTypes
    <2>4. pc' \in [Threads -> Pcs] /\ on' \in [Threads -> Ids]
      BY <1>0, <2>1 DEF TypeOK, Idle, Goto, Pcs
    <2> QED
      BY <2>2, <2>3, <2>4 DEF TypeOK
  <1>10. CASE FirstWake(t)
    BY <1>0, <1>10
       DEF FirstWake, SetWakeEvent, Idle, TypeOK, Goto, Pcs
  <1>11. CASE DestroyZone(t)
    BY <1>0, <1>11
       DEF DestroyZone, DecThen, Idle, TypeOK, Goto, Pcs
  <1>12. CASE PushJobIncrement(t)
    BY <1>0, <1>12, CountTypes
       DEF PushJobIncrement, IncreaseRefcount, DecThen, TypeOK, Goto, Pcs
  <1>13. CASE PushJobCheck(t)
    BY <1>0, <1>13
       DEF PushJobCheck, CheckId, DecThen, TypeOK, Goto, Pcs
  <1>14. CASE PushJob(t)
    BY <1>0, <1>14
       DEF PushJob, DecThen, TypeOK, Goto, Pcs
  <1>15. CASE ExecuteIncrement(t)
    BY <1>0, <1>15, CountTypes
       DEF ExecuteIncrement, IncreaseRefcount, DecThen, TypeOK, Goto, Pcs
  <1>16. CASE ExecuteCheck(t)
    BY <1>0, <1>16
       DEF ExecuteCheck, DecThen, TypeOK, Goto, Pcs
  <1>17. CASE PinnedIncrement(t)
    BY <1>0, <1>17, CountTypes
       DEF PinnedIncrement, IncreaseRefcount, DecThen, TypeOK, Goto, Pcs
  <1>18. CASE PinnedCheck(t)
    BY <1>0, <1>18
       DEF PinnedCheck, CheckId, DecThen, TypeOK, Goto, Pcs
  <1>19. CASE TickJobs(t)
    BY <1>0, <1>19
       DEF TickJobs, TypeOK, Goto, Pcs
  <1>20. CASE TickToTimer(t)
    BY <1>0, <1>20
       DEF TickToTimer, DecThen, TypeOK, Goto, Pcs
  <1>21. CASE TickLate(t)
    <2>1. <<Slot(t), zoneId[Slot(t)]>> \in Ids
      BY <1>0 DEF TypeOK, Ids
    <2>2. /\ Asked(t, <<Slot(t), zoneId[Slot(t)]>>) /\ on' = on
          /\ DecThen(t, "idle") \/ (Goto(t, "tkWake") /\ after' = after)
      BY <1>21, Asking
    <2> QED
      BY <1>0, <1>21, <2>1, <2>2, AskedTypes
         DEF TickLate, DecThen, TypeOK, Goto, Pcs
  <1>22. CASE TickWake(t)
    BY <1>0, <1>22
       DEF TickWake, SetWakeEvent, DecThen, TypeOK, Goto, Pcs
  <1> QED
    BY <1>1, <1>2, <1>3, <1>4, <1>5, <1>6, <1>7, <1>8, <1>9, <1>10,
       <1>11, <1>12, <1>13, <1>14, <1>15, <1>16, <1>17, <1>18, <1>19,
       <1>20, <1>21, <1>22
       DEF LibStep

LEMMA CallStepTypes ==
  ASSUME TypeOK, NEW t \in Threads, CallStep(t)
  PROVE  TypeOK'
PROOF
  <1> USE DEF zoneVars, mgrVars, tickVars, appVars
  <1>1. CASE \E s \in Slots : PopIndex(t, s)
    <2>1. PICK s \in Slots : PopIndex(t, s)
      BY <1>1
    <2>2. lastId[s] + 1 \in Lives
      BY <2>1, ZoneBoundsAssumption DEF PopIndex, TypeOK, Lives
    <2>3. lastId'[s] = lastId[s] + 1 /\ <<s, lastId'[s]>> \in Ids
      BY <2>1, <2>2 DEF PopIndex, TypeOK, Ids
    <2> QED
      BY <2>1, <2>2, <2>3 DEF PopIndex, TypeOK, Goto, Pcs
  <1>2. CASE \E id \in Ids : CallDestroyZone(t, id)
    BY <1>2 DEF CallDestroyZone, TypeOK, Goto, Pcs
  <1>3. CASE \E id \in Ids : CallPushJob(t, id)
    <2>1. PICK id \in Ids : CallPushJob(t, id)
      BY <1>3
    <2>2. id[1] \in Slots
      BY DEF Ids
    <2>3. pushed[id[1]] + 1 \in 0 .. MaxJobs
      BY <2>1, <2>2, ZoneBoundsAssumption DEF CallPushJob, TypeOK
    <2> QED
      BY <2>1, <2>2, <2>3 DEF CallPushJob, TypeOK, Goto, Pcs
  <1> QED
    BY <1>1, <1>2, <1>3 DEF CallStep

LEMMA MessageTypes ==
  ASSUME TypeOK,
         \/ \E t \in Threads : PinnedWake(t)
         \/ \E t \in Workers, id \in Ids : GetZoneUpdate(t, id)
         \/ \E s \in Slots : TimerPop(s)
  PROVE  TypeOK'
PROOF
  <1> USE DEF zoneVars, mgrVars, tickVars, appVars
  <1>1. ASSUME NEW t \in Threads, PinnedWake(t) PROVE TypeOK'
    <2>1. t \in Pinned /\ zoneQueue[t] \in Seq(Ids)
      BY <1>1 DEF PinnedWake, TypeOK
    <2>2. CASE zoneQueue[t] = <<>>
      BY <1>1, <2>1, <2>2 DEF PinnedWake, TypeOK
    <2>3. CASE zoneQueue[t] # <<>>
      <3>1. Head(zoneQueue[t]) \in Ids /\ Tail(zoneQueue[t]) \in Seq(Ids)
        BY <2>1, <2>3
      <3> QED
        BY <1>1, <2>1, <2>3, <3>1 DEF PinnedWake, TypeOK, Goto, Pcs
    <2> QED
      BY <2>2, <2>3
  <1>2. ASSUME NEW t \in Workers, NEW id \in Ids, GetZoneUpdate(t, id)
        PROVE  TypeOK'
    BY <1>2 DEF GetZoneUpdate, TypeOK, Goto, Pcs, Threads
  <1>3. ASSUME NEW s \in Slots, TimerPop(s) PROVE TypeOK'
    <2>1. <<s, 0>> \in Ids /\ Timer \in Threads
      BY ZoneBoundsAssumption DEF Ids, Lives, Threads
    <2> QED
      BY <1>3, <2>1 DEF TimerPop, TypeOK, Goto, Pcs
  <1> QED
    BY <1>1, <1>2, <1>3

LEMMA TimerStepTypes ==
  ASSUME TypeOK, TimerStep
  PROVE  TypeOK'
PROOF
  <1> USE DEF zoneVars, mgrVars, tickVars, appVars
  <1>0. /\ Timer \in Threads /\ Slot(Timer) \in Slots /\ NoZone \in Ids
        /\ <<Slot(Timer), jobZoneId[Slot(Timer)]>> \in Ids
    <2>1. Timer \in Threads
      BY DEF Threads
    <2>2. Slot(Timer) \in Slots
      BY <2>1, OnType
    <2> QED
      BY <2>1, <2>2, NoZoneType DEF TypeOK, Ids
  <1>1. CASE TimerValid
    BY <1>0, <1>1 DEF TimerValid, Idle, TypeOK, Goto, Pcs
  <1>2. CASE TimerIncrement
    BY <1>0, <1>2, CountTypes
       DEF TimerIncrement, IncreaseRefcount, DecThen, TypeOK, Goto, Pcs
  <1>3. CASE TimerCheck
    BY <1>0, <1>3 DEF TimerCheck, DecThen, TypeOK, Goto, Pcs
  <1>4. CASE TimerPost
    <2>1. /\ Asked(Timer, <<Slot(Timer), jobZoneId[Slot(Timer)]>>) /\ on' = on
          /\ DecThen(Timer, "idle") \/ (Goto(Timer, "tmWake") /\ after' = after)
      BY <1>0, <1>4, Asking
    <2> QED
      BY <1>0, <1>4, <2>1, AskedTypes DEF TimerPost, DecThen, TypeOK, Goto, Pcs
  <1>5. CASE TimerWake
    BY <1>0, <1>5 DEF TimerWake, SetWakeEvent, DecThen, TypeOK, Goto, Pcs
  <1> QED
    BY <1>1, <1>2, <1>3, <1>4, <1>5 DEF TimerStep

LEMMA NextTypes == TypeOK /\ [Next]_vars => TypeOK'
PROOF
  <1> SUFFICES ASSUME TypeOK, [Next]_vars PROVE TypeOK'
    OBVIOUS
  <1>1. CASE UNCHANGED vars
    BY <1>1 DEF vars, zoneVars, mgrVars, tickVars, appVars, TypeOK
  <1>2. CASE Next
    BY <1>2, LibStepTypes, CallStepTypes, MessageTypes, TimerStepTypes DEF Next
  <1> QED
    BY <1>1, <1>2

LEMMA InitTypes == Init => TypeOK
PROOF
  <1>1. /\ NoZone \in Ids /\ 0 \in Lives /\ MaxJobs \in Nat
        /\ 0 \in 0 .. Word - 1
    BY NoZoneType, CountTypes, ZoneBoundsAssumption DEF Lives
  <1> QED
    BY <1>1 DEF Init, TypeOK, Pcs

-----------------------------------------------------------------------------
(* What the invariant says of one slot.                                     *)

\* Owners are fewer than the flag, so that they never reach it.
LEMMA OwnersBounded ==
  ASSUME NEW s \in Slots
  PROVE  /\ Creation(s) \in {0, 1} /\ Cardinality(At(s, RefPcs)) \in Nat
         /\ Owners(s) \in Nat /\ Owners(s) < RELEASE_FLAG
         /\ \A t \in Threads : pc[t] \in RefPcs /\ Slot(t) = s => Owners(s) > 0
PROOF
  <1> DEFINE A == At(s, RefPcs)
  <1>1. IsFiniteSet(A) /\ Cardinality(A) <= Cardinality(Threads)
    BY ThreadsFinite, FS_Subset DEF At
  <1>2. Cardinality(A) \in Nat /\ (Cardinality(A) = 0 <=> A = {})
    BY <1>1, FS_CardinalityType, FS_EmptySet
  <1>3. Creation(s) \in {0, 1}
    BY DEF Creation
  <1>4. \A t \in Threads : pc[t] \in RefPcs /\ Slot(t) = s => A # {}
    BY DEF At
  <1> HIDE DEF A
  <1>5. Creation(s) + Cardinality(A) \in Nat
    BY <1>2, <1>3
  <1>6. Creation(s) + Cardinality(A) < RELEASE_FLAG
    BY <1>1, <1>2, <1>3, FlagNumbers
  <1>7. A # {} => Creation(s) + Cardinality(A) > 0
    BY <1>2, <1>3
  <1> QED
    BY <1>2, <1>3, <1>4, <1>5, <1>6, <1>7 DEF Owners, A

\* The flag is up between the end of a zone and the opening of the next.
LEMMA FlagMeaning ==
  ASSUME TypeOK, CountExact, NEW s \in Slots
  PROVE  /\ Flag(refCount[s]) <=> Closed(s) /\ Used(s)
         /\ refCount[s] % RELEASE_FLAG = Owners(s)
         /\ refCount[s] = 0 => Owners(s) = 0 /\ ~(Closed(s) /\ Used(s))
PROOF
  <1>1. /\ Owners(s) \in Nat /\ Owners(s) < RELEASE_FLAG
        /\ RELEASE_FLAG \in Nat /\ RELEASE_FLAG > 0
    BY OwnersBounded, FlagNumbers
  <1>2. CASE Closed(s) /\ Used(s)
    <2>1. refCount[s] = Owners(s) + RELEASE_FLAG
      BY <1>2 DEF CountExact, FlagBit
    <2>2. refCount[s] % RELEASE_FLAG = Owners(s)
      BY <1>1, <2>1, ModFlag
    <2>3. refCount[s] >= RELEASE_FLAG /\ refCount[s] # 0
      BY <1>1, <2>1
    <2> QED
      BY <1>2, <2>2, <2>3 DEF Flag
  <1>3. CASE ~(Closed(s) /\ Used(s))
    <2>1. refCount[s] = Owners(s) + 0
      BY <1>3 DEF CountExact, FlagBit
    <2>2. refCount[s] = Owners(s)
      BY <1>1, <2>1
    <2>3. refCount[s] % RELEASE_FLAG = Owners(s)
      BY <1>1, <2>2, ModFlag
    <2>4. ~(refCount[s] >= RELEASE_FLAG)
      BY <1>1, <2>2
    <2> QED
      BY <1>3, <2>2, <2>3, <2>4 DEF Flag
  <1> QED
    BY <1>2, <1>3

\* Adding one to the owners adds one to the count and leaves the flag.
LEMMA CountUp ==
  ASSUME TypeOK, CountExact, NEW s \in Slots, Owners(s) + 1 < RELEASE_FLAG
  PROVE  LET n == (refCount[s] + 1) % Word
         IN  /\ n = Owners(s) + 1 + FlagBit(s)
             /\ Flag(n) <=> Closed(s) /\ Used(s)
PROOF
  <1>1. /\ Owners(s) \in Nat /\ Word = 2 * RELEASE_FLAG
        /\ RELEASE_FLAG \in Nat /\ RELEASE_FLAG > 0
    BY OwnersBounded, FlagNumbers
  <1>2. refCount[s] = Owners(s) + FlagBit(s)
    BY DEF CountExact
  <1>3. FlagBit(s) = IF Closed(s) /\ Used(s) THEN RELEASE_FLAG ELSE 0
    BY DEF FlagBit
  <1> DEFINE k == Owners(s)
             f == RELEASE_FLAG
             n == (refCount[s] + 1) % Word
  <1> HIDE DEF k, f
  <1>4. CASE Closed(s) /\ Used(s)
    <2>1. refCount[s] + 1 = (k + 1) + f
      BY <1>1, <1>2, <1>3, <1>4 DEF k, f
    <2>2. n = (k + 1) + f
      BY <1>1, <2>1, ModFlag DEF k, f
    <2>3. n >= f
      BY <1>1, <2>2 DEF k, f
    <2> QED
      BY <1>3, <1>4, <2>2, <2>3 DEF k, f, Flag
  <1>5. CASE ~(Closed(s) /\ Used(s))
    <2>1. refCount[s] + 1 = k + 1
      BY <1>1, <1>2, <1>3, <1>5 DEF k, f
    <2>2. n = k + 1
      BY <1>1, <2>1, ModFlag DEF k, f
    <2>3. ~(n >= f) /\ n = k + 1 + 0
      BY <1>1, <2>2 DEF k, f
    <2> QED
      BY <1>3, <1>5, <2>2, <2>3 DEF k, f, Flag
  <1> QED
    BY <1>4, <1>5

\* Taking one from the owners takes one from the count.
LEMMA CountDown ==
  ASSUME TypeOK, CountExact, NEW s \in Slots, Owners(s) > 0
  PROVE  (refCount[s] + Word - 1) % Word = Owners(s) - 1 + FlagBit(s)
PROOF
  <1>1. /\ Owners(s) \in Nat /\ Word = 2 * RELEASE_FLAG /\ Owners(s) < RELEASE_FLAG
        /\ RELEASE_FLAG \in Nat /\ RELEASE_FLAG > 0
    BY OwnersBounded, FlagNumbers
  <1>2. refCount[s] = Owners(s) + FlagBit(s)
    BY DEF CountExact
  <1>3. FlagBit(s) = RELEASE_FLAG \/ FlagBit(s) = 0
    BY DEF FlagBit
  <1>4. \A k, f, b \in Nat : 0 < k /\ k < f /\ (b = f \/ b = 0)
          => (k + b + 2 * f - 1) % (2 * f) = k - 1 + b
    OBVIOUS
  <1>5. FlagBit(s) \in Nat
    BY <1>1, <1>3
  <1> QED
    BY <1>1, <1>2, <1>3, <1>4, <1>5

\* The first zone of a slot is known once a second one is created, or the
\* first is.
LEMMA UsedMeaning ==
  ASSUME TypeOK, IdsIssued, NEW s \in Slots
  PROVE  /\ Used(s) <=> lastId[s] > 1 \/ (lastId[s] = 1 /\ ~Somebody(s, CreatePcs))
         /\ <<s, 0>> \notin known
         /\ \A i \in Lives : <<s, i>> \in known => Used(s) /\ i <= lastId[s]
PROOF
  <1>1. lastId[s] \in 0 .. MaxLife /\ MaxLife \in Nat /\ 0 \in Lives
    BY ZoneBoundsAssumption DEF TypeOK, Lives
  <1>2. \A i \in Lives : <<s, i>> \in known <=>
           0 < i /\ i <= lastId[s] /\ (i = lastId[s] => ~Somebody(s, CreatePcs))
    BY DEF IdsIssued
  <1>3. 1 \in Lives => (Used(s) <=> lastId[s] > 1 \/ (lastId[s] = 1 /\ ~Somebody(s, CreatePcs)))
    BY <1>1, <1>2 DEF Used
  <1>4. 1 \notin Lives => MaxLife = 0 /\ lastId[s] = 0 /\ <<s, 1>> \notin known
    BY <1>1 DEF TypeOK, Ids, Lives
  <1>5. Used(s) <=> lastId[s] > 1 \/ (lastId[s] = 1 /\ ~Somebody(s, CreatePcs))
    BY <1>1, <1>3, <1>4 DEF Used
  <1>6. <<s, 0>> \notin known
    BY <1>1, <1>2
  <1>7. ASSUME NEW i \in Lives, <<s, i>> \in known PROVE Used(s) /\ i <= lastId[s]
    BY <1>1, <1>2, <1>5, <1>7 DEF Lives
  <1> QED
    BY <1>5, <1>6, <1>7

\* An open slot holds the last zone created.
LEMMA OpenZone ==
  ASSUME TypeOK, IdsIssued, ZoneInSlot, NEW s \in Slots, ~Closed(s)
  PROVE  /\ zoneId[s] = lastId[s] /\ lastId[s] > 0 /\ jobValid[s] = 1
         /\ jobZoneId[s] = lastId[s]
  BY DEF IdsIssued, ZoneInSlot, Closed, Somebody

\* A zone the content has not destroyed is open.
LEMMA AliveOpen ==
  ASSUME TypeOK, CreationHeld, NEW s \in Slots, Alive(s)
  PROVE  ~Closed(s)
PROOF
  <1>1. <<s, zoneId[s]>> \in known /\ <<s, zoneId[s]>> \notin destroyed
    BY DEF Alive
  <1> QED
    BY <1>1 DEF CreationHeld

\* The one that destroys a zone does so once, while the zone is in its slot.
LEMMA DestroyerAlone ==
  ASSUME TypeOK, IdsIssued, ZoneInSlot, OnZone, CreationHeld,
         NEW t \in Threads, pc[t] = "dzCheck"
  PROVE  /\ ~Closed(Slot(t)) /\ zoneId[Slot(t)] = on[t][2] /\ on[t] \in destroyed
         /\ \A u \in Threads : u # t /\ Slot(u) = Slot(t) => pc[u] # "dzCheck"
PROOF
  <1>1. \A u \in Threads : pc[u] = "dzCheck" =>
           /\ Slot(u) \in Slots /\ on[u] = <<Slot(u), on[u][2]>>
           /\ on[u] \in destroyed /\ on[u][2] = lastId[Slot(u)] /\ ~Closed(Slot(u))
    <2> SUFFICES ASSUME NEW u \in Threads, pc[u] = "dzCheck"
                 PROVE  /\ Slot(u) \in Slots /\ on[u] = <<Slot(u), on[u][2]>>
                        /\ on[u] \in destroyed /\ on[u][2] = lastId[Slot(u)]
                        /\ ~Closed(Slot(u))
      OBVIOUS
    <2>1. Slot(u) \in Slots /\ on[u] = <<Slot(u), on[u][2]>> /\ on[u][1] = Slot(u)
      BY OnType DEF Slot
    <2>2. on[u] \in destroyed /\ on[u] \in known
      BY DEF OnZone, TypeOK
    <2>3. on[u][2] = lastId[on[u][1]] /\ ~Closed(on[u][1])
      BY <2>2 DEF CreationHeld
    <2> QED
      BY <2>1, <2>2, <2>3
  <1>2. zoneId[Slot(t)] = lastId[Slot(t)]
    BY <1>1, OpenZone
  <1>3. ASSUME NEW u \in Threads, u # t, Slot(u) = Slot(t), pc[u] = "dzCheck"
        PROVE  FALSE
    <2>1. on[u] = on[t]
      BY <1>1, <1>3
    <2> QED
      BY <1>3, <2>1 DEF CreationHeld
  <1> QED
    BY <1>1, <1>2, <1>3

-----------------------------------------------------------------------------
(* Steps outside the creation and the release of zones.                     *)

\* Only t moves, it neither creates nor releases a zone, and the zones in
\* the slots stay as they are.
OutsideStep(t) ==
  /\ \A u \in Threads : u # t =>
        pc'[u] = pc[u] /\ on'[u] = on[u] /\ after'[u] = after[u]
  /\ pc[t] \notin HandlerPcs /\ pc'[t] \notin HandlerPcs
  /\ UNCHANGED <<slotFree, lastId, zoneId, jobZoneId, jobValid, known>>

\* What the thread that moves has to show for OnZone and HeldOpen.
InOrder(t) ==
  /\ after'[t] = "idle"
  /\ pc'[t] # "idle" => Used(on'[t][1])
  /\ pc'[t] \in LatestPcs => on'[t][2] = lastId[on'[t][1]]
  /\ pc'[t] = "pjPush" => on'[t][2] = zoneId[on'[t][1]]
  /\ pc'[t] = "dzCheck" => on'[t] \in destroyed'
  /\ pc'[t] \in HeldPcs => ~Closed(on'[t][1])

LEMMA OutsideHandlers ==
  ASSUME NEW t \in Threads, OutsideStep(t), NEW s
  PROVE  /\ \A P \in SUBSET HandlerPcs : Somebody(s, P)' <=> Somebody(s, P)
         /\ Closed(s)' <=> Closed(s)
         /\ Used(s)' <=> Used(s)
         /\ FlagBit(s)' = FlagBit(s)
PROOF
  <1>1. \A u \in Threads : \A P \in SUBSET HandlerPcs :
          (pc'[u] \in P /\ on'[u][1] = s) <=> (pc[u] \in P /\ on[u][1] = s)
    BY DEF OutsideStep
  <1>2. \A P \in SUBSET HandlerPcs : Somebody(s, P)' <=> Somebody(s, P)
    BY <1>1 DEF Somebody, Slot
  <1>3. {"clear", "push", "crAcquire", "crInc", "crOpen"} \in SUBSET HandlerPcs
    BY DEF HandlerPcs, CreatePcs
  <1>4. Closed(s)' <=> Closed(s)
    BY <1>2, <1>3 DEF Closed, OutsideStep
  <1>5. Used(s)' <=> Used(s)
    BY DEF Used, OutsideStep
  <1> QED
    BY <1>2, <1>4, <1>5 DEF FlagBit

LEMMA OutsideZones ==
  ASSUME HandlerAlone, IdsIssued, ZoneInSlot, NEW t \in Threads, OutsideStep(t)
  PROVE  HandlerAlone' /\ IdsIssued' /\ ZoneInSlot'
PROOF
  <1>1. /\ HandlerPcs \in SUBSET HandlerPcs /\ CreatePcs \in SUBSET HandlerPcs
        /\ {"push", "crAcquire"} \in SUBSET HandlerPcs
        /\ {"crAcquire"} \in SUBSET HandlerPcs
    BY DEF HandlerPcs, CreatePcs
  <1>2. \A s : /\ Somebody(s, HandlerPcs)' <=> Somebody(s, HandlerPcs)
               /\ Somebody(s, CreatePcs)' <=> Somebody(s, CreatePcs)
               /\ Somebody(s, {"push", "crAcquire"})'
                    <=> Somebody(s, {"push", "crAcquire"})
               /\ Somebody(s, {"crAcquire"})' <=> Somebody(s, {"crAcquire"})
               /\ Closed(s)' <=> Closed(s)
    BY <1>1, OutsideHandlers
  <1>3. \A s : At(s, HandlerPcs)' \subseteq At(s, HandlerPcs)
    BY DEF At, OutsideStep, Slot
  <1>4. HandlerAlone'
    BY <1>2, <1>3 DEF HandlerAlone, OutsideStep
  <1>5. IdsIssued'
    BY <1>2 DEF IdsIssued, OutsideStep
  <1>6. ZoneInSlot'
    BY <1>2 DEF ZoneInSlot, OutsideStep
  <1> QED
    BY <1>4, <1>5, <1>6

LEMMA OutsideThreads ==
  ASSUME OnZone, HeldOpen, NEW t \in Threads, OutsideStep(t), InOrder(t),
         destroyed \subseteq destroyed'
  PROVE  OnZone' /\ HeldOpen'
PROOF
  <1>1. \A s : (Closed(s)' <=> Closed(s)) /\ (Used(s)' <=> Used(s))
    BY OutsideHandlers
  <1>2. HeldOpen'
    BY <1>1 DEF HeldOpen, InOrder, OutsideStep, Slot
  <1>3. OnZone'
    <2>1. ASSUME NEW u \in Threads, u # t
          PROVE  /\ pc'[u] \in LatestPcs => on'[u][2] = lastId'[on'[u][1]]
                 /\ pc'[u] \notin CreatePcs \cup {"idle"} => Used(on[u][1])'
                 /\ pc'[u] = "pjPush" => on'[u][2] = zoneId'[on'[u][1]]
                 /\ pc'[u] = "dzCheck" => on'[u] \in destroyed'
                 /\ after'[u] = "idle"
      BY <1>1, <2>1 DEF OnZone, OutsideStep, Slot
    <2>2. /\ pc'[t] \in LatestPcs => on'[t][2] = lastId'[on'[t][1]]
          /\ pc'[t] \notin CreatePcs \cup {"idle"} => Used(on[t][1])'
          /\ pc'[t] = "pjPush" => on'[t][2] = zoneId'[on'[t][1]]
          /\ pc'[t] = "dzCheck" => on'[t] \in destroyed'
          /\ after'[t] = "idle"
      BY <1>1 DEF InOrder, OutsideStep
    <2> QED
      BY <2>1, <2>2 DEF OnZone, Slot
  <1> QED
    BY <1>2, <1>3

\* Nobody comes to or leaves DestroyZone.
LEMMA CreationKept ==
  ASSUME TypeOK, CreationHeld, NEW t \in Threads, OutsideStep(t),
         destroyed' = destroyed, pc'[t] # "dzCheck", pc[t] # "dzCheck"
  PROVE  CreationHeld' /\ \A s : Creation(s)' = Creation(s)
PROOF
  <1>1. \A u \in Threads : /\ pc'[u] = "dzCheck" <=> pc[u] = "dzCheck"
                           /\ pc[u] = "dzCheck" => on'[u] = on[u]
    BY DEF OutsideStep
  <1>2. \A s : Closed(s)' <=> Closed(s)
    BY OutsideHandlers
  <1>3. CreationHeld'
    BY <1>1, <1>2 DEF CreationHeld, OutsideStep
  <1>4. \A s : At(s, {"dzCheck"})' = At(s, {"dzCheck"})
    BY <1>1 DEF At, Slot
  <1>5. \A s : At(s, {"crAcquire", "crInc"})' = At(s, {"crAcquire", "crInc"})
    BY DEF At, Slot, OutsideStep, HandlerPcs, CreatePcs
  <1>6. \A s : Creation(s)' = Creation(s)
    BY <1>4, <1>5 DEF Creation, OutsideStep
  <1> QED
    BY <1>3, <1>6

\* How the number of references changes when one thread moves.
LEMMA CountAt ==
  ASSUME NEW A \in SUBSET Threads, NEW B \in SUBSET Threads, NEW t \in Threads,
         A \ {t} = B \ {t}
  PROVE  /\ Cardinality(A) \in Nat /\ Cardinality(B) \in Nat
         /\ (t \in A <=> t \in B) => Cardinality(B) = Cardinality(A)
         /\ t \notin A /\ t \in B => Cardinality(B) = Cardinality(A) + 1
         /\ t \in A /\ t \notin B => Cardinality(B) = Cardinality(A) - 1
PROOF
  <1>1. IsFiniteSet(A) /\ IsFiniteSet(B)
    BY ThreadsFinite, FS_Subset
  <1>2. Cardinality(A) \in Nat /\ Cardinality(B) \in Nat
    BY <1>1, FS_CardinalityType
  <1>3. ASSUME t \in A <=> t \in B PROVE A = B
    BY <1>3
  <1>4. ASSUME t \notin A, t \in B PROVE Cardinality(B) = Cardinality(A) + 1
    <2>1. B = A \cup {t}
      BY <1>4
    <2> QED
      BY <1>1, <1>4, <2>1, FS_AddElement
  <1>5. ASSUME t \in A, t \notin B PROVE Cardinality(B) = Cardinality(A) - 1
    <2>1. B = A \ {t}
      BY <1>5
    <2> QED
      BY <1>1, <1>5, <2>1, FS_RemoveElement
  <1> QED
    BY <1>2, <1>3, <1>4, <1>5

\* The references of a slot when t moves: at the slot of t they change by
\* what t takes or gives back, at the others not at all.
LEMMA RefsMove ==
  ASSUME NEW t \in Threads, NEW s,
         \A u \in Threads : u # t => pc'[u] = pc[u] /\ on'[u] = on[u]
  PROVE  LET was == pc[t] \in RefPcs /\ on[t][1] = s
             is == pc'[t] \in RefPcs /\ on'[t][1] = s
             c == Cardinality(At(s, RefPcs))
         IN  /\ c \in Nat /\ c' \in Nat
             /\ (was <=> is) => c' = c
             /\ ~was /\ is => c' = c + 1
             /\ was /\ ~is => c' = c - 1
PROOF
  <1> DEFINE A == At(s, RefPcs)
             B == At(s, RefPcs)'
  <1>1. A \in SUBSET Threads /\ B \in SUBSET Threads /\ A \ {t} = B \ {t}
    BY DEF At, Slot
  <1>2. /\ t \in A <=> pc[t] \in RefPcs /\ on[t][1] = s
        /\ t \in B <=> pc'[t] \in RefPcs /\ on'[t][1] = s
    BY DEF At, Slot
  <1> HIDE DEF A, B
  <1>3. /\ Cardinality(A) \in Nat /\ Cardinality(B) \in Nat
        /\ (t \in A <=> t \in B) => Cardinality(B) = Cardinality(A)
        /\ t \notin A /\ t \in B => Cardinality(B) = Cardinality(A) + 1
        /\ t \in A /\ t \notin B => Cardinality(B) = Cardinality(A) - 1
    BY <1>1, CountAt
  <1> QED
    BY <1>2, <1>3 DEF A, B

\* The thread keeps what it holds, and so do the counts.
LEMMA CountKept ==
  ASSUME TypeOK, CountExact, NEW t \in Threads, OutsideStep(t),
         \A s : Creation(s)' = Creation(s), refCount' = refCount,
         pc'[t] \in RefPcs <=> pc[t] \in RefPcs,
         pc[t] \in RefPcs => on'[t] = on[t]
  PROVE  CountExact'
PROOF
  <1> SUFFICES ASSUME NEW s \in Slots
               PROVE  refCount'[s] = Owners(s)' + FlagBit(s)'
    BY DEF CountExact
  <1>1. FlagBit(s)' = FlagBit(s)
    BY OutsideHandlers
  <1>2. Cardinality(At(s, RefPcs))' = Cardinality(At(s, RefPcs))
    BY RefsMove DEF OutsideStep
  <1>3. Owners(s)' = Owners(s)
    BY <1>2 DEF Owners
  <1> QED
    BY <1>1, <1>3 DEF CountExact

-----------------------------------------------------------------------------
(* Ticks.                                                                   *)

\* TicksApart is what OneTickAtATime says.
LEMMA TicksMeaning ==
  ASSUME TypeOK, TicksLatest, NEW s \in Slots, OnePlace(s), OnceThere(s)
  PROVE  /\ \A x, y \in Ticks(s) : x = y
         /\ Ticking(s) <=> Ticks(s) # {}
PROOF
  <1> DEFINE InThread(x) == \E t \in Threads :
                  pc[t] \in TickPlaces /\ Slot(t) = s /\ x = <<"thread", t>>
             InPort(x) == \E i \in Lives : \E n \in 1 .. port[<<s, i>>] :
                  x = <<"port", i, n>>
             InTimer(x) == \E n \in 1 .. timerQ[s] : x = <<"timer", n>>
             Queued(x) == \E p \in Pinned : \E i \in DOMAIN zoneQueue[p] :
                  zoneQueue[p][i][1] = s /\ x = <<"queue", p, i>>
  <1>1. \A x : x \in Ticks(s) <=> InThread(x) \/ InPort(x) \/ InTimer(x) \/ Queued(x)
    <2> DEFINE T1 == {<<"thread", t>> : t \in At(s, TickPlaces)}
               T2 == UNION {{<<"port", i, n>> : n \in 1 .. port[<<s, i>>]} : i \in Lives}
               T3 == {<<"timer", n>> : n \in 1 .. timerQ[s]}
               Q(p) == {j \in DOMAIN zoneQueue[p] : zoneQueue[p][j][1] = s}
               T4 == UNION {{<<"queue", p, i>> : i \in Q(p)} : p \in Pinned}
    <2>1. \A x : x \in T1 <=> InThread(x)
      BY DEF At
    <2>2. \A x : x \in T2 <=> InPort(x)
      <3>1. \A x : x \in T2 <=>
              \E i \in Lives : x \in {<<"port", i, n>> : n \in 1 .. port[<<s, i>>]}
        BY Zenon
      <3> QED
        BY <3>1
    <2>3. \A x : x \in T3 <=> InTimer(x)
      OBVIOUS
    <2>4. \A x : x \in T4 <=> Queued(x)
      OBVIOUS
    <2>5. Ticks(s) = ((T1 \cup T2) \cup T3) \cup T4
      BY Zenon DEF Ticks
    <2> HIDE DEF T1, T2, T3, T4, InThread, InPort, InTimer, Queued
    <2> QED
      BY <2>1, <2>2, <2>3, <2>4, <2>5
  <1>2. /\ \A i \in Lives : port[<<s, i>>] \in Nat
        /\ timerQ[s] \in Nat
    BY DEF TypeOK, Ids
  <1>3. \A x, y : InThread(x) /\ InThread(y) => x = y
    BY DEF OnceThere
  <1>4. \A x : InPort(x) => OnPort(s) /\ x = <<"port", lastId[s], 1>>
    <2> SUFFICES ASSUME NEW i \in Lives, NEW n \in 1 .. port[<<s, i>>]
                 PROVE  OnPort(s) /\ i = lastId[s] /\ n = 1
      OBVIOUS
    <2>1. port[<<s, i>>] > 0 /\ port[<<s, i>>] <= 1
      BY <1>2 DEF OnceThere
    <2> QED
      BY <1>2, <2>1 DEF TicksLatest, OnPort
  <1>5. \A x : InTimer(x) => timerQ[s] > 0 /\ x = <<"timer", 1>>
    BY <1>2 DEF OnceThere
  <1>6. \A x, y : Queued(x) /\ Queued(y) => x = y
    BY DEF OnceThere
  <1>7. \A x : /\ InThread(x) => Somebody(s, TickPlaces)
               /\ Queued(x) => InQueue(s)
    BY DEF Somebody, InQueue
  <1>8. ASSUME NEW x \in Ticks(s), NEW y \in Ticks(s) PROVE x = y
    <2> HIDE DEF InThread, InPort, InTimer, Queued
    <2>1. /\ InThread(x) \/ InPort(x) \/ InTimer(x) \/ Queued(x)
          /\ InThread(y) \/ InPort(y) \/ InTimer(y) \/ Queued(y)
      BY <1>1
    <2> QED
      BY <2>1, <1>3, <1>4, <1>5, <1>6, <1>7 DEF OnePlace
  <1>9. ASSUME Ticking(s) PROVE Ticks(s) # {}
    <2>1. CASE Somebody(s, TickPlaces)
      <3>1. PICK t \in Threads : pc[t] \in TickPlaces /\ Slot(t) = s
        BY <2>1 DEF Somebody
      <3>2. InThread(<<"thread", t>>)
        BY <3>1
      <3> QED
        BY <1>1, <3>2
    <2>2. CASE OnPort(s)
      <3>1. PICK i \in Lives : port[<<s, i>>] > 0
        BY <2>2 DEF OnPort
      <3>2. InPort(<<"port", i, 1>>)
        BY <1>2, <3>1
      <3> QED
        BY <1>1, <3>2
    <2>3. CASE timerQ[s] > 0
      <3>1. InTimer(<<"timer", 1>>)
        BY <1>2, <2>3
      <3> QED
        BY <1>1, <3>1
    <2>4. CASE InQueue(s)
      <3>1. PICK p \in Pinned : \E i \in DOMAIN zoneQueue[p] : zoneQueue[p][i][1] = s
        BY <2>4 DEF InQueue
      <3>2. PICK i \in DOMAIN zoneQueue[p] : zoneQueue[p][i][1] = s
        BY <3>1
      <3>3. Queued(<<"queue", p, i>>)
        BY <3>2
      <3> QED
        BY <1>1, <3>3
    <2> QED
      BY <1>9, <2>1, <2>2, <2>3, <2>4 DEF Ticking
  <1>10. ASSUME Ticks(s) # {} PROVE Ticking(s)
    <2>1. PICK x : x \in Ticks(s)
      BY <1>10
    <2> HIDE DEF InThread, InPort, InTimer, Queued
    <2> QED
      BY <1>1, <1>4, <1>5, <1>7, <2>1 DEF Ticking
  <1> QED
    BY <1>8, <1>9, <1>10

\* Where the ticks of s are, when the thread that moves carries none of them
\* before or after.
LEMMA SomebodyElse ==
  ASSUME NEW t \in Threads, NEW s, NEW P,
         \A u \in Threads : u # t => pc'[u] = pc[u] /\ on'[u] = on[u],
         (pc'[t] \in P /\ on'[t][1] = s) <=> (pc[t] \in P /\ on[t][1] = s)
  PROVE  /\ Somebody(s, P)' <=> Somebody(s, P)
         /\ \A u \in Threads : /\ (pc[u] \in P /\ Slot(u) = s)'
                                    <=> (pc[u] \in P /\ Slot(u) = s)
  BY DEF Somebody, Slot

\* No tick moves, and no zone comes alive.
LEMMA TicksStill ==
  ASSUME TypeOK, TicksLatest, TicksApart, NEW t \in Threads,
         \A u \in Threads : u # t => pc'[u] = pc[u] /\ on'[u] = on[u],
         known \subseteq known', \A s : Alive(s)' => Alive(s),
         UNCHANGED <<lastId, port, timerQ, zoneQueue>>,
         pc'[t] \in TickPlaces <=> pc[t] \in TickPlaces,
         pc[t] \in TickPlaces => on'[t] = on[t]
  PROVE  TicksLatest' /\ TicksApart'
PROOF
  <1>1. \A s : /\ Used(s) => Used(s)'
               /\ OnPort(s)' <=> OnPort(s)
               /\ InQueue(s)' <=> InQueue(s)
    BY DEF Used, OnPort, InQueue
  <1>2. \A s : /\ Somebody(s, TickPlaces)' <=> Somebody(s, TickPlaces)
               /\ \A u \in Threads : (pc[u] \in TickPlaces /\ Slot(u) = s)'
                                       <=> (pc[u] \in TickPlaces /\ Slot(u) = s)
    BY SomebodyElse
  <1>3. TicksLatest'
    BY <1>1 DEF TicksLatest
  <1>4. \A s \in Slots : OnePlace(s)' /\ (Alive(s)' => Ticking(s)')
    BY <1>1, <1>2 DEF TicksApart, OnePlace, Ticking
  <1>5. \A s \in Slots : OnceThere(s)'
    BY <1>2 DEF TicksApart, OnceThere
  <1> QED
    BY <1>3, <1>4, <1>5 DEF TicksApart

LEMMA TicksKept ==
  ASSUME TypeOK, TicksLatest, TicksApart, NEW t \in Threads,
         OutsideStep(t), destroyed \subseteq destroyed',
         UNCHANGED <<port, timerQ, zoneQueue>>,
         pc'[t] \in TickPlaces <=> pc[t] \in TickPlaces,
         pc[t] \in TickPlaces => on'[t] = on[t]
  PROVE  TicksLatest' /\ TicksApart'
PROOF
  <1>1. \A s : Alive(s)' => Alive(s)
    BY DEF Alive, OutsideStep
  <1> QED
    BY <1>1, TicksStill DEF OutsideStep

\* A tick that ends on a closed slot ends for good.
LEMMA TicksEnd ==
  ASSUME TypeOK, TicksLatest, TicksApart, CreationHeld, NEW t \in Threads,
         OutsideStep(t), destroyed' = destroyed,
         UNCHANGED <<port, timerQ, zoneQueue>>,
         pc'[t] \notin TickPlaces, Closed(Slot(t))
  PROVE  TicksLatest' /\ TicksApart'
PROOF
  <1>1. \A s : /\ Used(s)' <=> Used(s)
               /\ Alive(s)' <=> Alive(s)
               /\ OnPort(s)' <=> OnPort(s)
               /\ InQueue(s)' <=> InQueue(s)
    BY DEF Used, Alive, OnPort, InQueue, OutsideStep
  <1>2. \A s : Somebody(s, TickPlaces)' => Somebody(s, TickPlaces)
    BY DEF Somebody, Slot, OutsideStep
  <1>3. \A s : s # Slot(t) => (Somebody(s, TickPlaces)' <=> Somebody(s, TickPlaces))
    BY DEF Somebody, Slot, OutsideStep
  <1>4. TicksLatest'
    BY <1>1 DEF TicksLatest, OutsideStep
  <1>5. \A s \in Slots : OnePlace(s)'
    BY <1>1, <1>2 DEF TicksApart, OnePlace
  <1>6. \A s \in Slots : OnceThere(s)'
    <2>1. \A s : \A u \in Threads : (pc[u] \in TickPlaces /\ Slot(u) = s)'
                                      => pc[u] \in TickPlaces /\ Slot(u) = s
      BY DEF OutsideStep, Slot
    <2> QED
      BY <2>1 DEF TicksApart, OnceThere
  <1>7. \A s \in Slots : Alive(s)' => s # Slot(t) /\ Ticking(s)
    BY <1>1, AliveOpen DEF TicksApart
  <1>8. \A s \in Slots : Alive(s)' => Ticking(s)'
    BY <1>1, <1>3, <1>7 DEF Ticking
  <1> QED
    BY <1>4, <1>5, <1>6, <1>8 DEF TicksApart

\* How a tick is handed on: the thread that carried it leaves, and it waits
\* somewhere else.
HandsOn(t, r) ==
  /\ r = Slot(t)
  /\ \A u \in Threads : u # t => pc'[u] = pc[u] /\ on'[u] = on[u]
  /\ pc[t] \in TickPlaces /\ pc'[t] \notin TickPlaces
  /\ known \subseteq known' /\ lastId' = lastId /\ Used(r)'
  /\ \A s \in Slots : s # r => (Alive(s)' => Alive(s))

LEMMA HandedOn ==
  ASSUME TypeOK, TicksApart, NEW t \in Threads, NEW r, HandsOn(t, r)
  PROVE  /\ \A s : Somebody(s, TickPlaces)' => s # r /\ Somebody(s, TickPlaces)
         /\ \A s : s # r => (Somebody(s, TickPlaces)' <=> Somebody(s, TickPlaces))
         /\ \A s : \A u \in Threads : (pc[u] \in TickPlaces /\ Slot(u) = s)'
                                        => pc[u] \in TickPlaces /\ Slot(u) = s
         /\ \A s : Used(s) => Used(s)'
         /\ r \in Slots
         /\ ~OnPort(r) /\ timerQ[r] = 0 /\ ~InQueue(r)
PROOF
  <1>1. r = Slot(t) /\ r \in Slots /\ timerQ[r] \in Nat
    BY OnType DEF TypeOK, HandsOn
  <1>2. Somebody(r, TickPlaces)
    BY <1>1 DEF Somebody, HandsOn
  <1>3. ~OnPort(r) /\ timerQ[r] = 0 /\ ~InQueue(r)
    BY <1>1, <1>2 DEF TicksApart, OnePlace
  <1>4. \A u \in Threads : u # t /\ pc[u] \in TickPlaces => Slot(u) # r
    BY <1>1 DEF TicksApart, OnceThere, HandsOn
  <1>5. \A s : Somebody(s, TickPlaces)' => s # r /\ Somebody(s, TickPlaces)
    BY <1>4 DEF Somebody, Slot, HandsOn
  <1>6. \A s : s # r => (Somebody(s, TickPlaces)' <=> Somebody(s, TickPlaces))
    BY DEF Somebody, Slot, HandsOn
  <1>7. \A s : \A u \in Threads : (pc[u] \in TickPlaces /\ Slot(u) = s)'
                                   => pc[u] \in TickPlaces /\ Slot(u) = s
    BY DEF Slot, HandsOn
  <1>8. \A s : Used(s) => Used(s)'
    BY DEF Used, HandsOn
  <1> QED
    BY <1>1, <1>3, <1>5, <1>6, <1>7, <1>8

LEMMA TicksToTimer ==
  ASSUME TypeOK, TicksLatest, TicksApart, NEW t \in Threads, NEW r, HandsOn(t, r),
         timerQ' = [timerQ EXCEPT ![r] = @ + 1],
         UNCHANGED <<port, zoneQueue>>
  PROVE  TicksLatest' /\ TicksApart'
PROOF
  <1>0. /\ \A s : Somebody(s, TickPlaces)' => s # r /\ Somebody(s, TickPlaces)
        /\ \A s : s # r => (Somebody(s, TickPlaces)' <=> Somebody(s, TickPlaces))
        /\ \A s : Used(s) => Used(s)'
        /\ r \in Slots /\ ~OnPort(r) /\ timerQ[r] = 0 /\ ~InQueue(r) /\ Used(r)'
    BY HandedOn DEF HandsOn
  <1>1. /\ \A s : (OnPort(s)' <=> OnPort(s)) /\ (InQueue(s)' <=> InQueue(s))
        /\ timerQ'[r] = 1 /\ \A s \in Slots : s # r => timerQ'[s] = timerQ[s]
    BY <1>0 DEF OnPort, InQueue, TypeOK
  <1>2. TicksLatest'
    BY <1>0, <1>1 DEF TicksLatest, HandsOn
  <1>3. \A s \in Slots : OnePlace(s)'
    BY <1>0, <1>1 DEF TicksApart, OnePlace
  <1>4. \A s \in Slots : OnceThere(s)'
    BY <1>1, HandedOn DEF TicksApart, OnceThere
  <1>5. \A s \in Slots : Alive(s)' => Ticking(s)'
    <2>1. Ticking(r)'
      BY <1>0, <1>1 DEF Ticking
    <2>2. ASSUME NEW s \in Slots, s # r, Alive(s)' PROVE Ticking(s)'
      <3>1. Ticking(s)
        BY <2>2 DEF HandsOn, TicksApart
      <3> QED
        BY <1>0, <1>1, <2>2, <3>1 DEF Ticking
    <2> QED
      BY <2>1, <2>2
  <1> QED
    BY <1>2, <1>3, <1>4, <1>5 DEF TicksApart

LEMMA TicksAsked ==
  ASSUME TypeOK, TicksLatest, TicksApart, NEW t \in Threads, NEW r, HandsOn(t, r),
         NEW id, id = <<r, lastId[r]>>, Asked(t, id)
  PROVE  TicksLatest' /\ TicksApart'
PROOF
  <1>0. /\ \A s : Somebody(s, TickPlaces)' => s # r /\ Somebody(s, TickPlaces)
        /\ \A s : s # r => (Somebody(s, TickPlaces)' <=> Somebody(s, TickPlaces))
        /\ \A s : Used(s) => Used(s)'
        /\ r \in Slots /\ ~OnPort(r) /\ timerQ[r] = 0 /\ ~InQueue(r) /\ Used(r)'
        /\ lastId' = lastId
    BY HandedOn DEF HandsOn
  <1>1. timerQ' = timerQ /\ id \in Ids /\ id[1] = r /\ id[2] = lastId[r]
    BY <1>0 DEF Asked, TypeOK, Ids
  <1>2. CASE port' = [port EXCEPT ![id] = @ + 1] /\ zoneQueue' = zoneQueue
    <2>1. /\ \A s : InQueue(s)' <=> InQueue(s)
          /\ \A s \in Slots, i \in Lives : s # r => port'[<<s, i>>] = port[<<s, i>>]
          /\ \A i \in Lives : port[<<r, i>>] = 0
          /\ \A i \in Lives : i # lastId[r] => port'[<<r, i>>] = 0
          /\ port'[id] = 1
      <3>1. \A i \in Lives : port[<<r, i>>] \in Nat /\ <<r, i>> \in Ids
        BY <1>0 DEF TypeOK, Ids
      <3>2. \A i \in Lives : port[<<r, i>>] = 0
        BY <1>0, <3>1 DEF OnPort
      <3>3. port[id] = 0
        BY <1>0, <3>2 DEF TypeOK
      <3> QED
        BY <1>0, <1>1, <1>2, <3>1, <3>2, <3>3 DEF InQueue, TypeOK, Ids
    <2>2. /\ \A s \in Slots : s # r => (OnPort(s)' <=> OnPort(s))
          /\ OnPort(r)'
      <3>1. lastId[r] \in Lives /\ id = <<r, lastId[r]>>
        BY <1>0 DEF TypeOK
      <3>2. port'[<<r, lastId[r]>>] > 0
        BY <2>1, <3>1
      <3> QED
        BY <2>1, <3>1, <3>2 DEF OnPort
    <2>3. TicksLatest'
      <3>1. \A s \in Slots : \A i \in Lives : port'[<<s, i>>] > 0 =>
                i = lastId'[s] /\ Used(s)'
        BY <1>0, <2>1 DEF TicksLatest
      <3>2. \A s \in Slots : timerQ'[s] > 0 => Used(s)'
        BY <1>0, <1>1 DEF TicksLatest
      <3>3. \A p \in Pinned : \A i \in DOMAIN zoneQueue'[p] :
              zoneQueue'[p][i][2] = lastId'[zoneQueue'[p][i][1]]
                /\ (Used(zoneQueue[p][i][1]))'
        BY <1>0, <1>2 DEF TicksLatest
      <3> QED
        BY <3>1, <3>2, <3>3 DEF TicksLatest
    <2>4. \A s \in Slots : OnePlace(s)'
      BY <1>0, <1>1, <2>1, <2>2 DEF TicksApart, OnePlace
    <2>5. \A s \in Slots : OnceThere(s)'
      <3>1. \A s \in Slots : \A i \in Lives : port'[<<s, i>>] <= 1
        <4>1. \A i \in Lives : port'[<<r, i>>] <= 1
          <5>1. port'[<<r, lastId[r]>>] = 1
            BY <2>1
          <5> QED
            BY <2>1, <5>1
        <4>2. \A s \in Slots : \A i \in Lives : port[<<s, i>>] <= 1
          BY DEF TicksApart, OnceThere
        <4> QED
          BY <2>1, <4>1, <4>2
      <3> QED
        BY <1>1, <1>2, <3>1, HandedOn DEF TicksApart, OnceThere
    <2>6. \A s \in Slots : Alive(s)' => Ticking(s)'
      <3>1. ASSUME NEW s \in Slots, s # r, Alive(s)' PROVE Ticking(s)'
        <4>1. Ticking(s)
          BY <3>1 DEF HandsOn, TicksApart
        <4> QED
          BY <1>0, <1>1, <2>1, <2>2, <3>1, <4>1 DEF Ticking
      <3> QED
        BY <2>2, <3>1 DEF Ticking
    <2> QED
      BY <2>3, <2>4, <2>5, <2>6 DEF TicksApart
  <1>3. ASSUME NEW p \in Pinned, port' = port,
               zoneQueue' = [zoneQueue EXCEPT ![p] = Append(@, id)]
        PROVE  TicksLatest' /\ TicksApart'
    <2> DEFINE n == Len(zoneQueue[p]) + 1
    <2>1. /\ \A q \in Pinned : q # p => zoneQueue'[q] = zoneQueue[q]
          /\ DOMAIN zoneQueue'[p] = 1 .. n /\ DOMAIN zoneQueue[p] = 1 .. n - 1
          /\ \A i \in 1 .. n - 1 : zoneQueue'[p][i] = zoneQueue[p][i]
          /\ zoneQueue'[p][n] = id /\ n \in Nat /\ n > 0
      <3>1. zoneQueue[p] \in Seq(Ids) /\ zoneQueue'[p] = Append(zoneQueue[p], id)
        BY <1>3 DEF TypeOK
      <3>2. \A q \in Pinned : q # p => zoneQueue'[q] = zoneQueue[q]
        BY <1>3 DEF TypeOK
      <3> QED
        BY <1>1, <3>1, <3>2
    <2> HIDE DEF n
    <2>2. /\ \A s : OnPort(s)' <=> OnPort(s)
          /\ InQueue(r)'
          /\ \A s : s # r => (InQueue(s)' <=> InQueue(s))
      <3>1. \A s : OnPort(s)' <=> OnPort(s)
        BY <1>3 DEF OnPort
      <3>2. InQueue(r)'
        BY <1>1, <2>1 DEF InQueue
      <3>3. \A s : InQueue(s) => InQueue(s)'
        BY <2>1 DEF InQueue
      <3>4. \A s : s # r /\ InQueue(s)' => InQueue(s)
        BY <1>1, <2>1 DEF InQueue
      <3> QED
        BY <3>1, <3>2, <3>3, <3>4
    <2>3. \A q \in Pinned : \A i \in DOMAIN zoneQueue'[q] :
            \/ i \in DOMAIN zoneQueue[q] /\ zoneQueue'[q][i] = zoneQueue[q][i]
            \/ q = p /\ i = n /\ zoneQueue'[q][i] = id
      BY <2>1
    <2>4. TicksLatest'
      <3>1. \A s \in Slots : \A i \in Lives : port'[<<s, i>>] > 0 =>
                i = lastId'[s] /\ Used(s)'
        BY <1>0, <1>3 DEF TicksLatest
      <3>2. \A s \in Slots : timerQ'[s] > 0 => Used(s)'
        BY <1>0, <1>1 DEF TicksLatest
      <3>3. \A q \in Pinned : \A i \in DOMAIN zoneQueue'[q] :
              zoneQueue'[q][i][2] = lastId'[zoneQueue'[q][i][1]]
                /\ (Used(zoneQueue[q][i][1]))'
        BY <1>0, <1>1, <2>3 DEF TicksLatest, Used
      <3> QED
        BY <3>1, <3>2, <3>3 DEF TicksLatest
    <2>5. \A s \in Slots : OnePlace(s)'
      <3> QED
        BY <1>0, <1>1, <2>2 DEF TicksApart, OnePlace
    <2>6. \A s \in Slots : OnceThere(s)'
      <3>1. \A q \in Pinned : \A i \in DOMAIN zoneQueue[q] : zoneQueue[q][i][1] # r
        BY <1>0 DEF InQueue
      <3>2. ASSUME NEW s \in Slots, NEW q1 \in Pinned, NEW q2 \in Pinned,
                   NEW i \in DOMAIN zoneQueue'[q1], NEW j \in DOMAIN zoneQueue'[q2],
                   zoneQueue'[q1][i][1] = s, zoneQueue'[q2][j][1] = s
            PROVE  q1 = q2 /\ i = j
        BY <1>1, <2>3, <3>1, <3>2 DEF TicksApart, OnceThere
      <3>3. \A s \in Slots :
              /\ \A u, v \in Threads :
                   (pc[u] \in TickPlaces /\ pc[v] \in TickPlaces
                      /\ Slot(u) = s /\ Slot(v) = s)' => u = v
              /\ \A i \in Lives : port'[<<s, i>>] <= 1
              /\ timerQ'[s] <= 1
        BY <1>1, <1>3, HandedOn DEF TicksApart, OnceThere
      <3> QED
        BY <3>2, <3>3 DEF OnceThere
    <2>7. \A s \in Slots : Alive(s)' => Ticking(s)'
      <3>1. ASSUME NEW s \in Slots, s # r, Alive(s)' PROVE Ticking(s)'
        <4>1. Ticking(s)
          BY <3>1 DEF HandsOn, TicksApart
        <4> QED
          BY <1>0, <1>1, <2>2, <3>1, <4>1 DEF Ticking
      <3>2. Ticking(r)'
        BY <2>2 DEF Ticking
      <3> QED
        BY <3>1, <3>2
    <2> QED
      BY <2>4, <2>5, <2>6, <2>7 DEF TicksApart
  <1> QED
    BY <1>2, <1>3 DEF Asked

\* How a tick that waits is taken: a thread that carried none takes it.
Takes(t, r) ==
  /\ OutsideStep(t) /\ destroyed' = destroyed
  /\ pc[t] \notin TickPlaces /\ pc'[t] \in TickPlaces
  /\ r \in Slots /\ on'[t][1] = r

LEMMA Taken ==
  ASSUME TypeOK, TicksApart, NEW t \in Threads, NEW r, Takes(t, r),
         OnPort(r) \/ timerQ[r] > 0 \/ InQueue(r)
  PROVE  /\ \A s : s # r => (Somebody(s, TickPlaces)' <=> Somebody(s, TickPlaces))
         /\ Somebody(r, TickPlaces)'
         /\ \A s \in Slots : \A u, v \in Threads :
              (pc[u] \in TickPlaces /\ pc[v] \in TickPlaces
                 /\ Slot(u) = s /\ Slot(v) = s)' => u = v
         /\ \A s : (Used(s)' <=> Used(s)) /\ (Alive(s)' <=> Alive(s))
PROOF
  <1>1. ~Somebody(r, TickPlaces)
    BY DEF Takes, TicksApart, OnePlace
  <1>2. \A u \in Threads : pc[u] \in TickPlaces => Slot(u) # r
    BY <1>1 DEF Somebody
  <1>3. \A s : s # r => (Somebody(s, TickPlaces)' <=> Somebody(s, TickPlaces))
    BY DEF Somebody, Slot, Takes, OutsideStep
  <1>4. Somebody(r, TickPlaces)'
    BY DEF Somebody, Slot, Takes
  <1>5. \A s \in Slots : \A u, v \in Threads :
          (pc[u] \in TickPlaces /\ pc[v] \in TickPlaces
             /\ Slot(u) = s /\ Slot(v) = s)' => u = v
    <2>1. \A u \in Threads : u # t /\ pc'[u] \in TickPlaces =>
             pc[u] \in TickPlaces /\ on'[u] = on[u] /\ on[u][1] # r
      BY <1>2 DEF Takes, OutsideStep, Slot
    <2>2. \A s \in Slots : \A u, v \in Threads :
            pc[u] \in TickPlaces /\ pc[v] \in TickPlaces
              /\ on[u][1] = s /\ on[v][1] = s => u = v
      BY DEF TicksApart, OnceThere, Slot
    <2>3. on'[t][1] = r
      BY DEF Takes
    <2>4. ASSUME NEW s \in Slots, NEW u \in Threads, NEW v \in Threads,
                 pc'[u] \in TickPlaces, pc'[v] \in TickPlaces,
                 on'[u][1] = s, on'[v][1] = s
          PROVE  u = v
      <3>1. CASE u # t /\ v # t
        BY <2>1, <2>2, <2>4, <3>1
      <3>2. CASE u = t \/ v = t
        BY <2>1, <2>3, <2>4, <3>2
      <3> QED
        BY <3>1, <3>2
    <2> QED
      BY <2>4 DEF Slot
  <1>6. \A s : (Used(s)' <=> Used(s)) /\ (Alive(s)' <=> Alive(s))
    BY DEF Used, Alive, Takes, OutsideStep
  <1> QED
    BY <1>3, <1>4, <1>5, <1>6

LEMMA TicksFromPort ==
  ASSUME TypeOK, TicksLatest, TicksApart, NEW t \in Threads, NEW id \in Ids,
         NEW r, r = id[1], Takes(t, r), port[id] > 0,
         port' = [port EXCEPT ![id] = @ - 1], UNCHANGED <<timerQ, zoneQueue>>
  PROVE  TicksLatest' /\ TicksApart'
PROOF
  <1>1. /\ id = <<r, id[2]>> /\ id[2] \in Lives /\ r \in Slots
        /\ \A s \in Slots, i \in Lives : <<s, i>> \in Ids /\ port[<<s, i>>] \in Nat
    BY DEF Ids, TypeOK
  <1>2. OnPort(r)
    BY <1>1 DEF OnPort
  <1>3. /\ \A s : s # r => (Somebody(s, TickPlaces)' <=> Somebody(s, TickPlaces))
        /\ Somebody(r, TickPlaces)'
        /\ \A s : (Used(s)' <=> Used(s)) /\ (Alive(s)' <=> Alive(s))
    BY <1>2, Taken
  <1>4. id[2] = lastId[r] /\ port[id] = 1 /\ port'[id] = 0
    <2>1. port[id] \in Nat /\ port[id] <= 1 /\ id[2] = lastId[r]
      BY <1>1 DEF TicksLatest, TicksApart, OnceThere
    <2> QED
      BY <2>1 DEF TypeOK
  <1>5. /\ \A s \in Slots, i \in Lives : s # r => port'[<<s, i>>] = port[<<s, i>>]
        /\ \A s \in Slots, i \in Lives : port'[<<s, i>>] <= port[<<s, i>>]
        /\ \A i \in Lives : ~(port'[<<r, i>>] > 0)
    <2>1. \A i \in Lives : i # lastId[r] => port[<<r, i>>] = 0
      BY <1>1 DEF TicksLatest
    <2>2. \A s \in Slots, i \in Lives : <<s, i>> # id => port'[<<s, i>>] = port[<<s, i>>]
      BY <1>1 DEF TypeOK
    <2> QED
      BY <1>1, <1>4, <2>1, <2>2
  <1>6. /\ ~OnPort(r)' /\ \A s \in Slots : s # r => (OnPort(s)' <=> OnPort(s))
        /\ \A s : InQueue(s)' <=> InQueue(s)
    BY <1>5 DEF OnPort, InQueue
  <1>7. TicksLatest'
    BY <1>3, <1>5 DEF TicksLatest, Takes, OutsideStep
  <1>8. \A s \in Slots : OnePlace(s)'
    BY <1>2, <1>3, <1>6 DEF TicksApart, OnePlace
  <1>9. \A s \in Slots : OnceThere(s)'
    <2>1. \A s \in Slots, i \in Lives : port'[<<s, i>>] = port[<<s, i>>]
                                          \/ port'[<<s, i>>] = 0
      BY <1>1, <1>4 DEF TypeOK
    <2>2. \A s \in Slots, i \in Lives : port[<<s, i>>] <= 1
      BY DEF TicksApart, OnceThere
    <2>3. \A s \in Slots, i \in Lives : port'[<<s, i>>] <= 1
      <3> TAKE s \in Slots, i \in Lives
      <3>1. port'[<<s, i>>] = port[<<s, i>>] \/ port'[<<s, i>>] = 0
        BY <2>1
      <3>2. port[<<s, i>>] <= 1
        BY <2>2
      <3> QED
        BY <3>1, <3>2
    <2> QED
      BY <1>2, <2>3, Taken DEF TicksApart, OnceThere
  <1>10. \A s \in Slots : Alive(s)' => Ticking(s)'
    BY <1>3, <1>6 DEF TicksApart, Ticking
  <1> QED
    BY <1>7, <1>8, <1>9, <1>10 DEF TicksApart

LEMMA TicksFromTimer ==
  ASSUME TypeOK, TicksLatest, TicksApart, NEW t \in Threads,
         NEW r, Takes(t, r), timerQ[r] > 0,
         timerQ' = [timerQ EXCEPT ![r] = @ - 1], UNCHANGED <<port, zoneQueue>>
  PROVE  TicksLatest' /\ TicksApart'
PROOF
  <1>1. r \in Slots
    BY DEF Takes
  <1>2. /\ \A s : s # r => (Somebody(s, TickPlaces)' <=> Somebody(s, TickPlaces))
        /\ Somebody(r, TickPlaces)'
        /\ \A s : (Used(s)' <=> Used(s)) /\ (Alive(s)' <=> Alive(s))
    BY Taken
  <1>3. /\ timerQ'[r] = 0 /\ \A s \in Slots : s # r => timerQ'[s] = timerQ[s]
        /\ \A s : (OnPort(s)' <=> OnPort(s)) /\ (InQueue(s)' <=> InQueue(s))
    <2>1. timerQ[r] \in Nat /\ timerQ[r] <= 1
      BY <1>1 DEF TypeOK, TicksApart, OnceThere
    <2> QED
      BY <1>1, <2>1 DEF TypeOK, OnPort, InQueue
  <1>4. TicksLatest'
    BY <1>2, <1>3 DEF TicksLatest, Takes, OutsideStep
  <1>5. \A s \in Slots : OnePlace(s)'
    BY <1>2, <1>3 DEF TicksApart, OnePlace
  <1>6. \A s \in Slots : OnceThere(s)'
    <2>1. \A s \in Slots : timerQ'[s] <= 1
      BY <1>1, <1>3 DEF TicksApart, OnceThere
    <2> QED
      BY <2>1, Taken DEF TicksApart, OnceThere
  <1>7. \A s \in Slots : Alive(s)' => Ticking(s)'
    BY <1>2, <1>3 DEF TicksApart, Ticking
  <1> QED
    BY <1>4, <1>5, <1>6, <1>7 DEF TicksApart

LEMMA TicksFromQueue ==
  ASSUME TypeOK, TicksLatest, TicksApart, NEW t \in Threads, NEW p \in Pinned,
         zoneQueue[p] # <<>>, NEW r, r = Head(zoneQueue[p])[1], Takes(t, r),
         zoneQueue' = [zoneQueue EXCEPT ![p] = Tail(@)], UNCHANGED <<port, timerQ>>
  PROVE  TicksLatest' /\ TicksApart'
PROOF
  <1> DEFINE Old(q, i) == IF q = p THEN i + 1 ELSE i
  <1>1. /\ zoneQueue[p] \in Seq(Ids) /\ zoneQueue'[p] = Tail(zoneQueue[p])
        /\ \A q \in Pinned : q # p => zoneQueue'[q] = zoneQueue[q]
    BY DEF TypeOK
  <1>2. /\ 1 \in DOMAIN zoneQueue[p] /\ zoneQueue[p][1][1] = r
        /\ \A i \in DOMAIN zoneQueue'[p] : /\ i + 1 \in DOMAIN zoneQueue[p] /\ i \in Nat
                                           /\ zoneQueue'[p][i] = zoneQueue[p][i + 1]
                                           /\ i + 1 # 1
        /\ \A i \in DOMAIN zoneQueue[p] : i # 1 =>
             /\ i - 1 \in DOMAIN zoneQueue'[p] /\ i \in Nat
             /\ zoneQueue'[p][i - 1] = zoneQueue[p][i]
    <2> DEFINE q == zoneQueue[p]
    <2>1. /\ q \in Seq(Ids) /\ q # <<>> /\ Len(q) \in Nat /\ Len(q) > 0
          /\ DOMAIN q = 1 .. Len(q) /\ Head(q) = q[1]
      BY <1>1
    <2>2. /\ DOMAIN Tail(q) = 1 .. Len(q) - 1
          /\ \A i \in 1 .. Len(q) - 1 : Tail(q)[i] = q[i + 1]
      BY <2>1
    <2> HIDE DEF q
    <2>3. \A i \in 1 .. Len(q) - 1 :
            i + 1 \in 1 .. Len(q) /\ i \in Nat /\ i + 1 # 1
      BY <2>1
    <2>4. \A i \in 1 .. Len(q) : i # 1 =>
            /\ i - 1 \in 1 .. Len(q) - 1 /\ i \in Nat
            /\ Tail(q)[i - 1] = q[i]
      BY <2>1, <2>2
    <2>5. 1 \in DOMAIN q /\ q[1][1] = r
      BY <2>1 DEF q
    <2> QED
      BY <1>1, <2>1, <2>2, <2>3, <2>4, <2>5 DEF q
  <1>3. InQueue(r)
    BY <1>2 DEF InQueue
  <1>4. /\ \A s : s # r => (Somebody(s, TickPlaces)' <=> Somebody(s, TickPlaces))
        /\ Somebody(r, TickPlaces)'
        /\ \A s : (Used(s)' <=> Used(s)) /\ (Alive(s)' <=> Alive(s))
    BY <1>3, Taken
  <1>5. \A q \in Pinned : \A i \in DOMAIN zoneQueue'[q] :
          /\ Old(q, i) \in DOMAIN zoneQueue[q]
          /\ zoneQueue'[q][i] = zoneQueue[q][Old(q, i)]
          /\ zoneQueue'[q][i][1] # r
    <2>1. \A q \in Pinned : \A i \in DOMAIN zoneQueue[q] :
            zoneQueue[q][i][1] = r => q = p /\ i = 1
      BY <1>2 DEF Takes, TicksApart, OnceThere
    <2> QED
      BY <1>1, <1>2, <2>1
  <1>6. /\ ~InQueue(r)'
        /\ \A s : s # r => (InQueue(s)' <=> InQueue(s))
        /\ \A s : OnPort(s)' <=> OnPort(s)
    <2>1. ~InQueue(r)'
      BY <1>5 DEF InQueue
    <2>2. \A s : InQueue(s)' => InQueue(s)
      BY <1>5 DEF InQueue
    <2>3. ASSUME NEW s, s # r, InQueue(s) PROVE InQueue(s)'
      <3>1. PICK q \in Pinned : \E i \in DOMAIN zoneQueue[q] : zoneQueue[q][i][1] = s
        BY <2>3 DEF InQueue
      <3>2. PICK i \in DOMAIN zoneQueue[q] : zoneQueue[q][i][1] = s
        BY <3>1
      <3>3. CASE q = p
        <4>1. i # 1
          BY <1>2, <2>3, <3>2, <3>3
        <4>2. i - 1 \in DOMAIN zoneQueue'[p] /\ zoneQueue'[p][i - 1][1] = s
          BY <1>2, <3>2, <3>3, <4>1
        <4> QED
          BY <4>2 DEF InQueue
      <3>4. CASE q # p
        BY <1>1, <3>2, <3>4 DEF InQueue
      <3> QED
        BY <3>3, <3>4
    <2> QED
      BY <2>1, <2>2, <2>3 DEF OnPort
  <1>7. TicksLatest'
    <2>0. \A q \in Pinned : \A i \in DOMAIN zoneQueue'[q] :
            \E j \in DOMAIN zoneQueue[q] : zoneQueue'[q][i] = zoneQueue[q][j]
      BY <1>5
    <2>1. \A q \in Pinned : \A i \in DOMAIN zoneQueue'[q] :
            zoneQueue'[q][i][2] = lastId[zoneQueue'[q][i][1]]
              /\ Used(zoneQueue[q][i][1])'
      <3> TAKE q \in Pinned
      <3> TAKE i \in DOMAIN zoneQueue'[q]
      <3>1. PICK j \in DOMAIN zoneQueue[q] : zoneQueue'[q][i] = zoneQueue[q][j]
        BY <2>0
      <3>2. zoneQueue[q][j][2] = lastId[zoneQueue[q][j][1]] /\ Used(zoneQueue[q][j][1])
        BY DEF TicksLatest
      <3> QED
        <4> DEFINE was == zoneQueue[q][j]
                   is == zoneQueue'[q][i]
        <4>1. known' = known /\ is = was
          BY <3>1 DEF Takes, OutsideStep
        <4>2. was[2] = lastId[was[1]] /\ <<was[1], 1>> \in known
          BY <3>2 DEF Used
        <4> HIDE DEF was, is
        <4>3. is[2] = lastId[is[1]] /\ <<is[1], 1>> \in known'
          BY <4>1, <4>2
        <4> QED
          BY <4>3 DEF is, Used
    <2> QED
      BY <1>4, <2>1 DEF TicksLatest, Takes, OutsideStep
  <1>8. \A s \in Slots : OnePlace(s)'
    BY <1>3, <1>4, <1>6 DEF TicksApart, OnePlace
  <1>9. \A s \in Slots : OnceThere(s)'
    <2>1. ASSUME NEW s \in Slots, NEW q1 \in Pinned, NEW q2 \in Pinned,
                 NEW i \in DOMAIN zoneQueue'[q1], NEW j \in DOMAIN zoneQueue'[q2],
                 zoneQueue'[q1][i][1] = s, zoneQueue'[q2][j][1] = s
          PROVE  q1 = q2 /\ i = j
      <3>1. q1 = q2 /\ Old(q1, i) = Old(q2, j)
        <4> HIDE DEF Old
        <4>1. /\ Old(q1, i) \in DOMAIN zoneQueue[q1]
              /\ zoneQueue[q1][Old(q1, i)][1] = s
              /\ Old(q2, j) \in DOMAIN zoneQueue[q2]
              /\ zoneQueue[q2][Old(q2, j)][1] = s
          BY <1>5, <2>1
        <4> QED
          BY <2>1, <4>1 DEF TicksApart, OnceThere
      <3>2. CASE q1 = p
        BY <1>2, <3>1, <3>2
      <3>3. CASE q1 # p
        BY <3>1, <3>3
      <3> QED
        BY <3>2, <3>3
    <2> QED
      BY <1>3, <2>1, Taken DEF TicksApart, OnceThere
  <1>10. \A s \in Slots : Alive(s)' => Ticking(s)'
    BY <1>4, <1>6 DEF TicksApart, Ticking
  <1> QED
    BY <1>7, <1>8, <1>9, <1>10 DEF TicksApart

-----------------------------------------------------------------------------
(* Steps that disturb nothing.                                              *)

LEMMA JobsKept ==
  ASSUME JobsOfOwnZone, UNCHANGED <<jobQueue, zoneId>>
  PROVE  JobsOfOwnZone'
  BY DEF JobsOfOwnZone

\* What has to be shown of a step outside the creation and the release.
LEMMA OutsideInv ==
  ASSUME ZoneIInv, TypeOK', NEW t \in Threads, OutsideStep(t), InOrder(t),
         destroyed \subseteq destroyed', CreationHeld', CountExact',
         TicksLatest', TicksApart', JobsOfOwnZone'
  PROVE  ZoneIInv'
  BY OutsideZones, OutsideThreads DEF ZoneIInv

\* The thread that moves holds the same before and after.
Quiet(t) ==
  /\ OutsideStep(t) /\ InOrder(t)
  /\ UNCHANGED <<refCount, jobQueue, destroyed, port, timerQ, zoneQueue>>
  /\ pc[t] # "dzCheck" /\ pc'[t] # "dzCheck"
  /\ pc'[t] \in RefPcs <=> pc[t] \in RefPcs
  /\ pc[t] \in RefPcs => on'[t] = on[t]
  /\ pc'[t] \in TickPlaces <=> pc[t] \in TickPlaces
  /\ pc[t] \in TickPlaces => on'[t] = on[t]

LEMMA QuietInv ==
  ASSUME ZoneIInv, TypeOK', NEW t \in Threads, Quiet(t)
  PROVE  ZoneIInv'
PROOF
  <1>1. CreationHeld' /\ \A s : Creation(s)' = Creation(s)
    BY CreationKept DEF ZoneIInv, Quiet
  <1>2. CountExact'
    BY <1>1, CountKept DEF ZoneIInv, Quiet
  <1>3. TicksLatest' /\ TicksApart'
    BY TicksKept DEF ZoneIInv, Quiet
  <1>4. JobsOfOwnZone'
    BY JobsKept DEF ZoneIInv, Quiet, OutsideStep
  <1> QED
    BY <1>1, <1>2, <1>3, <1>4, OutsideInv DEF Quiet

\* What the invariant says of a thread inside the library.
LEMMA AtWork ==
  ASSUME ZoneIInv, NEW t \in Threads, pc[t] # "idle", pc[t] \notin CreatePcs
  PROVE  /\ TypeOK /\ Slot(t) \in Slots /\ Slot(t) = on[t][1]
         /\ on[t] \in Ids /\ after[t] = "idle" /\ Used(Slot(t))
         /\ pc[t] \in LatestPcs => on[t][2] = lastId[Slot(t)]
         /\ pc[t] \in HeldPcs => /\ ~Closed(Slot(t))
                                 /\ zoneId[Slot(t)] = lastId[Slot(t)]
                                 /\ jobZoneId[Slot(t)] = lastId[Slot(t)]
PROOF
  <1>1. TypeOK /\ OnZone /\ HeldOpen /\ IdsIssued /\ ZoneInSlot
    BY DEF ZoneIInv
  <1>2. Slot(t) \in Slots /\ Slot(t) = on[t][1] /\ on[t] \in Ids
    BY <1>1, OnType DEF Slot
  <1>3. pc[t] \in HeldPcs => ~Closed(Slot(t))
    BY <1>1 DEF HeldOpen
  <1>4. pc[t] \in HeldPcs => /\ zoneId[Slot(t)] = lastId[Slot(t)]
                            /\ jobZoneId[Slot(t)] = lastId[Slot(t)]
    BY <1>1, <1>2, <1>3, OpenZone
  <1> QED
    BY <1>1, <1>2, <1>3, <1>4 DEF OnZone

\* The id checks: the reference is kept, or DecreaseRefcount follows.  A tick
\* that runs is of the zone in the slot.
LEMMA ChecksQuiet ==
  ASSUME ZoneIInv, TypeOK', NEW t \in Threads,
         \/ PushJobCheck(t)
         \/ ExecuteCheck(t)
         \/ PinnedCheck(t)
         \/ TimerCheck /\ t = Timer
  PROVE  ZoneIInv'
PROOF
  <1> USE DEF zoneVars, mgrVars, tickVars, appVars
  <1> SUFFICES Quiet(t)
    BY QuietInv
  <1>0. TypeOK
    BY DEF ZoneIInv
  <1>1. CASE PushJobCheck(t)
    <2>1. pc[t] = "pjCheck"
      BY <1>1 DEF PushJobCheck, CheckId
    <2>2. /\ after[t] = "idle" /\ Used(on[t][1]) /\ Slot(t) = on[t][1]
          /\ pc[t] \in LatestPcs => on[t][2] = lastId[Slot(t)]
          /\ pc[t] \in HeldPcs => /\ ~Closed(Slot(t))
                                  /\ zoneId[Slot(t)] = lastId[Slot(t)]
                                  /\ jobZoneId[Slot(t)] = lastId[Slot(t)]
      BY <2>1, AtWork DEF CreatePcs
    <2> QED
      BY <1>0, <1>1, <2>1, <2>2
         DEF PushJobCheck, CheckId, DecThen, Quiet, OutsideStep, InOrder,
             TypeOK, Goto, HandlerPcs, CreatePcs, LatestPcs, HeldPcs, RefPcs,
             TickPlaces
  <1>2. CASE ExecuteCheck(t)
    <2>1. pc[t] = "exCheck"
      BY <1>2 DEF ExecuteCheck
    <2>2. /\ after[t] = "idle" /\ Used(on[t][1]) /\ Slot(t) = on[t][1]
          /\ pc[t] \in LatestPcs => on[t][2] = lastId[Slot(t)]
          /\ pc[t] \in HeldPcs => /\ ~Closed(Slot(t))
                                  /\ zoneId[Slot(t)] = lastId[Slot(t)]
                                  /\ jobZoneId[Slot(t)] = lastId[Slot(t)]
      BY <2>1, AtWork DEF CreatePcs
    <2> QED
      BY <1>0, <1>2, <2>1, <2>2
         DEF ExecuteCheck, DecThen, Quiet, OutsideStep, InOrder, TypeOK, Goto,
             HandlerPcs, CreatePcs, LatestPcs, HeldPcs, RefPcs, TickPlaces
  <1>3. CASE PinnedCheck(t)
    <2>1. pc[t] = "pnCheck"
      BY <1>3 DEF PinnedCheck, CheckId
    <2>2. /\ after[t] = "idle" /\ Used(on[t][1]) /\ Slot(t) = on[t][1]
          /\ pc[t] \in LatestPcs => on[t][2] = lastId[Slot(t)]
          /\ pc[t] \in HeldPcs => /\ ~Closed(Slot(t))
                                  /\ zoneId[Slot(t)] = lastId[Slot(t)]
                                  /\ jobZoneId[Slot(t)] = lastId[Slot(t)]
      BY <2>1, AtWork DEF CreatePcs
    <2> QED
      BY <1>0, <1>3, <2>1, <2>2
         DEF PinnedCheck, CheckId, DecThen, Quiet, OutsideStep, InOrder,
             TypeOK, Goto, HandlerPcs, CreatePcs, LatestPcs, HeldPcs, RefPcs,
             TickPlaces
  <1>4. CASE TimerCheck /\ t = Timer
    <2>1. pc[t] = "tmCheck"
      BY <1>4 DEF TimerCheck
    <2>2. /\ after[t] = "idle" /\ Used(on[t][1]) /\ Slot(t) = on[t][1]
          /\ pc[t] \in LatestPcs => on[t][2] = lastId[Slot(t)]
          /\ pc[t] \in HeldPcs => /\ ~Closed(Slot(t))
                                  /\ zoneId[Slot(t)] = lastId[Slot(t)]
                                  /\ jobZoneId[Slot(t)] = lastId[Slot(t)]
      BY <2>1, AtWork DEF CreatePcs
    <2> QED
      BY <1>0, <1>4, <2>1, <2>2
         DEF TimerCheck, DecThen, Quiet, OutsideStep, InOrder, TypeOK, Goto,
             HandlerPcs, CreatePcs, LatestPcs, HeldPcs, RefPcs, TickPlaces
  <1> QED
    BY <1>1, <1>2, <1>3, <1>4

\* The event of a pinned thread, and a release that comes too late.
LEMMA WakesQuiet ==
  ASSUME ZoneIInv, TypeOK', NEW t \in Threads,
         \/ FirstWake(t)
         \/ TickWake(t)
         \/ TimerWake /\ t = Timer
  PROVE  ZoneIInv'
PROOF
  <1> USE DEF zoneVars, mgrVars, tickVars, appVars
  <1> SUFFICES Quiet(t)
    BY QuietInv
  <1>0. TypeOK
    BY DEF ZoneIInv
  <1>1. CASE FirstWake(t)
    <2>1. pc[t] = "crWake"
      BY <1>1 DEF FirstWake, SetWakeEvent
    <2>2. /\ after[t] = "idle" /\ Used(on[t][1]) /\ Slot(t) = on[t][1]
          /\ pc[t] \in LatestPcs => on[t][2] = lastId[Slot(t)]
          /\ pc[t] \in HeldPcs => /\ ~Closed(Slot(t))
                                  /\ zoneId[Slot(t)] = lastId[Slot(t)]
                                  /\ jobZoneId[Slot(t)] = lastId[Slot(t)]
      BY <2>1, AtWork DEF CreatePcs
    <2> QED
      BY <1>0, <1>1, <2>1, <2>2
         DEF FirstWake, SetWakeEvent, Idle, Quiet, OutsideStep, InOrder,
             TypeOK, Goto, HandlerPcs, CreatePcs, LatestPcs, HeldPcs, RefPcs,
             TickPlaces
  <1>2. CASE TickWake(t)
    <2>1. pc[t] = "tkWake"
      BY <1>2 DEF TickWake, SetWakeEvent
    <2>2. /\ after[t] = "idle" /\ Used(on[t][1]) /\ Slot(t) = on[t][1]
          /\ pc[t] \in LatestPcs => on[t][2] = lastId[Slot(t)]
          /\ pc[t] \in HeldPcs => /\ ~Closed(Slot(t))
                                  /\ zoneId[Slot(t)] = lastId[Slot(t)]
                                  /\ jobZoneId[Slot(t)] = lastId[Slot(t)]
      BY <2>1, AtWork DEF CreatePcs
    <2> QED
      BY <1>0, <1>2, <2>1, <2>2
         DEF TickWake, SetWakeEvent, DecThen, Quiet, OutsideStep, InOrder,
             TypeOK, Goto, HandlerPcs, CreatePcs, LatestPcs, HeldPcs, RefPcs,
             TickPlaces
  <1>3. CASE TimerWake /\ t = Timer
    <2>1. pc[t] = "tmWake"
      BY <1>3 DEF TimerWake, SetWakeEvent
    <2>2. /\ after[t] = "idle" /\ Used(on[t][1]) /\ Slot(t) = on[t][1]
          /\ pc[t] \in LatestPcs => on[t][2] = lastId[Slot(t)]
          /\ pc[t] \in HeldPcs => /\ ~Closed(Slot(t))
                                  /\ zoneId[Slot(t)] = lastId[Slot(t)]
                                  /\ jobZoneId[Slot(t)] = lastId[Slot(t)]
      BY <2>1, AtWork DEF CreatePcs
    <2> QED
      BY <1>0, <1>3, <2>1, <2>2
         DEF TimerWake, SetWakeEvent, DecThen, Quiet, OutsideStep, InOrder,
             TypeOK, Goto, HandlerPcs, CreatePcs, LatestPcs, HeldPcs, RefPcs,
             TickPlaces
  <1> QED
    BY <1>1, <1>2, <1>3

-----------------------------------------------------------------------------
(* References taken and given back.                                         *)

\* A step of t that takes a reference, gives one back or does neither, and
\* what that makes of the count.
LEMMA CountMoved ==
  ASSUME TypeOK, CountExact, NEW t \in Threads, OutsideStep(t), NEW r \in Slots,
         \A s : Creation(s)' = Creation(s),
         on[t][1] = r, pc'[t] \in RefPcs => on'[t][1] = r,
         NEW n, refCount' = [refCount EXCEPT ![r] = n],
         \/ /\ pc[t] \notin RefPcs /\ pc'[t] \in RefPcs
            /\ n = Owners(r) + 1 + FlagBit(r)
         \/ /\ pc[t] \in RefPcs /\ pc'[t] \notin RefPcs
            /\ n = Owners(r) - 1 + FlagBit(r)
  PROVE  CountExact'
PROOF
  <1> SUFFICES ASSUME NEW s \in Slots
               PROVE  refCount'[s] = Owners(s)' + FlagBit(s)'
    BY DEF CountExact
  <1>1. FlagBit(s)' = FlagBit(s) /\ FlagBit(s) \in Int /\ Creation(s) \in Int
    BY OutsideHandlers, FlagNumbers, OwnersBounded DEF FlagBit
  <1> DEFINE c == Cardinality(At(s, RefPcs))
  <1>2. c \in Nat /\ c' \in Nat
    BY RefsMove DEF OutsideStep
  <1>3. Owners(s) = Creation(s) + c /\ Owners(s)' = Creation(s) + c'
    BY DEF Owners
  <1>4. CASE s # r
    <2>1. c' = c
      BY <1>4, RefsMove DEF OutsideStep
    <2>2. refCount'[s] = refCount[s]
      BY <1>4 DEF TypeOK
    <2> HIDE DEF c
    <2> QED
      BY <1>1, <1>3, <2>1, <2>2 DEF CountExact
  <1>5. CASE s = r /\ pc[t] \notin RefPcs
    <2>1. c' = c + 1 /\ refCount'[s] = Owners(s) + 1 + FlagBit(s)
      BY <1>5, RefsMove DEF OutsideStep, TypeOK
    <2> HIDE DEF c
    <2> QED
      BY <1>1, <1>2, <1>3, <2>1
  <1>6. CASE s = r /\ pc[t] \in RefPcs
    <2>1. c' = c - 1 /\ refCount'[s] = Owners(s) - 1 + FlagBit(s)
      BY <1>6, RefsMove DEF OutsideStep, TypeOK
    <2> HIDE DEF c
    <2> QED
      BY <1>1, <1>2, <1>3, <2>1
  <1> QED
    BY <1>4, <1>5, <1>6

\* There is room for one more reference below the flag.
LEMMA RoomForOne ==
  ASSUME NEW t \in Threads, pc[t] \notin RefPcs, NEW s \in Slots
  PROVE  Owners(s) + 1 < RELEASE_FLAG
PROOF
  <1> DEFINE A == At(s, RefPcs)
  <1>1. IsFiniteSet(A) /\ A \subseteq Threads /\ t \notin A
    BY ThreadsFinite, FS_Subset DEF At
  <1> HIDE DEF A
  <1>2. IsFiniteSet(A \cup {t}) /\ A \cup {t} \subseteq Threads
    BY <1>1, FS_AddElement
  <1>3. Cardinality(A \cup {t}) <= Cardinality(Threads)
    BY <1>2, ThreadsFinite, FS_Subset
  <1>4. Cardinality(A \cup {t}) = Cardinality(A) + 1 /\ Cardinality(A) \in Nat
    BY <1>1, FS_AddElement, FS_CardinalityType
  <1>5. Creation(s) \in {0, 1}
    BY DEF Creation
  <1>6. Creation(s) + Cardinality(A) + 1 < RELEASE_FLAG
    BY <1>3, <1>4, <1>5, FlagNumbers
  <1> QED
    BY <1>6 DEF Owners, A

\* IncreaseRefcount by PushJob, a worker, a pinned thread or the timer: with
\* the flag up the reference is given back at once, and a tick ends there.
LEMMA IncrementInv ==
  ASSUME ZoneIInv, TypeOK', NEW t \in Threads, NEW l, NEW next,
         IncreaseRefcount(t, l, next, "idle"),
         <<l, next>> \in {<<"pjInc", "pjCheck">>, <<"exInc", "exCheck">>,
                          <<"pnInc", "pnCheck">>, <<"tmInc", "tmCheck">>}
  PROVE  ZoneIInv'
PROOF
  <1> USE DEF zoneVars, mgrVars, tickVars, appVars
  <1>0. TypeOK /\ CountExact /\ CreationHeld /\ TicksLatest /\ TicksApart
    BY DEF ZoneIInv
  <1>1. pc[t] = l /\ l \in {"pjInc", "exInc", "pnInc", "tmInc"}
    BY DEF IncreaseRefcount
  <1>2. /\ Slot(t) \in Slots /\ Slot(t) = on[t][1] /\ after[t] = "idle"
        /\ Used(Slot(t)) /\ (l \in LatestPcs => on[t][2] = lastId[Slot(t)])
    BY <1>1, AtWork DEF CreatePcs
  <1> DEFINE r == Slot(t)
             n == (refCount[r] + 1) % Word
  <1>3. n = Owners(r) + 1 + FlagBit(r) /\ (Flag(n) <=> Closed(r))
    <2>1. Owners(r) + 1 < RELEASE_FLAG
      BY <1>1, <1>2, RoomForOne DEF RefPcs
    <2> QED
      BY <1>0, <1>2, <2>1, CountUp
  <1>4. /\ refCount' = [refCount EXCEPT ![r] = n] /\ on' = on
        /\ UNCHANGED <<slotFree, lastId, zoneId, jobZoneId, jobValid, known,
                       destroyed, jobQueue, port, timerQ, zoneQueue>>
        /\ IF Closed(r) THEN pc' = [pc EXCEPT ![t] = "dec"]
                             /\ after' = [after EXCEPT ![t] = "idle"]
                        ELSE pc' = [pc EXCEPT ![t] = next] /\ after' = after
    BY <1>3 DEF IncreaseRefcount, DecThen, Goto
  <1> HIDE DEF n
  <1>5. /\ pc'[t] = IF Closed(r) THEN "dec" ELSE next
        /\ after'[t] = "idle"
        /\ \A u \in Threads : u # t => pc'[u] = pc[u] /\ after'[u] = after[u]
    BY <1>0, <1>2, <1>4 DEF TypeOK
  <1>6. OutsideStep(t)
    BY <1>1, <1>4, <1>5 DEF OutsideStep, HandlerPcs, CreatePcs
  <1>7. InOrder(t)
    BY <1>1, <1>2, <1>4, <1>5
       DEF InOrder, LatestPcs, CreatePcs, HeldPcs, RefPcs
  <1>8. CreationHeld' /\ \A s : Creation(s)' = Creation(s)
    BY <1>0, <1>1, <1>4, <1>5, <1>6, CreationKept
  <1>9. CountExact'
    <2>1. pc[t] \notin RefPcs /\ pc'[t] \in RefPcs
      BY <1>1, <1>5 DEF RefPcs
    <2> QED
      BY <1>0, <1>2, <1>3, <1>4, <1>6, <1>8, <2>1, CountMoved
  <1>10. TicksLatest' /\ TicksApart'
    <2>1. CASE Closed(r)
      <3>1. pc'[t] \notin TickPlaces
        BY <1>5, <2>1 DEF TickPlaces, CreatePcs
      <3> QED
        BY <1>0, <1>4, <1>6, <2>1, <3>1, TicksEnd
    <2>2. CASE ~Closed(r)
      <3>1. pc'[t] \in TickPlaces <=> pc[t] \in TickPlaces
        BY <1>1, <1>5, <2>2 DEF TickPlaces, CreatePcs
      <3> QED
        BY <1>0, <1>4, <1>6, <3>1, TicksKept
    <2> QED
      BY <2>1, <2>2
  <1>11. JobsOfOwnZone'
    BY <1>4, JobsKept DEF ZoneIInv
  <1> QED
    BY <1>4, <1>6, <1>7, <1>8, <1>9, <1>10, <1>11, OutsideInv

\* DecreaseRefcount: the last one goes on to ReleaseZone.
LEMMA DecrementInv ==
  ASSUME ZoneIInv, TypeOK', NEW t \in Threads, DecreaseRefcount(t)
  PROVE  ZoneIInv'
PROOF
  <1> USE DEF zoneVars, mgrVars, tickVars, appVars
  <1>0. TypeOK /\ CountExact /\ CreationHeld /\ TicksLatest /\ TicksApart
    BY DEF ZoneIInv
  <1>1. pc[t] = "dec"
    BY DEF DecreaseRefcount
  <1>2. /\ Slot(t) \in Slots /\ Slot(t) = on[t][1] /\ after[t] = "idle"
        /\ Used(Slot(t))
    BY <1>1, AtWork DEF CreatePcs
  <1> DEFINE r == Slot(t)
             n == (refCount[r] + Word - 1) % Word
  <1>3. n = Owners(r) - 1 + FlagBit(r)
    <2>1. Owners(r) > 0
      BY <1>1, <1>2, OwnersBounded DEF RefPcs
    <2> QED
      BY <1>0, <1>2, <2>1, CountDown
  <1>4. /\ refCount' = [refCount EXCEPT ![r] = n]
        /\ UNCHANGED <<slotFree, lastId, zoneId, jobZoneId, jobValid, known,
                       destroyed, jobQueue, port, timerQ, zoneQueue>>
        /\ \/ /\ pc' = [pc EXCEPT ![t] = "rel"] /\ UNCHANGED <<on, after>>
           \/ /\ pc' = [pc EXCEPT ![t] = "idle"] /\ on' = [on EXCEPT ![t] = NoZone]
              /\ after' = [after EXCEPT ![t] = "idle"]
    BY <1>2 DEF DecreaseRefcount, Resume, Idle, Goto
  <1> HIDE DEF n
  <1>5. /\ \/ pc'[t] = "rel" /\ on'[t] = on[t]
           \/ pc'[t] = "idle"
        /\ after'[t] = "idle"
        /\ \A u \in Threads : u # t =>
              pc'[u] = pc[u] /\ on'[u] = on[u] /\ after'[u] = after[u]
    BY <1>0, <1>2, <1>4 DEF TypeOK
  <1>6. OutsideStep(t)
    BY <1>1, <1>4, <1>5 DEF OutsideStep, HandlerPcs, CreatePcs
  <1>7. InOrder(t)
    BY <1>2, <1>5 DEF InOrder, LatestPcs, CreatePcs, HeldPcs, RefPcs
  <1>8. CreationHeld' /\ \A s : Creation(s)' = Creation(s)
    BY <1>0, <1>1, <1>4, <1>5, <1>6, CreationKept
  <1>9. CountExact'
    <2>1. pc[t] \in RefPcs /\ pc'[t] \notin RefPcs
      BY <1>1, <1>5 DEF RefPcs
    <2> QED
      BY <1>0, <1>2, <1>3, <1>4, <1>6, <1>8, <2>1, CountMoved
  <1>10. TicksLatest' /\ TicksApart'
    <2>1. pc[t] \notin TickPlaces /\ pc'[t] \notin TickPlaces
      BY <1>1, <1>5 DEF TickPlaces, CreatePcs
    <2> QED
      BY <1>0, <1>4, <1>6, <2>1, TicksKept
  <1>11. JobsOfOwnZone'
    BY <1>4, JobsKept DEF ZoneIInv
  <1> QED
    BY <1>4, <1>6, <1>7, <1>8, <1>9, <1>10, <1>11, OutsideInv

\* DestroyZone: the reference of the creation becomes the thread's own.
LEMMA DestroyInv ==
  ASSUME ZoneIInv, TypeOK', NEW t \in Threads, DestroyZone(t)
  PROVE  ZoneIInv'
PROOF
  <1> USE DEF zoneVars, mgrVars, tickVars, appVars
  <1>0. /\ TypeOK /\ CountExact /\ CreationHeld /\ TicksLatest /\ TicksApart
        /\ IdsIssued /\ ZoneInSlot /\ OnZone
    BY DEF ZoneIInv
  <1>1. pc[t] = "dzCheck"
    BY DEF DestroyZone
  <1>2. /\ Slot(t) \in Slots /\ Slot(t) = on[t][1] /\ after[t] = "idle"
        /\ Used(Slot(t)) /\ on[t] = <<Slot(t), on[t][2]>>
    BY <1>0, <1>1, AtWork, OnType DEF CreatePcs
  <1> DEFINE r == Slot(t)
  <1>3. /\ ~Closed(r) /\ zoneId[r] = on[t][2] /\ on[t] \in destroyed
        /\ \A u \in Threads : u # t /\ Slot(u) = r => pc[u] # "dzCheck"
        /\ zoneId[r] > 0
    BY <1>0, <1>1, <1>2, DestroyerAlone, OpenZone
  <1>4. /\ pc' = [pc EXCEPT ![t] = "dec"] /\ after' = [after EXCEPT ![t] = "idle"]
        /\ UNCHANGED <<refCount, slotFree, lastId, zoneId, jobZoneId, jobValid,
                       known, destroyed, jobQueue, port, timerQ, zoneQueue, on>>
    BY <1>3 DEF DestroyZone, DecThen, Goto
  <1>5. /\ pc'[t] = "dec" /\ after'[t] = "idle"
        /\ \A u \in Threads : u # t => pc'[u] = pc[u] /\ after'[u] = after[u]
    BY <1>0, <1>2, <1>4 DEF TypeOK
  <1>6. OutsideStep(t)
    BY <1>1, <1>4, <1>5 DEF OutsideStep, HandlerPcs, CreatePcs
  <1>7. InOrder(t)
    BY <1>2, <1>4, <1>5 DEF InOrder, LatestPcs, CreatePcs, HeldPcs, RefPcs
  <1>8. CreationHeld'
    <2>1. \A u \in Threads : pc'[u] = "dzCheck" => pc[u] = "dzCheck" /\ on'[u] = on[u]
      BY <1>4, <1>5
    <2>2. \A s : Closed(s)' <=> Closed(s)
      BY <1>6, OutsideHandlers
    <2> QED
      BY <1>0, <1>4, <2>1, <2>2 DEF CreationHeld
  <1>9. CountExact'
    <2> SUFFICES ASSUME NEW s \in Slots
                 PROVE  refCount'[s] = Owners(s)' + FlagBit(s)'
      BY DEF CountExact
    <2> DEFINE c == Cardinality(At(s, RefPcs))
    <2>1. FlagBit(s)' = FlagBit(s) /\ refCount'[s] = refCount[s]
      BY <1>4, <1>6, OutsideHandlers
    <2>2. c \in Nat /\ c' \in Nat /\ Creation(s) \in {0, 1}
      BY <1>4, <1>5, RefsMove, OwnersBounded
    <2>3. CASE s # r
      <3>1. c' = c
        BY <1>2, <1>4, <1>5, <2>3, RefsMove
      <3>2. /\ At(s, {"dzCheck"})' = At(s, {"dzCheck"})
            /\ At(s, {"crAcquire", "crInc"})' = At(s, {"crAcquire", "crInc"})
        BY <1>4, <1>5, <2>3 DEF At, Slot
      <3>3. Creation(s)' = Creation(s)
        BY <1>4, <3>2 DEF Creation
      <3> QED
        BY <1>0, <2>1, <3>1, <3>3 DEF CountExact, Owners
    <2>4. CASE s = r
      <3>1. c' = c + 1
        BY <1>1, <1>2, <1>4, <1>5, <2>4, RefsMove DEF RefPcs
      <3>2. ~Somebody(s, {"crAcquire", "crInc"})
        BY <1>3, <2>4 DEF Closed, Somebody
      <3>3. /\ At(s, {"crAcquire", "crInc"}) = {}
            /\ At(s, {"crAcquire", "crInc"})' = {}
        BY <1>4, <1>5, <3>2 DEF At, Somebody, Slot
      <3>4. t \in At(s, {"dzCheck"}) /\ At(s, {"dzCheck"})' = {}
        BY <1>1, <1>3, <1>4, <1>5, <2>4 DEF At, Slot
      <3>5. <<s, zoneId[s]>> \in destroyed
        BY <1>2, <1>3, <2>4
      <3>6. Creation(s) = 1 /\ Creation(s)' = 0
        BY <1>3, <1>4, <2>4, <3>3, <3>4, <3>5 DEF Creation
      <3>7. Owners(s)' = Owners(s)
        BY <2>2, <3>1, <3>6 DEF Owners
      <3> QED
        BY <1>0, <2>1, <3>7 DEF CountExact
    <2> QED
      BY <2>3, <2>4
  <1>10. TicksLatest' /\ TicksApart'
    <2>1. pc[t] \notin TickPlaces /\ pc'[t] \notin TickPlaces
      BY <1>1, <1>5 DEF TickPlaces, CreatePcs
    <2> QED
      BY <1>0, <1>4, <1>6, <2>1, TicksKept
  <1>11. JobsOfOwnZone'
    BY <1>4, JobsKept DEF ZoneIInv
  <1> QED
    BY <1>4, <1>6, <1>7, <1>8, <1>9, <1>10, <1>11, OutsideInv

-----------------------------------------------------------------------------
(* Jobs and ticks.                                                          *)

\* A step that leaves the references and DestroyZone as they are, but for
\* what it does to jobs and ticks.
LEMMA TickInv ==
  ASSUME ZoneIInv, TypeOK', NEW t \in Threads, OutsideStep(t), InOrder(t),
         UNCHANGED <<refCount, destroyed>>,
         pc[t] # "dzCheck", pc'[t] # "dzCheck",
         pc'[t] \in RefPcs <=> pc[t] \in RefPcs,
         pc[t] \in RefPcs => on'[t] = on[t],
         TicksLatest', TicksApart', JobsOfOwnZone'
  PROVE  ZoneIInv'
PROOF
  <1>1. CreationHeld' /\ \A s : Creation(s)' = Creation(s)
    BY CreationKept DEF ZoneIInv
  <1>2. CountExact'
    BY <1>1, CountKept DEF ZoneIInv
  <1> QED
    BY <1>1, <1>2, OutsideInv

\* A job goes to the zone it was pushed to; a tick empties the queue.
LEMMA JobInv ==
  ASSUME ZoneIInv, TypeOK', NEW t \in Threads, PushJob(t) \/ TickJobs(t)
  PROVE  ZoneIInv'
PROOF
  <1> USE DEF zoneVars, mgrVars, tickVars, appVars
  <1>0. /\ TypeOK /\ TicksLatest /\ TicksApart /\ JobsOfOwnZone /\ OnZone
        /\ IdsIssued /\ ZoneInSlot
    BY DEF ZoneIInv
  <1>1. pc[t] \in {"pjPush", "tick"}
    BY DEF PushJob, TickJobs
  <1>2. /\ Slot(t) \in Slots /\ Slot(t) = on[t][1] /\ after[t] = "idle"
        /\ Used(Slot(t)) /\ ~Closed(Slot(t))
        /\ pc[t] = "tick" => on[t][2] = lastId[Slot(t)]
    BY <1>1, AtWork DEF CreatePcs, HeldPcs, RefPcs, LatestPcs
  <1>3. /\ UNCHANGED <<refCount, slotFree, lastId, zoneId, jobZoneId, jobValid,
                       known, destroyed, port, timerQ, zoneQueue, on>>
        /\ \/ pc[t] = "pjPush" /\ pc'[t] = "dec"
           \/ pc[t] = "tick" /\ pc'[t] = "tickEnd"
        /\ after'[t] = "idle"
        /\ \A u \in Threads : u # t => pc'[u] = pc[u] /\ after'[u] = after[u]
    BY <1>0, <1>2 DEF PushJob, TickJobs, DecThen, Goto, TypeOK
  <1>4. OutsideStep(t)
    BY <1>1, <1>3 DEF OutsideStep, HandlerPcs, CreatePcs
  <1>5. InOrder(t)
    BY <1>2, <1>3 DEF InOrder, LatestPcs, CreatePcs, HeldPcs, RefPcs
  <1>6. TicksLatest' /\ TicksApart'
    <2>1. pc'[t] \in TickPlaces <=> pc[t] \in TickPlaces
      BY <1>3 DEF TickPlaces, CreatePcs
    <2> QED
      BY <1>0, <1>3, <1>4, <2>1, TicksKept
  <1>7. JobsOfOwnZone'
    <2>1. CASE TickJobs(t)
      <3>1. \A s \in Slots : jobQueue'[s] = <<>> \/ jobQueue'[s] = jobQueue[s]
        BY <1>0, <2>1 DEF TickJobs, TypeOK
      <3> QED
        BY <1>0, <1>3, <3>1 DEF JobsOfOwnZone, Range
    <2>2. CASE PushJob(t)
      <3> DEFINE r == Slot(t)
      <3>1. on[t][2] = zoneId[r] /\ zoneId[r] # 0
        BY <1>0, <1>2, <2>2, OpenZone DEF PushJob, OnZone
      <3>2. /\ jobQueue'[r] = Append(jobQueue[r], zoneId[r])
            /\ \A s \in Slots : s # r => jobQueue'[s] = jobQueue[s]
            /\ jobQueue[r] \in Seq(Lives) /\ zoneId[r] \in Lives
        BY <1>0, <1>2, <2>2, <3>1 DEF PushJob, TypeOK
      <3>3. Range(jobQueue'[r]) \subseteq Range(jobQueue[r]) \cup {zoneId[r]}
        BY <3>2 DEF Range
      <3> QED
        BY <1>0, <1>2, <1>3, <3>1, <3>2, <3>3 DEF JobsOfOwnZone
    <2> QED
      BY <2>1, <2>2
  <1>8. /\ pc[t] # "dzCheck" /\ pc'[t] # "dzCheck"
        /\ pc'[t] \in RefPcs <=> pc[t] \in RefPcs
    BY <1>3 DEF RefPcs
  <1> QED
    BY <1>3, <1>4, <1>5, <1>6, <1>7, <1>8, TickInv

\* The end of a tick and the timer job: the next tick is asked for, and the
\* reference given back.
LEMMA NextTickInv ==
  ASSUME ZoneIInv, TypeOK', NEW t \in Threads,
         TickToTimer(t) \/ TickLate(t) \/ (TimerPost /\ t = Timer)
  PROVE  ZoneIInv'
PROOF
  <1> USE DEF zoneVars, mgrVars, tickVars, appVars
  <1>0. TypeOK /\ TicksLatest /\ TicksApart /\ JobsOfOwnZone
    BY DEF ZoneIInv
  <1>1. pc[t] \in {"tickEnd", "tmPost"}
    BY DEF TickToTimer, TickLate, TimerPost
  <1>2. /\ Slot(t) \in Slots /\ Slot(t) = on[t][1] /\ after[t] = "idle"
        /\ Used(Slot(t)) /\ ~Closed(Slot(t))
        /\ zoneId[Slot(t)] = lastId[Slot(t)] /\ jobZoneId[Slot(t)] = lastId[Slot(t)]
    BY <1>1, AtWork DEF CreatePcs, HeldPcs, RefPcs
  <1>3. PICK r \in Slots : r = Slot(t)
    BY <1>2
  <1>4. /\ UNCHANGED <<refCount, jobQueue, slotFree, lastId, zoneId, jobZoneId,
                       jobValid, known, destroyed, on>>
        /\ \/ pc' = [pc EXCEPT ![t] = "dec"] /\ after' = [after EXCEPT ![t] = "idle"]
           \/ pc' = [pc EXCEPT ![t] = "tkWake"] /\ after' = after
           \/ pc' = [pc EXCEPT ![t] = "tmWake"] /\ after' = after
    BY <1>0, Asking DEF TickToTimer, TickLate, TimerPost, DecThen, Goto
  <1>5. /\ pc'[t] \in {"dec", "tkWake", "tmWake"} /\ after'[t] = "idle"
        /\ \A u \in Threads : u # t => pc'[u] = pc[u] /\ after'[u] = after[u]
    BY <1>0, <1>2, <1>4 DEF TypeOK
  <1>6. OutsideStep(t)
    BY <1>1, <1>4, <1>5 DEF OutsideStep, HandlerPcs, CreatePcs
  <1>7. InOrder(t)
    BY <1>2, <1>4, <1>5 DEF InOrder, LatestPcs, CreatePcs, HeldPcs, RefPcs
  <1>8. HandsOn(t, r)
    <2>1. pc[t] \in TickPlaces /\ pc'[t] \notin TickPlaces
      BY <1>1, <1>5 DEF TickPlaces, CreatePcs
    <2>2. Used(r)' /\ \A s : Alive(s)' <=> Alive(s)
      BY <1>2, <1>3, <1>4 DEF Used, Alive
    <2> QED
      BY <1>3, <1>4, <1>5, <2>1, <2>2 DEF HandsOn
  <1>9. TicksLatest' /\ TicksApart'
    <2>1. CASE TickToTimer(t)
      BY <1>0, <1>3, <1>8, <2>1, TicksToTimer DEF TickToTimer
    <2>2. CASE TickLate(t) \/ (TimerPost /\ t = Timer)
      <3>1. Asked(t, <<r, lastId[r]>>)
        BY <1>0, <1>2, <1>3, <2>2, Asking
      <3> QED
        BY <1>0, <1>8, <3>1, TicksAsked
    <2> QED
      BY <2>1, <2>2
  <1>10. JobsOfOwnZone'
    BY <1>0, <1>4, JobsKept
  <1>11. /\ pc[t] # "dzCheck" /\ pc'[t] # "dzCheck"
         /\ pc'[t] \in RefPcs <=> pc[t] \in RefPcs
    BY <1>1, <1>5 DEF RefPcs
  <1> QED
    BY <1>4, <1>6, <1>7, <1>9, <1>10, <1>11, TickInv

\* A worker takes a ZONE_UPDATE message, a pinned thread an entry of its
\* queue, the timer thread a timer job.
LEMMA TakeInv ==
  ASSUME ZoneIInv, TypeOK', NEW t \in Threads, NEW id \in Ids,
         \/ t \in Workers /\ GetZoneUpdate(t, id)
         \/ PinnedWake(t) /\ zoneQueue[t] # <<>> /\ id = Head(zoneQueue[t])
         \/ t = Timer /\ TimerPop(id[1])
  PROVE  ZoneIInv'
PROOF
  <1> USE DEF zoneVars, mgrVars, tickVars, appVars
  <1>0. /\ TypeOK /\ TicksLatest /\ TicksApart /\ JobsOfOwnZone /\ OnZone
    BY DEF ZoneIInv
  <1>1. PICK r \in Slots : r = id[1]
    BY DEF Ids
  <1>2. /\ pc[t] = "idle" /\ after[t] = "idle"
        /\ UNCHANGED <<refCount, jobQueue, slotFree, lastId, zoneId, jobZoneId,
                       jobValid, known, destroyed, after>>
    BY <1>0 DEF GetZoneUpdate, PinnedWake, TimerPop, OnZone
  <1>3. /\ pc'[t] \in {"exInc", "pnInc", "tmValid"} /\ on'[t][1] = r
        /\ \A u \in Threads : u # t => pc'[u] = pc[u] /\ on'[u] = on[u]
    <2>1. id[1] = r /\ <<r, 0>>[1] = r
      BY <1>1
    <2> QED
      BY <1>0, <2>1 DEF GetZoneUpdate, PinnedWake, TimerPop, Goto, TypeOK
  <1>4. OutsideStep(t)
    BY <1>2, <1>3 DEF OutsideStep, HandlerPcs, CreatePcs
  <1>5. Takes(t, r)
    BY <1>2, <1>3, <1>4 DEF Takes, TickPlaces, CreatePcs
  <1>6. /\ TicksLatest' /\ TicksApart' /\ Used(r)
        /\ pc'[t] \in LatestPcs => on'[t][2] = lastId[r]
    <2>1. CASE t \in Workers /\ GetZoneUpdate(t, id)
      <3>1. /\ port[id] > 0 /\ port' = [port EXCEPT ![id] = @ - 1]
            /\ UNCHANGED <<timerQ, zoneQueue>> /\ on'[t] = id
        BY <1>0, <2>1 DEF GetZoneUpdate, TypeOK
      <3>2. TicksLatest' /\ TicksApart'
        BY <1>0, <1>1, <1>5, <3>1, TicksFromPort
      <3>3. id = <<r, id[2]>> /\ id[2] \in Lives
        BY <1>1 DEF Ids
      <3>4. id[2] = lastId[r] /\ Used(r)
        BY <1>0, <3>1, <3>3 DEF TicksLatest
      <3> QED
        BY <3>1, <3>2, <3>4
    <2>2. CASE PinnedWake(t) /\ zoneQueue[t] # <<>> /\ id = Head(zoneQueue[t])
      <3>1. /\ t \in Pinned /\ zoneQueue' = [zoneQueue EXCEPT ![t] = Tail(@)]
            /\ UNCHANGED <<port, timerQ>> /\ on'[t] = id
        BY <1>0, <2>2 DEF PinnedWake, TypeOK
      <3>2. TicksLatest' /\ TicksApart'
        BY <1>0, <1>1, <1>5, <2>2, <3>1, TicksFromQueue
      <3>3. zoneQueue[t] \in Seq(Ids)
        BY <1>0, <3>1 DEF TypeOK
      <3>4. 1 \in DOMAIN zoneQueue[t] /\ zoneQueue[t][1] = id
        BY <2>2, <3>3
      <3>5. id[2] = lastId[id[1]] /\ Used(id[1])
        BY <1>0, <3>1, <3>4 DEF TicksLatest
      <3> QED
        BY <1>1, <3>1, <3>2, <3>5
    <2>3. CASE t = Timer /\ TimerPop(id[1])
      <3>1. /\ timerQ[r] > 0 /\ timerQ' = [timerQ EXCEPT ![r] = @ - 1]
            /\ UNCHANGED <<port, zoneQueue>> /\ pc'[t] = "tmValid"
        BY <1>0, <1>1, <2>3 DEF TimerPop, Goto, TypeOK
      <3>2. TicksLatest' /\ TicksApart'
        BY <1>0, <1>5, <3>1, TicksFromTimer
      <3>3. Used(r)
        BY <1>0, <3>1 DEF TicksLatest
      <3> QED
        BY <3>1, <3>2, <3>3 DEF LatestPcs, CreatePcs
    <2> QED
      BY <2>1, <2>2, <2>3
  <1>7. InOrder(t)
    BY <1>2, <1>3, <1>6 DEF InOrder, HeldPcs, RefPcs
  <1>8. JobsOfOwnZone'
    BY <1>0, <1>2, JobsKept
  <1>9. /\ pc[t] # "dzCheck" /\ pc'[t] # "dzCheck"
        /\ pc'[t] \in RefPcs <=> pc[t] \in RefPcs
        /\ pc[t] \notin RefPcs
    BY <1>2, <1>3 DEF RefPcs
  <1> QED
    BY <1>2, <1>4, <1>6, <1>7, <1>8, <1>9, TickInv

\* The timer job of a released zone is not executed; a wake-up that finds an
\* empty queue and a release that comes too late change nothing.
LEMMA EndInv ==
  ASSUME ZoneIInv, TypeOK', NEW t \in Threads,
         \/ t = Timer /\ TimerValid
         \/ PinnedWake(t) /\ zoneQueue[t] = <<>>
         \/ ReleaseCas(t) /\ refCount[Slot(t)] # 0
  PROVE  ZoneIInv'
PROOF
  <1> USE DEF zoneVars, mgrVars, tickVars, appVars
  <1>0. /\ TypeOK /\ TicksLatest /\ TicksApart /\ CreationHeld /\ OnZone
        /\ JobsOfOwnZone /\ ZoneInSlot
    BY DEF ZoneIInv
  <1>1. pc[t] \in {"tmValid", "idle", "rel"} /\ after[t] = "idle"
    BY <1>0 DEF TimerValid, PinnedWake, ReleaseCas, OnZone
  <1>2. pc[t] # "idle" => Slot(t) \in Slots /\ Slot(t) = on[t][1] /\ Used(Slot(t))
    BY <1>1, AtWork DEF CreatePcs
  <1>3. /\ UNCHANGED <<refCount, jobQueue, slotFree, lastId, zoneId, jobZoneId,
                       jobValid, known, destroyed, port, timerQ, zoneQueue>>
        /\ \/ pc'[t] = "idle"
           \/ pc[t] = "tmValid" /\ pc'[t] = "tmInc" /\ on'[t] = on[t]
        /\ pc[t] = "tmValid" /\ pc'[t] = "idle" => jobValid[Slot(t)] # 1
        /\ after'[t] = "idle"
        /\ \A u \in Threads : u # t =>
              pc'[u] = pc[u] /\ on'[u] = on[u] /\ after'[u] = after[u]
    BY <1>0, <1>1 DEF TimerValid, PinnedWake, ReleaseCas, Resume, Idle, Goto, TypeOK
  <1>4. OutsideStep(t)
    BY <1>1, <1>3 DEF OutsideStep, HandlerPcs, CreatePcs
  <1>5. InOrder(t)
    BY <1>1, <1>2, <1>3 DEF InOrder, LatestPcs, CreatePcs, HeldPcs, RefPcs
  <1>6. TicksLatest' /\ TicksApart'
    <2>1. CASE pc[t] = "tmValid" /\ pc'[t] = "idle"
      <3>1. ~Closed(Slot(t)) => jobValid[Slot(t)] = 1
        BY <1>0, <1>2, <2>1, OpenZone DEF ZoneIInv
      <3>2. Closed(Slot(t)) /\ pc'[t] \notin TickPlaces
        BY <1>3, <2>1, <3>1 DEF TickPlaces, CreatePcs
      <3> QED
        BY <1>0, <1>3, <1>4, <3>2, TicksEnd
    <2>2. CASE ~(pc[t] = "tmValid" /\ pc'[t] = "idle")
      <3>1. /\ pc'[t] \in TickPlaces <=> pc[t] \in TickPlaces
            /\ pc[t] \in TickPlaces => on'[t] = on[t]
        BY <1>1, <1>3, <2>2 DEF TickPlaces, CreatePcs
      <3> QED
        BY <1>0, <1>3, <1>4, <3>1, TicksKept
    <2> QED
      BY <2>1, <2>2
  <1>7. JobsOfOwnZone'
    BY <1>0, <1>3, JobsKept
  <1>8. /\ pc[t] # "dzCheck" /\ pc'[t] # "dzCheck"
        /\ pc'[t] \in RefPcs <=> pc[t] \in RefPcs
        /\ pc[t] \notin RefPcs
    BY <1>1, <1>3 DEF RefPcs
  <1> QED
    BY <1>3, <1>4, <1>5, <1>6, <1>7, <1>8, TickInv

-----------------------------------------------------------------------------
(* The calls of the content.                                                *)

\* PushJob begins: nothing is held yet.
LEMMA CallPushJobInv ==
  ASSUME ZoneIInv, TypeOK', NEW t \in Threads, NEW id \in Ids, CallPushJob(t, id)
  PROVE  ZoneIInv'
PROOF
  <1> USE DEF zoneVars, mgrVars, tickVars, appVars
  <1>0. TypeOK /\ IdsIssued /\ OnZone
    BY DEF ZoneIInv
  <1>1. id = <<id[1], id[2]>> /\ id[1] \in Slots /\ id[2] \in Lives
    BY DEF Ids
  <1>2. Used(id[1])
    BY <1>0, <1>1, UsedMeaning DEF CallPushJob
  <1>3. /\ pc[t] = "idle" /\ after'[t] = "idle"
        /\ pc'[t] = "pjInc" /\ on'[t] = id
        /\ \A u \in Threads : u # t =>
              pc'[u] = pc[u] /\ on'[u] = on[u] /\ after'[u] = after[u]
        /\ UNCHANGED <<refCount, jobQueue, slotFree, lastId, zoneId, jobZoneId,
                       jobValid, known, destroyed, port, timerQ, zoneQueue>>
    BY <1>0 DEF CallPushJob, OnZone, TypeOK, Goto
  <1>4. Quiet(t)
    BY <1>2, <1>3 DEF Quiet, OutsideStep, InOrder, HandlerPcs, CreatePcs,
                      LatestPcs, HeldPcs, RefPcs, TickPlaces
  <1> QED
    BY <1>4, QuietInv

\* DestroyZone begins: the zone is in its slot, and nobody else destroys it.
LEMMA CallDestroyInv ==
  ASSUME ZoneIInv, TypeOK', NEW t \in Threads, NEW id \in Ids,
         CallDestroyZone(t, id)
  PROVE  ZoneIInv'
PROOF
  <1> USE DEF zoneVars, mgrVars, tickVars, appVars
  <1>0. /\ TypeOK /\ IdsIssued /\ OnZone /\ CreationHeld /\ CountExact
        /\ ZoneInSlot /\ TicksLatest /\ TicksApart
    BY DEF ZoneIInv
  <1> DEFINE r == id[1]
  <1>1. id = <<r, id[2]>> /\ r \in Slots /\ id[2] \in Lives
    BY DEF Ids
  <1>2. id \in known /\ id \notin destroyed /\ id[2] = lastId[r] /\ ~Closed(r)
    BY <1>0 DEF CallDestroyZone, CreationHeld
  <1>3. Used(r) /\ zoneId[r] = lastId[r] /\ zoneId[r] > 0
    BY <1>0, <1>1, <1>2, UsedMeaning, OpenZone
  <1>4. /\ pc[t] = "idle" /\ after'[t] = "idle"
        /\ pc'[t] = "dzCheck" /\ on'[t] = id /\ destroyed' = destroyed \cup {id}
        /\ \A u \in Threads : u # t =>
              pc'[u] = pc[u] /\ on'[u] = on[u] /\ after'[u] = after[u]
        /\ UNCHANGED <<refCount, jobQueue, slotFree, lastId, zoneId, jobZoneId,
                       jobValid, known, port, timerQ, zoneQueue>>
    BY <1>0 DEF CallDestroyZone, OnZone, TypeOK, Goto
  <1> HIDE DEF r
  <1>5. OutsideStep(t)
    BY <1>4 DEF OutsideStep, HandlerPcs, CreatePcs
  <1>6. InOrder(t)
    BY <1>1, <1>3, <1>4
       DEF InOrder, LatestPcs, CreatePcs, HeldPcs, RefPcs, r
  <1>7. CreationHeld'
    <2>1. \A s : Closed(s)' <=> Closed(s)
      BY <1>5, OutsideHandlers
    <2>2. \A u \in Threads : pc[u] = "dzCheck" => on[u] # id /\ u # t
      BY <1>0, <1>2, <1>4 DEF OnZone
    <2>3. ASSUME NEW i \in known, i \notin destroyed'
          PROVE  i[2] = lastId'[i[1]] /\ ~Closed(i[1])'
      BY <1>0, <1>4, <2>1, <2>3 DEF CreationHeld
    <2>4. ASSUME NEW i \in known, NEW u \in Threads, pc'[u] = "dzCheck", on'[u] = i
          PROVE  i[2] = lastId'[i[1]] /\ ~Closed(i[1])'
      <3>1. CASE u = t
        BY <1>2, <1>4, <2>1, <2>4, <3>1 DEF r
      <3>2. CASE u # t
        BY <1>0, <1>4, <2>1, <2>4, <3>2 DEF CreationHeld
      <3> QED
        BY <3>1, <3>2
    <2>5. ASSUME NEW u \in Threads, NEW v \in Threads, pc'[u] = "dzCheck",
                 pc'[v] = "dzCheck", on'[u] = on'[v]
          PROVE  u = v
      BY <1>0, <1>4, <2>2, <2>5 DEF CreationHeld
    <2> QED
      BY <1>4, <2>3, <2>4, <2>5 DEF CreationHeld
  <1>8. \A s : Creation(s)' = Creation(s)
    <2>1. \A s : At(s, {"crAcquire", "crInc"})' = At(s, {"crAcquire", "crInc"})
      BY <1>4 DEF At, Slot
    <2>2. ASSUME NEW s, s # r PROVE Creation(s)' = Creation(s)
      <3>1. At(s, {"dzCheck"})' = At(s, {"dzCheck"})
        BY <1>4, <2>2 DEF At, Slot, r
      <3>2. <<s, zoneId[s]>> \in destroyed' <=> <<s, zoneId[s]>> \in destroyed
        BY <1>1, <1>4, <2>2
      <3> QED
        BY <1>4, <2>1, <3>1, <3>2 DEF Creation
    <2>3. Creation(r)' = Creation(r)
      <3>1. t \in At(r, {"dzCheck"})'
        BY <1>4 DEF At, Slot, r
      <3>2. <<r, zoneId[r]>> \notin destroyed
        BY <1>1, <1>2, <1>3
      <3>3. \A s : s = r => Creation(s)' = Creation(s)
        BY <1>4, <2>1, <3>1, <3>2 DEF Creation
      <3> QED
        BY <3>3, <1>4 DEF r
    <2> QED
      BY <2>2, <2>3, <1>4 DEF r
  <1>9. CountExact'
    <2>1. pc[t] \notin RefPcs /\ pc'[t] \notin RefPcs
      BY <1>4 DEF RefPcs
    <2> QED
      BY <1>0, <1>4, <1>5, <1>8, <2>1, CountKept
  <1>10. TicksLatest' /\ TicksApart'
    <2>1. pc[t] \notin TickPlaces /\ pc'[t] \notin TickPlaces
      BY <1>4 DEF TickPlaces, CreatePcs
    <2> QED
      BY <1>0, <1>4, <1>5, <2>1, TicksKept
  <1>11. JobsOfOwnZone'
    BY <1>4, JobsKept DEF ZoneIInv
  <1> QED
    BY <1>4, <1>5, <1>6, <1>7, <1>9, <1>10, <1>11, OutsideInv

-----------------------------------------------------------------------------
(* The creation and the release of a zone.                                  *)

ClosedPcs == {"clear", "push", "crAcquire", "crInc", "crOpen"}

\* Slot r is the one whose zone t creates or releases, before the step or
\* after it; the zones of the other slots stay as they are.
HandlerStep(t, r) ==
  /\ r \in Slots
  /\ \A u \in Threads : u # t =>
        /\ pc'[u] = pc[u] /\ on'[u] = on[u] /\ after'[u] = after[u]
        /\ pc[u] \in HandlerPcs => on[u][1] # r
  /\ pc[t] \in HandlerPcs => on[t][1] = r
  /\ pc'[t] \in HandlerPcs => on'[t][1] = r
  /\ \A s \in Slots : s # r =>
        /\ slotFree'[s] = slotFree[s] /\ lastId'[s] = lastId[s]
        /\ zoneId'[s] = zoneId[s] /\ jobZoneId'[s] = jobZoneId[s]
        /\ jobValid'[s] = jobValid[s] /\ refCount'[s] = refCount[s]
        /\ jobQueue'[s] = jobQueue[s]
        /\ \A i : <<s, i>> \in known' <=> <<s, i>> \in known
  /\ known \subseteq known' /\ destroyed' = destroyed
  /\ pc[t] # "dzCheck" /\ pc'[t] # "dzCheck"
  /\ pc[t] \notin RefPcs /\ pc'[t] \notin RefPcs

LEMMA HandlersMove ==
  ASSUME NEW t \in Threads, NEW r, HandlerStep(t, r)
  PROVE  /\ \A P \in SUBSET HandlerPcs :
              /\ \A s : s # r => (Somebody(s, P)' <=> Somebody(s, P))
              /\ Somebody(r, P) <=> pc[t] \in P
              /\ Somebody(r, P)' <=> pc'[t] \in P
         /\ \A s \in Slots : s # r => /\ Closed(s)' <=> Closed(s)
                                      /\ Used(s)' <=> Used(s)
                                      /\ FlagBit(s)' = FlagBit(s)
         /\ Closed(r) <=> slotFree[r] \/ pc[t] \in ClosedPcs
         /\ Closed(r)' <=> slotFree'[r] \/ pc'[t] \in ClosedPcs
         /\ \A s \in Slots : Used(s) => Used(s)'
PROOF
  <1>1. \A P \in SUBSET HandlerPcs : \A s : s # r =>
           (Somebody(s, P)' <=> Somebody(s, P))
    BY DEF Somebody, HandlerStep, Slot
  <1>2. \A P \in SUBSET HandlerPcs : Somebody(r, P) <=> pc[t] \in P
    BY DEF Somebody, HandlerStep, Slot
  <1>3. \A P \in SUBSET HandlerPcs : Somebody(r, P)' <=> pc'[t] \in P
    BY DEF Somebody, HandlerStep, Slot
  <1>4. ClosedPcs \in SUBSET HandlerPcs
    BY DEF ClosedPcs, HandlerPcs, CreatePcs
  <1>5. \A s : /\ Closed(s) <=> slotFree[s] \/ Somebody(s, ClosedPcs)
               /\ Closed(s)' <=> slotFree'[s] \/ Somebody(s, ClosedPcs)'
    BY DEF Closed, ClosedPcs
  <1>6. \A s \in Slots : s # r => (Closed(s)' <=> Closed(s)) /\ (Used(s)' <=> Used(s))
    BY <1>1, <1>4, <1>5 DEF HandlerStep, Used
  <1>7. \A s \in Slots : s # r => FlagBit(s)' = FlagBit(s)
    BY <1>6 DEF FlagBit
  <1>8. \A s \in Slots : Used(s) => Used(s)'
    BY DEF Used, HandlerStep
  <1> QED
    BY <1>1, <1>2, <1>3, <1>4, <1>5, <1>6, <1>7, <1>8

\* What has to be shown of slot r for the invariants of the slots.
SlotInOrder(t, r) ==
  LET none == slotFree'[r] \/ pc'[t] \in {"push", "crAcquire"}
  IN  /\ slotFree'[r] => pc'[t] \notin HandlerPcs
      /\ ~slotFree'[r] => lastId'[r] > 0
      /\ \A i \in Lives : <<r, i>> \in known' <=>
            0 < i /\ i <= lastId'[r] /\ (i = lastId'[r] => pc'[t] \notin CreatePcs)
      /\ none => zoneId'[r] = 0
      /\ ~none => /\ zoneId'[r] = lastId'[r] /\ jobZoneId'[r] = lastId'[r]
                  /\ jobValid'[r] = 1

LEMMA HandlerZones ==
  ASSUME ZoneIInv, NEW t \in Threads, NEW r, HandlerStep(t, r), SlotInOrder(t, r)
  PROVE  HandlerAlone' /\ IdsIssued' /\ ZoneInSlot'
PROOF
  <1>0. HandlerAlone /\ IdsIssued /\ ZoneInSlot
    BY DEF ZoneIInv
  <1>1. /\ HandlerPcs \in SUBSET HandlerPcs /\ CreatePcs \in SUBSET HandlerPcs
        /\ {"push", "crAcquire"} \in SUBSET HandlerPcs
    BY DEF HandlerPcs, CreatePcs
  <1>2. HandlerAlone'
    <2>1. \A s \in Slots : \A u, v \in Threads :
            pc'[u] \in HandlerPcs /\ on'[u][1] = s
              /\ pc'[v] \in HandlerPcs /\ on'[v][1] = s => u = v
      <3> SUFFICES ASSUME NEW s \in Slots, NEW u \in Threads, NEW v \in Threads,
                          pc'[u] \in HandlerPcs, on'[u][1] = s,
                          pc'[v] \in HandlerPcs, on'[v][1] = s
                   PROVE  u = v
        OBVIOUS
      <3>1. CASE u = t \/ v = t
        BY <3>1 DEF HandlerStep
      <3>2. CASE u # t /\ v # t
        BY <1>0, <3>2 DEF HandlerStep, HandlerAlone, At, Slot
      <3> QED
        BY <3>1, <3>2
    <2>2. \A s \in Slots : slotFree'[s] => ~Somebody(s, HandlerPcs)'
      BY <1>0, <1>1, HandlersMove DEF HandlerAlone, HandlerStep, SlotInOrder
    <2> QED
      BY <2>1, <2>2 DEF HandlerAlone, At, Slot
  <1>3. IdsIssued'
    <2>1. \A s \in Slots :
            /\ s # r => (Somebody(s, CreatePcs)' <=> Somebody(s, CreatePcs))
            /\ s = r => (Somebody(s, CreatePcs)' <=> pc'[t] \in CreatePcs)
      BY <1>1, HandlersMove
    <2> QED
      BY <1>0, <2>1 DEF IdsIssued, HandlerStep, SlotInOrder
  <1>4. ZoneInSlot'
    <2> DEFINE P == {"push", "crAcquire"}
    <2>1. \A s \in Slots :
            /\ s # r => (Somebody(s, P)' <=> Somebody(s, P))
            /\ s = r => (Somebody(s, P)' <=> pc'[t] \in P)
      BY <1>1, HandlersMove
    <2> QED
      BY <1>0, <2>1 DEF ZoneInSlot, HandlerStep, SlotInOrder
  <1> QED
    BY <1>2, <1>3, <1>4

\* What has to be shown of the threads at slot r.
ThreadsInOrder(t, r) ==
  /\ after'[t] = "idle" /\ pc'[t] # "pjPush"
  /\ pc'[t] \in LatestPcs => on'[t][1] = r /\ on'[t][2] = lastId'[r]
  /\ pc'[t] \notin CreatePcs \cup {"idle"} => on'[t][1] = r /\ Used(r)'
  /\ \A u \in Threads : u # t /\ on[u][1] = r =>
        /\ pc[u] \in LatestPcs => lastId'[r] = lastId[r]
        /\ pc[u] = "pjPush" => zoneId'[r] = zoneId[r]
        /\ pc[u] \in HeldPcs => ~(slotFree'[r] \/ pc'[t] \in ClosedPcs)
  /\ \A i \in Lives : <<r, i>> \in known' /\ <<r, i>> \notin destroyed =>
        i = lastId'[r] /\ ~(slotFree'[r] \/ pc'[t] \in ClosedPcs)
  /\ \A u \in Threads : pc[u] = "dzCheck" /\ on[u][1] = r =>
        lastId'[r] = lastId[r] /\ ~(slotFree'[r] \/ pc'[t] \in ClosedPcs)

LEMMA HandlerThreads ==
  ASSUME ZoneIInv, TypeOK', NEW t \in Threads, NEW r, HandlerStep(t, r),
         ThreadsInOrder(t, r)
  PROVE  OnZone' /\ HeldOpen' /\ CreationHeld'
PROOF
  <1>0. TypeOK /\ OnZone /\ HeldOpen /\ CreationHeld
    BY DEF ZoneIInv
  <1>1. /\ \A s \in Slots : s # r => (Closed(s)' <=> Closed(s)) /\ (Used(s)' <=> Used(s))
        /\ \A s \in Slots : Used(s) => Used(s)'
        /\ \A s \in Slots : s = r =>
             (Closed(s)' <=> slotFree'[r] \/ pc'[t] \in ClosedPcs)
    BY HandlersMove
  <1>2. \A u \in Threads : on[u][1] \in Slots /\ on'[u][1] \in Slots
    BY <1>0 DEF TypeOK, Ids
  <1>3. OnZone'
    <2>1. ASSUME NEW u \in Threads, u # t
          PROVE  /\ pc'[u] \in LatestPcs => on'[u][2] = lastId'[on'[u][1]]
                 /\ pc'[u] \notin CreatePcs \cup {"idle"} => Used(on[u][1])'
                 /\ pc'[u] = "pjPush" => on'[u][2] = zoneId'[on'[u][1]]
                 /\ pc'[u] = "dzCheck" => on'[u] \in destroyed'
                 /\ after'[u] = "idle"
      <3>1. pc'[u] = pc[u] /\ on'[u] = on[u] /\ after'[u] = after[u] /\ destroyed' = destroyed
        BY <2>1 DEF HandlerStep
      <3>2. pc[u] \notin CreatePcs \cup {"idle"} => Used(on[u][1])'
        <4>1. pc[u] \notin CreatePcs \cup {"idle"} => <<on[u][1], 1>> \in known
          BY <1>0 DEF OnZone, Slot, Used
        <4> QED
          BY <3>1, <4>1 DEF Used, HandlerStep
      <3>3. pc[u] \in LatestPcs => on[u][2] = lastId'[on[u][1]]
        BY <1>0, <1>2, <2>1 DEF OnZone, Slot, HandlerStep, ThreadsInOrder
      <3>4. pc[u] = "pjPush" => on[u][2] = zoneId'[on[u][1]]
        BY <1>0, <1>2, <2>1 DEF OnZone, Slot, HandlerStep, ThreadsInOrder
      <3> QED
        BY <1>0, <3>1, <3>2, <3>3, <3>4 DEF OnZone
    <2>2. /\ pc'[t] \in LatestPcs => on'[t][2] = lastId'[on'[t][1]]
          /\ pc'[t] \notin CreatePcs \cup {"idle"} => Used(on[t][1])'
          /\ pc'[t] = "pjPush" => on'[t][2] = zoneId'[on'[t][1]]
          /\ pc'[t] = "dzCheck" => on'[t] \in destroyed'
          /\ after'[t] = "idle"
      BY DEF ThreadsInOrder, HandlerStep, Used
    <2> QED
      BY <2>1, <2>2 DEF OnZone, Slot
  <1>4. HeldOpen'
    <2>1. pc'[t] \notin HeldPcs
      BY DEF HandlerStep, HeldPcs
    <2>2. ASSUME NEW u \in Threads, u # t, pc'[u] \in HeldPcs
          PROVE  ~Closed(on[u][1])'
      <3>1. pc[u] \in HeldPcs /\ on'[u] = on[u]
        BY <2>2 DEF HandlerStep
      <3>2. \A s \in Slots : s = on[u][1] => ~Closed(s)'
        BY <1>0, <1>1, <2>2, <3>1 DEF HeldOpen, Slot, ThreadsInOrder
      <3>3. PICK s \in Slots : s = on[u][1] /\ s = on'[u][1]
        BY <1>2, <3>1
      <3>4. ~Closed(s)'
        BY <3>2, <3>3
      <3> QED
        BY <3>3, <3>4 DEF Closed
    <2> QED
      BY <2>1, <2>2 DEF HeldOpen, Slot
  <1>5. CreationHeld'
    <2>1. /\ \A u \in Threads : pc'[u] = "dzCheck" <=> pc[u] = "dzCheck"
          /\ \A u \in Threads : pc'[u] = "dzCheck" => on'[u] = on[u]
      BY DEF HandlerStep
    <2>2. ASSUME NEW id \in known',
                 \/ id \notin destroyed'
                 \/ \E u \in Threads : pc'[u] = "dzCheck" /\ on'[u] = id
          PROVE  id[2] = lastId'[id[1]] /\ ~Closed(id[1])'
      <3>1. id = <<id[1], id[2]>> /\ id[1] \in Slots /\ id[2] \in Lives
        BY DEF TypeOK, Ids
      <3>2. \/ id \notin destroyed
            \/ \E u \in Threads : pc[u] = "dzCheck" /\ on[u] = id
        BY <2>1, <2>2 DEF HandlerStep
      <3>3. CASE id[1] # r
        <4>1. id \in known
          BY <3>1, <3>3 DEF HandlerStep
        <4>2. id[2] = lastId[id[1]] /\ ~Closed(id[1])
          BY <1>0, <3>2, <4>1 DEF CreationHeld
        <4> QED
          BY <1>1, <3>1, <3>3, <4>2 DEF HandlerStep
      <3>4. CASE id[1] = r /\ id \notin destroyed
        <4>1. id[2] = lastId'[r] /\ ~(slotFree'[r] \/ pc'[t] \in ClosedPcs)
          BY <3>1, <3>4 DEF ThreadsInOrder
        <4> QED
          BY <1>1, <3>1, <3>4, <4>1
      <3>5. CASE id[1] = r /\ \E u \in Threads : pc[u] = "dzCheck" /\ on[u] = id
        <4>1. PICK u \in Threads : pc[u] = "dzCheck" /\ on[u] = id
          BY <3>5
        <4>2. lastId'[r] = lastId[r] /\ ~(slotFree'[r] \/ pc'[t] \in ClosedPcs)
          BY <3>5, <4>1 DEF ThreadsInOrder
        <4>3. id \in known
          BY <1>0, <4>1 DEF OnZone, TypeOK
        <4>4. id[2] = lastId[id[1]]
          BY <1>0, <4>1, <4>3 DEF CreationHeld
        <4> QED
          BY <1>1, <3>1, <3>5, <4>2, <4>4
      <3> QED
        BY <3>2, <3>3, <3>4, <3>5
    <2>3. \A u, v \in Threads :
            pc'[u] = "dzCheck" /\ pc'[v] = "dzCheck" /\ on'[u] = on'[v] => u = v
      BY <1>0, <2>1 DEF CreationHeld
    <2> QED
      BY <2>2, <2>3 DEF CreationHeld
  <1> QED
    BY <1>3, <1>4, <1>5

LEMMA HandlerCount ==
  ASSUME ZoneIInv, NEW t \in Threads, NEW r, HandlerStep(t, r),
         refCount'[r] = Creation(r)' + Cardinality(At(r, RefPcs)) + FlagBit(r)'
  PROVE  CountExact'
PROOF
  <1> SUFFICES ASSUME NEW s \in Slots
               PROVE  refCount'[s] = Owners(s)' + FlagBit(s)'
    BY DEF CountExact
  <1>1. Cardinality(At(s, RefPcs))' = Cardinality(At(s, RefPcs))
    BY RefsMove DEF HandlerStep
  <1>2. CASE s = r
    BY <1>1, <1>2 DEF Owners
  <1>3. CASE s # r
    <2>1. FlagBit(s)' = FlagBit(s)
      BY <1>3, HandlersMove
    <2>2. /\ At(s, {"dzCheck"})' = At(s, {"dzCheck"})
          /\ At(s, {"crAcquire", "crInc"})' = At(s, {"crAcquire", "crInc"})
      BY <1>3 DEF At, Slot, HandlerStep, HandlerPcs, CreatePcs
    <2>3. zoneId'[s] = zoneId[s] /\ destroyed' = destroyed /\ refCount'[s] = refCount[s]
      BY <1>3 DEF HandlerStep
    <2>4. Creation(s)' = Creation(s)
      BY <2>2, <2>3 DEF Creation
    <2>5. refCount[s] = Owners(s) + FlagBit(s)
      BY DEF ZoneIInv, CountExact
    <2> QED
      BY <1>1, <2>1, <2>3, <2>4, <2>5 DEF Owners
  <1> QED
    BY <1>2, <1>3

LEMMA HandlerInv ==
  ASSUME ZoneIInv, TypeOK', NEW t \in Threads, NEW r, HandlerStep(t, r),
         SlotInOrder(t, r), ThreadsInOrder(t, r),
         refCount'[r] = Creation(r)' + Cardinality(At(r, RefPcs)) + FlagBit(r)',
         TicksLatest', TicksApart', Range(jobQueue'[r]) \subseteq {zoneId'[r]} \ {0}
  PROVE  ZoneIInv'
PROOF
  <1>1. CountExact'
    BY HandlerCount
  <1>2. JobsOfOwnZone'
    BY DEF ZoneIInv, JobsOfOwnZone, HandlerStep
  <1> QED
    BY <1>1, <1>2, HandlerZones, HandlerThreads DEF ZoneIInv

\* On a closed slot nobody works, nobody destroys, and no zone is alive.
LEMMA ClosedQuiet ==
  ASSUME ZoneIInv, NEW s \in Slots, Closed(s)
  PROVE  /\ \A u \in Threads : on[u][1] = s => pc[u] \notin HeldPcs /\ pc[u] # "dzCheck"
         /\ \A i : <<s, i>> \in known => <<s, i>> \in destroyed
         /\ Alive(s) = FALSE
PROOF
  <1>0. TypeOK /\ HeldOpen /\ CreationHeld /\ IdsIssued /\ ZoneInSlot /\ OnZone
    BY DEF ZoneIInv
  <1>1. \A u \in Threads : on[u][1] = s => pc[u] \notin HeldPcs
    BY <1>0 DEF HeldOpen, Slot
  <1>2. \A u \in Threads : on[u][1] = s => pc[u] # "dzCheck"
    BY <1>0, DestroyerAlone DEF Slot
  <1>3. \A i : <<s, i>> \in known => <<s, i>> \in destroyed
    BY <1>0 DEF CreationHeld
  <1> QED
    BY <1>1, <1>2, <1>3 DEF Alive

LEMMA ClosedNoCreation ==
  ASSUME ZoneIInv, NEW s \in Slots, Closed(s), ~Somebody(s, {"crOpen"})
  PROVE  Creation(s) = 0
PROOF
  <1>0. TypeOK /\ IdsIssued /\ ZoneInSlot
    BY DEF ZoneIInv
  <1> SUFFICES ASSUME zoneId[s] # 0, At(s, {"crAcquire", "crInc"}) = {}
               PROVE  <<s, zoneId[s]>> \in destroyed /\ At(s, {"dzCheck"}) = {}
    BY DEF Creation
  <1>1. ~Somebody(s, {"crAcquire", "crInc"})
    BY DEF Somebody, At
  <1>2. ~slotFree[s] /\ zoneId[s] = lastId[s]
    BY <1>0 DEF ZoneInSlot
  <1>3. Somebody(s, {"clear"})
    <2>1. ~Somebody(s, {"push"})
      BY <1>0 DEF ZoneInSlot, Somebody
    <2> QED
      BY <1>1, <1>2, <2>1 DEF Closed, Somebody
  <1>4. ~Somebody(s, CreatePcs)
    <2>1. PICK u \in Threads : pc[u] = "clear" /\ Slot(u) = s
      BY <1>3 DEF Somebody
    <2> QED
      BY <2>1 DEF ZoneIInv, HandlerAlone, At, Somebody, HandlerPcs, CreatePcs
  <1>5. <<s, zoneId[s]>> \in known
    BY <1>0, <1>2, <1>4 DEF IdsIssued, TypeOK, Lives
  <1> QED
    BY <1>5, ClosedQuiet DEF At, Slot

\* What the invariant says where t creates or releases the zone of slot r.
LEMMA HandlerAt ==
  ASSUME ZoneIInv, NEW t \in Threads, pc[t] \in HandlerPcs, NEW r, r = Slot(t)
  PROVE  /\ TypeOK /\ r \in Slots /\ on[t][1] = r /\ after[t] = "idle"
         /\ ~slotFree[r] /\ lastId[r] > 0 /\ lastId[r] \in Lives
         /\ \A u \in Threads : u # t /\ pc[u] \in HandlerPcs => on[u][1] # r
         /\ pc[t] \in CreatePcs => on[t] = <<r, lastId[r]>>
         /\ pc[t] \notin CreatePcs => Used(r)
         /\ Closed(r) <=> pc[t] \in ClosedPcs
         /\ pc[t] \in {"push", "crAcquire"} => zoneId[r] = 0
         /\ pc[t] \notin {"push", "crAcquire"} =>
              zoneId[r] = lastId[r] /\ jobZoneId[r] = lastId[r] /\ jobValid[r] = 1
         /\ \A i \in Lives : <<r, i>> \in known <=>
              0 < i /\ i <= lastId[r] /\ (i = lastId[r] => pc[t] \notin CreatePcs)
PROOF
  <1>0. TypeOK /\ HandlerAlone /\ IdsIssued /\ ZoneInSlot /\ OnZone
    BY DEF ZoneIInv
  <1>1. r \in Slots /\ on[t][1] = r /\ on[t] = <<r, on[t][2]>> /\ lastId[r] \in Lives
    BY <1>0, OnType DEF Slot, TypeOK
  <1>2. after[t] = "idle" /\ (pc[t] \in CreatePcs => on[t][2] = lastId[r])
    BY <1>0 DEF OnZone, LatestPcs
  <1>3. pc[t] \notin CreatePcs => Used(r)
    BY <1>0 DEF OnZone, HandlerPcs
  <1>4. \A u \in Threads : u # t /\ pc[u] \in HandlerPcs => on[u][1] # r
    BY <1>0, <1>1 DEF HandlerAlone, At, Slot
  <1>5. \A P \in SUBSET HandlerPcs : Somebody(r, P) <=> pc[t] \in P
    BY <1>1, <1>4 DEF Somebody, Slot
  <1>6. /\ Somebody(r, HandlerPcs)
        /\ Somebody(r, CreatePcs) <=> pc[t] \in CreatePcs
        /\ Somebody(r, {"push", "crAcquire"}) <=> pc[t] \in {"push", "crAcquire"}
        /\ Somebody(r, ClosedPcs) <=> pc[t] \in ClosedPcs
    BY <1>5 DEF HandlerPcs, CreatePcs, ClosedPcs
  <1>7. ~slotFree[r] /\ lastId[r] > 0
    BY <1>0, <1>1, <1>6 DEF HandlerAlone, IdsIssued
  <1>8. Closed(r) <=> pc[t] \in ClosedPcs
    BY <1>6, <1>7 DEF Closed, ClosedPcs
  <1>9. /\ pc[t] \in {"push", "crAcquire"} => zoneId[r] = 0
        /\ pc[t] \notin {"push", "crAcquire"} =>
             zoneId[r] = lastId[r] /\ jobZoneId[r] = lastId[r] /\ jobValid[r] = 1
    BY <1>0, <1>1, <1>6, <1>7 DEF ZoneInSlot
  <1>10. \A i \in Lives : <<r, i>> \in known <=>
              0 < i /\ i <= lastId[r] /\ (i = lastId[r] => pc[t] \notin CreatePcs)
    BY <1>0, <1>1, <1>6 DEF IdsIssued
  <1> QED
    BY <1>0, <1>1, <1>2, <1>3, <1>4, <1>7, <1>8, <1>9, <1>10

\* The compare-exchange of ReleaseZone: with a count of 0 the creation is
\* given back and nobody holds a reference.
LEMMA ReleaseCasInv ==
  ASSUME ZoneIInv, TypeOK', NEW t \in Threads, ReleaseCas(t), refCount[Slot(t)] = 0
  PROVE  ZoneIInv'
PROOF
  <1> USE DEF zoneVars, mgrVars, tickVars, appVars
  <1>0. /\ TypeOK /\ CountExact /\ IdsIssued /\ ZoneInSlot /\ TicksLatest
        /\ TicksApart /\ JobsOfOwnZone /\ OnZone
    BY DEF ZoneIInv
  <1>1. pc[t] = "rel"
    BY DEF ReleaseCas
  <1>2. PICK r \in Slots : r = Slot(t)
    BY <1>0, OnType
  <1>3. on[t][1] = r /\ after[t] = "idle" /\ Used(r)
    BY <1>1, <1>2, AtWork DEF CreatePcs
  <1>4. Owners(r) = 0 /\ ~Closed(r)
    BY <1>0, <1>2, <1>3, FlagMeaning
  <1>5. Creation(r) = 0 /\ Cardinality(At(r, RefPcs)) = 0
    BY <1>4, OwnersBounded DEF Owners
  <1>6. /\ zoneId[r] = lastId[r] /\ lastId[r] > 0 /\ ~slotFree[r]
        /\ jobZoneId[r] = lastId[r] /\ jobValid[r] = 1
    BY <1>0, <1>4, OpenZone DEF Closed
  <1>7. /\ At(r, {"crAcquire", "crInc"}) = {} /\ At(r, {"dzCheck"}) = {}
        /\ <<r, zoneId[r]>> \in destroyed
    <2>1. At(r, {"crAcquire", "crInc"}) = {}
      BY <1>4 DEF Closed, Somebody, At
    <2> QED
      BY <1>5, <1>6, <2>1 DEF Creation
  <1>8. \A u \in Threads : on[u][1] = r => pc[u] \notin HandlerPcs
    <2>1. <<r, lastId[r]>> \in known
      BY <1>0, <1>6, <1>7 DEF TypeOK
    <2>2. ~Somebody(r, CreatePcs)
      BY <1>0, <2>1 DEF IdsIssued, TypeOK
    <2> QED
      BY <1>4, <2>2 DEF Closed, Somebody, Slot, HandlerPcs
  <1>9. \A u \in Threads : on[u][1] = r => pc[u] \notin RefPcs /\ pc[u] # "dzCheck"
    <2>1. \A u \in Threads : on[u][1] = r => pc[u] \notin RefPcs
      BY <1>4, OwnersBounded DEF Slot
    <2>2. \A u \in Threads : on[u][1] = r => pc[u] # "dzCheck"
      BY <1>7 DEF At, Slot
    <2> QED
      BY <2>1, <2>2
  <1>10. /\ refCount'[r] = RELEASE_FLAG
         /\ \A s \in Slots : s # r => refCount'[s] = refCount[s]
         /\ pc'[t] = "clear"
         /\ \A u \in Threads : u # t => pc'[u] = pc[u]
         /\ UNCHANGED <<on, after, jobQueue, slotFree, lastId, zoneId, jobZoneId,
                        jobValid, known, destroyed, port, timerQ, zoneQueue>>
    BY <1>0, <1>2 DEF ReleaseCas, Goto, TypeOK
  <1>11. HandlerStep(t, r)
    BY <1>1, <1>3, <1>8, <1>10 DEF HandlerStep, HandlerPcs, CreatePcs, RefPcs
  <1>12. SlotInOrder(t, r)
    <2>1. \A i \in Lives : <<r, i>> \in known <=>
             0 < i /\ i <= lastId[r] /\ (i = lastId[r] => ~Somebody(r, CreatePcs))
      BY <1>0 DEF IdsIssued
    <2>2. ~Somebody(r, CreatePcs)
      BY <1>8 DEF Somebody, Slot, HandlerPcs
    <2> QED
      BY <1>6, <1>10, <2>1, <2>2 DEF SlotInOrder, CreatePcs
  <1>13. ThreadsInOrder(t, r)
    <2>1. \A i \in Lives : <<r, i>> \in known => <<r, i>> \in destroyed
      BY <1>0, <1>6, <1>7 DEF ZoneIInv, CreationHeld, TypeOK
    <2> QED
      BY <1>1, <1>3, <1>9, <1>10, <2>1
         DEF ThreadsInOrder, LatestPcs, CreatePcs, HeldPcs, Used
  <1>14. refCount'[r] = Creation(r)' + Cardinality(At(r, RefPcs)) + FlagBit(r)'
    <2>1. \A s : s = r => Creation(s)' = 0
      BY <1>1, <1>7, <1>8, <1>10, <1>11 DEF Creation, At, Slot, HandlerStep
    <2>2. Closed(r)' /\ Used(r)'
      BY <1>3, <1>10, <1>11, HandlersMove DEF ClosedPcs
    <2>3. FlagBit(r)' = RELEASE_FLAG
      BY <2>2 DEF FlagBit
    <2> QED
      BY <1>5, <1>10, <2>1, <2>3, FlagNumbers
  <1>15. TicksLatest' /\ TicksApart'
    <2>1. /\ pc'[t] \in TickPlaces <=> pc[t] \in TickPlaces
          /\ \A s : Alive(s)' => Alive(s)
      BY <1>1, <1>10 DEF TickPlaces, CreatePcs, Alive
    <2> QED
      BY <1>0, <1>10, <2>1, TicksStill
  <1>16. Range(jobQueue'[r]) \subseteq {zoneId'[r]} \ {0}
    BY <1>0, <1>10 DEF JobsOfOwnZone
  <1> QED
    BY <1>11, <1>12, <1>13, <1>14, <1>15, <1>16, HandlerInv

\* CZone::Release and the push of the index.
LEMMA ReleaseInv ==
  ASSUME ZoneIInv, TypeOK', NEW t \in Threads, Release(t) \/ PushIndex(t)
  PROVE  ZoneIInv'
PROOF
  <1> USE DEF zoneVars, mgrVars, tickVars, appVars
  <1>0. TypeOK /\ CountExact /\ TicksLatest /\ TicksApart /\ JobsOfOwnZone
    BY DEF ZoneIInv
  <1>1. pc[t] \in {"clear", "push"} /\ pc[t] \in HandlerPcs /\ pc[t] \notin CreatePcs
        /\ pc[t] \in ClosedPcs
    BY DEF Release, PushIndex, HandlerPcs, CreatePcs, ClosedPcs
  <1>2. PICK r \in Slots : r = Slot(t)
    BY <1>0, OnType
  <1>3. /\ on[t][1] = r /\ after[t] = "idle" /\ ~slotFree[r] /\ lastId[r] > 0
        /\ \A u \in Threads : u # t /\ pc[u] \in HandlerPcs => on[u][1] # r
        /\ Used(r) /\ Closed(r)
        /\ pc[t] = "push" => zoneId[r] = 0
        /\ \A i \in Lives : <<r, i>> \in known <=> 0 < i /\ i <= lastId[r]
    BY <1>1, <1>2, HandlerAt
  <1>4. /\ \A u \in Threads : on[u][1] = r => pc[u] \notin HeldPcs /\ pc[u] # "dzCheck"
        /\ \A i : <<r, i>> \in known => <<r, i>> \in destroyed
    BY <1>3, ClosedQuiet
  <1>5. Creation(r) = 0
    <2>1. ~Somebody(r, {"crOpen"})
      BY <1>1, <1>2, <1>3 DEF Somebody, Slot, HandlerPcs, CreatePcs
    <2> QED
      BY <1>3, <2>1, ClosedNoCreation
  <1>6. /\ UNCHANGED <<refCount, lastId, jobZoneId, known, destroyed, port, timerQ,
                       zoneQueue>>
        /\ zoneId'[r] = 0
        /\ jobQueue'[r] = <<>> \/ (pc[t] = "push" /\ jobQueue' = jobQueue)
        /\ \A s \in Slots : s # r => /\ zoneId'[s] = zoneId[s]
                                     /\ jobQueue'[s] = jobQueue[s]
                                     /\ jobValid'[s] = jobValid[s]
                                     /\ slotFree'[s] = slotFree[s]
        /\ \/ pc'[t] = "push" /\ slotFree' = slotFree
           \/ pc'[t] = "idle" /\ slotFree'[r] = TRUE
        /\ after'[t] = "idle"
        /\ \A u \in Threads : u # t =>
              pc'[u] = pc[u] /\ on'[u] = on[u] /\ after'[u] = after[u]
        /\ pc'[t] = "push" => on'[t] = on[t]
    BY <1>0, <1>2, <1>3 DEF Release, PushIndex, Resume, Idle, Goto, TypeOK
  <1>7. HandlerStep(t, r)
    BY <1>1, <1>3, <1>6 DEF HandlerStep, HandlerPcs, CreatePcs, RefPcs
  <1>8. SlotInOrder(t, r)
    BY <1>3, <1>6 DEF SlotInOrder, HandlerPcs, CreatePcs
  <1>9. ThreadsInOrder(t, r)
    BY <1>3, <1>4, <1>6
       DEF ThreadsInOrder, LatestPcs, CreatePcs, HeldPcs, RefPcs, Used
  <1>10. refCount'[r] = Creation(r)' + Cardinality(At(r, RefPcs)) + FlagBit(r)'
    <2>1. Creation(r)' = 0
      BY <1>6 DEF Creation
    <2>2. Closed(r)' /\ Used(r)'
      BY <1>3, <1>6, <1>7, HandlersMove DEF ClosedPcs
    <2>3. FlagBit(r)' = RELEASE_FLAG /\ FlagBit(r) = RELEASE_FLAG
      BY <1>3, <2>2 DEF FlagBit
    <2> QED
      BY <1>0, <1>5, <1>6, <2>1, <2>3 DEF CountExact, Owners
  <1>11. TicksLatest' /\ TicksApart'
    <2>1. pc'[t] \notin TickPlaces /\ pc[t] \notin TickPlaces
      BY <1>1, <1>6 DEF TickPlaces, CreatePcs
    <2>2. \A s : Alive(s)' => Alive(s)
      <3>1. <<r, 0>> \notin known
        BY <1>3, ZoneBoundsAssumption DEF Lives
      <3>2. ~Alive(r)'
        BY <1>6, <3>1 DEF Alive
      <3>3. \A s : <<s, zoneId'[s]>> \in known => s \in Slots
        BY <1>0 DEF TypeOK, Ids
      <3> QED
        BY <1>6, <3>2, <3>3 DEF Alive
    <2> QED
      BY <1>0, <1>6, <2>1, <2>2, TicksStill
  <1>12. Range(jobQueue'[r]) \subseteq {zoneId'[r]} \ {0}
    <2>1. Range(<<>>) = {}
      BY DEF Range
    <2> QED
      BY <1>0, <1>3, <1>6, <2>1 DEF JobsOfOwnZone
  <1> QED
    BY <1>7, <1>8, <1>9, <1>10, <1>11, <1>12, HandlerInv

\* CZone::Acquire and the first reference, on a closed slot: the creation
\* holds its reference from the increment on.
LEMMA AcquireInv ==
  ASSUME ZoneIInv, TypeOK', NEW t \in Threads, Acquire(t) \/ CreateIncrement(t)
  PROVE  ZoneIInv'
PROOF
  <1> USE DEF zoneVars, mgrVars, tickVars, appVars
  <1>0. TypeOK /\ CountExact /\ TicksLatest /\ TicksApart /\ JobsOfOwnZone
    BY DEF ZoneIInv
  <1>1. /\ pc[t] \in {"crAcquire", "crInc"} /\ pc[t] \in HandlerPcs
        /\ pc[t] \in CreatePcs /\ pc[t] \in ClosedPcs /\ pc[t] \notin RefPcs
    BY DEF Acquire, CreateIncrement, IncreaseRefcount, HandlerPcs, CreatePcs,
           ClosedPcs, RefPcs
  <1>2. PICK r \in Slots : r = Slot(t)
    BY <1>0, OnType
  <1>3. /\ on[t][1] = r /\ on[t] = <<r, lastId[r]>> /\ after[t] = "idle"
        /\ ~slotFree[r] /\ lastId[r] > 0 /\ lastId[r] \in Lives /\ Closed(r)
        /\ \A u \in Threads : u # t /\ pc[u] \in HandlerPcs => on[u][1] # r
        /\ pc[t] = "crAcquire" => zoneId[r] = 0
        /\ pc[t] = "crInc" =>
             zoneId[r] = lastId[r] /\ jobZoneId[r] = lastId[r] /\ jobValid[r] = 1
        /\ \A i \in Lives : <<r, i>> \in known <=> 0 < i /\ i < lastId[r]
    <2>1. lastId[r] \in Int /\ \A i \in Lives : i \in Int
      BY <1>0, <1>2, ZoneBoundsAssumption DEF TypeOK, Lives
    <2>2. \A i \in Lives : <<r, i>> \in known <=>
             0 < i /\ i <= lastId[r] /\ (i = lastId[r] => pc[t] \notin CreatePcs)
      BY <1>1, <1>2, HandlerAt
    <2>3. \A i \in Lives : <<r, i>> \in known <=> 0 < i /\ i < lastId[r]
      BY <1>1, <2>1, <2>2
    <2> QED
      BY <1>1, <1>2, <2>3, HandlerAt
  <1>4. /\ \A u \in Threads : on[u][1] = r => pc[u] \notin HeldPcs /\ pc[u] # "dzCheck"
        /\ \A i : <<r, i>> \in known => <<r, i>> \in destroyed
    BY <1>3, ClosedQuiet
  <1>5. <<r, lastId[r]>> \notin known /\ <<r, lastId[r]>> \notin destroyed
    <2>1. lastId[r] \in Int
      BY <1>0, <1>2, ZoneBoundsAssumption DEF TypeOK, Lives
    <2>2. <<r, lastId[r]>> \notin known
      BY <1>3, <2>1
    <2> QED
      BY <1>0, <2>2 DEF TypeOK
  <1>6. /\ zoneId'[r] = lastId[r] /\ jobZoneId'[r] = lastId[r] /\ jobValid'[r] = 1
        /\ \A s \in Slots : s # r => /\ zoneId'[s] = zoneId[s]
                                     /\ jobZoneId'[s] = jobZoneId[s]
                                     /\ jobValid'[s] = jobValid[s]
                                     /\ refCount'[s] = refCount[s]
        /\ UNCHANGED <<jobQueue, slotFree, lastId, known, destroyed, port, timerQ,
                       zoneQueue, on, after>>
        /\ \/ pc[t] = "crAcquire" /\ pc'[t] = "crInc" /\ refCount' = refCount
           \/ /\ pc[t] = "crInc" /\ pc'[t] = "crOpen"
              /\ refCount'[r] = (refCount[r] + 1) % Word
        /\ \A u \in Threads : u # t => pc'[u] = pc[u]
    <2>1. CASE Acquire(t)
      BY <1>0, <1>2, <1>3, <2>1 DEF Acquire, Goto, TypeOK
    <2>2. CASE CreateIncrement(t)
      BY <1>0, <1>2, <1>3, <2>2 DEF CreateIncrement, IncreaseRefcount, Goto, TypeOK
    <2> QED
      BY <2>1, <2>2
  <1>7. HandlerStep(t, r)
    BY <1>1, <1>3, <1>6 DEF HandlerStep, HandlerPcs, CreatePcs, RefPcs
  <1>8. SlotInOrder(t, r)
    <2>1. lastId[r] \in Int /\ \A i \in Lives : i \in Int
      BY <1>0, <1>2, ZoneBoundsAssumption DEF TypeOK, Lives
    <2>2. pc'[t] \in CreatePcs /\ pc'[t] \notin {"push", "crAcquire"}
      BY <1>6 DEF CreatePcs
    <2>3. \A i \in Lives : <<r, i>> \in known' <=>
             0 < i /\ i <= lastId'[r] /\ (i = lastId'[r] => pc'[t] \notin CreatePcs)
      BY <1>3, <1>6, <2>1, <2>2
    <2> QED
      BY <1>3, <1>6, <2>2, <2>3 DEF SlotInOrder
  <1>9. ThreadsInOrder(t, r)
    BY <1>3, <1>4, <1>6
       DEF ThreadsInOrder, LatestPcs, CreatePcs, HeldPcs, RefPcs
  <1>10. refCount'[r] = Creation(r)' + Cardinality(At(r, RefPcs)) + FlagBit(r)'
    <2>1. Closed(r)' /\ (Used(r)' <=> Used(r))
      BY <1>6, <1>7, HandlersMove DEF ClosedPcs, Used
    <2>2. FlagBit(r)' = FlagBit(r)
      BY <1>3, <2>1 DEF FlagBit
    <2>3. Creation(r) = 0
      <3>1. t \in At(r, {"crAcquire", "crInc"})
        BY <1>1, <1>2 DEF At
      <3> QED
        BY <3>1 DEF Creation
    <2>4. CASE pc'[t] = "crInc"
      <3>1. \A s : s = r => t \in At(s, {"crAcquire", "crInc"})'
        BY <1>3, <1>6, <2>4 DEF At, Slot
      <3>2. \A s : s = r => Creation(s)' = 0
        BY <3>1 DEF Creation
      <3> QED
        BY <1>0, <1>6, <2>2, <2>3, <2>4, <3>2 DEF CountExact, Owners
    <2>5. CASE pc'[t] = "crOpen"
      <3>1. \A s : s = r => At(s, {"crAcquire", "crInc"})' = {}
        BY <1>3, <1>6, <2>5 DEF At, Slot, HandlerPcs, CreatePcs
      <3>2. \A s : s = r => Creation(s)' = 1
        BY <1>3, <1>5, <1>6, <3>1 DEF Creation
      <3>3. Owners(r) + 1 < RELEASE_FLAG
        BY <1>1, RoomForOne
      <3>4. (refCount[r] + 1) % Word = Owners(r) + 1 + FlagBit(r)
        BY <1>0, <3>3, CountUp
      <3>5. Cardinality(At(r, RefPcs)) \in Nat
        BY OwnersBounded
      <3> DEFINE c == Cardinality(At(r, RefPcs))
      <3>6. Owners(r) = c
        BY <2>3, <3>5 DEF Owners
      <3>7. FlagBit(r) \in Nat
        BY FlagNumbers DEF FlagBit
      <3>8. refCount'[r] = c + 1 + FlagBit(r)
        BY <1>6, <2>5, <3>4, <3>6
      <3> HIDE DEF c
      <3>9. refCount'[r] = 1 + c + FlagBit(r)
        BY <3>5, <3>7, <3>8 DEF c
      <3> QED
        BY <2>2, <3>2, <3>9 DEF c
    <2> QED
      BY <1>6, <2>4, <2>5
  <1>11. TicksLatest' /\ TicksApart'
    <2>1. pc'[t] \in TickPlaces /\ pc[t] \in TickPlaces
      BY <1>1, <1>6 DEF TickPlaces, CreatePcs
    <2>2. \A s : Alive(s)' => Alive(s)
      <3>1. ~Alive(r)'
        BY <1>5, <1>6 DEF Alive
      <3>2. \A s : <<s, zoneId'[s]>> \in known => s \in Slots
        BY <1>0 DEF TypeOK, Ids
      <3> QED
        BY <1>6, <3>1, <3>2 DEF Alive
    <2> QED
      BY <1>0, <1>6, <2>1, <2>2, TicksStill
  <1>12. Range(jobQueue'[r]) \subseteq {zoneId'[r]} \ {0}
    <2>1. Range(jobQueue[r]) \subseteq {zoneId[r]} \ {0}
      BY <1>0 DEF JobsOfOwnZone
    <2> QED
      BY <1>1, <1>3, <1>6, <2>1
  <1> QED
    BY <1>7, <1>8, <1>9, <1>10, <1>11, <1>12, HandlerInv

\* The interlocked And opens the slot with the references that were taken
\* meanwhile; then a pinned thread may be chosen.
LEMMA OpenInv ==
  ASSUME ZoneIInv, TypeOK', NEW t \in Threads, CreateOpen(t) \/ SetPinned(t)
  PROVE  ZoneIInv'
PROOF
  <1> USE DEF zoneVars, mgrVars, tickVars, appVars
  <1>0. /\ TypeOK /\ CountExact /\ TicksLatest /\ TicksApart /\ JobsOfOwnZone
        /\ CreationHeld
    BY DEF ZoneIInv
  <1>1. /\ pc[t] \in {"crOpen", "crPin"} /\ pc[t] \in HandlerPcs
        /\ pc[t] \in CreatePcs
        /\ pc[t] \in ClosedPcs <=> pc[t] = "crOpen"
    BY DEF CreateOpen, SetPinned, HandlerPcs, CreatePcs, ClosedPcs
  <1>2. PICK r \in Slots : r = Slot(t)
    BY <1>0, OnType
  <1>3. /\ on[t][1] = r /\ on[t] = <<r, lastId[r]>> /\ after[t] = "idle"
        /\ ~slotFree[r] /\ lastId[r] > 0 /\ lastId[r] \in Lives
        /\ Closed(r) <=> pc[t] = "crOpen"
        /\ \A u \in Threads : u # t /\ pc[u] \in HandlerPcs => on[u][1] # r
        /\ zoneId[r] = lastId[r] /\ jobZoneId[r] = lastId[r] /\ jobValid[r] = 1
        /\ \A i \in Lives : <<r, i>> \in known <=>
             0 < i /\ i <= lastId[r] /\ (i = lastId[r] => pc[t] \notin CreatePcs)
    BY <1>1, <1>2, HandlerAt
  <1>4. \A i \in Lives : <<r, i>> \in known /\ <<r, i>> \notin destroyed => i = lastId[r]
    BY <1>0 DEF CreationHeld
  <1>5. /\ UNCHANGED <<zoneId, jobZoneId, jobValid, jobQueue, slotFree, lastId,
                       known, destroyed, port, timerQ, zoneQueue, on, after>>
        /\ \A s \in Slots : s # r => refCount'[s] = refCount[s]
        /\ pc'[t] \in {"crQueue", "crPin"}
        /\ \A u \in Threads : u # t => pc'[u] = pc[u]
        /\ \/ pc[t] = "crOpen" /\ refCount'[r] = refCount[r] % RELEASE_FLAG
           \/ pc[t] = "crPin" /\ refCount' = refCount
    BY <1>0, <1>2 DEF CreateOpen, SetPinned, Goto, TypeOK
  <1>6. HandlerStep(t, r)
    BY <1>1, <1>3, <1>5 DEF HandlerStep, HandlerPcs, CreatePcs, RefPcs
  <1>7. SlotInOrder(t, r)
    <2>1. pc'[t] \in CreatePcs /\ pc'[t] \notin {"push", "crAcquire"}
      BY <1>5 DEF CreatePcs
    <2> QED
      BY <1>1, <1>3, <1>5, <2>1 DEF SlotInOrder
  <1>8. ThreadsInOrder(t, r)
    BY <1>3, <1>4, <1>5
       DEF ThreadsInOrder, LatestPcs, CreatePcs, ClosedPcs
  <1>9. refCount'[r] = Creation(r)' + Cardinality(At(r, RefPcs)) + FlagBit(r)'
    <2>1. ~Closed(r)'
      BY <1>3, <1>5, <1>6, HandlersMove DEF ClosedPcs
    <2>2. FlagBit(r)' = 0
      BY <2>1 DEF FlagBit
    <2>3. \A s : s = r => Creation(s)' = Creation(s)
      <3>1. \A s : /\ At(s, {"crAcquire", "crInc"})' = At(s, {"crAcquire", "crInc"})
                   /\ At(s, {"dzCheck"})' = At(s, {"dzCheck"})
        BY <1>1, <1>5 DEF At, Slot
      <3> QED
        BY <1>5, <3>1 DEF Creation
    <2>4. refCount'[r] = Owners(r)
      <3>1. CASE pc[t] = "crOpen"
        BY <1>0, <1>5, <3>1, FlagMeaning
      <3>2. CASE pc[t] = "crPin"
        <4>1. FlagBit(r) = 0 /\ Owners(r) \in Nat
          BY <1>3, <3>2, OwnersBounded DEF FlagBit
        <4> QED
          BY <1>0, <1>5, <3>2, <4>1 DEF CountExact
      <3> QED
        BY <1>1, <3>1, <3>2
    <2>5. Owners(r) \in Nat /\ Owners(r) = Creation(r) + Cardinality(At(r, RefPcs))
      BY OwnersBounded DEF Owners
    <2> QED
      BY <2>2, <2>3, <2>4, <2>5
  <1>10. TicksLatest' /\ TicksApart'
    <2>1. pc'[t] \in TickPlaces /\ pc[t] \in TickPlaces
      BY <1>1, <1>5 DEF TickPlaces, CreatePcs
    <2>2. \A s : Alive(s)' => Alive(s)
      BY <1>5 DEF Alive
    <2> QED
      BY <1>0, <1>5, <2>1, <2>2, TicksStill
  <1>11. Range(jobQueue'[r]) \subseteq {zoneId'[r]} \ {0}
    BY <1>0, <1>5 DEF JobsOfOwnZone
  <1> QED
    BY <1>6, <1>7, <1>8, <1>9, <1>10, <1>11, HandlerInv

\* The id is returned and the first tick asked for: the zone comes alive.
LEMMA FirstTickInv ==
  ASSUME ZoneIInv, TypeOK', NEW t \in Threads, FirstTick(t)
  PROVE  ZoneIInv'
PROOF
  <1> USE DEF zoneVars, mgrVars, tickVars, appVars
  <1>0. /\ TypeOK /\ CountExact /\ TicksLatest /\ TicksApart /\ JobsOfOwnZone
        /\ CreationHeld
    BY DEF ZoneIInv
  <1>1. /\ pc[t] = "crQueue" /\ pc[t] \in HandlerPcs /\ pc[t] \in CreatePcs
        /\ pc[t] \notin ClosedPcs /\ pc[t] \in TickPlaces
    BY DEF FirstTick, HandlerPcs, CreatePcs, ClosedPcs, TickPlaces
  <1>2. PICK r \in Slots : r = Slot(t)
    BY <1>0, OnType
  <1>3. /\ on[t][1] = r /\ on[t] = <<r, lastId[r]>> /\ after[t] = "idle"
        /\ ~slotFree[r] /\ lastId[r] > 0 /\ lastId[r] \in Lives /\ ~Closed(r)
        /\ \A u \in Threads : u # t /\ pc[u] \in HandlerPcs => on[u][1] # r
        /\ zoneId[r] = lastId[r] /\ jobZoneId[r] = lastId[r] /\ jobValid[r] = 1
        /\ \A i \in Lives : <<r, i>> \in known <=>
             0 < i /\ i <= lastId[r] /\ (i = lastId[r] => pc[t] \notin CreatePcs)
    BY <1>1, <1>2, HandlerAt
  <1>4. /\ Asked(t, <<r, lastId[r]>>) /\ known' = known \cup {<<r, lastId[r]>>}
        /\ pc'[t] \in {"idle", "crWake"}
        /\ pc'[t] = "crWake" => on'[t] = on[t]
        /\ \A u \in Threads : u # t => pc'[u] = pc[u] /\ on'[u] = on[u]
        /\ UNCHANGED <<refCount, zoneId, jobZoneId, jobValid, jobQueue, slotFree,
                       lastId, destroyed, after>>
    <2>1. Asked(t, on[t])
      BY <1>0, Asking
    <2>2. /\ known' = known \cup {on[t]}
          /\ Idle(t) \/ (Goto(t, "crWake") /\ on' = on)
      BY <1>0, Asking
    <2>3. UNCHANGED <<refCount, zoneId, jobZoneId, jobValid, jobQueue, slotFree,
                      lastId, destroyed, after>>
      BY DEF FirstTick
    <2> QED
      BY <1>0, <1>3, <2>1, <2>2, <2>3 DEF Idle, Goto, TypeOK
  <1>5. lastId[r] \in Int /\ (\A i \in Lives : i \in Int) /\ 1 \in Lives
    BY <1>0, <1>2, <1>3, ZoneBoundsAssumption DEF TypeOK, Lives
  <1>6. <<r, lastId[r]>> \notin known /\ <<r, lastId[r]>> \notin destroyed
    <2>1. <<r, lastId[r]>> \notin known
      BY <1>1, <1>3, <1>5
    <2> QED
      BY <1>0, <2>1 DEF TypeOK
  <1>7. HandlerStep(t, r)
    BY <1>1, <1>3, <1>4 DEF HandlerStep, HandlerPcs, CreatePcs, RefPcs
  <1>8. pc'[t] \notin HandlerPcs /\ pc'[t] \notin CreatePcs /\ pc'[t] \notin ClosedPcs
        /\ pc'[t] \notin TickPlaces /\ pc'[t] \notin {"push", "crAcquire"}
    BY <1>4 DEF HandlerPcs, CreatePcs, ClosedPcs, TickPlaces
  <1>9. \A i \in Lives : <<r, i>> \in known' <=> 0 < i /\ i <= lastId[r]
    BY <1>1, <1>3, <1>4, <1>5
  <1>10. SlotInOrder(t, r)
    BY <1>3, <1>4, <1>8, <1>9 DEF SlotInOrder
  <1>11. Used(r)'
    BY <1>2, <1>3, <1>5, <1>9 DEF Used
  <1>12. ThreadsInOrder(t, r)
    <2>1. \A i \in Lives : <<r, i>> \in known' /\ <<r, i>> \notin destroyed
                             => i = lastId[r]
      BY <1>0, <1>4 DEF CreationHeld
    <2> QED
      BY <1>3, <1>4, <1>8, <1>11, <2>1
         DEF ThreadsInOrder, LatestPcs
  <1>13. refCount'[r] = Creation(r)' + Cardinality(At(r, RefPcs)) + FlagBit(r)'
    <2>1. ~Closed(r)'
      BY <1>3, <1>4, <1>7, <1>8, HandlersMove
    <2>2. FlagBit(r)' = 0 /\ FlagBit(r) = 0
      BY <1>3, <2>1 DEF FlagBit
    <2>3. \A s : s = r => Creation(s)' = 1 /\ Creation(s) = 1
      <3>1. \A s : s = r => /\ At(s, {"crAcquire", "crInc"})' = {}
                            /\ At(s, {"crAcquire", "crInc"}) = {}
        BY <1>1, <1>3, <1>4 DEF At, Slot, HandlerPcs, CreatePcs
      <3> QED
        BY <1>3, <1>4, <1>5, <1>6, <3>1 DEF Creation
    <2>4. Cardinality(At(r, RefPcs)) \in Nat
      BY OwnersBounded
    <2>5. refCount[r] = Creation(r) + Cardinality(At(r, RefPcs)) + FlagBit(r)
      BY <1>0 DEF CountExact, Owners
    <2> QED
      BY <1>4, <2>2, <2>3, <2>4, <2>5
  <1>14. TicksLatest' /\ TicksApart'
    <2>1. \A s \in Slots : s # r => (Alive(s)' => Alive(s))
      BY <1>4 DEF Alive
    <2>2. HandsOn(t, r)
      BY <1>1, <1>2, <1>4, <1>8, <1>11, <2>1 DEF HandsOn
    <2> QED
      BY <1>0, <1>4, <2>2, TicksAsked
  <1>15. Range(jobQueue'[r]) \subseteq {zoneId'[r]} \ {0}
    BY <1>0, <1>4 DEF JobsOfOwnZone
  <1> QED
    BY <1>7, <1>10, <1>12, <1>13, <1>14, <1>15, HandlerInv

\* A slot is taken for the next zone after the last tick of the one before.
LEMMA PopIndexInv ==
  ASSUME ZoneIInv, TypeOK', CarefulReuse, NEW t \in Threads, NEW r \in Slots,
         PopIndex(t, r)
  PROVE  ZoneIInv'
PROOF
  <1> USE DEF zoneVars, mgrVars, tickVars, appVars
  <1>0. /\ TypeOK /\ CountExact /\ TicksLatest /\ TicksApart /\ JobsOfOwnZone
        /\ HandlerAlone /\ IdsIssued /\ ZoneInSlot /\ OnZone
    BY DEF ZoneIInv
  <1>1. pc[t] = "idle" /\ slotFree[r] /\ lastId[r] \in Lives /\ lastId[r] + 1 \in Lives
        /\ lastId[r] + 1 > 0 /\ lastId[r] \in Int
    BY <1>0, ZoneBoundsAssumption DEF PopIndex, TypeOK, Lives
  <1>2. ~Ticking(r)
    BY <1>0, TicksMeaning DEF PopIndex, TicksApart
  <1>3. ~Somebody(r, TickPlaces) /\ ~OnPort(r) /\ ~(timerQ[r] > 0) /\ ~InQueue(r)
    BY <1>2 DEF Ticking
  <1>4. Closed(r) /\ ~Somebody(r, HandlerPcs)
    BY <1>0, <1>1 DEF Closed, HandlerAlone
  <1>5. /\ \A u \in Threads : on[u][1] = r => pc[u] \notin HeldPcs /\ pc[u] # "dzCheck"
        /\ \A i : <<r, i>> \in known => <<r, i>> \in destroyed
    BY <1>4, ClosedQuiet
  <1>6. \A u \in Threads : on[u][1] = r =>
          pc[u] \notin HandlerPcs /\ pc[u] \notin TickPlaces /\ pc[u] \notin LatestPcs
    <2>1. \A p \in LatestPcs : p \in TickPlaces
      BY DEF LatestPcs, TickPlaces
    <2>2. \A u \in Threads : on[u][1] = r =>
            pc[u] \notin HandlerPcs /\ pc[u] \notin TickPlaces
      BY <1>3, <1>4 DEF Somebody, Slot
    <2> QED
      BY <2>1, <2>2
  <1>7. zoneId[r] = 0 /\ \A i \in Lives : <<r, i>> \in known <=> 0 < i /\ i <= lastId[r]
    <2>1. ~Somebody(r, CreatePcs)
      BY <1>4 DEF Somebody, HandlerPcs
    <2> QED
      BY <1>0, <1>1, <2>1 DEF ZoneInSlot, IdsIssued
  <1>8. /\ UNCHANGED <<refCount, zoneId, jobZoneId, jobValid, jobQueue, known,
                       destroyed, port, timerQ, zoneQueue, after>>
        /\ slotFree'[r] = FALSE /\ lastId'[r] = lastId[r] + 1
        /\ \A s \in Slots : s # r => slotFree'[s] = slotFree[s] /\ lastId'[s] = lastId[s]
        /\ pc'[t] = "crAcquire" /\ on'[t] = <<r, lastId'[r]>>
        /\ \A u \in Threads : u # t => pc'[u] = pc[u] /\ on'[u] = on[u]
    BY <1>0 DEF PopIndex, Goto, TypeOK
  <1>9. HandlerStep(t, r)
    BY <1>1, <1>6, <1>8 DEF HandlerStep, HandlerPcs, CreatePcs, RefPcs
  <1>10. pc'[t] \in CreatePcs /\ pc'[t] \in ClosedPcs /\ pc'[t] \in HandlerPcs
         /\ pc'[t] \in TickPlaces
    BY <1>8 DEF HandlerPcs, CreatePcs, ClosedPcs, TickPlaces
  <1>11. SlotInOrder(t, r)
    <2>1. \A i \in Lives : i \in Int
      BY ZoneBoundsAssumption DEF Lives
    <2>2. \A i \in Lives : <<r, i>> \in known' <=>
            0 < i /\ i <= lastId'[r] /\ (i = lastId'[r] => pc'[t] \notin CreatePcs)
      BY <1>1, <1>7, <1>8, <1>10, <2>1
    <2> QED
      BY <1>1, <1>7, <1>8, <2>2 DEF SlotInOrder
  <1>12. ThreadsInOrder(t, r)
    <2>1. after[t] = "idle"
      BY <1>0 DEF OnZone
    <2>2. \A u \in Threads : on[u][1] = r => pc[u] # "pjPush"
      BY <1>5 DEF HeldPcs, RefPcs
    <2> QED
      BY <1>5, <1>6, <1>8, <1>10, <2>1, <2>2 DEF ThreadsInOrder
  <1>13. refCount'[r] = Creation(r)' + Cardinality(At(r, RefPcs)) + FlagBit(r)'
    <2>1. Creation(r)' = 0 /\ Creation(r) = 0
      BY <1>7, <1>8 DEF Creation
    <2>2. Closed(r)' /\ (Used(r)' <=> Used(r))
      BY <1>8, <1>9, <1>10, HandlersMove DEF Used
    <2>3. FlagBit(r)' = FlagBit(r)
      BY <1>4, <2>2 DEF FlagBit
    <2> QED
      BY <1>0, <1>8, <2>1, <2>3 DEF CountExact, Owners
  <1>14. TicksLatest'
    <2>1. \A s : Used(s)' <=> Used(s)
      BY <1>8 DEF Used
    <2>2. \A s \in Slots : /\ \A i \in Lives : port[<<s, i>>] > 0 => s # r
                           /\ timerQ[s] > 0 => s # r
      BY <1>3 DEF OnPort
    <2>3. \A p \in Pinned : \A i \in DOMAIN zoneQueue[p] :
             zoneQueue[p][i][1] # r /\ zoneQueue[p][i][1] \in Slots
      <3>1. ASSUME NEW p \in Pinned, NEW i \in DOMAIN zoneQueue[p]
            PROVE  zoneQueue[p][i][1] \in Slots
        <4>1. zoneQueue[p] \in Seq(Ids)
          BY <1>0 DEF TypeOK
        <4>2. zoneQueue[p][i] \in Ids
          BY <4>1
        <4> QED
          BY <4>2 DEF Ids
      <3> QED
        BY <1>3, <3>1 DEF InQueue
    <2>4. \A s \in Slots :
             /\ \A i \in Lives : port'[<<s, i>>] > 0 => i = lastId'[s] /\ Used(s)'
             /\ timerQ'[s] > 0 => Used(s)'
      BY <1>0, <1>8, <2>1, <2>2 DEF TicksLatest
    <2>5. ASSUME NEW p \in Pinned, NEW i \in DOMAIN zoneQueue[p]
          PROVE  /\ zoneQueue[p][i][2] = lastId'[zoneQueue[p][i][1]]
                 /\ <<zoneQueue[p][i][1], 1>> \in known
      BY <1>0, <1>8, <2>3 DEF TicksLatest, Used
    <2> QED
      BY <1>8, <2>4, <2>5 DEF TicksLatest, Used
  <1>15. TicksApart'
    <2>1. \A s : (OnPort(s)' <=> OnPort(s)) /\ (InQueue(s)' <=> InQueue(s))
      BY <1>8 DEF OnPort, InQueue
    <2>2. \A s : Alive(s)' <=> Alive(s)
      BY <1>8 DEF Alive
    <2>3. \A s : s # r => (Somebody(s, TickPlaces)' <=> Somebody(s, TickPlaces))
      BY <1>1, <1>8 DEF Somebody, Slot, TickPlaces, CreatePcs
    <2>4. Somebody(r, TickPlaces)'
      BY <1>8, <1>10 DEF Somebody, Slot
    <2>5. \A s \in Slots : OnePlace(s)' /\ (Alive(s)' => Ticking(s)')
      BY <1>0, <1>3, <1>8, <2>1, <2>2, <2>3, <2>4 DEF TicksApart, OnePlace, Ticking
    <2>6. ASSUME NEW s \in Slots, NEW u \in Threads, NEW v \in Threads,
                 pc'[u] \in TickPlaces, pc'[v] \in TickPlaces,
                 on'[u][1] = s, on'[v][1] = s
          PROVE  u = v
      <3>1. CASE s = r
        BY <1>6, <1>8, <2>6, <3>1
      <3>2. CASE s # r
        BY <1>0, <1>8, <2>6, <3>2 DEF TicksApart, OnceThere, Slot
      <3> QED
        BY <3>1, <3>2
    <2>7. \A s \in Slots : OnceThere(s)'
      BY <1>0, <1>8, <2>6 DEF TicksApart, OnceThere, Slot
    <2> QED
      BY <2>5, <2>7 DEF TicksApart
  <1>16. Range(jobQueue'[r]) \subseteq {zoneId'[r]} \ {0}
    BY <1>0, <1>8 DEF JobsOfOwnZone
  <1> QED
    BY <1>9, <1>11, <1>12, <1>13, <1>14, <1>15, <1>16, HandlerInv

-----------------------------------------------------------------------------
(* The invariant.                                                           *)

LEMMA InitIInv == Init => ZoneIInv
PROOF
  <1> SUFFICES ASSUME Init PROVE ZoneIInv
    OBVIOUS
  <1>1. TypeOK
    BY InitTypes
  <1>2. \A t \in Threads : pc[t] = "idle" /\ after[t] = "idle"
    BY DEF Init
  <1>3. \A s \in Slots : /\ refCount[s] = 0 /\ zoneId[s] = 0 /\ jobQueue[s] = <<>>
                         /\ slotFree[s] = TRUE /\ lastId[s] = 0 /\ timerQ[s] = 0
                         /\ \A i \in Lives : port[<<s, i>>] = 0
    BY DEF Init, Ids
  <1>4. known = {} /\ destroyed = {} /\ \A p \in Pinned : DOMAIN zoneQueue[p] = {}
    BY DEF Init
  <1>5. \A s : /\ ~Somebody(s, HandlerPcs) /\ ~Somebody(s, CreatePcs)
               /\ ~Somebody(s, TickPlaces)
    BY <1>2 DEF Somebody, HandlerPcs, CreatePcs, TickPlaces
  <1>6. HandlerAlone
    BY <1>2 DEF HandlerAlone, At, Somebody, HandlerPcs, CreatePcs
  <1>7. IdsIssued
    BY <1>3, <1>4, ZoneBoundsAssumption DEF IdsIssued, Lives
  <1>8. ZoneInSlot
    BY <1>3 DEF ZoneInSlot
  <1>9. OnZone
    BY <1>2 DEF OnZone, LatestPcs, CreatePcs
  <1>10. CreationHeld
    BY <1>2, <1>4 DEF CreationHeld
  <1>11. HeldOpen
    BY <1>2 DEF HeldOpen, HeldPcs, RefPcs
  <1>12. CountExact
    <2> SUFFICES ASSUME NEW s \in Slots PROVE refCount[s] = Owners(s) + FlagBit(s)
      BY DEF CountExact
    <2>1. FlagBit(s) = 0
      BY <1>4 DEF FlagBit, Used
    <2>2. At(s, RefPcs) = {}
      BY <1>2 DEF At, RefPcs
    <2>3. Creation(s) = 0
      BY <1>3 DEF Creation
    <2>4. Owners(s) = 0
      BY <2>2, <2>3, FS_EmptySet DEF Owners
    <2> QED
      BY <1>3, <2>1, <2>4
  <1>13. TicksLatest
    BY <1>3, <1>4 DEF TicksLatest
  <1>14. TicksApart
    <2>1. \A s \in Slots : ~OnPort(s) /\ ~InQueue(s) /\ ~(timerQ[s] > 0) /\ ~Alive(s)
      <3>1. \A s \in Slots : ~OnPort(s) /\ ~(timerQ[s] > 0)
        <4>1. ~(0 > 0)
          OBVIOUS
        <4>2. \A s \in Slots : ~(timerQ[s] > 0)
          BY <1>3, <4>1
        <4>3. \A s \in Slots : \A i \in Lives : ~(port[<<s, i>>] > 0)
          BY <1>3, <4>1
        <4> QED
          BY <4>2, <4>3 DEF OnPort
      <3>2. \A s : ~InQueue(s)
        BY <1>4 DEF InQueue
      <3>3. \A s : ~Alive(s)
        BY <1>4 DEF Alive
      <3> QED
        BY <3>1, <3>2, <3>3
    <2>2. \A s \in Slots : OnceThere(s)
      BY <1>2, <1>3, <1>4 DEF OnceThere, TickPlaces, CreatePcs
    <2> QED
      BY <1>5, <2>1, <2>2 DEF TicksApart, OnePlace
  <1>15. JobsOfOwnZone
    <2>1. Range(<<>>) = {}
      BY DEF Range
    <2> QED
      BY <1>3, <2>1 DEF JobsOfOwnZone
  <1> QED
    BY <1>1, <1>6, <1>7, <1>8, <1>9, <1>10, <1>11, <1>12, <1>13, <1>14, <1>15
       DEF ZoneIInv

\* What a thread inside the library does next keeps the invariant.
LEMMA LibStepInv ==
  ASSUME ZoneIInv, TypeOK', NEW t \in Threads, LibStep(t)
  PROVE  ZoneIInv'
PROOF
  <1>1. CASE DecreaseRefcount(t)
    BY <1>1, DecrementInv
  <1>2. CASE ReleaseCas(t)
    BY <1>2, ReleaseCasInv, EndInv
  <1>3. CASE Release(t) \/ PushIndex(t)
    BY <1>3, ReleaseInv
  <1>4. CASE Acquire(t) \/ CreateIncrement(t)
    BY <1>4, AcquireInv
  <1>5. CASE CreateOpen(t) \/ SetPinned(t)
    BY <1>5, OpenInv
  <1>6. CASE FirstTick(t)
    BY <1>6, FirstTickInv
  <1>7. CASE FirstWake(t) \/ TickWake(t)
    BY <1>7, WakesQuiet
  <1>8. CASE DestroyZone(t)
    BY <1>8, DestroyInv
  <1>9. CASE PushJobIncrement(t)
    BY <1>9, IncrementInv DEF PushJobIncrement
  <1>10. CASE ExecuteIncrement(t)
    BY <1>10, IncrementInv DEF ExecuteIncrement
  <1>11. CASE PinnedIncrement(t)
    BY <1>11, IncrementInv DEF PinnedIncrement
  <1>12. CASE PushJobCheck(t) \/ ExecuteCheck(t) \/ PinnedCheck(t)
    BY <1>12, ChecksQuiet
  <1>13. CASE PushJob(t) \/ TickJobs(t)
    BY <1>13, JobInv
  <1>14. CASE TickToTimer(t) \/ TickLate(t)
    BY <1>14, NextTickInv
  <1> QED
    BY <1>1, <1>2, <1>3, <1>4, <1>5, <1>6, <1>7, <1>8, <1>9, <1>10, <1>11,
       <1>12, <1>13, <1>14 DEF LibStep

LEMMA NextZoneIInv ==
  ASSUME CarefulReuse, ZoneIInv, [Next]_vars
  PROVE  ZoneIInv'
PROOF
  <1>0. TypeOK /\ TypeOK'
    BY NextTypes DEF ZoneIInv
  <1>1. ASSUME NEW t \in Threads, LibStep(t) PROVE ZoneIInv'
    BY <1>0, <1>1, LibStepInv
  <1>2. ASSUME NEW t \in Threads, CallStep(t) PROVE ZoneIInv'
    BY <1>0, <1>2, PopIndexInv, CallDestroyInv, CallPushJobInv DEF CallStep
  <1>3. ASSUME NEW t \in Threads, PinnedWake(t) PROVE ZoneIInv'
    <2>1. CASE zoneQueue[t] = <<>>
      BY <1>0, <1>3, <2>1, EndInv
    <2>2. CASE zoneQueue[t] # <<>>
      <3>1. t \in Pinned /\ zoneQueue[t] \in Seq(Ids)
        BY <1>0, <1>3 DEF PinnedWake, TypeOK
      <3>2. Head(zoneQueue[t]) \in Ids
        BY <2>2, <3>1
      <3> QED
        BY <1>0, <1>3, <2>2, <3>2, TakeInv
    <2> QED
      BY <2>1, <2>2
  <1>4. ASSUME NEW t \in Workers, NEW id \in Ids, GetZoneUpdate(t, id)
        PROVE  ZoneIInv'
    BY <1>0, <1>4, TakeInv DEF Threads
  <1>5. ASSUME NEW s \in Slots, TimerPop(s) PROVE ZoneIInv'
    <2>1. <<s, 0>> \in Ids /\ <<s, 0>>[1] = s
      BY ZoneBoundsAssumption DEF Ids, Lives
    <2>2. Timer \in Threads
      BY DEF Threads
    <2>3. PICK id \in Ids : id[1] = s
      BY <2>1
    <2> QED
      BY <1>0, <1>5, <2>2, <2>3, TakeInv
  <1>6. CASE TimerStep
    <2>1. Timer \in Threads
      BY DEF Threads
    <2>2. CASE TimerValid
      BY <1>0, <2>1, <2>2, EndInv
    <2>3. CASE TimerIncrement
      BY <1>0, <2>1, <2>3, IncrementInv DEF TimerIncrement
    <2>4. CASE TimerCheck
      BY <1>0, <2>1, <2>4, ChecksQuiet
    <2>5. CASE TimerPost
      BY <1>0, <2>1, <2>5, NextTickInv
    <2>6. CASE TimerWake
      BY <1>0, <2>1, <2>6, WakesQuiet
    <2> QED
      BY <1>6, <2>2, <2>3, <2>4, <2>5, <2>6 DEF TimerStep
  <1>7. CASE UNCHANGED vars
    <2>1. /\ UNCHANGED <<refCount, zoneId, jobQueue, jobZoneId, jobValid, slotFree,
                         lastId, port, timerQ, zoneQueue, known, destroyed>>
          /\ UNCHANGED <<pc, on, after>>
      BY <1>7 DEF vars, zoneVars, mgrVars, tickVars, appVars
    <2>2. /\ \A s, P : /\ Somebody(s, P)' <=> Somebody(s, P)
                       /\ At(s, P)' = At(s, P)
          /\ \A s : /\ Closed(s)' <=> Closed(s)
                    /\ Used(s)' <=> Used(s)
                    /\ Alive(s)' <=> Alive(s)
      BY <2>1 DEF Somebody, At, Slot, Closed, Used, Alive
    <2>3. HandlerAlone' /\ IdsIssued' /\ ZoneInSlot' /\ OnZone'
      BY <2>1, <2>2 DEF ZoneIInv, HandlerAlone, IdsIssued, ZoneInSlot, OnZone, Slot
    <2>4. CreationHeld' /\ HeldOpen'
      BY <2>1, <2>2 DEF ZoneIInv, CreationHeld, HeldOpen, Slot
    <2>5. CountExact'
      BY <2>1, <2>2 DEF ZoneIInv, CountExact, Owners, FlagBit, Creation
    <2>6. TicksLatest' /\ JobsOfOwnZone'
      BY <2>1, <2>2 DEF ZoneIInv, TicksLatest, JobsOfOwnZone
    <2>7. TicksApart'
      BY <2>1, <2>2 DEF ZoneIInv, TicksApart, OnePlace, OnceThere, Ticking,
                        OnPort, InQueue, Slot
    <2> QED
      BY <1>0, <2>3, <2>4, <2>5, <2>6, <2>7 DEF ZoneIInv
  <1> QED
    BY <1>1, <1>2, <1>3, <1>4, <1>5, <1>6, <1>7 DEF Next

\* Every variable keeps its type; the count of a slot stays in its word, also
\* when CreateZone uses a slot again too early.
THEOREM Types == Spec => []TypeOK
PROOF
  <1>1. Init => TypeOK
    BY InitTypes
  <1>2. TypeOK /\ [Next]_vars => TypeOK'
    BY NextTypes
  <1> QED
    BY <1>1, <1>2, PTL DEF Spec

\* The invariant of the zone layer, when CreateZone takes a slot only after
\* its last tick.
THEOREM ZoneInductive ==
  ASSUME CarefulReuse
  PROVE  Spec => []ZoneIInv
PROOF
  <1>1. Init => ZoneIInv
    BY InitIInv
  <1>2. ZoneIInv /\ [Next]_vars => ZoneIInv'
    BY NextZoneIInv
  <1> QED
    BY <1>1, <1>2, PTL DEF Spec

\* The count below the release flag is the number of owners: the creation,
\* from CreateZone to DestroyZone, and the threads between IncreaseRefcount
\* and DecreaseRefcount.
THEOREM RefcountExact ==
  ASSUME CarefulReuse
  PROVE  Spec => []RefcountIsOwners
PROOF
  <1>1. ZoneIInv => RefcountIsOwners
    BY FlagMeaning DEF ZoneIInv, RefcountIsOwners, Owners
  <1> QED
    BY <1>1, ZoneInductive, PTL

\* From the compare-exchange of ReleaseZone to the interlocked And of the next
\* CreateZone nobody runs a tick, pushes a job or asks for a tick on the slot.
THEOREM ReleasedAlone ==
  ASSUME CarefulReuse
  PROVE  Spec => []NobodyOnReleased
PROOF
  <1>1. ZoneIInv => NobodyOnReleased
    <2> SUFFICES ASSUME ZoneIInv, NEW s \in Slots, Flag(refCount[s])
                 PROVE  At(s, {"pjPush", "tick", "tickEnd", "tkWake", "tmPost",
                               "tmWake"}) = {}
      BY DEF NobodyOnReleased
    <2>1. Closed(s)
      BY FlagMeaning DEF ZoneIInv
    <2>2. \A t \in Threads : Slot(t) = s => pc[t] \notin HeldPcs
      BY <2>1 DEF ZoneIInv, HeldOpen
    <2> QED
      BY <2>2 DEF At, HeldPcs, RefPcs
  <1> QED
    BY <1>1, ZoneInductive, PTL

\* A zone is ticked by one thread at a time, and only by a thread that came
\* for this zone: Zone content runs without a lock.
THEOREM OneTicker ==
  ASSUME CarefulReuse
  PROVE  Spec => []TickAlone
PROOF
  <1>1. ZoneIInv => TickAlone
    <2> SUFFICES ASSUME ZoneIInv PROVE TickAlone
      OBVIOUS
    <2>0. TypeOK /\ IdsIssued /\ ZoneInSlot /\ OnZone /\ HeldOpen /\ TicksApart
      BY DEF ZoneIInv
    <2>1. ASSUME NEW s \in Slots PROVE Cardinality(At(s, TickPcs)) <= 1
      <3>1. \A t, u \in At(s, TickPcs) : t = u
        <4>1. \A t, u \in Threads : pc[t] \in TickPlaces /\ pc[u] \in TickPlaces
                /\ Slot(t) = s /\ Slot(u) = s => t = u
          BY <2>0 DEF TicksApart, OnceThere
        <4>2. \A p \in TickPcs : p \in TickPlaces
          BY DEF TickPcs, TickPlaces
        <4> QED
          BY <4>1, <4>2 DEF At
      <3>2. CASE At(s, TickPcs) = {}
        BY <3>2, FS_EmptySet
      <3>3. CASE At(s, TickPcs) # {}
        <4>1. PICK t : At(s, TickPcs) = {t}
          BY <3>1, <3>3
        <4> QED
          BY <4>1, FS_Singleton
      <3> QED
        BY <3>2, <3>3
    <2>2. ASSUME NEW t \in Threads, pc[t] \in TickPcs
          PROVE  zoneId[Slot(t)] = on[t][2]
      <3>1. Slot(t) \in Slots
        BY <2>0, OnType
      <3>2. ~Closed(Slot(t)) /\ on[t][2] = lastId[Slot(t)]
        BY <2>0, <2>2 DEF HeldOpen, HeldPcs, RefPcs, TickPcs, OnZone, LatestPcs
      <3> QED
        BY <2>0, <3>1, <3>2, OpenZone
    <2> QED
      BY <2>1, <2>2 DEF TickAlone, Threads
  <1> QED
    BY <1>1, ZoneInductive, PTL

\* One tick of a zone at most is asked for or running, over the port, the
\* timer, the queues of the pinned threads and the threads; a zone that the
\* content has not destroyed has one.
THEOREM TickNeitherLostNorDoubled ==
  ASSUME CarefulReuse
  PROVE  Spec => []OneTickAtATime
PROOF
  <1>1. ZoneIInv => OneTickAtATime
    BY TicksMeaning DEF ZoneIInv, TicksApart, OneTickAtATime
  <1> QED
    BY <1>1, ZoneInductive, PTL

\* The jobs in a slot were pushed to the zone that is in it: none outlives its
\* zone, and PushJob never reaches the next zone.
THEOREM OwnJobs ==
  ASSUME CarefulReuse
  PROVE  Spec => []JobsOfOwnZone
PROOF
  <1>1. ZoneIInv => JobsOfOwnZone
    BY DEF ZoneIInv
  <1> QED
    BY <1>1, ZoneInductive, PTL
=============================================================================
