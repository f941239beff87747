--------------------------- MODULE ChatLocksProofs ---------------------------
(***************************************************************************)
(* The locks of the chat server, for any number of workers, user slots,    *)
(* accounts and sessions and a field of any size: threads that hold users  *)
(* and sectors never wait for each other in a circle, and a message is     *)
(* heard by those who stood around at one moment.                          *)
(*                                                                         *)
(* Both rest on LocksIInv, which says what the holder of a lock is doing.   *)
(* No circle: a thread that waits for a user without one has no lock; one   *)
(* that has a user waits for the user of a younger session; one that waits  *)
(* for a sector has only sectors that come before it in the order of the    *)
(* locks.  Each lock waited for leads up in that ranking.                   *)
(***************************************************************************)
EXTENDS ChatUsersProofs, WellFoundedInduction

-----------------------------------------------------------------------------
(* The order of the sectors.                                                *)

\* p comes before q, row by row.
Precedes(p, q) == p[2] < q[2] \/ (p[2] = q[2] /\ p[1] < q[1])

\* What a sector is.
LEMMA SectorCoordinates ==
  ASSUME NEW p \in Sectors
  PROVE  /\ p[1] \in Nat /\ p[1] <= FieldWidth - 1 /\ p[2] \in Nat /\ p[2] <= FieldHeight - 1
         /\ FieldWidth \in Nat /\ FieldHeight \in Nat /\ p = <<p[1], p[2]>>
PROOF
  BY FieldAssumption DEF Sectors

\* One row more outweighs all columns.
LEMMA RowOutweighs ==
  ASSUME NEW a \in Nat, NEW b \in Nat, NEW w \in Nat, a < b
  PROVE  a * w + w <= b * w
PROOF
  <1>1. b - a - 1 \in Nat
    OBVIOUS
  <1>2. (b - a - 1) * w >= 0
    BY <1>1
  <1>3. (b - a - 1) * w = b * w - a * w - w
    OBVIOUS
  <1>4. a * w \in Nat /\ b * w \in Nat
    OBVIOUS
  <1> QED
    BY <1>2, <1>3, <1>4

\* The order of the locks is row by row.
LEMMA OrderOfLocks ==
  ASSUME NEW p \in Sectors, NEW q \in Sectors, Precedes(p, q)
  PROVE  LockOrder(p) < LockOrder(q)
PROOF
  <1>1. /\ p[1] \in Nat /\ p[1] <= FieldWidth - 1 /\ p[2] \in Nat
        /\ q[1] \in Nat /\ q[2] \in Nat /\ FieldWidth \in Nat
    BY SectorCoordinates
  <1>2. p[2] * FieldWidth \in Nat /\ q[2] * FieldWidth \in Nat
    BY <1>1
  <1>3. CASE p[2] < q[2]
    <2>1. p[2] * FieldWidth + FieldWidth <= q[2] * FieldWidth
      BY <1>1, <1>3, RowOutweighs
    <2> QED
      BY <1>1, <1>2, <2>1 DEF LockOrder
  <1>4. CASE p[2] = q[2] /\ p[1] < q[1]
    BY <1>1, <1>2, <1>4 DEF LockOrder
  <1> QED
    BY <1>3, <1>4 DEF Precedes

\* Two sectors differ in it.
LEMMA OrderSeparates ==
  ASSUME NEW p \in Sectors, NEW q \in Sectors, p # q
  PROVE  LockOrder(p) < LockOrder(q) \/ LockOrder(q) < LockOrder(p)
PROOF
  <1>1. Precedes(p, q) \/ Precedes(q, p)
    BY SectorCoordinates DEF Precedes
  <1> QED
    BY <1>1, OrderOfLocks

\* It stays below the number of sectors.
LEMMA OrderBounded ==
  ASSUME NEW p \in Sectors
  PROVE  LockOrder(p) \in Nat /\ LockOrder(p) < FieldHeight * FieldWidth
PROOF
  <1>1. /\ p[1] \in Nat /\ p[1] <= FieldWidth - 1 /\ p[2] \in Nat /\ p[2] < FieldHeight
        /\ FieldWidth \in Nat /\ FieldHeight \in Nat
    BY SectorCoordinates
  <1>2. p[2] * FieldWidth \in Nat /\ FieldHeight * FieldWidth \in Nat
    BY <1>1
  <1>3. p[2] * FieldWidth + FieldWidth <= FieldHeight * FieldWidth
    BY <1>1, RowOutweighs
  <1> QED
    BY <1>1, <1>2, <1>3 DEF LockOrder

\* A move locks two sectors, the lower one first.
LEMMA FirstBelowSecond ==
  ASSUME NEW p \in Sectors, NEW q \in Sectors, p # q
  PROVE  /\ FirstOf(p, q) \in Sectors /\ SecondOf(p, q) \in Sectors
         /\ {FirstOf(p, q), SecondOf(p, q)} = {p, q}
         /\ LockOrder(FirstOf(p, q)) < LockOrder(SecondOf(p, q))
PROOF
  <1>1. LockOrder(p) \in Nat /\ LockOrder(q) \in Nat
    BY OrderBounded
  <1> QED
    BY <1>1, OrderSeparates DEF FirstOf, SecondOf

-----------------------------------------------------------------------------
(* The sectors around.                                                      *)

Ascending(s) == \A i, j \in 1 .. Len(s) : i < j => LockOrder(s[i]) < LockOrder(s[j])

\* The cell AroundCell looks at.
CellAt(p, i) == <<p[1] + (i % 3) - 1, p[2] + (i \div 3) - 1>>

\* Sectors in the order of the locks, all of them before the next cell.
Orderly(s, cell) ==
    /\ s \in Seq(Sectors) /\ Ascending(s)
    /\ \A k \in 1 .. Len(s) : Precedes(s[k], cell)

\* A cell that is not inside is left out, and one that is inside is a sector.
LEMMA CellInside ==
  ASSUME NEW p \in Sectors, NEW i \in 0 .. 8
  PROVE  \/ AroundCell(p, i) = <<>>
         \/ AroundCell(p, i) = <<CellAt(p, i)>> /\ CellAt(p, i) \in Sectors
PROOF
  <1>1. /\ p[1] \in Nat /\ p[1] <= FieldWidth - 1 /\ p[2] \in Nat /\ p[2] <= FieldHeight - 1
        /\ FieldWidth \in Nat /\ FieldHeight \in Nat
    BY SectorCoordinates
  <1>2. i % 3 \in 0 .. 2 /\ i \div 3 \in 0 .. 2
    OBVIOUS
  <1>3. CASE AroundCell(p, i) = <<>>
    BY <1>3
  <1>4. CASE AroundCell(p, i) # <<>>
    <2>1. /\ AroundCell(p, i) = <<CellAt(p, i)>>
          /\ i % 3 = 0 => p[1] + (i % 3) - 1 >= 0
          /\ i % 3 = 2 => p[1] + (i % 3) - 1 < FieldWidth
          /\ i \div 3 = 0 => p[2] + (i \div 3) - 1 >= 0
          /\ i \div 3 = 2 => p[2] + (i \div 3) - 1 < FieldHeight
      BY <1>4 DEF AroundCell, CellAt
    <2>2. /\ p[1] + (i % 3) - 1 \in 0 .. FieldWidth - 1
          /\ p[2] + (i \div 3) - 1 \in 0 .. FieldHeight - 1
      BY <2>1, <1>1, <1>2
    <2> QED
      BY <2>1, <2>2 DEF CellAt, Sectors
  <1> QED
    BY <1>3, <1>4

\* One comparison of GetAround keeps the order.
LEMMA OneCell ==
  ASSUME NEW p \in Sectors, NEW i \in 0 .. 8, NEW j \in 1 .. 9, j = i + 1,
         NEW s, Orderly(s, CellAt(p, i)), NEW n \in Nat, Len(s) <= n
  PROVE  LET r == s \o AroundCell(p, i) IN
         /\ Orderly(r, CellAt(p, j)) /\ Len(r) <= n + 1
         /\ \A c : (\E k \in 1 .. Len(s) : s[k] = c) => \E k \in 1 .. Len(r) : r[k] = c
PROOF
  <1>1. Precedes(CellAt(p, i), CellAt(p, j))
    <2>1. p[1] \in Nat /\ p[2] \in Nat
      BY SectorCoordinates
    <2>2. \/ j % 3 = (i % 3) + 1 /\ j \div 3 = i \div 3
          \/ j \div 3 = (i \div 3) + 1
      OBVIOUS
    <2>3. i % 3 \in 0 .. 2 /\ i \div 3 \in 0 .. 2 /\ j % 3 \in 0 .. 2 /\ j \div 3 \in 0 .. 3
      OBVIOUS
    <2> QED
      BY <2>1, <2>2, <2>3 DEF Precedes, CellAt
  <1>2. s \in Seq(Sectors) /\ Len(s) \in Nat
    BY DEF Orderly
  <1>3. ASSUME NEW k \in 1 .. Len(s) PROVE Precedes(s[k], CellAt(p, j))
    <2>1. Precedes(s[k], CellAt(p, i))
      BY <1>3 DEF Orderly
    <2>2. s[k] \in Sectors
      BY <1>2, <1>3
    <2>3. /\ s[k][1] \in Nat /\ s[k][2] \in Nat
          /\ p[1] \in Nat /\ p[2] \in Nat
      BY <2>2, SectorCoordinates
    <2>4. i % 3 \in Nat /\ i \div 3 \in Nat /\ j % 3 \in Nat /\ j \div 3 \in Nat
      OBVIOUS
    <2>5. /\ CellAt(p, i)[1] \in Int /\ CellAt(p, i)[2] \in Int
          /\ CellAt(p, j)[1] \in Int /\ CellAt(p, j)[2] \in Int
      BY <2>3, <2>4 DEF CellAt
    <2> QED
      BY <1>1, <2>1, <2>3, <2>5 DEF Precedes
  <1>4. CASE AroundCell(p, i) = <<>>
    <2>1. s \o AroundCell(p, i) = s
      BY <1>2, <1>4, ConcatEmptySeq
    <2> QED
      BY <1>2, <1>3, <2>1 DEF Orderly
  <1>5. CASE AroundCell(p, i) = <<CellAt(p, i)>> /\ CellAt(p, i) \in Sectors
    <2> DEFINE c == CellAt(p, i)
               r == s \o <<c>>
    <2>1. <<c>> \in Seq(Sectors) /\ Len(<<c>>) = 1 /\ <<c>>[1] = c
      BY <1>5
    <2>2. /\ r \in Seq(Sectors) /\ Len(r) = Len(s) + 1
          /\ \A k \in 1 .. Len(s) : r[k] = s[k]
          /\ r[Len(s) + 1] = c
      <3> HIDE DEF c
      <3> QED
        BY <1>2, <2>1, ConcatProperties
    <2>3. \A k \in 1 .. Len(s) : s[k] \in Sectors /\ Precedes(s[k], c)
      BY <1>2 DEF Orderly
    <2>4. c \in Sectors /\ Precedes(c, CellAt(p, j)) /\ r = s \o AroundCell(p, i)
      BY <1>1, <1>5
    <2>5. Ascending(s)
      BY DEF Orderly
    <2> HIDE DEF r, c
    <2>6. \A k \in 1 .. Len(s) : LockOrder(s[k]) < LockOrder(c)
      BY <2>3, <2>4, OrderOfLocks
    <2>7. Ascending(r)
      <3> SUFFICES ASSUME NEW k \in 1 .. Len(r), NEW l \in 1 .. Len(r), k < l
                   PROVE  LockOrder(r[k]) < LockOrder(r[l])
        BY DEF Ascending
      <3>1. k \in 1 .. Len(s) /\ (l \in 1 .. Len(s) \/ l = Len(s) + 1)
        BY <1>2, <2>2
      <3> QED
        BY <2>2, <2>5, <2>6, <3>1 DEF Ascending
    <2>8. \A k \in 1 .. Len(r) : Precedes(r[k], CellAt(p, j))
      <3> SUFFICES ASSUME NEW k \in 1 .. Len(r) PROVE Precedes(r[k], CellAt(p, j))
        OBVIOUS
      <3>1. k \in 1 .. Len(s) \/ k = Len(s) + 1
        BY <1>2, <2>2
      <3> QED
        BY <1>3, <2>2, <2>4, <3>1
    <2>9. Orderly(r, CellAt(p, j)) /\ Len(r) <= n + 1
      BY <1>2, <2>2, <2>7, <2>8 DEF Orderly
    <2>10. \A d : (\E k \in 1 .. Len(s) : s[k] = d) => \E k \in 1 .. Len(r) : r[k] = d
      BY <1>2, <2>2
    <2> QED
      BY <2>4, <2>9, <2>10
  <1> QED
    BY <1>4, <1>5, CellInside


\* The cell in the middle is the speaker's own.
LEMMA OwnCell ==
  ASSUME NEW p \in Sectors, NEW s \in Seq(Sectors)
  PROVE  \E k \in 1 .. Len(s \o AroundCell(p, 4)) : (s \o AroundCell(p, 4))[k] = p
PROOF
  <1>1. p[1] \in Nat /\ p[2] \in Nat /\ p = <<p[1], p[2]>>
    BY SectorCoordinates
  <1>2. 4 % 3 = 1 /\ 4 \div 3 = 1
    OBVIOUS
  <1>3. AroundCell(p, 4) = <<<<p[1] + 1 - 1, p[2] + 1 - 1>>>>
    BY <1>2 DEF AroundCell
  <1>4. p[1] + 1 - 1 = p[1] /\ p[2] + 1 - 1 = p[2]
    BY <1>1
  <1>5. AroundCell(p, 4) = <<p>>
    BY <1>1, <1>3, <1>4
  <1>6. <<p>> \in Seq(Sectors) /\ Len(<<p>>) = 1 /\ <<p>>[1] = p
    OBVIOUS
  <1>7. /\ Len(s \o <<p>>) = Len(s) + 1 /\ (s \o <<p>>)[Len(s) + 1] = p /\ Len(s) \in Nat
    BY <1>6, ConcatProperties
  <1> QED
    BY <1>5, <1>7

\* The sectors around are at most nine, in the order of the locks, and the
\* speaker's own is among them.
LEMMA AroundOrdered ==
  ASSUME NEW p \in Sectors
  PROVE  /\ GetAround(p) \in Seq(Sectors) /\ Ascending(GetAround(p))
         /\ Len(GetAround(p)) <= 9
         /\ \E k \in 1 .. Len(GetAround(p)) : GetAround(p)[k] = p
PROOF
  <1> DEFINE A0 == AroundCell(p, 0)
             A1 == A0 \o AroundCell(p, 1)
             A2 == A1 \o AroundCell(p, 2)
             A3 == A2 \o AroundCell(p, 3)
             A4 == A3 \o AroundCell(p, 4)
             A5 == A4 \o AroundCell(p, 5)
             A6 == A5 \o AroundCell(p, 6)
             A7 == A6 \o AroundCell(p, 7)
             A8 == A7 \o AroundCell(p, 8)
             Part(s, n) == Orderly(s, CellAt(p, n)) /\ Len(s) <= n
             Own(s) == \E k \in 1 .. Len(s) : s[k] = p
  <1>1. /\ 0 \in 0 .. 8 /\ 1 \in 0 .. 8 /\ 2 \in 0 .. 8 /\ 3 \in 0 .. 8 /\ 4 \in 0 .. 8
        /\ 5 \in 0 .. 8 /\ 6 \in 0 .. 8 /\ 7 \in 0 .. 8 /\ 8 \in 0 .. 8
    OBVIOUS
  <1>2. Part(A0, 1)
    <2>1. Orderly(<<>>, CellAt(p, 0)) /\ Len(<<>>) <= 0
      BY DEF Orderly, Ascending
    <2>2. Orderly(<<>> \o A0, CellAt(p, 1)) /\ Len(<<>> \o A0) <= 0 + 1
      <3>1. 0 \in Nat /\ 1 = 0 + 1 /\ 0 \in 0 .. 8 /\ 1 \in 1 .. 9
        OBVIOUS
      <3> QED
        BY <3>1, <2>1, OneCell
    <2>3. A0 \in Seq(Sectors)
      <3>1. ASSUME NEW c \in Sectors PROVE <<c>> \in Seq(Sectors)
        BY <3>1
      <3>2. <<>> \in Seq(Sectors)
        OBVIOUS
      <3>3. A0 = <<>> \/ (A0 = <<CellAt(p, 0)>> /\ CellAt(p, 0) \in Sectors)
        BY <1>1, CellInside
      <3> HIDE DEF A0
      <3> QED
        BY <3>1, <3>2, <3>3
    <2>4. <<>> \o A0 = A0
      BY <2>3, ConcatEmptySeq
    <2> QED
      BY <2>2, <2>4
  <1>3. GetAround(p) = A8
    BY DEF GetAround
  <1> HIDE DEF A0
  <1>4. Part(A1, 2)
    BY <1>1, <1>2, OneCell
  <1> HIDE DEF A1
  <1>5. Part(A2, 3)
    BY <1>1, <1>4, OneCell
  <1> HIDE DEF A2
  <1>6. Part(A3, 4)
    BY <1>1, <1>5, OneCell
  <1> HIDE DEF A3
  <1>7. Part(A4, 5) /\ Own(A4)
    <2>1. A3 \in Seq(Sectors)
      BY <1>6 DEF Orderly
    <2>2. Own(A4)
      BY <2>1, OwnCell
    <2>3. Part(A4, 5)
      BY <1>1, <1>6, OneCell
    <2> QED
      BY <2>2, <2>3
  <1> HIDE DEF A4
  <1>8. Part(A5, 6) /\ Own(A5)
    BY <1>1, <1>7, OneCell
  <1> HIDE DEF A5
  <1>9. Part(A6, 7) /\ Own(A6)
    BY <1>1, <1>8, OneCell
  <1> HIDE DEF A6
  <1>10. Part(A7, 8) /\ Own(A7)
    BY <1>1, <1>9, OneCell
  <1> HIDE DEF A7
  <1>11. Part(A8, 9) /\ Own(A8)
    BY <1>1, <1>10, OneCell
  <1> QED
    BY <1>3, <1>11 DEF Orderly

-----------------------------------------------------------------------------
(* What every step leaves to the other threads.                             *)

\* A step of thread t moves no other thread and touches no user another holds.
Moves(t) == Others(t) /\ Guarded(t)

\* At every place but "idle" a thread's slot is its own to look at.
LEMMA MovesAlone ==
  ASSUME ChatIInv, NEW t \in Threads, NEW f, at' = [at EXCEPT ![t] = f]
  PROVE  at'[t] = f /\ Others(t)
PROOF
  BY ThreadFacts DEF Others

\* What a thread with a user's lock, or at it, has found.
LEMMA PlaceFacts ==
  ASSUME ChatIInv, NEW t \in Threads
  PROVE  /\ at[t].pc \in {"create", "lock"} => at[t].slot \in Users
         /\ HoldsSlot(t) => at[t].slot \in Users /\ lock[at[t].slot] = t
         /\ at[t].pc \in LeavePcs => at[t].victim \in Users /\ lock[at[t].victim] = t
         /\ at[t].pc \in AnswerPcs \cup MessagePcs => HoldsSlot(t)
         /\ \A u \in Users : DOMAIN user[u] = {"sid", "state", "acct", "pos"}
         /\ DOMAIN user = Users /\ DOMAIN lock = Users
PROOF
  BY ThreadFacts
     DEF InPlace, Locked, HoldsSlot, AnswerPcs, MessagePcs, LeavePcs, ChatIInv, UsersTypeOK

\* No step of a handler does either.
LEMMA StepMoves ==
  ASSUME ChatIInv, NEW t \in Threads, Step(t)
  PROVE  Moves(t)
PROOF
  <1> DEFINE w == at[t].slot
             v == at[t].victim
  <1>1. ASSUME CreateWaitLogin(t) \/ TooLate(t) \/ ReleaseFound(t) \/ Refuse(t) \/ FullReturns(t)
        PROVE Moves(t)
    <2>1. CASE CreateWaitLogin(t)
      BY <2>1, MovesAlone, PlaceFacts DEF CreateWaitLogin, Return, Moves, Guarded
    <2>2. CASE TooLate(t)
      BY <2>2, MovesAlone, PlaceFacts DEF TooLate, Return, Moves, Guarded, userVars
    <2>3. CASE ReleaseFound(t)
      BY <2>3, MovesAlone, PlaceFacts DEF ReleaseFound, Return, Moves, Guarded, BeginRelease, Lock
    <2>4. CASE Refuse(t)
      BY <2>4, MovesAlone, PlaceFacts DEF Refuse, Enter, Moves, Guarded, BeginRelease, Lock
    <2>5. CASE FullReturns(t)
      BY <2>5, MovesAlone, PlaceFacts DEF FullReturns, Return, Moves, Guarded, userVars
    <2> QED
      BY <1>1, <2>1, <2>2, <2>3, <2>4, <2>5
  <1>2. ASSUME LeaveSector(t) \/ RemoveLoginMap(t) \/ RemoveSidToUserMap(t) \/ PushIndex(t)
        PROVE  Moves(t)
    <2>1. CASE LeaveSector(t)
      BY <2>1, MovesAlone DEF LeaveSector, Goto, Moves, Guarded, userVars, Others
    <2>2. CASE RemoveLoginMap(t)
      BY <2>2, MovesAlone DEF RemoveLoginMap, Goto, Moves, Guarded, Others
    <2>3. CASE RemoveSidToUserMap(t)
      BY <2>3, MovesAlone, PlaceFacts DEF RemoveSidToUserMap, Goto, Moves, Guarded, Others, LeavePcs
    <2>4. CASE PushIndex(t)
      BY <2>4, MovesAlone, PlaceFacts
         DEF PushIndex, Unlock, Return, Moves, Guarded, Others, LeavePcs
    <2> QED
      BY <1>2, <2>1, <2>2, <2>3, <2>4
  <1>3. ASSUME \/ (\E a \in Accounts : RequestLogin(t, a)) \/ AddLoginMap(t) \/ MeetOther(t)
               \/ GiveUp(t) \/ FindOther(t) \/ LockOther(t) \/ IncreaseUserCnt(t)
        PROVE  Moves(t)
    <2>1. CASE \E a \in Accounts : RequestLogin(t, a)
      BY <2>1, MovesAlone, PlaceFacts DEF RequestLogin, Handles, Enter, Return, Moves, Guarded
    <2>2. CASE AddLoginMap(t)
      BY <2>2, MovesAlone, PlaceFacts
         DEF AddLoginMap, Enter, Goto, Lock, Moves, Guarded, Others, AnswerPcs
    <2>3. CASE MeetOther(t)
      <3>1. Others(t)
        BY <2>3, ThreadFacts DEF MeetOther, Others
      <3>2. Guarded(t)
        BY <2>3, PlaceFacts DEF MeetOther, Enter, Lock, Guarded
      <3> QED
        BY <3>1, <3>2 DEF Moves
    <2>4. CASE GiveUp(t)
      BY <2>4, MovesAlone, PlaceFacts DEF GiveUp, BeginRelease, Moves, Guarded, Others, userVars
    <2>5. CASE FindOther(t)
      <3>1. Others(t)
        BY <2>5, ThreadFacts DEF FindOther, Others
      <3>2. Guarded(t)
        BY <2>5 DEF FindOther, Guarded, userVars
      <3> QED
        BY <3>1, <3>2 DEF Moves
    <2>6. CASE LockOther(t)
      BY <2>6, MovesAlone, ThreadFacts, PlaceFacts
         DEF LockOther, Lock, BeginRelease, Moves, Guarded, Others, InPlace
    <2>7. CASE IncreaseUserCnt(t)
      BY <2>7, MovesAlone, PlaceFacts DEF IncreaseUserCnt, Unlock, Return, Moves, Guarded, AnswerPcs
    <2> QED
      BY <1>3, <2>1, <2>2, <2>3, <2>4, <2>5, <2>6, <2>7
  <1>4. ASSUME NEW p \in Sectors, EnterField(t, p) \/ MoveLocksFirst(t, p)
        PROVE  Moves(t)
    <2>1. CASE EnterField(t, p)
      BY <2>1, MovesAlone, PlaceFacts DEF EnterField, InTurn, Handles, Enter, Return, Moves, Guarded
    <2>2. CASE MoveLocksFirst(t, p)
      <3>1. Others(t)
        BY <2>2, ThreadFacts DEF MoveLocksFirst, Others
      <3>2. Guarded(t)
        BY <2>2, PlaceFacts DEF MoveLocksFirst, InTurn, Handles, Enter, Lock, Guarded
      <3> QED
        BY <3>1, <3>2 DEF Moves
    <2> QED
      BY <1>4, <2>1, <2>2
  <1>5. ASSUME \/ StayInSector(t) \/ RemoveAndAddSector(t) \/ LockAround(t) \/ CopySector(t)
               \/ RequestHeartbeat(t)
        PROVE  Moves(t)
    <2>1. CASE StayInSector(t)
      BY <2>1, MovesAlone DEF StayInSector, Return, Moves, Guarded, userVars
    <2>2. CASE RemoveAndAddSector(t)
      BY <2>2, MovesAlone, PlaceFacts
         DEF RemoveAndAddSector, Unlock, Return, Moves, Guarded, MessagePcs
    <2>3. CASE LockAround(t)
      <3>1. Others(t)
        BY <2>3, ThreadFacts DEF LockAround, Others
      <3>2. Guarded(t)
        BY <2>3, PlaceFacts DEF LockAround, InTurn, Handles, Enter, Lock, Guarded
      <3> QED
        BY <3>1, <3>2 DEF Moves
    <2>4. CASE CopySector(t)
      BY <2>4, MovesAlone, PlaceFacts
         DEF CopySector, Unlock, Return, Moves, Guarded, Others, MessagePcs
    <2>5. CASE RequestHeartbeat(t)
      BY <2>5, MovesAlone DEF RequestHeartbeat, Return, Moves, Guarded, userVars
    <2> QED
      BY <1>5, <2>1, <2>2, <2>3, <2>4, <2>5
  <1> QED
    BY <1>1, <1>2, <1>3, <1>4, <1>5 DEF Step

\* The locals but the place.
SameLocals(t) ==
    /\ at'[t].call = at[t].call /\ at'[t].sid = at[t].sid /\ at'[t].slot = at[t].slot
    /\ at'[t].left = at[t].left /\ at'[t].seen = at[t].seen /\ at'[t].dest = at[t].dest

\* A thread goes to another place.
LEMMA GoesFrame ==
  ASSUME ChatIInv, NEW t \in Threads, NEW l, Goto(t, l)
  PROVE  /\ at'[t].pc = l /\ SameLocals(t)
         /\ at'[t].victim = at[t].victim /\ at'[t].other = at[t].other
PROOF
  BY ThreadFacts DEF Goto, FrameOK, Idle, SameLocals

\* A thread begins a release.
LEMMA ReleaseFrame ==
  ASSUME ChatIInv, NEW t \in Threads, NEW v, BeginRelease(t, v)
  PROVE  /\ at'[t].pc \in {"leaveSector", "leaveLogin", "leaveSid"} /\ SameLocals(t)
         /\ at'[t].victim = v /\ at'[t].other = user[v].sid
PROOF
  <1>1. at'[t] = Releasing(at[t], v) /\ FrameOK(at[t])
    BY ThreadFacts DEF BeginRelease
  <1> QED
    BY <1>1 DEF Releasing, FrameOK, Idle, SameLocals

\* A thread returns.
LEMMA ReturnFrame ==
  ASSUME ChatIInv, NEW t \in Threads, Return(t)
  PROVE  /\ at'[t] = Idle /\ at'[t].pc = "idle" /\ at'[t].left = 0 /\ at'[t].seen = EmptyList
PROOF
  BY ThreadFacts DEF Return, Idle

\* The lock of u is free and now the thread's, or it was not taken.
LEMMA LocksSlot ==
  ASSUME ChatIInv, NEW t \in Threads, NEW u \in Users, Lock(t, u)
  PROVE  lock'[u] = t /\ lock[u] = NoThread /\ \A v \in Users \ {u} : lock'[v] = lock[v]
PROOF
  BY PlaceFacts DEF Lock

-----------------------------------------------------------------------------
(* The locks of the users.                                                  *)

\* What thread t has done to them.
HoldsOn(t) ==
    \A u \in Users : /\ lock'[u] \in {lock[u], t, NoThread}
                     /\ lock'[u] = t => HoldsUser(t, u)'

\* What one thread does to them is all there is to look at.
LEMMA HoldsOnEnough ==
  ASSUME ChatIInv, UsersLocked, NEW t \in Threads, Others(t), HoldsOn(t)
  PROVE  UsersLocked'
PROOF
  <1> SUFFICES ASSUME NEW u \in Users, NEW r \in Threads, lock'[u] = r PROVE HoldsUser(r, u)'
    BY DEF UsersLocked
  <1>1. CASE r = t
    BY <1>1 DEF HoldsOn
  <1>2. CASE r # t
    <2>1. lock[u] = r /\ at'[r] = at[r]
      BY <1>2, ThreadFacts DEF HoldsOn, Others
    <2>2. HoldsUser(r, u)
      BY <2>1 DEF UsersLocked
    <2> QED
      BY <2>1, <2>2 DEF HoldsUser, HoldsSlot
  <1> QED
    BY <1>1, <1>2

\* A handler that has taken no lock yet holds none.
LEMMA HoldsNone ==
  ASSUME ChatIInv, UsersLocked, NEW t \in Threads, at[t].pc \in {"idle", "create", "full", "lock"}
  PROVE  /\ \A u \in Users : lock[u] # t
         /\ UNCHANGED lock => HoldsOn(t)
PROOF
  <1>1. \A u \in Users : lock[u] # t
    BY DEF UsersLocked, HoldsUser, HoldsSlot, AnswerPcs, MessagePcs, LeavePcs
  <1> QED
    BY <1>1 DEF HoldsOn

\* It takes the lock of its slot and goes on under it.
LEMMA HoldsFirst ==
  ASSUME ChatIInv, UsersLocked, NEW t \in Threads, at[t].pc = "lock", Lock(t, at[t].slot),
         \A u \in Users : u = at[t].slot => HoldsUser(t, u)'
  PROVE  HoldsOn(t)
PROOF
  <1>1. /\ at[t].slot \in Users /\ lock'[at[t].slot] = t
        /\ \A v \in Users \ {at[t].slot} : lock'[v] = lock[v] /\ lock[v] # t
    BY PlaceFacts, LocksSlot, HoldsNone
  <1> QED
    BY <1>1 DEF HoldsOn


\* Steps that take a user's lock first.
LEMMA HoldsTaking ==
  ASSUME ChatIInv, UsersLocked, NEW t \in Threads,
         \/ TooLate(t) \/ FullReturns(t) \/ CreateWaitLogin(t) \/ ReleaseFound(t) \/ Refuse(t)
         \/ (\E a \in Accounts : RequestLogin(t, a)) \/ MeetOther(t)
         \/ (\E p \in Sectors : EnterField(t, p) \/ MoveLocksFirst(t, p))
         \/ StayInSector(t) \/ RequestHeartbeat(t)
         \/ (AddLoginMap(t) \/ LockAround(t)) /\ at[t].pc = "lock"
  PROVE  HoldsOn(t)
PROOF
  <1>1. CASE \/ TooLate(t) \/ FullReturns(t) \/ CreateWaitLogin(t) \/ StayInSector(t)
             \/ RequestHeartbeat(t) \/ (\E a \in Accounts : RequestLogin(t, a))
             \/ (\E p \in Sectors : EnterField(t, p))
             \/ (ReleaseFound(t) /\ UNCHANGED lock)
    BY <1>1, HoldsNone DEF TooLate, FullReturns, CreateWaitLogin, StayInSector, RequestHeartbeat,
       RequestLogin, EnterField, ReleaseFound, InTurn, Handles, Enter, userVars
  <1>2. CASE Refuse(t) \/ (ReleaseFound(t) /\ Lock(t, at[t].slot) /\ BeginRelease(t, at[t].slot))
    <2>1. at[t].pc = "lock" /\ Lock(t, at[t].slot) /\ BeginRelease(t, at[t].slot)
      BY <1>2 DEF Refuse, Enter, ReleaseFound
    <2>2. at'[t].pc \in LeavePcs /\ at'[t].victim = at[t].slot
      BY <2>1, ReleaseFrame DEF LeavePcs
    <2> QED
      BY <2>1, <2>2, HoldsFirst DEF HoldsUser
  <1>3. CASE MeetOther(t) \/ (AddLoginMap(t) /\ at[t].pc = "lock")
    <2>1. at[t].pc = "lock" /\ Lock(t, at[t].slot)
      BY <1>3 DEF MeetOther, Enter, AddLoginMap
    <2>2. at'[t].pc \in AnswerPcs /\ at'[t].slot = at[t].slot
      <3>1. CASE MeetOther(t)
        BY <3>1, ThreadFacts DEF MeetOther, FrameOK, Idle, AnswerPcs
      <3>2. CASE AddLoginMap(t)
        BY <3>2, GoesFrame DEF AddLoginMap, SameLocals, AnswerPcs
      <3> QED
        BY <1>3, <3>1, <3>2
    <2> QED
      BY <2>1, <2>2, HoldsFirst DEF HoldsUser, HoldsSlot
  <1>4. CASE (\E p \in Sectors : MoveLocksFirst(t, p)) \/ (LockAround(t) /\ at[t].pc = "lock")
    <2>1. at[t].pc = "lock" /\ Lock(t, at[t].slot)
      BY <1>4 DEF MoveLocksFirst, InTurn, Handles, Enter, LockAround
    <2>2. at'[t].pc \in MessagePcs /\ at'[t].slot = at[t].slot
      <3>1. CASE \E p \in Sectors : MoveLocksFirst(t, p)
        BY <3>1, ThreadFacts DEF MoveLocksFirst, FrameOK, Idle, MessagePcs
      <3>2. CASE LockAround(t)
        <4> DEFINE n == at[t].left + 1
                   l == IF n = Len(Around(t)) THEN "copy" ELSE "lockAround"
                   m == IF n = Len(Around(t)) THEN 1 ELSE n
        <4>1. at' = [at EXCEPT ![t].pc = l, ![t].left = m] /\ l \in MessagePcs
          BY <3>2 DEF LockAround, MessagePcs
        <4> HIDE DEF l, m
        <4> QED
          BY <4>1, ThreadFacts DEF FrameOK, Idle
      <3> QED
        BY <1>4, <3>1, <3>2
    <2> QED
      BY <2>1, <2>2, HoldsFirst DEF HoldsUser, HoldsSlot
  <1> QED
    BY <1>1, <1>2, <1>3, <1>4 DEF ReleaseFound

\* One sector is copied, and more are to come.
CopiesOn(t) ==
    at' = [at EXCEPT ![t].seen = Copied(Around(t)[at[t].left], at[t].seen),
                     ![t].left = at[t].left + 1]

\* Steps under a user's lock.
LEMMA HoldsWorking ==
  ASSUME ChatIInv, UsersLocked, NEW t \in Threads,
         \/ LeaveSector(t) \/ RemoveLoginMap(t) \/ RemoveSidToUserMap(t) \/ PushIndex(t)
         \/ GiveUp(t) \/ FindOther(t) \/ LockOther(t) \/ IncreaseUserCnt(t)
         \/ RemoveAndAddSector(t) \/ CopySector(t)
         \/ (AddLoginMap(t) \/ LockAround(t)) /\ at[t].pc # "lock"
  PROVE  HoldsOn(t)
PROOF
  <1>0. /\ \A u \in Users : lock[u] = t => HoldsUser(t, u)
        /\ \A u \in Users : lock[u] \in Threads \cup {NoThread}
    BY DEF UsersLocked, ChatIInv, UsersTypeOK
  <1>1. CASE LeaveSector(t) \/ RemoveLoginMap(t) \/ RemoveSidToUserMap(t)
    <2>1. PICK l \in {"leaveLogin", "leaveSid", "leaveSlot"} : Goto(t, l)
      BY <1>1 DEF LeaveSector, RemoveLoginMap, RemoveSidToUserMap
    <2>2. at[t].pc \in LeavePcs /\ at'[t].pc \in LeavePcs /\ lock' = lock
      BY <1>1, <2>1, GoesFrame
         DEF LeaveSector, RemoveLoginMap, RemoveSidToUserMap, LeavePcs, userVars
    <2>3. at'[t].slot = at[t].slot /\ at'[t].victim = at[t].victim
      BY <2>1, GoesFrame DEF SameLocals
    <2>4. \A u \in Users : HoldsUser(t, u) => HoldsUser(t, u)'
      BY <2>2, <2>3 DEF HoldsUser, HoldsSlot, AnswerPcs, MessagePcs, LeavePcs
    <2> QED
      BY <1>0, <2>2, <2>4 DEF HoldsOn
  <1>2. CASE PushIndex(t)
    <2>1. /\ at[t].pc = "leaveSlot" /\ at[t].victim \in Users
          /\ lock' = [lock EXCEPT ![at[t].victim] = NoThread]
      BY <1>2, PlaceFacts DEF PushIndex, Unlock, LeavePcs
    <2>2. \A u \in Users : lock'[u] = t => lock[u] = t /\ u # at[t].victim
      BY <2>1, PlaceFacts, ThreadFacts
    <2>3. ASSUME NEW u \in Users, lock'[u] = t PROVE HoldsUser(t, u)'
      <3>1. HoldsSlot(t) /\ at[t].slot = u /\ at[t].victim # u
        BY <1>0, <2>2, <2>3 DEF HoldsUser
      <3>2. at[t].call = "answer" /\ at[t].other # at[t].sid
        BY <2>1, <3>1, ThreadFacts DEF InPlace, LeavePcs
      <3>3. at' = [at EXCEPT ![t].pc = "add", ![t].victim = NoUser, ![t].other = 0]
        BY <1>2, <3>2 DEF PushIndex
      <3>4. at'[t].pc = "add" /\ at'[t].slot = u
        BY <3>1, <3>3, ThreadFacts DEF FrameOK, Idle
      <3> QED
        BY <3>4 DEF HoldsUser, HoldsSlot, AnswerPcs
    <2>4. \A u \in Users : lock'[u] \in {lock[u], NoThread}
      BY <2>1, PlaceFacts
    <2> QED
      BY <2>3, <2>4 DEF HoldsOn
  <1>3. CASE GiveUp(t)
    <2>1. at[t].pc = "add" /\ BeginRelease(t, at[t].slot) /\ lock' = lock
      BY <1>3 DEF GiveUp, userVars
    <2>2. at'[t].pc \in LeavePcs /\ at'[t].victim = at[t].slot
      BY <2>1, ReleaseFrame DEF LeavePcs
    <2>3. \A u \in Users : HoldsUser(t, u) => HoldsUser(t, u)'
      BY <2>1, <2>2 DEF HoldsUser, LeavePcs
    <2> QED
      BY <1>0, <2>1, <2>3 DEF HoldsOn
  <1>4. CASE FindOther(t) \/ (LockOther(t) /\ UNCHANGED lock)
    <2>1. at[t].pc \in {"findOther", "lockOther"} /\ lock' = lock
      BY <1>4 DEF FindOther, LockOther, userVars
    <2>2. at'[t].pc \in {"add", "lockOther"} /\ at'[t].slot = at[t].slot
      <3>1. CASE FindOther(t)
        <4> DEFINE l == IF sidToUser[at[t].other] = NoUser THEN "add" ELSE "lockOther"
                   o == IF sidToUser[at[t].other] = NoUser THEN 0 ELSE at[t].other
                   f == [at[t] EXCEPT !.pc = l, !.other = o, !.victim = sidToUser[at[t].other]]
        <4>1. at' = [at EXCEPT ![t] = f] /\ l \in {"add", "lockOther"}
          BY <3>1 DEF FindOther
        <4> HIDE DEF l, o
        <4>2. f.pc = l /\ f.slot = at[t].slot
          BY ThreadFacts DEF FrameOK, Idle
        <4> HIDE DEF f
        <4> QED
          BY <4>1, <4>2, ThreadFacts
      <3>2. CASE LockOther(t) /\ UNCHANGED lock
        <4>1. at[t].victim \in Users /\ lock[at[t].victim] = NoThread
          BY <3>2, AnswerFacts DEF LockOther
        <4>2. ~Lock(t, at[t].victim)
          BY <3>2, <4>1, LocksSlot, ThreadFacts
        <4>3. at' = [at EXCEPT ![t].pc = "add", ![t].victim = NoUser, ![t].other = 0]
          BY <3>2, <4>2 DEF LockOther
        <4> QED
          BY <4>3, ThreadFacts DEF FrameOK, Idle
      <3> QED
        BY <1>4, <3>1, <3>2
    <2>3. \A u \in Users : HoldsUser(t, u) => HoldsUser(t, u)'
      BY <2>1, <2>2 DEF HoldsUser, HoldsSlot, AnswerPcs, LeavePcs
    <2> QED
      BY <1>0, <2>1, <2>3 DEF HoldsOn
  <1>5. CASE LockOther(t) /\ ~UNCHANGED lock
    <2> DEFINE v == at[t].victim
    <2>1. /\ at[t].pc = "lockOther" /\ v \in Users /\ user[v].sid = at[t].other
          /\ Lock(t, v) /\ BeginRelease(t, v)
      BY <1>5, AnswerFacts DEF LockOther
    <2>2. at'[t].pc \in LeavePcs /\ at'[t].victim = v /\ at'[t].slot = at[t].slot
      BY <2>1, ReleaseFrame DEF LeavePcs, SameLocals
    <2>3. v # at[t].slot
      BY <2>1, LocksSlot, AnswerFacts, ThreadFacts
    <2>4. \A u \in Users : u = v \/ HoldsUser(t, u) => HoldsUser(t, u)'
      BY <2>1, <2>2, <2>3 DEF HoldsUser, HoldsSlot, LeavePcs
    <2>5. \A u \in Users : lock'[u] \in {lock[u], t} /\ (u # v => lock'[u] = lock[u])
      BY <2>1, LocksSlot
    <2> QED
      BY <1>0, <2>4, <2>5 DEF HoldsOn
  <1>6. CASE \/ IncreaseUserCnt(t) \/ RemoveAndAddSector(t)
             \/ (CopySector(t) /\ Unlock(at[t].slot) /\ Return(t))
    <2>1. Unlock(at[t].slot) /\ at[t].pc \in AnswerPcs \cup MessagePcs /\ at[t].pc \notin LeavePcs
      BY <1>6 DEF IncreaseUserCnt, RemoveAndAddSector, CopySector, AnswerPcs, MessagePcs, LeavePcs
    <2>2. at[t].slot \in Users /\ lock' = [lock EXCEPT ![at[t].slot] = NoThread]
      BY <2>1, PlaceFacts DEF Unlock
    <2>3. \A u \in Users : u # at[t].slot => ~HoldsUser(t, u)
      BY <2>1 DEF HoldsUser
    <2>4. \A u \in Users : lock'[u] \in {lock[u], NoThread} /\ lock'[u] # t
      BY <1>0, <2>2, <2>3, PlaceFacts, ThreadFacts
    <2> QED
      BY <2>4 DEF HoldsOn
  <1>7. CASE \/ (AddLoginMap(t) /\ at[t].pc # "lock") \/ (LockAround(t) /\ at[t].pc # "lock")
             \/ (CopySector(t) /\ UNCHANGED lock /\ CopiesOn(t))
    <2>1. lock' = lock /\ at[t].pc \in AnswerPcs \cup MessagePcs /\ at[t].pc \notin LeavePcs
      BY <1>7
         DEF AddLoginMap, LockAround, CopySector, InTurn, Handles, Enter, AnswerPcs, MessagePcs,
           LeavePcs
    <2>2. at'[t].pc \in AnswerPcs \cup MessagePcs /\ at'[t].slot = at[t].slot
      <3>1. CASE AddLoginMap(t)
        BY <3>1, GoesFrame DEF AddLoginMap, SameLocals, AnswerPcs
      <3>2. CASE LockAround(t)
        <4> DEFINE n == at[t].left + 1
                   l == IF n = Len(Around(t)) THEN "copy" ELSE "lockAround"
                   m == IF n = Len(Around(t)) THEN 1 ELSE n
        <4>1. at' = [at EXCEPT ![t].pc = l, ![t].left = m] /\ l \in MessagePcs
          BY <3>2 DEF LockAround, MessagePcs
        <4> HIDE DEF l, m
        <4> QED
          BY <4>1, ThreadFacts DEF FrameOK, Idle
      <3>3. CASE CopySector(t) /\ CopiesOn(t)
        <4> DEFINE e == Copied(Around(t)[at[t].left], at[t].seen)
        <4>1. at' = [at EXCEPT ![t].seen = e, ![t].left = at[t].left + 1] /\ at[t].pc = "copy"
          BY <3>3 DEF CopySector, CopiesOn
        <4> HIDE DEF e
        <4> QED
          BY <4>1, ThreadFacts DEF FrameOK, Idle, MessagePcs
      <3> QED
        BY <1>7, <3>1, <3>2, <3>3
    <2>3. \A u \in Users : HoldsUser(t, u) => HoldsUser(t, u)'
      BY <2>1, <2>2 DEF HoldsUser, HoldsSlot
    <2> QED
      BY <1>0, <2>1, <2>3 DEF HoldsOn
  <1> QED
    BY <1>1, <1>2, <1>3, <1>4, <1>5, <1>6, <1>7 DEF CopySector, CopiesOn


-----------------------------------------------------------------------------
(* Handlers begin.                                                          *)

\* A thread begins a handler, and waits for a lock if there is work.
Waits(t) ==
    /\ at[t].pc = "idle" /\ Others(t)
    /\ UNCHANGED <<user, lock, sessionIdList, readers, writer>>
    /\ at'[t].pc \in {"idle", "create", "full", "lock"}
    /\ at'[t].left = 0 /\ at'[t].seen = EmptyList

\* So do the callbacks and the answers of redis.
LEMMA BeginsWaiting ==
  ASSUME ChatIInv, NEW s, NEW t \in Threads,
         \/ t = Acceptor /\ (AcceptSession(s) \/ AcceptFull(s))
         \/ ReceiveMessage(t, s) \/ ReceiveRelease(t, s)
         \/ \E m \in requests : ReceiveAnswer(t, m)
  PROVE  Waits(t)
PROOF
  <1>1. CASE t = Acceptor /\ (AcceptSession(s) \/ AcceptFull(s))
    <2>1. CASE AcceptSession(s)
      BY <1>1, <2>1, ThreadFacts DEF AcceptSession, Waits, Others, Idle, fieldVars
    <2>2. CASE AcceptFull(s)
      BY <1>1, <2>2, ThreadFacts DEF AcceptFull, Waits, Others, Idle, fieldVars, userVars
    <2> QED
      BY <1>1, <2>1, <2>2
  <1>2. ASSUME NEW call, NEW r, NEW a, Begin(t, call, r, a)
        PROVE  /\ Others(t) /\ at'[t].pc \in {"idle", "lock"}
               /\ at'[t].left = 0 /\ at'[t].seen = EmptyList
    <2> DEFINE f == [Idle EXCEPT !.pc = "lock", !.call = call, !.sid = r,
                                 !.slot = sidToUser[r], !.acct = a]
    <2>1. f.pc = "lock" /\ f.left = 0 /\ f.seen = EmptyList
      BY DEF Idle
    <2>2. Idle.pc = "idle" /\ Idle.left = 0 /\ Idle.seen = EmptyList
      BY DEF Idle
    <2> HIDE DEF f
    <2>3. at'[t] \in {Idle, f} /\ Others(t)
      BY <1>2, ThreadFacts DEF Begin, Others, f
    <2> QED
      BY <2>1, <2>2, <2>3
  <1>3. CASE ReceiveMessage(t, s) \/ ReceiveRelease(t, s) \/ \E m \in requests : ReceiveAnswer(t, m)
    <2>1. /\ at[t].pc = "idle" /\ UNCHANGED <<fieldVars, userVars>>
          /\ \E call, r, a : Begin(t, call, r, a)
      BY <1>3 DEF ReceiveMessage, ReceiveRelease, ReceiveAnswer
    <2> QED
      BY <1>2, <2>1 DEF Waits, fieldVars, userVars
  <1> QED
    BY <1>1, <1>3

\* The timeout thread begins a release under the lock of the user.
LEMMA BeginsTimeout ==
  ASSUME ChatIInv, NEW u \in Users, Timeout(u)
  PROVE  /\ at[TimeoutThread].pc = "idle" /\ Others(TimeoutThread)
         /\ TimeoutThread \in Threads
         /\ UNCHANGED <<user, sessionIdList, readers, writer>> /\ Lock(TimeoutThread, u)
         /\ at'[TimeoutThread].pc \in LeavePcs /\ at'[TimeoutThread].victim = u
         /\ at'[TimeoutThread].left = 0 /\ at'[TimeoutThread].seen = EmptyList
PROOF
  <1> DEFINE g == [Idle EXCEPT !.call = "timeout", !.sid = user[u].sid, !.slot = u]
             f == Releasing(g, u)
  <1>1. TimeoutThread \in Threads
    BY DEF Threads
  <1>2. /\ at[TimeoutThread].pc = "idle" /\ at' = [at EXCEPT ![TimeoutThread] = f]
        /\ Lock(TimeoutThread, u) /\ UNCHANGED <<user, fieldVars>>
    BY DEF Timeout
  <1>3. /\ f.pc \in LeavePcs /\ f.victim = u /\ f.left = 0 /\ f.seen = EmptyList
    BY DEF Releasing, Idle, LeavePcs
  <1> HIDE DEF f
  <1>4. at'[TimeoutThread] = f /\ Others(TimeoutThread)
    BY <1>1, <1>2, MovesAlone
  <1> QED
    BY <1>1, <1>2, <1>3, <1>4 DEF fieldVars

\* The other steps leave threads, users and locks alone.
LEMMA NoThreadMoves ==
  ASSUME \/ \E s \in Sids : SessionEnds(s)
         \/ \E m \in requests : AuthFails(m)
         \/ UNCHANGED vars
  PROVE  UNCHANGED <<user, lock, sessionIdList, readers, writer, at>>
PROOF
  BY DEF SessionEnds, AuthFails, vars, fieldVars, userVars

\* The steps there are.
LEMMA NextCases ==
  ASSUME ChatIInv, [Next]_vars
  PROVE  \/ \E t \in Threads : Step(t) \/ Waits(t)
         \/ \E u \in Users : Timeout(u)
         \/ UNCHANGED <<user, lock, sessionIdList, readers, writer, at>>
PROOF
  <1>1. Acceptor \in Threads /\ Workers \subseteq Threads
    BY DEF Threads
  <1>2. ASSUME NEW s \in Sids, AcceptSession(s) \/ AcceptFull(s) PROVE Waits(Acceptor)
    BY <1>1, <1>2, BeginsWaiting
  <1>3. ASSUME NEW s \in Sids, NEW t \in Workers, ReceiveRelease(t, s) \/ ReceiveMessage(t, s)
        PROVE  t \in Threads /\ Waits(t)
    BY <1>1, <1>3, BeginsWaiting
  <1>4. ASSUME NEW m \in requests, NEW t \in Workers, ReceiveAnswer(t, m)
        PROVE  t \in Threads /\ Waits(t)
    BY <1>1, <1>4, BeginsWaiting
  <1> QED
    BY <1>1, <1>2, <1>3, <1>4, NoThreadMoves DEF Next

\* The holder of a user's lock works on the user.
LEMMA UsersLockedNext == ChatIInv /\ UsersLocked /\ [Next]_vars => UsersLocked'
PROOF
  <1> SUFFICES ASSUME ChatIInv, UsersLocked, [Next]_vars PROVE UsersLocked'
    OBVIOUS
  <1>1. ASSUME NEW t \in Threads, Step(t) PROVE UsersLocked'
    <2>1. HoldsOn(t)
      <3>1. CASE at[t].pc = "lock"
        BY <1>1, <3>1, HoldsTaking, HoldsWorking DEF Step
      <3>2. CASE at[t].pc # "lock"
        BY <1>1, <3>2, HoldsTaking, HoldsWorking DEF Step
      <3> QED
        BY <3>1, <3>2
    <2> QED
      BY <1>1, <2>1, StepMoves, HoldsOnEnough DEF Moves
  <1>2. ASSUME NEW t \in Threads, Waits(t) PROVE UsersLocked'
    BY <1>2, HoldsNone, HoldsOnEnough DEF Waits
  <1>3. ASSUME NEW u \in Users, Timeout(u) PROVE UsersLocked'
    <2> DEFINE T == TimeoutThread
    <2>1. /\ T \in Threads /\ at[T].pc = "idle" /\ Others(T)
          /\ at'[T].pc \in LeavePcs /\ at'[T].victim = u
          /\ lock'[u] = T /\ \A v \in Users \ {u} : lock'[v] = lock[v]
      BY <1>3, BeginsTimeout, LocksSlot
    <2> HIDE DEF T
    <2>2. \A v \in Users : lock[v] # T
      BY <2>1, HoldsNone
    <2>3. HoldsOn(T)
      BY <2>1, <2>2 DEF HoldsOn, HoldsUser
    <2> QED
      BY <2>1, <2>3, HoldsOnEnough
  <1>4. CASE UNCHANGED <<user, lock, sessionIdList, readers, writer, at>>
    BY <1>4 DEF UsersLocked, HoldsUser, HoldsSlot
  <1> QED
    BY <1>1, <1>2, <1>3, <1>4, NextCases


-----------------------------------------------------------------------------
(* The locks of the sectors.                                                *)

\* Where the user of a handler past its Lock stands, and what is around.
LEMMA StandsSomewhere ==
  ASSUME ChatIInv, NEW t \in Threads, at[t].slot \in Users, StateOf(t) = "INFIELD"
  PROVE  /\ user[at[t].slot].pos \in Sectors
         /\ Around(t) \in Seq(Sectors) /\ Ascending(Around(t))
         /\ Len(Around(t)) \in 1 .. 9
         /\ \A k \in 1 .. Len(Around(t)) : Around(t)[k] \in Sectors
         /\ \A k, l \in 1 .. Len(Around(t)) : Around(t)[k] = Around(t)[l] => k = l
PROOF
  <1>1. user[at[t].slot].pos \in Sectors
    BY DEF ChatIInv, UsersMapped, LoggedIn, StateOf, InSectorRange
  <1>2. /\ Around(t) \in Seq(Sectors) /\ Ascending(Around(t))
        /\ Len(Around(t)) <= 9 /\ \E k \in 1 .. Len(Around(t)) : TRUE
    BY <1>1, AroundOrdered DEF Around
  <1>3. Len(Around(t)) \in 1 .. 9
    <2> DEFINE n == Len(Around(t))
    <2>1. n \in Nat /\ n <= 9
      BY <1>2
    <2>2. PICK k : k \in 1 .. n
      BY <1>2
    <2> HIDE DEF n
    <2>3. n \in 1 .. 9
      BY <2>1, <2>2
    <2> QED
      BY <2>3 DEF n
  <1>4. \A k \in 1 .. Len(Around(t)) : Around(t)[k] \in Sectors
    BY <1>2
  <1>5. ASSUME NEW k \in 1 .. Len(Around(t)), NEW l \in 1 .. Len(Around(t)),
               Around(t)[k] = Around(t)[l]
        PROVE  k = l
    <2>1. LockOrder(Around(t)[k]) \in Nat /\ LockOrder(Around(t)[l]) \in Nat
      BY <1>4, OrderBounded
    <2> QED
      BY <1>2, <1>3, <1>5, <2>1 DEF Ascending
  <1> QED
    BY <1>1, <1>2, <1>3, <1>4, <1>5

\* The sectors of a thread that does not move stay its own.
LEMMA OthersAround ==
  ASSUME ChatIInv, NEW t \in Threads, Moves(t), NEW r \in Threads \ {t}
  PROVE  /\ at'[r] = at[r]
         /\ HoldsSlot(r) => user'[at[r].slot] = user[at[r].slot] /\ Around(r)' = Around(r)
         /\ \A p : Writes(r, p)' <=> Writes(r, p)
         /\ \A p : Reads(r, p)' <=> Reads(r, p)
         /\ Counted(r) => Counted(r)'
PROOF
  <1>1. at'[r] = at[r]
    BY DEF Moves, Others
  <1>2. HoldsSlot(r) => user'[at[r].slot] = user[at[r].slot]
    BY PlaceFacts, ThreadFacts DEF Moves, Guarded
  <1>3. HoldsSlot(r) => Around(r)' = Around(r)
    BY <1>1, <1>2 DEF Around
  <1>4. at[r].pc \in MessagePcs => HoldsSlot(r)
    BY DEF HoldsSlot
  <1>5. \A p : Writes(r, p)' <=> Writes(r, p)
    BY <1>1, <1>2, <1>4 DEF Writes, MessagePcs
  <1>6. \A p : Reads(r, p)' <=> Reads(r, p)
    BY <1>1, <1>3, <1>4 DEF Reads, MessagePcs
  <1>7. Counted(r) => Counted(r)'
    BY <1>1, <1>2, <1>3, <1>4 DEF Counted, MessagePcs
  <1> QED
    BY <1>1, <1>2, <1>3, <1>5, <1>6, <1>7

\* The locks after a step of thread t.
LEMMA SectorsEnough ==
  ASSUME ChatIInv, SectorsLocked, NEW t \in Threads, Moves(t),
         \A p \in Sectors :
            /\ writer'[p] = NoThread \/ readers'[p] = {}
            /\ \A r \in Threads \ {t} : /\ writer'[p] = r <=> writer[p] = r
                                        /\ r \in readers'[p] <=> r \in readers[p]
            /\ writer'[p] = t <=> Writes(t, p)'
            /\ t \in readers'[p] <=> Reads(t, p)'
  PROVE  SectorsLocked'
PROOF
  <1> SUFFICES ASSUME NEW p \in Sectors, NEW r \in Threads
               PROVE  (writer'[p] = r <=> Writes(r, p)') /\ (r \in readers'[p] <=> Reads(r, p)')
    BY DEF SectorsLocked
  <1>1. CASE r = t
    BY <1>1
  <1>2. CASE r # t
    BY <1>2, OthersAround DEF SectorsLocked
  <1> QED
    BY <1>1, <1>2

\* A step that neither takes nor gives back the lock of a sector.
LEMMA NoSectorTouched ==
  ASSUME ChatIInv, SectorsLocked, \A r \in Threads : Counted(r), NEW t \in Threads, Moves(t),
         UNCHANGED <<readers, writer>>, at[t].pc \notin MessagePcs, at'[t].pc \notin MessagePcs,
         at'[t].left = 0, at'[t].seen = EmptyList
  PROVE  SectorsLocked' /\ \A r \in Threads : Counted(r)'
PROOF
  <1>1. \A p : ~Writes(t, p) /\ ~Reads(t, p) /\ ~Writes(t, p)' /\ ~Reads(t, p)'
    BY DEF Writes, Reads, MessagePcs
  <1>2. SectorsLocked'
    BY <1>1, SectorsEnough DEF SectorsLocked
  <1>3. Counted(t)'
    BY DEF Counted, MessagePcs
  <1> QED
    BY <1>2, <1>3, OthersAround

\* The first lock of a move.
LEMMA FirstLockTaken ==
  ASSUME ChatIInv, SectorsLocked, \A r \in Threads : Counted(r), NEW t \in Threads,
         NEW p \in Sectors, MoveLocksFirst(t, p)
  PROVE  SectorsLocked' /\ \A r \in Threads : Counted(r)'
PROOF
  <1> DEFINE u == at[t].slot
             q == FirstOf(user[u].pos, p)
  <1>1. /\ at[t].pc = "lock" /\ u \in Users /\ user[u].pos \in Sectors /\ user[u].pos # p
        /\ Unlocked(q) /\ writer' = [writer EXCEPT ![q] = t] /\ readers' = readers
        /\ user' = user /\ at' = [at EXCEPT ![t].pc = "moveSecond", ![t].dest = p]
    BY PlaceFacts DEF MoveLocksFirst, InTurn, Handles, Enter, InSectorRange, LockFirst
  <1>2. /\ at'[t].pc = "moveSecond" /\ at'[t].dest = p /\ at'[t].slot = u
        /\ at'[t].left = at[t].left /\ at'[t].seen = at[t].seen
    BY <1>1, ThreadFacts DEF FrameOK, Idle
  <1>3. Moves(t)
    BY StepMoves DEF Step
  <1>4. q \in Sectors /\ DOMAIN writer = Sectors /\ t # NoThread
    BY <1>1, FirstBelowSecond, ThreadFacts DEF ChatIInv, UsersTypeOK
  <1>5. \A s : ~Reads(t, s) /\ ~Reads(t, s)' /\ ~Writes(t, s) /\ (Writes(t, s)' <=> s = q)
    BY <1>1, <1>2 DEF Reads, Writes
  <1> HIDE DEF q
  <1>6. \A s \in Sectors : /\ s # q => writer'[s] = writer[s]
                           /\ s = q => writer[s] = NoThread /\ writer'[s] = t /\ readers[s] = {}
    BY <1>1, <1>4 DEF Unlocked
  <1>7. SectorsLocked'
    <2> SUFFICES ASSUME NEW s \in Sectors
                 PROVE  /\ writer'[s] = NoThread \/ readers'[s] = {}
                        /\ \A r \in Threads \ {t} : /\ writer'[s] = r <=> writer[s] = r
                                                    /\ r \in readers'[s] <=> r \in readers[s]
                        /\ writer'[s] = t <=> Writes(t, s)'
                        /\ t \in readers'[s] <=> Reads(t, s)'
      BY <1>3, SectorsEnough
    <2> QED
      BY <1>1, <1>4, <1>5, <1>6, ThreadFacts DEF SectorsLocked
  <1>8. Counted(t)'
    BY <1>1, <1>2 DEF Counted
  <1> QED
    BY <1>3, <1>7, <1>8, OthersAround

\* The move, and both locks given back.
LEMMA MoveUnlocks ==
  ASSUME ChatIInv, SectorsLocked, \A r \in Threads : Counted(r), NEW t \in Threads,
         RemoveAndAddSector(t)
  PROVE  SectorsLocked' /\ \A r \in Threads : Counted(r)'
PROOF
  <1> DEFINE q == FirstOf(user[at[t].slot].pos, at[t].dest)
  <1>1. /\ at[t].pc = "moveSecond" /\ writer' = [writer EXCEPT ![q] = NoThread]
        /\ readers' = readers /\ Return(t)
    BY DEF RemoveAndAddSector, LockSecondAndMove
  <1>2. /\ at'[t].pc = "idle" /\ at'[t].left = 0 /\ at'[t].seen = EmptyList
    BY <1>1, ReturnFrame
  <1>3. Moves(t)
    BY StepMoves DEF Step
  <1>4. DOMAIN writer = Sectors /\ t # NoThread
    BY ThreadFacts DEF ChatIInv, UsersTypeOK
  <1>5. \A s : ~Reads(t, s) /\ ~Reads(t, s)' /\ ~Writes(t, s)' /\ (Writes(t, s) <=> s = q)
    BY <1>1, <1>2 DEF Reads, Writes
  <1> HIDE DEF q
  <1>6. \A s \in Sectors : /\ s # q => writer'[s] = writer[s]
                           /\ s = q => writer[s] = t /\ writer'[s] = NoThread
    BY <1>1, <1>4, <1>5 DEF SectorsLocked
  <1>7. SectorsLocked'
    <2> SUFFICES ASSUME NEW s \in Sectors
                 PROVE  /\ writer'[s] = NoThread \/ readers'[s] = {}
                        /\ \A r \in Threads \ {t} : /\ writer'[s] = r <=> writer[s] = r
                                                    /\ r \in readers'[s] <=> r \in readers[s]
                        /\ writer'[s] = t <=> Writes(t, s)'
                        /\ t \in readers'[s] <=> Reads(t, s)'
      BY <1>3, SectorsEnough
    <2> QED
      BY <1>1, <1>4, <1>5, <1>6, ThreadFacts DEF SectorsLocked
  <1>8. Counted(t)'
    BY <1>2 DEF Counted
  <1> QED
    BY <1>3, <1>7, <1>8, OthersAround


\* One more lock of a message.
LEMMA ReadLockTaken ==
  ASSUME ChatIInv, SectorsLocked, \A r \in Threads : Counted(r), NEW t \in Threads,
         LockAround(t)
  PROVE  SectorsLocked' /\ \A r \in Threads : Counted(r)'
PROOF
  <1> DEFINE u == at[t].slot
             A == Around(t)
             n == at[t].left + 1
             q == A[n]
             l == IF n = Len(A) THEN "copy" ELSE "lockAround"
             m == IF n = Len(A) THEN 1 ELSE n
  <1>1. /\ writer[q] = NoThread /\ readers' = [readers EXCEPT ![q] = @ \cup {t}]
        /\ writer' = writer /\ user' = user
        /\ at' = [at EXCEPT ![t].pc = l, ![t].left = m]
        /\ Handles(t, "chat") \/ at[t].pc = "lockAround"
    BY DEF LockAround, InTurn, LockShared
  <1>2. u \in Users /\ StateOf(t) = "INFIELD" /\ at[t].pc \in {"lock", "lockAround"}
    BY <1>1, HandlesFacts, MessageFacts DEF Handles, MessagePcs
  <1>3. /\ Len(A) \in 1 .. 9 /\ \A k \in 1 .. Len(A) : A[k] \in Sectors
        /\ \A k, j \in 1 .. Len(A) : A[k] = A[j] => k = j
    BY <1>2, StandsSomewhere
  <1>4. at[t].left \in 0 .. Len(A) - 1 /\ at[t].seen = EmptyList
    <2>1. /\ at[t].pc = "lock" => at[t].left = 0
          /\ at[t].pc = "lockAround" => at[t].left \in 1 .. Len(A) - 1
          /\ at[t].seen = EmptyList
      BY <1>2 DEF Counted
    <2> DEFINE k == Len(A)
               i == at[t].left
    <2> HIDE DEF k, i
    <2>2. k \in 1 .. 9 /\ i \in {0} \cup 1 .. k - 1
      BY <1>2, <1>3, <2>1 DEF k, i
    <2>3. i \in 0 .. k - 1
      BY <2>2
    <2> QED
      BY <2>1, <2>3 DEF k, i
  <1>5. at[t].pc = "lock" => at[t].left = 0
    BY DEF Counted
  <1>6. n \in 1 .. Len(A) /\ q \in Sectors
    BY <1>3, <1>4
  <1> HIDE DEF l, m, A
  <1>7. /\ at'[t].pc = l /\ at'[t].left = m /\ at'[t].slot = u /\ at'[t].seen = at[t].seen
    BY <1>1, ThreadFacts DEF FrameOK, Idle
  <1>8. Around(t)' = A
    BY <1>1, <1>7 DEF Around, A
  <1>9. Moves(t)
    BY StepMoves DEF Step
  <1>10. DOMAIN readers = Sectors /\ t # NoThread
    BY ThreadFacts DEF ChatIInv, UsersTypeOK
  <1>11. l \in {"copy", "lockAround"}
    BY DEF l
  <1>12. \A s : ~Writes(t, s) /\ ~Writes(t, s)'
    BY <1>2, <1>7, <1>11 DEF Writes
  <1>13. \A s : Reads(t, s) <=> \E k \in 1 .. at[t].left : A[k] = s
    BY <1>2, <1>4, <1>5 DEF Reads, A
  <1>14. \A s : Reads(t, s)' <=> \E k \in 1 .. n : A[k] = s
    <2>1. CASE n = Len(A)
      <3>1. at'[t].pc = "copy" /\ at'[t].left = 1
        BY <1>7, <2>1 DEF l, m
      <3> QED
        BY <1>8, <2>1, <3>1 DEF Reads
    <2>2. CASE n # Len(A)
      <3>1. at'[t].pc = "lockAround" /\ at'[t].left = n
        BY <1>7, <2>2 DEF l, m
      <3> QED
        BY <1>8, <3>1 DEF Reads
    <2> QED
      BY <2>1, <2>2
  <1>15. \A s : Reads(t, s)' <=> Reads(t, s) \/ s = q
    <2>1. \A k \in Int : k \in 1 .. n <=> k \in 1 .. at[t].left \/ k = n
      BY <1>4
    <2>2. n \in Int
      BY <1>4
    <2> QED
      BY <1>13, <1>14, <2>1, <2>2
  <1> HIDE DEF q
  <1>16. \A s \in Sectors : /\ s # q => readers'[s] = readers[s]
                            /\ s = q => writer[s] = NoThread /\ readers'[s] = readers[s] \cup {t}
    BY <1>1, <1>10
  <1>17. SectorsLocked'
    <2> SUFFICES ASSUME NEW s \in Sectors
                 PROVE  /\ writer'[s] = NoThread \/ readers'[s] = {}
                        /\ \A r \in Threads \ {t} : /\ writer'[s] = r <=> writer[s] = r
                                                    /\ r \in readers'[s] <=> r \in readers[s]
                        /\ writer'[s] = t <=> Writes(t, s)'
                        /\ t \in readers'[s] <=> Reads(t, s)'
      BY <1>9, SectorsEnough
    <2> QED
      BY <1>1, <1>10, <1>12, <1>15, <1>16 DEF SectorsLocked
  <1>18. Counted(t)'
    <2>1. CASE n = Len(A)
      <3>1. at'[t].pc = "copy" /\ at'[t].left = 1
        BY <1>7, <2>1 DEF l, m
      <3>2. at'[t].seen \in [Sids -> Nat]
        BY <1>4, <1>7 DEF EmptyList
      <3>3. 1 \in 1 .. Len(A)
        BY <1>3
      <3> QED
        BY <1>8, <3>1, <3>2, <3>3 DEF Counted
    <2>2. CASE n # Len(A)
      <3>1. at'[t].pc = "lockAround" /\ at'[t].left = n
        BY <1>7, <2>2 DEF l, m
      <3>2. n \in 1 .. Len(A) - 1
        BY <1>3, <1>6, <2>2
      <3> QED
        BY <1>4, <1>7, <1>8, <3>1, <3>2 DEF Counted
    <2> QED
      BY <2>1, <2>2
  <1> QED
    BY <1>9, <1>17, <1>18, OthersAround

\* One sector copied, and its lock given back.
LEMMA ReadUnlocks ==
  ASSUME ChatIInv, SectorsLocked, \A r \in Threads : Counted(r), NEW t \in Threads,
         CopySector(t)
  PROVE  SectorsLocked' /\ \A r \in Threads : Counted(r)'
PROOF
  <1> DEFINE u == at[t].slot
             A == Around(t)
             n == at[t].left
             q == A[n]
             e == Copied(q, at[t].seen)
  <1>1. /\ at[t].pc = "copy" /\ readers' = [readers EXCEPT ![q] = @ \ {t}]
        /\ writer' = writer /\ user' = user
    BY DEF CopySector, UnlockShared
  <1>2. u \in Users /\ StateOf(t) = "INFIELD"
    BY <1>1, MessageFacts DEF MessagePcs
  <1>3. /\ Len(A) \in 1 .. 9 /\ \A k \in 1 .. Len(A) : A[k] \in Sectors
        /\ \A k, j \in 1 .. Len(A) : A[k] = A[j] => k = j
    BY <1>2, StandsSomewhere
  <1>4. n \in 1 .. Len(A) /\ at[t].seen \in [Sids -> Nat]
    BY <1>1 DEF Counted
  <1>5. q \in Sectors
    BY <1>3, <1>4
  <1>6. e \in [Sids -> Nat]
    BY <1>4, <1>5 DEF Copied, ChatIInv, UsersTypeOK
  <1>7. \/ /\ n < Len(A) /\ at' = [at EXCEPT ![t].seen = e, ![t].left = n + 1]
        \/ n = Len(A) /\ Return(t)
    BY DEF CopySector
  <1> HIDE DEF A, e
  <1>8. Moves(t)
    BY StepMoves DEF Step
  <1>9. DOMAIN readers = Sectors /\ t # NoThread
    BY ThreadFacts DEF ChatIInv, UsersTypeOK
  <1>10. \A s : ~Writes(t, s) /\ (Reads(t, s) <=> \E k \in n .. Len(A) : A[k] = s)
    BY <1>1 DEF Reads, Writes, A
  <1>11. /\ \A s : ~Writes(t, s)' /\ (Reads(t, s)' <=> \E k \in n + 1 .. Len(A) : A[k] = s)
         /\ Counted(t)'
    <2>1. CASE n < Len(A) /\ at' = [at EXCEPT ![t].seen = e, ![t].left = n + 1]
      <3>1. /\ at'[t].pc = "copy" /\ at'[t].left = n + 1 /\ at'[t].slot = u
            /\ at'[t].seen = e
        BY <1>1, <2>1, ThreadFacts DEF FrameOK, Idle
      <3>2. Around(t)' = A
        BY <1>1, <3>1 DEF Around, A
      <3>3. \A s : ~Writes(t, s)' /\ (Reads(t, s)' <=> \E k \in n + 1 .. Len(A) : A[k] = s)
        BY <3>1, <3>2 DEF Reads, Writes
      <3>4. n + 1 \in 1 .. Len(A)
        BY <1>3, <1>4, <2>1
      <3>5. Counted(t)'
        BY <1>6, <3>1, <3>2, <3>4 DEF Counted
      <3> QED
        BY <3>3, <3>5
    <2>2. CASE n = Len(A) /\ Return(t)
      <3>1. at'[t].pc = "idle" /\ at'[t].left = 0 /\ at'[t].seen = EmptyList
        BY <2>2, ReturnFrame
      <3>2. n + 1 .. Len(A) = {}
        BY <1>3, <2>2
      <3> QED
        BY <3>1, <3>2 DEF Reads, Writes, Counted
    <2> QED
      BY <1>7, <2>1, <2>2
  <1>12. \A s : Reads(t, s)' <=> Reads(t, s) /\ s # q
    <2>1. \A k \in 1 .. Len(A) : A[k] = A[n] => k = n
      BY <1>3, <1>4
    <2>2. /\ \A k \in n + 1 .. Len(A) : k \in n .. Len(A) /\ k \in 1 .. Len(A) /\ k # n
          /\ \A k \in n .. Len(A) : k = n \/ k \in n + 1 .. Len(A)
      BY <1>3, <1>4
    <2> QED
      BY <1>10, <1>11, <2>1, <2>2
  <1> HIDE DEF q
  <1>13. \A s \in Sectors : /\ s # q => readers'[s] = readers[s]
                            /\ s = q => readers'[s] = readers[s] \ {t}
    BY <1>1, <1>9
  <1>14. SectorsLocked'
    <2> SUFFICES ASSUME NEW s \in Sectors
                 PROVE  /\ writer'[s] = NoThread \/ readers'[s] = {}
                        /\ \A r \in Threads \ {t} : /\ writer'[s] = r <=> writer[s] = r
                                                    /\ r \in readers'[s] <=> r \in readers[s]
                        /\ writer'[s] = t <=> Writes(t, s)'
                        /\ t \in readers'[s] <=> Reads(t, s)'
      BY <1>8, SectorsEnough
    <2> QED
      BY <1>1, <1>9, <1>10, <1>11, <1>12, <1>13 DEF SectorsLocked
  <1> QED
    BY <1>8, <1>11, <1>14, OthersAround


\* The other steps of a handler touch no sector's lock.
LEMMA HandlesNoLock ==
  ASSUME ChatIInv, NEW t \in Threads, Counted(t), Step(t),
         ~RemoveAndAddSector(t), ~LockAround(t), ~CopySector(t),
         \A p \in Sectors : ~MoveLocksFirst(t, p)
  PROVE  /\ UNCHANGED <<readers, writer>>
         /\ at[t].pc \notin MessagePcs /\ at'[t].pc \notin MessagePcs
         /\ at'[t].left = 0 /\ at'[t].seen = EmptyList
         /\ at'[t].pc # "create"
         /\ at'[t].pc \in {"findOther", "lockOther"} => MeetOther(t) \/ FindOther(t)
PROOF
  <1> DEFINE Kept == /\ UNCHANGED <<readers, writer>> /\ at[t].pc \notin MessagePcs
             Free == /\ at'[t].pc \notin MessagePcs \cup {"create", "findOther", "lockOther"}
                     /\ at'[t].left = 0 /\ at'[t].seen = EmptyList
  <1>1. at[t].pc \notin MessagePcs => at[t].left = 0 /\ at[t].seen = EmptyList
    BY DEF Counted, MessagePcs
  <1>2. ASSUME Return(t) PROVE Free
    BY <1>2, ReturnFrame DEF MessagePcs
  <1>3. ASSUME NEW v, BeginRelease(t, v), at[t].pc \notin MessagePcs PROVE Free
    BY <1>1, <1>3, ReleaseFrame DEF MessagePcs, SameLocals
  <1>4. ASSUME NEW l, Goto(t, l), l \notin MessagePcs \cup {"create", "findOther", "lockOther"},
               at[t].pc \notin MessagePcs
        PROVE  Free
    BY <1>1, <1>4, GoesFrame DEF SameLocals
  <1>5. CASE \/ CreateWaitLogin(t) \/ TooLate(t) \/ ReleaseFound(t) \/ Refuse(t) \/ FullReturns(t)
             \/ StayInSector(t) \/ RequestHeartbeat(t) \/ (\E a \in Accounts : RequestLogin(t, a))
             \/ (\E p \in Sectors : EnterField(t, p))
    <2>1. Kept
      BY <1>5 DEF CreateWaitLogin, TooLate, ReleaseFound, Refuse, FullReturns, StayInSector,
         RequestHeartbeat, RequestLogin, EnterField, InTurn, Handles, Enter, AddSector,
         fieldVars, MessagePcs
    <2>2. Return(t) \/ \E v : BeginRelease(t, v)
      BY <1>5 DEF CreateWaitLogin, TooLate, ReleaseFound, Refuse, FullReturns, StayInSector,
         RequestHeartbeat, RequestLogin, EnterField
    <2> QED
      BY <1>2, <1>3, <2>1, <2>2
  <1>6. CASE LeaveSector(t) \/ RemoveLoginMap(t) \/ RemoveSidToUserMap(t) \/ AddLoginMap(t)
    <2>1. Kept
      BY <1>6 DEF LeaveSector, RemoveSector, RemoveLoginMap, RemoveSidToUserMap, AddLoginMap,
         Enter, fieldVars, MessagePcs
    <2>2. \E l : Goto(t, l) /\ l \notin MessagePcs \cup {"create", "findOther", "lockOther"}
      BY <1>6 DEF LeaveSector, RemoveLoginMap, RemoveSidToUserMap, AddLoginMap, MessagePcs
    <2> QED
      BY <1>4, <2>1, <2>2
  <1>7. CASE GiveUp(t) \/ IncreaseUserCnt(t)
    <2>1. Kept
      BY <1>7 DEF GiveUp, IncreaseUserCnt, fieldVars, MessagePcs
    <2>2. Return(t) \/ \E v : BeginRelease(t, v)
      BY <1>7 DEF GiveUp, IncreaseUserCnt
    <2> QED
      BY <1>2, <1>3, <2>1, <2>2
  <1>8. CASE PushIndex(t)
    <2>1. Kept
      BY <1>8 DEF PushIndex, fieldVars, MessagePcs
    <2>2. CASE at' = [at EXCEPT ![t].pc = "add", ![t].victim = NoUser, ![t].other = 0]
      BY <1>1, <2>1, <2>2, ThreadFacts DEF FrameOK, Idle, MessagePcs
    <2> QED
      BY <1>2, <1>8, <2>1, <2>2 DEF PushIndex
  <1>9. CASE MeetOther(t)
    <2>1. Kept /\ at' = [at EXCEPT ![t].pc = "findOther", ![t].other = loginMap[at[t].acct]]
      BY <1>9 DEF MeetOther, Enter, fieldVars, MessagePcs
    <2> QED
      BY <1>1, <1>9, <2>1, ThreadFacts DEF FrameOK, Idle, MessagePcs
  <1>10. CASE FindOther(t)
    <2> DEFINE l == IF sidToUser[at[t].other] = NoUser THEN "add" ELSE "lockOther"
               o == IF sidToUser[at[t].other] = NoUser THEN 0 ELSE at[t].other
               f == [at[t] EXCEPT !.pc = l, !.other = o, !.victim = sidToUser[at[t].other]]
    <2>1. Kept /\ at' = [at EXCEPT ![t] = f] /\ l \notin MessagePcs \cup {"create"}
      BY <1>10 DEF FindOther, fieldVars, MessagePcs
    <2> HIDE DEF l, o
    <2>2. f.pc = l /\ f.left = at[t].left /\ f.seen = at[t].seen
      BY ThreadFacts DEF FrameOK, Idle
    <2> HIDE DEF f
    <2> QED
      BY <1>1, <1>10, <2>1, <2>2, ThreadFacts
  <1>11. CASE LockOther(t)
    <2>1. Kept
      BY <1>11 DEF LockOther, fieldVars, MessagePcs
    <2>2. CASE at' = [at EXCEPT ![t].pc = "add", ![t].victim = NoUser, ![t].other = 0]
      BY <1>1, <2>1, <2>2, ThreadFacts DEF FrameOK, Idle, MessagePcs
    <2> QED
      BY <1>3, <1>11, <2>1, <2>2 DEF LockOther
  <1> QED
    BY <1>5, <1>6, <1>7, <1>8, <1>9, <1>10, <1>11 DEF Step

\* Writers and readers of a sector are where they should be.
LEMMA SectorsNext ==
  ASSUME ChatIInv, SectorsLocked, \A r \in Threads : Counted(r), [Next]_vars
  PROVE  SectorsLocked' /\ \A r \in Threads : Counted(r)'
PROOF
  <1> DEFINE Goal == SectorsLocked' /\ \A r \in Threads : Counted(r)'
  <1>1. ASSUME NEW t \in Threads, Step(t) PROVE Goal
    <2>1. CASE \/ RemoveAndAddSector(t) \/ LockAround(t) \/ CopySector(t)
               \/ \E p \in Sectors : MoveLocksFirst(t, p)
      BY <2>1, FirstLockTaken, MoveUnlocks, ReadLockTaken, ReadUnlocks
    <2>2. CASE ~ (\/ RemoveAndAddSector(t) \/ LockAround(t) \/ CopySector(t)
                  \/ \E p \in Sectors : MoveLocksFirst(t, p))
      BY <1>1, <2>2, HandlesNoLock, NoSectorTouched, StepMoves
    <2> QED
      BY <2>1, <2>2
  <1>2. ASSUME NEW t \in Threads, Waits(t) PROVE Goal
    <2>1. Moves(t)
      BY <1>2 DEF Waits, Moves, Guarded
    <2> QED
      BY <1>2, <2>1, NoSectorTouched DEF Waits, MessagePcs
  <1>3. ASSUME NEW u \in Users, Timeout(u) PROVE Goal
    <2> DEFINE T == TimeoutThread
    <2>1. /\ T \in Threads /\ at[T].pc = "idle" /\ at'[T].pc \in LeavePcs /\ Others(T)
          /\ at'[T].left = 0 /\ at'[T].seen = EmptyList
          /\ UNCHANGED <<user, readers, writer>>
          /\ lock[u] = NoThread /\ \A v \in Users \ {u} : lock'[v] = lock[v]
      BY <1>3, BeginsTimeout, LocksSlot
    <2> HIDE DEF T
    <2>2. Moves(T)
      BY <2>1 DEF Moves, Guarded
    <2>3. at[T].pc \notin MessagePcs /\ at'[T].pc \notin MessagePcs
      BY <2>1 DEF MessagePcs, LeavePcs
    <2> QED
      BY <2>1, <2>2, <2>3, NoSectorTouched
  <1>4. CASE UNCHANGED <<user, lock, sessionIdList, readers, writer, at>>
    BY <1>4 DEF SectorsLocked, Counted, Writes, Reads, Around
  <1> QED
    BY <1>1, <1>2, <1>3, <1>4, NextCases


-----------------------------------------------------------------------------
(* Session ids, and the second user of an answer.                           *)

\* A step of a handler tells the content nothing new of a session.
LEMMA StepSessions ==
  ASSUME NEW t \in Threads, Step(t)
  PROVE  app' = app /\ ended' = ended
PROOF
  <1>1. ASSUME UNCHANGED sessionVars PROVE app' = app /\ ended' = ended
    BY <1>1 DEF sessionVars
  <1>2. ASSUME Return(t) PROVE app' = app /\ ended' = ended
    BY <1>2 DEF Return, Contract!CallbackReturns, sessionVars
  <1>3. CASE \/ CreateWaitLogin(t) \/ TooLate(t) \/ ReleaseFound(t) \/ Refuse(t)
             \/ LeaveSector(t) \/ RemoveLoginMap(t) \/ RemoveSidToUserMap(t) \/ PushIndex(t)
             \/ FullReturns(t)
    BY <1>1, <1>2, <1>3 DEF CreateWaitLogin, TooLate, ReleaseFound, Refuse, LeaveSector,
       RemoveLoginMap, RemoveSidToUserMap, PushIndex, FullReturns
  <1>4. CASE \/ (\E a \in Accounts : RequestLogin(t, a)) \/ AddLoginMap(t) \/ MeetOther(t)
             \/ GiveUp(t) \/ FindOther(t) \/ LockOther(t) \/ IncreaseUserCnt(t)
    BY <1>1, <1>2, <1>4 DEF RequestLogin, AddLoginMap, MeetOther, GiveUp, FindOther, LockOther,
       IncreaseUserCnt
  <1>5. CASE \/ (\E p \in Sectors : EnterField(t, p) \/ MoveLocksFirst(t, p))
             \/ StayInSector(t) \/ RemoveAndAddSector(t)
             \/ LockAround(t) \/ CopySector(t) \/ RequestHeartbeat(t)
    BY <1>1, <1>2, <1>5 DEF EnterField, MoveLocksFirst, StayInSector, RemoveAndAddSector,
       LockAround, CopySector, RequestHeartbeat
  <1> QED
    BY <1>3, <1>4, <1>5 DEF Step

\* Ids in use stay in use, and others come in order.
LEMMA IdsNext == ChatIInv /\ IdsInOrder /\ [Next]_vars => IdsInOrder'
PROOF
  <1> SUFFICES ASSUME ChatIInv, IdsInOrder, [Next]_vars PROVE IdsInOrder'
    OBVIOUS
  <1>1. ASSUME NEW s \in Sids, \A r \in 1 .. s - 1 : Used(r),
               \A r \in Sids : Used(r)' <=> Used(r) \/ r = s
        PROVE  IdsInOrder'
    <2> SUFFICES ASSUME NEW q \in Sids, Used(q)', NEW r \in 1 .. q - 1 PROVE Used(r)'
      BY DEF IdsInOrder
    <2>1. r \in Sids
      BY FieldAssumption DEF Sids
    <2>2. Used(r)
      BY <1>1 DEF IdsInOrder
    <2> QED
      BY <1>1, <2>1, <2>2
  <1>2. ASSUME \A r \in Sids : Used(r)' <=> Used(r) PROVE IdsInOrder'
    <2>1. \A s \in Sids : \A r \in 1 .. s - 1 : r \in Sids
      BY FieldAssumption DEF Sids
    <2> QED
      BY <1>2, <2>1 DEF IdsInOrder
  <1>3. DOMAIN app = Sids /\ ended \subseteq Sids
    BY DEF ChatIInv, UsersTypeOK
  <1>4. ASSUME NEW s \in Sids, AcceptSession(s) \/ AcceptFull(s) PROVE IdsInOrder'
    <2>1. NextSid(s) /\ app' = [app EXCEPT ![s] = "open"] /\ ended' = ended
      BY <1>4 DEF AcceptSession, AcceptFull, Contract!OnAccept
    <2>2. \A r \in 1 .. s - 1 : Used(r)
      BY <2>1 DEF NextSid, Used
    <2>3. \A r \in Sids : Used(r)' <=> Used(r) \/ r = s
      BY <1>3, <2>1 DEF Used
    <2> QED
      BY <1>1, <2>2, <2>3
  <1>5. ASSUME NEW s \in Sids, SessionEnds(s) PROVE IdsInOrder'
    <2>1. app' = app /\ ended' = ended \cup {s} /\ (app[s] = "none" => NextSid(s))
      BY <1>5 DEF SessionEnds, Contract!End
    <2>2. \A r \in Sids : Used(r)' <=> Used(r) \/ r = s
      BY <2>1 DEF Used
    <2>3. CASE app[s] = "none"
      BY <1>1, <2>1, <2>2, <2>3 DEF NextSid, Used
    <2>4. CASE app[s] # "none"
      BY <1>2, <2>2, <2>4 DEF Used
    <2> QED
      BY <2>3, <2>4
  <1>6. ASSUME NEW t \in Workers, NEW s \in Sids, ReceiveRelease(t, s) PROVE IdsInOrder'
    <2>1. app' = [app EXCEPT ![s] = "released"] /\ ended' = ended /\ s \in ended
      BY <1>6 DEF ReceiveRelease, Contract!OnRelease
    <2> QED
      BY <1>2, <1>3, <2>1 DEF Used
  <1>7. CASE \/ \E t \in Threads : Step(t)
             \/ \E t \in Workers, s \in Sids : ReceiveMessage(t, s)
             \/ \E m \in requests : AuthFails(m) \/ \E t \in Workers : ReceiveAnswer(t, m)
             \/ \E u \in Users : Timeout(u)
             \/ UNCHANGED vars
    <2>1. app' = app /\ ended' = ended
      BY <1>7, StepSessions DEF ReceiveMessage, Contract!OnMessage, AuthFails, ReceiveAnswer,
         Timeout, sessionVars, vars
    <2> QED
      BY <1>2, <2>1 DEF Used
  <1> QED
    BY <1>4, <1>5, <1>6, <1>7 DEF Next

\* A session known to the content is never unknown again.
LEMMA KnownStays ==
  ASSUME ChatIInv, [Next]_vars, NEW s \in Sids, app[s] # "none"
  PROVE  app'[s] # "none"
PROOF
  <1>1. DOMAIN app = Sids
    BY DEF ChatIInv, UsersTypeOK
  <1>2. CASE \E r \in Sids : AcceptSession(r) \/ AcceptFull(r)
    BY <1>1, <1>2 DEF AcceptSession, AcceptFull, Contract!OnAccept
  <1>3. CASE \E t \in Workers, r \in Sids : ReceiveRelease(t, r)
    BY <1>1, <1>3 DEF ReceiveRelease, Contract!OnRelease
  <1>4. CASE \/ \E t \in Threads : Step(t)
             \/ \E r \in Sids : SessionEnds(r)
             \/ \E t \in Workers, r \in Sids : ReceiveMessage(t, r)
             \/ \E m \in requests : AuthFails(m) \/ \E t \in Workers : ReceiveAnswer(t, m)
             \/ \E u \in Users : Timeout(u)
             \/ UNCHANGED vars
    BY <1>4, StepSessions DEF ReceiveMessage, Contract!OnMessage, AuthFails, ReceiveAnswer,
       Timeout, SessionEnds, Contract!End, sessionVars, vars
  <1> QED
    BY <1>2, <1>3, <1>4 DEF Next

\* A handler takes no slot, and looks for another session in two steps only.
LEMMA StepPlaces ==
  ASSUME ChatIInv, NEW t \in Threads, Counted(t), Step(t)
  PROVE  /\ at'[t].pc # "create"
         /\ at'[t].pc \in {"findOther", "lockOther"} => MeetOther(t) \/ FindOther(t)
PROOF
  <1>1. CASE RemoveAndAddSector(t)
    BY <1>1, ReturnFrame DEF RemoveAndAddSector
  <1>2. CASE \E p \in Sectors : MoveLocksFirst(t, p)
    <2>1. at'[t].pc = "moveSecond"
      BY <1>2, ThreadFacts DEF MoveLocksFirst, FrameOK, Idle
    <2> QED
      BY <2>1
  <1>3. CASE LockAround(t)
    <2> DEFINE n == at[t].left + 1
               l == IF n = Len(Around(t)) THEN "copy" ELSE "lockAround"
               m == IF n = Len(Around(t)) THEN 1 ELSE n
    <2>1. at' = [at EXCEPT ![t].pc = l, ![t].left = m] /\ l \in {"copy", "lockAround"}
      BY <1>3 DEF LockAround
    <2> HIDE DEF l, m
    <2>2. at'[t].pc = l
      BY <2>1, ThreadFacts DEF FrameOK, Idle
    <2> QED
      BY <2>1, <2>2
  <1>4. CASE CopySector(t)
    <2> DEFINE n == at[t].left
               e == Copied(Around(t)[n], at[t].seen)
    <2>1. \/ at' = [at EXCEPT ![t].seen = e, ![t].left = n + 1]
          \/ Return(t)
      BY <1>4 DEF CopySector
    <2> HIDE DEF e
    <2>2. CASE at' = [at EXCEPT ![t].seen = e, ![t].left = n + 1]
      <3>1. at'[t].pc = "copy"
        BY <1>4, <2>2, ThreadFacts DEF CopySector, FrameOK, Idle
      <3> QED
        BY <3>1
    <2> QED
      BY <2>1, <2>2, ReturnFrame
  <1> QED
    BY <1>1, <1>2, <1>3, <1>4, HandlesNoLock

\* A slot is taken for a session that was unknown, after all older ones.
LEMMA AcceptorNext ==
  ASSUME ChatIInv, \A r \in Threads : Counted(r), [Next]_vars, at'[Acceptor].pc = "create"
  PROVE  \/ at'[Acceptor] = at[Acceptor]
         \/ LET s == at'[Acceptor].sid IN
            s \in Sids /\ app[s] = "none" /\ s \notin ended /\ \A r \in 1 .. s - 1 : Used(r)
PROOF
  <1>1. Acceptor \in Threads /\ TimeoutThread # Acceptor /\ Acceptor \notin Workers
        /\ Workers \subseteq Threads
    BY ChatAssumption DEF Threads
  <1>2. ASSUME NEW t \in Threads, Step(t) PROVE at'[Acceptor] = at[Acceptor]
    <2>1. t # Acceptor
      BY <1>1, <1>2, StepPlaces
    <2> QED
      BY <1>1, <1>2, <2>1, StepMoves DEF Moves, Others
  <1>3. ASSUME NEW s \in Sids, AcceptSession(s)
        PROVE  /\ at'[Acceptor].sid = s /\ app[s] = "none" /\ s \notin ended
               /\ \A r \in 1 .. s - 1 : Used(r)
    <2>1. at'[Acceptor].sid = s
      BY <1>1, <1>3, ThreadFacts DEF AcceptSession, Idle
    <2> QED
      BY <1>3, <2>1 DEF AcceptSession, NextSid, Used, Contract!OnAccept
  <1>4. ASSUME NEW s \in Sids, AcceptFull(s) PROVE FALSE
    BY <1>1, <1>4, ThreadFacts DEF AcceptFull, Idle
  <1>5. ASSUME NEW t \in Workers, NEW s, \/ ReceiveMessage(t, s) \/ ReceiveRelease(t, s)
                                         \/ \E m \in requests : ReceiveAnswer(t, m)
        PROVE  at'[Acceptor] = at[Acceptor]
    BY <1>1, <1>5, BeginsWaiting DEF Waits, Others
  <1>6. ASSUME NEW u \in Users, Timeout(u) PROVE at'[Acceptor] = at[Acceptor]
    BY <1>1, <1>6, BeginsTimeout DEF Others
  <1>7. CASE (\E s \in Sids : SessionEnds(s)) \/ (\E m \in requests : AuthFails(m))
             \/ UNCHANGED vars
    BY <1>7, NoThreadMoves
  <1> QED
    BY <1>2, <1>3, <1>4, <1>5, <1>6, <1>7 DEF Next

\* What a step does to the user in a slot: the session in it stays, and logged in
\* if it was; it goes; or the acceptor fills the slot.
SlotMoves(u) ==
    \/ /\ user'[u].sid = user[u].sid
       /\ user[u].state \in LoggedIn => user'[u].state \in LoggedIn
    \/ user'[u].sid = 0
    \/ /\ at[Acceptor].pc = "create" /\ at[Acceptor].slot = u
       /\ user'[u].sid = at[Acceptor].sid

\* No step does more.
LEMMA SlotsMove ==
  ASSUME ChatIInv, [Next]_vars, NEW u \in Users
  PROVE  SlotMoves(u)
PROOF
  <1>0. /\ DOMAIN user = Users /\ DOMAIN user[u] = {"sid", "state", "acct", "pos"}
    BY DEF ChatIInv, UsersTypeOK
  <1>1. ASSUME user' = user PROVE SlotMoves(u)
    BY <1>1 DEF SlotMoves
  <1>2. ASSUME NEW t \in Threads, CreateWaitLogin(t) PROVE SlotMoves(u)
    <2>1. t = Acceptor
      BY <1>2, ThreadFacts DEF CreateWaitLogin, InPlace
    <2> QED
      BY <1>0, <1>2, <2>1 DEF CreateWaitLogin, SlotMoves
  <1>3. ASSUME NEW t \in Threads, RemoveSidToUserMap(t) PROVE SlotMoves(u)
    BY <1>0, <1>3 DEF RemoveSidToUserMap, Reset, SlotMoves
  <1>4. ASSUME NEW t \in Threads, NEW a \in Accounts, RequestLogin(t, a) PROVE SlotMoves(u)
    <2>1. user[at[t].slot].state = "WAIT_LOGIN"
      BY <1>4 DEF RequestLogin, Handles, StateOf, LoggedIn
    <2> QED
      BY <1>0, <1>4, <2>1 DEF RequestLogin, SlotMoves, LoggedIn
  <1>5. ASSUME NEW t \in Threads, AddLoginMap(t) PROVE SlotMoves(u)
    BY <1>0, <1>5 DEF AddLoginMap, SlotMoves, LoggedIn
  <1>6. ASSUME NEW t \in Threads, NEW p \in Sectors, EnterField(t, p) PROVE SlotMoves(u)
    BY <1>0, <1>6 DEF EnterField, SlotMoves, LoggedIn
  <1>7. ASSUME NEW t \in Threads, RemoveAndAddSector(t) PROVE SlotMoves(u)
    BY <1>0, <1>7 DEF RemoveAndAddSector, SlotMoves
  <1>8. ASSUME NEW t \in Threads,
               \/ TooLate(t) \/ ReleaseFound(t) \/ Refuse(t) \/ LeaveSector(t) \/ RemoveLoginMap(t)
               \/ PushIndex(t) \/ FullReturns(t) \/ MeetOther(t) \/ GiveUp(t) \/ FindOther(t)
               \/ LockOther(t) \/ IncreaseUserCnt(t) \/ StayInSector(t) \/ LockAround(t)
               \/ CopySector(t) \/ RequestHeartbeat(t) \/ \E p \in Sectors : MoveLocksFirst(t, p)
        PROVE  user' = user
    BY <1>8 DEF TooLate, ReleaseFound, Refuse, LeaveSector, RemoveLoginMap, PushIndex, FullReturns,
       MeetOther, GiveUp, FindOther, LockOther, IncreaseUserCnt, StayInSector, LockAround,
       CopySector, RequestHeartbeat, MoveLocksFirst, userVars
  <1>9. ASSUME NEW t \in Threads, Step(t) PROVE SlotMoves(u)
    BY <1>1, <1>2, <1>3, <1>4, <1>5, <1>6, <1>7, <1>8, <1>9 DEF Step
  <1>10. ASSUME NEW t \in Threads, Waits(t) PROVE SlotMoves(u)
    BY <1>1, <1>10 DEF Waits
  <1>11. ASSUME NEW v \in Users, Timeout(v) PROVE SlotMoves(u)
    BY <1>1, <1>11 DEF Timeout
  <1> QED
    BY <1>1, <1>9, <1>10, <1>11, NextCases

\* What an answer knows of the session it met outlasts the steps of others.
LEMMA OtherMet ==
  ASSUME ChatIInv, IdsInOrder, \A r \in Threads : Counted(r), [Next]_vars,
         NEW r \in Threads, Met(r), at'[r] = at[r]
  PROVE  Met(r)'
PROOF
  <1> DEFINE f == at[r]
             a == at[Acceptor]
             b == at'[Acceptor]
  <1>1. SUFFICES ASSUME f.pc \in {"findOther", "lockOther"}
                 PROVE  Met(r)'
    BY DEF Met
  <1>2. /\ f.other \in Sids /\ f.sid \in Sids /\ app[f.sid] # "none"
        /\ f.pc = "lockOther" => f.victim \in Users
    BY <1>1, ThreadFacts, AnswerFacts DEF ChatIInv, AskedOnce, Answers
  <1>3. /\ app[f.other] # "none"
        /\ a.pc = "create" => a.sid # f.other
        /\ \A u \in Users : user[u].sid = f.other => user[u].state \in LoggedIn
    BY <1>1 DEF Met
  <1>4. app'[f.other] # "none"
    BY <1>2, <1>3, KnownStays
  <1>5. b.pc = "create" => b.sid # f.other
    BY <1>3, AcceptorNext
  <1>6. ASSUME NEW u \in Users, user'[u].sid = f.other PROVE user'[u].state \in LoggedIn
    <2>1. f.other # 0
      BY <1>2, FieldAssumption DEF Sids
    <2> QED
      BY <1>3, <1>6, <2>1, SlotsMove DEF SlotMoves
  <1>7. ASSUME f.pc = "lockOther"
        PROVE  /\ user'[f.victim].sid \in {f.other, 0} \/ user'[f.victim].sid > f.sid
               /\ b.pc = "create" /\ b.slot = f.victim => b.sid > f.sid
    <2>1. /\ user[f.victim].sid \in {f.other, 0} \/ user[f.victim].sid > f.sid
          /\ a.pc = "create" /\ a.slot = f.victim => a.sid > f.sid
          /\ f.victim \in Users
      BY <1>2, <1>7 DEF Met
    <2>2. user'[f.victim].sid \in {f.other, 0} \/ user'[f.victim].sid > f.sid
      BY <2>1, SlotsMove DEF SlotMoves
    <2>3. ASSUME b.pc = "create", b.slot = f.victim PROVE b.sid > f.sid
      <3>1. CASE b = a
        BY <2>1, <2>3, <3>1
      <3>2. CASE b.sid \in Sids /\ app[b.sid] = "none" /\ b.sid \notin ended
        <4>1. ~Used(b.sid) /\ Used(f.sid) /\ b.sid # f.sid
          BY <1>2, <3>2 DEF Used
        <4> DEFINE n == b.sid
                   m == f.sid
        <4>2. n \in Nat /\ m \in Nat /\ n >= 1
          BY <1>2, <3>2, FieldAssumption DEF Sids
        <4>3. ~(n \in 1 .. m - 1)
          BY <1>2, <4>1 DEF IdsInOrder
        <4>4. n # m
          BY <4>1
        <4> HIDE DEF n, m
        <4>5. n > m
          BY <4>2, <4>3, <4>4
        <4> QED
          BY <4>5 DEF n, m
      <3> QED
        BY <2>3, <3>1, <3>2, AcceptorNext
    <2> QED
      BY <2>2, <2>3
  <1> QED
    BY <1>4, <1>5, <1>6, <1>7 DEF Met

\* What an answer finds when it meets the session.
LEMMA StepMet ==
  ASSUME ChatIInv, NEW t \in Threads, Met(t), MeetOther(t) \/ FindOther(t)
  PROVE  Met(t)'
PROOF
  <1> DEFINE f == at[t]
             g == at'[t]
             a == at[Acceptor]
             b == at'[Acceptor]
  <1>1. /\ user' = user /\ app' = app /\ Acceptor \in Threads
        /\ Acceptor # t => b = a
        /\ g.sid = f.sid
    <2>1. user' = user /\ app' = app /\ Acceptor \in Threads
      BY DEF MeetOther, FindOther, userVars, sessionVars, Threads
    <2>2. Moves(t)
      BY StepMoves DEF Step
    <2>3. g.sid = f.sid
      <3>1. CASE MeetOther(t)
        BY <3>1, ThreadFacts DEF MeetOther, FrameOK, Idle
      <3>2. CASE FindOther(t)
        <4> DEFINE l == IF sidToUser[at[t].other] = NoUser THEN "add" ELSE "lockOther"
                   o == IF sidToUser[at[t].other] = NoUser THEN 0 ELSE at[t].other
        <4>1. at' = [at EXCEPT ![t].pc = l, ![t].other = o, ![t].victim = sidToUser[at[t].other]]
          BY <3>2 DEF FindOther
        <4> HIDE DEF l, o
        <4> QED
          BY <4>1, ThreadFacts DEF FrameOK, Idle
      <3> QED
        BY <3>1, <3>2
    <2> QED
      BY <2>1, <2>2, <2>3 DEF Moves, Others
  <1>2. /\ UsersMapped /\ SessionsOpen /\ SlotsHeld /\ LoginsNamed /\ 0 \notin Sids
    BY FieldAssumption DEF ChatIInv, Sids
  <1>3. CASE MeetOther(t)
    <2>1. /\ g.pc = "findOther" /\ g.other = loginMap[f.acct] /\ loginMap[f.acct] # 0
          /\ f.acct \in Accounts
      BY <1>3, ThreadFacts DEF MeetOther, Enter, FrameOK, Idle, InPlace
    <2>2. PICK u \in Users : user[u].state \in LoggedIn /\ user[u].sid = g.other
      BY <1>2, <2>1 DEF LoginsNamed, IsLogin
    <2>3. g.other \in Sids
      BY <2>1 DEF ChatIInv, UsersTypeOK
    <2>4. sidToUser[g.other] = u /\ u # NoUser
      BY <1>2, <2>2, <2>3, ThreadFacts DEF UsersMapped
    <2>5. app[g.other] # "none"
      BY <1>2, <2>3, <2>4 DEF SessionsOpen
    <2>6. b.pc = "create" => b.sid # g.other
      BY <1>1, <1>2, <2>1, <2>4 DEF SessionsOpen
    <2>7. \A v \in Users : user[v].sid = g.other => user[v].state \in LoggedIn
      BY <1>2, <2>2, <2>3, <2>4 DEF UsersMapped
    <2> QED
      BY <1>1, <2>1, <2>5, <2>6, <2>7 DEF Met
  <1>4. CASE FindOther(t)
    <2> DEFINE v == sidToUser[f.other]
    <2>1. /\ f.pc = "findOther" /\ f.other \in Sids
          /\ v # NoUser => g.pc = "lockOther" /\ g.other = f.other /\ g.victim = v
          /\ v = NoUser => g.pc = "add"
      <3>1. f.pc = "findOther" /\ f.other \in Sids
        BY <1>4, AnswerFacts DEF FindOther
      <3>2. CASE v # NoUser
        <4>1. at' = [at EXCEPT ![t].pc = "lockOther", ![t].other = @, ![t].victim = v]
          BY <1>4, <3>2 DEF FindOther
        <4> HIDE DEF v
        <4> QED
          BY <3>1, <3>2, <4>1, ThreadFacts DEF FrameOK, Idle
      <3>3. CASE v = NoUser
        <4>1. at' = [at EXCEPT ![t].pc = "add", ![t].other = 0, ![t].victim = v]
          BY <1>4, <3>3 DEF FindOther
        <4> HIDE DEF v
        <4> QED
          BY <3>1, <3>3, <4>1, ThreadFacts DEF FrameOK, Idle
      <3> QED
        BY <3>2, <3>3
    <2>2. CASE v = NoUser
      BY <2>1, <2>2 DEF Met
    <2>3. CASE v # NoUser
      <3>1. v \in Users /\ user[v].sid = f.other
        BY <1>2, <2>1, <2>3 DEF UsersMapped, ChatIInv, UsersTypeOK
      <3>2. ~(b.pc = "create" /\ b.slot = v)
        <4>1. SUFFICES ASSUME b.pc = "create", b.slot = v PROVE FALSE
          OBVIOUS
        <4>2. HasIndex(Acceptor, v)
          BY <1>1, <2>1, <2>3, <4>1 DEF HasIndex
        <4> QED
          BY <1>1, <1>2, <2>1, <3>1, <4>2 DEF SlotsHeld
      <3>3. /\ app[f.other] # "none"
            /\ a.pc = "create" => a.sid # f.other
            /\ \A u \in Users : user[u].sid = f.other => user[u].state \in LoggedIn
        BY <2>1 DEF Met
      <3>4. b.pc = "create" => b.sid # f.other
        BY <1>1, <2>1, <2>3, <3>3
      <3> QED
        BY <1>1, <2>1, <2>3, <3>1, <3>2, <3>3, <3>4 DEF Met
    <2> QED
      BY <2>2, <2>3
  <1> QED
    BY <1>3, <1>4

\* No step takes it away.
LEMMA MetNext ==
  ASSUME ChatIInv, IdsInOrder, \A r \in Threads : Counted(r) /\ Met(r), [Next]_vars
  PROVE  \A r \in Threads : Met(r)'
PROOF
  <1>1. ASSUME NEW t \in Threads, Others(t), Met(t)' PROVE \A r \in Threads : Met(r)'
    BY <1>1, OtherMet DEF Others
  <1>2. ASSUME NEW t \in Threads, Step(t) PROVE \A r \in Threads : Met(r)'
    <2>1. CASE MeetOther(t) \/ FindOther(t)
      BY <1>1, <1>2, <2>1, StepMet, StepMoves DEF Moves
    <2>2. CASE at'[t].pc \notin {"findOther", "lockOther"}
      <3>1. Met(t)'
        BY <2>2 DEF Met
      <3> QED
        BY <1>1, <1>2, <3>1, StepMoves DEF Moves
    <2> QED
      BY <1>2, <2>1, <2>2, StepPlaces
  <1>3. ASSUME NEW t \in Threads, Waits(t) PROVE \A r \in Threads : Met(r)'
    <2>1. Met(t)'
      BY <1>3 DEF Waits, Met
    <2> QED
      BY <1>1, <1>3, <2>1 DEF Waits
  <1>4. ASSUME NEW u \in Users, Timeout(u) PROVE \A r \in Threads : Met(r)'
    <2>1. Met(TimeoutThread)'
      BY <1>4, BeginsTimeout DEF Met, LeavePcs
    <2> QED
      BY <1>1, <1>4, <2>1, BeginsTimeout
  <1>5. CASE UNCHANGED <<user, lock, sessionIdList, readers, writer, at>>
    BY <1>5, OtherMet
  <1> QED
    BY <1>2, <1>3, <1>4, <1>5, NextCases

-----------------------------------------------------------------------------
(* Those who hear a message.                                                *)

\* Cell k of the sectors A has s in its list.
In(lists, A, k, s) == lists[A[k]][s] = 1

\* From cell i on, s is in the list of one sector at most, and once.
OnceFrom(lists, A, i, s) ==
    /\ \A k \in i .. Len(A) : lists[A[k]][s] \in {0, 1}
    /\ \A k, l \in i .. Len(A) : In(lists, A, k, s) /\ In(lists, A, l, s) => k = l

Ahead(lists, A, i, s) == UNION {{k} \X (1 .. lists[A[k]][s]) : k \in i .. Len(A)}
IsAhead(lists, A, i, s) == \E k \in i .. Len(A) : In(lists, A, k, s)

\* Then it is met once or never.
LEMMA AheadCounted ==
  ASSUME NEW lists, NEW A, NEW i, NEW s, OnceFrom(lists, A, i, s)
  PROVE  Cardinality(Ahead(lists, A, i, s)) = IF IsAhead(lists, A, i, s) THEN 1 ELSE 0
PROOF
  <1> DEFINE S == Ahead(lists, A, i, s)
             K == i .. Len(A)
  <1>1. CASE ~IsAhead(lists, A, i, s)
    <2>1. \A k \in K : 1 .. lists[A[k]][s] = {}
      <3> SUFFICES ASSUME NEW k \in K PROVE 1 .. lists[A[k]][s] = {}
        OBVIOUS
      <3>1. lists[A[k]][s] = 0
        BY <1>1 DEF OnceFrom, IsAhead, In
      <3> QED
        BY <3>1
    <2>2. S = {}
      BY <2>1 DEF Ahead
    <2> QED
      BY <1>1, <2>2, FS_EmptySet
  <1>2. CASE IsAhead(lists, A, i, s)
    <2>1. PICK k \in K : In(lists, A, k, s)
      BY <1>2 DEF IsAhead
    <2>2. 1 .. lists[A[k]][s] = {1}
      BY <2>1 DEF In
    <2>3. \A l \in K \ {k} : 1 .. lists[A[l]][s] = {}
      <3> SUFFICES ASSUME NEW l \in K \ {k} PROVE 1 .. lists[A[l]][s] = {}
        OBVIOUS
      <3>1. lists[A[l]][s] = 0
        BY <2>1 DEF OnceFrom, In
      <3> QED
        BY <3>1
    <2> HIDE DEF K
    <2>4. S = {<<k, 1>>}
      <3>1. \A x : x \in S <=> \E l \in K : x \in {l} \X (1 .. lists[A[l]][s])
        BY DEF Ahead, K
      <3>2. {k} \X (1 .. lists[A[k]][s]) = {<<k, 1>>}
        BY <2>2
      <3>3. \A l \in K \ {k} : {l} \X (1 .. lists[A[l]][s]) = {}
        BY <2>3
      <3> HIDE DEF S
      <3> QED
        BY <3>1, <3>2, <3>3
    <2> QED
      BY <1>2, <2>4, FS_Singleton
  <1> QED
    BY <1>1, <1>2

\* A session stands in one sector at most, and once in its list.
LEMMA StandsOnce ==
  ASSUME ChatIInv, NEW s \in Sids, NEW p \in Sectors, NEW q \in Sectors
  PROVE  /\ sessionIdList[p][s] \in {0, 1}
         /\ sessionIdList[p][s] = 1 /\ sessionIdList[q][s] = 1 => p = q
PROOF
  <1>1. /\ sessionIdList[p][s] = IF Stands(s, p) THEN 1 ELSE 0
        /\ sessionIdList[q][s] = IF Stands(s, q) THEN 1 ELSE 0
    BY DEF ChatIInv, ListsExact
  <1>2. s # 0
    BY FieldAssumption DEF Sids
  <1>3. Stands(s, p) /\ Stands(s, q) => p = q
    BY <1>2, SlotOfSession DEF Stands
  <1> QED
    BY <1>1, <1>3

\* It stands once around a speaker.
LEMMA OnceAround ==
  ASSUME ChatIInv, NEW t \in Threads, at[t].slot \in Users, StateOf(t) = "INFIELD",
         NEW i \in Nat \ {0}, NEW s \in Sids
  PROVE  OnceFrom(sessionIdList, Around(t), i, s)
PROOF
  <1> DEFINE A == Around(t)
  <1>1. /\ Len(A) \in 1 .. 9 /\ \A k \in 1 .. Len(A) : A[k] \in Sectors
        /\ \A k, j \in 1 .. Len(A) : A[k] = A[j] => k = j
    BY StandsSomewhere
  <1>2. i .. Len(A) \subseteq 1 .. Len(A)
    <2> DEFINE n == Len(A)
    <2>1. n \in Nat
      BY <1>1
    <2> HIDE DEF n
    <2>2. i .. n \subseteq 1 .. n
      BY <2>1
    <2> QED
      BY <2>2 DEF n
  <1> HIDE DEF A
  <1>3. OnceFrom(sessionIdList, A, i, s)
    BY <1>1, <1>2, StandsOnce DEF OnceFrom, In
  <1> QED
    BY <1>3 DEF A

\* A list is changed by who holds the sector alone.
LEMMA ListKept ==
  ASSUME ChatIInv, SectorsLocked, \A r \in Threads : Counted(r), [Next]_vars,
         NEW p \in Sectors, readers[p] # {}
  PROVE  sessionIdList'[p] = sessionIdList[p]
PROOF
  <1>0. sessionIdList \in [Sectors -> [Sids -> Nat]] /\ Nowhere \notin Sectors
    BY FieldAssumption DEF ChatIInv, UsersTypeOK, Sectors, Nowhere
  <1>1. ASSUME NEW s, NEW q, NEW r, p # q, p # r, sessionIdList' = Relocated(s, q, r)
        PROVE  sessionIdList'[p] = sessionIdList[p]
    <2>1. sessionIdList'[p] = [sessionIdList[p] EXCEPT ![s] = @ + 0]
      BY <1>1 DEF Relocated
    <2>2. sessionIdList[p] \in [Sids -> Nat]
      BY <1>0
    <2> QED
      BY <2>1, <2>2
  <1>2. p # Nowhere /\ ~Unlocked(p) /\ writer[p] = NoThread
    BY <1>0 DEF Unlocked, SectorsLocked
  <1>3. ASSUME NEW t \in Threads, Step(t) PROVE sessionIdList'[p] = sessionIdList[p]
    <2>1. CASE \E q \in Sectors : EnterField(t, q)
      BY <1>1, <1>2, <2>1 DEF EnterField, AddSector
    <2>2. CASE LeaveSector(t)
      BY <1>1, <1>2, <2>2 DEF LeaveSector, RemoveSector
    <2>3. CASE RemoveAndAddSector(t)
      <3> DEFINE u == at[t].slot
                 q == user[u].pos
                 r == at[t].dest
      <3>1. /\ at[t].pc = "moveSecond" /\ Unlocked(SecondOf(q, r))
            /\ sessionIdList' = Relocated(at[t].sid, q, r)
        BY <2>3 DEF RemoveAndAddSector, LockSecondAndMove
      <3>2. u \in Users /\ q \in Sectors /\ r \in Sectors /\ q # r
        BY <3>1, MessageFacts, StandsSomewhere DEF MessagePcs, Counted
      <3>3. writer[FirstOf(q, r)] = t
        BY <3>1, <3>2, FirstBelowSecond DEF SectorsLocked, Writes
      <3>4. p # FirstOf(q, r) /\ p # SecondOf(q, r)
        BY <1>2, <3>1, <3>3, ThreadFacts
      <3>5. p # q /\ p # r
        BY <3>4 DEF FirstOf, SecondOf
      <3> QED
        BY <1>1, <3>1, <3>5
    <2>4. CASE \/ CreateWaitLogin(t) \/ TooLate(t) \/ ReleaseFound(t) \/ Refuse(t)
               \/ RemoveLoginMap(t) \/ RemoveSidToUserMap(t) \/ PushIndex(t) \/ FullReturns(t)
               \/ (\E a \in Accounts : RequestLogin(t, a)) \/ AddLoginMap(t) \/ MeetOther(t)
               \/ GiveUp(t) \/ FindOther(t) \/ LockOther(t) \/ IncreaseUserCnt(t)
               \/ (\E q \in Sectors : MoveLocksFirst(t, q)) \/ StayInSector(t) \/ LockAround(t)
               \/ CopySector(t) \/ RequestHeartbeat(t)
      BY <2>4 DEF CreateWaitLogin, TooLate, ReleaseFound, Refuse, RemoveLoginMap,
         RemoveSidToUserMap, PushIndex, FullReturns, RequestLogin, AddLoginMap, MeetOther, GiveUp,
         FindOther, LockOther, IncreaseUserCnt, MoveLocksFirst, LockFirst, StayInSector,
         LockAround, LockShared, CopySector, UnlockShared, RequestHeartbeat, fieldVars
    <2> QED
      BY <1>3, <2>1, <2>2, <2>3, <2>4 DEF Step
  <1>4. ASSUME NEW t \in Threads, Waits(t) PROVE sessionIdList'[p] = sessionIdList[p]
    BY <1>4 DEF Waits
  <1>5. ASSUME NEW u \in Users, Timeout(u) PROVE sessionIdList'[p] = sessionIdList[p]
    BY <1>5, BeginsTimeout
  <1> QED
    BY <1>3, <1>4, <1>5, NextCases

\* One step of a message: what it copies it need not copy again.
LEMMA OneCopied ==
  ASSUME ChatIInv, NEW t \in Threads, Counted(t), at[t].pc = "copy", at'[t].pc = "copy",
         CopySector(t), NEW s \in Sids
  PROVE  Heard(t, s)' = Heard(t, s)
PROOF
  <1> DEFINE A == Around(t)
             i == at[t].left
             e == at[t].seen
             L == sessionIdList
  <1>1. /\ at[t].slot \in Users /\ StateOf(t) = "INFIELD" /\ i \in 1 .. Len(A)
        /\ e \in [Sids -> Nat]
    BY MessageFacts DEF MessagePcs, Counted
  <1>2. /\ Len(A) \in 1 .. 9 /\ \A k \in 1 .. Len(A) : A[k] \in Sectors
    BY <1>1, StandsSomewhere
  <1>3. /\ i < Len(A) /\ user' = user /\ sessionIdList' = L
        /\ at' = [at EXCEPT ![t].seen = Copied(A[i], e), ![t].left = i + 1]
    BY ReturnFrame DEF CopySector, UnlockShared
  <1>4. /\ at'[t].seen = Copied(A[i], e) /\ at'[t].left = i + 1 /\ at'[t].slot = at[t].slot
    <2> HIDE DEF A, i, e
    <2> QED
      BY <1>3, ThreadFacts DEF FrameOK, Idle
  <1>5. Around(t)' = A
    BY <1>3, <1>4 DEF Around
  <1>6. at'[t].seen[s] = e[s] + L[A[i]][s]
    BY <1>4 DEF Copied
  <1>7. i \in Nat \ {0} /\ i + 1 \in Nat \ {0} /\ i \in i .. Len(A)
    BY <1>1, <1>2
  <1>8. OnceFrom(L, A, i, s) /\ OnceFrom(L, A, i + 1, s)
    BY <1>1, <1>7, OnceAround
  <1>9. /\ Heard(t, s) = e[s] + Cardinality(Ahead(L, A, i, s))
        /\ Heard(t, s)' = at'[t].seen[s] + Cardinality(Ahead(L, A, i + 1, s))
    BY <1>3, <1>4, <1>5 DEF Heard, Ahead
  <1>10. i + 1 .. Len(A) = (i .. Len(A)) \ {i}
    <2> DEFINE n == Len(A)
    <2>1. n \in Nat /\ i \in Nat
      BY <1>1, <1>2
    <2> HIDE DEF n, i
    <2>2. i + 1 .. n = (i .. n) \ {i}
      BY <2>1
    <2> QED
      BY <2>2 DEF n
  <1> HIDE DEF A, i, e
  <1>11. IsAhead(L, A, i, s) <=> In(L, A, i, s) \/ IsAhead(L, A, i + 1, s)
    BY <1>7, <1>10 DEF IsAhead
  <1>12. ~(In(L, A, i, s) /\ IsAhead(L, A, i + 1, s))
    BY <1>7, <1>8, <1>10 DEF IsAhead, OnceFrom
  <1>13. L[A[i]][s] = IF In(L, A, i, s) THEN 1 ELSE 0
    BY <1>7, <1>8 DEF OnceFrom, In
  <1>14. e[s] \in Nat
    BY <1>1
  <1>15. /\ Cardinality(Ahead(L, A, i, s)) = IF IsAhead(L, A, i, s) THEN 1 ELSE 0
         /\ Cardinality(Ahead(L, A, i + 1, s)) = IF IsAhead(L, A, i + 1, s) THEN 1 ELSE 0
    BY <1>8, AheadCounted
  <1> QED
    BY <1>6, <1>9, <1>11, <1>12, <1>13, <1>14, <1>15

\* While others move, what is still to be copied stays.
LEMMA NothingCopied ==
  ASSUME ChatIInv, SectorsLocked, \A r \in Threads : Counted(r), [Next]_vars,
         NEW t \in Threads, at[t].pc = "copy", at'[t] = at[t], Around(t)' = Around(t),
         NEW s \in Sids
  PROVE  Heard(t, s)' = Heard(t, s)
PROOF
  <1> DEFINE A == Around(t)
             i == at[t].left
             e == at[t].seen
             L == sessionIdList
             M == sessionIdList'
  <1>1. /\ at[t].slot \in Users /\ StateOf(t) = "INFIELD" /\ i \in 1 .. Len(A)
    BY MessageFacts DEF MessagePcs, Counted
  <1>2. /\ Len(A) \in 1 .. 9 /\ \A k \in 1 .. Len(A) : A[k] \in Sectors
    BY <1>1, StandsSomewhere
  <1>3. i .. Len(A) \subseteq 1 .. Len(A) /\ i \in Nat \ {0}
    <2> DEFINE n == Len(A)
    <2>1. n \in Nat /\ i \in Nat \ {0}
      BY <1>1, <1>2
    <2> HIDE DEF n, i
    <2>2. i .. n \subseteq 1 .. n
      BY <2>1
    <2> QED
      BY <2>1, <2>2 DEF n
  <1>4. \A k \in i .. Len(A) : M[A[k]] = L[A[k]]
    <2> SUFFICES ASSUME NEW k \in i .. Len(A) PROVE M[A[k]] = L[A[k]]
      OBVIOUS
    <2>1. A[k] \in Sectors
      BY <1>2, <1>3
    <2>2. t \in readers[A[k]]
      BY <2>1 DEF SectorsLocked, Reads
    <2> QED
      BY <2>1, <2>2, ListKept
  <1>5. OnceFrom(L, A, i, s)
    BY <1>1, <1>3, OnceAround
  <1>6. /\ Heard(t, s) = e[s] + Cardinality(Ahead(L, A, i, s))
        /\ Heard(t, s)' = e[s] + Cardinality(Ahead(M, A, i, s))
    BY DEF Heard, Ahead
  <1> HIDE DEF A, i, e, L, M
  <1>7. /\ \A k \in i .. Len(A) : In(M, A, k, s) <=> In(L, A, k, s)
        /\ OnceFrom(M, A, i, s)
    BY <1>4, <1>5 DEF OnceFrom, In
  <1>8. IsAhead(M, A, i, s) <=> IsAhead(L, A, i, s)
    BY <1>7 DEF IsAhead
  <1>9. Cardinality(Ahead(M, A, i, s)) = Cardinality(Ahead(L, A, i, s))
    BY <1>5, <1>7, <1>8, AheadCounted
  <1> QED
    BY <1>6, <1>9

\* A thread that copies copies on, and nobody touches what it looks at.
LEMMA CopyingStep ==
  ASSUME ChatIInv, \A r \in Threads : Counted(r), [Next]_vars, NEW t \in Threads, at[t].pc = "copy"
  PROVE  CopySector(t) \/ (at'[t] = at[t] /\ Around(t)' = Around(t))
PROOF
  <1>1. HoldsSlot(t)
    BY DEF HoldsSlot, MessagePcs
  <1>2. ASSUME NEW r \in Threads \ {t}, Moves(r) PROVE at'[t] = at[t] /\ Around(t)' = Around(t)
    BY <1>1, <1>2, OthersAround
  <1>3. ASSUME Step(t) PROVE CopySector(t)
    <2>1. /\ ~RemoveAndAddSector(t) /\ ~LockAround(t) /\ \A p \in Sectors : ~MoveLocksFirst(t, p)
      BY DEF RemoveAndAddSector, LockAround, MoveLocksFirst, InTurn, Handles, Enter
    <2> QED
      BY <1>3, <2>1, HandlesNoLock DEF MessagePcs
  <1>4. ASSUME NEW r \in Threads, Waits(r) PROVE r # t /\ Moves(r)
    BY <1>4 DEF Waits, Moves, Guarded
  <1>5. ASSUME NEW u \in Users, Timeout(u)
        PROVE  TimeoutThread \in Threads \ {t} /\ Moves(TimeoutThread)
    <2> DEFINE T == TimeoutThread
    <2>1. /\ T \in Threads /\ at[T].pc = "idle" /\ Others(T) /\ UNCHANGED user
          /\ lock[u] = NoThread /\ \A v \in Users \ {u} : lock'[v] = lock[v]
      BY <1>5, BeginsTimeout, LocksSlot
    <2> HIDE DEF T
    <2>2. T \in Threads \ {t} /\ Moves(T)
      BY <2>1 DEF Moves, Guarded
    <2> QED
      BY <2>2 DEF T
  <1>6. CASE UNCHANGED <<user, lock, sessionIdList, readers, writer, at>>
    BY <1>6 DEF Around
  <1>7. ASSUME NEW r \in Threads, Step(r) PROVE r = t \/ Moves(r)
    BY <1>7, StepMoves
  <1> QED
    BY <1>2, <1>3, <1>4, <1>5, <1>6, <1>7, NextCases

\* While a message is copied, who is still to hear it does not change.
LEMMA HeardKept ==
  ASSUME ChatIInv, SectorsLocked, \A r \in Threads : Counted(r), [Next]_vars,
         NEW t \in Threads, at[t].pc = "copy", at'[t].pc = "copy", NEW s \in Sids
  PROVE  Heard(t, s)' = Heard(t, s)
PROOF
  BY CopyingStep, OneCopied, NothingCopied

\* Nobody is to hear a message twice when the copying begins.
LEMMA CopyBegins ==
  ASSUME ChatIInv, NEW t \in Threads, Counted(t), at[t].pc # "copy", LockAround(t),
         at'[t].pc = "copy", NEW s \in Sids
  PROVE  Heard(t, s)' <= 1
PROOF
  <1> DEFINE A == Around(t)
             n == at[t].left + 1
             l == IF n = Len(A) THEN "copy" ELSE "lockAround"
             m == IF n = Len(A) THEN 1 ELSE n
             L == sessionIdList
  <1>1. /\ user' = user /\ sessionIdList' = L /\ at' = [at EXCEPT ![t].pc = l, ![t].left = m]
        /\ Handles(t, "chat") \/ at[t].pc = "lockAround"
    BY DEF LockAround, LockShared, InTurn
  <1>2. l = "copy" => m = 1
    OBVIOUS
  <1>3. /\ at[t].seen = EmptyList
        /\ at[t].slot \in Users /\ StateOf(t) = "INFIELD"
    BY <1>1, MessageFacts, HandlesFacts DEF Counted, Handles, MessagePcs
  <1> HIDE DEF l, m
  <1>4. at'[t].pc = l /\ at'[t].left = m /\ at'[t].seen = EmptyList /\ at'[t].slot = at[t].slot
    BY <1>1, <1>3, ThreadFacts DEF FrameOK, Idle
  <1>5. Around(t)' = A /\ at'[t].left = 1 /\ at'[t].seen[s] = 0
    BY <1>1, <1>2, <1>4 DEF Around, EmptyList
  <1>6. Heard(t, s)' = 0 + Cardinality(Ahead(L, A, 1, s))
    BY <1>1, <1>5 DEF Heard, Ahead
  <1>7. OnceFrom(L, A, 1, s)
    BY <1>3, OnceAround
  <1> HIDE DEF A, L
  <1>8. Cardinality(Ahead(L, A, 1, s)) = IF IsAhead(L, A, 1, s) THEN 1 ELSE 0
    BY <1>7, AheadCounted
  <1> QED
    BY <1>6, <1>8

\* Nobody hears a message twice.
LEMMA HeardNext ==
  ASSUME ChatIInv, SectorsLocked, \A r \in Threads : Counted(r) /\ HeardOnce(r), [Next]_vars
  PROVE  \A r \in Threads : HeardOnce(r)'
PROOF
  <1> SUFFICES ASSUME NEW r \in Threads, at'[r].pc = "copy", NEW s \in Sids
               PROVE  Heard(r, s)' <= 1
    BY DEF HeardOnce
  <1>1. CASE at[r].pc = "copy"
    <2>1. Heard(r, s)' = Heard(r, s)
      BY <1>1, HeardKept
    <2>2. Heard(r, s) <= 1
      BY <1>1 DEF HeardOnce
    <2> QED
      BY <2>1, <2>2
  <1>2. CASE at[r].pc # "copy"
    <2>1. ASSUME NEW t \in Threads, Step(t) PROVE LockAround(r)
      <3>1. t = r
        BY <1>2, <2>1, StepMoves DEF Moves, Others
      <3>2. ~RemoveAndAddSector(r) /\ ~CopySector(r)
        BY <1>2, ReturnFrame DEF RemoveAndAddSector, CopySector
      <3>3. ASSUME NEW p \in Sectors PROVE ~MoveLocksFirst(r, p)
        <4>1. SUFFICES ASSUME MoveLocksFirst(r, p) PROVE FALSE
          OBVIOUS
        <4>2. at'[r].pc = "moveSecond"
          BY <4>1, ThreadFacts DEF MoveLocksFirst, FrameOK, Idle
        <4> QED
          BY <4>2
      <3> QED
        BY <2>1, <3>1, <3>2, <3>3, HandlesNoLock DEF MessagePcs
    <2>2. ASSUME NEW t \in Threads, Waits(t) PROVE FALSE
      BY <1>2, <2>2 DEF Waits, Others
    <2>3. ASSUME NEW u \in Users, Timeout(u) PROVE FALSE
      BY <1>2, <2>3, BeginsTimeout DEF Others, LeavePcs
    <2>4. LockAround(r)
      BY <1>2, <2>1, <2>2, <2>3, NextCases
    <2> QED
      BY <1>2, <2>4, CopyBegins
  <1> QED
    BY <1>1, <1>2

-----------------------------------------------------------------------------
(* The invariant.                                                           *)

\* LocksIInv holds when the server starts.
LEMMA LocksInit == Init => LocksIInv
PROOF
  <1> SUFFICES ASSUME Init PROVE LocksIInv
    OBVIOUS
  <1>1. /\ readers = [p \in Sectors |-> {}] /\ writer = [p \in Sectors |-> NoThread]
        /\ lock = [u \in Users |-> NoThread] /\ at = [t \in Threads |-> Idle]
        /\ app = [s \in Sids |-> "none"] /\ ended = {}
    BY DEF Init, InitField, Contract!Init, Contract!Sids, Sids
  <1>2. ASSUME NEW t \in Threads
        PROVE  /\ at[t].pc = "idle" /\ at[t].left = 0 /\ at[t].seen = EmptyList /\ t # NoThread
    BY <1>1, ChatAssumption DEF Idle
  <1>3. UsersLocked
    BY <1>1, <1>2 DEF UsersLocked
  <1>4. SectorsLocked
    BY <1>1, <1>2 DEF SectorsLocked, Writes, Reads
  <1>5. IdsInOrder
    BY <1>1 DEF IdsInOrder, Used
  <1>6. \A t \in Threads : Counted(t) /\ Met(t) /\ HeardOnce(t)
    BY <1>2 DEF Counted, Met, HeardOnce
  <1> QED
    BY <1>3, <1>4, <1>5, <1>6 DEF LocksIInv

\* Every step keeps it.
LEMMA LocksNext == ChatIInv /\ LocksIInv /\ [Next]_vars => LocksIInv'
PROOF
  <1> SUFFICES ASSUME ChatIInv, LocksIInv, [Next]_vars PROVE LocksIInv'
    OBVIOUS
  <1>1. /\ UsersLocked /\ SectorsLocked /\ IdsInOrder
        /\ \A t \in Threads : Counted(t) /\ Met(t) /\ HeardOnce(t)
    BY DEF LocksIInv
  <1>2. UsersLocked'
    BY <1>1, UsersLockedNext
  <1>3. SectorsLocked' /\ \A t \in Threads : Counted(t)'
    BY <1>1, SectorsNext
  <1>4. IdsInOrder'
    BY <1>1, IdsNext
  <1>5. \A t \in Threads : Met(t)'
    BY <1>1, MetNext
  <1>6. \A t \in Threads : HeardOnce(t)'
    BY <1>1, HeardNext
  <1> QED
    BY <1>2, <1>3, <1>4, <1>5, <1>6 DEF LocksIInv

\* Who holds a lock works on what it guards: of the users, the session and the
\* release; of the sectors, the move and the message, as far as they have come.
THEOREM LocksInvariant == Spec => []LocksIInv
PROOF
  BY LocksInit, LocksNext, ChatInvariant, PTL DEF Spec

-----------------------------------------------------------------------------
(* What follows from it.                                                    *)

\* What MessageSeesOneMoment says of a step.
OneMoment ==
    \A t \in Workers, s \in Sids :
        at[t].pc = "copy" =>
            /\ Heard(t, s) <= 1
            /\ at'[t].pc = "copy" => Heard(t, s)' = Heard(t, s)

\* A message reaches the users that stood around at one moment: from the first
\* sector copied to the last, who has heard it or is still to hear it does not
\* change, though others move in between.
THEOREM ChatHeard == Spec => MessageSeesOneMoment
PROOF
  <1>1. ASSUME ChatIInv, LocksIInv, [Next]_vars PROVE OneMoment
    <2> SUFFICES ASSUME NEW t \in Workers, NEW s \in Sids, at[t].pc = "copy"
                 PROVE  /\ Heard(t, s) <= 1
                        /\ at'[t].pc = "copy" => Heard(t, s)' = Heard(t, s)
      BY DEF OneMoment
    <2>1. t \in Threads
      BY DEF Threads
    <2>2. Heard(t, s) <= 1
      BY <1>1, <2>1 DEF LocksIInv, HeardOnce
    <2>3. at'[t].pc = "copy" => Heard(t, s)' = Heard(t, s)
      BY <1>1, <2>1, HeardKept DEF LocksIInv
    <2> QED
      BY <2>2, <2>3
  <1>2. ChatIInv /\ LocksIInv /\ [Next]_vars => [OneMoment]_vars
    BY <1>1
  <1>3. MessageSeesOneMoment <=> [][OneMoment]_vars
    BY DEF MessageSeesOneMoment, OneMoment
  <1> QED
    BY <1>2, <1>3, ChatInvariant, LocksInvariant, PTL DEF Spec

\* The locals of every handler and the number of users have their types; a message
\* takes nine locks at most.
THEOREM ChatTypes == Spec => []TypeOK
PROOF
  <1>1. ASSUME ChatIInv, LocksIInv, NEW t \in Threads
        PROVE  at[t].left \in 0 .. 9 /\ at[t].seen \in [Sids -> Nat]
    <2>1. Counted(t) /\ EmptyList \in [Sids -> Nat]
      BY <1>1 DEF LocksIInv, EmptyList
    <2>2. CASE at[t].pc \notin {"lockAround", "copy"}
      BY <2>1, <2>2 DEF Counted
    <2>3. CASE at[t].pc \in {"lockAround", "copy"}
      <3>1. Len(Around(t)) \in 1 .. 9
        BY <1>1, <2>3, MessageFacts, StandsSomewhere DEF MessagePcs
      <3> DEFINE n == Len(Around(t))
                 k == at[t].left
      <3>2. k \in 1 .. n - 1 \/ k \in 1 .. n
        BY <2>1, <2>3 DEF Counted
      <3>3. n \in 1 .. 9
        BY <3>1
      <3> HIDE DEF n, k
      <3>4. k \in 0 .. 9
        BY <3>2, <3>3
      <3>5. at[t].seen \in [Sids -> Nat]
        BY <2>1, <2>3 DEF Counted
      <3> QED
        BY <3>4, <3>5 DEF k
    <2> QED
      BY <2>2, <2>3
  <1>2. ASSUME ChatIInv, LocksIInv, UsersTypeOK /\ currentUserCnt \in Nat PROVE TypeOK
    BY <1>1, <1>2 DEF TypeOK
  <1> QED
    BY <1>2, ChatInvariant, LocksInvariant, ChatCounts, PTL

-----------------------------------------------------------------------------
(* No circle.                                                               *)

\* The threads that hold sector p.
HeldBy(p) == readers[p] \cup ({writer[p]} \ {NoThread})

\* Who waits goes up in this ranking.
FirstSector(t) == FirstOf(user[at[t].slot].pos, at[t].dest)
Rank(t) ==
    CASE at[t].pc = "lockOther"   -> 1 + at[t].sid
      [] at[t].pc = "leaveSector" -> MaxSid + 2
      [] at[t].pc = "moveSecond"  -> MaxSid + 3 + LockOrder(FirstSector(t))
      [] at[t].pc = "lockAround"  -> MaxSid + 3 + LockOrder(Around(t)[at[t].left])
      [] OTHER -> 0
TopRank == MaxSid + 3 + FieldHeight * FieldWidth

\* The places where a thread waits.
LEMMA WaitingPlaces ==
  ASSUME NEW t
  PROVE  /\ at[t].pc \in {"create", "lock"} =>
               WaitsFor(t) = {lock[at[t].slot]} \ {NoThread} /\ Rank(t) = 0
         /\ at[t].pc = "lockOther" =>
               WaitsFor(t) = {lock[at[t].victim]} \ {NoThread} /\ Rank(t) = 1 + at[t].sid
         /\ at[t].pc = "leaveSector" =>
               WaitsFor(t) = HeldBy(user[at[t].victim].pos) /\ Rank(t) = MaxSid + 2
         /\ at[t].pc = "moveSecond" =>
               /\ WaitsFor(t) = HeldBy(SecondOf(user[at[t].slot].pos, at[t].dest))
               /\ Rank(t) = MaxSid + 3 + LockOrder(FirstSector(t))
         /\ at[t].pc = "lockAround" =>
               /\ WaitsFor(t) = {writer[Around(t)[at[t].left + 1]]} \ {NoThread}
               /\ Rank(t) = MaxSid + 3 + LockOrder(Around(t)[at[t].left])
         /\ at[t].pc \notin {"create", "lock", "lockOther", "leaveSector", "moveSecond",
                             "lockAround"} =>
               WaitsFor(t) = {}
PROOF
  BY DEF WaitsFor, Rank, HeldBy

\* The sectors a thread has and the one it waits for.
LEMMA SectorsWaited ==
  ASSUME ChatIInv, LocksIInv, NEW t \in Threads
  PROVE  /\ MaxSid \in Nat
         /\ at[t].pc = "moveSecond" =>
              /\ FirstSector(t) \in Sectors
              /\ SecondOf(user[at[t].slot].pos, at[t].dest) \in Sectors
              /\ LockOrder(FirstSector(t)) < LockOrder(SecondOf(user[at[t].slot].pos, at[t].dest))
         /\ at[t].pc = "lockAround" =>
              /\ at[t].left \in 1 .. Len(Around(t)) - 1 /\ Len(Around(t)) \in 1 .. 9
              /\ at[t].left \in 1 .. Len(Around(t)) /\ at[t].left + 1 \in 1 .. Len(Around(t))
              /\ \A k \in 1 .. Len(Around(t)) : Around(t)[k] \in Sectors
              /\ \A i, j \in 1 .. Len(Around(t)) :
                    i < j => LockOrder(Around(t)[i]) < LockOrder(Around(t)[j])
         /\ at[t].pc = "leaveSector" => user[at[t].victim].pos \in Sectors
PROOF
  <1>1. MaxSid \in Nat
    BY FieldAssumption
  <1>2. CASE at[t].pc = "moveSecond"
    <2>1. at[t].slot \in Users /\ StateOf(t) = "INFIELD" /\ at[t].dest \in Sectors
      BY <1>2, MessageFacts DEF MessagePcs
    <2>2. user[at[t].slot].pos \in Sectors /\ at[t].dest # user[at[t].slot].pos
      BY <1>2, <2>1, StandsSomewhere DEF LocksIInv, Counted
    <2> QED
      BY <1>1, <1>2, <2>1, <2>2, FirstBelowSecond DEF FirstSector
  <1>3. CASE at[t].pc = "lockAround"
    <2> DEFINE A == Around(t)
               n == Len(A)
               k == at[t].left
    <2>1. at[t].slot \in Users /\ StateOf(t) = "INFIELD"
      BY <1>3, MessageFacts DEF MessagePcs
    <2>2. /\ n \in 1 .. 9 /\ \A i \in 1 .. Len(A) : A[i] \in Sectors
          /\ Ascending(A)
      BY <2>1, StandsSomewhere
    <2>3. k \in 1 .. n - 1
      BY <1>3 DEF LocksIInv, Counted
    <2> HIDE DEF n, k
    <2>4. k \in 1 .. n /\ k + 1 \in 1 .. n
      BY <2>2, <2>3
    <2> QED
      BY <1>1, <1>3, <2>2, <2>3, <2>4 DEF n, k, Ascending
  <1>4. CASE at[t].pc = "leaveSector"
    <2>1. at[t].victim \in Users /\ user[at[t].victim].state = "INFIELD"
      BY <1>4, ThreadFacts DEF InPlace, Found, LeavePcs
    <2>2. user[at[t].victim].pos \in Sectors
      BY <2>1 DEF ChatIInv, UsersMapped, LoggedIn, InSectorRange
    <2> QED
      BY <1>1, <1>4, <2>2
  <1> QED
    BY <1>1, <1>2, <1>3, <1>4

\* A thread that holds a sector and waits comes after everything that waits for
\* users, and after the sector it holds.
LEMMA SectorHolders ==
  ASSUME ChatIInv, LocksIInv, NEW p \in Sectors, NEW r \in HeldBy(p)
  PROVE  /\ r \in Threads /\ at[r].pc # "idle"
         /\ WaitsFor(r) # {} => Rank(r) >= MaxSid + 3 + LockOrder(p)
         /\ r = writer[p] /\ WaitsFor(r) # {} => Rank(r) = MaxSid + 3 + LockOrder(p)
PROOF
  <1>1. r \in Threads /\ (r \in readers[p] \/ r = writer[p])
    BY DEF HeldBy, ChatIInv, UsersTypeOK
  <1>2. /\ r = writer[p] => Writes(r, p)
        /\ r \in readers[p] => Reads(r, p)
    BY <1>1 DEF LocksIInv, SectorsLocked
  <1>3. LockOrder(p) \in Nat /\ MaxSid \in Nat
    BY OrderBounded, FieldAssumption
  <1>4. CASE Writes(r, p)
    <2>1. at[r].pc = "moveSecond" /\ p = FirstSector(r)
      BY <1>4 DEF Writes, FirstSector
    <2>2. Rank(r) = MaxSid + 3 + LockOrder(p)
      BY <2>1, WaitingPlaces
    <2> QED
      BY <1>1, <1>3, <2>1, <2>2
  <1>5. CASE Reads(r, p) /\ ~Writes(r, p)
    <2>1. CASE at[r].pc = "lockAround"
      <3>1. PICK k \in 1 .. at[r].left : Around(r)[k] = p
        BY <1>5, <2>1 DEF Reads
      <3> DEFINE n == Len(Around(r))
                 l == at[r].left
      <3>2. /\ l \in 1 .. n /\ n \in 1 .. 9
            /\ \A j \in 1 .. n : Around(r)[j] \in Sectors
            /\ \A i, j \in 1 .. n : i < j => LockOrder(Around(r)[i]) < LockOrder(Around(r)[j])
        BY <1>1, <2>1, SectorsWaited
      <3>3. Rank(r) = MaxSid + 3 + LockOrder(Around(r)[l])
        BY <2>1, WaitingPlaces
      <3>4. k \in 1 .. l
        BY <3>1
      <3> HIDE DEF n, l
      <3>5. k \in 1 .. n /\ (k < l \/ k = l)
        BY <3>2, <3>4
      <3>6. LockOrder(Around(r)[k]) < LockOrder(Around(r)[l]) \/ Around(r)[k] = Around(r)[l]
        BY <3>2, <3>5
      <3>7. LockOrder(Around(r)[l]) \in Nat
        BY <3>2, OrderBounded
      <3>8. LockOrder(p) <= LockOrder(Around(r)[l])
        BY <1>3, <3>1, <3>6, <3>7
      <3>9. Rank(r) >= MaxSid + 3 + LockOrder(p)
        BY <1>3, <3>3, <3>7, <3>8
      <3> QED
        BY <1>1, <1>2, <1>5, <2>1, <3>9
    <2>2. CASE at[r].pc = "copy"
      BY <1>1, <2>2, WaitingPlaces
    <2> QED
      BY <1>5, <2>1, <2>2 DEF Reads
  <1> QED
    BY <1>1, <1>2, <1>4, <1>5

\* The ranking has a top.
LEMMA RankBounded ==
  ASSUME ChatIInv, LocksIInv, NEW t \in Threads
  PROVE  TopRank \in Nat /\ (WaitsFor(t) # {} => Rank(t) \in Nat /\ Rank(t) < TopRank)
PROOF
  <1>1. /\ MaxSid \in Nat /\ FieldHeight * FieldWidth \in Nat
    BY FieldAssumption
  <1>2. TopRank \in Nat /\ TopRank >= MaxSid + 3
    BY <1>1 DEF TopRank
  <1>3. CASE at[t].pc \in {"create", "lock"}
    BY <1>1, <1>2, <1>3, WaitingPlaces
  <1>4. CASE at[t].pc = "lockOther"
    <2>1. at[t].sid \in Nat /\ at[t].sid <= MaxSid
      BY <1>1, <1>4, AnswerFacts DEF Sids
    <2>2. Rank(t) = 1 + at[t].sid
      BY <1>4, WaitingPlaces
    <2> QED
      BY <1>1, <1>2, <2>1, <2>2
  <1>5. CASE at[t].pc = "leaveSector"
    BY <1>1, <1>2, <1>5, WaitingPlaces
  <1>6. ASSUME NEW p \in Sectors, Rank(t) = MaxSid + 3 + LockOrder(p)
        PROVE  Rank(t) \in Nat /\ Rank(t) < TopRank
    <2>1. LockOrder(p) \in Nat /\ LockOrder(p) < FieldHeight * FieldWidth
      BY OrderBounded
    <2> QED
      BY <1>1, <1>6, <2>1 DEF TopRank
  <1>7. CASE at[t].pc = "moveSecond"
    BY <1>2, <1>6, <1>7, SectorsWaited, WaitingPlaces
  <1>8. CASE at[t].pc = "lockAround"
    <2>1. Around(t)[at[t].left] \in Sectors
      BY <1>8, SectorsWaited
    <2> QED
      BY <1>2, <1>6, <1>8, <2>1, WaitingPlaces
  <1> QED
    BY <1>2, <1>3, <1>4, <1>5, <1>7, <1>8, WaitingPlaces

\* A thread that holds a user and waits is not one that waits for its first lock.
LEMMA UserHolders ==
  ASSUME ChatIInv, LocksIInv, NEW u \in Users, NEW r \in {lock[u]} \ {NoThread}
  PROVE  /\ r \in Threads /\ at[r].pc # "idle"
         /\ WaitsFor(r) # {} =>
              \/ Rank(r) >= MaxSid + 2
              \/ /\ at[r].pc = "lockOther" /\ Rank(r) = 1 + at[r].sid
                 /\ at[r].slot = u
PROOF
  <1>1. r \in Threads /\ lock[u] = r
    BY DEF ChatIInv, UsersTypeOK
  <1>2. HoldsUser(r, u)
    BY <1>1 DEF LocksIInv, UsersLocked
  <1>3. at[r].pc \in AnswerPcs \cup MessagePcs \cup LeavePcs
    BY <1>2 DEF HoldsUser, HoldsSlot
  <1>4. at[r].pc \notin {"idle", "create", "lock"}
    BY <1>3 DEF AnswerPcs, MessagePcs, LeavePcs
  <1>5. CASE at[r].pc = "lockOther"
    <2>1. at[r].slot = u
      BY <1>2, <1>5 DEF HoldsUser, HoldsSlot, LeavePcs
    <2> QED
      BY <1>1, <1>4, <1>5, <2>1, WaitingPlaces
  <1>6. CASE at[r].pc = "leaveSector"
    BY <1>1, <1>4, <1>6, FieldAssumption, WaitingPlaces
  <1>7. CASE at[r].pc = "moveSecond"
    <2>1. LockOrder(FirstSector(r)) \in Nat /\ MaxSid \in Nat
      BY <1>1, <1>7, SectorsWaited, OrderBounded
    <2>2. Rank(r) = MaxSid + 3 + LockOrder(FirstSector(r))
      BY <1>7, WaitingPlaces
    <2> QED
      BY <1>1, <1>4, <2>1, <2>2
  <1>8. CASE at[r].pc = "lockAround"
    <2>1. LockOrder(Around(r)[at[r].left]) \in Nat /\ MaxSid \in Nat
      BY <1>1, <1>8, SectorsWaited, OrderBounded
    <2>2. Rank(r) = MaxSid + 3 + LockOrder(Around(r)[at[r].left])
      BY <1>8, WaitingPlaces
    <2> QED
      BY <1>1, <1>4, <2>1, <2>2
  <1> QED
    BY <1>1, <1>4, <1>5, <1>6, <1>7, <1>8, WaitingPlaces

\* The second user of an answer is not in the hands of an older session's answer.
LEMMA YoungerHolds ==
  ASSUME ChatIInv, LocksIInv, NEW t \in Threads, NEW r \in Threads,
         at[t].pc = "lockOther", at[r].pc = "lockOther", at[r].slot = at[t].victim
  PROVE  at[t].sid < at[r].sid /\ at[t].sid \in Nat
PROOF
  <1> DEFINE v == at[t].victim
  <1>1. /\ at[t].sid \in Sids /\ at[r].sid \in Sids /\ v \in Users
        /\ user[v].sid = at[r].sid /\ at[r].call = "answer"
    BY AnswerFacts DEF StillOwn
  <1>2. at[t].sid \in Nat /\ at[r].sid \in Nat \ {0}
    BY <1>1, FieldAssumption DEF Sids
  <1>3. /\ user[v].sid \in {at[t].other, 0} \/ user[v].sid > at[t].sid
        /\ user[v].sid = at[t].other => user[v].state \in LoggedIn
    BY <1>1 DEF LocksIInv, Met
  <1>4. user[v].state = "WAIT_IDENTIFY"
    <2>1. Answering(r)
      BY <1>1 DEF Answering, Answers
    <2> QED
      BY <1>1, <2>1 DEF ChatIInv, AskedOnce, Awaits
  <1>5. user[v].sid # at[t].other
    BY <1>3, <1>4 DEF LoggedIn
  <1> QED
    BY <1>1, <1>2, <1>3, <1>5

\* Who is waited for is at work, or waits higher up.
LEMMA WaitsUp ==
  ASSUME ChatIInv, LocksIInv, NEW t \in Threads, NEW r \in WaitsFor(t)
  PROVE  /\ r \in Threads /\ at[r].pc # "idle"
         /\ WaitsFor(r) # {} => Rank(r) > Rank(t)
PROOF
  <1>1. MaxSid \in Nat
    BY FieldAssumption
  <1>2. CASE at[t].pc \in {"create", "lock"}
    <2>1. at[t].slot \in Users /\ r \in {lock[at[t].slot]} \ {NoThread} /\ Rank(t) = 0
      BY <1>2, PlaceFacts, WaitingPlaces
    <2>2. /\ r \in Threads /\ at[r].pc # "idle"
          /\ WaitsFor(r) # {} => \/ Rank(r) >= MaxSid + 2
                                 \/ at[r].pc = "lockOther" /\ Rank(r) = 1 + at[r].sid
      BY <2>1, UserHolders
    <2>3. at[r].pc = "lockOther" => at[r].sid \in Nat
      BY <2>2, AnswerFacts, FieldAssumption DEF Sids
    <2>4. WaitsFor(r) # {} => Rank(r) \in Nat
      BY <2>2, RankBounded
    <2> QED
      BY <1>1, <2>1, <2>2, <2>3, <2>4
  <1>3. CASE at[t].pc = "lockOther"
    <2>1. /\ at[t].victim \in Users /\ r \in {lock[at[t].victim]} \ {NoThread}
          /\ Rank(t) = 1 + at[t].sid /\ at[t].sid \in Sids
      BY <1>3, AnswerFacts, WaitingPlaces
    <2>2. /\ r \in Threads /\ at[r].pc # "idle"
          /\ WaitsFor(r) # {} => \/ Rank(r) >= MaxSid + 2
                                 \/ /\ at[r].pc = "lockOther" /\ Rank(r) = 1 + at[r].sid
                                    /\ at[r].slot = at[t].victim
      BY <2>1, UserHolders
    <2>3. at[t].sid \in Nat /\ at[t].sid <= MaxSid
      BY <1>1, <2>1 DEF Sids
    <2>4. CASE Rank(r) >= MaxSid + 2
      <3>1. WaitsFor(r) # {} => Rank(r) \in Nat
        BY <2>2, RankBounded
      <3> QED
        BY <1>1, <2>1, <2>2, <2>3, <2>4, <3>1
    <2>5. CASE at[r].pc = "lockOther" /\ at[r].slot = at[t].victim /\ Rank(r) = 1 + at[r].sid
      <3>1. at[t].sid < at[r].sid /\ at[r].sid \in Sids
        BY <1>3, <2>2, <2>5, YoungerHolds, AnswerFacts
      <3>2. at[r].sid \in Nat
        BY <1>1, <3>1 DEF Sids
      <3> QED
        BY <2>1, <2>2, <2>3, <2>5, <3>1, <3>2
    <2> QED
      BY <2>2, <2>4, <2>5
  <1>4. CASE at[t].pc = "leaveSector"
    <2> DEFINE p == user[at[t].victim].pos
    <2>1. p \in Sectors /\ r \in HeldBy(p) /\ Rank(t) = MaxSid + 2
      BY <1>4, SectorsWaited, WaitingPlaces
    <2>2. /\ r \in Threads /\ at[r].pc # "idle" /\ LockOrder(p) \in Nat
          /\ WaitsFor(r) # {} => Rank(r) >= MaxSid + 3 + LockOrder(p)
      BY <2>1, SectorHolders, OrderBounded
    <2> HIDE DEF p
    <2>3. CASE WaitsFor(r) # {}
      <3> DEFINE k == Rank(r)
                 l == LockOrder(p)
      <3>1. k >= MaxSid + 3 + l /\ l \in Nat
        BY <2>2, <2>3
      <3>2. k \in Int
        BY <1>1, <2>1, <2>2, <2>3, RankBounded
      <3> HIDE DEF k, l
      <3>3. k > MaxSid + 2
        BY <1>1, <3>1, <3>2
      <3> QED
        BY <2>1, <2>2, <3>3 DEF k
    <2> QED
      BY <2>2, <2>3
  <1>5. CASE at[t].pc = "moveSecond"
    <2> DEFINE p == FirstSector(t)
               q == SecondOf(user[at[t].slot].pos, at[t].dest)
    <2>1. /\ p \in Sectors /\ q \in Sectors /\ LockOrder(p) < LockOrder(q)
          /\ r \in HeldBy(q) /\ Rank(t) = MaxSid + 3 + LockOrder(p)
      BY <1>5, SectorsWaited, WaitingPlaces
    <2>2. /\ r \in Threads /\ at[r].pc # "idle" /\ LockOrder(p) \in Nat /\ LockOrder(q) \in Nat
          /\ WaitsFor(r) # {} => Rank(r) >= MaxSid + 3 + LockOrder(q)
      BY <2>1, SectorHolders, OrderBounded
    <2> HIDE DEF p, q
    <2>3. WaitsFor(r) # {} => Rank(r) \in Int
      BY <2>2, RankBounded
    <2> QED
      BY <1>1, <2>1, <2>2, <2>3
  <1>6. CASE at[t].pc = "lockAround"
    <2> DEFINE p == Around(t)[at[t].left]
               q == Around(t)[at[t].left + 1]
    <2>1. /\ at[t].left \in 1 .. Len(Around(t)) /\ at[t].left + 1 \in 1 .. Len(Around(t))
          /\ at[t].left < at[t].left + 1
      BY <1>6, SectorsWaited
    <2>2. /\ p \in Sectors /\ q \in Sectors /\ LockOrder(p) < LockOrder(q)
          /\ r \in {writer[q]} \ {NoThread} /\ Rank(t) = MaxSid + 3 + LockOrder(p)
      BY <1>6, <2>1, SectorsWaited, WaitingPlaces
    <2>3. r \in HeldBy(q) /\ r = writer[q]
      BY <2>2 DEF HeldBy
    <2>4. /\ r \in Threads /\ at[r].pc # "idle" /\ LockOrder(p) \in Nat /\ LockOrder(q) \in Nat
          /\ WaitsFor(r) # {} => Rank(r) = MaxSid + 3 + LockOrder(q)
      BY <2>2, <2>3, SectorHolders, OrderBounded
    <2> HIDE DEF p, q
    <2> QED
      BY <1>1, <2>2, <2>4
  <1> QED
    BY <1>2, <1>3, <1>4, <1>5, <1>6, WaitingPlaces

\* Threads that hold a user, two users, a user and a sector or several sectors never
\* wait for each other in a circle: while one waits, one that is waited for goes on.
THEOREM ChatGoesOn == Spec => []NoCircularWait
PROOF
  <1>1. ASSUME ChatIInv, LocksIInv PROVE NoCircularWait
    <2> SUFFICES ASSUME NEW t \in Threads, WaitsFor(t) # {},
                        \A r \in Threads : at[r].pc # "idle" => WaitsFor(r) # {}
                 PROVE  FALSE
      BY DEF NoCircularWait
    <2> DEFINE Blocked == {r \in Threads : WaitsFor(r) # {}}
               Below == {TopRank - Rank(r) : r \in Blocked}
    <2>1. \A r \in Blocked : TopRank \in Nat /\ Rank(r) \in Nat /\ Rank(r) < TopRank
      BY <1>1, RankBounded
    <2>2. Below \subseteq Nat /\ Below # {}
      <3>1. ASSUME NEW r \in Blocked PROVE TopRank - Rank(r) \in Nat
        BY <2>1
      <3> QED
        BY <3>1
    <2>3. ASSUME NEW r \in Blocked PROVE \E w \in Blocked : Rank(w) > Rank(r)
      <3>1. PICK w : w \in WaitsFor(r)
        OBVIOUS
      <3>2. w \in Threads /\ at[w].pc # "idle" /\ (WaitsFor(w) # {} => Rank(w) > Rank(r))
        BY <1>1, <3>1, WaitsUp
      <3> QED
        BY <3>2
    <2> HIDE DEF Blocked
    <2>4. PICK n \in Below : \A m \in Below : ~ (<<m, n>> \in OpToRel(<, Nat))
      BY <2>2, NatLessThanWellFounded, WFMin
    <2>5. PICK r \in Blocked : n = TopRank - Rank(r)
      BY <2>4
    <2>6. PICK w \in Blocked : Rank(w) > Rank(r)
      BY <2>3
    <2>7. TopRank - Rank(w) < n /\ TopRank - Rank(w) \in Nat /\ n \in Nat
      BY <2>1, <2>5, <2>6
    <2>8. <<TopRank - Rank(w), n>> \in OpToRel(<, Nat)
      BY <2>7 DEF OpToRel
    <2> QED
      BY <2>4, <2>8
  <1> QED
    BY <1>1, ChatInvariant, LocksInvariant, PTL
=============================================================================
