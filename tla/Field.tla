-------------------------------- MODULE Field --------------------------------
(***************************************************************************)
(* CField of the chat server (FieldV2_Multi.h, FieldV2_Multi.cpp): a grid  *)
(* of sectors, each with the list of the sessions in it and a shared mutex.*)
(* A move locks the two sectors it touches, a chat message locks the up to *)
(* nine sectors around the speaker for reading; both take the locks in the *)
(* order of y * FIELD_WIDTH + x.  The operators are the steps the handlers *)
(* of ChatUsers are built from.  The order inside a list is left out: a    *)
(* list is the number of times each session stands in it.                  *)
(***************************************************************************)
EXTENDS Integers, Sequences

CONSTANTS FieldWidth, FieldHeight,  \* FIELD_WIDTH and FIELD_HEIGHT, 50 in the code
          MaxSid                    \* bound: session ids issued

ASSUME FieldAssumption ==
    FieldWidth \in Nat \ {0} /\ FieldHeight \in Nat \ {0} /\ MaxSid \in Nat

Sids == 1 .. MaxSid

VARIABLES sessionIdList,  \* sector -> how often each session is in its list
          readers,        \* sector -> threads holding its lock shared
          writer          \* sector -> the thread holding its lock alone

fieldVars == <<sessionIdList, readers, writer>>

Sectors  == (0 .. FieldWidth - 1) \X (0 .. FieldHeight - 1)   \* <<x, y>>
Nowhere  == <<-1, -1>>
NoThread == "none"
EmptyList == [s \in Sids |-> 0]

InSectorRange(p) == p \in Sectors

\* One comparison of GetAround: cell i of the nine around p, row by row, if it is
\* inside.  As in the code only the side it lies on is compared with the border.
AroundCell(p, i) ==
    LET cell == <<p[1] + (i % 3) - 1, p[2] + (i \div 3) - 1>>
    IN  IF /\ i % 3 = 0 => cell[1] >= 0
           /\ i % 3 = 2 => cell[1] < FieldWidth
           /\ i \div 3 = 0 => cell[2] >= 0
           /\ i \div 3 = 2 => cell[2] < FieldHeight
        THEN <<cell>> ELSE <<>>

\* The sectors a speaker at p is heard in, in the order of the locks.
GetAround(p) ==
    AroundCell(p, 0) \o AroundCell(p, 1) \o AroundCell(p, 2)
    \o AroundCell(p, 3) \o AroundCell(p, 4) \o AroundCell(p, 5)
    \o AroundCell(p, 6) \o AroundCell(p, 7) \o AroundCell(p, 8)

\* Faulty: no order, so the sector left is always locked first.
LockOrder_LeftFirst(p) == 0

LockOrder(p) == p[2] * FieldWidth + p[1]

-----------------------------------------------------------------------------
InitField ==
    /\ sessionIdList = [p \in Sectors |-> EmptyList]
    /\ readers = [p \in Sectors |-> {}]
    /\ writer = [p \in Sectors |-> NoThread]

Unlocked(p) == writer[p] = NoThread /\ readers[p] = {}

\* The lists after s left "from" (whose loop erases one entry if there is one)
\* and entered "to"; Nowhere stands for neither.
Relocated(s, from, to) ==
    [p \in Sectors |->
        [sessionIdList[p] EXCEPT
            ![s] = (IF p = from /\ @ > 0 THEN @ - 1 ELSE @) + (IF p = to THEN 1 ELSE 0)]]

AddSector(p, s) ==
    /\ Unlocked(p)
    /\ sessionIdList' = Relocated(s, Nowhere, p)
    /\ UNCHANGED <<readers, writer>>

RemoveSector(p, s) ==
    /\ Unlocked(p)
    /\ sessionIdList' = Relocated(s, p, Nowhere)
    /\ UNCHANGED <<readers, writer>>

\* RemoveAndAddSector: the lower sector is locked first ...
FirstOf(p, q)  == IF LockOrder(p) > LockOrder(q) THEN q ELSE p
SecondOf(p, q) == IF LockOrder(p) > LockOrder(q) THEN p ELSE q

LockFirst(t, from, to) ==
    LET p == FirstOf(from, to)
    IN  /\ Unlocked(p)
        /\ writer' = [writer EXCEPT ![p] = t]
        /\ UNCHANGED <<sessionIdList, readers>>

\* Faulty: the second lock is not waited for.
LockSecondAndMove_NoWait(t, from, to, s) ==
    /\ sessionIdList' = Relocated(s, from, to)
    /\ writer' = [writer EXCEPT ![FirstOf(from, to)] = NoThread]
    /\ UNCHANGED readers

\* ... then the other; with both held the session changes its list and the
\* locks are given back.
LockSecondAndMove(t, from, to, s) ==
    /\ Unlocked(SecondOf(from, to))
    /\ sessionIdList' = Relocated(s, from, to)
    /\ writer' = [writer EXCEPT ![FirstOf(from, to)] = NoThread]
    /\ UNCHANGED readers

\* GetAroundUserSessionId: LocksShared takes every lock ...
LockShared(t, p) ==
    /\ writer[p] = NoThread
    /\ readers' = [readers EXCEPT ![p] = @ \cup {t}]
    /\ UNCHANGED <<sessionIdList, writer>>

\* ... and each sector is copied and unlocked in turn.
Copied(p, seen) == [s \in Sids |-> seen[s] + sessionIdList[p][s]]

UnlockShared(t, p) ==
    /\ readers' = [readers EXCEPT ![p] = @ \ {t}]
    /\ UNCHANGED <<sessionIdList, writer>>
=============================================================================
