-------------------------- MODULE DesktopAgreesProofs --------------------------
(***************************************************************************)
(* The convergence of DesktopSync, for any devices, objects, edits and     *)
(* failures: when nothing disturbs it (Allowed is empty), a device that    *)
(* has taken in the whole log, and has neither an edit nor a conflict of   *)
(* an object, shows what the server has.                                   *)
(***************************************************************************)
EXTENDS DesktopSyncProofs

(* The content of a version: the one every device started with, or that of *)
(* the change which made the version.                                      *)
Start(o) == IF o \in Shared THEN 1 ELSE 0
StartContent(o) == IF o \in Shared THEN 1 ELSE Nothing
Reads(o, v, content) ==
  \/ v = Start(o) /\ content = StartContent(o)
  \/ \E c \in log : c.object = o /\ c.version = v /\ c.content = content

(* Cursors order the changes of an object as versions do, and the server   *)
(* has the last one.                                                       *)
HistoryInv ==
  /\ \A c \in log : Start(c.object) < c.version
  /\ \A c, e \in log : c.object = e.object /\ c.cursor < e.cursor => c.version < e.version
  /\ \A o \in Objects : Reads(o, server[o].version, server[o].content)
  /\ \A d \in Devices, o \in Objects : Start(o) <= version[d][o]

(* What the user resolves is the conflict that is stored.                  *)
ChoiceFits(d) ==
  choosing[d] # None =>
    /\ pc[d] # "apply"
    /\ conflict[d][choosing[d].change.object] # None
    /\ choosing[d].change = conflict[d][choosing[d].change.object]

(* A conflict stands between local edits and a later version, and keeps    *)
(* its object out of a push.                                               *)
ConflictFits(d) ==
  \A o \in Objects : conflict[d][o] # None =>
    /\ conflict[d][o].object = o /\ Pending(d, o)
    /\ version[d][o] <= conflict[d][o].version
    /\ o \notin InBatch(d)

(* Until it is completed a push is of edits that are still in the outbox.  *)
BatchFits(d) == \A o \in InBatch(d) : Pending(d, o)

(* A change being applied is newer than what the device has.               *)
ApplyFits(d) ==
  pc[d] = "apply" =>
    /\ version[d][AtHand(d).object] < AtHand(d).version
    /\ verdict[d] # "take" => Pending(d, AtHand(d).object)

(* Only the push whose answer is awaited is in the log: the rows of all    *)
(* others are gone, and their versions the device's.                       *)
Awaited(d, c) == pc[d] = "await" /\ c.key = Key(d)
OwnFits(d) ==
  \A c \in log : c.device = d /\ ~Awaited(d, c) =>
    /\ c.version <= version[d][c.object]
    /\ \A k \in c.key[2] :
         /\ Pending(d, k[1]) => k[2] < outbox[d][k[1]].seq
         /\ k[1] \in InBatch(d) => k[2] < batch[d][k[1]].seq
AwaitFits(d) ==
  \A c \in log : c.device = d /\ Awaited(d, c) =>
    /\ c.object \in InBatch(d) /\ version[d][c.object] < c.version
    /\ \A e \in log : e.key = c.key /\ e.object = c.object => e = c

(* Without local edits, a device shows the content of its version.         *)
ShownFits(d) ==
  \A o \in Objects : ~Pending(d, o) => Reads(o, version[d][o], item[d][o])

(* No change that was passed over is newer than the device's version or    *)
(* the conflict stored for its object.                                     *)
Position(d) == IF pc[d] \in {"check", "apply"} THEN page[d].next - 1 ELSE cursor[d]
Passed(d, c) ==
  \/ c.version <= version[d][c.object]
  \/ conflict[d][c.object] # None /\ c.version <= conflict[d][c.object].version
NothingMissed(d) ==
  /\ cursor[d] <= Position(d) /\ Position(d) <= LastCursor
  /\ \A c \in log : c.cursor <= Position(d) => Passed(d, c)

DeviceInv(d) ==
  /\ ChoiceFits(d) /\ ConflictFits(d) /\ BatchFits(d) /\ ApplyFits(d)
  /\ OwnFits(d) /\ AwaitFits(d) /\ ShownFits(d) /\ NothingMissed(d)
AInv == EInv /\ HistoryInv /\ \A d \in Devices : DeviceInv(d)
-----------------------------------------------------------------------------
(* A step of another device changes nothing of what is true of this one.   *)
Still(d) ==
  /\ UNCHANGED <<item[d], outbox[d], version[d], conflict[d], cursor[d], choosing[d]>>
  /\ UNCHANGED <<pc[d], page[d], verdict[d], batch[d]>>

(* The log stays, or grows by changes of other devices with new cursors.   *)
Extended(d) ==
  /\ log \subseteq log' /\ LastCursor <= LastCursor'
  /\ \A c \in log' \ log : c.device # d /\ c.cursor \notin 0 .. LastCursor

LEMMA PageTyped ==
  ASSUME IInv, NEW d \in Devices
  PROVE  /\ LastCursor \in Nat /\ cursor[d] \in Nat
         /\ page[d].next \in Nat /\ page[d].last \in Nat
         /\ page[d].last <= LastCursor
         /\ pc[d] \in {"check", "apply"} => page[d].next # 0
         /\ pc[d] = "apply" => page[d].next \in 1 .. LastCursor
<1>1. LastCursor \in Nat
  BY LastCursorTyped DEF IInv
<1>2. cursor[d] \in Nat /\ page[d].next \in Nat /\ page[d].last \in Nat
  BY DEF IInv, TypeOK
<1>3. PageFits(d)
  BY DEF IInv, PageInv
<1> QED
  BY <1>1, <1>2, <1>3 DEF PageFits

LEMMA LogTyped ==
  ASSUME IInv, NEW c \in log
  PROVE  /\ c.object \in Objects /\ c.version \in Nat /\ c.content \in Content
         /\ c.device \in Devices /\ c.cursor \in 1 .. LastCursor
         /\ c.version <= server[c.object].version
         /\ c # None
<1>1. c \in Change /\ None \notin Change
  BY NoneAssumption DEF IInv, TypeOK
<1>2. c.cursor \in 1 .. LastCursor /\ c.version <= server[c.object].version
  BY DEF IInv, LogInv
<1> QED
  BY <1>1, <1>2 DEF Change

LEMMA ReadsGrows ==
  ASSUME NEW o, NEW v, NEW content, Reads(o, v, content), log \subseteq log'
  PROVE  Reads(o, v, content)'
BY DEF Reads, Start, StartContent, Nothing

LEMMA Bystander ==
  ASSUME IInv, LogInv', KeyInv', NEW d \in Devices, DeviceInv(d), Still(d), Extended(d)
  PROVE  DeviceInv(d)'
<1>1. /\ UNCHANGED <<item[d], outbox[d], version[d], conflict[d], cursor[d], choosing[d]>>
      /\ UNCHANGED <<pc[d], page[d], verdict[d], batch[d]>>
      /\ log \subseteq log' /\ LastCursor <= LastCursor'
      /\ \A c \in log' \ log : c.device # d /\ c.cursor \notin 0 .. LastCursor
  BY DEF Still, Extended
<1>2. ChoiceFits(d)'
  BY <1>1 DEF DeviceInv, ChoiceFits
<1>3. ConflictFits(d)' /\ BatchFits(d)'
  BY <1>1 DEF DeviceInv, ConflictFits, BatchFits, Pending, InBatch
<1>4. ApplyFits(d)'
  <2> SUFFICES ASSUME pc[d] = "apply"
               PROVE  ApplyFits(d)'
    BY <1>1 DEF ApplyFits
  <2>1. page[d].next \in 1 .. LastCursor
    BY PageTyped
  <2>2. AtHand(d)' = AtHand(d)
    BY <1>1, <2>1, AtHandStays DEF IInv
  <2>3. /\ version[d][AtHand(d).object] < AtHand(d).version
        /\ verdict[d] # "take" => Pending(d, AtHand(d).object)
    BY DEF DeviceInv, ApplyFits
  <2> QED
    BY <1>1, <2>2, <2>3 DEF ApplyFits, Pending
<1>5. Key(d)' = Key(d)
  BY <1>1 DEF Key, InBatch
<1>6. \A c \in log : Awaited(d, c)' <=> Awaited(d, c)
  BY <1>1, <1>5 DEF Awaited
<1>7. OwnFits(d)'
  BY <1>1, <1>6 DEF DeviceInv, OwnFits, Pending, InBatch
<1>8. AwaitFits(d)'
  <2>1. \A c \in log' : c.key[1] = c.device
    BY DEF KeyInv
  <2>2. ASSUME NEW c \in log, c.device = d, Awaited(d, c)
        PROVE  /\ c.object \in InBatch(d) /\ version[d][c.object] < c.version
               /\ \A e \in log : e.key = c.key /\ e.object = c.object => e = c
    BY <2>2 DEF DeviceInv, AwaitFits
  <2>3. ASSUME NEW c \in log, c.device = d, NEW e \in log', e.key = c.key
        PROVE  e \in log
    BY <1>1, <2>1, <2>3
  <2> QED
    BY <1>1, <1>6, <2>2, <2>3 DEF AwaitFits, InBatch
<1>9. ShownFits(d)'
  <2>1. ASSUME NEW o \in Objects, ~Pending(d, o)
        PROVE  Reads(o, version[d][o], item[d][o])'
    <3> PICK v, x : v = version[d][o] /\ x = item[d][o]
      OBVIOUS
    <3>1. Reads(o, v, x)
      BY <2>1 DEF DeviceInv, ShownFits
    <3>2. Reads(o, v, x)'
      BY <1>1, <3>1, ReadsGrows
    <3> QED
      BY <1>1, <3>2 DEF Reads, Start, StartContent, Nothing
  <2> QED
    BY <1>1, <2>1 DEF ShownFits, Pending
<1>10. NothingMissed(d)'
  <2>1. Position(d)' = Position(d)
    BY <1>1 DEF Position
  <2>2. /\ Position(d) \in Nat /\ Position(d) <= LastCursor /\ cursor[d] <= Position(d)
        /\ LastCursor \in Nat /\ LastCursor' \in Nat
    <3>1. LastCursor \in Nat /\ LastCursor' \in Nat
      <4>1. IsFiniteSet(log) /\ IsFiniteSet(log')
        BY DEF IInv, LogInv
      <4> QED
        BY <4>1, FS_CardinalityType DEF LastCursor
    <3> QED
      BY <3>1, PageTyped DEF DeviceInv, NothingMissed, Position
  <2>3. ASSUME NEW c \in log', c.cursor <= Position(d)
        PROVE  Passed(d, c)'
    <3>1. c.cursor \in 1 .. LastCursor'
      BY DEF LogInv
    <3>2. c \in log
      BY <1>1, <2>2, <2>3, <3>1
    <3>3. Passed(d, c)
      BY <2>3, <3>2 DEF DeviceInv, NothingMissed
    <3> QED
      BY <1>1, <3>3 DEF Passed
  <2> QED
    BY <1>1, <2>1, <2>2, <2>3 DEF NothingMissed
<1> QED
  BY <1>2, <1>3, <1>4, <1>7, <1>8, <1>9, <1>10 DEF DeviceInv
-----------------------------------------------------------------------------
(* A step that only moves sync_now: which of its steps passes over a       *)
(* change, and that the others pass over none.                             *)
LEMMA NeverReplayed ==
  ASSUME IInv, NEW d \in Devices, OwnFits(d), pc[d] = "send"
  PROVE  ~Answered(d)
<1> SUFFICES ASSUME Answered(d)
             PROVE  FALSE
  OBVIOUS
<1>1. PICK c \in log : c.key = Key(d)
  BY DEF Answered, Stored
<1>2. c.device = d /\ ~Awaited(d, c)
  <2>1. c.key[1] = c.device /\ Key(d)[1] = d
    BY DEF IInv, KeyInv, Key
  <2> QED
    BY <1>1, <2>1 DEF Awaited
<1>3. InBatch(d) # {} /\ \A o \in InBatch(d) : batch[d][o] \in Sent
  BY BatchTyped DEF IInv
<1>4. PICK o \in InBatch(d) : batch[d][o].seq \in Nat
  BY <1>3 DEF Sent
<1>5. PICK k \in c.key[2] : k = <<o, batch[d][o].seq>>
  <2>1. <<o, batch[d][o].seq>> \in Key(d)[2]
    BY DEF Key
  <2> QED
    BY <1>1, <2>1
<1>6. k[2] < batch[d][o].seq
  BY <1>2, <1>5 DEF OwnFits
<1> QED
  BY <1>4, <1>5, <1>6

LEMMA MovesPosition ==
  ASSUME IInv, Allowed = {}, NEW d \in Devices, DeviceInv(d), Moves(d)
  PROVE  /\ pc[d] # "await" /\ pc'[d] # "await"
         /\ pc'[d] = "apply" => Check(d)
         /\ cursor'[d] <= Position(d)' /\ Position(d)' \in Nat /\ Position(d)' <= LastCursor
         /\ \A c \in log : c.cursor <= Position(d)' => Passed(d, c)
<1> PICK p : p = Position(d)
  OBVIOUS
<1>1. /\ LastCursor \in Nat /\ cursor[d] \in Nat
      /\ page[d].next \in Nat /\ page[d].last \in Nat /\ page[d].last <= LastCursor
      /\ pc[d] \in {"check", "apply"} => page[d].next # 0
  BY PageTyped
<1>2. /\ p = IF pc[d] \in {"check", "apply"} THEN page[d].next - 1 ELSE cursor[d]
      /\ p \in Nat /\ cursor[d] <= p /\ p <= LastCursor
      /\ \A c \in log : c.cursor <= p => Passed(d, c)
  BY <1>1 DEF DeviceInv, NothingMissed, Position
<1>3. TypeOK
  BY DEF IInv
<1>4. \A c \in log : c.cursor \in Nat
  BY <1>1, LogTyped
<1>5. ASSUME pc[d] # "await", pc'[d] \notin {"await", "apply"}, cursor'[d] <= Position(d)',
             Position(d)' \in Nat, Position(d)' <= p
      PROVE  /\ pc[d] # "await" /\ pc'[d] # "await"
             /\ pc'[d] = "apply" => Check(d)
             /\ cursor'[d] <= Position(d)' /\ Position(d)' \in Nat /\ Position(d)' <= LastCursor
             /\ \A c \in log : c.cursor <= Position(d)' => Passed(d, c)
  BY <1>1, <1>2, <1>4, <1>5
<1>6. CASE Fetch(d)
  <2>1. /\ pc[d] \in {"idle", "pull"} /\ pc'[d] = "check"
        /\ page'[d].next = cursor[d] + 1 /\ UNCHANGED cursor
    BY <1>3, <1>6 DEF Fetch, Goto, TypeOK, store
  <2>2. Position(d)' = cursor[d] /\ p = cursor[d]
    BY <1>1, <1>2, <2>1 DEF Position
  <2> QED
    BY <1>1, <1>2, <1>5, <2>1, <2>2
<1>7. CASE Skip(d)
  <2>1. /\ pc[d] = "check" /\ UNCHANGED <<pc, cursor>>
        /\ page[d].next <= page[d].last /\ page'[d].next = page[d].next + 1
        /\ AtHand(d).version <= version[d][AtHand(d).object]
    BY <1>3, <1>7 DEF Skip, NextChange, TypeOK, store
  <2>2. Position(d)' = page[d].next /\ p = page[d].next - 1 /\ page[d].next \in 1 .. LastCursor
    BY <1>1, <1>2, <2>1 DEF Position
  <2>3. AtHand(d) \in log /\ AtHand(d).cursor = page[d].next
    BY <2>2, AtHandFacts DEF IInv
  <2>4. ASSUME NEW c \in log, c.cursor <= page[d].next
        PROVE  Passed(d, c)
    <3>1. CASE c.cursor <= p
      BY <1>2, <3>1
    <3>2. CASE c.cursor = page[d].next
      <4>1. c = AtHand(d)
        BY <2>3, <3>2 DEF IInv, LogInv
      <4> QED
        BY <2>1, <4>1 DEF Passed
    <3> QED
      BY <1>1, <1>4, <2>2, <2>4, <3>1, <3>2
  <2> QED
    BY <1>1, <1>2, <2>1, <2>2, <2>4
<1>8. CASE Check(d)
  <2>1. pc[d] = "check" /\ pc'[d] = "apply" /\ UNCHANGED <<page, cursor>>
    BY <1>3, <1>8 DEF Check, Goto, TypeOK, store
  <2>2. Position(d)' = p
    BY <1>2, <2>1 DEF Position
  <2> QED
    BY <1>2, <1>8, <2>1, <2>2
<1>9. CASE Mark(d)
  <2>1. /\ pc[d] = "check" /\ page[d].last < page[d].next
        /\ cursor'[d] = Moved(d) /\ pc'[d] \in {"idle", "pull", "collect"}
    BY <1>1, <1>3, <1>9 DEF Mark, Stop, Goto, TypeOK
  <2>2. Position(d)' = Moved(d)
    BY <2>1 DEF Position
  <2>3. Moved(d) \in Nat /\ Moved(d) <= p
    BY <1>1, <1>2, <2>1 DEF Moved
  <2> QED
    BY <1>5, <2>1, <2>2, <2>3
<1>10. CASE NothingToPush(d)
  <2>1. pc[d] = "collect" /\ pc'[d] = "pull" /\ UNCHANGED cursor
    BY <1>3, <1>10 DEF NothingToPush, Goto, TypeOK, store
  <2>2. Position(d)' = cursor[d]
    BY <2>1 DEF Position
  <2> QED
    BY <1>1, <1>2, <1>5, <2>1, <2>2
<1>11. CASE SendReplayed(d)
  BY <1>11, NeverReplayed DEF SendReplayed, DeviceInv
<1>12. CASE SendRefused(d) \/ Quits(d)
  <2>1. pc[d] # "await" /\ pc'[d] \in {"pull", "idle"} /\ UNCHANGED cursor
    <3>1. CASE SendRefused(d)
      BY <1>3, <3>1 DEF SendRefused, Stop, Goto, TypeOK, store
    <3>2. CASE Quits(d)
      BY <1>3, <3>2 DEF Quits, Stop, Goto, TypeOK, store
    <3> QED
      BY <1>12, <3>1, <3>2
  <2>2. Position(d)' = cursor[d]
    BY <2>1 DEF Position
  <2> QED
    BY <1>1, <1>2, <1>5, <2>1, <2>2
<1> QED
  BY <1>6, <1>7, <1>8, <1>9, <1>10, <1>11, <1>12 DEF Moves

LEMMA MovesAgree ==
  ASSUME AInv, Allowed = {}, NEW d \in Devices, Moves(d)
  PROVE  DeviceInv(d)'
<1>1. IInv /\ TypeOK /\ DeviceInv(d)
  BY DEF AInv, EInv, IInv
<1>2. /\ UNCHANGED <<server, log, item, outbox, version, conflict, choosing>>
      /\ UNCHANGED batch \/ batch' = [batch EXCEPT ![d] = NoBatch]
  BY MovesAreQuiet DEF Quiet
<1>3. /\ InBatch(d)' \subseteq InBatch(d)
      /\ \A o \in InBatch(d)' : batch'[d][o] = batch[d][o]
  <2>1. batch'[d] = batch[d] \/ batch'[d] = NoBatch
    BY <1>1, <1>2 DEF TypeOK
  <2> QED
    BY <2>1 DEF InBatch, NoBatch
<1>4. /\ pc[d] # "await" /\ pc'[d] # "await"
      /\ pc'[d] = "apply" => Check(d)
      /\ cursor'[d] <= Position(d)' /\ Position(d)' \in Nat /\ Position(d)' <= LastCursor
      /\ \A c \in log : c.cursor <= Position(d)' => Passed(d, c)
  BY <1>1, MovesPosition
<1>5. ChoiceFits(d)'
  <2>1. choosing[d] # None => ~Check(d)
    BY DEF Check
  <2> QED
    BY <1>1, <1>2, <1>4, <2>1 DEF DeviceInv, ChoiceFits
<1>6. ConflictFits(d)' /\ BatchFits(d)'
  BY <1>1, <1>2, <1>3 DEF DeviceInv, ConflictFits, BatchFits, Pending
<1>7. ApplyFits(d)'
  <2> SUFFICES ASSUME pc'[d] = "apply"
               PROVE  ApplyFits(d)'
    BY DEF ApplyFits
  <2>1. /\ version[d][AtHand(d).object] < AtHand(d).version
        /\ verdict'[d] = Decision(d) /\ UNCHANGED page
    BY <1>1, <1>4 DEF Check, TypeOK
  <2>2. AtHand(d)' = AtHand(d)
    BY <1>2, <2>1 DEF AtHand
  <2>3. verdict'[d] # "take" => Pending(d, AtHand(d).object)
    BY <2>1 DEF Decision
  <2> QED
    BY <1>2, <2>1, <2>2, <2>3 DEF ApplyFits, Pending
<1>8. OwnFits(d)' /\ AwaitFits(d)'
  BY <1>1, <1>2, <1>3, <1>4 DEF DeviceInv, OwnFits, AwaitFits, Awaited, Pending
<1>9. ShownFits(d)'
  BY <1>1, <1>2 DEF DeviceInv, ShownFits, Pending, Reads, Start, StartContent, Nothing
<1>10. NothingMissed(d)'
  <2>1. LastCursor' = LastCursor /\ \A c \in log : Passed(d, c)' <=> Passed(d, c)
    BY <1>2 DEF LastCursor, Passed
  <2> QED
    BY <1>2, <1>4, <2>1 DEF NothingMissed
<1> QED
  BY <1>5, <1>6, <1>7, <1>8, <1>9, <1>10 DEF DeviceInv
-----------------------------------------------------------------------------
(* The user: an edit gets the highest row number so far, and what is       *)
(* resolved is a conflict that no push and no apply has at hand.           *)
LEMMA EditAgrees ==
  ASSUME AInv, Allowed = {}, NEW d \in Devices, NEW o, NEW content, NEW op,
         Edited(d, o, content, op)
  PROVE  DeviceInv(d)'
<1>1. IInv /\ TypeOK /\ DeviceInv(d) /\ KeyInv
  BY DEF AInv, EInv, IInv
<1>2. /\ o \in Objects /\ op \in {"upsert", "delete"}
      /\ choosing[d] = None /\ pc[d] # "apply"
  BY DEF Edited, MayEdit
<1>3. /\ item' = [item EXCEPT ![d][o] = content]
      /\ outbox' = [outbox EXCEPT ![d][o] = [seq |-> lastSeq[d] + 1, op |-> op]]
      /\ UNCHANGED <<log, version, conflict, cursor, pc, page, verdict, batch, choosing>>
  BY DEF Edited, Edit, sync
<1>4. /\ \A p \in Objects : p # o => outbox'[d][p] = outbox[d][p] /\ item'[d][p] = item[d][p]
      /\ outbox'[d][o].seq = lastSeq[d] + 1 /\ outbox'[d][o].op = op
  BY <1>1, <1>2, <1>3 DEF TypeOK
<1>5. /\ \A p \in Objects : p # o => (Pending(d, p)' <=> Pending(d, p))
      /\ Pending(d, o)'
      /\ \A p : Pending(d, p)' /\ p # o => Pending(d, p) /\ outbox'[d][p] = outbox[d][p]
  <2>1. Pending(d, o)'
    BY <1>2, <1>4 DEF Pending, NoRow
  <2>2. \A p : p # o => outbox'[d][p] = outbox[d][p]
    BY <1>1, <1>2, <1>3 DEF TypeOK
  <2> QED
    BY <1>4, <2>1, <2>2 DEF Pending
<1>6. InBatch(d)' = InBatch(d) /\ Key(d)' = Key(d) /\ InBatch(d) \subseteq Objects
  BY <1>1, <1>3, BatchTyped DEF InBatch, Key
<1>7. ChoiceFits(d)' /\ ApplyFits(d)'
  BY <1>2, <1>3 DEF ChoiceFits, ApplyFits
<1>8. ConflictFits(d)' /\ BatchFits(d)'
  BY <1>1, <1>3, <1>5, <1>6 DEF DeviceInv, ConflictFits, BatchFits
<1>9. OwnFits(d)'
  <2>1. \A c \in log : c.device = d => \A k \in c.key[2] : k[2] \in 1 .. lastSeq[d]
    BY <1>1 DEF KeyInv
  <2>2. lastSeq[d] \in Nat
    BY <1>1 DEF TypeOK
  <2>3. \A c : Awaited(d, c)' <=> Awaited(d, c)
    BY <1>3, <1>6 DEF Awaited
  <2>4. ASSUME NEW c \in log, c.device = d, ~Awaited(d, c), NEW k \in c.key[2], Pending(d, k[1])'
        PROVE  k[2] < outbox'[d][k[1]].seq
    <3>1. CASE k[1] = o
      <4>1. k[2] \in 1 .. lastSeq[d]
        BY <2>1, <2>4
      <4> QED
        BY <1>4, <2>2, <3>1, <4>1
    <3>2. CASE k[1] # o
      <4>1. Pending(d, k[1]) /\ outbox'[d][k[1]] = outbox[d][k[1]]
        BY <1>5, <2>4, <3>2
      <4>2. k[2] < outbox[d][k[1]].seq
        BY <1>1, <2>4, <4>1 DEF DeviceInv, OwnFits
      <4> QED
        BY <4>1, <4>2
    <3> QED
      BY <3>1, <3>2
  <2> QED
    BY <1>1, <1>3, <1>6, <2>3, <2>4 DEF DeviceInv, OwnFits
<1>10. AwaitFits(d)'
  BY <1>1, <1>3, <1>6 DEF DeviceInv, AwaitFits, Awaited
<1>11. ShownFits(d)'
  <2>1. ASSUME NEW p \in Objects, ~Pending(d, p)'
        PROVE  Reads(p, version'[d][p], item'[d][p])
    <3>1. p # o /\ ~Pending(d, p) /\ item'[d][p] = item[d][p]
      BY <1>4, <1>5, <2>1
    <3>2. Reads(p, version[d][p], item[d][p])
      BY <1>1, <3>1 DEF DeviceInv, ShownFits
    <3> QED
      BY <1>3, <3>1, <3>2
  <2> QED
    BY <1>3, <2>1 DEF ShownFits, Reads, Start, StartContent, Nothing
<1>12. NothingMissed(d)'
  BY <1>1, <1>3 DEF DeviceInv, NothingMissed, Position, Passed, LastCursor
<1> QED
  BY <1>7, <1>8, <1>9, <1>10, <1>11, <1>12 DEF DeviceInv

LEMMA ChooseAgrees ==
  ASSUME AInv, Allowed = {}, NEW d \in Devices, NEW o \in Objects,
         NEW keep \in {"local", "remote"}, Choose(d, o, keep)
  PROVE  DeviceInv(d)'
<1>1. TypeOK /\ DeviceInv(d)
  BY DEF AInv, EInv, IInv
<1>2. /\ conflict[d][o] # None /\ pc[d] # "apply"
      /\ choosing' = [choosing EXCEPT ![d] = [keep |-> keep, change |-> conflict[d][o]]]
      /\ UNCHANGED <<log, item, outbox, version, conflict, cursor, pc, page, verdict, batch>>
  BY DEF Choose, store, sync
<1>3. ChoiceFits(d)'
  <2>1. conflict[d][o].object = o
    BY <1>1, <1>2 DEF DeviceInv, ConflictFits
  <2>2. choosing'[d].change = conflict[d][o]
    BY <1>1, <1>2 DEF TypeOK
  <2> QED
    BY <1>2, <2>1, <2>2 DEF ChoiceFits
<1>4. ConflictFits(d)' /\ BatchFits(d)' /\ OwnFits(d)' /\ AwaitFits(d)'
  BY <1>1, <1>2
  DEF DeviceInv, ConflictFits, BatchFits, OwnFits, AwaitFits, Awaited, Pending, InBatch, Key
<1>5. ApplyFits(d)'
  BY <1>2 DEF ApplyFits
<1>6. ShownFits(d)'
  BY <1>1, <1>2 DEF DeviceInv, ShownFits, Pending, Reads, Start, StartContent, Nothing
<1>7. NothingMissed(d)'
  BY <1>1, <1>2 DEF DeviceInv, NothingMissed, Position, Passed, LastCursor
<1> QED
  BY <1>3, <1>4, <1>5, <1>6, <1>7 DEF DeviceInv

LEMMA ResolutionAgrees ==
  ASSUME AInv, NEW d \in Devices, ResolveLocal(d) \/ ResolveRemote(d)
  PROVE  DeviceInv(d)'
<1> PICK c : c = choosing[d].change
  OBVIOUS
<1> PICK o : o = c.object
  OBVIOUS
<1>1. IInv /\ TypeOK /\ DeviceInv(d)
  BY DEF AInv, EInv, IInv
<1>2. /\ choosing[d] # None /\ Resolved(d)
      /\ UNCHANGED <<server, log, cursor, pc, page, verdict, batch>>
  BY DEF ResolveLocal, ResolveRemote, sync
<1>3. /\ pc[d] # "apply" /\ conflict[d][o] # None /\ conflict[d][o] = c
      /\ c \in log
  BY <1>1, <1>2 DEF DeviceInv, ChoiceFits, IInv, ConflictInv
<1>4. o \in Objects /\ c.version \in Nat
  BY <1>1, <1>3, LogTyped
<1>5. Pending(d, o) /\ version[d][o] <= c.version /\ o \notin InBatch(d)
  BY <1>1, <1>3, <1>4 DEF DeviceInv, ConflictFits
<1>6. /\ version' = [version EXCEPT ![d][o] = c.version]
      /\ conflict' = [conflict EXCEPT ![d][o] = None]
      /\ choosing' = [choosing EXCEPT ![d] = None]
  BY <1>2 DEF Resolved
<1>7. /\ \A p \in Objects : p # o => version'[d][p] = version[d][p] /\ conflict'[d][p] = conflict[d][p]
      /\ version'[d][o] = c.version /\ conflict'[d][o] = None /\ choosing'[d] = None
  BY <1>1, <1>4, <1>6 DEF TypeOK
<1>8. /\ \A p : p # o => outbox'[d][p] = outbox[d][p]
      /\ \A p \in Objects : p # o => item'[d][p] = item[d][p]
      /\ \/ outbox'[d][o] = outbox[d][o]
         \/ outbox'[d][o] = NoRow /\ item'[d][o] = c.content
  <2>1. CASE ResolveLocal(d)
    BY <2>1 DEF ResolveLocal
  <2>2. CASE ResolveRemote(d)
    <3>1. /\ item' = [item EXCEPT ![d][o] = c.content]
          /\ outbox' = [outbox EXCEPT ![d][o] = NoRow]
      BY <2>2 DEF ResolveRemote, DiscardedRow
    <3> QED
      BY <1>1, <1>4, <3>1 DEF TypeOK
  <2> QED
    BY <2>1, <2>2
<1>9. /\ \A p : Pending(d, p)' => Pending(d, p) /\ outbox'[d][p] = outbox[d][p]
      /\ \A p : p # o => (Pending(d, p)' <=> Pending(d, p))
  BY <1>8 DEF Pending, NoRow
<1>10. InBatch(d)' = InBatch(d) /\ Key(d)' = Key(d) /\ InBatch(d) \subseteq Objects
  BY <1>1, <1>2, BatchTyped DEF InBatch, Key
<1>11. \A p \in Objects : version[d][p] <= version'[d][p] /\ version[d][p] \in Nat /\ version'[d][p] \in Nat
  <2>1. \A p \in Objects : version[d][p] \in Nat
    BY <1>1 DEF TypeOK
  <2>2. ASSUME NEW p \in Objects, p # o
        PROVE  version'[d][p] = version[d][p]
    BY <1>7, <2>2
  <2> QED
    BY <1>4, <1>5, <1>7, <2>1, <2>2
<1>12. ChoiceFits(d)' /\ ApplyFits(d)'
  BY <1>2, <1>3, <1>7 DEF ChoiceFits, ApplyFits
<1>13. ConflictFits(d)' /\ BatchFits(d)'
  <2>1. ConflictFits(d)'
    BY <1>1, <1>7, <1>9, <1>10 DEF DeviceInv, ConflictFits
  <2>2. BatchFits(d)'
    BY <1>1, <1>5, <1>9, <1>10 DEF DeviceInv, BatchFits
  <2> QED
    BY <2>1, <2>2
<1>14. OwnFits(d)'
  <2>1. \A x : Awaited(d, x)' <=> Awaited(d, x)
    BY <1>2, <1>10 DEF Awaited
  <2>2. \A x \in log : x.object \in Objects /\ x.version \in Nat
    BY <1>1, LogTyped
  <2>3. ASSUME NEW x \in log, x.device = d, ~Awaited(d, x)
        PROVE  x.version <= version'[d][x.object]
    <3>1. x.version <= version[d][x.object]
      BY <1>1, <2>3 DEF DeviceInv, OwnFits
    <3> QED
      BY <1>11, <2>2, <3>1
  <2> QED
    BY <1>1, <1>2, <1>9, <1>10, <2>1, <2>3 DEF DeviceInv, OwnFits
<1>15. AwaitFits(d)'
  BY <1>1, <1>2, <1>5, <1>7, <1>10 DEF DeviceInv, AwaitFits, Awaited
<1>16. ShownFits(d)'
  <2>1. ASSUME NEW p \in Objects, ~Pending(d, p)'
        PROVE  Reads(p, version'[d][p], item'[d][p])
    <3>1. CASE p = o
      <4>1. outbox'[d][o] = NoRow /\ item'[d][o] = c.content
        BY <1>5, <1>8, <2>1, <3>1 DEF Pending
      <4> QED
        BY <1>3, <1>7, <3>1, <4>1 DEF Reads
    <3>2. CASE p # o
      <4>1. Reads(p, version[d][p], item[d][p])
        BY <1>1, <1>9, <2>1, <3>2 DEF DeviceInv, ShownFits
      <4> QED
        BY <1>7, <1>8, <3>2, <4>1
    <3> QED
      BY <3>1, <3>2
  <2> QED
    BY <1>2, <2>1 DEF ShownFits, Reads, Start, StartContent, Nothing
<1>17. NothingMissed(d)'
  <2>1. Position(d)' = Position(d) /\ LastCursor' = LastCursor /\ cursor'[d] = cursor[d]
    BY <1>2 DEF Position, LastCursor
  <2>2. ASSUME NEW x \in log, Passed(d, x)
        PROVE  Passed(d, x)'
    <3>1. x.object \in Objects /\ x.version \in Nat
      BY <1>1, LogTyped
    <3>2. CASE x.object = o
      <4>1. x.version <= version[d][o] \/ x.version <= c.version
        BY <1>3, <2>2, <3>2 DEF Passed
      <4> QED
        BY <1>4, <1>5, <1>7, <1>11, <3>1, <3>2, <4>1 DEF Passed
    <3>3. CASE x.object # o
      BY <1>7, <2>2, <3>1, <3>3 DEF Passed
    <3> QED
      BY <3>2, <3>3
  <2> QED
    BY <1>1, <1>2, <2>1, <2>2 DEF DeviceInv, NothingMissed
<1> QED
  BY <1>12, <1>13, <1>14, <1>15, <1>16, <1>17 DEF DeviceInv
-----------------------------------------------------------------------------
(* apply_remote_change: its last half finds what the first one judged, and *)
(* with it the last change of its object that was handed out so far.       *)
LEMMA ApplyingAgrees ==
  ASSUME AInv, NEW d \in Devices, NEW what, Applying(d, what)
  PROVE  /\ AtHand(d) \in log /\ AtHand(d).object \in Objects /\ AtHand(d).version \in Nat
         /\ version[d][AtHand(d).object] < AtHand(d).version
         /\ what # "take" => Pending(d, AtHand(d).object)
         /\ what = "own" => AtHand(d).device = d
         /\ choosing[d] = None /\ InBatch(d) = {}
         /\ pc[d] = "apply" /\ pc'[d] = "check"
         /\ page[d].next \in 1 .. LastCursor
         /\ Position(d) = page[d].next - 1 /\ Position(d)' = page[d].next
         /\ \A c \in log : c.cursor <= page[d].next /\ c.object = AtHand(d).object =>
              c.version <= AtHand(d).version
<1> PICK h : h = AtHand(d)
  OBVIOUS
<1>1. IInv /\ TypeOK /\ DeviceInv(d) /\ HistoryInv
  BY DEF AInv, EInv, IInv
<1>2. /\ pc[d] = "apply" /\ verdict[d] = what
      /\ page' = [page EXCEPT ![d].next = @ + 1]
      /\ pc' = [pc EXCEPT ![d] = "check"]
  BY DEF Applying, NextChange, Goto
<1>3. page[d].next \in 1 .. LastCursor /\ LastCursor \in Nat
  BY <1>1, <1>2, PageTyped
<1>4. h \in log /\ h.cursor = page[d].next
  BY <1>1, <1>3, AtHandFacts DEF IInv
<1>5. h.object \in Objects /\ h.version \in Nat
  BY <1>1, <1>4, LogTyped
<1>6. /\ version[d][h.object] < h.version
      /\ what # "take" => Pending(d, h.object)
      /\ choosing[d] = None
  BY <1>1, <1>2 DEF DeviceInv, ApplyFits, ChoiceFits
<1>7. what = "own" => h.device = d
  BY <1>1, <1>2 DEF IInv, PageInv, PageFits
<1>8. InBatch(d) = {}
  BY <1>1, <1>2, BatchTyped
<1>9. pc'[d] = "check" /\ page'[d].next = page[d].next + 1
  BY <1>1, <1>2 DEF TypeOK
<1>10. Position(d) = page[d].next - 1 /\ Position(d)' = page[d].next
  <2>1. Position(d) = page[d].next - 1
    BY <1>2 DEF Position
  <2>2. Position(d)' = page'[d].next - 1
    BY <1>9 DEF Position
  <2> QED
    BY <1>3, <1>9, <2>1, <2>2
<1>11. ASSUME NEW c \in log, c.cursor <= page[d].next, c.object = h.object
       PROVE  c.version <= h.version
  <2>1. c.cursor \in Nat /\ c.version \in Nat
    BY <1>1, <1>3, LogTyped
  <2>2. CASE c.cursor = h.cursor
    <3>1. c = h
      BY <1>1, <1>4, <2>2 DEF IInv, LogInv
    <3> QED
      BY <2>1, <3>1
  <2>3. CASE c.cursor < h.cursor
    <3>1. c.version < h.version
      BY <1>1, <1>4, <1>11, <2>3 DEF HistoryInv
    <3> QED
      BY <1>5, <2>1, <3>1
  <2> QED
    BY <1>3, <1>4, <1>11, <2>1, <2>2, <2>3
<1> QED
  BY <1>2, <1>3, <1>4, <1>5, <1>6, <1>7, <1>8, <1>9, <1>10, <1>11

LEMMA StoreConflictAgrees ==
  ASSUME AInv, NEW d \in Devices, StoreConflict(d)
  PROVE  DeviceInv(d)'
<1> PICK h : h = AtHand(d)
  OBVIOUS
<1> PICK n : n = page[d].next
  OBVIOUS
<1>1. IInv /\ TypeOK /\ DeviceInv(d)
  BY DEF AInv, EInv, IInv
<1>2. /\ Applying(d, "conflict")
      /\ conflict' = [conflict EXCEPT ![d][h.object] = h]
      /\ UNCHANGED <<item, outbox, version, cursor>>
  BY DEF StoreConflict
<1>3. UNCHANGED <<log, batch, choosing>>
  BY <1>2 DEF Applying
<1>4. /\ h \in log /\ h.object \in Objects /\ h.version \in Nat
      /\ version[d][h.object] < h.version /\ Pending(d, h.object)
      /\ choosing[d] = None /\ InBatch(d) = {}
      /\ pc[d] = "apply" /\ pc'[d] = "check"
      /\ n \in 1 .. LastCursor /\ Position(d) = n - 1 /\ Position(d)' = n
      /\ \A c \in log : c.cursor <= n /\ c.object = h.object => c.version <= h.version
  BY <1>2, ApplyingAgrees
<1>5. /\ conflict'[d][h.object] = h /\ h # None
      /\ \A o \in Objects : o # h.object => conflict'[d][o] = conflict[d][o]
  BY <1>1, <1>2, <1>4, LogTyped DEF TypeOK
<1>6. InBatch(d)' = {}
  BY <1>3, <1>4 DEF InBatch
<1>7. ChoiceFits(d)' /\ ApplyFits(d)' /\ BatchFits(d)' /\ AwaitFits(d)'
  BY <1>3, <1>4, <1>6 DEF ChoiceFits, ApplyFits, BatchFits, AwaitFits, Awaited
<1>8. ConflictFits(d)'
  <2>1. version[d][h.object] \in Nat
    BY <1>1, <1>4 DEF TypeOK
  <2>2. version[d][h.object] <= h.version
    BY <1>4, <2>1
  <2> QED
    BY <1>1, <1>2, <1>4, <1>5, <1>6, <2>2 DEF DeviceInv, ConflictFits, Pending
<1>9. OwnFits(d)'
  BY <1>1, <1>2, <1>3, <1>4, <1>6 DEF DeviceInv, OwnFits, Awaited, Pending
<1>10. ShownFits(d)'
  BY <1>1, <1>2, <1>3 DEF DeviceInv, ShownFits, Pending, Reads, Start, StartContent, Nothing
<1>11. NothingMissed(d)'
  <2>1. LastCursor' = LastCursor /\ LastCursor \in Nat /\ cursor'[d] = cursor[d] /\ cursor[d] \in Nat
    BY <1>1, <1>2, <1>3, PageTyped DEF LastCursor
  <2>2. ASSUME NEW c \in log, c.cursor <= n
        PROVE  Passed(d, c)'
    <3>1. c.cursor \in Nat /\ c.object \in Objects
      BY <1>1, <2>1, LogTyped
    <3>2. CASE c.object = h.object
      BY <1>4, <1>5, <2>2, <3>2 DEF Passed
    <3>3. CASE c.object # h.object
      <4>1. c.cursor # n
        <5>1. h.cursor = n
          BY <1>1, <1>4, AtHandFacts DEF IInv
        <5>2. h.cursor = c.cursor => h = c
          BY <1>1, <1>4 DEF IInv, LogInv
        <5> QED
          BY <3>3, <5>1, <5>2
      <4>2. c.cursor <= Position(d)
        BY <1>4, <2>1, <2>2, <3>1, <4>1
      <4>3. Passed(d, c)
        BY <1>1, <4>2 DEF DeviceInv, NothingMissed
      <4> QED
        BY <1>2, <1>5, <3>1, <3>3, <4>3 DEF Passed
    <3> QED
      BY <3>2, <3>3
  <2>3. cursor[d] <= n - 1
    BY <1>1, <1>4 DEF DeviceInv, NothingMissed
  <2> QED
    BY <1>3, <1>4, <2>1, <2>2, <2>3 DEF NothingMissed
<1> QED
  BY <1>7, <1>8, <1>9, <1>10, <1>11 DEF DeviceInv

LEMMA OwnNeverLate ==
  ASSUME AInv, NEW d \in Devices
  PROVE  ~RecognizeOwn(d)
<1> SUFFICES ASSUME RecognizeOwn(d)
             PROVE  FALSE
  OBVIOUS
<1> PICK h : h = AtHand(d)
  OBVIOUS
<1>1. TypeOK /\ OwnFits(d)
  BY DEF AInv, EInv, IInv, DeviceInv
<1>2. Applying(d, "own")
  BY DEF RecognizeOwn
<1>3. /\ h \in log /\ h.object \in Objects /\ h.version \in Nat
      /\ version[d][h.object] < h.version /\ h.device = d /\ pc[d] = "apply"
  BY <1>2, ApplyingAgrees
<1>4. h.version <= version[d][h.object]
  BY <1>1, <1>3 DEF OwnFits, Awaited
<1>5. version[d][h.object] \in Nat
  BY <1>1, <1>3 DEF TypeOK
<1> QED
  BY <1>3, <1>4, <1>5

LEMMA TakeAgrees ==
  ASSUME AInv, NEW d \in Devices, Take(d)
  PROVE  DeviceInv(d)'
<1> PICK h : h = AtHand(d)
  OBVIOUS
<1> PICK n : n = page[d].next
  OBVIOUS
<1>1. IInv /\ TypeOK /\ DeviceInv(d)
  BY DEF AInv, EInv, IInv
<1>2. /\ Applying(d, "take")
      /\ item' = [item EXCEPT ![d][h.object] = h.content]
      /\ version' = [version EXCEPT ![d][h.object] = h.version]
      /\ conflict' = [conflict EXCEPT ![d][h.object] = None]
      /\ UNCHANGED <<outbox, cursor>>
  BY DEF Take
<1>3. UNCHANGED <<log, batch, choosing>>
  BY <1>2 DEF Applying
<1>4. /\ h \in log /\ h.object \in Objects /\ h.version \in Nat
      /\ version[d][h.object] < h.version
      /\ choosing[d] = None /\ InBatch(d) = {}
      /\ pc[d] = "apply" /\ pc'[d] = "check"
      /\ n \in 1 .. LastCursor /\ Position(d) = n - 1 /\ Position(d)' = n
      /\ \A c \in log : c.cursor <= n /\ c.object = h.object => c.version <= h.version
  BY <1>2, ApplyingAgrees
<1>5. /\ item'[d][h.object] = h.content /\ version'[d][h.object] = h.version
      /\ conflict'[d][h.object] = None
      /\ \A o \in Objects : o # h.object =>
           /\ conflict'[d][o] = conflict[d][o] /\ version'[d][o] = version[d][o]
           /\ item'[d][o] = item[d][o]
  BY <1>1, <1>2, <1>4 DEF TypeOK
<1>6. InBatch(d)' = {}
  BY <1>3, <1>4 DEF InBatch
<1>7. ChoiceFits(d)' /\ ApplyFits(d)' /\ BatchFits(d)' /\ AwaitFits(d)'
  BY <1>3, <1>4, <1>6 DEF ChoiceFits, ApplyFits, BatchFits, AwaitFits, Awaited
<1>8. ConflictFits(d)'
  BY <1>1, <1>2, <1>4, <1>5, <1>6 DEF DeviceInv, ConflictFits, Pending
<1>9. OwnFits(d)'
  <2>1. ASSUME NEW c \in log, c.device = d
        PROVE  c.version <= version'[d][c.object]
    <3>1. c.version <= version[d][c.object] /\ c.object \in Objects /\ c.version \in Nat
      BY <1>1, <1>4, <2>1, LogTyped DEF DeviceInv, OwnFits, Awaited
    <3>2. version[d][c.object] \in Nat
      BY <1>1, <3>1 DEF TypeOK
    <3> QED
      BY <1>4, <1>5, <3>1, <3>2
  <2> QED
    BY <1>1, <1>2, <1>3, <1>4, <1>6, <2>1 DEF DeviceInv, OwnFits, Awaited, Pending
<1>10. ShownFits(d)'
  <2>1. ASSUME NEW o \in Objects, ~Pending(d, o)
        PROVE  Reads(o, version'[d][o], item'[d][o])
    <3>1. CASE o = h.object
      BY <1>4, <1>5, <3>1 DEF Reads
    <3>2. CASE o # h.object
      <4>1. Reads(o, version[d][o], item[d][o])
        BY <1>1, <2>1 DEF DeviceInv, ShownFits
      <4> QED
        BY <1>5, <3>2, <4>1
    <3> QED
      BY <3>1, <3>2
  <2> QED
    BY <1>2, <1>3, <2>1 DEF ShownFits, Pending, Reads, Start, StartContent, Nothing
<1>11. NothingMissed(d)'
  <2>1. LastCursor' = LastCursor /\ LastCursor \in Nat /\ cursor'[d] = cursor[d] /\ cursor[d] \in Nat
    BY <1>1, <1>2, <1>3, PageTyped DEF LastCursor
  <2>2. ASSUME NEW c \in log, c.cursor <= n
        PROVE  Passed(d, c)'
    <3>1. c.cursor \in Nat /\ c.object \in Objects
      BY <1>1, <2>1, LogTyped
    <3>2. CASE c.object = h.object
      BY <1>4, <1>5, <2>2, <3>2 DEF Passed
    <3>3. CASE c.object # h.object
      <4>1. c.cursor # n
        <5>1. h.cursor = n
          BY <1>1, <1>4, AtHandFacts DEF IInv
        <5>2. h.cursor = c.cursor => h = c
          BY <1>1, <1>4 DEF IInv, LogInv
        <5> QED
          BY <3>3, <5>1, <5>2
      <4>2. c.cursor <= Position(d)
        BY <1>4, <2>1, <2>2, <3>1, <4>1
      <4>3. Passed(d, c)
        BY <1>1, <4>2 DEF DeviceInv, NothingMissed
      <4> QED
        BY <1>5, <3>1, <3>3, <4>3 DEF Passed
    <3> QED
      BY <3>2, <3>3
  <2>3. cursor[d] <= n - 1
    BY <1>1, <1>4 DEF DeviceInv, NothingMissed
  <2> QED
    BY <1>3, <1>4, <2>1, <2>2, <2>3 DEF NothingMissed
<1> QED
  BY <1>7, <1>8, <1>9, <1>10, <1>11 DEF DeviceInv
-----------------------------------------------------------------------------
(* A push: until its answer is used it is the one thing of the device in   *)
(* the log that the device does not know.                                  *)
LEMMA CollectAgrees ==
  ASSUME AInv, NEW d \in Devices, Collect(d)
  PROVE  DeviceInv(d)'
<1> PICK C : C = Chosen(d)
  OBVIOUS
<1>1. IInv /\ TypeOK /\ DeviceInv(d)
  BY DEF AInv, EInv, IInv
<1>2. /\ pc[d] = "collect" /\ Eligible(d) # {}
      /\ batch' = [batch EXCEPT ![d] =
           [o \in C |-> [seq |-> outbox[d][o].seq, op |-> outbox[d][o].op,
                         base |-> version[d][o]]]]
      /\ pc' = [pc EXCEPT ![d] = "send"]
      /\ UNCHANGED <<log, item, outbox, version, conflict, cursor, choosing>>
  BY DEF Collect, Goto, store
<1>3. C \subseteq Eligible(d)
  BY <1>1, <1>2, ChosenFacts DEF IInv
<1>4. /\ InBatch(d)' = C /\ \A o \in C : batch'[d][o].seq = outbox[d][o].seq
      /\ pc'[d] = "send"
  BY <1>1, <1>2 DEF TypeOK, InBatch
<1>5. \A o \in C : Pending(d, o) /\ conflict[d][o] = None
  BY <1>3 DEF Eligible
<1>6. ChoiceFits(d)' /\ ApplyFits(d)' /\ BatchFits(d)' /\ AwaitFits(d)'
  BY <1>1, <1>2, <1>4, <1>5
  DEF DeviceInv, ChoiceFits, ApplyFits, BatchFits, AwaitFits, Awaited, Pending
<1>7. ConflictFits(d)'
  BY <1>1, <1>2, <1>4, <1>5 DEF DeviceInv, ConflictFits, Pending
<1>8. OwnFits(d)'
  <2>1. ASSUME NEW c \in log, c.device = d
        PROVE  /\ c.version <= version[d][c.object]
               /\ \A k \in c.key[2] : Pending(d, k[1]) => k[2] < outbox[d][k[1]].seq
    BY <1>1, <1>2, <2>1 DEF DeviceInv, OwnFits, Awaited
  <2> QED
    BY <1>2, <1>4, <1>5, <2>1 DEF OwnFits, Pending
<1>9. ShownFits(d)'
  BY <1>1, <1>2 DEF DeviceInv, ShownFits, Pending, Reads, Start, StartContent, Nothing
<1>10. NothingMissed(d)'
  BY <1>1, <1>2, <1>4 DEF DeviceInv, NothingMissed, Position, Passed, LastCursor
<1> QED
  BY <1>6, <1>7, <1>8, <1>9, <1>10 DEF DeviceInv

(* What an accepted push adds, beside what was there.                      *)
LEMMA SendFacts ==
  ASSUME IInv, NEW d \in Devices, SendAccepted(d)
  PROVE  /\ pc[d] = "send" /\ pc' = [pc EXCEPT ![d] = "await"]
         /\ ~Answered(d) /\ UNCHANGED <<store, page, verdict, batch, choosing>>
         /\ log \subseteq log' /\ LastCursor <= LastCursor'
         /\ \A c \in log : c.cursor <= LastCursor /\ c.key # Key(d)
         /\ \A o \in InBatch(d) : Accepted(d, o) \in log'
         /\ \A c \in log' \ log : \E o \in InBatch(d) :
              /\ o \in Objects /\ c = Accepted(d, o) /\ c.object = o /\ c.device = d
              /\ c.version = server[o].version + 1 /\ c.key = Key(d)
              /\ c.cursor \in Nat /\ c.cursor > LastCursor
<1>1. /\ pc[d] = "send" /\ pc' = [pc EXCEPT ![d] = "await"]
      /\ ~Answered(d) /\ UNCHANGED <<store, page, verdict, batch, choosing>>
  BY DEF SendAccepted, Goto
<1>2. log' = log \cup {Accepted(d, o) : o \in InBatch(d)}
  BY DEF SendAccepted
<1>3. LastCursor \in Nat /\ LastCursor' = LastCursor + Cardinality(InBatch(d))
  BY LogGrows, LastCursorTyped DEF IInv
<1>4. /\ InBatch(d) \subseteq Objects /\ Cardinality(InBatch(d)) \in Nat
      /\ \A o \in InBatch(d) :
           /\ Accepted(d, o).object = o /\ Accepted(d, o).device = d
           /\ Accepted(d, o).version = server[o].version + 1
           /\ Accepted(d, o).key = Key(d)
           /\ Accepted(d, o).cursor \in LastCursor + 1 .. LastCursor + Cardinality(InBatch(d))
  BY <1>1, AcceptedFacts, BatchTyped DEF IInv
<1>5. \A c \in log : c.cursor <= LastCursor /\ c.key # Key(d)
  BY <1>1, <1>3, LogTyped DEF Answered, Stored
<1>6. ASSUME NEW c \in log' \ log
      PROVE  \E o \in InBatch(d) :
              /\ o \in Objects /\ c = Accepted(d, o) /\ c.object = o /\ c.device = d
              /\ c.version = server[o].version + 1 /\ c.key = Key(d)
              /\ c.cursor \in Nat /\ c.cursor > LastCursor
  <2>1. PICK o \in InBatch(d) : c = Accepted(d, o)
    BY <1>2
  <2>2. c.cursor \in LastCursor + 1 .. LastCursor + Cardinality(InBatch(d))
    BY <1>4, <2>1
  <2>3. c.cursor \in Nat /\ c.cursor > LastCursor
    BY <1>3, <1>4, <2>2
  <2> QED
    BY <1>4, <2>1, <2>3
<1>7. LastCursor <= LastCursor'
  BY <1>3, <1>4
<1>8. log \subseteq log' /\ \A o \in InBatch(d) : Accepted(d, o) \in log'
  BY <1>2
<1> QED
  BY <1>1, <1>5, <1>6, <1>7, <1>8

LEMMA SendAgrees ==
  ASSUME AInv, NEW d \in Devices, SendAccepted(d)
  PROVE  DeviceInv(d)'
<1>1. IInv /\ TypeOK /\ DeviceInv(d)
  BY DEF AInv, EInv, IInv
<1>2. /\ pc[d] = "send" /\ pc' = [pc EXCEPT ![d] = "await"]
      /\ log \subseteq log' /\ LastCursor <= LastCursor'
      /\ \A c \in log : c.key # Key(d)
      /\ \A c \in log' \ log : \E o \in InBatch(d) :
           /\ o \in Objects /\ c = Accepted(d, o) /\ c.object = o /\ c.device = d
           /\ c.version = server[o].version + 1 /\ c.key = Key(d)
           /\ c.cursor \in Nat /\ c.cursor > LastCursor
  BY <1>1, SendFacts
<1>3. UNCHANGED <<item, outbox, version, conflict, cursor, page, verdict, batch, choosing>>
  BY <1>1, SendFacts DEF store
<1>4. pc'[d] = "await"
  BY <1>1, <1>2 DEF TypeOK
<1>5. InBatch(d)' = InBatch(d) /\ Key(d)' = Key(d)
  BY <1>3 DEF InBatch, Key
<1>6. \A c : Awaited(d, c)' <=> c.key = Key(d)
  BY <1>4, <1>5 DEF Awaited
<1>7. ChoiceFits(d)' /\ ConflictFits(d)' /\ BatchFits(d)' /\ ApplyFits(d)'
  BY <1>1, <1>2, <1>3, <1>4, <1>5
  DEF DeviceInv, ChoiceFits, ConflictFits, BatchFits, ApplyFits, Pending
<1>8. OwnFits(d)'
  <2>1. \A c \in log' : ~(c.key = Key(d)) => c \in log /\ ~Awaited(d, c)
    BY <1>2 DEF Awaited
  <2> QED
    BY <1>1, <1>3, <1>5, <1>6, <2>1 DEF DeviceInv, OwnFits, Pending
<1>9. AwaitFits(d)'
  <2>1. ASSUME NEW c \in log', c.key = Key(d)
        PROVE  /\ c.object \in InBatch(d) /\ version[d][c.object] < c.version
               /\ \A e \in log' : e.key = c.key /\ e.object = c.object => e = c
    <3>1. c \notin log
      BY <1>2, <2>1
    <3>2. PICK o \in InBatch(d) : /\ o \in Objects /\ c = Accepted(d, o) /\ c.object = o
                                  /\ c.version = server[o].version + 1
      BY <1>2, <3>1
    <3>3. version[d][o] <= server[o].version /\ version[d][o] \in Nat /\ server[o].version \in Nat
      BY <1>1, <3>2 DEF IInv, VersionInv, TypeOK
    <3>4. ASSUME NEW e \in log', e.key = c.key, e.object = c.object
          PROVE  e = c
      <4>1. e \notin log
        BY <1>2, <2>1, <3>4
      <4>2. PICK p \in InBatch(d) : e = Accepted(d, p) /\ e.object = p
        BY <1>2, <4>1
      <4> QED
        BY <3>2, <3>4, <4>2
    <3> QED
      BY <3>2, <3>3, <3>4
  <2> QED
    BY <1>3, <1>5, <1>6, <2>1 DEF AwaitFits
<1>10. ShownFits(d)'
  <2>1. ASSUME NEW o \in Objects, ~Pending(d, o)
        PROVE  Reads(o, version[d][o], item[d][o])'
    <3> PICK v, x : v = version[d][o] /\ x = item[d][o]
      OBVIOUS
    <3>1. Reads(o, v, x)
      BY <1>1, <2>1 DEF DeviceInv, ShownFits
    <3>2. Reads(o, v, x)'
      BY <1>2, <3>1, ReadsGrows
    <3> QED
      BY <1>3, <3>2 DEF Reads, Start, StartContent, Nothing
  <2> QED
    BY <1>3, <2>1 DEF ShownFits, Pending
<1>11. NothingMissed(d)'
  <2>1. Position(d) = cursor[d] /\ Position(d)' = cursor[d]
    BY <1>2, <1>3, <1>4 DEF Position
  <2>2. LastCursor \in Nat /\ LastCursor' \in Nat /\ cursor[d] \in Nat /\ cursor[d] <= LastCursor
    <3>1. IsFiniteSet(log')
      BY <1>1, LogGrows
    <3> QED
      BY <1>1, <2>1, <3>1, PageTyped, FS_CardinalityType DEF DeviceInv, NothingMissed, LastCursor
  <2>3. ASSUME NEW c \in log', c.cursor <= cursor[d]
        PROVE  Passed(d, c)'
    <3>1. c \in log
      BY <1>2, <2>2, <2>3
    <3> QED
      BY <1>1, <1>3, <2>1, <2>3, <3>1 DEF DeviceInv, NothingMissed, Passed
  <2> QED
    BY <1>2, <1>3, <2>1, <2>2, <2>3 DEF NothingMissed
<1> QED
  BY <1>7, <1>8, <1>9, <1>10, <1>11 DEF DeviceInv

LEMMA CompleteAgrees ==
  ASSUME AInv, NEW d \in Devices, Complete(d)
  PROVE  DeviceInv(d)'
<1>1. IInv /\ TypeOK /\ DeviceInv(d) /\ EInv
  BY DEF AInv, EInv, IInv
<1>2. /\ pc[d] = "await" /\ pc' = [pc EXCEPT ![d] = "collect"]
      /\ version' = [version EXCEPT ![d] = [o \in Objects |->
           IF o \in InBatch(d) THEN Confirmed(d, o).version ELSE version[d][o]]]
      /\ outbox' = [outbox EXCEPT ![d] = [o \in Objects |-> RowLeft(d, o)]]
      /\ batch' = [batch EXCEPT ![d] = NoBatch]
      /\ UNCHANGED <<log, item, conflict, cursor, choosing>>
  BY <1>1 DEF Complete, Goto, TypeOK
<1>3. /\ pc'[d] = "collect" /\ InBatch(d)' = {}
      /\ \A o \in Objects : /\ version'[d][o] = IF o \in InBatch(d) THEN Confirmed(d, o).version ELSE version[d][o]
                            /\ outbox'[d][o] = RowLeft(d, o)
  BY <1>1, <1>2 DEF TypeOK, InBatch, NoBatch
<1>4. ASSUME NEW o \in InBatch(d)
      PROVE  /\ Confirmed(d, o) \in log /\ Confirmed(d, o).object = o
             /\ Confirmed(d, o).key = Key(d) /\ Confirmed(d, o).device = d
             /\ version[d][o] < Confirmed(d, o).version
  <2>1. Answered(d)
    BY <1>1, <1>2 DEF IInv, PageInv, PageFits
  <2>2. /\ Confirmed(d, o) \in log /\ Confirmed(d, o).object = o
        /\ Confirmed(d, o).key = Key(d) /\ Confirmed(d, o).device = d
    BY <1>1, <2>1, ConfirmedFacts DEF IInv
  <2> QED
    BY <1>1, <1>2, <2>2 DEF DeviceInv, AwaitFits, Awaited
<1>5. ASSUME NEW o \in Objects
      PROVE  /\ version[d][o] \in Nat /\ version'[d][o] \in Nat /\ version[d][o] <= version'[d][o]
             /\ o \notin InBatch(d) => version'[d][o] = version[d][o] /\ outbox'[d][o] = outbox[d][o]
             /\ Pending(d, o)' => /\ Pending(d, o) /\ outbox'[d][o] = outbox[d][o]
                                  /\ o \in InBatch(d) => batch[d][o].seq < outbox[d][o].seq
  <2>1. version[d][o] \in Nat /\ outbox[d][o].seq \in Nat
    BY <1>1 DEF TypeOK, Row
  <2>2. CASE o \in InBatch(d)
    <3>1. Confirmed(d, o).version \in Nat /\ version[d][o] < Confirmed(d, o).version
      BY <1>1, <1>4, <2>2, LogTyped
    <3>2. batch[d][o].seq \in Nat
      BY <1>1, <2>2, BatchTyped DEF Sent
    <3>3. version'[d][o] = Confirmed(d, o).version /\ outbox'[d][o] = RowLeft(d, o)
      BY <1>3, <2>2
    <3>4. \/ outbox'[d][o] = NoRow
          \/ outbox'[d][o] = outbox[d][o] /\ batch[d][o].seq < outbox[d][o].seq
      BY <2>1, <2>2, <3>2, <3>3 DEF RowLeft
    <3>5. version[d][o] <= version'[d][o] /\ version'[d][o] \in Nat
      BY <2>1, <3>1, <3>3
    <3> QED
      BY <2>1, <2>2, <3>4, <3>5 DEF Pending, NoRow
  <2>3. CASE o \notin InBatch(d)
    BY <1>3, <2>1, <2>3 DEF RowLeft, Pending, NoRow
  <2> QED
    BY <2>2, <2>3
<1>6. ChoiceFits(d)' /\ ApplyFits(d)' /\ BatchFits(d)' /\ AwaitFits(d)'
  BY <1>1, <1>2, <1>3 DEF DeviceInv, ChoiceFits, ApplyFits, BatchFits, AwaitFits, Awaited
<1>7. ConflictFits(d)'
  <2>1. ASSUME NEW o \in Objects, conflict[d][o] # None
        PROVE  /\ conflict[d][o].object = o /\ Pending(d, o)'
               /\ version'[d][o] <= conflict[d][o].version
    <3>1. /\ conflict[d][o].object = o /\ Pending(d, o)
          /\ version[d][o] <= conflict[d][o].version /\ o \notin InBatch(d)
      BY <1>1, <2>1 DEF DeviceInv, ConflictFits
    <3>2. version'[d][o] = version[d][o] /\ outbox'[d][o] = outbox[d][o]
      BY <1>5, <3>1
    <3> QED
      BY <3>1, <3>2 DEF Pending, NoRow
  <2> QED
    BY <1>2, <1>3, <2>1 DEF ConflictFits
<1>8. OwnFits(d)'
  <2>1. ASSUME NEW c \in log, c.device = d
        PROVE  /\ c.version <= version'[d][c.object]
               /\ \A k \in c.key[2] : Pending(d, k[1])' => k[2] < outbox'[d][k[1]].seq
    <3>1. c.object \in Objects /\ c.version \in Nat
      BY <1>1, LogTyped
    <3>2. ASSUME NEW k \in c.key[2], Pending(d, k[1])'
          PROVE  k[1] \in Objects
      <4>1. c \in Change
        BY <1>1 DEF TypeOK
      <4>2. c.key[2] \subseteq Objects \X Nat
        BY <4>1 DEF Change
      <4> QED
        BY <3>2, <4>2
    <3>3. CASE ~Awaited(d, c)
      <4>1. c.version <= version[d][c.object]
        BY <1>1, <2>1, <3>3 DEF DeviceInv, OwnFits
      <4>2. c.version <= version'[d][c.object]
        BY <1>5, <3>1, <4>1
      <4>3. ASSUME NEW k \in c.key[2], Pending(d, k[1])'
            PROVE  k[2] < outbox'[d][k[1]].seq
        <5>1. Pending(d, k[1]) /\ outbox'[d][k[1]] = outbox[d][k[1]]
          BY <1>5, <3>2, <4>3
        <5>2. k[2] < outbox[d][k[1]].seq
          BY <1>1, <2>1, <3>3, <5>1 DEF DeviceInv, OwnFits
        <5> QED
          BY <5>1, <5>2
      <4> QED
        BY <4>2, <4>3
    <3>4. CASE Awaited(d, c)
      <4>1. c.key = Key(d)
        BY <3>4 DEF Awaited
      <4>2. /\ c.object \in InBatch(d)
            /\ \A e \in log : e.key = c.key /\ e.object = c.object => e = c
        BY <1>1, <2>1, <3>4 DEF DeviceInv, AwaitFits
      <4>3. Confirmed(d, c.object) = c
        BY <1>4, <4>1, <4>2
      <4>4. c.version <= version'[d][c.object]
        BY <1>3, <3>1, <4>2, <4>3
      <4>5. ASSUME NEW k \in c.key[2], Pending(d, k[1])'
            PROVE  k[2] < outbox'[d][k[1]].seq
        <5>1. k \in {<<o, batch[d][o].seq>> : o \in InBatch(d)}
          BY <4>1 DEF Key
        <5>2. k[1] \in InBatch(d) /\ k[2] = batch[d][k[1]].seq
          BY <5>1
        <5> QED
          BY <1>5, <3>2, <4>5, <5>2
      <4> QED
        BY <4>4, <4>5
    <3> QED
      BY <3>3, <3>4
  <2> QED
    BY <1>2, <1>3, <2>1 DEF OwnFits
<1>9. ShownFits(d)'
  <2>1. ASSUME NEW o \in Objects, ~Pending(d, o)'
        PROVE  Reads(o, version'[d][o], item[d][o])
    <3>1. CASE ~Pending(d, o)
      <4>1. o \notin InBatch(d)
        BY <1>1, <3>1 DEF DeviceInv, BatchFits
      <4>2. version'[d][o] = version[d][o]
        BY <1>5, <4>1
      <4>3. Reads(o, version[d][o], item[d][o])
        BY <1>1, <3>1 DEF DeviceInv, ShownFits
      <4> QED
        BY <4>2, <4>3
    <3>2. CASE Pending(d, o)
      <4>1. outbox'[d][o] # outbox[d][o] /\ outbox'[d][o] = RowLeft(d, o)
        BY <1>3, <2>1, <3>2 DEF Pending, NoRow
      <4>2. o \in InBatch(d) /\ outbox[d][o].seq <= batch[d][o].seq
        BY <4>1 DEF RowLeft
      <4>3. Confirmed(d, o).content = mine[d][o]
        BY <1>1, <1>2, <3>2, <4>2, AnswerCarries
      <4>4. item[d][o] = mine[d][o]
        BY <1>1, <3>2 DEF EInv, EditInv, RowShown
      <4>5. version'[d][o] = Confirmed(d, o).version
        BY <1>3, <4>2
      <4> QED
        BY <1>4, <4>2, <4>3, <4>4, <4>5 DEF Reads
    <3> QED
      BY <3>1, <3>2
  <2> QED
    BY <1>2, <2>1 DEF ShownFits, Reads, Start, StartContent, Nothing
<1>10. NothingMissed(d)'
  <2>1. /\ Position(d) = cursor[d] /\ Position(d)' = cursor[d]
        /\ LastCursor' = LastCursor
    BY <1>2, <1>3 DEF Position, LastCursor
  <2>2. ASSUME NEW c \in log, Passed(d, c)
        PROVE  Passed(d, c)'
    <3>1. c.object \in Objects /\ c.version \in Nat
      BY <1>1, LogTyped
    <3> QED
      BY <1>2, <1>5, <2>2, <3>1 DEF Passed
  <2> QED
    BY <1>1, <1>2, <2>1, <2>2 DEF DeviceInv, NothingMissed
<1> QED
  BY <1>6, <1>7, <1>8, <1>9, <1>10 DEF DeviceInv
-----------------------------------------------------------------------------
(* The history, by what a step does to the log, and the steps together.    *)
LEMMA HistoryStays ==
  ASSUME AInv, UNCHANGED <<server, log>>,
         \A d \in Devices, o \in Objects : version[d][o] <= version'[d][o] /\ version'[d][o] \in Nat
  PROVE  HistoryInv'
<1>1. HistoryInv /\ TypeOK
  BY DEF AInv, EInv, IInv
<1>2. \A c \in log : Start(c.object) < c.version
  BY <1>1 DEF HistoryInv
<1>3. \A o \in Objects : Reads(o, server[o].version, server[o].content)
  BY <1>1 DEF HistoryInv
<1>4. ASSUME NEW d \in Devices, NEW o \in Objects
      PROVE  Start(o) <= version'[d][o]
  <2>1. Start(o) <= version[d][o] /\ Start(o) \in Nat /\ version[d][o] \in Nat
    BY <1>1 DEF HistoryInv, TypeOK, Start
  <2> QED
    BY <2>1
<1> QED
  BY <1>1, <1>2, <1>3, <1>4 DEF HistoryInv, Start, StartContent, Reads, Nothing

LEMMA HistoryGrows ==
  ASSUME AInv, NEW d \in Devices, SendAccepted(d)
  PROVE  HistoryInv'
<1>1. HistoryInv /\ TypeOK /\ IInv
  BY DEF AInv, EInv, IInv
<1>2. /\ log \subseteq log'
      /\ \A c \in log : c.cursor <= LastCursor
      /\ \A o \in InBatch(d) : Accepted(d, o) \in log'
      /\ \A c \in log' \ log : \E o \in InBatch(d) :
           /\ o \in Objects /\ c = Accepted(d, o) /\ c.object = o
           /\ c.version = server[o].version + 1
           /\ c.cursor \in Nat /\ c.cursor > LastCursor
      /\ UNCHANGED version
  BY <1>1, SendFacts DEF store
<1>3. ASSUME NEW o \in Objects
      PROVE  Start(o) \in Nat /\ server[o].version \in Nat /\ Start(o) <= server[o].version
  <2>1. /\ Start(o) \in Nat /\ server[o].version \in Nat
        /\ version[d][o] \in Nat
    BY <1>1 DEF TypeOK, Start
  <2>2. Start(o) <= version[d][o] /\ version[d][o] <= server[o].version
    BY <1>1 DEF HistoryInv, IInv, VersionInv
  <2> QED
    BY <2>1, <2>2
<1>4. LastCursor \in Nat
  BY <1>1, LastCursorTyped DEF IInv
<1>5. ASSUME NEW c \in log'
      PROVE  Start(c.object) < c.version
  <2>1. CASE c \in log
    BY <1>1, <2>1 DEF HistoryInv
  <2>2. CASE c \notin log
    BY <1>2, <1>3, <2>2
  <2> QED
    BY <2>1, <2>2
<1>6. ASSUME NEW c \in log', NEW e \in log', c.object = e.object, c.cursor < e.cursor
      PROVE  c.version < e.version
  <2>1. CASE c \in log /\ e \in log
    BY <1>1, <1>6, <2>1 DEF HistoryInv
  <2>2. CASE c \in log /\ e \notin log
    <3>1. e.version = server[c.object].version + 1 /\ c.object \in Objects
      BY <1>2, <1>6, <2>2
    <3>2. c.version <= server[c.object].version /\ c.version \in Nat
      BY <1>1, <2>2, LogTyped
    <3> QED
      BY <1>3, <3>1, <3>2
  <2>3. CASE c \notin log /\ e \in log
    <3>1. c.cursor \in Nat /\ c.cursor > LastCursor /\ e.cursor <= LastCursor /\ e.cursor \in Nat
      BY <1>1, <1>2, <1>4, <2>3, LogTyped
    <3> QED
      BY <1>4, <1>6, <3>1
  <2>4. CASE c \notin log /\ e \notin log
    <3>1. c = e
      BY <1>2, <1>6, <2>4
    <3>2. c.cursor \in Nat
      BY <1>2, <2>4
    <3> QED
      BY <1>6, <3>1, <3>2
  <2> QED
    BY <2>1, <2>2, <2>3, <2>4
<1>7. ASSUME NEW o \in Objects
      PROVE  Reads(o, server[o].version, server[o].content)'
  <2>1. server'[o] = IF o \in InBatch(d)
                     THEN [version |-> Accepted(d, o).version, content |-> Accepted(d, o).content]
                     ELSE server[o]
    BY DEF SendAccepted
  <2>2. CASE o \in InBatch(d)
    <3>1. /\ server'[o].version = Accepted(d, o).version
          /\ server'[o].content = Accepted(d, o).content
          /\ Accepted(d, o) \in log' /\ Accepted(d, o).object = o
      BY <1>2, <2>1, <2>2 DEF Accepted
    <3>2. \E c \in log' : c.object = o /\ c.version = server'[o].version /\ c.content = server'[o].content
      BY <3>1
    <3> QED
      BY <3>2 DEF Reads
  <2>3. CASE o \notin InBatch(d)
    <3> PICK v, x : v = server[o].version /\ x = server[o].content
      OBVIOUS
    <3>1. Reads(o, v, x)'
      BY <1>1, <1>2, ReadsGrows DEF HistoryInv
    <3> QED
      BY <2>1, <2>3, <3>1 DEF Reads, Start, StartContent, Nothing
  <2> QED
    BY <2>2, <2>3
<1>8. \A e \in Devices, o \in Objects : (Start(o) <= version[e][o])'
  BY <1>1, <1>2 DEF HistoryInv, Start
<1> QED
  BY <1>5, <1>6, <1>7, <1>8 DEF HistoryInv, Start

(* The other devices are bystanders of every step.                         *)
LEMMA OthersStill ==
  ASSUME AInv, Next, IInv'
  PROVE  \E d \in Devices :
           /\ \A e \in Devices \ {d} : Still(e) /\ Extended(e)
           /\ \/ \E o, content, op : Edited(d, o, content, op)
              \/ \E o \in Objects, keep \in {"local", "remote"} : Choose(d, o, keep)
              \/ ResolveLocal(d) \/ ResolveRemote(d)
              \/ StoreConflict(d) \/ Take(d)
              \/ Collect(d) \/ SendAccepted(d) \/ Complete(d)
              \/ Moves(d)
<1>1. TypeOK /\ IInv
  BY DEF AInv, EInv, IInv
<1>2. PICK d \in Devices :
           \/ \E o, content, op : Edited(d, o, content, op)
           \/ \E o \in Objects, keep \in {"local", "remote"} : Choose(d, o, keep)
           \/ ResolveLocal(d) \/ ResolveRemote(d)
           \/ StoreConflict(d) \/ RecognizeOwn(d) \/ Take(d)
           \/ Collect(d) \/ SendAccepted(d) \/ Complete(d)
           \/ Moves(d)
  BY <1>1, Steps
<1>3. ~RecognizeOwn(d)
  BY OwnNeverLate
<1>4. ASSUME NEW e \in Devices, e # d
      PROVE  /\ UNCHANGED <<item[e], outbox[e], version[e], conflict[e], cursor[e], choosing[e]>>
             /\ UNCHANGED <<pc[e], page[e], verdict[e], batch[e]>>
  <2>1. ASSUME NEW o, NEW content, NEW op, Edited(d, o, content, op)
        PROVE  /\ UNCHANGED <<item[e], outbox[e], version[e], conflict[e], cursor[e], choosing[e]>>
               /\ UNCHANGED <<pc[e], page[e], verdict[e], batch[e]>>
    BY <1>1, <1>4, <2>1 DEF Edited, Edit, sync, TypeOK
  <2>2. ASSUME NEW o \in Objects, NEW keep \in {"local", "remote"}, Choose(d, o, keep)
        PROVE  /\ UNCHANGED <<item[e], outbox[e], version[e], conflict[e], cursor[e], choosing[e]>>
               /\ UNCHANGED <<pc[e], page[e], verdict[e], batch[e]>>
    BY <1>1, <1>4, <2>2 DEF Choose, store, sync, TypeOK
  <2>3. CASE ResolveLocal(d)
    BY <1>1, <1>4, <2>3 DEF ResolveLocal, Resolved, sync, TypeOK
  <2>4. CASE ResolveRemote(d)
    BY <1>1, <1>4, <2>4 DEF ResolveRemote, Resolved, sync, TypeOK
  <2>5. CASE StoreConflict(d)
    BY <1>1, <1>4, <2>5 DEF StoreConflict, Applying, NextChange, Goto, TypeOK
  <2>6. CASE Take(d)
    BY <1>1, <1>4, <2>6 DEF Take, Applying, NextChange, Goto, TypeOK
  <2>7. CASE Collect(d)
    BY <1>1, <1>4, <2>7 DEF Collect, Goto, store, TypeOK
  <2>8. CASE SendAccepted(d)
    BY <1>1, <1>4, <2>8 DEF SendAccepted, Goto, store, TypeOK
  <2>9. CASE Complete(d)
    BY <1>1, <1>4, <2>9 DEF Complete, Goto, TypeOK
  <2>10. CASE Moves(d)
    <3>1. UNCHANGED <<pc[e], page[e], verdict[e], batch[e]>>
      BY <1>1, <1>4, <2>10, MovesAlone DEF Alone
    <3>2. UNCHANGED <<item, outbox, version, conflict, choosing>>
      BY <2>10, MovesAreQuiet DEF Quiet
    <3>3. UNCHANGED cursor[e]
      BY <1>1, <1>4, <2>10
      DEF Moves, Fetch, Skip, Check, Mark, NothingToPush, SendReplayed, SendRefused, Quits,
          store, TypeOK
    <3> QED
      BY <3>1, <3>2, <3>3
  <2> QED
    BY <1>2, <1>3, <2>1, <2>2, <2>3, <2>4, <2>5, <2>6, <2>7, <2>8, <2>9, <2>10
<1>5. ASSUME NEW e \in Devices, e # d
      PROVE  Extended(e)
  <2>1. CASE SendAccepted(d)
    <3>1. \A c \in log' \ log : c.device = d /\ c.cursor \in Nat /\ c.cursor > LastCursor
      BY <1>1, <2>1, SendFacts
    <3>2. log \subseteq log' /\ LastCursor <= LastCursor' /\ LastCursor \in Nat
      BY <1>1, <2>1, SendFacts, PageTyped
    <3> QED
      BY <1>5, <3>1, <3>2 DEF Extended
  <2>2. CASE ~SendAccepted(d)
    <3>1. UNCHANGED log
      <4>1. ASSUME NEW o, NEW content, NEW op, Edited(d, o, content, op)
            PROVE  UNCHANGED log
        BY <4>1 DEF Edited, Edit
      <4>2. CASE Moves(d)
        BY <4>2, MovesAreQuiet DEF Quiet
      <4> QED
        BY <1>2, <2>2, <4>1, <4>2
        DEF Choose, ResolveLocal, ResolveRemote, StoreConflict, RecognizeOwn, Take, Applying,
            Collect, Complete
    <3>2. LastCursor \in Nat /\ LastCursor' = LastCursor
      BY <1>1, <3>1, PageTyped DEF LastCursor
    <3> QED
      BY <3>1, <3>2 DEF Extended
  <2> QED
    BY <2>1, <2>2
<1>6. \A e \in Devices \ {d} : Still(e) /\ Extended(e)
  BY <1>4, <1>5 DEF Still
<1> QED
  BY <1>2, <1>3, <1>6
-----------------------------------------------------------------------------
(* A device's version of an object only grows.                             *)
LEMMA VersionGrows ==
  ASSUME AInv, IInv', NEW d \in Devices,
         \/ \E o, content, op : Edited(d, o, content, op)
         \/ \E o \in Objects, keep \in {"local", "remote"} : Choose(d, o, keep)
         \/ ResolveLocal(d) \/ ResolveRemote(d)
         \/ StoreConflict(d) \/ Take(d)
         \/ Collect(d) \/ Complete(d)
         \/ Moves(d)
  PROVE  /\ UNCHANGED <<server, log>>
         /\ \A e \in Devices, o \in Objects : version[e][o] <= version'[e][o] /\ version'[e][o] \in Nat
<1>1. TypeOK /\ IInv /\ DeviceInv(d)
  BY DEF AInv, EInv, IInv
<1>2. \A e \in Devices, o \in Objects : version[e][o] \in Nat
  BY <1>1 DEF TypeOK
<1>3. ASSUME UNCHANGED <<server, log, version>>
      PROVE  /\ UNCHANGED <<server, log>>
             /\ \A e \in Devices, o \in Objects : version[e][o] <= version'[e][o] /\ version'[e][o] \in Nat
  BY <1>2, <1>3
<1>4. ASSUME NEW o \in Objects, NEW v \in Nat, version[d][o] <= v,
             UNCHANGED <<server, log>>, version' = [version EXCEPT ![d][o] = v]
      PROVE  /\ UNCHANGED <<server, log>>
             /\ \A e \in Devices, p \in Objects : version[e][p] <= version'[e][p] /\ version'[e][p] \in Nat
  <2>1. ASSUME NEW e \in Devices, NEW p \in Objects
        PROVE  version'[e][p] = IF e = d /\ p = o THEN v ELSE version[e][p]
    BY <1>1, <1>4 DEF TypeOK
  <2>2. ASSUME NEW e \in Devices, NEW p \in Objects
        PROVE  version[e][p] <= version'[e][p] /\ version'[e][p] \in Nat
    <3>1. version[e][p] \in Nat
      BY <1>2
    <3> QED
      BY <1>4, <2>1, <3>1
  <2> QED
    BY <1>4, <2>2
<1>5. ASSUME NEW o, NEW content, NEW op, Edited(d, o, content, op)
      PROVE  UNCHANGED <<server, log, version>>
  BY <1>5 DEF Edited, Edit
<1>6. ASSUME NEW o \in Objects, NEW keep \in {"local", "remote"}, Choose(d, o, keep)
      PROVE  UNCHANGED <<server, log, version>>
  BY <1>6 DEF Choose, store
<1>7. CASE ResolveLocal(d) \/ ResolveRemote(d)
  <2> PICK c : c = choosing[d].change
    OBVIOUS
  <2>1. /\ choosing[d] # None /\ version' = [version EXCEPT ![d][c.object] = c.version]
        /\ UNCHANGED <<server, log>>
    BY <1>7 DEF ResolveLocal, ResolveRemote, Resolved
  <2>2. c \in log /\ conflict[d][c.object] = c /\ conflict[d][c.object] # None
    BY <1>1, <2>1 DEF IInv, ConflictInv, DeviceInv, ChoiceFits
  <2>3. c.object \in Objects /\ c.version \in Nat
    BY <1>1, <2>2, LogTyped
  <2>4. version[d][c.object] <= c.version
    BY <1>1, <2>2, <2>3 DEF DeviceInv, ConflictFits
  <2> QED
    BY <1>4, <2>1, <2>3, <2>4
<1>8. CASE StoreConflict(d)
  BY <1>3, <1>8 DEF StoreConflict, Applying
<1>9. CASE Take(d)
  <2> PICK h : h = AtHand(d)
    OBVIOUS
  <2>1. /\ Applying(d, "take") /\ version' = [version EXCEPT ![d][h.object] = h.version]
        /\ UNCHANGED <<server, log>>
    BY <1>9 DEF Take, Applying
  <2>2. h.object \in Objects /\ h.version \in Nat /\ version[d][h.object] < h.version
    BY <2>1, ApplyingAgrees
  <2>3. version[d][h.object] <= h.version
    BY <1>2, <2>2
  <2> QED
    BY <1>4, <2>1, <2>2, <2>3
<1>10. CASE Collect(d)
  BY <1>3, <1>10 DEF Collect, store
<1>11. CASE Complete(d)
  <2>1. /\ pc[d] = "await" /\ UNCHANGED <<server, log>>
        /\ version' = [version EXCEPT ![d] = [o \in Objects |->
             IF o \in InBatch(d) THEN Confirmed(d, o).version ELSE version[d][o]]]
    BY <1>1, <1>11 DEF Complete, TypeOK
  <2>2. ASSUME NEW o \in InBatch(d)
        PROVE  version[d][o] < Confirmed(d, o).version /\ Confirmed(d, o).version \in Nat
    <3>1. Answered(d)
      BY <1>1, <2>1 DEF IInv, PageInv, PageFits
    <3>2. /\ Confirmed(d, o) \in log /\ Confirmed(d, o).object = o
          /\ Confirmed(d, o).key = Key(d) /\ Confirmed(d, o).device = d
      BY <1>1, <3>1, ConfirmedFacts DEF IInv
    <3>3. Confirmed(d, o).version \in Nat
      BY <1>1, <3>2, LogTyped
    <3> QED
      BY <1>1, <2>1, <3>2, <3>3 DEF DeviceInv, AwaitFits, Awaited
  <2>3. ASSUME NEW e \in Devices, NEW o \in Objects
        PROVE  version[e][o] <= version'[e][o] /\ version'[e][o] \in Nat
    <3>1. version'[e][o] = IF e = d /\ o \in InBatch(d) THEN Confirmed(d, o).version
                           ELSE version[e][o]
      BY <1>1, <2>1 DEF TypeOK
    <3>2. version[e][o] \in Nat
      BY <1>2
    <3> QED
      BY <2>2, <3>1, <3>2
  <2> QED
    BY <2>1, <2>3
<1>12. CASE Moves(d)
  BY <1>3, <1>12, MovesAreQuiet DEF Quiet
<1> QED
  BY <1>3, <1>5, <1>6, <1>7, <1>8, <1>9, <1>10, <1>11, <1>12

LEMMA NextAgrees ==
  ASSUME Allowed = {}, AInv, EInv', Next
  PROVE  AInv'
<1>1. IInv /\ IInv'
  BY DEF AInv, EInv
<1>2. LogInv' /\ KeyInv'
  BY <1>1 DEF IInv
<1>3. PICK d \in Devices :
        /\ \A e \in Devices \ {d} : Still(e) /\ Extended(e)
        /\ \/ \E o, content, op : Edited(d, o, content, op)
           \/ \E o \in Objects, keep \in {"local", "remote"} : Choose(d, o, keep)
           \/ ResolveLocal(d) \/ ResolveRemote(d)
           \/ StoreConflict(d) \/ Take(d)
           \/ Collect(d) \/ SendAccepted(d) \/ Complete(d)
           \/ Moves(d)
  BY <1>1, OthersStill
<1>4. ASSUME NEW e \in Devices, e # d
      PROVE  DeviceInv(e)'
  <2>1. Still(e) /\ Extended(e) /\ DeviceInv(e)
    BY <1>3, <1>4 DEF AInv
  <2> QED
    BY <1>1, <1>2, <2>1, Bystander
<1>5. DeviceInv(d)'
  <2>1. ASSUME NEW o, NEW content, NEW op, Edited(d, o, content, op)
        PROVE  DeviceInv(d)'
    BY <2>1, EditAgrees
  <2>2. ASSUME NEW o \in Objects, NEW keep \in {"local", "remote"}, Choose(d, o, keep)
        PROVE  DeviceInv(d)'
    BY <2>2, ChooseAgrees
  <2>3. CASE ResolveLocal(d) \/ ResolveRemote(d)
    BY <2>3, ResolutionAgrees
  <2>4. CASE StoreConflict(d) \/ Take(d)
    BY <2>4, StoreConflictAgrees, TakeAgrees
  <2>5. CASE Collect(d) \/ SendAccepted(d) \/ Complete(d)
    BY <2>5, CollectAgrees, SendAgrees, CompleteAgrees
  <2>6. CASE Moves(d)
    BY <2>6, MovesAgree
  <2> QED
    BY <1>3, <2>1, <2>2, <2>3, <2>4, <2>5, <2>6
<1>6. HistoryInv'
  <2>1. CASE SendAccepted(d)
    BY <2>1, HistoryGrows
  <2>2. CASE ~SendAccepted(d)
    <3>1. /\ UNCHANGED <<server, log>>
          /\ \A e \in Devices, o \in Objects : version[e][o] <= version'[e][o] /\ version'[e][o] \in Nat
      BY <1>1, <1>3, <2>2, VersionGrows
    <3> QED
      BY <3>1, HistoryStays
  <2> QED
    BY <2>1, <2>2
<1>7. \A e \in Devices : DeviceInv(e)'
  BY <1>4, <1>5
<1> QED
  BY <1>6, <1>7 DEF AInv

LEMMA InitAInv ==
  ASSUME Init, EInv
  PROVE  AInv
<1>1. /\ server = AtStart([version |-> 1, content |-> 1], [version |-> 0, content |-> Nothing])
      /\ log = {}
      /\ item = Each(AtStart(1, Nothing)) /\ version = Each(AtStart(1, 0))
      /\ outbox = EachObject(NoRow) /\ conflict = EachObject(None) /\ cursor = Each(0)
      /\ pc = Each("idle") /\ batch = Each(NoBatch) /\ choosing = Each(None)
  BY DEF Init
<1>2. LastCursor = 0
  BY <1>1, FS_EmptySet DEF LastCursor
<1>3. ASSUME NEW o \in Objects
      PROVE  server[o].version = Start(o) /\ server[o].content = StartContent(o)
  BY <1>1 DEF AtStart, Start, StartContent
<1>4. ASSUME NEW d \in Devices
      PROVE  /\ pc[d] = "idle" /\ InBatch(d) = {} /\ choosing[d] = None /\ cursor[d] = 0
             /\ \A o \in Objects : /\ ~Pending(d, o) /\ conflict[d][o] = None
                                   /\ item[d][o] = StartContent(o) /\ version[d][o] = Start(o)
  <2>1. pc[d] = "idle" /\ InBatch(d) = {} /\ choosing[d] = None /\ cursor[d] = 0
    BY <1>1 DEF Each, InBatch, NoBatch
  <2>2. ASSUME NEW o \in Objects
        PROVE  /\ ~Pending(d, o) /\ conflict[d][o] = None
               /\ item[d][o] = StartContent(o) /\ version[d][o] = Start(o)
    BY <1>1 DEF Each, EachObject, AtStart, Start, StartContent, Pending
  <2> QED
    BY <2>1, <2>2
<1>5. HistoryInv
  <2>1. \A o \in Objects : Start(o) \in Nat
    BY DEF Start
  <2> QED
    BY <1>1, <1>3, <1>4, <2>1 DEF HistoryInv, Reads
<1>6. ASSUME NEW d \in Devices
      PROVE  DeviceInv(d)
  <2>1. /\ ChoiceFits(d) /\ ConflictFits(d) /\ BatchFits(d) /\ ApplyFits(d)
        /\ OwnFits(d) /\ AwaitFits(d)
    BY <1>1, <1>4
    DEF ChoiceFits, ConflictFits, BatchFits, ApplyFits, OwnFits, AwaitFits
  <2>2. ShownFits(d)
    BY <1>4 DEF ShownFits, Reads
  <2>3. NothingMissed(d)
    BY <1>1, <1>2, <1>4 DEF NothingMissed, Position
  <2> QED
    BY <2>1, <2>2, <2>3 DEF DeviceInv
<1> QED
  BY <1>5, <1>6 DEF AInv
-----------------------------------------------------------------------------
(* The last change of an object made its version on the server; having     *)
(* passed it by, with no conflict stored, a device has that version.       *)
LEMMA AInvAgrees ==
  ASSUME AInv
  PROVE  CaughtUpAgrees
<1>1. IInv /\ TypeOK /\ HistoryInv /\ LogInv /\ VersionInv
  BY DEF AInv, EInv, IInv
<1> SUFFICES ASSUME NEW d \in Devices, NEW o \in Objects, CaughtUp(d, o)
             PROVE  item[d][o] = server[o].content /\ version[d][o] = server[o].version
  BY DEF CaughtUpAgrees
<1>2. DeviceInv(d)
  BY DEF AInv
<1>3. cursor[d] = LastCursor /\ ~Pending(d, o) /\ conflict[d][o] = None
  BY DEF CaughtUp
<1>4. \A c \in log : c.cursor <= Position(d)
  <2>1. Position(d) \in Int
    BY <1>1, PageTyped DEF Position
  <2>2. LastCursor <= Position(d) /\ LastCursor \in Nat
    BY <1>1, <1>2, <1>3, PageTyped DEF DeviceInv, NothingMissed
  <2>3. ASSUME NEW c \in log
        PROVE  c.cursor \in 1 .. LastCursor
    BY <1>1, LogTyped
  <2> QED
    BY <2>1, <2>2, <2>3
<1>5. \A c \in log : c.object = o => c.version <= version[d][o]
  BY <1>2, <1>3, <1>4 DEF DeviceInv, NothingMissed, Passed
<1>6. /\ Reads(o, version[d][o], item[d][o])
      /\ Reads(o, server[o].version, server[o].content)
  BY <1>1, <1>2, <1>3 DEF DeviceInv, ShownFits, HistoryInv
<1>7. /\ version[d][o] <= server[o].version /\ Start(o) <= version[d][o]
      /\ version[d][o] \in Nat /\ server[o].version \in Nat /\ Start(o) \in Nat
  BY <1>1 DEF VersionInv, HistoryInv, TypeOK, Start
<1>8. version[d][o] = server[o].version
  <2>1. CASE server[o].version = Start(o)
    BY <1>7, <2>1
  <2>2. CASE \E c \in log : c.object = o /\ c.version = server[o].version
    <3>1. server[o].version <= version[d][o]
      BY <1>5, <2>2
    <3> QED
      BY <1>7, <3>1
  <2> QED
    BY <1>6, <2>1, <2>2 DEF Reads
<1>9. item[d][o] = server[o].content
  <2> PICK v : v = server[o].version
    OBVIOUS
  <2>1. v \in Nat /\ \A c \in log : c.object = o => Start(o) < c.version
    BY <1>1, <1>7 DEF HistoryInv
  <2>2. \A c, e \in log : c.object = o /\ e.object = o /\ c.version = v /\ e.version = v => c = e
    BY <1>1 DEF LogInv
  <2>3. CASE v = Start(o)
    <3>1. ~\E c \in log : c.object = o /\ c.version = v
      BY <1>7, <2>1, <2>3
    <3> QED
      BY <1>6, <1>8, <3>1 DEF Reads
  <2>4. CASE v # Start(o)
    BY <1>6, <1>8, <2>2, <2>4 DEF Reads
  <2> QED
    BY <2>3, <2>4
<1> QED
  BY <1>8, <1>9

(* When no answer is lost and nobody edits or resolves while a change is   *)
(* being applied, a device that has taken in the whole log, with nothing   *)
(* to push and no conflict for an object, shows the server's version of    *)
(* it: whatever batches and pages there were, wherever calls failed.       *)
THEOREM Agrees ==
  ASSUME Allowed = {}
  PROVE  Spec => []CaughtUpAgrees
<1>1. NoEditDuringApply
  BY DEF NoEditDuringApply
<1>2. Init => AInv
  BY InitEInv, InitAInv
<1>3. AInv /\ [Next]_vars => AInv'
  <2> SUFFICES ASSUME AInv, [Next]_vars
               PROVE  AInv'
    OBVIOUS
  <2>1. EInv /\ EInv'
    BY <1>1, EInductive DEF AInv
  <2>2. CASE Next
    BY <2>1, <2>2, NextAgrees
  <2>3. CASE UNCHANGED vars
    <3>1. /\ UNCHANGED <<server, log, item, outbox, version, conflict, cursor, choosing>>
          /\ UNCHANGED <<pc, page, verdict, batch>>
      BY <2>3 DEF vars, store, sync
    <3>2. HistoryInv'
      <4>1. \A d \in Devices, o \in Objects : version[d][o] <= version'[d][o] /\ version'[d][o] \in Nat
        BY <2>1, <3>1 DEF EInv, IInv, TypeOK
      <4> QED
        BY <3>1, <4>1, HistoryStays
    <3>3. ASSUME NEW d \in Devices
          PROVE  DeviceInv(d)'
      <4>1. LastCursor' = LastCursor /\ LastCursor \in Nat
        BY <2>1, <3>1, PageTyped DEF LastCursor, EInv
      <4>2. Still(d) /\ Extended(d)
        BY <3>1, <4>1 DEF Still, Extended
      <4>3. DeviceInv(d) /\ IInv /\ LogInv' /\ KeyInv'
        BY <2>1 DEF AInv, EInv, IInv
      <4> QED
        BY <4>2, <4>3, Bystander
    <3> QED
      BY <2>1, <3>2, <3>3 DEF AInv
  <2> QED
    BY <2>2, <2>3
<1> QED
  BY <1>2, <1>3, AInvAgrees, PTL DEF Spec
=============================================================================
