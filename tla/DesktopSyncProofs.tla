--------------------------- MODULE DesktopSyncProofs ---------------------------
(***************************************************************************)
(* Theorems of DesktopSync, for any devices, objects, edits and failures:  *)
(* its type invariant, that no change is pushed over one the user has not  *)
(* been shown, and, when nobody edits while a change is being applied,     *)
(* that no edit is lost.                                                   *)
(***************************************************************************)
EXTENDS DesktopSync, FiniteSetTheorems, FunctionTheorems, TLAPS

(* The log is numbered without a gap, and by object and version.           *)
LogInv ==
  /\ IsFiniteSet(log)
  /\ \A c \in log : c.cursor \in 1 .. LastCursor /\ c.version <= server[c.object].version
  /\ \A n \in 1 .. LastCursor : \E c \in log : c.cursor = n
  /\ \A c, e \in log : c.cursor = e.cursor => c = e
  /\ \A c, e \in log : c.object = e.object /\ c.version = e.version => c = e

(* The key of a change names its device and, with the number of its outbox *)
(* row, each object of its batch once.                                     *)
KeyInv ==
  \A c \in log :
    /\ c.key[1] = c.device
    /\ \A k \in c.key[2] :
         /\ k[2] \in 1 .. lastSeq[c.device]
         /\ \E e \in log : e.key = c.key /\ e.object = k[1]
    /\ \A j, k \in c.key[2] : j[1] = k[1] => j = k

(* Outbox rows are numbered in the order of the edits.                     *)
RowInv ==
  /\ edits \in 1 .. MaxEdits + 1
  /\ \A d \in Devices :
       /\ lastSeq[d] < edits
       /\ \A o \in Objects : Pending(d, o) =>
            outbox[d][o].seq \in 1 .. lastSeq[d] /\ outbox[d][o].op # "none"
       /\ \A o, p \in Objects :
            Pending(d, o) /\ Pending(d, p) /\ outbox[d][o].seq = outbox[d][p].seq => o = p

(* A batch is of rows that are there, are superseded or were given up.     *)
BatchInv ==
  \A d \in Devices :
    /\ \A o \in InBatch(d) :
         /\ batch[d][o].seq \in 1 .. lastSeq[d] /\ batch[d][o].base <= server[o].version
         /\ Pending(d, o) =>
              /\ batch[d][o].seq <= outbox[d][o].seq
              /\ batch[d][o].seq = outbox[d][o].seq => batch[d][o].op = outbox[d][o].op
    /\ \A o, p \in InBatch(d) : batch[d][o].seq = batch[d][p].seq => o = p

(* What is being taken in is in the log, and was judged by what it is.     *)
PageFits(d) ==
  /\ page[d].last <= LastCursor
  /\ pc[d] \in {"check", "apply"} => page[d].next \in Nat \ {0}
  /\ pc[d] = "apply" =>
       /\ page[d].next <= page[d].last
       /\ verdict[d] = "own" => AtHand(d).device = d
  /\ pc[d] = "await" => Answered(d)
PageInv == \A d \in Devices : PageFits(d)

(* Conflicts and choices are changes of the log.                           *)
ConflictInv ==
  \A d \in Devices :
    /\ \A o \in Objects : conflict[d][o] # None => conflict[d][o] \in log
    /\ choosing[d] # None => choosing[d].change \in log

(* A device's version of an object, and the one its batch is based on, is  *)
(* the version of a change of its own or of one its user was shown.        *)
Met(d, o, v) ==
  \A e \in log : e.object = o /\ e.version = v => e.device = d \/ e \in seen[d]
VersionInv ==
  \A d \in Devices :
    /\ \A o \in Objects : version[d][o] <= server[o].version /\ Met(d, o, version[d][o])
    /\ \A o \in InBatch(d) : Met(d, o, batch[d][o].base)

IInv ==
  /\ TypeOK /\ LogInv /\ KeyInv /\ RowInv /\ BatchInv /\ PageInv
  /\ ConflictInv /\ VersionInv

(* As long as nobody edits during apply: an outbox row is of the edit the  *)
(* device shows, nothing is taken in over it, and a change pushed from the *)
(* row that is still there carries that edit.                              *)
RowShown ==
  \A d \in Devices, o \in Objects : Pending(d, o) =>
    item[d][o] = mine[d][o] /\ (outbox[d][o].op = "delete" => item[d][o] = Nothing)
TakeFree ==
  \A d \in Devices :
    pc[d] = "apply" /\ verdict[d] = "take" => ~Pending(d, AtHand(d).object)
Carried ==
  \A c \in log, o \in Objects :
    Pending(c.device, o) /\ c.object = o /\ <<o, outbox[c.device][o].seq>> \in c.key[2] =>
      c.content = mine[c.device][o]
EditInv == RowShown /\ TakeFree /\ Carried
EInv == IInv /\ EditInv /\ NoEditLost
-----------------------------------------------------------------------------
(* Counting the elements of a finite set up to each of them, in an order   *)
(* without ties, gives every number from 1 to its size, each once.         *)
Rank(S, f, x) == Cardinality({y \in S : f[y] <= f[x]})

LEMMA RankIn ==
  ASSUME NEW S, IsFiniteSet(S), NEW f, \A x \in S : f[x] \in Nat, NEW x \in S
  PROVE  /\ Rank(S, f, x) \in 1 .. Cardinality(S)
         /\ IsFiniteSet({y \in S : f[y] <= f[x]}) /\ Cardinality(S) \in Nat
<1> DEFINE U == {y \in S : f[y] <= f[x]}
<1>1. U \in SUBSET S /\ x \in U
  OBVIOUS
<1> HIDE DEF U
<1>2. IsFiniteSet(U) /\ Cardinality(U) <= Cardinality(S)
  BY <1>1, FS_Subset
<1>3. Cardinality(U) \in Nat /\ Cardinality(S) \in Nat
  BY <1>2, FS_CardinalityType
<1>4. Cardinality(U) # 0
  BY <1>1, <1>2, FS_EmptySet
<1>5. Cardinality(U) \in 1 .. Cardinality(S)
  BY <1>2, <1>3, <1>4
<1> QED
  BY <1>2, <1>3, <1>5 DEF U, Rank

LEMMA RankGrows ==
  ASSUME NEW S, IsFiniteSet(S), NEW f, \A x \in S : f[x] \in Nat,
         NEW x \in S, NEW y \in S, f[x] < f[y]
  PROVE  Rank(S, f, x) < Rank(S, f, y)
<1> DEFINE U == {z \in S : f[z] <= f[x]}
           V == {z \in S : f[z] <= f[y]}
<1>1. U \subseteq V /\ y \in V /\ y \notin U
  OBVIOUS
<1>2. IsFiniteSet(U) /\ IsFiniteSet(V) /\ Rank(S, f, x) = Cardinality(U) /\ Rank(S, f, y) = Cardinality(V)
  BY RankIn DEF Rank
<1> HIDE DEF U, V
<1>3. Cardinality(U) <= Cardinality(V) /\ Cardinality(U) # Cardinality(V)
  BY <1>1, <1>2, FS_Subset
<1>4. Cardinality(U) \in Nat /\ Cardinality(V) \in Nat
  BY <1>2, FS_CardinalityType
<1> QED
  BY <1>2, <1>3, <1>4

LEMMA RankOnto ==
  ASSUME NEW S, IsFiniteSet(S), NEW f, \A x \in S : f[x] \in Nat,
         \A x, y \in S : f[x] = f[y] => x = y
  PROVE  /\ \A x, y \in S : Rank(S, f, x) = Rank(S, f, y) => x = y
         /\ \A n \in 1 .. Cardinality(S) : \E x \in S : Rank(S, f, x) = n
<1> DEFINE T == 1 .. Cardinality(S)
           r == [x \in S |-> Rank(S, f, x)]
<1>1. Cardinality(S) \in Nat
  BY FS_CardinalityType
<1>2. \A x \in S : Rank(S, f, x) \in T
  BY RankIn
<1>3. \A x, y \in S : Rank(S, f, x) = Rank(S, f, y) => x = y
  <2> SUFFICES ASSUME NEW x \in S, NEW y \in S, x # y
               PROVE  Rank(S, f, x) # Rank(S, f, y)
    OBVIOUS
  <2>1. /\ f[x] < f[y] \/ f[y] < f[x]
        /\ Rank(S, f, x) \in Nat /\ Rank(S, f, y) \in Nat
    BY <1>2
  <2> QED
    BY <2>1, RankGrows
<1>4. IsFiniteSet(T) /\ Cardinality(T) = Cardinality(S)
  <2>1. 1 \in Int /\ Cardinality(S) \in Int
    BY <1>1
  <2>2. IsFiniteSet(T) /\ Cardinality(T) = IF 1 > Cardinality(S) THEN 0 ELSE Cardinality(S) - 1 + 1
    BY <2>1, FS_Interval
  <2> QED
    BY <1>1, <2>2
<1>5. r \in [S -> T] /\ \A x \in S : r[x] = Rank(S, f, x)
  BY <1>2
<1> HIDE DEF T, r
<1>6. r \in Injection(S, T)
  BY <1>3, <1>5, Fun_IsInj
<1>7. r \in Surjection(S, T)
  BY <1>4, <1>6, FS_Injection
<1>8. \A n \in T : \E x \in S : r[x] = n
  BY <1>7, Fun_SurjectionProperties
<1> QED
  BY <1>3, <1>5, <1>8 DEF T
-----------------------------------------------------------------------------
(* The change at hand is the one with the next cursor, whatever is added   *)
(* to the log meanwhile.                                                   *)
LEMMA LastCursorTyped ==
  ASSUME LogInv
  PROVE  LastCursor \in Nat
BY FS_CardinalityType DEF LogInv, LastCursor

LEMMA AtHandFacts ==
  ASSUME LogInv, NEW d, page[d].next \in 1 .. LastCursor
  PROVE  AtHand(d) \in log /\ AtHand(d).cursor = page[d].next
<1>1. \E c \in log : c.cursor = page[d].next
  BY DEF LogInv
<1> QED
  BY <1>1 DEF AtHand

LEMMA AtHandStays ==
  ASSUME LogInv, LogInv', NEW d, page[d].next \in 1 .. LastCursor,
         log \subseteq log', page'[d].next = page[d].next
  PROVE  AtHand(d)' = AtHand(d)
<1> PICK n : n = page[d].next
  OBVIOUS
<1>1. AtHand(d) \in log /\ AtHand(d).cursor = n
  BY AtHandFacts
<1>2. \A c, e \in log' : c.cursor = e.cursor => c = e
  BY DEF LogInv
<1>3. AtHand(d)' \in log' /\ AtHand(d)'.cursor = n
  <2>1. \E c \in log' : c.cursor = n
    BY <1>1
  <2> QED
    BY <2>1 DEF AtHand
<1> QED
  BY <1>1, <1>2, <1>3

(* The answer to a push lists the changes of the batch.                    *)
LEMMA ConfirmedFacts ==
  ASSUME KeyInv, NEW d, Answered(d), NEW o \in InBatch(d)
  PROVE  /\ Confirmed(d, o) \in log /\ Confirmed(d, o).object = o
         /\ Confirmed(d, o).key = Key(d) /\ Confirmed(d, o).device = d
<1>1. PICK c \in log : c.key = Key(d)
  BY DEF Answered, Stored
<1>2. Key(d)[1] = d /\ <<o, batch[d][o].seq>> \in Key(d)[2]
  BY DEF Key
<1>3. \E e \in Stored(d) : e.object = o
  BY <1>1, <1>2 DEF KeyInv, Stored
<1>4. Confirmed(d, o) \in Stored(d) /\ Confirmed(d, o).object = o
  BY <1>3 DEF Confirmed
<1>5. Confirmed(d, o) \in log /\ Confirmed(d, o).key = Key(d)
  BY <1>4 DEF Stored
<1> QED
  BY <1>2, <1>4, <1>5 DEF KeyInv

LEMMA BatchTyped ==
  ASSUME TypeOK, NEW d \in Devices
  PROVE  /\ InBatch(d) \subseteq Objects /\ IsFiniteSet(InBatch(d))
         /\ \A o \in InBatch(d) : batch[d][o] \in Sent
         /\ batch[d] = [o \in InBatch(d) |-> batch[d][o]]
         /\ pc[d] \in {"send", "await"} <=> InBatch(d) # {}
<1>1. PICK s \in SUBSET Objects : batch[d] \in [s -> Sent]
  BY DEF TypeOK
<1>2. InBatch(d) = s /\ batch[d] = [o \in s |-> batch[d][o]]
  BY <1>1 DEF InBatch
<1>3. IsFiniteSet(s)
  BY FS_Subset, DesktopAssumption
<1>4. batch[d] = NoBatch <=> s = {}
  <2>1. NoBatch = [o \in {} |-> NoRow] /\ DOMAIN NoBatch = {}
    BY DEF NoBatch
  <2>2. ASSUME s = {}
        PROVE  batch[d] = NoBatch
    BY <1>2, <2>1, <2>2
  <2>3. ASSUME batch[d] = NoBatch
        PROVE  s = {}
    BY <1>2, <2>1, <2>3 DEF InBatch
  <2> QED
    BY <2>2, <2>3
<1>5. pc[d] \in {"send", "await"} <=> batch[d] # NoBatch
  BY DEF TypeOK
<1> QED
  BY <1>1, <1>2, <1>3, <1>4, <1>5
-----------------------------------------------------------------------------
(* What a push that is accepted adds to the log.                           *)
LEMMA AcceptedFacts ==
  ASSUME IInv, NEW d \in Devices, pc[d] = "send"
  PROVE  /\ \A o \in InBatch(d) :
              /\ Accepted(d, o) \in Change
              /\ Accepted(d, o).object = o /\ Accepted(d, o).device = d
              /\ Accepted(d, o).version = server[o].version + 1
              /\ Accepted(d, o).key = Key(d)
              /\ Accepted(d, o).content =
                   (IF batch[d][o].op = "delete" THEN Nothing ELSE item[d][o])
              /\ Accepted(d, o).cursor \in LastCursor + 1 .. LastCursor + Cardinality(InBatch(d))
         /\ \A o, p \in InBatch(d) : Accepted(d, o).cursor = Accepted(d, p).cursor => o = p
         /\ \A n \in LastCursor + 1 .. LastCursor + Cardinality(InBatch(d)) :
              \E o \in InBatch(d) : Accepted(d, o).cursor = n
         /\ InBatch(d) # {} /\ Cardinality(InBatch(d)) \in Nat
<1> PICK B : B = InBatch(d)
  OBVIOUS
<1> PICK f : f = [o \in B |-> batch[d][o].seq]
  OBVIOUS
<1>1. /\ B \subseteq Objects /\ IsFiniteSet(B) /\ B # {}
      /\ \A o \in B : batch[d][o] \in Sent
  BY BatchTyped DEF IInv
<1>2. Cardinality(B) \in Nat /\ LastCursor \in Nat
  BY <1>1, FS_CardinalityType, LastCursorTyped DEF IInv
<1>3. /\ \A o \in B : f[o] \in Nat /\ f[o] = batch[d][o].seq
      /\ \A o, p \in B : f[o] = f[p] => o = p
  BY <1>1 DEF IInv, BatchInv, Sent
<1>4. /\ \A o \in B : Rank(B, f, o) \in 1 .. Cardinality(B)
      /\ \A o, p \in B : Rank(B, f, o) = Rank(B, f, p) => o = p
      /\ \A n \in 1 .. Cardinality(B) : \E o \in B : Rank(B, f, o) = n
  <2>1. /\ IsFiniteSet(B) /\ \A o \in B : f[o] \in Nat
        /\ \A o, p \in B : f[o] = f[p] => o = p
    BY <1>1, <1>3
  <2>2. ASSUME NEW o \in B
        PROVE  Rank(B, f, o) \in 1 .. Cardinality(B)
    BY <2>1, <2>2, RankIn
  <2> QED
    BY <2>1, <2>2, RankOnto
<1>5. ASSUME NEW o \in B
      PROVE  /\ Accepted(d, o).object = o /\ Accepted(d, o).device = d
             /\ Accepted(d, o).version = server[o].version + 1
             /\ Accepted(d, o).key = Key(d)
             /\ Accepted(d, o).content =
                  (IF batch[d][o].op = "delete" THEN Nothing ELSE item[d][o])
             /\ Accepted(d, o).cursor = LastCursor + Rank(B, f, o)
             /\ Accepted(d, o) \in Change
  <2>1. {p \in InBatch(d) : batch[d][p].seq <= batch[d][o].seq} = {p \in B : f[p] <= f[o]}
    BY <1>3
  <2>2. /\ Accepted(d, o).object = o /\ Accepted(d, o).device = d
        /\ Accepted(d, o).version = server[o].version + 1
        /\ Accepted(d, o).key = Key(d)
        /\ Accepted(d, o).content =
             (IF batch[d][o].op = "delete" THEN Nothing ELSE item[d][o])
        /\ Accepted(d, o).cursor = LastCursor + Rank(B, f, o)
    BY <2>1 DEF Accepted, Rank
  <2>3. Key(d) \in Devices \X SUBSET (Objects \X Nat)
    BY <1>1 DEF Key, Sent
  <2>4. /\ o \in Objects
        /\ server[o].version + 1 \in Nat
        /\ LastCursor + Rank(B, f, o) \in Nat
        /\ (IF batch[d][o].op = "delete" THEN Nothing ELSE item[d][o]) \in Content
    <3>1. o \in Objects
      BY <1>1
    <3>2. server \in [Objects -> [version : Nat, content : Content]] /\ item \in [Devices -> [Objects -> Content]]
      BY DEF IInv, TypeOK
    <3>3. Rank(B, f, o) \in 1 .. Cardinality(B)
      BY <1>4
    <3> QED
      BY <1>2, <3>1, <3>2, <3>3 DEF Content, Nothing
  <2>5. Accepted(d, o) \in Change
    BY <2>1, <2>3, <2>4 DEF Accepted, Change, Rank
  <2> QED
    BY <2>2, <2>5
<1>6. ASSUME NEW n \in LastCursor + 1 .. LastCursor + Cardinality(B)
      PROVE  \E o \in B : Accepted(d, o).cursor = n
  <2>1. n - LastCursor \in 1 .. Cardinality(B)
    BY <1>2
  <2>2. PICK o \in B : Rank(B, f, o) = n - LastCursor
    BY <1>4, <2>1
  <2> QED
    BY <1>2, <1>5, <2>2
<1>7. \A o \in B : Accepted(d, o).cursor \in LastCursor + 1 .. LastCursor + Cardinality(B)
  BY <1>2, <1>4, <1>5
<1>8. \A o, p \in B : Accepted(d, o).cursor = Accepted(d, p).cursor => o = p
  BY <1>2, <1>4, <1>5
<1> QED
  BY <1>1, <1>2, <1>5, <1>6, <1>7, <1>8
-----------------------------------------------------------------------------
(* The steps, by what they change. A quiet one moves sync_now only.        *)
Edited(d, o, content, op) ==
  /\ o \in Objects /\ content \in Content /\ op \in {"upsert", "delete"}
  /\ op = "delete" => content = Nothing
  /\ MayEdit(d) /\ Edit(d, o, content, op)
Quits(d) ==
  /\ pc[d] # "idle" /\ (pc[d] = "await" => Allowed # {})
  /\ failures' \in Nat /\ Stop(d)
  /\ UNCHANGED <<server, log, store, choosing, edits, mine, seen>>
Quiet(d) ==
  /\ UNCHANGED <<server, log, item, outbox, lastSeq, version, conflict, choosing>>
  /\ UNCHANGED <<edits, mine, seen>>
  /\ UNCHANGED batch \/ batch' = [batch EXCEPT ![d] = NoBatch]
Moves(d) ==
  \/ Fetch(d) \/ Skip(d) \/ Check(d) \/ Mark(d) \/ NothingToPush(d)
  \/ SendReplayed(d) \/ SendRefused(d) \/ Quits(d)

LEMMA Steps ==
  ASSUME TypeOK, Next
  PROVE  \E d \in Devices :
           \/ \E o, content, op : Edited(d, o, content, op)
           \/ \E o \in Objects, keep \in {"local", "remote"} : Choose(d, o, keep)
           \/ ResolveLocal(d) \/ ResolveRemote(d)
           \/ StoreConflict(d) \/ RecognizeOwn(d) \/ Take(d)
           \/ Collect(d) \/ SendAccepted(d) \/ Complete(d)
           \/ Moves(d)
<1>1. PICK d \in Devices : User(d) \/ Writing(d) \/ Syncing(d) \/ Abort(d)
  BY DEF Next
<1>2. ASSUME NEW o \in Objects, Save(d, o)
      PROVE  Edited(d, o, edits + 1, "upsert")
  <2>1. edits + 1 \in Content
    BY DEF TypeOK, Content
  <2> QED
    BY <1>2, <2>1 DEF Save, Edited
<1>3. ASSUME NEW o \in Objects, Delete(d, o)
      PROVE  Edited(d, o, Nothing, "delete")
  <2>1. Nothing \in Content
    BY DEF Nothing, Content
  <2> QED
    BY <1>3, <2>1 DEF Delete, Edited
<1>4. ASSUME Abort(d)
      PROVE  Moves(d)
  <2>1. failures + 1 \in Nat
    BY DEF TypeOK
  <2>2. pc[d] = "await" => Allowed # {}
    BY <1>4 DEF Abort
  <2>3. Quits(d)
    BY <1>4, <2>1, <2>2 DEF Abort, Quits
  <2> QED
    BY <2>3 DEF Moves
<1>5. ASSUME Unreadable(d)
      PROVE  Moves(d)
  <2>1. failures' \in Nat /\ pc[d] = "send"
    BY <1>5 DEF TypeOK, Unreadable, ghosts
  <2>2. Quits(d)
    BY <1>5, <2>1 DEF Unreadable, Quits, ghosts
  <2> QED
    BY <2>2 DEF Moves
<1> QED
  BY <1>1, <1>2, <1>3, <1>4, <1>5 DEF User, Writing, Syncing, Moves

LEMMA MovesAreQuiet ==
  ASSUME NEW d \in Devices, Moves(d)
  PROVE  Quiet(d)
<1>1. CASE Fetch(d) \/ Skip(d) \/ Check(d) \/ NothingToPush(d) \/ SendReplayed(d)
  BY <1>1 DEF Fetch, Skip, Check, NothingToPush, SendReplayed, Quiet, store, ghosts
<1>2. CASE Mark(d)
  BY <1>2 DEF Mark, Stop, Quiet, ghosts
<1>3. CASE SendRefused(d)
  BY <1>3 DEF SendRefused, Stop, Quiet, store, ghosts
<1>4. CASE Quits(d)
  BY <1>4 DEF Quits, Stop, Quiet, store
<1> QED
  BY <1>1, <1>2, <1>3, <1>4 DEF Moves
-----------------------------------------------------------------------------
(* The part of the type invariant that ties the batch to sync_now.         *)
BatchType ==
  /\ DOMAIN batch = Devices
  /\ \A d \in Devices :
       /\ \E s \in SUBSET Objects : batch[d] \in [s -> Sent]
       /\ pc[d] \in {"send", "await"} <=> batch[d] # NoBatch

LEMMA BatchDropped ==
  ASSUME BatchType, NEW d \in Devices,
         batch' = [batch EXCEPT ![d] = NoBatch],
         \A e \in Devices : e # d => pc'[e] = pc[e],
         pc'[d] \notin {"send", "await"}
  PROVE  BatchType'
<1>1. NoBatch \in [{} -> Sent]
  BY DEF NoBatch
<1>2. DOMAIN batch' = Devices /\ batch'[d] = NoBatch
  BY DEF BatchType
<1>3. ASSUME NEW e \in Devices
      PROVE  /\ \E s \in SUBSET Objects : batch'[e] \in [s -> Sent]
             /\ pc'[e] \in {"send", "await"} <=> batch'[e] # NoBatch
  <2>1. CASE e = d
    <3>1. {} \in SUBSET Objects
      OBVIOUS
    <3> QED
      BY <1>1, <1>2, <2>1, <3>1
  <2>2. CASE e # d
    <3>1. batch'[e] = batch[e]
      BY <2>2 DEF BatchType
    <3> QED
      BY <2>2, <3>1 DEF BatchType
  <2> QED
    BY <2>1, <2>2
<1> QED
  BY <1>2, <1>3 DEF BatchType, NoBatch

LEMMA BatchKept ==
  ASSUME BatchType, UNCHANGED batch,
         \A e \in Devices : pc'[e] \in {"send", "await"} <=> pc[e] \in {"send", "await"}
  PROVE  BatchType'
BY DEF BatchType, NoBatch

(* The rows that are chosen: the oldest, and at least one.                 *)
LEMMA ChosenFacts ==
  ASSUME TypeOK, RowInv, NEW d \in Devices, Eligible(d) # {}
  PROVE  Chosen(d) # {} /\ Chosen(d) \subseteq Eligible(d) /\ Eligible(d) \subseteq Objects
<1> PICK S : S = Eligible(d)
  OBVIOUS
<1> PICK f : f = [o \in S |-> outbox[d][o].seq]
  OBVIOUS
<1>1. S \subseteq Objects /\ S # {} /\ \A o \in S : Pending(d, o)
  BY DEF Eligible
<1>2. IsFiniteSet(S)
  BY <1>1, FS_Subset, DesktopAssumption
<1>3. /\ \A o \in S : f[o] \in Nat /\ f[o] = outbox[d][o].seq
      /\ \A o, p \in S : f[o] = f[p] => o = p
  <2>1. \A o \in S : outbox[d][o].seq \in 1 .. lastSeq[d]
    BY <1>1 DEF RowInv
  <2>2. lastSeq[d] \in Nat
    BY DEF TypeOK
  <2>3. \A o, p \in S : outbox[d][o].seq = outbox[d][p].seq => o = p
    BY <1>1 DEF RowInv
  <2> QED
    BY <2>1, <2>2, <2>3
<1>4. Cardinality(S) \in Nat \ {0}
  BY <1>1, <1>2, FS_CardinalityType, FS_EmptySet
<1>5. PICK o \in S : Rank(S, f, o) = 1
  <2>1. 1 \in 1 .. Cardinality(S)
    BY <1>4
  <2> QED
    BY <1>2, <1>3, <2>1, RankOnto
<1> PICK E : E = {p \in Eligible(d) : outbox[d][p].seq < outbox[d][o].seq}
  OBVIOUS
<1>6. E = {}
  <2> SUFFICES ASSUME NEW p \in E
               PROVE  FALSE
    OBVIOUS
  <2>1. p \in S /\ f[p] < f[o]
    BY <1>3
  <2>2. Rank(S, f, p) < 1
    BY <1>2, <1>3, <1>5, <2>1, RankGrows
  <2>3. Rank(S, f, p) \in 1 .. Cardinality(S)
    BY <1>2, <1>3, <2>1, RankIn
  <2> QED
    BY <1>4, <2>2, <2>3
<1>7. Cardinality(E) < BatchLimit
  <2>1. Cardinality({}) = 0
    BY FS_EmptySet
  <2>2. 0 < BatchLimit
    BY DesktopAssumption
  <2> QED
    BY <1>6, <2>1, <2>2
<1>8. o \in Chosen(d)
  BY <1>7 DEF Chosen
<1> QED
  BY <1>1, <1>8 DEF Chosen
-----------------------------------------------------------------------------
(* The type invariant.                                                     *)
FlatType ==
  /\ server \in [Objects -> [version : Nat, content : Content]]
  /\ log \subseteq Change
  /\ item \in [Devices -> [Objects -> Content]]
  /\ outbox \in [Devices -> [Objects -> Row]]
  /\ lastSeq \in [Devices -> Nat]
  /\ version \in [Devices -> [Objects -> Nat]]
  /\ conflict \in [Devices -> [Objects -> Change \cup {None}]]
  /\ choosing \in [Devices -> [keep : {"local", "remote"}, change : Change] \cup {None}]
  /\ edits \in Nat
  /\ mine \in [Devices -> [Objects -> Content \cup {None}]]
  /\ seen \in [Devices -> SUBSET Change]
SyncType ==
  /\ cursor \in [Devices -> Nat]
  /\ pc \in [Devices -> {"idle", "pull", "check", "apply", "collect", "send", "await"}]
  /\ stage \in [Devices -> {"first", "again", "after"}]
  /\ page \in [Devices -> [next : Nat, last : Nat, more : BOOLEAN]]
  /\ verdict \in [Devices -> {"none", "conflict", "own", "take"}]
  /\ failures \in Nat

LEMMA TypeParts ==
  /\ TypeOK <=> FlatType /\ SyncType /\ BatchType
  /\ TypeOK' <=> FlatType' /\ SyncType' /\ BatchType'
BY DEF TypeOK, FlatType, SyncType, BatchType

LEMMA StopTyped ==
  ASSUME SyncType, BatchType, NEW d \in Devices, Stop(d), cursor' \in [Devices -> Nat],
         failures' \in Nat
  PROVE  SyncType' /\ BatchType'
<1>1. pc' = [pc EXCEPT ![d] = "idle"]
  BY DEF Stop, Goto
<1>2. BatchType'
  <2>1. batch' = [batch EXCEPT ![d] = NoBatch]
    BY DEF Stop
  <2>2. pc'[d] \notin {"send", "await"} /\ \A e \in Devices : e # d => pc'[e] = pc[e]
    BY <1>1 DEF SyncType
  <2> QED
    BY <2>1, <2>2, BatchDropped
<1>3. NoPage \in [next : Nat, last : Nat, more : BOOLEAN]
  BY DEF NoPage
<1>4. SyncType'
  BY <1>1, <1>3 DEF SyncType, Stop
<1> QED
  BY <1>2, <1>4

(* A step of sync_now that only moves it keeps its types.                  *)
LEMMA MovesTyped ==
  ASSUME TypeOK, LogInv, NEW d \in Devices, Moves(d)
  PROVE  TypeOK'
<1> USE TypeParts
<1>1. FlatType'
  BY MovesAreQuiet DEF Quiet, FlatType
<1>2. LastCursor \in Nat
  BY LastCursorTyped
<1>3. CASE Fetch(d)
  <2>1. cursor[d] + PageLimit \in Nat /\ cursor[d] + 1 \in Nat
    BY DesktopAssumption DEF SyncType
  <2>2. page'[d] \in [next : Nat, last : Nat, more : BOOLEAN] /\ page' = [page EXCEPT ![d] = page'[d]]
    BY <1>2, <1>3, <2>1 DEF Fetch, SyncType
  <2>3. UNCHANGED <<cursor, stage, verdict, failures, batch>> /\ pc' = [pc EXCEPT ![d] = "check"]
    BY <1>3 DEF Fetch, Goto, store, ghosts
  <2>4. SyncType'
    BY <2>2, <2>3 DEF SyncType
  <2>5. pc[d] \in {"idle", "pull"}
    BY <1>3 DEF Fetch
  <2>6. BatchType'
    BY <2>3, <2>5, BatchKept DEF SyncType
  <2> QED
    BY <1>1, <2>4, <2>6
<1>4. CASE Skip(d)
  <2>1. SyncType'
    BY <1>4 DEF Skip, NextChange, SyncType, store, ghosts
  <2>2. BatchType'
    BY <1>4, BatchKept DEF Skip
  <2> QED
    BY <1>1, <2>1, <2>2
<1>5. CASE Check(d)
  <2>1. Decision(d) \in {"none", "conflict", "own", "take"}
    BY DEF Decision
  <2>2. SyncType'
    BY <1>5, <2>1 DEF Check, Goto, SyncType, store, ghosts
  <2>3. BatchType'
    BY <1>5, BatchKept DEF Check, Goto, SyncType
  <2> QED
    BY <1>1, <2>2, <2>3
<1>6. CASE Mark(d)
  <2>1. Moved(d) \in Nat
    BY DEF Moved, SyncType
  <2>2. cursor' \in [Devices -> Nat]
    BY <1>6, <2>1 DEF Mark, SyncType
  <2>3. failures' \in Nat
    BY <1>6 DEF Mark, SyncType, ghosts
  <2>4. CASE Stop(d)
    BY <1>1, <2>2, <2>3, <2>4, StopTyped
  <2>5. CASE ~Stop(d)
    <3>1. /\ Goto(d, IF page[d].more THEN "pull" ELSE "collect")
          /\ page' = [page EXCEPT ![d] = NoPage]
          /\ UNCHANGED <<stage, verdict, batch>>
      BY <1>6, <2>5 DEF Mark
    <3>2. NoPage \in [next : Nat, last : Nat, more : BOOLEAN]
      BY DEF NoPage
    <3>3. SyncType'
      BY <2>2, <2>3, <3>1, <3>2 DEF Goto, SyncType
    <3>4. BatchType'
      BY <1>6, <3>1, BatchKept DEF Mark, Goto, SyncType
    <3> QED
      BY <1>1, <3>3, <3>4
  <2> QED
    BY <2>4, <2>5
<1>7. CASE NothingToPush(d) \/ SendReplayed(d)
  <2>1. SyncType'
    BY <1>7 DEF NothingToPush, SendReplayed, Goto, SyncType, store, ghosts
  <2>2. BatchType'
    BY <1>7, BatchKept DEF NothingToPush, SendReplayed, Goto, SyncType
  <2> QED
    BY <1>1, <2>1, <2>2
<1>8. CASE SendRefused(d)
  <2>1. UNCHANGED <<cursor, failures>>
    BY <1>8 DEF SendRefused, store, ghosts
  <2>2. CASE stage[d] = "first"
    <3>1. SyncType'
      BY <1>8, <2>1, <2>2 DEF SendRefused, Goto, SyncType
    <3>2. pc'[d] \notin {"send", "await"} /\ \A e \in Devices : e # d => pc'[e] = pc[e]
      BY <1>8, <2>2 DEF SendRefused, Goto, SyncType
    <3>3. BatchType'
      BY <1>8, <2>2, <3>2, BatchDropped DEF SendRefused
    <3> QED
      BY <1>1, <3>1, <3>3
  <2>3. CASE stage[d] # "first"
    BY <1>1, <1>8, <2>1, <2>3, StopTyped DEF SendRefused, SyncType
  <2> QED
    BY <2>2, <2>3
<1>9. CASE Quits(d)
  BY <1>1, <1>9, StopTyped DEF Quits, SyncType, store
<1> QED
  BY <1>3, <1>4, <1>5, <1>6, <1>7, <1>8, <1>9 DEF Moves
-----------------------------------------------------------------------------
(* What a step of one action keeps; PageInv follows for all of them below. *)
KeptInv ==
  /\ TypeOK /\ LogInv /\ KeyInv /\ RowInv /\ BatchInv /\ ConflictInv /\ VersionInv

LEMMA QuietKeeps ==
  ASSUME IInv, NEW d \in Devices, Quiet(d), TypeOK'
  PROVE  KeptInv'
<1>1. /\ UNCHANGED <<server, log, item, outbox, lastSeq, version, conflict, choosing>>
      /\ UNCHANGED <<edits, mine, seen>>
  BY DEF Quiet
<1>2. ASSUME NEW e \in Devices
      PROVE  batch'[e] = batch[e] \/ batch'[e] = NoBatch
  BY DEF Quiet, IInv, TypeOK
<1>3. ASSUME NEW e \in Devices
      PROVE  /\ InBatch(e)' \subseteq InBatch(e)
             /\ \A o \in InBatch(e)' : batch'[e][o] = batch[e][o]
  BY <1>2 DEF InBatch, NoBatch
<1>4. LogInv'
  BY <1>1 DEF IInv, LogInv, LastCursor
<1>5. KeyInv'
  BY <1>1 DEF IInv, KeyInv
<1>6. RowInv'
  BY <1>1 DEF IInv, RowInv, Pending
<1>7. BatchInv'
  BY <1>1, <1>3 DEF IInv, BatchInv, Pending
<1>8. ConflictInv'
  BY <1>1 DEF IInv, ConflictInv
<1>9. VersionInv'
  BY <1>1, <1>3 DEF IInv, VersionInv, Met
<1> QED
  BY <1>4, <1>5, <1>6, <1>7, <1>8, <1>9 DEF KeptInv

LEMMA EditKeeps ==
  ASSUME IInv, NEW d \in Devices, NEW o, NEW content, NEW op, Edited(d, o, content, op)
  PROVE  KeptInv'
<1>1. /\ o \in Objects /\ content \in Content /\ op \in {"upsert", "delete"}
      /\ edits <= MaxEdits /\ edits' = edits + 1
      /\ item' = [item EXCEPT ![d][o] = content]
      /\ lastSeq' = [lastSeq EXCEPT ![d] = @ + 1]
      /\ outbox' = [outbox EXCEPT ![d][o] = [seq |-> lastSeq[d] + 1, op |-> op]]
      /\ mine' = [mine EXCEPT ![d][o] = content]
      /\ UNCHANGED <<server, log, version, conflict, cursor, choosing, failures, seen>>
      /\ UNCHANGED <<pc, stage, page, verdict, batch>>
  BY DEF Edited, MayEdit, Edit, sync
<1>2. TypeOK
  BY DEF IInv
<1>3. /\ lastSeq'[d] = lastSeq[d] + 1 /\ lastSeq[d] \in Nat
      /\ \A e \in Devices : e # d => lastSeq'[e] = lastSeq[e] /\ outbox'[e] = outbox[e]
      /\ outbox'[d][o] = [seq |-> lastSeq[d] + 1, op |-> op]
      /\ \A p \in Objects : p # o => outbox'[d][p] = outbox[d][p]
  BY <1>1, <1>2 DEF TypeOK
<1>4. TypeOK'
  <2>1. FlatType'
    <3>1. FlatType
      BY <1>2, TypeParts
    <3>2. edits' \in Nat /\ lastSeq' \in [Devices -> Nat]
      BY <1>1, <3>1 DEF FlatType
    <3>3. item' \in [Devices -> [Objects -> Content]]
      BY <1>1, <3>1 DEF FlatType
    <3>4. mine' \in [Devices -> [Objects -> Content \cup {None}]]
      BY <1>1, <3>1 DEF FlatType
    <3>5. [seq |-> lastSeq[d] + 1, op |-> op] \in Row
      BY <1>1, <1>3 DEF Row
    <3>6. outbox' \in [Devices -> [Objects -> Row]]
      BY <1>1, <3>1, <3>5 DEF FlatType
    <3> QED
      BY <1>1, <3>1, <3>2, <3>3, <3>4, <3>6 DEF FlatType
  <2>2. SyncType' /\ BatchType'
    BY <1>1, <1>2, TypeParts DEF SyncType, BatchType, NoBatch
  <2> QED
    BY <2>1, <2>2, TypeParts
<1>5. LogInv'
  BY <1>1 DEF IInv, LogInv, LastCursor
<1>6. KeyInv'
  <2>1. \A c \in log : c.device \in Devices
    BY <1>2 DEF TypeOK, Change
  <2>2. \A e \in Devices : lastSeq[e] \in Nat /\ lastSeq'[e] \in Nat /\ lastSeq[e] <= lastSeq'[e]
    <3>1. lastSeq \in [Devices -> Nat]
      BY <1>2 DEF TypeOK
    <3> QED
      BY <1>1, <3>1
  <2> QED
    BY <1>1, <2>1, <2>2 DEF IInv, KeyInv
<1>7. RowInv'
  <2>1. edits' \in 1 .. MaxEdits + 1
    BY <1>1, DesktopAssumption DEF IInv, RowInv
  <2>2. ASSUME NEW e \in Devices
        PROVE  /\ lastSeq'[e] < edits'
               /\ \A p \in Objects : Pending(e, p)' =>
                    outbox'[e][p].seq \in 1 .. lastSeq'[e] /\ outbox'[e][p].op # "none"
               /\ \A p, q \in Objects :
                    Pending(e, p)' /\ Pending(e, q)' /\ outbox'[e][p].seq = outbox'[e][q].seq => p = q
    <3>1. CASE e # d
      <4>1. UNCHANGED <<lastSeq[e], outbox[e]>>
        BY <1>3, <3>1
      <4>2. edits \in Nat /\ lastSeq[e] \in Nat /\ edits' = edits + 1
        BY <1>1, <1>2 DEF TypeOK
      <4> QED
        BY <4>1, <4>2 DEF IInv, RowInv, Pending
    <3>2. CASE e = d
      <4>1. lastSeq'[d] < edits'
        BY <1>1, <1>2, <1>3 DEF IInv, RowInv, TypeOK
      <4>2. ASSUME NEW p \in Objects, Pending(d, p)', p # o
            PROVE  outbox'[d][p].seq \in 1 .. lastSeq[d] /\ outbox'[d][p].op # "none"
        BY <1>3, <4>2 DEF IInv, RowInv, Pending
      <4>3. ASSUME NEW p \in Objects, Pending(d, p)'
            PROVE  outbox'[d][p].seq \in 1 .. lastSeq'[d] /\ outbox'[d][p].op # "none"
        <5>1. CASE p = o
          BY <1>1, <1>3, <5>1
        <5>2. CASE p # o
          BY <1>3, <4>2, <4>3, <5>2
        <5> QED
          BY <5>1, <5>2
      <4>4. ASSUME NEW p \in Objects, NEW q \in Objects, Pending(d, p)', Pending(d, q)',
                   outbox'[d][p].seq = outbox'[d][q].seq
            PROVE  p = q
        <5>1. CASE p = o \/ q = o
          BY <1>3, <4>2, <4>4, <5>1
        <5>2. CASE p # o /\ q # o
          <6>1. outbox'[d][p] = outbox[d][p] /\ outbox'[d][q] = outbox[d][q]
            BY <1>3, <5>2
          <6> QED
            BY <4>4, <6>1 DEF IInv, RowInv, Pending
        <5> QED
          BY <5>1, <5>2
      <4> QED
        BY <3>2, <4>1, <4>3, <4>4
    <3> QED
      BY <3>1, <3>2
  <2> QED
    BY <2>1, <2>2 DEF RowInv
<1>8. BatchInv'
  <2> SUFFICES ASSUME NEW e \in Devices
               PROVE  /\ \A p \in InBatch(e) :
                           /\ batch[e][p].seq \in 1 .. lastSeq'[e]
                           /\ batch[e][p].base <= server[p].version
                           /\ Pending(e, p)' =>
                                /\ batch[e][p].seq <= outbox'[e][p].seq
                                /\ batch[e][p].seq = outbox'[e][p].seq =>
                                     batch[e][p].op = outbox'[e][p].op
                      /\ \A p, q \in InBatch(e) : batch[e][p].seq = batch[e][q].seq => p = q
    BY <1>1 DEF BatchInv, InBatch
  <2>1. BatchInv /\ InBatch(e) \subseteq Objects
    BY <1>2, BatchTyped DEF IInv
  <2>2. ASSUME NEW p \in InBatch(e)
        PROVE  batch[e][p].seq \in 1 .. lastSeq'[e]
    BY <1>2, <1>3, <2>1 DEF TypeOK, BatchInv
  <2>3. ASSUME NEW p \in InBatch(e), Pending(e, p)'
        PROVE  /\ batch[e][p].seq <= outbox'[e][p].seq
               /\ batch[e][p].seq = outbox'[e][p].seq => batch[e][p].op = outbox'[e][p].op
    <3>1. CASE e = d /\ p = o
      BY <1>3, <2>1, <3>1 DEF BatchInv
    <3>2. CASE e # d \/ p # o
      <4>1. outbox'[e][p] = outbox[e][p]
        BY <1>3, <2>1, <3>2
      <4> QED
        BY <2>1, <2>3, <4>1 DEF BatchInv, Pending
    <3> QED
      BY <3>1, <3>2
  <2> QED
    BY <2>1, <2>2, <2>3 DEF BatchInv
<1>9. ConflictInv' /\ VersionInv'
  BY <1>1 DEF IInv, ConflictInv, VersionInv, Met, InBatch
<1> QED
  BY <1>4, <1>5, <1>6, <1>7, <1>8, <1>9 DEF KeptInv
-----------------------------------------------------------------------------
(* A device that takes over the version of a change its user is shown, or  *)
(* that it made itself.                                                    *)
LEMMA VersionTaken ==
  ASSUME IInv, NEW d \in Devices, NEW c \in log,
         UNCHANGED <<server, log, batch>>,
         version' = [version EXCEPT ![d][c.object] = c.version] \/ UNCHANGED version,
         c.device = d \/ c \in seen'[d],
         \A e \in Devices : seen[e] \subseteq seen'[e]
  PROVE  VersionInv' /\ version' \in [Devices -> [Objects -> Nat]]
<1>1. /\ version \in [Devices -> [Objects -> Nat]]
      /\ c.version \in Nat /\ c.object \in Objects
  BY DEF IInv, TypeOK, Change
<1>2. version' \in [Devices -> [Objects -> Nat]]
  BY <1>1
<1>3. ASSUME NEW e \in Devices, NEW o \in Objects
      PROVE  version'[e][o] <= server[o].version /\ Met(e, o, version[e][o])'
  <2>1. CASE version'[e][o] = version[e][o]
    BY <2>1 DEF IInv, VersionInv, Met
  <2>2. CASE e = d /\ o = c.object /\ version'[e][o] = c.version
    <3>1. c.version <= server[c.object].version
      BY DEF IInv, LogInv
    <3>2. \A b \in log : b.object = o /\ b.version = c.version => b = c
      BY <2>2 DEF IInv, LogInv
    <3>3. Met(e, o, version[e][o])'
      BY <2>2, <3>2 DEF Met
    <3> QED
      BY <2>2, <3>1, <3>3
  <2> QED
    BY <1>1, <2>1, <2>2
<1>4. ASSUME NEW e \in Devices, NEW o \in InBatch(e)
      PROVE  Met(e, o, batch[e][o].base)'
  BY DEF IInv, VersionInv, Met
<1> QED
  BY <1>2, <1>3, <1>4 DEF VersionInv, InBatch

LEMMA ChooseKeeps ==
  ASSUME IInv, NEW d \in Devices, NEW o \in Objects, NEW keep \in {"local", "remote"},
         Choose(d, o, keep)
  PROVE  KeptInv'
<1>1. /\ conflict[d][o] # None
      /\ choosing' = [choosing EXCEPT ![d] = [keep |-> keep, change |-> conflict[d][o]]]
      /\ UNCHANGED <<server, log, item, outbox, lastSeq, version, conflict, cursor>>
      /\ UNCHANGED <<pc, stage, page, verdict, batch, edits, failures, mine, seen>>
  BY DEF Choose, store, sync, ghosts
<1>2. conflict[d][o] \in log /\ conflict[d][o] \in Change
  BY <1>1 DEF IInv, ConflictInv, TypeOK
<1>3. TypeOK'
  <2>1. choosing' \in [Devices -> [keep : {"local", "remote"}, change : Change] \cup {None}]
    BY <1>1, <1>2 DEF IInv, TypeOK
  <2> QED
    BY <1>1, <2>1 DEF IInv, TypeOK, NoBatch
<1>4. ConflictInv'
  BY <1>1, <1>2 DEF IInv, ConflictInv, TypeOK
<1>5. LogInv' /\ KeyInv' /\ RowInv'
  BY <1>1 DEF IInv, LogInv, LastCursor, KeyInv, RowInv, Pending
<1>6. BatchInv' /\ VersionInv'
  BY <1>1 DEF IInv, BatchInv, Pending, InBatch, VersionInv, Met
<1> QED
  BY <1>3, <1>4, <1>5, <1>6 DEF KeptInv

(* The change a user resolves is one of the log.                           *)
LEMMA ResolvedFacts ==
  ASSUME IInv, NEW d \in Devices, choosing[d] # None, Resolved(d),
         UNCHANGED <<server, log, lastSeq, cursor, sync, edits, failures>>
  PROVE  /\ choosing[d].change \in log /\ choosing[d].change \in Change
         /\ LogInv' /\ KeyInv' /\ ConflictInv' /\ VersionInv'
         /\ version' \in [Devices -> [Objects -> Nat]]
         /\ conflict' \in [Devices -> [Objects -> Change \cup {None}]]
         /\ choosing' \in [Devices -> [keep : {"local", "remote"}, change : Change] \cup {None}]
         /\ seen' \in [Devices -> SUBSET Change]
         /\ SyncType' /\ BatchType'
<1> PICK c : c = choosing[d].change
  OBVIOUS
<1>1. /\ version' = [version EXCEPT ![d][c.object] = c.version]
      /\ conflict' = [conflict EXCEPT ![d][c.object] = None]
      /\ choosing' = [choosing EXCEPT ![d] = None]
      /\ seen' = [seen EXCEPT ![d] = @ \cup {c}]
      /\ UNCHANGED <<pc, stage, page, verdict, batch>>
  BY DEF Resolved, sync
<1>2. c \in log /\ c \in Change /\ c.object \in Objects
  BY DEF IInv, ConflictInv, TypeOK, Change
<1>3. seen' \in [Devices -> SUBSET Change]
  BY <1>1, <1>2 DEF IInv, TypeOK
<1>4. VersionInv' /\ version' \in [Devices -> [Objects -> Nat]]
  <2>1. c \in seen'[d] /\ \A e \in Devices : seen[e] \subseteq seen'[e]
    BY <1>1 DEF IInv, TypeOK
  <2> QED
    BY <1>1, <1>2, <2>1, VersionTaken
<1>5. conflict' \in [Devices -> [Objects -> Change \cup {None}]]
  BY <1>1, <1>2 DEF IInv, TypeOK
<1>6. choosing' \in [Devices -> [keep : {"local", "remote"}, change : Change] \cup {None}]
  BY <1>1 DEF IInv, TypeOK
<1>7. ConflictInv'
  <2>1. ASSUME NEW e \in Devices, NEW o \in Objects, conflict'[e][o] # None
        PROVE  conflict'[e][o] \in log
    BY <1>1, <2>1 DEF IInv, ConflictInv, TypeOK
  <2>2. ASSUME NEW e \in Devices, choosing'[e] # None
        PROVE  choosing'[e].change \in log
    BY <1>1, <2>2 DEF IInv, ConflictInv, TypeOK
  <2> QED
    BY <2>1, <2>2 DEF ConflictInv
<1>8. LogInv' /\ KeyInv'
  BY DEF IInv, LogInv, LastCursor, KeyInv
<1>9. SyncType' /\ BatchType'
  <2>1. SyncType /\ BatchType
    BY TypeParts DEF IInv
  <2> QED
    BY <1>1, <2>1 DEF SyncType, BatchType, NoBatch
<1> QED
  BY <1>2, <1>3, <1>4, <1>5, <1>6, <1>7, <1>8, <1>9

LEMMA ResolveLocalKeeps ==
  ASSUME IInv, NEW d \in Devices, ResolveLocal(d)
  PROVE  KeptInv'
<1>1. /\ choosing[d] # None /\ Resolved(d)
      /\ UNCHANGED <<server, log, item, outbox, lastSeq, cursor, sync, edits, failures, mine>>
  BY DEF ResolveLocal
<1>2. /\ LogInv' /\ KeyInv' /\ ConflictInv' /\ VersionInv'
      /\ version' \in [Devices -> [Objects -> Nat]]
      /\ conflict' \in [Devices -> [Objects -> Change \cup {None}]]
      /\ choosing' \in [Devices -> [keep : {"local", "remote"}, change : Change] \cup {None}]
      /\ seen' \in [Devices -> SUBSET Change]
      /\ SyncType' /\ BatchType'
  BY <1>1, ResolvedFacts
<1>3. TypeOK'
  <2>1. FlatType
    BY TypeParts DEF IInv
  <2>2. FlatType'
    BY <1>1, <1>2, <2>1 DEF FlatType
  <2> QED
    BY <1>2, <2>2, TypeParts
<1>4. RowInv' /\ BatchInv'
  BY <1>1 DEF IInv, RowInv, Pending, BatchInv, InBatch, sync
<1> QED
  BY <1>2, <1>3, <1>4 DEF KeptInv

LEMMA ResolveRemoteKeeps ==
  ASSUME IInv, NEW d \in Devices, ResolveRemote(d)
  PROVE  KeptInv'
<1> PICK c : c = choosing[d].change
  OBVIOUS
<1>1. /\ choosing[d] # None /\ Resolved(d)
      /\ item' = [item EXCEPT ![d][c.object] = c.content]
      /\ outbox' = [outbox EXCEPT ![d][c.object] = NoRow]
      /\ mine' = [mine EXCEPT ![d][c.object] = None]
      /\ UNCHANGED <<server, log, lastSeq, cursor, sync, edits, failures>>
  BY DEF ResolveRemote, DiscardedRow
<1>2. /\ c \in Change
      /\ LogInv' /\ KeyInv' /\ ConflictInv' /\ VersionInv'
      /\ version' \in [Devices -> [Objects -> Nat]]
      /\ conflict' \in [Devices -> [Objects -> Change \cup {None}]]
      /\ choosing' \in [Devices -> [keep : {"local", "remote"}, change : Change] \cup {None}]
      /\ seen' \in [Devices -> SUBSET Change]
      /\ SyncType' /\ BatchType'
  BY <1>1, ResolvedFacts
<1>3. TypeOK'
  <2>1. FlatType
    BY TypeParts DEF IInv
  <2>2. c.object \in Objects /\ c.content \in Content
    BY <1>2 DEF Change
  <2>3. item' \in [Devices -> [Objects -> Content]]
    BY <1>1, <2>1, <2>2 DEF FlatType
  <2>4. outbox' \in [Devices -> [Objects -> Row]]
    <3>1. NoRow \in Row
      BY DEF NoRow, Row
    <3> QED
      BY <1>1, <2>1, <2>2, <3>1 DEF FlatType
  <2>5. mine' \in [Devices -> [Objects -> Content \cup {None}]]
    BY <1>1, <2>1, <2>2 DEF FlatType
  <2>6. FlatType'
    BY <1>1, <1>2, <2>1, <2>3, <2>4, <2>5 DEF FlatType
  <2> QED
    BY <1>2, <2>6, TypeParts
<1>4. \A e \in Devices, o \in Objects : outbox'[e][o] = outbox[e][o] \/ outbox'[e][o] = NoRow
  BY <1>1 DEF IInv, TypeOK
<1>5. RowInv'
  BY <1>1, <1>4 DEF IInv, RowInv, Pending
<1>6. BatchInv'
  <2>1. \A e \in Devices : InBatch(e) \subseteq Objects
    BY BatchTyped DEF IInv
  <2> QED
    BY <1>1, <1>4, <2>1 DEF IInv, BatchInv, Pending, InBatch, sync
<1> QED
  BY <1>2, <1>3, <1>5, <1>6 DEF KeptInv
-----------------------------------------------------------------------------
(* What is being applied is a change of the log.                           *)
LEMMA ApplyingFacts ==
  ASSUME IInv, NEW d \in Devices, NEW what, Applying(d, what),
         UNCHANGED <<cursor, failures>>
  PROVE  /\ AtHand(d) \in log /\ AtHand(d) \in Change
         /\ page[d].next \in 1 .. LastCursor
         /\ what = "own" => AtHand(d).device = d
         /\ UNCHANGED <<server, log, stage, batch, choosing>>
         /\ SyncType' /\ BatchType'
<1>1. /\ pc[d] = "apply" /\ verdict[d] = what
      /\ verdict' = [verdict EXCEPT ![d] = "none"]
      /\ page' = [page EXCEPT ![d].next = @ + 1]
      /\ pc' = [pc EXCEPT ![d] = "check"]
      /\ UNCHANGED <<server, log, stage, batch, choosing>>
  BY DEF Applying, NextChange, Goto
<1>2. page[d].next \in 1 .. LastCursor
  <2>1. LastCursor \in Nat
    BY LastCursorTyped DEF IInv
  <2>2. page[d].next \in Nat /\ page[d].last \in Nat
    BY DEF IInv, TypeOK
  <2> QED
    BY <1>1, <2>1, <2>2 DEF IInv, PageInv, PageFits
<1>3. AtHand(d) \in log
  BY <1>2, AtHandFacts DEF IInv
<1>4. AtHand(d) \in Change
  BY <1>3 DEF IInv, TypeOK
<1>5. SyncType /\ BatchType
  BY TypeParts DEF IInv
<1>6. SyncType'
  BY <1>1, <1>5 DEF SyncType
<1>7. BatchType'
  <2>1. \A e \in Devices : pc'[e] \in {"send", "await"} <=> pc[e] \in {"send", "await"}
    BY <1>1, <1>5 DEF SyncType
  <2> QED
    BY <1>1, <1>5, <2>1, BatchKept
<1> QED
  BY <1>1, <1>2, <1>3, <1>4, <1>6, <1>7 DEF IInv, PageInv, PageFits

(* A change that is applied leaves the outbox and the log as they are.     *)
LEMMA ApplyingKeeps ==
  ASSUME IInv, UNCHANGED <<server, log, outbox, lastSeq, batch, edits>>
  PROVE  LogInv' /\ KeyInv' /\ RowInv' /\ BatchInv'
<1>1. LogInv' /\ KeyInv' /\ RowInv'
  BY DEF IInv, LogInv, LastCursor, KeyInv, RowInv, Pending
<1>2. BatchInv'
  BY DEF IInv, BatchInv, Pending, InBatch
<1> QED
  BY <1>1, <1>2

LEMMA StoreConflictKeeps ==
  ASSUME IInv, NEW d \in Devices, StoreConflict(d)
  PROVE  KeptInv'
<1> PICK c : c = AtHand(d)
  OBVIOUS
<1>1. /\ Applying(d, "conflict")
      /\ conflict' = [conflict EXCEPT ![d][c.object] = c]
      /\ UNCHANGED <<item, outbox, lastSeq, version, cursor, edits, failures, mine, seen>>
  BY DEF StoreConflict, ghosts
<1>2. /\ c \in log /\ c \in Change
      /\ UNCHANGED <<server, log, stage, batch, choosing>>
      /\ SyncType' /\ BatchType'
  BY <1>1, ApplyingFacts
<1>3. TypeOK'
  <2>1. FlatType
    BY TypeParts DEF IInv
  <2>2. conflict' \in [Devices -> [Objects -> Change \cup {None}]]
    BY <1>1, <1>2, <2>1 DEF FlatType
  <2>3. FlatType'
    BY <1>1, <1>2, <2>1, <2>2 DEF FlatType
  <2> QED
    BY <1>2, <2>3, TypeParts
<1>4. ConflictInv'
  <2>1. ASSUME NEW e \in Devices, NEW o \in Objects, conflict'[e][o] # None
        PROVE  conflict'[e][o] \in log
    BY <1>1, <1>2, <2>1 DEF IInv, ConflictInv, TypeOK
  <2> QED
    BY <1>1, <1>2, <2>1 DEF IInv, ConflictInv
<1>5. LogInv' /\ KeyInv' /\ RowInv' /\ BatchInv'
  BY <1>1, <1>2, ApplyingKeeps
<1>6. VersionInv'
  BY <1>1, <1>2 DEF IInv, VersionInv, Met, InBatch
<1> QED
  BY <1>3, <1>4, <1>5, <1>6 DEF KeptInv

LEMMA RecognizeOwnKeeps ==
  ASSUME IInv, NEW d \in Devices, RecognizeOwn(d)
  PROVE  KeptInv'
<1> PICK c : c = AtHand(d)
  OBVIOUS
<1>1. /\ Applying(d, "own")
      /\ version' = [version EXCEPT ![d][c.object] = IF @ < c.version THEN c.version ELSE @]
      /\ UNCHANGED <<item, outbox, lastSeq, conflict, cursor, edits, failures, mine, seen>>
  BY DEF RecognizeOwn, ghosts
<1>2. /\ c \in log /\ c.device = d
      /\ UNCHANGED <<server, log, stage, batch, choosing>>
      /\ SyncType' /\ BatchType'
  BY <1>1, ApplyingFacts
<1>3. version' = [version EXCEPT ![d][c.object] = c.version] \/ UNCHANGED version
  <2>1. CASE version[d][c.object] < c.version
    BY <1>1, <2>1
  <2>2. CASE ~(version[d][c.object] < c.version)
    BY <1>1, <2>2 DEF IInv, TypeOK
  <2> QED
    BY <2>1, <2>2
<1>4. VersionInv' /\ version' \in [Devices -> [Objects -> Nat]]
  BY <1>1, <1>2, <1>3, VersionTaken
<1>5. TypeOK'
  <2>1. FlatType
    BY TypeParts DEF IInv
  <2>2. FlatType'
    BY <1>1, <1>2, <1>4, <2>1 DEF FlatType
  <2> QED
    BY <1>2, <2>2, TypeParts
<1>6. LogInv' /\ KeyInv' /\ RowInv' /\ BatchInv'
  BY <1>1, <1>2, ApplyingKeeps
<1>7. ConflictInv'
  BY <1>1, <1>2 DEF IInv, ConflictInv
<1> QED
  BY <1>4, <1>5, <1>6, <1>7 DEF KeptInv

LEMMA TakeKeeps ==
  ASSUME IInv, NEW d \in Devices, Take(d)
  PROVE  KeptInv'
<1> PICK c : c = AtHand(d)
  OBVIOUS
<1>1. /\ Applying(d, "take")
      /\ item' = [item EXCEPT ![d][c.object] = c.content]
      /\ version' = [version EXCEPT ![d][c.object] = c.version]
      /\ conflict' = [conflict EXCEPT ![d][c.object] = None]
      /\ seen' = [seen EXCEPT ![d] = @ \cup {c}]
      /\ UNCHANGED <<outbox, lastSeq, cursor, edits, failures, mine>>
  BY DEF Take
<1>2. /\ c \in log /\ c \in Change
      /\ UNCHANGED <<server, log, stage, batch, choosing>>
      /\ SyncType' /\ BatchType'
  BY <1>1, ApplyingFacts
<1>3. c.object \in Objects /\ c.content \in Content
  BY <1>2 DEF Change
<1>4. FlatType
  BY TypeParts DEF IInv
<1>5. VersionInv' /\ version' \in [Devices -> [Objects -> Nat]]
  <2>1. c \in seen'[d] /\ \A e \in Devices : seen[e] \subseteq seen'[e]
    BY <1>1, <1>4 DEF FlatType
  <2> QED
    BY <1>1, <1>2, <2>1, VersionTaken
<1>6. TypeOK'
  <2>1. item' \in [Devices -> [Objects -> Content]]
    BY <1>1, <1>3, <1>4 DEF FlatType
  <2>2. conflict' \in [Devices -> [Objects -> Change \cup {None}]]
    BY <1>1, <1>3, <1>4 DEF FlatType
  <2>3. seen' \in [Devices -> SUBSET Change]
    BY <1>1, <1>2, <1>4 DEF FlatType
  <2>4. FlatType'
    BY <1>1, <1>2, <1>4, <1>5, <2>1, <2>2, <2>3 DEF FlatType
  <2> QED
    BY <1>2, <2>4, TypeParts
<1>7. LogInv' /\ KeyInv' /\ RowInv' /\ BatchInv'
  BY <1>1, <1>2, ApplyingKeeps
<1>8. ConflictInv'
  <2>1. ASSUME NEW e \in Devices, NEW o \in Objects, conflict'[e][o] # None
        PROVE  conflict'[e][o] \in log
    BY <1>1, <1>4, <2>1 DEF IInv, ConflictInv, FlatType
  <2> QED
    BY <1>1, <1>2, <2>1 DEF IInv, ConflictInv
<1> QED
  BY <1>5, <1>6, <1>7, <1>8 DEF KeptInv
-----------------------------------------------------------------------------
LEMMA CollectKeeps ==
  ASSUME IInv, NEW d \in Devices, Collect(d)
  PROVE  KeptInv'
<1> PICK C : C = Chosen(d)
  OBVIOUS
<1>1. /\ pc[d] = "collect" /\ Eligible(d) # {}
      /\ batch' = [batch EXCEPT ![d] =
           [o \in C |-> [seq |-> outbox[d][o].seq, op |-> outbox[d][o].op,
                         base |-> version[d][o]]]]
      /\ pc' = [pc EXCEPT ![d] = "send"]
      /\ UNCHANGED <<server, log, item, outbox, lastSeq, version, conflict, cursor>>
      /\ UNCHANGED <<stage, page, verdict, choosing, edits, failures, mine, seen>>
  BY DEF Collect, Goto, store, ghosts
<1>2. /\ C # {} /\ C \subseteq Objects
      /\ \A o \in C : Pending(d, o)
  BY <1>1, ChosenFacts DEF IInv, Eligible
<1>3. FlatType /\ SyncType /\ BatchType
  BY TypeParts DEF IInv
<1>4. /\ batch'[d] = [o \in C |-> [seq |-> outbox[d][o].seq, op |-> outbox[d][o].op,
                                   base |-> version[d][o]]]
      /\ \A e \in Devices : e # d => batch'[e] = batch[e] /\ pc'[e] = pc[e]
      /\ InBatch(d)' = C
  BY <1>1, <1>3 DEF BatchType, SyncType, InBatch
<1>5. ASSUME NEW o \in C
      PROVE  /\ batch'[d][o].seq = outbox[d][o].seq /\ batch'[d][o].op = outbox[d][o].op
             /\ batch'[d][o].base = version[d][o]
             /\ batch'[d][o] \in Sent
             /\ batch'[d][o].seq \in 1 .. lastSeq[d]
  <2>1. /\ outbox[d][o].seq \in 1 .. lastSeq[d] /\ outbox[d][o].op # "none"
        /\ outbox[d][o] \in Row /\ version[d][o] \in Nat
    BY <1>2, <1>3 DEF IInv, RowInv, FlatType
  <2>2. outbox[d][o].seq \in Nat /\ outbox[d][o].op \in {"upsert", "delete"}
    BY <2>1 DEF Row
  <2> QED
    BY <1>4, <2>1, <2>2 DEF Sent
<1>6. BatchType'
  <2>1. batch'[d] \in [C -> Sent]
    BY <1>4, <1>5
  <2>2. batch'[d] # NoBatch
    <3>1. DOMAIN batch'[d] = C /\ DOMAIN NoBatch = {}
      BY <1>4 DEF NoBatch
    <3> QED
      BY <1>2, <3>1
  <2>3. DOMAIN batch' = Devices /\ pc'[d] = "send"
    BY <1>1, <1>3 DEF BatchType, SyncType
  <2>4. ASSUME NEW e \in Devices, e # d
        PROVE  /\ \E s \in SUBSET Objects : batch'[e] \in [s -> Sent]
               /\ pc'[e] \in {"send", "await"} <=> batch'[e] # NoBatch
    BY <1>3, <1>4, <2>4 DEF BatchType
  <2> QED
    BY <1>2, <2>1, <2>2, <2>3, <2>4 DEF BatchType, NoBatch
<1>7. TypeOK'
  <2>1. FlatType' /\ SyncType'
    BY <1>1, <1>3 DEF FlatType, SyncType
  <2> QED
    BY <1>6, <2>1, TypeParts
<1>8. LogInv' /\ KeyInv' /\ RowInv' /\ ConflictInv'
  BY <1>1 DEF IInv, LogInv, LastCursor, KeyInv, RowInv, Pending, ConflictInv
<1>9. BatchInv'
  <2>1. ASSUME NEW e \in Devices, e # d
        PROVE  /\ \A o \in InBatch(e)' :
                    /\ batch'[e][o].seq \in 1 .. lastSeq'[e] /\ batch'[e][o].base <= server'[o].version
                    /\ Pending(e, o)' =>
                         /\ batch'[e][o].seq <= outbox'[e][o].seq
                         /\ batch'[e][o].seq = outbox'[e][o].seq => batch'[e][o].op = outbox'[e][o].op
               /\ \A o, p \in InBatch(e)' : batch'[e][o].seq = batch'[e][p].seq => o = p
    BY <1>1, <1>4, <2>1 DEF IInv, BatchInv, InBatch, Pending
  <2>2. ASSUME NEW o \in C
        PROVE  /\ batch'[d][o].seq \in 1 .. lastSeq'[d] /\ batch'[d][o].base <= server'[o].version
               /\ batch'[d][o].seq <= outbox'[d][o].seq
               /\ batch'[d][o].seq = outbox'[d][o].seq => batch'[d][o].op = outbox'[d][o].op
    <3>1. version[d][o] <= server[o].version
      BY <1>2 DEF IInv, VersionInv
    <3>2. outbox[d][o].seq \in Nat
      BY <1>2, <1>3 DEF FlatType, Row
    <3>3. UNCHANGED <<server, lastSeq, outbox>>
      BY <1>1
    <3>4. /\ batch'[d][o].seq = outbox[d][o].seq /\ batch'[d][o].op = outbox[d][o].op
          /\ batch'[d][o].base = version[d][o] /\ batch'[d][o].seq \in 1 .. lastSeq[d]
      BY <1>5
    <3> QED
      BY <3>1, <3>2, <3>3, <3>4
  <2>3. ASSUME NEW o \in C, NEW p \in C, batch'[d][o].seq = batch'[d][p].seq
        PROVE  o = p
    BY <1>2, <1>5, <2>3 DEF IInv, RowInv
  <2>4. ASSUME NEW e \in Devices
        PROVE  /\ \A o \in InBatch(e)' :
                    /\ batch'[e][o].seq \in 1 .. lastSeq'[e] /\ batch'[e][o].base <= server'[o].version
                    /\ Pending(e, o)' =>
                         /\ batch'[e][o].seq <= outbox'[e][o].seq
                         /\ batch'[e][o].seq = outbox'[e][o].seq => batch'[e][o].op = outbox'[e][o].op
               /\ \A o, p \in InBatch(e)' : batch'[e][o].seq = batch'[e][p].seq => o = p
    <3>1. CASE e = d
      BY <1>4, <2>2, <2>3, <3>1
    <3> QED
      BY <2>1, <3>1
  <2> QED
    BY <2>4 DEF BatchInv
<1>10. VersionInv'
  <2>1. ASSUME NEW e \in Devices, NEW o \in Objects
        PROVE  version'[e][o] <= server'[o].version /\ Met(e, o, version[e][o])'
    BY <1>1 DEF IInv, VersionInv, Met
  <2>2. ASSUME NEW e \in Devices, e # d, NEW o \in InBatch(e)'
        PROVE  Met(e, o, batch[e][o].base)'
    BY <1>1, <1>4, <2>2 DEF IInv, VersionInv, Met, InBatch
  <2>3. ASSUME NEW o \in C
        PROVE  Met(d, o, batch[d][o].base)'
    <3>1. Met(d, o, version[d][o])'
      BY <1>2, <2>1
    <3>2. batch'[d][o].base = version'[d][o]
      BY <1>1, <1>5
    <3> QED
      BY <3>1, <3>2 DEF Met
  <2> QED
    BY <1>4, <2>1, <2>2, <2>3 DEF VersionInv
<1> QED
  BY <1>7, <1>8, <1>9, <1>10 DEF KeptInv

LEMMA CompleteKeeps ==
  ASSUME IInv, NEW d \in Devices, Complete(d)
  PROVE  KeptInv'
<1>1. /\ pc[d] = "await"
      /\ version' = [version EXCEPT ![d] = [o \in Objects |->
           IF o \in InBatch(d) THEN Confirmed(d, o).version ELSE version[d][o]]]
      /\ outbox' = [outbox EXCEPT ![d] = [o \in Objects |-> RowLeft(d, o)]]
      /\ batch' = [batch EXCEPT ![d] = NoBatch]
      /\ pc' = [pc EXCEPT ![d] = "collect"]
      /\ UNCHANGED <<server, log, item, lastSeq, conflict, cursor, stage, page, verdict>>
      /\ UNCHANGED <<choosing, edits, failures, mine, seen>>
  BY DEF Complete, Goto, ghosts, IInv, TypeOK
<1>2. FlatType /\ SyncType /\ BatchType
  BY TypeParts DEF IInv
<1>3. ASSUME NEW o \in InBatch(d)
      PROVE  /\ Confirmed(d, o) \in log /\ Confirmed(d, o).object = o
             /\ Confirmed(d, o).device = d
             /\ Confirmed(d, o).version \in Nat
  <2>1. Answered(d)
    BY <1>1 DEF IInv, PageInv, PageFits
  <2>2. /\ Confirmed(d, o) \in log /\ Confirmed(d, o).object = o
        /\ Confirmed(d, o).device = d
    BY <2>1, ConfirmedFacts DEF IInv
  <2> QED
    BY <1>2, <2>2 DEF FlatType, Change
<1>4. \A e \in Devices, o \in Objects : outbox'[e][o] = outbox[e][o] \/ outbox'[e][o] = NoRow
  BY <1>1, <1>2 DEF FlatType, RowLeft
<1>5. ASSUME NEW o \in Objects
      PROVE  /\ version'[d][o] =
                  IF o \in InBatch(d) THEN Confirmed(d, o).version ELSE version[d][o]
             /\ version'[d][o] \in Nat
  BY <1>1, <1>2, <1>3 DEF FlatType
<1>6. TypeOK'
  <2>1. version' \in [Devices -> [Objects -> Nat]]
    BY <1>1, <1>2, <1>3 DEF FlatType
  <2>2. outbox' \in [Devices -> [Objects -> Row]]
    <3>1. \A o \in Objects : RowLeft(d, o) \in Row
      BY <1>2 DEF RowLeft, NoRow, Row, FlatType
    <3> QED
      BY <1>1, <1>2, <3>1 DEF FlatType
  <2>3. FlatType'
    BY <1>1, <1>2, <2>1, <2>2 DEF FlatType
  <2>4. SyncType'
    BY <1>1, <1>2 DEF SyncType
  <2>5. BatchType'
    <3>1. pc'[d] \notin {"send", "await"} /\ \A e \in Devices : e # d => pc'[e] = pc[e]
      BY <1>1, <1>2 DEF SyncType
    <3> QED
      BY <1>1, <1>2, <3>1, BatchDropped
  <2> QED
    BY <2>3, <2>4, <2>5, TypeParts
<1>7. LogInv' /\ KeyInv' /\ ConflictInv'
  BY <1>1 DEF IInv, LogInv, LastCursor, KeyInv, ConflictInv
<1>8. RowInv'
  BY <1>1, <1>4 DEF IInv, RowInv, Pending
<1>9. ASSUME NEW e \in Devices
      PROVE  /\ InBatch(e)' \subseteq InBatch(e)
             /\ \A o \in InBatch(e)' : batch'[e][o] = batch[e][o]
  <2>1. batch'[e] = batch[e] \/ batch'[e] = NoBatch
    BY <1>1, <1>2 DEF BatchType
  <2> QED
    BY <2>1 DEF InBatch, NoBatch
<1>10. BatchInv'
  <2>1. \A e \in Devices : InBatch(e) \subseteq Objects
    BY BatchTyped DEF IInv
  <2> QED
    BY <1>1, <1>4, <1>9, <2>1 DEF IInv, BatchInv, Pending
<1>11. VersionInv'
  <2>1. ASSUME NEW e \in Devices, NEW o \in Objects
        PROVE  version'[e][o] <= server[o].version /\ Met(e, o, version[e][o])'
    <3>1. CASE version'[e][o] = version[e][o]
      BY <1>1, <3>1 DEF IInv, VersionInv, Met
    <3>2. CASE e = d /\ o \in InBatch(d)
      <4>1. version'[e][o] = Confirmed(d, o).version
        BY <1>5, <3>2
      <4>2. Confirmed(d, o).version <= server[o].version
        BY <1>3, <3>2 DEF IInv, LogInv
      <4>3. \A c \in log : c.object = o /\ c.version = Confirmed(d, o).version => c.device = d
        BY <1>3, <3>2 DEF IInv, LogInv
      <4> QED
        BY <1>1, <3>2, <4>1, <4>2, <4>3 DEF Met
    <3>3. e = d => version'[d][o] =
                  IF o \in InBatch(d) THEN Confirmed(d, o).version ELSE version[d][o]
      BY <1>5
    <3>4. e # d => version'[e] = version[e]
      BY <1>1, <1>2 DEF FlatType
    <3> QED
      BY <3>1, <3>2, <3>3, <3>4
  <2>2. ASSUME NEW e \in Devices, NEW o \in InBatch(e)'
        PROVE  Met(e, o, batch[e][o].base)'
    BY <1>1, <1>9 DEF IInv, VersionInv, Met
  <2> QED
    BY <1>1, <2>1, <2>2 DEF VersionInv
<1> QED
  BY <1>6, <1>7, <1>8, <1>10, <1>11 DEF KeptInv
-----------------------------------------------------------------------------
(* The log after a push that was accepted, and its size.                   *)
LEMMA LogGrows ==
  ASSUME IInv, NEW d \in Devices, SendAccepted(d)
  PROVE  /\ pc[d] = "send"
         /\ \E N : /\ N = {Accepted(d, o) : o \in InBatch(d)}
                   /\ log' = log \cup N
                   /\ IsFiniteSet(log')
         /\ LastCursor' = LastCursor + Cardinality(InBatch(d))
<1> PICK B : B = InBatch(d)
  OBVIOUS
<1> PICK N : N = {Accepted(d, o) : o \in B}
  OBVIOUS
<1> PICK g : g = [o \in B |-> Accepted(d, o)]
  OBVIOUS
<1>1. pc[d] = "send" /\ log' = log \cup N
  BY DEF SendAccepted
<1>2. /\ \A o \in B : Accepted(d, o).cursor \in LastCursor + 1 .. LastCursor + Cardinality(B)
      /\ \A o, p \in B : Accepted(d, o).cursor = Accepted(d, p).cursor => o = p
      /\ Cardinality(B) \in Nat
  BY <1>1, AcceptedFacts
<1>3. LastCursor \in Nat /\ IsFiniteSet(log) /\ IsFiniteSet(B)
  BY LastCursorTyped, BatchTyped DEF IInv, LogInv
<1>4. g \in Bijection(B, N)
  <2>1. g \in [B -> N]
    OBVIOUS
  <2>2. \A o, p \in B : g[o] = g[p] => o = p
    BY <1>2
  <2>3. \A c \in N : \E o \in B : g[o] = c
    OBVIOUS
  <2> QED
    BY <2>1, <2>2, <2>3, Fun_IsBij
<1>5. IsFiniteSet(N) /\ Cardinality(N) = Cardinality(B)
  BY <1>3, <1>4, FS_Bijection DEF ExistsBijection
<1>6. log \cap N = {}
  <2> SUFFICES ASSUME NEW c \in log, c \in N
               PROVE  FALSE
    OBVIOUS
  <2>1. c.cursor \in 1 .. LastCursor
    BY DEF IInv, LogInv
  <2>2. c.cursor \in LastCursor + 1 .. LastCursor + Cardinality(B)
    BY <1>2
  <2> QED
    BY <1>2, <1>3, <2>1, <2>2
<1>7. IsFiniteSet(log') /\ Cardinality(log') = Cardinality(log) + Cardinality(B)
  <2>1. Cardinality(log \cap N) = 0
    BY <1>6, FS_EmptySet
  <2>2. /\ IsFiniteSet(log \cup N)
        /\ Cardinality(log \cup N) = Cardinality(log) + Cardinality(N) - Cardinality(log \cap N)
    BY <1>3, <1>5, FS_Union
  <2>3. Cardinality(log) \in Nat
    BY <1>3, FS_CardinalityType
  <2> QED
    BY <1>1, <1>2, <1>5, <2>1, <2>2, <2>3
<1> QED
  BY <1>1, <1>7 DEF LastCursor

LEMMA SendAcceptedKeeps ==
  ASSUME IInv, NEW d \in Devices, SendAccepted(d)
  PROVE  KeptInv'
<1> PICK B : B = InBatch(d)
  OBVIOUS
<1>1. /\ pc[d] = "send" /\ pc' = [pc EXCEPT ![d] = "await"]
      /\ server' = [o \in Objects |->
           IF o \in B
           THEN [version |-> Accepted(d, o).version, content |-> Accepted(d, o).content]
           ELSE server[o]]
      /\ UNCHANGED <<item, outbox, lastSeq, version, conflict, cursor>>
      /\ UNCHANGED <<stage, page, verdict, batch, choosing, edits, failures, mine, seen>>
  BY DEF SendAccepted, Goto, store, ghosts
<1>2. FlatType /\ SyncType /\ BatchType
  BY TypeParts DEF IInv
<1>3. PICK N : /\ N = {Accepted(d, o) : o \in B}
               /\ log' = log \cup N
               /\ IsFiniteSet(log')
  BY LogGrows
<1>4. /\ LastCursor' = LastCursor + Cardinality(B)
      /\ Cardinality(B) \in Nat /\ LastCursor \in Nat /\ B \subseteq Objects
  BY <1>1, LogGrows, AcceptedFacts, LastCursorTyped, BatchTyped DEF IInv
<1>5. \A o \in B :
        /\ Accepted(d, o) \in Change
        /\ Accepted(d, o).object = o /\ Accepted(d, o).device = d
        /\ Accepted(d, o).version = server[o].version + 1
        /\ Accepted(d, o).key = Key(d)
        /\ Accepted(d, o).cursor \in LastCursor + 1 .. LastCursor + Cardinality(B)
  BY <1>1, AcceptedFacts
<1>6. /\ \A o \in B : server'[o].version = server[o].version + 1
      /\ \A o \in Objects \ B : server'[o] = server[o]
      /\ \A o \in Objects : server[o].version \in Nat /\ server[o].version <= server'[o].version
  <2>1. \A o \in Objects : server[o].version \in Nat
    BY <1>2 DEF FlatType
  <2>2. \A o \in B : server'[o].version = server[o].version + 1
    BY <1>1, <1>4, <1>5
  <2>3. \A o \in Objects \ B : server'[o] = server[o]
    BY <1>1
  <2> QED
    BY <2>1, <2>2, <2>3
<1>7. TypeOK'
  <2>1. \A o \in B : Accepted(d, o).version \in Nat /\ Accepted(d, o).content \in Content
    BY <1>5 DEF Change
  <2>2. server' \in [Objects -> [version : Nat, content : Content]]
    BY <1>1, <1>2, <2>1 DEF FlatType
  <2>3. log' \subseteq Change
    BY <1>2, <1>3, <1>5 DEF FlatType
  <2>4. FlatType'
    BY <1>1, <1>2, <2>2, <2>3 DEF FlatType
  <2>5. SyncType'
    BY <1>1, <1>2 DEF SyncType
  <2>6. BatchType'
    <3>1. \A e \in Devices : pc'[e] \in {"send", "await"} <=> pc[e] \in {"send", "await"}
      BY <1>1, <1>2 DEF SyncType
    <3> QED
      BY <1>1, <1>2, <3>1, BatchKept
  <2> QED
    BY <2>4, <2>5, <2>6, TypeParts
<1>8. \A c \in log : c.object \in Objects /\ c.version \in Nat /\ c.cursor \in 1 .. LastCursor
                     /\ c.version <= server[c.object].version
  BY <1>2 DEF IInv, LogInv, FlatType, Change
<1>9. LogInv'
  <2>1. ASSUME NEW c \in log'
        PROVE  c.cursor \in 1 .. LastCursor' /\ c.version <= server'[c.object].version
    <3>1. CASE c \in log
      BY <1>4, <1>6, <1>8, <3>1
    <3>2. CASE c \in N
      BY <1>3, <1>4, <1>5, <1>6, <3>2
    <3> QED
      BY <1>3, <3>1, <3>2
  <2>2. ASSUME NEW n \in 1 .. LastCursor'
        PROVE  \E c \in log' : c.cursor = n
    <3>1. CASE n \in 1 .. LastCursor
      <4>1. \E c \in log : c.cursor = n
        BY <3>1 DEF IInv, LogInv
      <4> QED
        BY <1>3, <4>1
    <3>2. CASE n \in LastCursor + 1 .. LastCursor + Cardinality(B)
      <4>1. \E o \in B : Accepted(d, o).cursor = n
        BY <1>1, <3>2, AcceptedFacts
      <4> QED
        BY <1>3, <4>1
    <3> QED
      BY <1>4, <3>1, <3>2
  <2>3. ASSUME NEW c \in log', NEW e \in log', c.cursor = e.cursor
        PROVE  c = e
    <3>1. CASE c \in log /\ e \in log
      BY <2>3, <3>1 DEF IInv, LogInv
    <3>2. CASE c \in N /\ e \in N
      <4>1. \A o, p \in B : Accepted(d, o).cursor = Accepted(d, p).cursor => o = p
        BY <1>1, AcceptedFacts
      <4> QED
        BY <1>3, <2>3, <3>2, <4>1
    <3>3. ASSUME NEW x \in log, NEW y \in N
          PROVE  x.cursor # y.cursor
      BY <1>3, <1>4, <1>5, <1>8
    <3> QED
      BY <1>3, <2>3, <3>1, <3>2, <3>3
  <2>4. ASSUME NEW c \in log', NEW e \in log', c.object = e.object, c.version = e.version
        PROVE  c = e
    <3>1. CASE c \in log /\ e \in log
      BY <2>4, <3>1 DEF IInv, LogInv
    <3>2. CASE c \in N /\ e \in N
      BY <1>3, <1>5, <2>4, <3>2
    <3>3. ASSUME NEW x \in log, NEW y \in N, x.object = y.object
          PROVE  x.version # y.version
      <4>1. PICK o \in B : y.object = o /\ y.version = server[o].version + 1
        BY <1>3, <1>5
      <4>2. x.version <= server[o].version /\ x.version \in Nat /\ server[o].version \in Nat
        BY <1>4, <1>6, <1>8, <3>3, <4>1
      <4> QED
        BY <4>1, <4>2
    <3> QED
      BY <1>3, <2>4, <3>1, <3>2, <3>3
  <2> QED
    BY <1>3, <2>1, <2>2, <2>3, <2>4 DEF LogInv
<1>10. KeyInv'
  <2>1. ASSUME NEW c \in log
        PROVE  /\ c.key[1] = c.device
               /\ \A k \in c.key[2] :
                    /\ k[2] \in 1 .. lastSeq'[c.device]
                    /\ \E e \in log' : e.key = c.key /\ e.object = k[1]
               /\ \A j, k \in c.key[2] : j[1] = k[1] => j = k
    BY <1>1, <1>3 DEF IInv, KeyInv
  <2>2. Key(d) = <<d, {<<p, batch[d][p].seq>> : p \in B}>>
    BY DEF Key
  <2>3. ASSUME NEW c \in N
        PROVE  /\ c.key[1] = c.device
               /\ \A k \in c.key[2] :
                    /\ k[2] \in 1 .. lastSeq'[c.device]
                    /\ \E e \in log' : e.key = c.key /\ e.object = k[1]
               /\ \A j, k \in c.key[2] : j[1] = k[1] => j = k
    <3>1. c.key = Key(d) /\ c.device = d
      BY <1>3, <1>5
    <3>2. ASSUME NEW k \in Key(d)[2]
          PROVE  /\ k[2] \in 1 .. lastSeq'[d]
                 /\ \E e \in log' : e.key = Key(d) /\ e.object = k[1]
      <4>1. PICK p \in B : k = <<p, batch[d][p].seq>>
        BY <2>2
      <4>2. batch[d][p].seq \in 1 .. lastSeq[d]
        BY DEF IInv, BatchInv
      <4>3. Accepted(d, p) \in log'
        BY <1>3
      <4> QED
        BY <1>1, <1>5, <4>1, <4>2, <4>3
    <3>3. ASSUME NEW j \in Key(d)[2], NEW k \in Key(d)[2], j[1] = k[1]
          PROVE  j = k
      BY <2>2, <3>3
    <3>4. Key(d)[1] = d
      BY <2>2
    <3> QED
      BY <3>1, <3>2, <3>3, <3>4
  <2> QED
    BY <1>3, <2>1, <2>3 DEF KeyInv
<1>11. RowInv'
  BY <1>1 DEF IInv, RowInv, Pending
<1>12. BatchInv'
  <2>1. ASSUME NEW e \in Devices, NEW o \in InBatch(e)
        PROVE  batch[e][o].base <= server'[o].version
    <3>1. o \in Objects /\ batch[e][o].base \in Nat
      BY BatchTyped DEF IInv, Sent
    <3>2. batch[e][o].base <= server[o].version
      BY DEF IInv, BatchInv
    <3> QED
      BY <1>6, <3>1, <3>2
  <2> QED
    BY <1>1, <2>1 DEF IInv, BatchInv, InBatch, Pending
<1>13. ConflictInv'
  BY <1>1, <1>3 DEF IInv, ConflictInv
<1>14. ASSUME NEW e \in Devices, NEW o \in Objects, NEW v \in Nat, v <= server[o].version,
              Met(e, o, v)
       PROVE  Met(e, o, v)'
  <2>1. ASSUME NEW c \in N, c.object = o
        PROVE  c.version # v
    BY <1>3, <1>5, <1>6, <1>14, <2>1
  <2> QED
    BY <1>1, <1>3, <1>14, <2>1 DEF Met
<1>15. VersionInv'
  <2>1. ASSUME NEW e \in Devices, NEW o \in Objects
        PROVE  version'[e][o] <= server'[o].version /\ Met(e, o, version[e][o])'
    <3> PICK v : v = version[e][o]
      OBVIOUS
    <3>1. v \in Nat /\ v <= server[o].version /\ Met(e, o, v)
      BY <1>2 DEF FlatType, IInv, VersionInv
    <3>2. Met(e, o, v)'
      BY <1>14, <3>1
    <3>3. v <= server'[o].version
      <4>1. server[o].version \in Nat /\ server'[o].version \in Nat /\ server[o].version <= server'[o].version
        BY <1>6, <1>7 DEF TypeOK
      <4> QED
        BY <3>1, <4>1
    <3>4. version'[e][o] = v
      BY <1>1
    <3> QED
      BY <3>2, <3>3, <3>4 DEF Met
  <2>2. ASSUME NEW e \in Devices, NEW o \in InBatch(e)
        PROVE  Met(e, o, batch[e][o].base)'
    <3> PICK v : v = batch[e][o].base
      OBVIOUS
    <3>1. o \in Objects /\ v \in Nat
      BY BatchTyped DEF IInv, Sent
    <3>2. v <= server[o].version /\ Met(e, o, v)
      BY DEF IInv, BatchInv, VersionInv
    <3>3. Met(e, o, v)' /\ batch'[e][o].base = v
      BY <1>1, <1>14, <3>1, <3>2
    <3> QED
      BY <3>3 DEF Met
  <2> QED
    BY <1>1, <2>1, <2>2 DEF VersionInv, InBatch
<1> QED
  BY <1>7, <1>9, <1>10, <1>11, <1>12, <1>13, <1>15 DEF KeptInv
-----------------------------------------------------------------------------
(* What a device takes in or waits for stays what it is when another step  *)
(* adds to the log.                                                        *)
LEMMA PageStays ==
  ASSUME IInv, LogInv', NEW d \in Devices, log \subseteq log',
         UNCHANGED <<pc[d], page[d], verdict[d], batch[d]>>
  PROVE  PageFits(d)'
<1>1. LastCursor \in Nat /\ LastCursor' \in Nat /\ LastCursor <= LastCursor'
  <2>1. IsFiniteSet(log') /\ LastCursor = Cardinality(log) /\ LastCursor' = Cardinality(log')
    BY DEF LogInv, LastCursor
  <2>2. Cardinality(log) <= Cardinality(log')
    BY <2>1, FS_Subset
  <2> QED
    BY <2>1, <2>2, FS_CardinalityType, FS_Subset
<1>2. PageFits(d) /\ page[d].next \in Nat /\ page[d].last \in Nat
  BY DEF IInv, PageInv, TypeOK
<1>3. pc[d] = "apply" => AtHand(d)' = AtHand(d)
  <2> SUFFICES ASSUME pc[d] = "apply"
               PROVE  AtHand(d)' = AtHand(d)
    OBVIOUS
  <2>1. page[d].next \in 1 .. LastCursor
    BY <1>1, <1>2 DEF PageFits
  <2> QED
    BY <2>1, AtHandStays DEF IInv
<1>4. pc[d] = "await" => Answered(d)'
  BY <1>2 DEF PageFits, Answered, Stored, Key, InBatch
<1> QED
  BY <1>1, <1>2, <1>3, <1>4 DEF PageFits

(* Only a push that is accepted changes the server.                        *)
LEMMA OnlyPushes ==
  ASSUME TypeOK, Next
  PROVE  (\E d \in Devices : SendAccepted(d)) \/ UNCHANGED <<server, log>>
<1>1. ASSUME NEW d \in Devices, Moves(d)
      PROVE  UNCHANGED <<server, log>>
  BY <1>1, MovesAreQuiet DEF Quiet
<1>2. ASSUME NEW d \in Devices, NEW o, NEW content, NEW op, Edited(d, o, content, op)
      PROVE  UNCHANGED <<server, log>>
  BY <1>2 DEF Edited, Edit
<1>3. ASSUME NEW d \in Devices,
             \/ ResolveLocal(d) \/ ResolveRemote(d) \/ Collect(d) \/ Complete(d)
             \/ \E o \in Objects, keep \in {"local", "remote"} : Choose(d, o, keep)
      PROVE  UNCHANGED <<server, log>>
  BY <1>3 DEF ResolveLocal, ResolveRemote, Collect, Complete, Choose
<1>4. ASSUME NEW d \in Devices, StoreConflict(d) \/ RecognizeOwn(d) \/ Take(d)
      PROVE  UNCHANGED <<server, log>>
  BY <1>4 DEF StoreConflict, RecognizeOwn, Take, Applying
<1> QED
  BY <1>1, <1>2, <1>3, <1>4, Steps

LEMMA LogOnlyGrows ==
  ASSUME IInv, Next
  PROVE  log \subseteq log'
<1>1. ASSUME NEW d \in Devices, SendAccepted(d)
      PROVE  log \subseteq log'
  BY <1>1 DEF SendAccepted
<1> QED
  BY <1>1, OnlyPushes DEF IInv

(* A step of one device leaves sync_now of the others where it is.         *)
Alone(d) ==
  \A e \in Devices : e # d => UNCHANGED <<pc[e], page[e], verdict[e], batch[e]>>

LEMMA UserPage ==
  ASSUME IInv, KeptInv', log \subseteq log', NEW d \in Devices,
         UNCHANGED <<pc, stage, page, verdict, batch>>
  PROVE  PageInv'
BY PageStays DEF PageInv, KeptInv

LEMMA SyncPage ==
  ASSUME IInv, KeptInv', log \subseteq log', NEW d \in Devices, Alone(d), PageFits(d)'
  PROVE  PageInv'
BY PageStays DEF PageInv, KeptInv, Alone

LEMMA ApplyPage ==
  ASSUME IInv, KeptInv', log \subseteq log', NEW d \in Devices,
         NEW what, Applying(d, what)
  PROVE  PageInv'
<1>1. /\ pc' = [pc EXCEPT ![d] = "check"]
      /\ page' = [page EXCEPT ![d].next = @ + 1]
      /\ verdict' = [verdict EXCEPT ![d] = "none"]
      /\ UNCHANGED <<log, batch>>
  BY DEF Applying, NextChange, Goto
<1>2. TypeOK /\ PageFits(d)
  BY DEF IInv, PageInv
<1>3. Alone(d)
  BY <1>1, <1>2 DEF Alone, TypeOK
<1>4. /\ pc'[d] = "check" /\ page'[d].next = page[d].next + 1
      /\ page'[d].last = page[d].last /\ page[d].next \in Nat
  BY <1>1, <1>2 DEF TypeOK
<1>5. PageFits(d)'
  BY <1>1, <1>2, <1>4 DEF PageFits, LastCursor
<1> QED
  BY <1>3, <1>5, SyncPage

LEMMA PushPage ==
  ASSUME IInv, KeptInv', log \subseteq log', NEW d \in Devices,
         Collect(d) \/ SendAccepted(d) \/ Complete(d)
  PROVE  PageInv'
<1>1. TypeOK /\ PageFits(d) /\ UNCHANGED <<page, verdict>>
  BY DEF IInv, PageInv, Collect, SendAccepted, Complete
<1>2. LastCursor \in Nat /\ LastCursor' \in Nat /\ LastCursor <= LastCursor'
  <2>1. /\ IsFiniteSet(log) /\ IsFiniteSet(log')
        /\ LastCursor = Cardinality(log) /\ LastCursor' = Cardinality(log')
    BY DEF IInv, KeptInv, LogInv, LastCursor
  <2>2. Cardinality(log) <= Cardinality(log')
    BY <2>1, FS_Subset
  <2> QED
    BY <2>1, <2>2, FS_CardinalityType
<1>3. page'[d].last <= LastCursor'
  <2>1. page[d].last \in Nat /\ page[d].last <= LastCursor
    BY <1>1 DEF TypeOK, PageFits
  <2> QED
    BY <1>1, <1>2, <2>1
<1>4. Alone(d)
  BY <1>1 DEF Alone, TypeOK, Collect, SendAccepted, Complete, Goto
<1>5. CASE Collect(d) \/ Complete(d)
  <2>1. pc'[d] \in {"send", "collect"}
    BY <1>1, <1>5 DEF Collect, Complete, Goto, TypeOK
  <2>2. PageFits(d)'
    BY <1>3, <2>1 DEF PageFits
  <2> QED
    BY <1>4, <2>2, SyncPage
<1>6. CASE SendAccepted(d)
  <2>1. /\ pc[d] = "send" /\ pc'[d] = "await" /\ UNCHANGED batch
        /\ log' = log \cup {Accepted(d, o) : o \in InBatch(d)}
    BY <1>1, <1>6 DEF SendAccepted, Goto, TypeOK
  <2>2. InBatch(d) # {} /\ \A o \in InBatch(d) : Accepted(d, o).key = Key(d)
    BY <2>1, AcceptedFacts
  <2>3. \E c \in log' : c.key = Key(d)
    BY <2>1, <2>2
  <2>4. Answered(d)'
    BY <2>1, <2>3 DEF Answered, Stored, Key, InBatch
  <2>5. PageFits(d)'
    BY <1>3, <2>1, <2>4 DEF PageFits
  <2> QED
    BY <1>4, <2>5, SyncPage
<1> QED
  BY <1>5, <1>6
-----------------------------------------------------------------------------
LEMMA StopPage ==
  ASSUME IInv, KeptInv', log \subseteq log', NEW d \in Devices, Stop(d), UNCHANGED log
  PROVE  PageInv'
<1>1. /\ pc' = [pc EXCEPT ![d] = "idle"] /\ page' = [page EXCEPT ![d] = NoPage]
      /\ verdict' = [verdict EXCEPT ![d] = "none"] /\ batch' = [batch EXCEPT ![d] = NoBatch]
  BY DEF Stop, Goto
<1>2. Alone(d)
  BY <1>1 DEF Alone, IInv, TypeOK
<1>3. pc'[d] = "idle" /\ page'[d].last = 0
  BY <1>1 DEF IInv, TypeOK, NoPage
<1>4. LastCursor' \in Nat
  BY LastCursorTyped DEF IInv, LastCursor
<1>5. PageFits(d)'
  BY <1>3, <1>4 DEF PageFits
<1> QED
  BY <1>2, <1>5, SyncPage

LEMMA MovesPage ==
  ASSUME IInv, KeptInv', NEW d \in Devices, Moves(d)
  PROVE  PageInv'
<1>1. log' = log /\ LastCursor' = LastCursor /\ LastCursor \in Nat
  BY MovesAreQuiet, LastCursorTyped DEF Quiet, IInv, LastCursor
<1>2. TypeOK /\ PageFits(d)
  BY DEF IInv, PageInv
<1>3. page[d].next \in Nat /\ page[d].last \in Nat /\ cursor[d] \in Nat
  BY <1>2 DEF TypeOK
<1>4. CASE Fetch(d)
  <2>1. /\ pc'[d] = "check" /\ page'[d].next = cursor[d] + 1
        /\ page'[d].last = IF cursor[d] + PageLimit < LastCursor
                           THEN cursor[d] + PageLimit ELSE LastCursor
    BY <1>2, <1>4 DEF Fetch, Goto, TypeOK
  <2>2. page'[d].last <= LastCursor
    <3>1. cursor[d] + PageLimit \in Nat
      BY <1>3, DesktopAssumption
    <3> QED
      BY <1>1, <2>1, <3>1
  <2>3. PageFits(d)'
    BY <1>1, <1>3, <2>1, <2>2 DEF PageFits
  <2>4. Alone(d)
    BY <1>2, <1>4 DEF Alone, Fetch, Goto, TypeOK
  <2> QED
    BY <1>1, <2>3, <2>4, SyncPage
<1>5. CASE Skip(d)
  <2>1. /\ pc[d] = "check" /\ UNCHANGED <<pc, verdict, batch>>
        /\ page'[d].next = page[d].next + 1 /\ page'[d].last = page[d].last
    BY <1>2, <1>5 DEF Skip, NextChange, TypeOK
  <2>2. PageFits(d)'
    BY <1>1, <1>2, <1>3, <2>1 DEF PageFits
  <2>3. Alone(d)
    BY <1>2, <1>5 DEF Alone, Skip, NextChange, TypeOK
  <2> QED
    BY <1>1, <2>2, <2>3, SyncPage
<1>6. CASE Check(d)
  <2>1. /\ pc[d] = "check" /\ pc'[d] = "apply" /\ page[d].next <= page[d].last
        /\ verdict'[d] = Decision(d) /\ UNCHANGED page
    BY <1>2, <1>6 DEF Check, Goto, TypeOK
  <2>2. Decision(d) = "own" => AtHand(d).device = d
    BY DEF Decision
  <2>3. AtHand(d)' = AtHand(d)
    BY <1>1, <2>1 DEF AtHand
  <2>4. PageFits(d)'
    BY <1>1, <1>2, <2>1, <2>2, <2>3 DEF PageFits
  <2>5. Alone(d)
    BY <1>2, <1>6 DEF Alone, Check, Goto, TypeOK
  <2> QED
    BY <1>1, <2>4, <2>5, SyncPage
<1>7. CASE Mark(d)
  <2>1. CASE Stop(d)
    BY <1>1, <2>1, StopPage
  <2>2. CASE ~Stop(d)
    <3>1. /\ Goto(d, IF page[d].more THEN "pull" ELSE "collect")
          /\ page' = [page EXCEPT ![d] = NoPage]
          /\ UNCHANGED <<stage, verdict, batch>>
      BY <1>7, <2>2 DEF Mark
    <3>2. pc'[d] \in {"pull", "collect"} /\ page'[d].last = 0
      BY <1>2, <3>1 DEF Goto, NoPage, TypeOK
    <3>3. PageFits(d)'
      BY <1>1, <3>2 DEF PageFits
    <3>4. Alone(d)
      BY <1>2, <3>1 DEF Alone, Goto, TypeOK
    <3> QED
      BY <1>1, <3>3, <3>4, SyncPage
  <2> QED
    BY <2>1, <2>2
<1>8. CASE NothingToPush(d) \/ SendReplayed(d)
  <2>1. /\ UNCHANGED <<page, verdict, batch>> /\ pc'[d] \in {"pull", "await"}
        /\ pc'[d] = "await" => Answered(d)
    BY <1>2, <1>8 DEF NothingToPush, SendReplayed, Goto, TypeOK
  <2>2. Answered(d)' <=> Answered(d)
    BY <1>1, <2>1 DEF Answered, Stored, Key, InBatch
  <2>3. PageFits(d)'
    BY <1>1, <1>2, <2>1, <2>2 DEF PageFits
  <2>4. Alone(d)
    BY <1>2, <1>8, <2>1 DEF Alone, NothingToPush, SendReplayed, Goto, TypeOK
  <2> QED
    BY <1>1, <2>3, <2>4, SyncPage
<1>9. CASE SendRefused(d)
  <2>1. CASE stage[d] = "first"
    <3>1. /\ pc' = [pc EXCEPT ![d] = "pull"] /\ batch' = [batch EXCEPT ![d] = NoBatch]
          /\ UNCHANGED <<page, verdict>>
      BY <1>9, <2>1 DEF SendRefused, Goto
    <3>2. pc'[d] = "pull" /\ Alone(d)
      BY <1>2, <3>1 DEF Alone, TypeOK
    <3>3. PageFits(d)'
      BY <1>1, <1>2, <3>1, <3>2 DEF PageFits
    <3> QED
      BY <1>1, <3>2, <3>3, SyncPage
  <2>2. CASE stage[d] # "first"
    BY <1>1, <1>9, <2>2, StopPage DEF SendRefused
  <2> QED
    BY <2>1, <2>2
<1>10. CASE Quits(d)
  BY <1>1, <1>10, StopPage DEF Quits
<1> QED
  BY <1>4, <1>5, <1>6, <1>7, <1>8, <1>9, <1>10 DEF Moves
-----------------------------------------------------------------------------
(* The invariant is inductive.                                             *)
LEMMA InitIInv == Init => IInv
<1> SUFFICES ASSUME Init
             PROVE  IInv
  OBVIOUS
<1>1. /\ server = AtStart([version |-> 1, content |-> 1], [version |-> 0, content |-> Nothing])
      /\ log = {} /\ item = Each(AtStart(1, Nothing)) /\ outbox = EachObject(NoRow)
      /\ lastSeq = Each(0) /\ version = Each(AtStart(1, 0)) /\ conflict = EachObject(None)
      /\ cursor = Each(0) /\ pc = Each("idle") /\ stage = Each("first") /\ page = Each(NoPage)
      /\ verdict = Each("none") /\ batch = Each(NoBatch) /\ choosing = Each(None)
      /\ edits = 1 /\ failures = 0 /\ mine = EachObject(None) /\ seen = Each({})
  BY DEF Init
<1>2. FlatType
  <2>1. server \in [Objects -> [version : Nat, content : Content]]
    BY <1>1 DEF AtStart, Content, Nothing
  <2>2. item \in [Devices -> [Objects -> Content]] /\ version \in [Devices -> [Objects -> Nat]]
    BY <1>1 DEF AtStart, Each, Content, Nothing
  <2>3. outbox \in [Devices -> [Objects -> Row]]
    BY <1>1 DEF EachObject, NoRow, Row
  <2>4. /\ lastSeq \in [Devices -> Nat]
        /\ choosing \in [Devices -> [keep : {"local", "remote"}, change : Change] \cup {None}]
        /\ seen \in [Devices -> SUBSET Change]
    BY <1>1 DEF Each
  <2>5. /\ conflict \in [Devices -> [Objects -> Change \cup {None}]]
        /\ mine \in [Devices -> [Objects -> Content \cup {None}]]
    BY <1>1 DEF EachObject
  <2>6. log \subseteq Change /\ edits \in Nat
    BY <1>1
  <2> QED
    BY <2>1, <2>2, <2>3, <2>4, <2>5, <2>6 DEF FlatType
<1>3. SyncType
  BY <1>1 DEF SyncType, Each, NoPage
<1>4. BatchType
  <2>1. NoBatch \in [{} -> Sent] /\ {} \in SUBSET Objects
    BY DEF NoBatch
  <2>2. DOMAIN batch = Devices /\ \A d \in Devices : batch[d] = NoBatch /\ pc[d] = "idle"
    BY <1>1 DEF Each
  <2> QED
    BY <2>1, <2>2 DEF BatchType
<1>5. TypeOK
  BY <1>2, <1>3, <1>4, TypeParts
<1>6. LastCursor = 0
  BY <1>1, FS_EmptySet DEF LastCursor
<1>7. LogInv
  BY <1>1, <1>6, FS_EmptySet DEF LogInv
<1>8. KeyInv
  BY <1>1 DEF KeyInv
<1>9. RowInv
  BY <1>1, DesktopAssumption DEF RowInv, Pending, Each, EachObject
<1>10. \A d \in Devices : InBatch(d) = {}
  BY <1>1 DEF InBatch, Each, NoBatch
<1>11. BatchInv
  BY <1>10 DEF BatchInv
<1>12. PageInv
  BY <1>1, <1>6 DEF PageInv, PageFits, Each, NoPage
<1>13. ConflictInv
  BY <1>1 DEF ConflictInv, Each, EachObject
<1>14. VersionInv
  BY <1>1, <1>10 DEF VersionInv, Met, Each, AtStart
<1> QED
  BY <1>5, <1>7, <1>8, <1>9, <1>11, <1>12, <1>13, <1>14 DEF IInv

LEMMA NextKeeps ==
  ASSUME IInv, Next
  PROVE  KeptInv'
<1>1. ASSUME NEW d \in Devices, Moves(d)
      PROVE  KeptInv'
  <2>1. TypeOK'
    BY <1>1, MovesTyped DEF IInv
  <2> QED
    BY <1>1, <2>1, MovesAreQuiet, QuietKeeps
<1>2. ASSUME NEW d \in Devices, NEW o, NEW content, NEW op, Edited(d, o, content, op)
      PROVE  KeptInv'
  BY <1>2, EditKeeps
<1>3. ASSUME NEW d \in Devices, NEW o \in Objects, NEW keep \in {"local", "remote"},
             Choose(d, o, keep)
      PROVE  KeptInv'
  BY <1>3, ChooseKeeps
<1>4. ASSUME NEW d \in Devices, ResolveLocal(d) \/ ResolveRemote(d)
      PROVE  KeptInv'
  BY <1>4, ResolveLocalKeeps, ResolveRemoteKeeps
<1>5. ASSUME NEW d \in Devices, StoreConflict(d) \/ RecognizeOwn(d) \/ Take(d)
      PROVE  KeptInv'
  BY <1>5, StoreConflictKeeps, RecognizeOwnKeeps, TakeKeeps
<1>6. ASSUME NEW d \in Devices, Collect(d) \/ SendAccepted(d) \/ Complete(d)
      PROVE  KeptInv'
  BY <1>6, CollectKeeps, SendAcceptedKeeps, CompleteKeeps
<1> QED
  BY <1>1, <1>2, <1>3, <1>4, <1>5, <1>6, Steps DEF IInv

LEMMA NextPage ==
  ASSUME IInv, Next
  PROVE  PageInv'
<1>1. KeptInv' /\ log \subseteq log'
  BY NextKeeps, LogOnlyGrows
<1>2. ASSUME NEW d \in Devices, Moves(d)
      PROVE  PageInv'
  BY <1>1, <1>2, MovesPage
<1>3. ASSUME NEW d \in Devices, NEW o, NEW content, NEW op, Edited(d, o, content, op)
      PROVE  PageInv'
  BY <1>1, <1>3, UserPage DEF Edited, Edit, sync
<1>4. ASSUME NEW d \in Devices, NEW o \in Objects, NEW keep \in {"local", "remote"},
             Choose(d, o, keep)
      PROVE  PageInv'
  BY <1>1, <1>4, UserPage DEF Choose, sync
<1>5. ASSUME NEW d \in Devices, ResolveLocal(d) \/ ResolveRemote(d)
      PROVE  PageInv'
  BY <1>1, <1>5, UserPage DEF ResolveLocal, ResolveRemote, sync
<1>6. ASSUME NEW d \in Devices, StoreConflict(d) \/ RecognizeOwn(d) \/ Take(d)
      PROVE  PageInv'
  BY <1>1, <1>6, ApplyPage DEF StoreConflict, RecognizeOwn, Take
<1>7. ASSUME NEW d \in Devices, Collect(d) \/ SendAccepted(d) \/ Complete(d)
      PROVE  PageInv'
  BY <1>1, <1>7, PushPage
<1> QED
  BY <1>2, <1>3, <1>4, <1>5, <1>6, <1>7, Steps DEF IInv

LEMMA Idle ==
  ASSUME IInv, UNCHANGED vars
  PROVE  IInv'
<1>1. /\ UNCHANGED <<server, log, item, outbox, lastSeq, version, conflict, cursor>>
      /\ UNCHANGED <<pc, stage, page, verdict, batch>>
      /\ UNCHANGED <<choosing, edits, failures, mine, seen>>
  BY DEF vars, store, sync, ghosts
<1>2. TypeOK'
  BY <1>1 DEF IInv, TypeOK, NoBatch
<1>3. LogInv' /\ KeyInv' /\ RowInv' /\ ConflictInv'
  BY <1>1 DEF IInv, LogInv, LastCursor, KeyInv, RowInv, Pending, ConflictInv
<1>4. BatchInv' /\ VersionInv'
  BY <1>1 DEF IInv, BatchInv, Pending, InBatch, VersionInv, Met
<1>5. PageInv'
  BY <1>1 DEF IInv, PageInv, PageFits, LastCursor, AtHand, Answered, Stored, Key, InBatch
<1> QED
  BY <1>2, <1>3, <1>4, <1>5 DEF IInv

LEMMA Inductive == IInv /\ [Next]_vars => IInv'
BY NextKeeps, NextPage, Idle DEF KeptInv, IInv
-----------------------------------------------------------------------------
(* The variables have their types: in particular only a run that sends or  *)
(* awaits an answer holds a batch.                                         *)
THEOREM Typing == Spec => []TypeOK
<1>1. Init => IInv
  BY InitIInv
<1>2. IInv /\ [Next]_vars => IInv'
  BY Inductive
<1>3. IInv => TypeOK
  BY DEF IInv
<1> QED
  BY <1>1, <1>2, <1>3, PTL DEF Spec
-----------------------------------------------------------------------------
(* A push is never made over a change the user of the device was not       *)
(* shown: the version it is based on is that of a change of the device, or *)
(* of one that was taken in or resolved.                                   *)
LEMMA PushesWhatWasMet ==
  ASSUME IInv, NEW d \in Devices, SendAccepted(d),
         NEW c \in log' \ log, NEW e \in log, e.object = c.object, e.version = c.version - 1
  PROVE  e.device = c.device \/ e \in seen[c.device]
<1>1. /\ pc[d] = "send" /\ UpToDate(d)
      /\ log' = log \cup {Accepted(d, o) : o \in InBatch(d)}
  BY DEF SendAccepted
<1>2. PICK o \in InBatch(d) : c = Accepted(d, o)
  BY <1>1
<1>3. c.object = o /\ c.device = d /\ c.version = server[o].version + 1
  BY <1>1, <1>2, AcceptedFacts
<1>4. server[o].version \in Nat
  BY BatchTyped DEF IInv, TypeOK
<1>5. e.version = batch[d][o].base
  BY <1>1, <1>3, <1>4 DEF UpToDate
<1>6. Met(d, o, batch[d][o].base)
  BY DEF IInv, VersionInv
<1> QED
  BY <1>3, <1>5, <1>6 DEF Met

THEOREM NeverBlind == Spec => NoBlindOverwrite
<1> DEFINE Shown == \A c \in log' \ log : \A e \in log :
                     e.object = c.object /\ e.version = c.version - 1 =>
                       e.device = c.device \/ e \in seen[c.device]
<1>1. IInv /\ [Next]_vars => [Shown]_vars
  <2> SUFFICES ASSUME IInv, Next
               PROVE  Shown
    OBVIOUS
  <2>1. ASSUME NEW d \in Devices, SendAccepted(d)
        PROVE  Shown
    BY <2>1, PushesWhatWasMet
  <2>2. (\E d \in Devices : SendAccepted(d)) \/ UNCHANGED log
    BY OnlyPushes DEF IInv
  <2> QED
    BY <2>1, <2>2
<1>2. Init => IInv
  BY InitIInv
<1>3. IInv /\ [Next]_vars => IInv'
  BY Inductive
<1> QED
  BY <1>1, <1>2, <1>3, PTL DEF Spec, NoBlindOverwrite
-----------------------------------------------------------------------------
(* From here on nobody edits while a change is being applied.              *)
NoEditDuringApply == "edit during apply" \notin Allowed

LEMMA MovesAlone ==
  ASSUME TypeOK, NEW d \in Devices, Moves(d)
  PROVE  Alone(d) /\ (pc'[d] = "apply" => Check(d))
<1>1. CASE Fetch(d)
  BY <1>1 DEF Fetch, Goto, Alone, TypeOK
<1>2. CASE Skip(d)
  BY <1>2 DEF Skip, NextChange, Alone, TypeOK
<1>3. CASE Check(d)
  BY <1>3 DEF Check, Goto, Alone, TypeOK
<1>4. CASE Mark(d)
  <2>1. /\ pc'[d] # "apply"
        /\ \A e \in Devices : e # d => pc'[e] = pc[e] /\ page'[e] = page[e]
    BY <1>4 DEF Mark, Stop, Goto, TypeOK
  <2>2. \A e \in Devices : e # d => verdict'[e] = verdict[e] /\ batch'[e] = batch[e]
    BY <1>4 DEF Mark, Stop, TypeOK
  <2> QED
    BY <2>1, <2>2 DEF Alone
<1>5. CASE NothingToPush(d) \/ SendReplayed(d)
  BY <1>5 DEF NothingToPush, SendReplayed, Goto, Alone, TypeOK
<1>6. CASE SendRefused(d)
  <2>1. /\ pc'[d] # "apply"
        /\ \A e \in Devices : e # d => pc'[e] = pc[e] /\ page'[e] = page[e]
    BY <1>6 DEF SendRefused, Stop, Goto, TypeOK
  <2>2. \A e \in Devices : e # d => verdict'[e] = verdict[e] /\ batch'[e] = batch[e]
    BY <1>6 DEF SendRefused, Stop, TypeOK
  <2> QED
    BY <2>1, <2>2 DEF Alone
<1>7. CASE Quits(d)
  BY <1>7 DEF Quits, Stop, Goto, Alone, TypeOK
<1> QED
  BY <1>1, <1>2, <1>3, <1>4, <1>5, <1>6, <1>7 DEF Moves

LEMMA TakeStays ==
  ASSUME IInv, LogInv', TakeFree, NEW d \in Devices, log \subseteq log',
         UNCHANGED <<pc[d], page[d], verdict[d]>>,
         \A o \in Objects : Pending(d, o)' => Pending(d, o)
  PROVE  (pc[d] = "apply" /\ verdict[d] = "take" => ~Pending(d, AtHand(d).object))'
<1> SUFFICES ASSUME pc[d] = "apply", verdict[d] = "take"
             PROVE  ~Pending(d, AtHand(d).object)'
  OBVIOUS
<1>1. page[d].next \in 1 .. LastCursor
  <2>1. LastCursor \in Nat /\ page[d].next \in Nat /\ page[d].last \in Nat
    BY LastCursorTyped DEF IInv, TypeOK
  <2> QED
    BY <2>1 DEF IInv, PageInv, PageFits
<1>2. AtHand(d)' = AtHand(d)
  BY <1>1, AtHandStays DEF IInv
<1>3. AtHand(d).object \in Objects
  BY <1>1, AtHandFacts DEF IInv, TypeOK, Change
<1>4. ~Pending(d, AtHand(d).object)
  BY DEF TakeFree
<1> PICK o : o = AtHand(d).object
  OBVIOUS
<1>5. ~Pending(d, o)'
  BY <1>3, <1>4
<1> QED
  BY <1>2, <1>5 DEF Pending

(* Steps after which every device has the edits and the rows it had, but   *)
(* for one object without a row.                                           *)
LEMMA EditsStay ==
  ASSUME EInv, UNCHANGED <<log, mine>>,
         \A d \in Devices, o \in Objects :
           /\ outbox'[d][o] = outbox[d][o]
           /\ item'[d][o] = item[d][o] \/ ~Pending(d, o)
  PROVE  RowShown' /\ Carried' /\ NoEditLost'
<1>1. \A d \in Devices, o \in Objects : Pending(d, o)' <=> Pending(d, o)
  BY DEF Pending
<1>2. RowShown'
  BY <1>1 DEF EInv, EditInv, RowShown, Nothing
<1>3. Carried'
  <2>1. \A c \in log : c.device \in Devices
    BY DEF EInv, IInv, TypeOK, Change
  <2> QED
    BY <1>1, <2>1 DEF EInv, EditInv, Carried
<1>4. NoEditLost'
  BY <1>1 DEF EInv, NoEditLost
<1> QED
  BY <1>2, <1>3, <1>4

LEMMA MovesKeepEdits ==
  ASSUME EInv, IInv', NEW d \in Devices, Moves(d)
  PROVE  EditInv' /\ NoEditLost'
<1>1. UNCHANGED <<log, item, outbox, mine>>
  BY MovesAreQuiet DEF Quiet
<1>2. RowShown' /\ Carried' /\ NoEditLost'
  BY <1>1, EditsStay
<1>3. Alone(d) /\ (pc'[d] = "apply" => Check(d))
  BY MovesAlone DEF EInv, IInv
<1>4. ASSUME NEW e \in Devices, e # d
      PROVE  (pc[e] = "apply" /\ verdict[e] = "take" => ~Pending(e, AtHand(e).object))'
  <2>1. UNCHANGED <<pc[e], page[e], verdict[e]>> /\ \A o \in Objects : Pending(e, o)' => Pending(e, o)
    BY <1>1, <1>3, <1>4 DEF Alone, Pending
  <2> QED
    BY <1>1, <2>1, TakeStays DEF EInv, EditInv, IInv
<1>5. (pc[d] = "apply" /\ verdict[d] = "take" => ~Pending(d, AtHand(d).object))'
  <2> SUFFICES ASSUME pc'[d] = "apply", verdict'[d] = "take"
               PROVE  ~Pending(d, AtHand(d).object)'
    OBVIOUS
  <2>1. Check(d)
    BY <1>3
  <2>2. verdict'[d] = Decision(d) /\ UNCHANGED page
    BY <2>1 DEF Check, EInv, IInv, TypeOK
  <2>3. ~Pending(d, AtHand(d).object)
    BY <2>2 DEF Decision
  <2> QED
    BY <1>1, <2>2, <2>3 DEF Pending, AtHand
<1>6. TakeFree'
  BY <1>4, <1>5 DEF TakeFree
<1> QED
  BY <1>2, <1>6 DEF EditInv
-----------------------------------------------------------------------------
LEMMA KeyRow ==
  ASSUME KeyInv, NEW c \in log, NEW o, NEW n, <<o, n>> \in c.key[2]
  PROVE  n \in 1 .. lastSeq[c.device]
<1>1. <<o, n>>[2] \in 1 .. lastSeq[c.device]
  BY DEF KeyInv
<1> QED
  BY <1>1

LEMMA EditKeepsEdits ==
  ASSUME NoEditDuringApply, EInv, IInv',
         NEW d \in Devices, NEW o, NEW content, NEW op, Edited(d, o, content, op)
  PROVE  EditInv' /\ NoEditLost'
<1>1. /\ o \in Objects /\ content \in Content /\ op \in {"upsert", "delete"}
      /\ op = "delete" => content = Nothing
      /\ pc[d] # "apply"
      /\ item' = [item EXCEPT ![d][o] = content]
      /\ outbox' = [outbox EXCEPT ![d][o] = [seq |-> lastSeq[d] + 1, op |-> op]]
      /\ mine' = [mine EXCEPT ![d][o] = content]
      /\ UNCHANGED <<log, pc, page, verdict>>
  BY DEF NoEditDuringApply, Edited, MayEdit, Edit, sync
<1>2. TypeOK
  BY DEF EInv, IInv
<1>3. /\ item'[d][o] = content /\ mine'[d][o] = content
      /\ outbox'[d][o].seq = lastSeq[d] + 1 /\ outbox'[d][o].op = op /\ lastSeq[d] \in Nat
      /\ \A e \in Devices, p \in Objects : e # d \/ p # o =>
           UNCHANGED <<item[e][p], mine[e][p], outbox[e][p]>>
  BY <1>1, <1>2 DEF TypeOK
<1>4. Pending(d, o)'
  <2>1. NoRow.op = "none"
    BY DEF NoRow
  <2> QED
    BY <1>1, <1>3, <2>1 DEF Pending, NoRow
<1>5. RowShown'
  <2>1. ASSUME NEW e \in Devices, NEW p \in Objects, Pending(e, p)'
        PROVE  item'[e][p] = mine'[e][p] /\ (outbox'[e][p].op = "delete" => item'[e][p] = Nothing)
    <3>1. CASE e = d /\ p = o
      BY <1>1, <1>3, <3>1
    <3>2. CASE e # d \/ p # o
      <4>1. UNCHANGED <<item[e][p], mine[e][p], outbox[e][p]>>
        BY <1>3, <3>2
      <4> QED
        BY <2>1, <4>1 DEF EInv, EditInv, RowShown, Pending
    <3> QED
      BY <3>1, <3>2
  <2> QED
    BY <2>1 DEF RowShown, Nothing
<1>6. Carried'
  <2>1. ASSUME NEW c \in log, NEW p \in Objects, Pending(c.device, p)', c.object = p,
               <<p, outbox'[c.device][p].seq>> \in c.key[2]
        PROVE  c.content = mine'[c.device][p]
    <3>1. c.device \in Devices
      BY <1>2 DEF TypeOK, Change
    <3>2. CASE c.device = d /\ p = o
      <4>1. <<o, lastSeq[d] + 1>> \in c.key[2]
        BY <1>3, <2>1, <3>2
      <4>2. lastSeq[d] + 1 \in 1 .. lastSeq[d]
        BY <3>2, <4>1, KeyRow DEF EInv, IInv
      <4>3. lastSeq[d] \in Nat
        BY <1>3
      <4> QED
        BY <4>2, <4>3
    <3>3. CASE c.device # d \/ p # o
      <4>1. UNCHANGED <<mine[c.device][p], outbox[c.device][p]>>
        BY <1>3, <3>1, <3>3
      <4> QED
        <5>1. Pending(c.device, p) /\ <<p, outbox[c.device][p].seq>> \in c.key[2]
          BY <2>1, <4>1 DEF Pending
        <5>2. c.content = mine[c.device][p]
          BY <2>1, <5>1 DEF EInv, EditInv, Carried
        <5> QED
          BY <4>1, <5>2
    <3> QED
      BY <3>2, <3>3
  <2> QED
    BY <1>1, <2>1 DEF Carried
<1>7. NoEditLost'
  <2>1. ASSUME NEW e \in Devices, NEW p \in Objects, mine'[e][p] # None
        PROVE  \/ Pending(e, p)' /\ item'[e][p] = mine'[e][p]
               \/ \E c \in log : c.object = p /\ c.device = e /\ c.content = mine'[e][p]
    <3>1. CASE e = d /\ p = o
      BY <1>3, <1>4, <3>1
    <3>2. CASE e # d \/ p # o
      <4>1. UNCHANGED <<item[e][p], mine[e][p], outbox[e][p]>>
        BY <1>3, <3>2
      <4>2. \/ Pending(e, p) /\ item[e][p] = mine[e][p]
            \/ \E c \in log : c.object = p /\ c.device = e /\ c.content = mine[e][p]
        BY <2>1, <4>1 DEF EInv, NoEditLost
      <4> QED
        BY <4>1, <4>2 DEF Pending
    <3> QED
      BY <3>1, <3>2
  <2> QED
    <3>1. log' = log
      BY <1>1
    <3> QED
      BY <2>1, <3>1 DEF NoEditLost
<1>8. TakeFree'
  <2>1. ASSUME NEW e \in Devices, e # d
        PROVE  (pc[e] = "apply" /\ verdict[e] = "take" => ~Pending(e, AtHand(e).object))'
    <3>1. \A p \in Objects : Pending(e, p)' => Pending(e, p)
      BY <1>3, <2>1 DEF Pending
    <3> QED
      BY <1>1, <3>1, TakeStays DEF EInv, EditInv, IInv
  <2>2. pc'[d] # "apply"
    BY <1>1
  <2> QED
    BY <2>1, <2>2 DEF TakeFree
<1> QED
  BY <1>5, <1>6, <1>7, <1>8 DEF EditInv

(* A choice alone, and keeping the local version, touch no edit.           *)
LEMMA ChoiceKeepsEdits ==
  ASSUME EInv, IInv', UNCHANGED <<log, item, outbox, mine, sync>>
  PROVE  EditInv' /\ NoEditLost'
<1>1. RowShown' /\ Carried' /\ NoEditLost'
  BY EditsStay
<1>2. ASSUME NEW e \in Devices
      PROVE  (pc[e] = "apply" /\ verdict[e] = "take" => ~Pending(e, AtHand(e).object))'
  <2>1. \A p \in Objects : Pending(e, p)' => Pending(e, p)
    BY DEF Pending
  <2>2. UNCHANGED <<pc[e], page[e], verdict[e]>>
    BY DEF sync
  <2> QED
    BY <2>1, <2>2, TakeStays DEF EInv, EditInv, IInv
<1> QED
  BY <1>1, <1>2 DEF EditInv, TakeFree

LEMMA ResolveRemoteKeepsEdits ==
  ASSUME EInv, IInv', NEW d \in Devices, ResolveRemote(d)
  PROVE  EditInv' /\ NoEditLost'
<1> PICK o : o = choosing[d].change.object
  OBVIOUS
<1>1. /\ \E content : item' = [item EXCEPT ![d][o] = content]
      /\ outbox' = [outbox EXCEPT ![d][o] = NoRow]
      /\ mine' = [mine EXCEPT ![d][o] = None]
      /\ UNCHANGED <<log, pc, page, verdict>>
  BY DEF ResolveRemote, DiscardedRow, sync
<1>2. TypeOK
  BY DEF EInv, IInv
<1>3. \A e \in Devices, p \in Objects :
        \/ UNCHANGED <<item[e][p], mine[e][p], outbox[e][p]>>
        \/ outbox'[e][p] = NoRow /\ mine'[e][p] = None
  BY <1>1, <1>2 DEF TypeOK
<1>4. \A e \in Devices, p \in Objects : Pending(e, p)' =>
        Pending(e, p) /\ UNCHANGED <<item[e][p], mine[e][p], outbox[e][p]>>
  BY <1>3 DEF Pending
<1>5. RowShown'
  BY <1>4 DEF EInv, EditInv, RowShown, Nothing
<1>6. Carried'
  <2>1. \A c \in log : c.device \in Devices
    BY <1>2 DEF TypeOK, Change
  <2> QED
    BY <1>1, <1>4, <2>1 DEF EInv, EditInv, Carried
<1>7. NoEditLost'
  <2>1. ASSUME NEW e \in Devices, NEW p \in Objects, mine'[e][p] # None
        PROVE  \/ Pending(e, p)' /\ item'[e][p] = mine'[e][p]
               \/ \E c \in log : c.object = p /\ c.device = e /\ c.content = mine'[e][p]
    <3>1. UNCHANGED <<item[e][p], mine[e][p], outbox[e][p]>>
      BY <1>3, <2>1
    <3> QED
      BY <2>1, <3>1 DEF EInv, NoEditLost, Pending
  <2> QED
    BY <1>1, <2>1 DEF NoEditLost
<1>8. TakeFree'
  <2>1. ASSUME NEW e \in Devices
        PROVE  (pc[e] = "apply" /\ verdict[e] = "take" => ~Pending(e, AtHand(e).object))'
    BY <1>1, <1>4, TakeStays DEF EInv, EditInv, IInv
  <2> QED
    BY <2>1 DEF TakeFree
<1> QED
  BY <1>5, <1>6, <1>7, <1>8 DEF EditInv

LEMMA ApplyKeepsEdits ==
  ASSUME EInv, IInv', NEW d \in Devices, StoreConflict(d) \/ RecognizeOwn(d) \/ Take(d)
  PROVE  EditInv' /\ NoEditLost'
<1>1. PICK what : Applying(d, what)
  BY DEF StoreConflict, RecognizeOwn, Take
<1>2. /\ pc[d] = "apply" /\ verdict[d] = what
      /\ pc' = [pc EXCEPT ![d] = "check"]
      /\ page' = [page EXCEPT ![d].next = @ + 1]
      /\ verdict' = [verdict EXCEPT ![d] = "none"]
      /\ UNCHANGED log
  BY <1>1 DEF Applying, NextChange, Goto
<1>3. UNCHANGED <<outbox, mine>>
  BY DEF StoreConflict, RecognizeOwn, Take, ghosts
<1>4. TypeOK
  BY DEF EInv, IInv
<1>5. ASSUME NEW e \in Devices, NEW p \in Objects
      PROVE  item'[e][p] = item[e][p] \/ ~Pending(e, p)
  <2>1. CASE StoreConflict(d) \/ RecognizeOwn(d)
    BY <2>1 DEF StoreConflict, RecognizeOwn
  <2>2. CASE Take(d)
    <3>1. /\ verdict[d] = "take"
          /\ item' = [item EXCEPT ![d][AtHand(d).object] = AtHand(d).content]
      BY <2>2 DEF Take, Applying
    <3>2. ~Pending(d, AtHand(d).object)
      BY <1>2, <3>1 DEF EInv, EditInv, TakeFree
    <3>3. item'[e][p] = item[e][p] \/ (e = d /\ p = AtHand(d).object)
      BY <1>4, <3>1 DEF TypeOK
    <3> QED
      BY <3>2, <3>3
  <2> QED
    BY <2>1, <2>2
<1>6. RowShown' /\ Carried' /\ NoEditLost'
  BY <1>2, <1>3, <1>5, EditsStay
<1>7. TakeFree'
  <2>1. ASSUME NEW e \in Devices, e # d
        PROVE  (pc[e] = "apply" /\ verdict[e] = "take" => ~Pending(e, AtHand(e).object))'
    <3>1. UNCHANGED <<pc[e], page[e], verdict[e]>>
      BY <1>2, <1>4, <2>1 DEF TypeOK
    <3>2. \A p \in Objects : Pending(e, p)' => Pending(e, p)
      BY <1>3 DEF Pending
    <3> QED
      BY <1>2, <3>1, <3>2, TakeStays DEF EInv, EditInv, IInv
  <2>2. pc'[d] # "apply"
    BY <1>2, <1>4 DEF TypeOK
  <2> QED
    BY <2>1, <2>2 DEF TakeFree
<1> QED
  BY <1>6, <1>7 DEF EditInv
-----------------------------------------------------------------------------
LEMMA CollectKeepsEdits ==
  ASSUME EInv, IInv', NEW d \in Devices, Collect(d)
  PROVE  EditInv' /\ NoEditLost'
<1>1. /\ pc' = [pc EXCEPT ![d] = "send"]
      /\ UNCHANGED <<log, item, outbox, mine, page, verdict>>
  BY DEF Collect, Goto, store, ghosts
<1>2. RowShown' /\ Carried' /\ NoEditLost'
  BY <1>1, EditsStay
<1>3. ASSUME NEW e \in Devices, e # d
      PROVE  (pc[e] = "apply" /\ verdict[e] = "take" => ~Pending(e, AtHand(e).object))'
  <2>1. UNCHANGED <<pc[e], page[e], verdict[e]>> /\ \A p \in Objects : Pending(e, p)' => Pending(e, p)
    BY <1>1, <1>3 DEF EInv, IInv, TypeOK, Pending
  <2> QED
    BY <1>1, <2>1, TakeStays DEF EInv, EditInv, IInv
<1>4. pc'[d] # "apply"
  BY <1>1 DEF EInv, IInv, TypeOK
<1>5. TakeFree'
  BY <1>3, <1>4 DEF TakeFree
<1> QED
  BY <1>2, <1>5 DEF EditInv

(* A push carries the edit of the row it is made of, if the row is still   *)
(* there.                                                                  *)
LEMMA SendKeepsEdits ==
  ASSUME EInv, IInv', NEW d \in Devices, SendAccepted(d)
  PROVE  EditInv' /\ NoEditLost'
<1>1. /\ pc[d] = "send" /\ pc' = [pc EXCEPT ![d] = "await"]
      /\ log' = log \cup {Accepted(d, o) : o \in InBatch(d)}
      /\ UNCHANGED <<item, outbox, mine, page, verdict>>
  BY DEF SendAccepted, Goto, store, ghosts
<1>2. TypeOK
  BY DEF EInv, IInv
<1>3. RowShown'
  BY <1>1 DEF EInv, EditInv, RowShown, Pending, Nothing
<1>4. Carried'
  <2>1. ASSUME NEW c \in log, NEW o \in Objects, Pending(c.device, o), c.object = o,
               <<o, outbox[c.device][o].seq>> \in c.key[2]
        PROVE  c.content = mine[c.device][o]
    BY <2>1 DEF EInv, EditInv, Carried
  <2>2. ASSUME NEW p \in InBatch(d), NEW o \in Objects,
               Pending(d, o), Accepted(d, p).object = o,
               <<o, outbox[d][o].seq>> \in Accepted(d, p).key[2]
        PROVE  Accepted(d, p).content = mine[d][o]
    <3>1. /\ p = o /\ Accepted(d, p).key = Key(d)
          /\ Accepted(d, p).content = (IF batch[d][o].op = "delete" THEN Nothing ELSE item[d][o])
      BY <1>1, <2>2, AcceptedFacts DEF EInv
    <3>2. outbox[d][o].seq = batch[d][o].seq
      <4>1. <<o, outbox[d][o].seq>> \in {<<q, batch[d][q].seq>> : q \in InBatch(d)}
        BY <2>2, <3>1 DEF Key
      <4> QED
        BY <4>1
    <3>3. batch[d][o].op = outbox[d][o].op
      BY <2>2, <3>1, <3>2 DEF EInv, IInv, BatchInv
    <3>4. item[d][o] = mine[d][o] /\ (outbox[d][o].op = "delete" => item[d][o] = Nothing)
      BY <2>2 DEF EInv, EditInv, RowShown
    <3> QED
      BY <3>1, <3>3, <3>4
  <2>3. \A p \in InBatch(d) : Accepted(d, p).device = d
    BY <1>1, AcceptedFacts DEF EInv
  <2>4. ASSUME NEW c \in log', NEW o \in Objects, Pending(c.device, o), c.object = o,
               <<o, outbox[c.device][o].seq>> \in c.key[2]
        PROVE  c.content = mine[c.device][o]
    <3>1. CASE c \in log
      BY <2>1, <2>4, <3>1
    <3>2. ASSUME NEW p \in InBatch(d), c = Accepted(d, p)
          PROVE  c.content = mine[c.device][o]
      BY <2>2, <2>3, <2>4, <3>2
    <3> QED
      BY <1>1, <3>1, <3>2
  <2> QED
    BY <1>1, <2>4 DEF Carried, Pending
<1>5. NoEditLost'
  BY <1>1 DEF EInv, NoEditLost, Pending
<1>6. TakeFree'
  <2>1. ASSUME NEW e \in Devices, e # d
        PROVE  (pc[e] = "apply" /\ verdict[e] = "take" => ~Pending(e, AtHand(e).object))'
    <3>1. UNCHANGED <<pc[e], page[e], verdict[e]>> /\ \A p \in Objects : Pending(e, p)' => Pending(e, p)
      BY <1>1, <1>2, <2>1 DEF TypeOK, Pending
    <3>2. log \subseteq log'
      BY <1>1
    <3> QED
      BY <3>1, <3>2, TakeStays DEF EInv, EditInv, IInv
  <2>2. pc'[d] # "apply"
    BY <1>1, <1>2 DEF TypeOK
  <2> QED
    BY <2>1, <2>2 DEF TakeFree
<1> QED
  BY <1>3, <1>4, <1>5, <1>6 DEF EditInv

(* The answer to a push carries the edit of each row it clears.            *)
LEMMA AnswerCarries ==
  ASSUME EInv, NEW d \in Devices, pc[d] = "await", NEW o \in InBatch(d),
         Pending(d, o), outbox[d][o].seq <= batch[d][o].seq
  PROVE  /\ Confirmed(d, o) \in log /\ Confirmed(d, o).object = o
         /\ Confirmed(d, o).device = d /\ Confirmed(d, o).content = mine[d][o]
<1>1. TypeOK
  BY DEF EInv, IInv
<1>2. /\ Confirmed(d, o) \in log /\ Confirmed(d, o).object = o
      /\ Confirmed(d, o).key = Key(d) /\ Confirmed(d, o).device = d
  <2>1. Answered(d)
    BY DEF EInv, IInv, PageInv, PageFits
  <2> QED
    BY <2>1, ConfirmedFacts DEF EInv, IInv
<1>3. o \in Objects /\ batch[d][o].seq \in Nat
  BY <1>1, BatchTyped DEF Sent
<1>4. outbox[d][o].seq = batch[d][o].seq
  <2>1. batch[d][o].seq <= outbox[d][o].seq
    BY DEF EInv, IInv, BatchInv
  <2>2. outbox[d][o].seq \in Nat
    BY <1>1, <1>3 DEF TypeOK, Row
  <2> QED
    BY <1>3, <2>1, <2>2
<1>5. <<o, outbox[d][o].seq>> \in Key(d)[2]
  BY <1>4 DEF Key
<1>6. Confirmed(d, o).content = mine[d][o]
  <2> PICK c \in log : c = Confirmed(d, o)
    BY <1>2
  <2>1. c.content = mine[c.device][o]
    BY <1>2, <1>3, <1>5 DEF EInv, EditInv, Carried
  <2> QED
    BY <1>2, <2>1
<1> QED
  BY <1>2, <1>6

(* A row is removed when the server has the edit of it.                    *)
LEMMA CompleteKeepsEdits ==
  ASSUME EInv, IInv', NEW d \in Devices, Complete(d)
  PROVE  EditInv' /\ NoEditLost'
<1>1. /\ pc[d] = "await" /\ pc' = [pc EXCEPT ![d] = "collect"]
      /\ outbox' = [outbox EXCEPT ![d] = [o \in Objects |-> RowLeft(d, o)]]
      /\ UNCHANGED <<log, item, mine, page, verdict>>
  BY DEF Complete, Goto, ghosts
<1>2. TypeOK
  BY DEF EInv, IInv
<1>3. \A e \in Devices, o \in Objects :
        \/ outbox'[e][o] = outbox[e][o]
        \/ /\ e = d /\ o \in InBatch(d) /\ outbox'[e][o] = NoRow
           /\ outbox[d][o].seq <= batch[d][o].seq
  BY <1>1, <1>2 DEF TypeOK, RowLeft
<1>4. \A e \in Devices, o \in Objects :
        Pending(e, o)' => Pending(e, o) /\ outbox'[e][o] = outbox[e][o]
  BY <1>3 DEF Pending
<1>5. RowShown'
  BY <1>1, <1>4 DEF EInv, EditInv, RowShown, Nothing
<1>6. Carried'
  <2>1. \A c \in log : c.device \in Devices
    BY <1>2 DEF TypeOK, Change
  <2> QED
    BY <1>1, <1>4, <2>1 DEF EInv, EditInv, Carried
<1>7. ASSUME NEW o \in InBatch(d), Pending(d, o), outbox[d][o].seq <= batch[d][o].seq
      PROVE  \E c \in log : c.object = o /\ c.device = d /\ c.content = mine[d][o]
  BY <1>1, <1>7, AnswerCarries
<1>8. NoEditLost'
  <2>1. ASSUME NEW e \in Devices, NEW o \in Objects, mine[e][o] # None
        PROVE  \/ Pending(e, o)' /\ item[e][o] = mine[e][o]
               \/ \E c \in log : c.object = o /\ c.device = e /\ c.content = mine[e][o]
    <3>1. \/ Pending(e, o) /\ item[e][o] = mine[e][o]
          \/ \E c \in log : c.object = o /\ c.device = e /\ c.content = mine[e][o]
      BY <2>1 DEF EInv, NoEditLost
    <3>2. Pending(e, o) =>
            Pending(e, o)' \/ (e = d /\ o \in InBatch(d) /\ outbox[d][o].seq <= batch[d][o].seq)
      BY <1>3 DEF Pending
    <3> QED
      BY <1>7, <3>1, <3>2
  <2> QED
    BY <1>1, <2>1 DEF NoEditLost
<1>9. TakeFree'
  <2>1. ASSUME NEW e \in Devices, e # d
        PROVE  (pc[e] = "apply" /\ verdict[e] = "take" => ~Pending(e, AtHand(e).object))'
    <3>1. UNCHANGED <<pc[e], page[e], verdict[e]>>
      BY <1>1, <1>2, <2>1 DEF TypeOK
    <3> QED
      BY <1>1, <1>4, <3>1, TakeStays DEF EInv, EditInv, IInv
  <2>2. pc'[d] # "apply"
    BY <1>1, <1>2 DEF TypeOK
  <2> QED
    BY <2>1, <2>2 DEF TakeFree
<1> QED
  BY <1>5, <1>6, <1>8, <1>9 DEF EditInv
-----------------------------------------------------------------------------
LEMMA NextKeepsEdits ==
  ASSUME NoEditDuringApply, EInv, IInv', Next
  PROVE  EditInv' /\ NoEditLost'
<1>1. ASSUME NEW d \in Devices, Moves(d)
      PROVE  EditInv' /\ NoEditLost'
  BY <1>1, MovesKeepEdits
<1>2. ASSUME NEW d \in Devices, NEW o, NEW content, NEW op, Edited(d, o, content, op)
      PROVE  EditInv' /\ NoEditLost'
  BY <1>2, EditKeepsEdits
<1>3. ASSUME NEW d \in Devices,
             ResolveLocal(d) \/ \E o \in Objects, keep \in {"local", "remote"} : Choose(d, o, keep)
      PROVE  EditInv' /\ NoEditLost'
  <2>1. UNCHANGED <<log, item, outbox, mine, sync>>
    BY <1>3 DEF ResolveLocal, Choose, store, ghosts
  <2> QED
    BY <2>1, ChoiceKeepsEdits
<1>4. ASSUME NEW d \in Devices, ResolveRemote(d)
      PROVE  EditInv' /\ NoEditLost'
  BY <1>4, ResolveRemoteKeepsEdits
<1>5. ASSUME NEW d \in Devices, StoreConflict(d) \/ RecognizeOwn(d) \/ Take(d)
      PROVE  EditInv' /\ NoEditLost'
  BY <1>5, ApplyKeepsEdits
<1>6. ASSUME NEW d \in Devices, Collect(d) \/ SendAccepted(d) \/ Complete(d)
      PROVE  EditInv' /\ NoEditLost'
  BY <1>6, CollectKeepsEdits, SendKeepsEdits, CompleteKeepsEdits
<1> QED
  BY <1>1, <1>2, <1>3, <1>4, <1>5, <1>6, Steps DEF EInv, IInv

LEMMA InitEInv ==
  ASSUME Init
  PROVE  EInv
<1>1. IInv
  BY InitIInv
<1>2. /\ log = {}
      /\ \A d \in Devices : pc[d] = "idle" /\
           \A o \in Objects : ~Pending(d, o) /\ mine[d][o] = None
  BY DEF Init, Pending, Each, EachObject
<1> QED
  BY <1>1, <1>2 DEF EInv, EditInv, RowShown, TakeFree, Carried, NoEditLost

LEMMA EInductive ==
  ASSUME NoEditDuringApply, EInv, [Next]_vars
  PROVE  EInv'
<1>1. IInv'
  BY Inductive DEF EInv
<1>2. CASE Next
  BY <1>1, <1>2, NextKeepsEdits DEF EInv
<1>3. CASE UNCHANGED vars
  <2>1. UNCHANGED <<log, item, outbox, mine, sync>>
    BY <1>3 DEF vars, store, ghosts
  <2> QED
    BY <1>1, <2>1, ChoiceKeepsEdits DEF EInv
<1> QED
  BY <1>2, <1>3

(* When nobody edits while a change is being applied, no edit is lost,     *)
(* whatever answers are lost, wherever sync_now is cut off and however     *)
(* conflicts are resolved: it is on the device with a row that pushes it,  *)
(* or in the log, until the user gives it up.                              *)
THEOREM EditsKept ==
  ASSUME NoEditDuringApply
  PROVE  Spec => []NoEditLost
<1>1. Init => EInv
  BY InitEInv
<1>2. EInv /\ [Next]_vars => EInv'
  BY EInductive
<1>3. EInv => NoEditLost
  BY DEF EInv
<1> QED
  BY <1>1, <1>2, <1>3, PTL DEF Spec
=============================================================================
