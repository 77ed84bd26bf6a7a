------------------------- MODULE AttachmentSyncProofs -------------------------
(***************************************************************************)
(* Theorems of AttachmentSync, for any devices, attachments, parts, edits  *)
(* and failures: its types, that what is queued for upload is held, that   *)
(* what the server's record refers to can be had, that no copy is removed  *)
(* before the server has confirmed the deletion of the record, and that the*)
(* devices' uploads are those of UploadContract.                           *)
(***************************************************************************)
EXTENDS AttachmentSync, FiniteSetTheorems, TLAPS

(* No version comes of nothing: each takes an edit.                        *)
Dirty == {d \in Devices : dirty[d] # "none" /\ unanswered[d] = 0}
Busy == {d \in Devices : command[d].next # "none"}
CountInv ==
  /\ IsFiniteSet(Dirty) /\ IsFiniteSet(Busy)
  /\ server.version + Cardinality(Dirty) + Cardinality(Busy) <= edits + 1

(* A device is never ahead of the server, and behind what it has a conflict*)
(* with, a change of another device. While its last change waits for an    *)
(* answer it has what the server has.                                      *)
VersionInv ==
  \A d \in Devices :
    /\ version[d] <= server.version /\ unanswered[d] <= server.version
    /\ unanswered[d] # 0 => dirty[d] # "none"
    /\ unanswered[d] = server.version => server.device = d /\ server.content = item[d]
    /\ dirty[d] = "upsert" => item[d] # None
    /\ dirty[d] = "delete" => item[d] = None
    /\ conflict[d] # None =>
         /\ dirty[d] # "none" /\ server.device # d
         /\ version[d] < conflict[d].version /\ conflict[d].version <= server.version
         /\ conflict[d].version = server.version => conflict[d] = server

(* The record is live, as long as nothing is set against a deletion, on the*)
(* server; the deletions that are queued then wait for a tombstone.        *)
(* A deleted record stays deleted: no device that knows of the tombstone,  *)
(* or has made it, has a record to push.                                   *)
Live == excuses = {} /\ server.content # None
LiveInv ==
  /\ Live => \A d \in Devices :
       /\ conflict[d] # None => conflict[d].content # None
       /\ deletions[d] # {} => dirty[d] = "delete"
       /\ unanswered[d] # 0 => dirty[d] # "delete"
  /\ excuses = {} /\ server.content = None =>
       \A d \in Devices :
         version[d] = server.version \/ server.device = d => item[d] = None

(* What records, old, new and in conflict, refer to can be had.            *)
In(content) == IF content = None THEN {} ELSE content
Opposed(d) == IF conflict[d] = None THEN {} ELSE In(conflict[d].content)
References(d) ==
  In(item[d]) \union In(shown[d]) \union Opposed(d) \union In(command[d].copy)
Referenced == In(server.content) \union UNION {References(d) : d \in Devices}
Complete(x) == remote[x] # None /\ remote[x].status = "complete"
Safe(x) ==
  \/ Complete(x)
  \/ \E d \in Devices : x \in uploads[d]
  \/ \E d \in Devices : x \in deletions[d] /\ dirty[d] = "delete"
Queued(d) == command[d].next \in {"describe", "attach"}
Needed == Referenced \union {command[d].attachment : d \in {e \in Devices : Queued(e)}}
RefInv == Live => \A x \in Needed : Safe(x)

(* An attachment that is being imported is of its device, and nothing      *)
(* refers to it or deletes it yet.                                         *)
Importing(d) == command[d].next \in {"row", "queue", "describe", "attach"}
Unqueued(d) == command[d].next \in {"row", "queue"}
Traces == Referenced \union UNION {deletions[d] : d \in Devices}
Settled(x) == x \in imported /\ \A d \in Devices : Importing(d) => command[d].attachment # x
MakingInv ==
  /\ \A x \in Traces : Settled(x)
  /\ \A d \in Devices :
       /\ uploads[d] \subseteq imported
       /\ Importing(d) =>
            command[d].attachment \in imported /\ Maker[command[d].attachment] = d
       /\ Unqueued(d) => command[d].attachment \notin uploads[d]

(* Rows, files and queues of a device fit at every step.                   *)
HoldInv ==
  \A d \in Devices :
    /\ \A x \in uploads[d] : row[d][x] = "pending" /\ Maker[x] = d /\ x \notin deletions[d]
    /\ \A x \in Attachments : row[d][x] # "none" => x \in blob[d]
    /\ command[d].next = "row" => command[d].attachment \in blob[d]
    /\ command[d].next = "queue" => row[d][command[d].attachment] = "pending"

(* What sync_now has in hand is what its phase is about. A list is worked  *)
(* through from the head and is empty between two phases. What is uploaded *)
(* is the device's own, and only it adds parts; nothing is deleted while   *)
(* the record is live; nothing is deleted or downloaded that is still being*)
(* imported.                                                               *)
Uploading == {"create", "part", "complete", "mark"}
Deleting == {"request deletion", "forget", "unlink"}
Fetching == {"fetch", "import"}
InUpload(d) == pc[d] \in Uploading \union {"upload"}
InDeletion(d) == pc[d] \in Deleting \/ (pc[d] = "delete" /\ hand[d] # <<>>)
Listed(d) == Range(hand[d])
At(d) == Head(hand[d])
Placed(d) ==
  /\ pc[d] \in Uploading \union Deleting \union Fetching => hand[d] # <<>>
  /\ hand[d] # <<>> =>
       pc[d] \in Uploading \union Deleting \union Fetching \union {"upload", "delete"}
  /\ \A x \in Listed(d) :
       /\ x \in imported
       /\ InUpload(d) => Maker[x] = d
       /\ ~InUpload(d) => Settled(x)
       /\ InDeletion(d) => x \notin uploads[d]
       /\ Unqueued(d) => command[d].attachment # x
  /\ pc[d] = "part" /\ remote[At(d)] # None => remote[At(d)].parts < Parts
  /\ Live => ~InDeletion(d) /\ (pc[d] = "mark" => Complete(At(d)))
  /\ pc[d] = "unlink" => row[d][At(d)] = "none"
  /\ pc[d] = "import" => At(d) \in blob[d]
PlacedInv == \A d \in Devices : Placed(d)

IInv ==
  /\ TypeOK /\ CountInv /\ VersionInv /\ LiveInv /\ RefInv
  /\ MakingInv /\ HoldInv /\ PlacedInv
-----------------------------------------------------------------------------
(* The lists sync_now works through.                                       *)
LEMMA ListFacts ==
  ASSUME NEW q \in Lists
  PROVE  /\ q \in Seq(Attachments) /\ Range(q) \subseteq Attachments
         /\ Len(q) \in 0 .. Cardinality(Attachments)
         /\ q # <<>> => Head(q) \in Range(q)
         /\ Tail(q) \in Lists /\ Range(Tail(q)) \subseteq Range(q)
         /\ q # <<>> /\ Len(q) # 1 => Tail(q) # <<>>
         /\ q # <<>> /\ Len(q) = 1 => Tail(q) = <<>>
<1>1. Cardinality(Attachments) \in Nat
  BY AttachmentSyncAssumption, FS_CardinalityType
<1>2. PICK n \in 0 .. Cardinality(Attachments) : q \in [1 .. n -> Attachments]
  BY DEF Lists
<1>3. n \in Nat /\ q \in Seq(Attachments) /\ Len(q) = n
  BY <1>1, <1>2
<1>4. Range(q) \subseteq Attachments /\ (q # <<>> => Head(q) \in Range(q))
  BY <1>2, <1>3 DEF Range
<1>5. CASE q = <<>>
  <2>1. Tail(q) = <<>>
    BY <1>5
  <2> QED
    BY <1>3, <1>4, <1>5, <2>1
<1>6. CASE q # <<>>
  <2>1. n - 1 \in 0 .. Cardinality(Attachments) /\ n > 0
    BY <1>1, <1>2, <1>3, <1>6
  <2>2. /\ Tail(q) \in Seq(Attachments) /\ Len(Tail(q)) = n - 1
        /\ \A k \in 1 .. n - 1 : Tail(q)[k] = q[k + 1]
    BY <1>3, <1>6, <2>1
  <2>3. Tail(q) \in [1 .. n - 1 -> Attachments]
    <3> DEFINE t == Tail(q)
    <3>1. t \in Seq(Attachments) /\ Len(t) = n - 1
      BY <2>2
    <3> HIDE DEF t
    <3>2. t \in [1 .. Len(t) -> Attachments]
      BY <3>1
    <3> QED
      BY <3>1, <3>2 DEF t
  <2>4. IsInjective(Tail(q))
    <3>1. \A i, j \in 1 .. n : q[i] = q[j] => i = j
      BY <1>2 DEF Lists, IsInjective
    <3>2. ASSUME NEW i \in 1 .. n - 1, NEW j \in 1 .. n - 1, q[i + 1] = q[j + 1]
          PROVE  i = j
      <4>1. i + 1 \in 1 .. n /\ j + 1 \in 1 .. n
        BY <1>3
      <4>2. i + 1 = j + 1
        BY <3>1, <3>2, <4>1
      <4> QED
        BY <4>2
    <3> QED
      BY <2>2, <2>3, <3>2 DEF IsInjective
  <2>5. Tail(q) \in Lists
    BY <2>1, <2>3, <2>4 DEF Lists
  <2>6. Range(Tail(q)) \subseteq Range(q)
    <3>1. ASSUME NEW k \in 1 .. n - 1 PROVE q[k + 1] \in Range(q)
      BY <1>2, <1>3 DEF Range
    <3> QED
      BY <2>2, <2>3, <3>1 DEF Range
  <2>7. Tail(q) = <<>> <=> n = 1
    <3> DEFINE t == Tail(q)
    <3>1. t \in Seq(Attachments) /\ Len(t) = n - 1
      BY <2>2
    <3> HIDE DEF t
    <3>2. t = <<>> <=> Len(t) = 0
      BY <3>1
    <3> QED
      BY <1>3, <3>1, <3>2 DEF t
  <2> QED
    BY <1>3, <1>4, <1>6, <2>5, <2>6, <2>7
<1> QED
  BY <1>5, <1>6

LEMMA ListOf ==
  ASSUME NEW S \in SUBSET Attachments, NEW q \in SetToSeqs(S)
  PROVE  /\ q \in Lists /\ Range(q) \subseteq S
         /\ (q = <<>>) = (S = {})
<1>1. IsFiniteSet(S) /\ Cardinality(S) \in 0 .. Cardinality(Attachments)
  BY AttachmentSyncAssumption, FS_Subset, FS_CardinalityType
<1>2. /\ q \in [1 .. Cardinality(S) -> S]
      /\ \A i, j \in 1 .. Cardinality(S) : i # j => q[i] # q[j]
  BY DEF SetToSeqs
<1>3. q \in Lists
  BY <1>1, <1>2 DEF Lists, IsInjective
<1>4. Range(q) \subseteq S
  BY <1>2 DEF Range
<1>5. (Cardinality(S) = 0) = (S = {})
  BY <1>1, FS_EmptySet
<1>6. (q = <<>>) = (Cardinality(S) = 0)
  BY <1>1, <1>2
<1> QED
  BY <1>3, <1>4, <1>5, <1>6

LEMMA NoList == <<>> \in Lists /\ Range(<<>>) = {}
<1>1. Cardinality(Attachments) \in Nat
  BY AttachmentSyncAssumption, FS_CardinalityType
<1>2. <<>> \in [1 .. 0 -> Attachments] /\ IsInjective(<<>>)
  BY DEF IsInjective
<1> QED
  BY <1>1, <1>2 DEF Lists, Range

(* Counting the devices with an edit that has not come to its end.         *)
LEMMA Counted ==
  ASSUME NEW S, IsFiniteSet(S), NEW d, NEW T
  PROVE  /\ Cardinality(S) \in Nat
         /\ T \subseteq S \union {d} =>
              IsFiniteSet(T) /\ Cardinality(T) \in Nat /\ Cardinality(T) <= Cardinality(S) + 1
         /\ T \subseteq S =>
              IsFiniteSet(T) /\ Cardinality(T) \in Nat /\ Cardinality(T) <= Cardinality(S)
         /\ d \in S /\ T \subseteq S \ {d} =>
              IsFiniteSet(T) /\ Cardinality(T) \in Nat /\ Cardinality(T) <= Cardinality(S) - 1
<1>1. Cardinality(S) \in Nat
  BY FS_CardinalityType
<1>2. /\ IsFiniteSet(S \union {d})
      /\ Cardinality(S \union {d}) \in {Cardinality(S), Cardinality(S) + 1}
  BY FS_AddElement
<1>3. /\ IsFiniteSet(S \ {d})
      /\ d \in S => Cardinality(S \ {d}) = Cardinality(S) - 1
  BY FS_RemoveElement
<1>4. ASSUME NEW U, IsFiniteSet(U), T \subseteq U
      PROVE  IsFiniteSet(T) /\ Cardinality(T) \in Nat /\ Cardinality(T) <= Cardinality(U)
  BY <1>4, FS_Subset, FS_CardinalityType
<1>5. T \subseteq S =>
        IsFiniteSet(T) /\ Cardinality(T) \in Nat /\ Cardinality(T) <= Cardinality(S)
  BY <1>4
<1>6. T \subseteq S \union {d} =>
        IsFiniteSet(T) /\ Cardinality(T) \in Nat /\ Cardinality(T) <= Cardinality(S) + 1
  <2> HAVE T \subseteq S \union {d}
  <2>1. IsFiniteSet(T) /\ Cardinality(T) \in Nat /\ Cardinality(T) <= Cardinality(S \union {d})
    BY <1>2, <1>4
  <2> QED
    BY <1>1, <1>2, <2>1
<1>7. d \in S /\ T \subseteq S \ {d} =>
        IsFiniteSet(T) /\ Cardinality(T) \in Nat /\ Cardinality(T) <= Cardinality(S) - 1
  <2> HAVE d \in S /\ T \subseteq S \ {d}
  <2>1. IsFiniteSet(T) /\ Cardinality(T) \in Nat /\ Cardinality(T) <= Cardinality(S \ {d})
    BY <1>3, <1>4
  <2> QED
    BY <1>3, <2>1
<1> QED
  BY <1>1, <1>5, <1>6, <1>7
-----------------------------------------------------------------------------
(* Each part of the invariant speaks of some of the variables.             *)
LEMMA CountFrame ==
  ASSUME CountInv, UNCHANGED <<server, dirty, unanswered, command>>, edits' \in {edits, edits + 1},
         edits \in Nat, server.version \in Nat
  PROVE  CountInv'
<1>1. UNCHANGED <<Dirty, Busy>>
  BY DEF Dirty, Busy
<1>2. Cardinality(Dirty) \in Nat /\ Cardinality(Busy) \in Nat
  BY FS_CardinalityType DEF CountInv
<1> QED
  BY <1>1, <1>2 DEF CountInv

LEMMA VersionFrame ==
  ASSUME VersionInv, UNCHANGED <<server, record>>
  PROVE  VersionInv'
BY DEF VersionInv, record

LEMMA LiveFrame ==
  ASSUME LiveInv, UNCHANGED <<server, record, deletions, excuses>>
  PROVE  LiveInv'
BY DEF LiveInv, Live, record

(* What is needed stays safe as long as nothing more is needed but what is *)
(* safe anyhow, and nothing that is safe is lost.                          *)
LEMMA NeededAreAttachments ==
  ASSUME TypeOK, MakingInv
  PROVE  Needed \subseteq Attachments /\ Referenced \subseteq Attachments
<1>1. /\ In(server.content) \subseteq Attachments
      /\ \A d \in Devices :
           In(item[d]) \subseteq Attachments /\ In(shown[d]) \subseteq Attachments
  BY DEF TypeOK, Version, Content, In
<1>2. ASSUME NEW d \in Devices PROVE Opposed(d) \subseteq Attachments
  <2>1. conflict[d] # None => conflict[d].content \in Content
    BY DEF TypeOK, Version
  <2> QED
    BY <2>1 DEF Opposed, In, Content
<1>3. ASSUME NEW d \in Devices
      PROVE  /\ In(command[d].copy) \subseteq Attachments
             /\ Queued(d) => command[d].attachment \in Attachments
  <2>1. command[d].copy \in Content
    BY DEF TypeOK, CommandState, AtRest, Content
  <2>2. Queued(d) => Importing(d) /\ imported \subseteq Attachments
    BY DEF Queued, Importing, TypeOK
  <2> QED
    BY <2>1, <2>2 DEF In, Content, MakingInv
<1>4. Referenced \subseteq Attachments
  BY <1>1, <1>2, <1>3 DEF Referenced, References
<1> QED
  BY <1>3, <1>4 DEF Needed

LEMMA RefStep ==
  ASSUME TypeOK, MakingInv, RefInv, Live' => Live,
         \A x \in Needed' : Live' => x \in Needed \/ Safe(x)',
         \A x \in Attachments : Live' /\ Safe(x) => Safe(x)'
  PROVE  RefInv'
BY NeededAreAttachments DEF RefInv

LEMMA SafeFrame ==
  ASSUME UNCHANGED <<remote, uploads, deletions, dirty>>
  PROVE  \A x : Safe(x) = Safe(x)'
BY DEF Safe, Complete

LEMMA NeededFrame ==
  ASSUME UNCHANGED <<server, item, shown, conflict, command>>
  PROVE  Needed' = Needed /\ Referenced' = Referenced
BY DEF Needed, Referenced, References, Opposed, Queued, In

LEMMA SettledStays ==
  ASSUME imported \subseteq imported',
         \A d \in Devices : Importing(d)' =>
           \/ command'[d].attachment \notin imported
           \/ Importing(d) /\ command'[d].attachment = command[d].attachment
  PROVE  \A x : Settled(x) => Settled(x)'
BY DEF Settled

(* The same for the traces of attachments.                                 *)
LEMMA MakingStep ==
  ASSUME MakingInv,
         \A x : Settled(x) => Settled(x)',
         \A x \in Traces' : x \in Traces \/ Settled(x)',
         \A d \in Devices : uploads'[d] \subseteq uploads[d] \union imported',
         imported \subseteq imported',
         \A d \in Devices : Importing(d)' =>
           \/ command'[d].attachment \in imported' /\ Maker[command'[d].attachment] = d
           \/ Importing(d) /\ command'[d].attachment = command[d].attachment,
         \A d \in Devices : Unqueued(d)' =>
           \/ command'[d].attachment \notin uploads'[d]
           \/ /\ Unqueued(d) /\ command'[d].attachment = command[d].attachment
              /\ uploads'[d] \subseteq uploads[d]
  PROVE  MakingInv'
<1>1. \A x \in Traces' : Settled(x)'
  BY DEF MakingInv
<1>2. ASSUME NEW d \in Devices
      PROVE  /\ uploads'[d] \subseteq imported'
             /\ Importing(d)' =>
                  /\ command'[d].attachment \in imported'
                  /\ Maker[command'[d].attachment] = d
             /\ Unqueued(d)' => command'[d].attachment \notin uploads'[d]
  BY DEF MakingInv
<1> QED
  BY <1>1, <1>2 DEF MakingInv

LEMMA MakingFrame ==
  ASSUME MakingInv, UNCHANGED <<imported, command, server, item, shown, conflict>>,
         \A d \in Devices : uploads'[d] \subseteq uploads[d] /\ deletions'[d] \subseteq deletions[d]
  PROVE  MakingInv' /\ \A x : Settled(x) => Settled(x)'
<1>1. Traces' \subseteq Traces
  BY NeededFrame DEF Traces
<1>2. \A x : Settled(x) => Settled(x)'
  BY DEF Settled, Importing
<1> QED
  BY <1>1, <1>2, MakingStep DEF Importing, Unqueued

LEMMA HoldFrame ==
  ASSUME HoldInv, UNCHANGED <<uploads, row, blob, deletions, command>>
  PROVE  HoldInv'
BY DEF HoldInv

(* A device that sync_now does not move stays where it is placed, unless   *)
(* what it has in hand is changed.                                         *)
LEMMA PlacedStays ==
  ASSUME NEW d \in Devices, Placed(d), pc'[d] = pc[d], hand'[d] = hand[d],
         Live' => Live,
         imported \subseteq imported',
         \A x : Settled(x) => Settled(x)',
         \A x \in Listed(d) : InDeletion(d) => x \in uploads[d] \/ x \notin uploads'[d],
         Unqueued(d)' =>
           \/ Unqueued(d) /\ command'[d].attachment = command[d].attachment
           \/ command'[d].attachment \notin Listed(d),
         pc[d] = "part" => remote'[At(d)] \in {None, remote[At(d)]},
         pc[d] = "mark" /\ Live' /\ Complete(At(d)) => remote'[At(d)] = remote[At(d)],
         pc[d] = "unlink" => row'[d][At(d)] = row[d][At(d)],
         pc[d] = "import" /\ At(d) \in blob[d] => At(d) \in blob'[d]
  PROVE  Placed(d)'
<1>1. /\ InUpload(d)' = InUpload(d) /\ InDeletion(d)' = InDeletion(d)
      /\ Listed(d)' = Listed(d) /\ At(d)' = At(d)
  BY DEF InUpload, InDeletion, Listed, At
<1>2. \A x \in Listed(d)' :
       /\ x \in imported'
       /\ InUpload(d)' => Maker[x] = d
       /\ ~InUpload(d)' => Settled(x)'
       /\ InDeletion(d)' => x \notin uploads'[d]
       /\ Unqueued(d)' => command'[d].attachment # x
  BY <1>1 DEF Placed
<1>3. /\ pc'[d] = "part" /\ remote'[At(d)'] # None => remote'[At(d)'].parts < Parts
      /\ Live' => ~InDeletion(d)' /\ (pc'[d] = "mark" => Complete(At(d))')
  BY <1>1 DEF Placed, Complete
<1>4. /\ pc'[d] = "unlink" => row'[d][At(d)'] = "none"
      /\ pc'[d] = "import" => At(d)' \in blob'[d]
  BY <1>1 DEF Placed
<1> QED
  BY <1>1, <1>2, <1>3, <1>4 DEF Placed
-----------------------------------------------------------------------------
(* sync_now of one device goes on.                                         *)
Moves(d) ==
  /\ pc' \in [Devices -> Phase] /\ hand' \in [Devices -> Lists]
  /\ \A e \in Devices : e # d => pc'[e] = pc[e] /\ hand'[e] = hand[e]

LEMMA MovesTo ==
  ASSUME TypeOK, NEW d \in Devices, NEW q \in Lists, NEW p \in Phase,
         pc' = [pc EXCEPT ![d] = p], hand' = [hand EXCEPT ![d] = q]
  PROVE  Moves(d) /\ pc'[d] = p /\ hand'[d] = q
BY DEF Moves, TypeOK

LEMMA GotoMoves ==
  ASSUME TypeOK, NEW d \in Devices, NEW next \in Phase, Goto(d, next)
  PROVE  Moves(d) /\ pc'[d] = next /\ hand'[d] = hand[d]
BY DEF Goto, Moves, TypeOK

LEMMA StopMoves ==
  ASSUME TypeOK, NEW d \in Devices, Stop(d)
  PROVE  Moves(d) /\ pc'[d] = "idle" /\ hand'[d] = <<>>
<1>1. "idle" \in Phase
  BY DEF Phase
<1> QED
  BY <1>1, MovesTo, NoList DEF Stop

LEMMA FinishMoves ==
  ASSUME TypeOK, NEW d \in Devices, NEW next \in Phase, Finish(d, next)
  PROVE  Moves(d) /\ pc'[d] = next /\ hand'[d] = Tail(hand[d])
<1>1. hand[d] \in Lists /\ hand' = [hand EXCEPT ![d] = Tail(hand[d])]
  BY DEF TypeOK, Finish
<1>2. Tail(hand[d]) \in Lists
  BY <1>1, ListFacts
<1> QED
  BY <1>1, <1>2, MovesTo DEF Finish

LEMMA ListMoves ==
  ASSUME TypeOK, NEW d \in Devices, NEW next \in Phase, NEW empty \in Phase,
         NEW S \in SUBSET Attachments, List(d, S, next, empty)
  PROVE  /\ Moves(d) /\ Range(hand'[d]) \subseteq S
         /\ S # {} => pc'[d] = next /\ hand'[d] # <<>>
         /\ S = {} => pc'[d] = empty /\ hand'[d] = <<>>
<1>1. PICK q \in SetToSeqs(S) :
        /\ hand' = [hand EXCEPT ![d] = q]
        /\ pc' = [pc EXCEPT ![d] = IF S = {} THEN empty ELSE next]
  BY DEF List
<1>2. q \in Lists /\ Range(q) \subseteq S /\ (q = <<>>) = (S = {})
  BY ListOf
<1>3. CASE S = {}
  BY <1>1, <1>2, <1>3, MovesTo
<1>4. CASE S # {}
  BY <1>1, <1>2, <1>4, MovesTo
<1> QED
  BY <1>3, <1>4

(* A step of sync_now that leaves the record and the command alone, loses  *)
(* nothing that is safe, and disturbs no other device keeps the invariant. *)
LEMMA SyncStep ==
  ASSUME IInv, NEW d \in Devices, Moves(d),
         UNCHANGED <<server, record, command, bounds, imported, excuses>>,
         refused' \in SUBSET Attachments,
         remote' \in [Attachments -> Upload \union {None}],
         row' \in [Devices -> [Attachments -> {"none", "pending", "synced"}]],
         \A held \in {described', blob', uploads', deletions'} :
           held \in [Devices -> SUBSET Attachments],
         \A e \in Devices : uploads'[e] \subseteq uploads[e] /\ deletions'[e] \subseteq deletions[e],
         \A x \in Attachments : Live /\ Safe(x) => Safe(x)',
         HoldInv', Placed(d)',
         \A e \in Devices : e # d =>
           /\ pc[e] = "part" => remote'[At(e)] \in {None, remote[At(e)]}
           /\ pc[e] = "mark" /\ Live => remote'[At(e)] = remote[At(e)]
           /\ row'[e] = row[e] /\ blob'[e] = blob[e]
  PROVE  IInv'
<1> USE DEF IInv, record, bounds, history
<1>1. TypeOK'
  BY DEF TypeOK, Moves
<1>2. CountInv'
  <2>1. edits \in Nat /\ server.version \in Nat
    BY AttachmentSyncAssumption DEF TypeOK, Version
  <2> QED
    BY <2>1, CountFrame
<1>3. VersionInv'
  BY VersionFrame
<1>4. Live' = Live
  BY DEF Live
<1>5. LiveInv'
  BY <1>4 DEF LiveInv, Live
<1>6. RefInv'
  <2>1. Needed' = Needed
    BY NeededFrame
  <2> QED
    BY <1>4, <2>1, RefStep
<1>7. MakingInv' /\ \A x : Settled(x) => Settled(x)'
  BY MakingFrame
<1>8. ASSUME NEW e \in Devices, e # d PROVE Placed(e)'
  <2>1. Placed(e) /\ pc'[e] = pc[e] /\ hand'[e] = hand[e]
    BY <1>8 DEF PlacedInv, Moves
  <2>2. uploads'[e] \subseteq uploads[e]
    OBVIOUS
  <2>3. Unqueued(e)' = Unqueued(e)
    BY DEF Unqueued
  <2> QED
    BY <1>4, <1>7, <1>8, <2>1, <2>2, <2>3, PlacedStays
<1>9. PlacedInv'
  BY <1>8 DEF PlacedInv
<1> QED
  BY <1>1, <1>2, <1>3, <1>5, <1>6, <1>7, <1>9

LEMMA SyncKeeps ==
  ASSUME IInv, NEW d \in Devices, Moves(d),
         UNCHANGED <<server, record, command, bounds, history>>,
         remote' \in [Attachments -> Upload \union {None}],
         row' \in [Devices -> [Attachments -> {"none", "pending", "synced"}]],
         \A held \in {described', blob', uploads', deletions'} :
           held \in [Devices -> SUBSET Attachments],
         \A e \in Devices : uploads'[e] \subseteq uploads[e] /\ deletions'[e] \subseteq deletions[e],
         \A x \in Attachments : Live /\ Safe(x) => Safe(x)',
         HoldInv', Placed(d)',
         \A e \in Devices : e # d =>
           /\ pc[e] = "part" => remote'[At(e)] \in {None, remote[At(e)]}
           /\ pc[e] = "mark" /\ Live => remote'[At(e)] = remote[At(e)]
           /\ row'[e] = row[e] /\ blob'[e] = blob[e]
  PROVE  IInv'
<1>1. refused' \in SUBSET Attachments /\ UNCHANGED <<imported, excuses>>
  BY DEF history, IInv, TypeOK
<1> HIDE DEF Moves
<1> QED
  BY <1>1, SyncStep

LEMMA Phases ==
  /\ {"idle", "pull", "push", "pull again", "push again", "pull last", "download"}
       \subseteq Phase \ (Uploading \union Deleting \union Fetching)
  /\ {"upload", "delete"} \subseteq Phase \ (Uploading \union Deleting \union Fetching)
  /\ Uploading \union Deleting \union Fetching \subseteq Phase
BY DEF Phase, Uploading, Deleting, Fetching

LEMMA AtHand ==
  ASSUME TypeOK, NEW d \in Devices, hand[d] # <<>>
  PROVE  At(d) \in Listed(d) /\ At(d) \in Attachments /\ Listed(d) \subseteq Attachments
<1>1. hand[d] \in Lists
  BY DEF TypeOK
<1> QED
  BY <1>1, ListFacts DEF At, Listed

(* Steps that touch the server's attachments and no more.                  *)
LEMMA RemoteStep ==
  ASSUME IInv, NEW d \in Devices, Moves(d),
         UNCHANGED <<server, record, store, command, bounds, imported, excuses>>,
         refused' \in SUBSET Attachments,
         remote' \in [Attachments -> Upload \union {None}],
         \A x \in Attachments : Live /\ Complete(x) => Complete(x)',
         Placed(d)',
         \A e \in Devices : e # d =>
           /\ pc[e] = "part" => remote'[At(e)] \in {None, remote[At(e)]}
           /\ pc[e] = "mark" /\ Live => remote'[At(e)] = remote[At(e)]
  PROVE  IInv'
<1>1. /\ row' = row /\ described' = described /\ blob' = blob
      /\ uploads' = uploads /\ deletions' = deletions /\ dirty' = dirty
  BY DEF store, record
<1>2. HoldInv'
  BY <1>1, HoldFrame DEF IInv
<1>3. \A x \in Attachments : Live /\ Safe(x) => Safe(x)'
  BY <1>1 DEF Safe
<1>4. /\ row' \in [Devices -> [Attachments -> {"none", "pending", "synced"}]]
      /\ \A held \in {described', blob', uploads', deletions'} :
           held \in [Devices -> SUBSET Attachments]
  BY <1>1 DEF IInv, TypeOK
<1>5. \A e \in Devices :
        /\ uploads'[e] \subseteq uploads[e] /\ deletions'[e] \subseteq deletions[e]
        /\ row'[e] = row[e] /\ blob'[e] = blob[e]
  BY <1>1
<1> HIDE DEF Moves
<1> QED
  BY <1>2, <1>3, <1>4, <1>5, SyncStep

LEMMA RemoteKeeps ==
  ASSUME IInv, NEW d \in Devices, Moves(d),
         UNCHANGED <<server, record, store, command, bounds, history>>,
         remote' \in [Attachments -> Upload \union {None}],
         \A x \in Attachments : Live /\ Complete(x) => Complete(x)',
         Placed(d)',
         \A e \in Devices : e # d =>
           /\ pc[e] = "part" => remote'[At(e)] \in {None, remote[At(e)]}
           /\ pc[e] = "mark" /\ Live => remote'[At(e)] = remote[At(e)]
  PROVE  IInv'
<1>1. refused' \in SUBSET Attachments /\ UNCHANGED <<imported, excuses>>
  BY DEF history, IInv, TypeOK
<1> HIDE DEF Moves
<1> QED
  BY <1>1, RemoteStep

LEMMA StillStep ==
  ASSUME IInv, NEW d \in Devices, Moves(d),
         UNCHANGED <<server, remote, record, store, command, bounds, imported, excuses>>,
         refused' \in SUBSET Attachments,
         Placed(d)'
  PROVE  IInv'
<1>1. remote' \in [Attachments -> Upload \union {None}]
  BY DEF IInv, TypeOK
<1>2. \A x : Complete(x) => Complete(x)'
  BY DEF Complete
<1> QED
  BY <1>1, <1>2, RemoteStep

LEMMA RemoteStill ==
  ASSUME IInv, NEW d \in Devices, Moves(d),
         UNCHANGED <<server, remote, record, store, command, bounds, history>>,
         Placed(d)'
  PROVE  IInv'
<1>1. refused' \in SUBSET Attachments /\ UNCHANGED <<imported, excuses>>
  BY DEF history, IInv, TypeOK
<1> HIDE DEF Moves
<1> QED
  BY <1>1, StillStep

LEMMA PlacedEmpty ==
  ASSUME NEW d \in Devices, hand'[d] = <<>>,
         pc'[d] \in Phase \ (Uploading \union Deleting \union Fetching)
  PROVE  Placed(d)'
<1>1. Listed(d)' = {}
  BY NoList DEF Listed
<1>2. pc'[d] \notin {"part", "mark", "unlink", "import"} \union Deleting
  BY DEF Uploading, Deleting, Fetching
<1>3. InDeletion(d)' = FALSE
  BY <1>2 DEF InDeletion
<1> QED
  BY <1>1, <1>2, <1>3 DEF Placed

LEMMA SyncNowKeeps ==
  ASSUME IInv, NEW d \in Devices, SyncNow(d)
  PROVE  IInv'
<1>1. Moves(d) /\ pc'[d] = "upload" /\ hand'[d] = hand[d]
  BY GotoMoves, Phases DEF SyncNow, IInv
<1>2. hand[d] = <<>>
  BY DEF SyncNow, IInv, PlacedInv, Placed, Uploading, Deleting, Fetching
<1>3. Placed(d)'
  BY <1>1, <1>2, PlacedEmpty DEF Phase, Uploading, Deleting, Fetching
<1> QED
  BY <1>1, <1>3, RemoteStill DEF SyncNow

LEMMA SameTurn ==
  ASSUME NEW d \in Devices, hand[d] # <<>>, hand'[d] # <<>>,
         \/ {pc[d], pc'[d]} \subseteq Uploading \union {"upload"}
         \/ {pc[d], pc'[d]} \subseteq Deleting \union {"delete"}
         \/ {pc[d], pc'[d]} \subseteq Fetching
  PROVE  /\ InUpload(d)' <=> InUpload(d)
         /\ InDeletion(d)' <=> InDeletion(d)
         /\ pc'[d] \in Uploading \union Deleting \union Fetching \union {"upload", "delete"}
<1> DEFINE p == pc[d]
           q == pc'[d]
<1>1. CASE {p, q} \subseteq Uploading \union {"upload"}
  <2>1. p \in Uploading \union {"upload"} /\ q \in Uploading \union {"upload"}
    BY <1>1
  <2> QED
    BY <2>1 DEF InUpload, InDeletion, Uploading, Deleting
<1>2. CASE {p, q} \subseteq Deleting \union {"delete"}
  <2>1. p \in Deleting \union {"delete"} /\ q \in Deleting \union {"delete"}
    BY <1>2
  <2> QED
    BY <2>1 DEF InUpload, InDeletion, Uploading, Deleting
<1>3. CASE {p, q} \subseteq Fetching
  <2>1. p \in Fetching /\ q \in Fetching
    BY <1>3
  <2> QED
    BY <2>1 DEF InUpload, InDeletion, Uploading, Deleting, Fetching
<1> QED
  BY <1>1, <1>2, <1>3

(* The device goes on with what it has in hand.                            *)
LEMMA PlacedOn ==
  ASSUME NEW d \in Devices, Placed(d), UNCHANGED <<server, excuses, imported, command>>,
         uploads'[d] \subseteq uploads[d],
         hand[d] # <<>>, hand'[d] # <<>>, Range(hand'[d]) \subseteq Range(hand[d]),
         \/ {pc[d], pc'[d]} \subseteq Uploading \union {"upload"}
         \/ {pc[d], pc'[d]} \subseteq Deleting \union {"delete"}
         \/ {pc[d], pc'[d]} \subseteq Fetching,
         pc'[d] = "part" /\ remote'[Head(hand'[d])] # None =>
           remote'[Head(hand'[d])].parts < Parts,
         pc'[d] = "mark" /\ Live =>
           remote'[Head(hand'[d])] # None /\ remote'[Head(hand'[d])].status = "complete",
         pc'[d] = "unlink" => row'[d][Head(hand'[d])] = "none",
         pc'[d] = "import" => Head(hand'[d]) \in blob'[d]
  PROVE  Placed(d)'
<1>0. Live' = Live
  BY DEF Live
<1>1. /\ InUpload(d)' <=> InUpload(d)
      /\ InDeletion(d)' <=> InDeletion(d)
      /\ pc'[d] \in Uploading \union Deleting \union Fetching \union {"upload", "delete"}
  BY SameTurn
<1>2. \A x \in Listed(d)' :
       /\ x \in imported'
       /\ InUpload(d)' => Maker[x] = d
       /\ ~InUpload(d)' => Settled(x)'
       /\ InDeletion(d)' => x \notin uploads'[d]
       /\ Unqueued(d)' => command'[d].attachment # x
  BY <1>1 DEF Placed, Listed, Settled, Importing, Unqueued
<1>3. /\ pc'[d] = "part" /\ remote'[At(d)'] # None => remote'[At(d)'].parts < Parts
      /\ Live' => ~InDeletion(d)' /\ (pc'[d] = "mark" => Complete(At(d))')
  BY <1>0, <1>1 DEF Placed, Complete, At
<1>4. /\ pc'[d] = "unlink" => row'[d][At(d)'] = "none"
      /\ pc'[d] = "import" => At(d)' \in blob'[d]
  BY DEF At
<1> QED
  BY <1>1, <1>2, <1>3, <1>4 DEF Placed

LEMMA ListUploadsKeeps ==
  ASSUME IInv, NEW d \in Devices, ListUploads(d)
  PROVE  IInv'
<1>1. CASE hand[d] = <<>>
  <2>1. Pending(d) \in SUBSET Attachments /\ Pending(d) \subseteq uploads[d]
    BY DEF Pending, IInv, TypeOK
  <2>2. List(d, Pending(d), "create", "pull")
    BY <1>1 DEF ListUploads
  <2>3. /\ Moves(d) /\ Range(hand'[d]) \subseteq Pending(d)
        /\ Pending(d) # {} => pc'[d] = "create" /\ hand'[d] # <<>>
        /\ Pending(d) = {} => pc'[d] = "pull" /\ hand'[d] = <<>>
    BY <2>1, <2>2, ListMoves, Phases DEF IInv, Uploading
  <2>4. CASE Pending(d) = {}
    <3>1. Placed(d)'
      BY <2>3, <2>4, PlacedEmpty, Phases
    <3> QED
      BY <2>3, <3>1, RemoteStill DEF ListUploads
  <2>5. CASE Pending(d) # {}
    <3>1. InUpload(d)' /\ ~InDeletion(d)'
      BY <2>3, <2>5 DEF InUpload, InDeletion, Uploading, Deleting
    <3>2. Listed(d)' \subseteq uploads[d] /\ command' = command /\ imported' = imported
      BY <2>1, <2>3 DEF Listed, ListUploads, history
    <3>3. \A x \in Listed(d)' :
            x \in imported' /\ Maker[x] = d /\ (Unqueued(d)' => command'[d].attachment # x)
      BY <3>2 DEF IInv, MakingInv, HoldInv, Unqueued
    <3>4. Placed(d)'
      BY <2>3, <2>5, <3>1, <3>3 DEF Placed, Uploading
    <3> QED
      BY <2>3, <3>4, RemoteStill DEF ListUploads
  <2> QED
    BY <2>4, <2>5
<1>2. CASE hand[d] # <<>>
  <2>1. Goto(d, "create") /\ pc[d] = "upload" /\ Placed(d)
    BY <1>2 DEF ListUploads, IInv, PlacedInv
  <2>2. Moves(d) /\ pc'[d] = "create" /\ hand'[d] = hand[d]
    BY <2>1, GotoMoves, Phases DEF IInv, Uploading
  <2>3. UNCHANGED <<server, excuses, imported, command, uploads>>
    BY DEF ListUploads, store, history
  <2>4. Placed(d)'
    BY <1>2, <2>1, <2>2, <2>3, PlacedOn DEF Uploading
  <2> QED
    BY <2>2, <2>4, RemoteStill DEF ListUploads
<1> QED
  BY <1>1, <1>2

(* An attachment is uploaded by its own device and by no other.            *)
LEMMA UploadStep ==
  ASSUME IInv, NEW d \in Devices, pc[d] \in Uploading, Moves(d),
         UNCHANGED <<server, record, store, command, bounds, imported, excuses>>,
         refused' \in SUBSET Attachments,
         NEW u \in Upload, remote' = [remote EXCEPT ![At(d)] = u],
         Complete(At(d)) => u.status = "complete",
         Placed(d)'
  PROVE  IInv'
<1>1. hand[d] # <<>> /\ InUpload(d)
  BY DEF IInv, PlacedInv, Placed, InUpload
<1>2. At(d) \in Listed(d) /\ At(d) \in Attachments /\ Maker[At(d)] = d
  BY <1>1, AtHand DEF IInv, PlacedInv, Placed
<1>3. remote \in [Attachments -> Upload \union {None}] /\ u # None
  BY NoneAssumption DEF IInv, TypeOK
<1>4. /\ remote' \in [Attachments -> Upload \union {None}]
      /\ remote'[At(d)] = u
      /\ \A x \in Attachments : x # At(d) => remote'[x] = remote[x]
  BY <1>2, <1>3
<1>5. \A x \in Attachments : Complete(x) => Complete(x)'
  BY <1>3, <1>4 DEF Complete
<1>6. ASSUME NEW e \in Devices, e # d, pc[e] \in {"part", "mark"}
      PROVE  remote'[At(e)] = remote[At(e)]
  <2>1. hand[e] # <<>> /\ InUpload(e)
    BY <1>6 DEF IInv, PlacedInv, Placed, InUpload, Uploading
  <2>2. At(e) \in Attachments /\ Maker[At(e)] = e
    BY <2>1, AtHand DEF IInv, PlacedInv, Placed
  <2> QED
    BY <1>2, <1>4, <1>6, <2>2
<1> HIDE DEF Moves
<1> QED
  BY <1>4, <1>5, <1>6, RemoteStep

LEMMA UploadKeeps ==
  ASSUME IInv, NEW d \in Devices, pc[d] \in Uploading, Moves(d),
         UNCHANGED <<server, record, store, command, bounds, history>>,
         NEW u \in Upload, remote' = [remote EXCEPT ![At(d)] = u],
         Complete(At(d)) => u.status = "complete",
         Placed(d)'
  PROVE  IInv'
<1>1. refused' \in SUBSET Attachments /\ UNCHANGED <<imported, excuses>>
  BY DEF history, IInv, TypeOK
<1> HIDE DEF Moves
<1> QED
  BY <1>1, UploadStep

LEMMA CreateUploadKeeps ==
  ASSUME IInv, NEW d \in Devices, CreateUpload(d)
  PROVE  IInv'
<1>1. pc[d] = "create" /\ hand[d] # <<>> /\ Placed(d) /\ TypeOK
  BY DEF CreateUpload, IInv, PlacedInv, Placed, Uploading
<1>2. At(d) \in Attachments
  BY <1>1, AtHand
<1>5. refused' \in SUBSET Attachments /\ UNCHANGED <<imported, excuses>>
  BY <1>1, <1>2 DEF CreateUpload, TypeOK, At
<1>3. CASE ~SameMetadata(d)
  <2>1. Stop(d)
    BY <1>3 DEF CreateUpload, OtherMetadata
  <2>2. Moves(d) /\ Placed(d)'
    BY <1>1, <2>1, StopMoves, PlacedEmpty, Phases
  <2> QED
    BY <1>3, <1>5, <2>2, StillStep DEF CreateUpload
<1>4. CASE SameMetadata(d)
  <2> DEFINE u == [parts |-> 0, status |-> "uploading"]
  <2>1. u \in Upload /\ 0 < Parts
    BY AttachmentSyncAssumption DEF Upload, Status
  <2>2. remote[At(d)] = None /\ remote' = [remote EXCEPT ![At(d)] = u] /\ Goto(d, "part")
    BY <1>4 DEF CreateUpload, SameMetadata, At
  <2>3. Moves(d) /\ pc'[d] = "part" /\ hand'[d] = hand[d]
    BY <1>1, <2>2, GotoMoves, Phases DEF Uploading
  <2>4. UNCHANGED <<server, excuses, imported, command, uploads>>
    BY DEF CreateUpload, store
  <2>5. remote'[At(d)] = u
    BY <1>1, <1>2, <2>2 DEF TypeOK
  <2>6. Placed(d)'
    BY <1>1, <2>1, <2>3, <2>4, <2>5, PlacedOn DEF Uploading, At
  <2>7. ~Complete(At(d)) /\ pc[d] \in Uploading
    BY <1>1, <2>2 DEF Complete, Uploading
  <2> HIDE DEF u
  <2> QED
    BY <1>5, <2>1, <2>2, <2>3, <2>6, <2>7, UploadStep DEF CreateUpload
<1> QED
  BY <1>3, <1>4

LEMMA RefuseUploadKeeps ==
  ASSUME IInv, NEW d \in Devices, RefuseUpload(d)
  PROVE  IInv'
<1>1. hand[d] # <<>> /\ TypeOK
  BY DEF RefuseUpload, IInv, PlacedInv, Placed, Uploading
<1>2. refused' \in SUBSET Attachments /\ UNCHANGED <<imported, excuses>>
  BY <1>1, AtHand DEF RefuseUpload, TypeOK, At
<1>3. Moves(d) /\ Placed(d)'
  BY <1>1, StopMoves, PlacedEmpty, Phases DEF RefuseUpload
<1> QED
  BY <1>2, <1>3, StillStep DEF RefuseUpload

LEMMA UploadPartKeeps ==
  ASSUME IInv, NEW d \in Devices, UploadPart(d)
  PROVE  IInv'
<1>1. pc[d] = "part" /\ hand[d] # <<>> /\ Placed(d) /\ TypeOK
  BY DEF UploadPart, IInv, PlacedInv, Placed, Uploading
<1>2. At(d) \in Attachments
  BY <1>1, AtHand
<1>3. CASE remote[At(d)] = None
  <2>1. Stop(d) /\ remote' = remote
    BY <1>3 DEF UploadPart, At
  <2>2. Moves(d) /\ Placed(d)'
    BY <1>1, <2>1, StopMoves, PlacedEmpty, Phases
  <2> QED
    BY <2>1, <2>2, RemoteStill DEF UploadPart
<1>4. CASE remote[At(d)] # None
  <2> DEFINE u == [remote[At(d)] EXCEPT !.parts = @ + 1]
             next == IF LastPart(d) THEN "complete" ELSE "part"
  <2>1. remote[At(d)] \in Upload /\ remote[At(d)].parts < Parts
    BY <1>1, <1>2, <1>4 DEF TypeOK, Placed
  <2>2. /\ u \in Upload /\ u.status = remote[At(d)].status
        /\ u.parts = remote[At(d)].parts + 1 /\ u.parts \in Nat /\ u.parts <= Parts
    BY <2>1, AttachmentSyncAssumption DEF Upload, Status
  <2>3. remote' = [remote EXCEPT ![At(d)] = u] /\ Goto(d, next)
    BY <1>4 DEF UploadPart, At
  <2>4. next \in Phase /\ next \in {"complete", "part"}
    BY Phases DEF Uploading
  <2>5. Moves(d) /\ pc'[d] = next /\ hand'[d] = hand[d]
    BY <1>1, <2>3, <2>4, GotoMoves
  <2>6. UNCHANGED <<server, excuses, imported, command, uploads>>
    BY DEF UploadPart, store, history
  <2>7. remote'[At(d)] = u
    BY <1>1, <1>2, <2>3 DEF TypeOK
  <2>8. next = "part" => u.parts < Parts
    BY <2>2, AttachmentSyncAssumption DEF LastPart, At
  <2>9. Complete(At(d)) => u.status = "complete"
    BY <2>2 DEF Complete
  <2> HIDE DEF u, next
  <2>10. Placed(d)'
    BY <1>1, <2>4, <2>5, <2>6, <2>7, <2>8, PlacedOn DEF Uploading, At
  <2>11. pc[d] \in Uploading
    BY <1>1 DEF Uploading
  <2> QED
    BY <2>2, <2>3, <2>5, <2>9, <2>10, <2>11, UploadKeeps DEF UploadPart
<1> QED
  BY <1>3, <1>4

LEMMA CompleteUploadKeeps ==
  ASSUME IInv, NEW d \in Devices, CompleteUpload(d)
  PROVE  IInv'
<1>1. pc[d] = "complete" /\ hand[d] # <<>> /\ Placed(d) /\ TypeOK
  BY DEF CompleteUpload, IInv, PlacedInv, Placed, Uploading
<1>2. At(d) \in Attachments
  BY <1>1, AtHand
<1>3. CASE remote[At(d)] = None \/ remote[At(d)].parts < Parts
  <2>1. Stop(d) /\ remote' = remote
    BY <1>3 DEF CompleteUpload, At
  <2>2. Moves(d) /\ Placed(d)'
    BY <1>1, <2>1, StopMoves, PlacedEmpty, Phases
  <2> QED
    BY <2>1, <2>2, RemoteStill DEF CompleteUpload
<1>4. CASE ~(remote[At(d)] = None \/ remote[At(d)].parts < Parts)
  <2> DEFINE u == [remote[At(d)] EXCEPT !.status = "complete"]
  <2>1. remote[At(d)] \in Upload
    BY <1>1, <1>2, <1>4 DEF TypeOK
  <2>2. u \in Upload /\ u.status = "complete"
    BY <2>1 DEF Upload, Status
  <2>3. remote' = [remote EXCEPT ![At(d)] = u] /\ Goto(d, "mark")
    BY <1>4 DEF CompleteUpload, At
  <2>4. Moves(d) /\ pc'[d] = "mark" /\ hand'[d] = hand[d]
    BY <1>1, <2>3, GotoMoves, Phases DEF Uploading
  <2>5. UNCHANGED <<server, excuses, imported, command, uploads>>
    BY DEF CompleteUpload, store, history
  <2>6. remote'[At(d)] = u /\ u # None
    BY <1>1, <1>2, <2>2, <2>3, NoneAssumption DEF TypeOK
  <2> HIDE DEF u
  <2>7. Placed(d)'
    BY <1>1, <2>2, <2>4, <2>5, <2>6, PlacedOn DEF Uploading, At
  <2>8. pc[d] \in Uploading
    BY <1>1 DEF Uploading
  <2> QED
    BY <2>2, <2>3, <2>4, <2>7, <2>8, UploadKeeps DEF CompleteUpload
<1> QED
  BY <1>3, <1>4

(* The rest of the list, when the attachment at hand is dealt with.        *)
LEMMA PlacedFinish ==
  ASSUME TypeOK, NEW d \in Devices, Placed(d), hand[d] # <<>>,
         UNCHANGED <<server, excuses, imported, command>>,
         uploads'[d] \subseteq uploads[d], hand'[d] = Tail(hand[d]),
         \/ pc[d] \in Uploading /\ pc'[d] = "upload"
         \/ pc[d] \in Deleting /\ pc'[d] = "delete"
         \/ pc[d] \in Fetching /\ pc'[d] = Fetched(d)
  PROVE  Placed(d)'
<1>1. /\ Range(Tail(hand[d])) \subseteq Range(hand[d])
      /\ Len(hand[d]) # 1 => Tail(hand[d]) # <<>>
      /\ Len(hand[d]) = 1 => Tail(hand[d]) = <<>>
  <2>1. hand[d] \in Lists
    BY DEF TypeOK
  <2> QED
    BY <2>1, ListFacts
<1>2. CASE hand'[d] = <<>>
  <2>1. pc'[d] \in {"upload", "delete", "idle"}
    BY <1>1, <1>2 DEF Fetched
  <2> QED
    BY <1>2, <2>1, PlacedEmpty, Phases
<1>3. CASE hand'[d] # <<>>
  <2>1. pc[d] \in Fetching => pc'[d] = "fetch"
    BY <1>1, <1>3 DEF Fetched, Uploading, Deleting, Fetching
  <2>2. pc'[d] \in {"upload", "delete", "fetch"}
    BY <2>1
  <2>3. \/ {pc[d], pc'[d]} \subseteq Uploading \union {"upload"}
        \/ {pc[d], pc'[d]} \subseteq Deleting \union {"delete"}
        \/ {pc[d], pc'[d]} \subseteq Fetching
    BY <2>1 DEF Fetching
  <2> QED
    BY <1>1, <1>3, <2>2, <2>3, PlacedOn
<1> QED
  BY <1>2, <1>3

LEMMA MarkSyncedKeeps ==
  ASSUME IInv, NEW d \in Devices, MarkSynced(d)
  PROVE  IInv'
<1>1. pc[d] = "mark" /\ hand[d] # <<>> /\ Placed(d) /\ TypeOK
  BY DEF MarkSynced, IInv, PlacedInv, Placed, Uploading
<1>2. At(d) \in Attachments /\ At(d) \in Listed(d)
  BY <1>1, AtHand
<1> DEFINE status == IF row[d][At(d)] = "none" THEN row[d][At(d)] ELSE "synced"
<1>3. /\ row' = [row EXCEPT ![d][At(d)] = status]
      /\ uploads' = [uploads EXCEPT ![d] = @ \ {At(d)}]
      /\ Finish(d, "upload")
  BY DEF MarkSynced, At, Drop
<1>4. Moves(d) /\ pc'[d] = "upload" /\ hand'[d] = Tail(hand[d])
  BY <1>1, <1>3, FinishMoves, Phases
<1>5. /\ row' \in [Devices -> [Attachments -> {"none", "pending", "synced"}]]
      /\ row'[d][At(d)] = status
      /\ \A x \in Attachments : x # At(d) => row'[d][x] = row[d][x]
      /\ \A e \in Devices : e # d => row'[e] = row[e]
  BY <1>1, <1>2, <1>3 DEF TypeOK
<1>6. /\ uploads' \in [Devices -> SUBSET Attachments]
      /\ uploads'[d] = uploads[d] \ {At(d)}
      /\ \A e \in Devices : e # d => uploads'[e] = uploads[e]
  BY <1>1, <1>3 DEF TypeOK
<1>7. /\ blob' = blob /\ deletions' = deletions /\ described' = described
      /\ remote' = remote /\ dirty' = dirty
      /\ UNCHANGED <<server, record, command, bounds, history, excuses, imported>>
  BY DEF MarkSynced, record, history
<1>8. ASSUME NEW x \in Attachments, Live, Safe(x) PROVE Safe(x)'
  <2>1. Complete(At(d))
    BY <1>1, <1>8 DEF Placed
  <2> QED
    BY <1>6, <1>7, <1>8, <2>1 DEF Safe, Complete
<1>9. HoldInv'
  <2>1. Unqueued(d) => command[d].attachment # At(d)
    BY <1>1, <1>2 DEF Placed
  <2>2. ASSUME NEW e \in Devices
        PROVE  /\ \A x \in uploads'[e] :
                    row'[e][x] = "pending" /\ Maker[x] = e /\ x \notin deletions'[e]
               /\ \A x \in Attachments : row'[e][x] # "none" => x \in blob'[e]
               /\ command'[e].next = "row" => command'[e].attachment \in blob'[e]
    BY <1>5, <1>6, <1>7 DEF IInv, HoldInv
  <2>3. ASSUME NEW e \in Devices, command'[e].next = "queue"
        PROVE  row'[e][command'[e].attachment] = "pending"
    <3>1. command[e].attachment \in Attachments /\ row[e][command[e].attachment] = "pending"
      BY <1>7, <2>3, <1>1 DEF IInv, HoldInv, MakingInv, Importing, TypeOK
    <3>2. e = d => command[e].attachment # At(d)
      BY <1>7, <2>1, <2>3 DEF Unqueued
    <3> QED
      BY <1>5, <1>7, <3>1, <3>2
  <2> QED
    BY <2>2, <2>3 DEF HoldInv
<1> HIDE DEF status
<1>10. Placed(d)'
  <2>1. pc[d] \in Uploading
    BY <1>1 DEF Uploading
  <2> QED
    BY <1>1, <1>4, <1>6, <1>7, <2>1, PlacedFinish
<1>11. /\ remote' \in [Attachments -> Upload \union {None}]
       /\ \A held \in {described', blob', uploads', deletions'} :
            held \in [Devices -> SUBSET Attachments]
       /\ \A e \in Devices :
            uploads'[e] \subseteq uploads[e] /\ deletions'[e] \subseteq deletions[e]
  BY <1>1, <1>6, <1>7 DEF TypeOK
<1> HIDE DEF Moves
<1> QED
  BY <1>4, <1>5, <1>7, <1>8, <1>9, <1>10, <1>11, SyncKeeps

LEMMA ListDeletionsKeeps ==
  ASSUME IInv, NEW d \in Devices, ListDeletions(d)
  PROVE  IInv'
<1>1. pc[d] = "delete" /\ Placed(d) /\ TypeOK
  BY DEF ListDeletions, IInv, PlacedInv
<1>2. CASE hand[d] # <<>>
  <2>1. Goto(d, "request deletion")
    BY <1>2 DEF ListDeletions
  <2>2. Moves(d) /\ pc'[d] = "request deletion" /\ hand'[d] = hand[d]
    BY <1>1, <2>1, GotoMoves, Phases DEF Deleting
  <2>3. UNCHANGED <<server, excuses, imported, command, uploads>>
    BY DEF ListDeletions, store, history
  <2>4. Placed(d)'
    BY <1>1, <1>2, <2>2, <2>3, PlacedOn DEF Deleting
  <2> QED
    BY <2>2, <2>4, RemoteStill DEF ListDeletions
<1>3. CASE hand[d] = <<>>
  <2> DEFINE S == IF Confirmed(d) THEN deletions[d] ELSE {}
  <2>1. S \in SUBSET Attachments /\ S \subseteq deletions[d]
    BY <1>1 DEF TypeOK
  <2>2. List(d, S, "request deletion", "download")
    BY <1>3 DEF ListDeletions
  <2>3. S # {} => Confirmed(d)
    OBVIOUS
  <2> HIDE DEF S
  <2>4. /\ Moves(d) /\ Range(hand'[d]) \subseteq S
        /\ S # {} => pc'[d] = "request deletion" /\ hand'[d] # <<>>
        /\ S = {} => pc'[d] = "download" /\ hand'[d] = <<>>
    BY <1>1, <2>1, <2>2, ListMoves, Phases DEF Deleting
  <2>5. CASE S = {}
    <3>1. Placed(d)'
      BY <2>4, <2>5, PlacedEmpty, Phases
    <3> QED
      BY <2>4, <3>1, RemoteStill DEF ListDeletions
  <2>6. CASE S # {}
    <3>1. ~InUpload(d)' /\ InDeletion(d)'
      BY <2>4, <2>6 DEF InUpload, InDeletion, Uploading, Deleting
    <3>2. ~Live'
      <4>1. dirty[d] = "none" /\ deletions[d] # {}
        BY <2>1, <2>3, <2>6 DEF Confirmed
      <4>2. ~Live
        BY <4>1 DEF IInv, LiveInv
      <4> QED
        BY <4>2 DEF Live, ListDeletions, history
    <3>3. UNCHANGED <<imported, command, uploads>>
      BY DEF ListDeletions, store, history
    <3>4. \A x \in Listed(d)' : Settled(x) /\ x \notin uploads[d]
      <4>1. Listed(d)' \subseteq deletions[d]
        BY <2>1, <2>4 DEF Listed
      <4>2. deletions[d] \subseteq Traces
        BY DEF Traces
      <4> QED
        BY <4>1, <4>2 DEF IInv, MakingInv, HoldInv
    <3>5. \A x \in Listed(d)' :
            /\ x \in imported' /\ Settled(x)' /\ x \notin uploads'[d]
            /\ Unqueued(d)' => command'[d].attachment # x
      BY <3>3, <3>4 DEF Settled, Importing, Unqueued
    <3>6. Placed(d)'
      BY <2>4, <2>6, <3>1, <3>2, <3>5 DEF Placed, Deleting
    <3> QED
      BY <2>4, <3>6, RemoteStill DEF ListDeletions
  <2> QED
    BY <2>5, <2>6
<1> QED
  BY <1>2, <1>3

(* Deletions are carried out when the record is no longer live.            *)
LEMMA InDeletionFacts ==
  ASSUME IInv, NEW d \in Devices, pc[d] \in Deleting
  PROVE  /\ TypeOK /\ Placed(d) /\ hand[d] # <<>> /\ ~Live
         /\ At(d) \in Attachments /\ At(d) \notin uploads[d] /\ Settled(At(d))
         /\ At(d) \in Listed(d)
<1>1. TypeOK /\ Placed(d) /\ hand[d] # <<>> /\ InDeletion(d) /\ ~InUpload(d)
  BY DEF IInv, PlacedInv, Placed, InDeletion, InUpload, Deleting, Uploading
<1>2. At(d) \in Attachments /\ At(d) \in Listed(d)
  BY <1>1, AtHand
<1> QED
  BY <1>1, <1>2 DEF Placed

LEMMA RequestDeletionKeeps ==
  ASSUME IInv, NEW d \in Devices, RequestDeletion(d)
  PROVE  IInv'
<1>1. pc[d] = "request deletion" /\ pc[d] \in Deleting
  BY DEF RequestDeletion, Deleting
<1>2. TypeOK /\ Placed(d) /\ hand[d] # <<>> /\ ~Live /\ At(d) \in Attachments
  BY <1>1, InDeletionFacts
<1>3. Goto(d, "forget") /\ remote' = [remote EXCEPT ![At(d)] = None]
  BY DEF RequestDeletion, Gone, At
<1>4. Moves(d) /\ pc'[d] = "forget" /\ hand'[d] = hand[d]
  BY <1>2, <1>3, GotoMoves, Phases DEF Deleting
<1>5. UNCHANGED <<server, excuses, imported, command, uploads>>
  BY DEF RequestDeletion, store, history
<1>6. Placed(d)'
  BY <1>1, <1>2, <1>4, <1>5, PlacedOn DEF Deleting
<1>7. remote' \in [Attachments -> Upload \union {None}]
  BY <1>2, <1>3 DEF TypeOK
<1>8. ASSUME NEW e \in Devices, e # d, pc[e] = "part"
      PROVE  remote'[At(e)] \in {None, remote[At(e)]}
  <2>1. hand[e] # <<>>
    BY <1>8 DEF IInv, PlacedInv, Placed, Uploading
  <2>2. At(e) \in Attachments
    BY <1>2, <2>1, AtHand
  <2> QED
    BY <1>2, <1>3, <2>2 DEF TypeOK
<1> HIDE DEF Moves
<1> QED
  BY <1>2, <1>4, <1>6, <1>7, <1>8, RemoteKeeps DEF RequestDeletion

LEMMA ForgetKeeps ==
  ASSUME IInv, NEW d \in Devices, Forget(d)
  PROVE  IInv'
<1>1. pc[d] = "forget" /\ pc[d] \in Deleting
  BY DEF Forget, Deleting
<1>2. /\ TypeOK /\ Placed(d) /\ hand[d] # <<>> /\ ~Live
      /\ At(d) \in Attachments /\ At(d) \notin uploads[d] /\ At(d) \in Listed(d)
  BY <1>1, InDeletionFacts
<1>3. /\ row' = [row EXCEPT ![d][At(d)] = "none"]
      /\ deletions' = [deletions EXCEPT ![d] = @ \ {At(d)}]
      /\ Goto(d, "unlink")
  BY DEF Forget, At, Drop
<1>4. Moves(d) /\ pc'[d] = "unlink" /\ hand'[d] = hand[d]
  BY <1>2, <1>3, GotoMoves, Phases DEF Deleting
<1>5. /\ row' \in [Devices -> [Attachments -> {"none", "pending", "synced"}]]
      /\ row'[d][At(d)] = "none"
      /\ \A x \in Attachments : x # At(d) => row'[d][x] = row[d][x]
      /\ \A e \in Devices : e # d => row'[e] = row[e]
  BY <1>2, <1>3 DEF TypeOK
<1>6. /\ deletions' \in [Devices -> SUBSET Attachments]
      /\ \A e \in Devices : deletions'[e] \subseteq deletions[e]
  BY <1>2, <1>3 DEF TypeOK
<1>7. /\ blob' = blob /\ uploads' = uploads /\ described' = described /\ remote' = remote
      /\ UNCHANGED <<server, record, command, bounds, history, excuses, imported>>
  BY DEF Forget, record, history
<1>8. HoldInv'
  <2>1. Unqueued(d) => command[d].attachment # At(d)
    BY <1>2 DEF Placed
  <2>2. ASSUME NEW e \in Devices
        PROVE  /\ \A x \in uploads'[e] :
                    row'[e][x] = "pending" /\ Maker[x] = e /\ x \notin deletions'[e]
               /\ \A x \in Attachments : row'[e][x] # "none" => x \in blob'[e]
               /\ command'[e].next = "row" => command'[e].attachment \in blob'[e]
    <3>1. \A x \in uploads[e] : x \in Attachments
      BY <1>2 DEF TypeOK
    <3> QED
      BY <1>2, <1>5, <1>6, <1>7, <3>1 DEF IInv, HoldInv
  <2>3. ASSUME NEW e \in Devices, command'[e].next = "queue"
        PROVE  row'[e][command'[e].attachment] = "pending"
    <3>1. command[e].attachment \in Attachments /\ row[e][command[e].attachment] = "pending"
      BY <1>7, <2>3, <1>2 DEF IInv, HoldInv, MakingInv, Importing, TypeOK
    <3>2. e = d => command[e].attachment # At(d)
      BY <1>7, <2>1, <2>3 DEF Unqueued
    <3> QED
      BY <1>5, <1>7, <3>1, <3>2
  <2> QED
    BY <2>2, <2>3 DEF HoldInv
<1>9. Placed(d)'
  BY <1>1, <1>2, <1>4, <1>5, <1>7, PlacedOn DEF Deleting, At
<1>10. /\ remote' \in [Attachments -> Upload \union {None}]
       /\ \A held \in {described', blob', uploads', deletions'} :
            held \in [Devices -> SUBSET Attachments]
       /\ \A e \in Devices : uploads'[e] \subseteq uploads[e]
  BY <1>2, <1>6, <1>7 DEF TypeOK
<1> HIDE DEF Moves
<1> QED
  BY <1>2, <1>4, <1>5, <1>6, <1>7, <1>8, <1>9, <1>10, SyncKeeps

LEMMA UnlinkKeeps ==
  ASSUME IInv, NEW d \in Devices, Unlink(d)
  PROVE  IInv'
<1>1. pc[d] = "unlink" /\ pc[d] \in Deleting
  BY DEF Unlink, Deleting
<1>2. /\ TypeOK /\ Placed(d) /\ hand[d] # <<>> /\ ~Live
      /\ At(d) \in Attachments /\ At(d) \in Listed(d) /\ row[d][At(d)] = "none"
  BY <1>1, InDeletionFacts DEF Placed
<1>3. blob' = [blob EXCEPT ![d] = @ \ {At(d)}] /\ Finish(d, "delete")
  BY DEF Unlink, At, Drop
<1>4. Moves(d) /\ pc'[d] = "delete" /\ hand'[d] = Tail(hand[d])
  BY <1>2, <1>3, FinishMoves, Phases
<1>5. /\ blob' \in [Devices -> SUBSET Attachments]
      /\ blob'[d] = blob[d] \ {At(d)}
      /\ \A e \in Devices : e # d => blob'[e] = blob[e]
  BY <1>2, <1>3 DEF TypeOK
<1>6. /\ row' = row /\ uploads' = uploads /\ described' = described /\ remote' = remote
      /\ deletions' = deletions
      /\ UNCHANGED <<server, record, command, bounds, history, excuses, imported>>
  BY DEF Unlink, record, history
<1>7. HoldInv'
  <2>1. Unqueued(d) => command[d].attachment # At(d)
    BY <1>2 DEF Placed
  <2>2. ASSUME NEW e \in Devices
        PROVE  /\ \A x \in uploads'[e] :
                    row'[e][x] = "pending" /\ Maker[x] = e /\ x \notin deletions'[e]
               /\ command'[e].next = "queue" => row'[e][command'[e].attachment] = "pending"
    BY <1>6 DEF IInv, HoldInv
  <2>3. ASSUME NEW e \in Devices, NEW x \in Attachments, row'[e][x] # "none"
        PROVE  x \in blob'[e]
    BY <1>2, <1>5, <1>6, <2>3 DEF IInv, HoldInv
  <2>4. ASSUME NEW e \in Devices, command'[e].next = "row"
        PROVE  command'[e].attachment \in blob'[e]
    BY <1>5, <1>6, <2>1, <2>4 DEF IInv, HoldInv, Unqueued
  <2> QED
    BY <2>2, <2>3, <2>4 DEF HoldInv
<1>8. Placed(d)'
  BY <1>1, <1>2, <1>4, <1>6, PlacedFinish
<1>9. /\ remote' \in [Attachments -> Upload \union {None}]
      /\ row' \in [Devices -> [Attachments -> {"none", "pending", "synced"}]]
      /\ \A held \in {described', blob', uploads', deletions'} :
           held \in [Devices -> SUBSET Attachments]
      /\ \A e \in Devices : uploads'[e] \subseteq uploads[e] /\ deletions'[e] \subseteq deletions[e]
  BY <1>2, <1>5, <1>6 DEF TypeOK
<1> HIDE DEF Moves
<1> QED
  BY <1>2, <1>4, <1>5, <1>6, <1>7, <1>8, <1>9, SyncKeeps

LEMMA ListDownloadsKeeps ==
  ASSUME IInv, NEW d \in Devices, ListDownloads(d)
  PROVE  IInv'
<1>1. TypeOK
  BY DEF IInv
<1> DEFINE S == IF item[d] = None THEN {} ELSE item[d]
<1>2. S \in SUBSET Attachments /\ S \subseteq Traces
  <2>1. S = In(item[d])
    BY DEF In
  <2>2. S \subseteq Referenced
    BY <2>1 DEF Referenced, References
  <2> QED
    BY <1>1, <2>2, NeededAreAttachments DEF IInv, Traces
<1>3. List(d, S, "fetch", "idle")
  BY DEF ListDownloads
<1> HIDE DEF S
<1>4. /\ Moves(d) /\ Range(hand'[d]) \subseteq S
      /\ S # {} => pc'[d] = "fetch" /\ hand'[d] # <<>>
      /\ S = {} => pc'[d] = "idle" /\ hand'[d] = <<>>
  BY <1>1, <1>2, <1>3, ListMoves, Phases DEF Fetching
<1>5. CASE S = {}
  <2>1. Placed(d)'
    BY <1>4, <1>5, PlacedEmpty, Phases
  <2> QED
    BY <1>4, <2>1, RemoteStill DEF ListDownloads
<1>6. CASE S # {}
  <2>1. ~InUpload(d)' /\ ~InDeletion(d)'
    BY <1>4, <1>6 DEF InUpload, InDeletion, Uploading, Deleting
  <2>2. UNCHANGED <<imported, command>>
    BY DEF ListDownloads, history
  <2>3. \A x \in Listed(d)' : Settled(x)
    BY <1>2, <1>4 DEF Listed, IInv, MakingInv
  <2>4. \A x \in Listed(d)' :
          /\ x \in imported' /\ Settled(x)'
          /\ Unqueued(d)' => command'[d].attachment # x
    BY <2>2, <2>3 DEF Settled, Importing, Unqueued
  <2>5. Placed(d)'
    BY <1>4, <1>6, <2>1, <2>4 DEF Placed, Fetching
  <2> QED
    BY <1>4, <2>5, RemoteStill DEF ListDownloads
<1> QED
  BY <1>5, <1>6

LEMMA FetchingFacts ==
  ASSUME IInv, NEW d \in Devices, pc[d] \in Fetching
  PROVE  /\ TypeOK /\ Placed(d) /\ hand[d] # <<>>
         /\ At(d) \in Attachments /\ At(d) \in Listed(d)
         /\ Fetched(d) \in Phase
<1>1. TypeOK /\ Placed(d) /\ hand[d] # <<>>
  BY DEF IInv, PlacedInv, Placed
<1> QED
  BY <1>1, AtHand, Phases DEF Fetched, Fetching

LEMMA DownloadKeeps ==
  ASSUME IInv, NEW d \in Devices, Download(d)
  PROVE  IInv'
<1>1. pc[d] = "fetch" /\ pc[d] \in Fetching
  BY DEF Download, Fetching
<1>2. /\ TypeOK /\ Placed(d) /\ hand[d] # <<>>
      /\ At(d) \in Attachments /\ At(d) \in Listed(d) /\ Fetched(d) \in Phase
  BY <1>1, FetchingFacts
<1>3. /\ row' = row /\ uploads' = uploads /\ described' = described /\ remote' = remote
      /\ deletions' = deletions
      /\ UNCHANGED <<server, record, command, bounds, history, excuses, imported>>
  BY DEF Download, record, history
<1>4. \/ Finish(d, Fetched(d)) /\ blob' = blob
      \/ Stop(d) /\ blob' = blob
      \/ Goto(d, "import") /\ blob' = [blob EXCEPT ![d] = @ \union {At(d)}]
  BY DEF Download, At, Add
<1>5. CASE Finish(d, Fetched(d)) /\ blob' = blob
  <2>1. Moves(d) /\ pc'[d] = Fetched(d) /\ hand'[d] = Tail(hand[d])
    BY <1>2, <1>5, FinishMoves
  <2>2. Placed(d)'
    BY <1>1, <1>2, <1>3, <2>1, PlacedFinish
  <2> QED
    BY <1>3, <1>5, <2>1, <2>2, RemoteStill DEF store
<1>6. CASE Stop(d) /\ blob' = blob
  <2>1. Moves(d) /\ Placed(d)'
    BY <1>2, <1>6, StopMoves, PlacedEmpty, Phases
  <2> QED
    BY <1>3, <1>6, <2>1, RemoteStill DEF store
<1>7. CASE Goto(d, "import") /\ blob' = [blob EXCEPT ![d] = @ \union {At(d)}]
  <2>1. Moves(d) /\ pc'[d] = "import" /\ hand'[d] = hand[d]
    BY <1>2, <1>7, GotoMoves, Phases DEF Fetching
  <2>2. /\ blob' \in [Devices -> SUBSET Attachments]
        /\ At(d) \in blob'[d]
        /\ \A e \in Devices : blob[e] \subseteq blob'[e]
        /\ \A e \in Devices : e # d => blob'[e] = blob[e]
    BY <1>2, <1>7 DEF TypeOK
  <2>3. Placed(d)'
    BY <1>1, <1>2, <1>3, <2>1, <2>2, PlacedOn DEF Fetching, At
  <2>4. HoldInv'
    BY <1>3, <2>2 DEF IInv, HoldInv
  <2>5. /\ remote' \in [Attachments -> Upload \union {None}]
        /\ row' \in [Devices -> [Attachments -> {"none", "pending", "synced"}]]
        /\ \A held \in {described', blob', uploads', deletions'} :
             held \in [Devices -> SUBSET Attachments]
        /\ \A e \in Devices :
             uploads'[e] \subseteq uploads[e] /\ deletions'[e] \subseteq deletions[e]
    BY <1>2, <1>3, <2>2 DEF TypeOK
  <2>6. \A x \in Attachments : Live /\ Safe(x) => Safe(x)'
    BY <1>3, SafeFrame DEF record
  <2> HIDE DEF Moves
  <2> QED
    BY <1>3, <2>1, <2>2, <2>3, <2>4, <2>5, <2>6, SyncKeeps
<1> QED
  BY <1>4, <1>5, <1>6, <1>7

LEMMA ImportDownloadKeeps ==
  ASSUME IInv, NEW d \in Devices, ImportDownload(d)
  PROVE  IInv'
<1>1. pc[d] = "import" /\ pc[d] \in Fetching
  BY DEF ImportDownload, Fetching
<1>2. /\ TypeOK /\ Placed(d) /\ hand[d] # <<>>
      /\ At(d) \in Attachments /\ At(d) \in Listed(d) /\ Fetched(d) \in Phase
      /\ At(d) \in blob[d]
  BY <1>1, FetchingFacts DEF Placed
<1> DEFINE status == IF row[d][At(d)] = "none" THEN "synced" ELSE row[d][At(d)]
<1>3. /\ row' = [row EXCEPT ![d][At(d)] = status]
      /\ described' = [described EXCEPT ![d] = @ \union {At(d)}]
      /\ Finish(d, Fetched(d))
  BY DEF ImportDownload, At, Add
<1>4. Moves(d) /\ pc'[d] = Fetched(d) /\ hand'[d] = Tail(hand[d])
  BY <1>2, <1>3, FinishMoves
<1>5. /\ row' \in [Devices -> [Attachments -> {"none", "pending", "synced"}]]
      /\ row'[d][At(d)] = status
      /\ \A x \in Attachments : x # At(d) => row'[d][x] = row[d][x]
      /\ \A e \in Devices : e # d => row'[e] = row[e]
      /\ described' \in [Devices -> SUBSET Attachments]
  BY <1>2, <1>3 DEF TypeOK
<1>6. /\ blob' = blob /\ uploads' = uploads /\ remote' = remote /\ deletions' = deletions
      /\ UNCHANGED <<server, record, command, bounds, history, excuses, imported, dirty>>
  BY DEF ImportDownload, record, history
<1>7. HoldInv'
  <2>1. \A e \in Devices, x \in Attachments : row[e][x] # "none" => row'[e][x] = row[e][x]
    BY <1>5
  <2>2. ASSUME NEW e \in Devices
        PROVE  /\ \A x \in uploads'[e] :
                    row'[e][x] = "pending" /\ Maker[x] = e /\ x \notin deletions'[e]
               /\ command'[e].next = "row" => command'[e].attachment \in blob'[e]
    <3>1. \A x \in uploads[e] : x \in Attachments
      BY <1>2 DEF TypeOK
    <3> QED
      BY <1>6, <2>1, <3>1 DEF IInv, HoldInv
  <2>3. ASSUME NEW e \in Devices, NEW x \in Attachments, row'[e][x] # "none"
        PROVE  x \in blob'[e]
    BY <1>2, <1>5, <1>6, <2>3 DEF IInv, HoldInv
  <2>4. ASSUME NEW e \in Devices, command'[e].next = "queue"
        PROVE  row'[e][command'[e].attachment] = "pending"
    <3>1. command[e].attachment \in Attachments /\ row[e][command[e].attachment] = "pending"
      BY <1>2, <1>6, <2>4 DEF IInv, HoldInv, MakingInv, Importing, TypeOK
    <3> QED
      BY <1>6, <2>1, <3>1
  <2> QED
    BY <2>2, <2>3, <2>4 DEF HoldInv
<1>8. Placed(d)'
  BY <1>1, <1>2, <1>4, <1>6, PlacedFinish
<1>9. /\ remote' \in [Attachments -> Upload \union {None}]
      /\ \A held \in {described', blob', uploads', deletions'} :
           held \in [Devices -> SUBSET Attachments]
      /\ \A e \in Devices : uploads'[e] \subseteq uploads[e] /\ deletions'[e] \subseteq deletions[e]
  BY <1>2, <1>5, <1>6 DEF TypeOK
<1>10. \A x \in Attachments : Live /\ Safe(x) => Safe(x)'
  BY <1>6, SafeFrame
<1> HIDE DEF Moves, status
<1> QED
  BY <1>4, <1>5, <1>6, <1>7, <1>8, <1>9, <1>10, SyncKeeps
-----------------------------------------------------------------------------
(* Steps that change the record or the command and nothing that is stored. *)
LEMMA StoreStays ==
  ASSUME IInv, TypeOK', CountInv', VersionInv', LiveInv', Live' => Live,
         UNCHANGED <<remote, store, imported>>,
         \A e \in Devices : (pc'[e] = pc[e] /\ hand'[e] = hand[e]) \/ Placed(e)',
         \A e \in Devices : command'[e] = command[e] \/ ~Importing(e)',
         \A x \in Needed' : Live' => x \in Needed \/ Safe(x)',
         \A x \in Attachments : Live' /\ Safe(x) => Safe(x)',
         \A x \in Traces' : x \in Traces \/ Settled(x)'
  PROVE  IInv'
<1> USE DEF IInv
<1>1. /\ row' = row /\ blob' = blob /\ uploads' = uploads /\ deletions' = deletions
      /\ remote' = remote /\ imported' = imported
  BY DEF store
<1>2. RefInv'
  BY RefStep
<1>3. \A e \in Devices :
        Importing(e)' => Importing(e) /\ command'[e].attachment = command[e].attachment
  BY DEF Importing
<1>4. \A e \in Devices :
        Unqueued(e)' => Unqueued(e) /\ command'[e].attachment = command[e].attachment
  BY DEF Importing, Unqueued
<1>5. \A x : Settled(x) => Settled(x)'
  BY <1>1, <1>3, SettledStays
<1>6. MakingInv'
  BY <1>1, <1>3, <1>4, <1>5, MakingStep
<1>7. HoldInv'
  <2>1. ASSUME NEW e \in Devices
        PROVE  /\ command'[e].next = "row" => command'[e].attachment \in blob'[e]
               /\ command'[e].next = "queue" => row'[e][command'[e].attachment] = "pending"
    BY <1>1 DEF HoldInv, Importing
  <2> QED
    BY <1>1, <2>1 DEF HoldInv
<1>8. ASSUME NEW e \in Devices, pc'[e] = pc[e], hand'[e] = hand[e] PROVE Placed(e)'
  <2>1. Placed(e)
    BY DEF PlacedInv
  <2> QED
    BY <1>1, <1>4, <1>5, <1>8, <2>1, PlacedStays
<1>9. PlacedInv'
  BY <1>8 DEF PlacedInv
<1> QED
  BY <1>2, <1>6, <1>7, <1>9

(* The versions and the edits are natural numbers.                         *)
LEMMA Numbers ==
  ASSUME TypeOK
  PROVE  /\ server.version \in Nat /\ server.version <= MaxEdits + 1
         /\ edits \in Nat /\ edits <= MaxEdits /\ MaxEdits \in Nat
         /\ server \in Version /\ server.content \in Content /\ server.device \in Devices
         /\ \A d \in Devices :
              /\ version[d] \in Nat /\ unanswered[d] \in Nat
              /\ conflict[d] # None =>
                   /\ conflict[d] \in Version /\ conflict[d].version \in Nat
                   /\ conflict[d].version \in 1 .. MaxEdits + 1
                   /\ conflict[d].content \in Content
BY AttachmentSyncAssumption DEF TypeOK, Version

LEMMA BetweenFacts ==
  ASSUME IInv, NEW d \in Devices, Moves(d), hand'[d] \in {hand[d], <<>>},
         pc[d] \in {"pull", "push", "pull again", "push again", "pull last"},
         pc'[d] \in {"idle", "push", "pull again", "push again", "pull last", "delete"}
  PROVE  \A e \in Devices : (pc'[e] = pc[e] /\ hand'[e] = hand[e]) \/ Placed(e)'
<1>1. hand[d] = <<>>
  BY DEF IInv, PlacedInv, Placed, Uploading, Deleting, Fetching
<1>2. Placed(d)'
  BY <1>1, PlacedEmpty, Phases
<1> QED
  BY <1>2 DEF Moves

LEMMA PullKeeps ==
  ASSUME IInv, NEW d \in Devices, Pull(d)
  PROVE  IInv'
<1> DEFINE next == CASE pc[d] = "pull" -> "push"
                     [] pc[d] = "pull again" -> "push again"
                     [] pc[d] = "pull last" -> "delete"
<1>1. TypeOK /\ VersionInv /\ LiveInv /\ CountInv
  BY DEF IInv
<1>2. next \in {"push", "push again", "delete"} /\ Goto(d, next)
  BY DEF Pull
<1>3. Moves(d) /\ pc'[d] = next /\ hand'[d] = hand[d]
  BY <1>1, <1>2, GotoMoves, Phases
<1>4. \A e \in Devices : (pc'[e] = pc[e] /\ hand'[e] = hand[e]) \/ Placed(e)'
  BY <1>2, <1>3, BetweenFacts DEF Pull
<1> HIDE DEF next
<1>5. /\ UNCHANGED <<server, remote, shown, dirty, unanswered, store, command, bounds, history>>
      /\ UNCHANGED <<edits, failures, imported, refused, excuses>>
      /\ row' = row /\ described' = described /\ blob' = blob
      /\ uploads' = uploads /\ deletions' = deletions
  BY DEF Pull, store, bounds, history
<1>6. version[d] \in Nat /\ server.version \in Nat /\ dirty[d] \in {"none", "upsert", "delete"}
  BY <1>1, Numbers DEF TypeOK
<1>7. /\ ~News(d) => UNCHANGED <<item, version, conflict>>
      /\ News(d) /\ dirty[d] = "none" =>
           /\ item' = [item EXCEPT ![d] = server.content]
           /\ version' = [version EXCEPT ![d] = server.version]
           /\ conflict' = [conflict EXCEPT ![d] = None]
      /\ News(d) /\ dirty[d] # "none" /\ server.device # d =>
           conflict' = [conflict EXCEPT ![d] = server] /\ UNCHANGED <<item, version>>
      /\ News(d) /\ dirty[d] # "none" /\ server.device = d =>
           version' = [version EXCEPT ![d] = server.version] /\ UNCHANGED <<item, conflict>>
  BY DEF Pull
<1>8. cursor' \in [Devices -> 1 .. MaxEdits + 1]
  <2>1. server.version \in 1 .. MaxEdits + 1
    BY <1>1 DEF TypeOK, Version
  <2> QED
    BY <1>1, <2>1 DEF Pull, TypeOK
<1>9. Live' = Live
  BY <1>5 DEF Live
<1>10. CountInv'
  BY <1>1, <1>5, Numbers, CountFrame
<1>11. \A x \in Attachments : Safe(x) => Safe(x)'
  BY <1>5, SafeFrame
<1>12. ASSUME \A e \in Devices :
                References(e)' \subseteq References(e) \union In(server.content)
       PROVE  Needed' \subseteq Needed /\ Traces' \subseteq Traces
  <2>1. In(server.content)' = In(server.content)
    BY <1>5 DEF In
  <2>2. Referenced' \subseteq Referenced
    BY <1>12, <2>1 DEF Referenced
  <2> QED
    BY <1>5, <2>2 DEF Needed, Queued, Traces
<1>13. CASE ~News(d)
  <2>1. UNCHANGED <<item, version, conflict>>
    BY <1>13, <1>7
  <2>2. TypeOK'
    BY <1>1, <1>3, <1>5, <1>8, <2>1 DEF TypeOK, Moves
  <2>3. VersionInv'
    BY <1>1, <1>5, <2>1 DEF VersionInv
  <2>4. LiveInv'
    BY <1>1, <1>5, <1>9, <2>1 DEF LiveInv
  <2>5. \A e \in Devices : References(e)' \subseteq References(e)
    BY <1>5, <2>1 DEF References, Opposed, In
  <2>6. Needed' \subseteq Needed /\ Traces' \subseteq Traces
    BY <1>12, <2>5
  <2> QED
    BY <1>4, <1>5, <1>9, <1>10, <1>11, <2>2, <2>3, <2>4, <2>6, StoreStays
<1>14. CASE News(d) /\ dirty[d] = "none"
  <2>1. /\ item' = [item EXCEPT ![d] = server.content]
        /\ version' = [version EXCEPT ![d] = server.version]
        /\ conflict' = [conflict EXCEPT ![d] = None]
    BY <1>14, <1>7
  <2>2. /\ item'[d] = server.content /\ version'[d] = server.version /\ conflict'[d] = None
        /\ \A e \in Devices : e # d =>
             item'[e] = item[e] /\ version'[e] = version[e] /\ conflict'[e] = conflict[e]
    BY <1>1, <2>1 DEF TypeOK
  <2>3. TypeOK'
    <3>1. server.content \in Content /\ server.version \in 1 .. MaxEdits + 1
      BY <1>1 DEF TypeOK, Version
    <3>2. /\ item' \in [Devices -> Content]
          /\ version' \in [Devices -> 1 .. MaxEdits + 1]
          /\ conflict' \in [Devices -> Version \union {None}]
      BY <1>1, <2>1, <3>1 DEF TypeOK
    <3> QED
      BY <1>1, <1>3, <1>5, <1>8, <3>2 DEF TypeOK, Moves
  <2>4. VersionInv'
    <3>1. ASSUME NEW e \in Devices
          PROVE  /\ version'[e] <= server'.version /\ unanswered'[e] <= server'.version
                 /\ unanswered'[e] # 0 => dirty'[e] # "none"
                 /\ unanswered'[e] = server'.version =>
                      server'.device = e /\ server'.content = item'[e]
                 /\ dirty'[e] = "upsert" => item'[e] # None
                 /\ dirty'[e] = "delete" => item'[e] = None
                 /\ conflict'[e] # None =>
                      /\ dirty'[e] # "none" /\ server'.device # e
                      /\ version'[e] < conflict'[e].version
                      /\ conflict'[e].version <= server'.version
                      /\ conflict'[e].version = server'.version => conflict'[e] = server'
      <4>1. CASE e = d
        <5>1. unanswered[d] = 0 /\ server.version # 0
          BY <1>1, <1>14 DEF VersionInv, TypeOK, Version
        <5> QED
          BY <1>5, <1>6, <1>14, <2>2, <4>1, <5>1
      <4>2. CASE e # d
        BY <1>1, <1>5, <2>2, <4>2 DEF VersionInv
      <4> QED
        BY <4>1, <4>2
    <3> QED
      BY <3>1 DEF VersionInv
  <2>5. LiveInv'
    BY <1>1, <1>5, <2>2, <1>9 DEF LiveInv
  <2>6. \A e \in Devices : References(e)' \subseteq References(e) \union In(server.content)
    BY <1>5, <2>2 DEF References, Opposed, In
  <2>7. Needed' \subseteq Needed /\ Traces' \subseteq Traces
    BY <1>12, <2>6
  <2> QED
    BY <1>4, <1>5, <1>9, <1>10, <1>11, <2>3, <2>4, <2>5, <2>7, StoreStays
<1>15. CASE News(d) /\ dirty[d] # "none" /\ server.device # d
  <2>1. conflict' = [conflict EXCEPT ![d] = server] /\ UNCHANGED <<item, version>>
    BY <1>15, <1>7
  <2>2. /\ conflict'[d] = server /\ server # None
        /\ \A e \in Devices : e # d => conflict'[e] = conflict[e]
    BY <1>1, <2>1, NoneAssumption DEF TypeOK
  <2>3. TypeOK'
    <3>1. conflict' \in [Devices -> Version \union {None}]
      BY <1>1, <2>1 DEF TypeOK
    <3> QED
      BY <1>1, <1>3, <1>5, <1>8, <2>1, <3>1 DEF TypeOK, Moves
  <2>4. VersionInv'
    <3>1. ASSUME NEW e \in Devices
          PROVE  /\ version'[e] <= server'.version /\ unanswered'[e] <= server'.version
                 /\ unanswered'[e] # 0 => dirty'[e] # "none"
                 /\ unanswered'[e] = server'.version =>
                      server'.device = e /\ server'.content = item'[e]
                 /\ dirty'[e] = "upsert" => item'[e] # None
                 /\ dirty'[e] = "delete" => item'[e] = None
                 /\ conflict'[e] # None =>
                      /\ dirty'[e] # "none" /\ server'.device # e
                      /\ version'[e] < conflict'[e].version
                      /\ conflict'[e].version <= server'.version
                      /\ conflict'[e].version = server'.version => conflict'[e] = server'
      <4>1. CASE e = d
        BY <1>1, <1>5, <1>6, <1>15, <2>1, <2>2, <4>1 DEF VersionInv, News
      <4>2. CASE e # d
        BY <1>1, <1>5, <2>1, <2>2, <4>2 DEF VersionInv
      <4> QED
        BY <4>1, <4>2
    <3> QED
      BY <3>1 DEF VersionInv
  <2>5. LiveInv'
    BY <1>1, <1>5, <1>9, <2>1, <2>2 DEF LiveInv, Live
  <2>6. \A e \in Devices : References(e)' \subseteq References(e) \union In(server.content)
    BY <1>5, <2>1, <2>2 DEF References, Opposed, In
  <2>7. Needed' \subseteq Needed /\ Traces' \subseteq Traces
    BY <1>12, <2>6
  <2> QED
    BY <1>4, <1>5, <1>9, <1>10, <1>11, <2>3, <2>4, <2>5, <2>7, StoreStays
<1>16. CASE News(d) /\ dirty[d] # "none" /\ server.device = d
  <2>1. version' = [version EXCEPT ![d] = server.version] /\ UNCHANGED <<item, conflict>>
    BY <1>16, <1>7
  <2>2. /\ version'[d] = server.version /\ \A e \in Devices : e # d => version'[e] = version[e]
        /\ conflict[d] = None
    BY <1>1, <1>16, <2>1 DEF TypeOK, VersionInv
  <2>3. TypeOK'
    <3>1. server.version \in 1 .. MaxEdits + 1
      BY <1>1 DEF TypeOK, Version
    <3>2. version' \in [Devices -> 1 .. MaxEdits + 1]
      BY <1>1, <2>1, <3>1 DEF TypeOK
    <3> QED
      BY <1>1, <1>3, <1>5, <1>8, <2>1, <3>2 DEF TypeOK, Moves
  <2>4. VersionInv'
    <3>1. ASSUME NEW e \in Devices
          PROVE  /\ version'[e] <= server'.version /\ unanswered'[e] <= server'.version
                 /\ unanswered'[e] # 0 => dirty'[e] # "none"
                 /\ unanswered'[e] = server'.version =>
                      server'.device = e /\ server'.content = item'[e]
                 /\ dirty'[e] = "upsert" => item'[e] # None
                 /\ dirty'[e] = "delete" => item'[e] = None
                 /\ conflict'[e] # None =>
                      /\ dirty'[e] # "none" /\ server'.device # e
                      /\ version'[e] < conflict'[e].version
                      /\ conflict'[e].version <= server'.version
                      /\ conflict'[e].version = server'.version => conflict'[e] = server'
      <4>1. CASE e = d
        BY <1>1, <1>5, <1>6, <2>1, <2>2, <4>1 DEF VersionInv
      <4>2. CASE e # d
        BY <1>1, <1>5, <2>1, <2>2, <4>2 DEF VersionInv
      <4> QED
        BY <4>1, <4>2
    <3> QED
      BY <3>1 DEF VersionInv
  <2>5. LiveInv'
    <3>1. ASSUME excuses' = {}, server'.content = None, NEW e \in Devices,
                 version'[e] = server'.version \/ server'.device = e
          PROVE  item'[e] = None
      BY <1>1, <1>5, <1>16, <2>1, <2>2, <3>1 DEF LiveInv
    <3>2. ASSUME Live', NEW e \in Devices
          PROVE  /\ conflict'[e] # None => conflict'[e].content # None
                 /\ deletions'[e] # {} => dirty'[e] = "delete"
                 /\ unanswered'[e] # 0 => dirty'[e] # "delete"
      BY <1>1, <1>5, <1>9, <2>1, <3>2 DEF LiveInv
    <3> QED
      BY <3>1, <3>2 DEF LiveInv
  <2>6. \A e \in Devices : References(e)' \subseteq References(e)
    BY <1>5, <2>1 DEF References, Opposed, In
  <2>7. Needed' \subseteq Needed /\ Traces' \subseteq Traces
    BY <1>12, <2>6
  <2> QED
    BY <1>4, <1>5, <1>9, <1>10, <1>11, <2>3, <2>4, <2>5, <2>7, StoreStays
<1> QED
  BY <1>13, <1>14, <1>15, <1>16

(* A step of one device in the balance of edits and versions.              *)
LEMMA CountStep ==
  ASSUME TypeOK, CountInv, NEW d \in Devices, server' = server,
         Dirty' \subseteq Dirty \union {d}, Busy' \subseteq Busy \union {d},
         \/ edits' = edits /\ Dirty' \subseteq Dirty /\ Busy' \subseteq Busy
         \/ edits' = edits /\ d \in Busy /\ Busy' \subseteq Busy \ {d}
         \/ edits' = edits + 1 /\ (Dirty' \subseteq Dirty \/ Busy' \subseteq Busy)
  PROVE  CountInv'
<1> DEFINE D == Dirty'
           B == Busy'
<1>1. /\ D \subseteq Dirty \union {d} /\ B \subseteq Busy \union {d}
      /\ \/ edits' = edits /\ D \subseteq Dirty /\ B \subseteq Busy
         \/ edits' = edits /\ d \in Busy /\ B \subseteq Busy \ {d}
         \/ edits' = edits + 1 /\ (D \subseteq Dirty \/ B \subseteq Busy)
  OBVIOUS
<1> HIDE DEF D, B
<1>2. /\ IsFiniteSet(Dirty) /\ IsFiniteSet(Busy)
      /\ server.version + Cardinality(Dirty) + Cardinality(Busy) <= edits + 1
  BY DEF CountInv
<1>3. /\ Cardinality(Dirty) \in Nat /\ IsFiniteSet(D) /\ Cardinality(D) \in Nat
      /\ Cardinality(D) <= Cardinality(Dirty) + 1
      /\ D \subseteq Dirty => Cardinality(D) <= Cardinality(Dirty)
  BY <1>1, <1>2, Counted
<1>4. /\ Cardinality(Busy) \in Nat /\ IsFiniteSet(B) /\ Cardinality(B) \in Nat
      /\ Cardinality(B) <= Cardinality(Busy) + 1
      /\ B \subseteq Busy => Cardinality(B) <= Cardinality(Busy)
      /\ d \in Busy /\ B \subseteq Busy \ {d} => Cardinality(B) <= Cardinality(Busy) - 1
  BY <1>1, <1>2, Counted
<1>5. server.version + Cardinality(D) + Cardinality(B) <= edits' + 1
  BY <1>1, <1>2, <1>3, <1>4, Numbers
<1> QED
  BY <1>3, <1>4, <1>5 DEF CountInv, D, B

(* A change the server accepts: nothing it refers to was ever deleted, as  *)
(* a device that has the newest version and a record to push never knew of *)
(* a tombstone, and has no deletions to carry out. The answer is lost or   *)
(* not.                                                                    *)
Accepted(d) ==
  /\ dirty[d] # "none" /\ conflict[d] = None /\ unanswered[d] = 0
  /\ version[d] = server.version /\ Accept(d)
  /\ \/ /\ version' = [version EXCEPT ![d] = server.version + 1]
        /\ dirty' = [dirty EXCEPT ![d] = "none"]
        /\ unanswered' = [unanswered EXCEPT ![d] = 0]
     \/ /\ unanswered' = [unanswered EXCEPT ![d] = server.version + 1]
        /\ UNCHANGED <<version, dirty>>
  /\ failures' \in 0 .. MaxFailures
  /\ UNCHANGED <<item, shown, cursor, conflict, remote, store, command, edits, history>>

LEMMA AcceptedKeeps ==
  ASSUME IInv, NEW d \in Devices, Accepted(d), Moves(d),
         \A e \in Devices : (pc'[e] = pc[e] /\ hand'[e] = hand[e]) \/ Placed(e)'
  PROVE  IInv'
<1>1. TypeOK /\ VersionInv /\ LiveInv /\ CountInv
  BY DEF IInv
<1>2. /\ UNCHANGED <<item, shown, cursor, conflict, remote, store, command, edits, imported,
                     refused, excuses>>
      /\ row' = row /\ described' = described /\ blob' = blob
      /\ uploads' = uploads /\ deletions' = deletions
  BY DEF Accepted, store, history
<1>3. /\ dirty[d] # "none" /\ conflict[d] = None /\ version[d] = server.version
      /\ unanswered[d] = 0
      /\ server'.version = server.version + 1 /\ server'.content = item[d] /\ server'.device = d
      /\ \/ version'[d] = server.version + 1 /\ dirty'[d] = "none" /\ unanswered'[d] = 0
         \/ /\ version'[d] = server.version /\ dirty'[d] = dirty[d]
            /\ unanswered'[d] = server.version + 1
      /\ \A e \in Devices : e # d =>
           version'[e] = version[e] /\ dirty'[e] = dirty[e] /\ unanswered'[e] = unanswered[e]
  BY <1>1 DEF Accepted, Accept, TypeOK
<1>4. /\ Dirty' \subseteq Dirty \ {d} /\ d \in Dirty /\ Busy' = Busy
      /\ Cardinality(Busy) \in Nat /\ Cardinality(Dirty) \in Nat
      /\ IsFiniteSet(Dirty) /\ IsFiniteSet(Busy)
      /\ server.version + Cardinality(Dirty) + Cardinality(Busy) <= edits + 1
  <2>1. d \in Dirty /\ Busy' = Busy
    BY <1>2, <1>3 DEF Dirty, Busy
  <2>2. server.version \in Nat
    BY <1>1, Numbers
  <2>3. Dirty' \subseteq Dirty \ {d}
    BY <1>3, <2>2 DEF Dirty
  <2> QED
    BY <1>1, <2>1, <2>3, FS_CardinalityType DEF CountInv
<1>5. /\ IsFiniteSet(Dirty') /\ Cardinality(Dirty') \in Nat
      /\ Cardinality(Dirty') <= Cardinality(Dirty) - 1
  <2> DEFINE D == Dirty'
  <2>1. D \subseteq Dirty \ {d}
    BY <1>4
  <2> HIDE DEF D
  <2>2. IsFiniteSet(D) /\ Cardinality(D) \in Nat /\ Cardinality(D) <= Cardinality(Dirty) - 1
    BY <1>4, <2>1, Counted
  <2> QED
    BY <2>2 DEF D
<1>6. CountInv'
  BY <1>1, <1>2, <1>3, <1>4, <1>5, Numbers DEF CountInv
<1>7. TypeOK'
  <2>1. server.version + 1 \in 1 .. MaxEdits + 1
    BY <1>1, <1>4, <1>5, Numbers
  <2>2. server' \in Version
    BY <1>1, <2>1 DEF Accepted, Accept, TypeOK, Version
  <2>3. /\ version' \in [Devices -> 1 .. MaxEdits + 1]
        /\ unanswered' \in [Devices -> 0 .. MaxEdits + 1]
    <3> DEFINE V == 1 .. MaxEdits + 1  U == 0 .. MaxEdits + 1
    <3>1. server.version + 1 \in V /\ server.version + 1 \in U /\ 0 \in U
      BY <2>1, AttachmentSyncAssumption
    <3>2. version \in [Devices -> V] /\ unanswered \in [Devices -> U]
      BY <1>1 DEF TypeOK
    <3> HIDE DEF V, U
    <3>3. version' \in [Devices -> V] /\ unanswered' \in [Devices -> U]
      BY <3>1, <3>2 DEF Accepted
    <3> QED
      BY <3>3 DEF V, U
  <2>4. dirty' \in [Devices -> {"none", "upsert", "delete"}]
    BY <1>1 DEF Accepted, TypeOK
  <2>5. failures' \in 0 .. MaxFailures
    BY DEF Accepted
  <2> QED
    BY <1>1, <1>2, <2>2, <2>3, <2>4, <2>5 DEF TypeOK, Moves
<1>8. VersionInv'
  <2>1. ASSUME NEW e \in Devices
        PROVE  /\ version'[e] <= server'.version /\ unanswered'[e] <= server'.version
               /\ unanswered'[e] # 0 => dirty'[e] # "none"
               /\ unanswered'[e] = server'.version =>
                    server'.device = e /\ server'.content = item'[e]
               /\ dirty'[e] = "upsert" => item'[e] # None
               /\ dirty'[e] = "delete" => item'[e] = None
               /\ conflict'[e] # None =>
                    /\ dirty'[e] # "none" /\ server'.device # e
                    /\ version'[e] < conflict'[e].version
                    /\ conflict'[e].version <= server'.version
                    /\ conflict'[e].version = server'.version => conflict'[e] = server'
    <3>1. CASE e = d
      <4>1. server.version \in Nat /\ server.version >= 1
        BY <1>1 DEF TypeOK, Version
      <4> QED
        BY <1>1, <1>2, <1>3, <3>1, <4>1 DEF VersionInv
    <3>2. CASE e # d
      <4>1. /\ version[e] <= server.version /\ version[e] \in Nat /\ server.version \in Nat
            /\ unanswered[e] <= server.version /\ unanswered[e] \in Nat
        BY <1>1, Numbers DEF VersionInv
      <4>2. conflict[e] # None =>
              /\ conflict[e].version <= server.version /\ conflict[e].version \in Nat
        BY <1>1, Numbers DEF VersionInv
      <4> QED
        BY <1>1, <1>2, <1>3, <3>2, <4>1, <4>2 DEF VersionInv
    <3> QED
      BY <3>1, <3>2
  <2> QED
    BY <2>1 DEF VersionInv
<1>9. Live' => Live
  BY <1>1, <1>2, <1>3 DEF LiveInv, Live
<1>10. Live' => item[d] # None /\ dirty[d] = "upsert" /\ deletions[d] = {}
  <2>1. dirty[d] \in {"none", "upsert", "delete"}
    BY <1>1 DEF TypeOK
  <2>2. Live' => item[d] # None
    BY <1>3 DEF Live
  <2>3. item[d] # None => dirty[d] = "upsert"
    BY <1>1, <1>3, <2>1 DEF VersionInv
  <2> QED
    BY <1>1, <1>9, <2>2, <2>3 DEF LiveInv
<1>11. LiveInv'
  <2>1. ASSUME Live', NEW e \in Devices
        PROVE  /\ conflict'[e] # None => conflict'[e].content # None
               /\ deletions'[e] # {} => dirty'[e] = "delete"
               /\ unanswered'[e] # 0 => dirty'[e] # "delete"
    BY <1>1, <1>2, <1>3, <1>9, <1>10, <2>1 DEF LiveInv
  <2>2. ASSUME excuses' = {}, server'.content = None, NEW e \in Devices,
               version'[e] = server'.version \/ server'.device = e
        PROVE  item'[e] = None
    <3>1. CASE e = d
      BY <1>2, <1>3, <2>2, <3>1
    <3>2. CASE e # d
      BY <1>1, <1>3, <2>2, <3>2, Numbers DEF VersionInv
    <3> QED
      BY <3>1, <3>2
  <2> QED
    BY <2>1, <2>2 DEF LiveInv
<1>12. Referenced' \subseteq Referenced
  <2>1. \A e \in Devices : References(e)' = References(e)
    BY <1>2 DEF References, Opposed, In
  <2>2. In(server.content)' \subseteq References(d)
    BY <1>3 DEF In, References
  <2> QED
    BY <2>1, <2>2 DEF Referenced
<1>13. Needed' \subseteq Needed
  BY <1>2, <1>12 DEF Needed, Queued
<1>14. Traces' \subseteq Traces
  BY <1>2, <1>12 DEF Traces
<1>15. ASSUME NEW x \in Attachments, Live', Safe(x) PROVE Safe(x)'
  BY <1>2, <1>3, <1>10, <1>15 DEF Safe, Complete
<1> QED
  BY <1>2, <1>6, <1>7, <1>8, <1>9, <1>11, <1>13, <1>14, <1>15, StoreStays

(* An old answer that is sent again: while the record is live it is not    *)
(* that to a deletion.                                                     *)
Replayed(d) ==
  /\ dirty[d] # "none" /\ conflict[d] = None /\ unanswered[d] # 0
  /\ version' = [version EXCEPT ![d] = unanswered[d]]
  /\ dirty' = [dirty EXCEPT ![d] = "none"]
  /\ unanswered' = [unanswered EXCEPT ![d] = 0]
  /\ UNCHANGED <<server, item, shown, cursor, conflict, remote, store, command, bounds, history>>

LEMMA ReplayedKeeps ==
  ASSUME IInv, NEW d \in Devices, Replayed(d), Moves(d),
         \A e \in Devices : (pc'[e] = pc[e] /\ hand'[e] = hand[e]) \/ Placed(e)'
  PROVE  IInv'
<1>1. TypeOK /\ VersionInv /\ LiveInv /\ CountInv
  BY DEF IInv
<1>2. /\ UNCHANGED <<server, item, shown, cursor, conflict, remote, store, command, edits,
                     failures, imported, refused, excuses>>
      /\ row' = row /\ described' = described /\ blob' = blob
      /\ uploads' = uploads /\ deletions' = deletions
  BY DEF Replayed, store, bounds, history
<1>3. /\ dirty[d] # "none" /\ conflict[d] = None /\ unanswered[d] # 0
      /\ version'[d] = unanswered[d] /\ dirty'[d] = "none" /\ unanswered'[d] = 0
      /\ \A e \in Devices : e # d =>
           version'[e] = version[e] /\ dirty'[e] = dirty[e] /\ unanswered'[e] = unanswered[e]
  BY <1>1 DEF Replayed, TypeOK
<1>4. unanswered[d] \in 1 .. MaxEdits + 1 /\ unanswered[d] <= server.version
  BY <1>1, <1>3, Numbers DEF VersionInv, TypeOK
<1>5. TypeOK'
  <2>1. /\ version' \in [Devices -> 1 .. MaxEdits + 1]
        /\ unanswered' \in [Devices -> 0 .. MaxEdits + 1]
    <3> DEFINE V == 1 .. MaxEdits + 1  U == 0 .. MaxEdits + 1
    <3>1. unanswered[d] \in V /\ 0 \in U
      BY <1>4, AttachmentSyncAssumption
    <3>2. version \in [Devices -> V] /\ unanswered \in [Devices -> U]
      BY <1>1 DEF TypeOK
    <3> HIDE DEF V, U
    <3>3. version' \in [Devices -> V] /\ unanswered' \in [Devices -> U]
      BY <3>1, <3>2 DEF Replayed
    <3> QED
      BY <3>3 DEF V, U
  <2>2. dirty' \in [Devices -> {"none", "upsert", "delete"}]
    BY <1>1 DEF Replayed, TypeOK
  <2> QED
    BY <1>1, <1>2, <2>1, <2>2 DEF TypeOK, Moves
<1>6. CountInv'
  <2>1. Dirty' \subseteq Dirty /\ Busy' \subseteq Busy
    BY <1>2, <1>3 DEF Dirty, Busy
  <2>2. Dirty' \subseteq Dirty \union {d} /\ Busy' \subseteq Busy \union {d}
    BY <2>1
  <2> QED
    BY <1>1, <1>2, <2>1, <2>2, CountStep
<1>7. VersionInv'
  <2>1. ASSUME NEW e \in Devices
        PROVE  /\ version'[e] <= server'.version /\ unanswered'[e] <= server'.version
               /\ unanswered'[e] # 0 => dirty'[e] # "none"
               /\ unanswered'[e] = server'.version =>
                    server'.device = e /\ server'.content = item'[e]
               /\ dirty'[e] = "upsert" => item'[e] # None
               /\ dirty'[e] = "delete" => item'[e] = None
               /\ conflict'[e] # None =>
                    /\ dirty'[e] # "none" /\ server'.device # e
                    /\ version'[e] < conflict'[e].version
                    /\ conflict'[e].version <= server'.version
                    /\ conflict'[e].version = server'.version => conflict'[e] = server'
    <3>1. CASE e = d
      <4>1. server.version \in Nat /\ server.version >= 1
        BY <1>1 DEF TypeOK, Version
      <4> QED
        BY <1>2, <1>3, <1>4, <3>1, <4>1
    <3>2. CASE e # d
      BY <1>1, <1>2, <1>3, <3>2 DEF VersionInv
    <3> QED
      BY <3>1, <3>2
  <2> QED
    BY <2>1 DEF VersionInv
<1>8. Live' = Live
  BY <1>2 DEF Live
<1>9. Live => deletions[d] = {}
  BY <1>1, <1>3 DEF LiveInv
<1>10. LiveInv'
  <2>1. ASSUME Live', NEW e \in Devices
        PROVE  /\ conflict'[e] # None => conflict'[e].content # None
               /\ deletions'[e] # {} => dirty'[e] = "delete"
               /\ unanswered'[e] # 0 => dirty'[e] # "delete"
    BY <1>1, <1>2, <1>3, <1>8, <1>9, <2>1 DEF LiveInv
  <2>2. ASSUME excuses' = {}, server'.content = None, NEW e \in Devices,
               version'[e] = server'.version \/ server'.device = e
        PROVE  item'[e] = None
    <3>1. CASE e = d
      <4>1. unanswered[d] = server.version \/ server.device = d
        BY <1>2, <1>3, <2>2, <3>1
      <4> QED
        BY <1>1, <1>2, <2>2, <3>1, <4>1 DEF VersionInv, LiveInv
    <3>2. CASE e # d
      BY <1>1, <1>2, <1>3, <2>2, <3>2 DEF LiveInv
    <3> QED
      BY <3>1, <3>2
  <2> QED
    BY <2>1, <2>2 DEF LiveInv
<1>11. Needed' = Needed /\ Referenced' = Referenced
  BY <1>2, NeededFrame
<1>12. Traces' = Traces
  BY <1>2, <1>11 DEF Traces
<1>13. ASSUME NEW x \in Attachments, Live', Safe(x) PROVE Safe(x)'
  BY <1>2, <1>3, <1>8, <1>9, <1>13 DEF Safe, Complete
<1> QED
  BY <1>2, <1>5, <1>6, <1>7, <1>8, <1>10, <1>11, <1>12, <1>13, StoreStays

(* Pushing, with nothing in hand.                                          *)
LEMMA PushMoves ==
  ASSUME IInv, NEW d \in Devices, pc[d] \in {"push", "push again"},
         Goto(d, "pull last") \/ Goto(d, "pull again") \/ Stop(d)
  PROVE  /\ Moves(d) /\ Placed(d)'
         /\ \A e \in Devices : (pc'[e] = pc[e] /\ hand'[e] = hand[e]) \/ Placed(e)'
<1>1. TypeOK
  BY DEF IInv
<1>2. /\ Moves(d) /\ hand'[d] \in {hand[d], <<>>}
      /\ pc'[d] \in {"pull last", "pull again", "idle"}
  BY <1>1, GotoMoves, StopMoves, Phases
<1>3. hand[d] = <<>>
  BY DEF IInv, PlacedInv, Placed, Uploading, Deleting, Fetching
<1>4. Placed(d)'
  BY <1>2, <1>3, PlacedEmpty, Phases
<1> QED
  BY <1>2, <1>4 DEF Moves

LEMMA NothingToPushKeeps ==
  ASSUME IInv, NEW d \in Devices, NothingToPush(d)
  PROVE  IInv'
<1>1. Moves(d) /\ Placed(d)'
  BY PushMoves DEF NothingToPush
<1> HIDE DEF Moves
<1> QED
  BY <1>1, RemoteStill DEF NothingToPush

LEMMA PushKeeps ==
  ASSUME IInv, NEW d \in Devices, Push(d)
  PROVE  IInv'
<1>1. /\ TypeOK /\ UNCHANGED <<remote, store, command, bounds, history>>
      /\ Sending(d) /\ failures' \in 0 .. MaxFailures /\ edits' = edits
  BY DEF IInv, Push, TypeOK, bounds
<1>2. \/ UNCHANGED <<server, record>>
      \/ Accepted(d)
      \/ Replayed(d)
  BY <1>1 DEF Push, Pushed, Sending, Accepted, Replayed
<1>3. Goto(d, "pull last") \/ Goto(d, "pull again") \/ Stop(d)
  BY DEF Push, Pushed
<1>4. /\ Moves(d) /\ Placed(d)'
      /\ \A e \in Devices : (pc'[e] = pc[e] /\ hand'[e] = hand[e]) \/ Placed(e)'
  BY <1>1, <1>3, PushMoves DEF Sending
<1> HIDE DEF Moves
<1> QED
  BY <1>1, <1>2, <1>4, RemoteStill, AcceptedKeeps, ReplayedKeeps

LEMMA PushUnansweredKeeps ==
  ASSUME IInv, NEW d \in Devices, PushUnanswered(d)
  PROVE  IInv'
<1>1. Sending(d) /\ Stop(d) /\ TypeOK
  BY DEF PushUnanswered, IInv
<1>2. failures' \in 0 .. MaxFailures
  BY <1>1, AttachmentSyncAssumption DEF PushUnanswered, TypeOK
<1>3. Accepted(d)
  BY <1>1, <1>2 DEF PushUnanswered, Accepted, Sending
<1>4. /\ Moves(d)
      /\ \A e \in Devices : (pc'[e] = pc[e] /\ hand'[e] = hand[e]) \/ Placed(e)'
  BY <1>1, PushMoves DEF Sending
<1> HIDE DEF Moves
<1> QED
  BY <1>3, <1>4, AcceptedKeeps
-----------------------------------------------------------------------------
(* The user's commands.                                                    *)
LEMMA Commands ==
  ASSUME TypeOK, NEW d \in Devices
  PROVE  /\ Importing(d) =>
              command[d].attachment \in Attachments /\ command[d].copy \in SUBSET Attachments
         /\ command[d].next = "delete" => command[d].copy \in SUBSET Attachments
         /\ Idle(d) <=> command[d].next = "none"
         /\ command[d].next = "none" => ~Importing(d) /\ ~Unqueued(d) /\ ~Queued(d)
         /\ item[d] # None => item[d] \in SUBSET Attachments
         /\ shown[d] # None => shown[d] \in SUBSET Attachments
<1>1. command[d] \in CommandState /\ item[d] \in Content /\ shown[d] \in Content
  BY DEF TypeOK
<1> QED
  BY <1>1 DEF CommandState, AtRest, Idle, Importing, Unqueued, Queued, Content

(* A command that changes what is stored on its device.                    *)
LEMMA CommandKeeps ==
  ASSUME IInv, NEW d \in Devices, TypeOK', CountInv', VersionInv', LiveInv', HoldInv',
         UNCHANGED <<server, remote, sync>>,
         excuses \subseteq excuses', imported \subseteq imported',
         \A e \in Devices : e # d =>
           command'[e] = command[e] /\ uploads'[e] = uploads[e] /\ row'[e] = row[e],
         \A e \in Devices : blob[e] \subseteq blob'[e],
         uploads'[d] \subseteq uploads[d] \union imported',
         Importing(d)' =>
           \/ Importing(d) /\ command'[d].attachment = command[d].attachment
           \/ /\ command'[d].attachment \in imported' \ imported
              /\ Maker[command'[d].attachment] = d,
         Unqueued(d)' =>
           /\ command'[d].attachment \notin uploads'[d]
           /\ \/ Unqueued(d) /\ command'[d].attachment = command[d].attachment
              \/ command'[d].attachment \notin Listed(d),
         \A x \in Listed(d) : InDeletion(d) => x \in uploads[d] \/ x \notin uploads'[d],
         pc[d] = "unlink" => row'[d][At(d)] = row[d][At(d)],
         \A x \in Needed' : Live => x \in Needed \/ Safe(x)',
         \A x \in Attachments : Live /\ Safe(x) => Safe(x)',
         \A x \in Traces' : x \in Traces \/ Settled(x)'
  PROVE  IInv'
<1> USE DEF IInv
<1>1. (Live' => Live) /\ pc' = pc /\ hand' = hand
  BY DEF Live, sync
<1>2. RefInv'
  BY <1>1, RefStep
<1>3. \A e \in Devices : e # d =>
        Importing(e)' = Importing(e) /\ Unqueued(e)' = Unqueued(e)
  BY DEF Importing, Unqueued
<1>4. \A x : Settled(x) => Settled(x)'
  <2>1. \A e \in Devices : Importing(e)' =>
          \/ command'[e].attachment \notin imported
          \/ Importing(e) /\ command'[e].attachment = command[e].attachment
    BY <1>3
  <2> QED
    BY <2>1, SettledStays
<1>5. MakingInv'
  <2>1. \A e \in Devices : uploads'[e] \subseteq uploads[e] \union imported'
    OBVIOUS
  <2>2. \A e \in Devices : Importing(e)' =>
          \/ command'[e].attachment \in imported' /\ Maker[command'[e].attachment] = e
          \/ Importing(e) /\ command'[e].attachment = command[e].attachment
    BY <1>3
  <2>3. \A e \in Devices : Unqueued(e)' =>
          \/ command'[e].attachment \notin uploads'[e]
          \/ /\ Unqueued(e) /\ command'[e].attachment = command[e].attachment
             /\ uploads'[e] \subseteq uploads[e]
    BY <1>3
  <2> QED
    BY <1>4, <2>1, <2>2, <2>3, MakingStep
<1>6. ASSUME NEW e \in Devices PROVE Placed(e)'
  <2>1. Placed(e) /\ pc'[e] = pc[e] /\ hand'[e] = hand[e]
    BY <1>1 DEF PlacedInv
  <2>2. \A x \in Listed(e) : InDeletion(e) => x \in uploads[e] \/ x \notin uploads'[e]
    BY <2>1
  <2>3. Unqueued(e)' =>
          \/ Unqueued(e) /\ command'[e].attachment = command[e].attachment
          \/ command'[e].attachment \notin Listed(e)
    BY <1>3
  <2>4. pc[e] = "unlink" => row'[e][At(e)] = row[e][At(e)]
    OBVIOUS
  <2>5. pc[e] = "import" /\ At(e) \in blob[e] => At(e) \in blob'[e]
    OBVIOUS
  <2> QED
    BY <1>1, <1>4, <2>1, <2>2, <2>3, <2>4, <2>5, PlacedStays
<1> QED
  BY <1>2, <1>5, <1>6 DEF PlacedInv

(* A command that touches neither the record nor the edits.                *)
LEMMA RecordFrame ==
  ASSUME IInv, UNCHANGED <<server, record, deletions, excuses>>
  PROVE  VersionInv' /\ LiveInv'
BY VersionFrame, LiveFrame DEF IInv

LEMMA BusyStays ==
  ASSUME TypeOK, CountInv, NEW d \in Devices, UNCHANGED <<server, dirty, unanswered, edits>>,
         command[d].next # "none" \/ command'[d].next = "none",
         \A e \in Devices : e # d => command'[e] = command[e]
  PROVE  CountInv'
<1>1. Dirty' \subseteq Dirty /\ Busy' \subseteq Busy
  BY DEF Dirty, Busy
<1>2. Dirty' \subseteq Dirty \union {d} /\ Busy' \subseteq Busy \union {d}
  BY <1>1
<1> QED
  BY <1>1, <1>2, CountStep

LEMMA ImportKeeps ==
  ASSUME IInv, NEW d \in Devices, NEW x \in Attachments, Import(d, x)
  PROVE  IInv'
<1>1. TypeOK /\ CountInv
  BY DEF IInv
<1>2. /\ UNCHANGED <<server, remote, record, sync, row, described, uploads, deletions>>
      /\ UNCHANGED <<item, shown, dirty, unanswered, version, cursor, conflict, pc, hand>>
      /\ UNCHANGED <<failures, refused, excuses>>
      /\ edits < MaxEdits /\ edits' = edits + 1
      /\ imported' = imported \union {x} /\ x \notin imported /\ Maker[x] = d
      /\ command[d] = AtRest /\ shown[d] # None
  BY DEF Import, Count, record, sync, Idle
<1> DEFINE c == [next |-> "row", attachment |-> x, copy |-> shown[d]]
<1>3. /\ command' = [command EXCEPT ![d] = c]
      /\ blob' = [blob EXCEPT ![d] = @ \union {x}]
  BY DEF Import, Add
<1>4. shown[d] \in SUBSET Attachments /\ c \in CommandState
  <2>1. shown[d] \in SUBSET Attachments
    BY <1>1, <1>2, Commands
  <2> QED
    BY <2>1 DEF CommandState
<1>5. /\ c.next = "row" /\ c.attachment = x /\ c.copy = shown[d]
  OBVIOUS
<1> HIDE DEF c
<1>6. /\ command' \in [Devices -> CommandState] /\ command'[d] = c
      /\ \A e \in Devices : e # d => command'[e] = command[e]
      /\ blob' \in [Devices -> SUBSET Attachments] /\ x \in blob'[d]
      /\ \A e \in Devices : blob[e] \subseteq blob'[e]
  BY <1>1, <1>3, <1>4 DEF TypeOK
<1>7. TypeOK'
  BY <1>1, <1>2, <1>6, Numbers DEF TypeOK
<1>8. CountInv'
  <2>1. Dirty' = Dirty /\ Busy' \subseteq Busy \union {d}
    BY <1>2, <1>6 DEF Dirty, Busy
  <2> QED
    BY <1>1, <1>2, <2>1, CountStep
<1>9. VersionInv' /\ LiveInv'
  BY <1>2, RecordFrame
<1>10. HoldInv'
  BY <1>2, <1>5, <1>6 DEF IInv, HoldInv
<1>11. Referenced' \subseteq Referenced
  <2>1. \A e \in Devices : References(e)' \subseteq References(e)
    BY <1>2, <1>5, <1>6 DEF References, Opposed, In
  <2> QED
    BY <1>2, <2>1 DEF Referenced, In
<1>12. Needed' \subseteq Needed
  <2>1. \A e \in Devices : Queued(e)' => Queued(e) /\ command'[e] = command[e]
    BY <1>5, <1>6 DEF Queued
  <2> QED
    BY <1>11, <2>1 DEF Needed
<1>13. Traces' \subseteq Traces
  BY <1>2, <1>11 DEF Traces
<1>14. \A y \in Attachments : Safe(y) => Safe(y)'
  BY <1>2, SafeFrame
<1>15. x \notin Listed(d) /\ x \notin uploads[d]
  BY <1>2 DEF IInv, PlacedInv, Placed, MakingInv
<1> QED
  BY <1>2, <1>5, <1>6, <1>7, <1>8, <1>9, <1>10, <1>12, <1>13, <1>14, <1>15, CommandKeeps

(* The steps of an import, after the file.                                 *)
LEMMA ThenFacts ==
  ASSUME TypeOK, NEW d \in Devices, Importing(d),
         NEW next \in {"row", "queue", "describe", "attach"}, Then(d, next)
  PROVE  /\ command' \in [Devices -> CommandState]
         /\ command'[d].next = next
         /\ command'[d].attachment = command[d].attachment
         /\ command'[d].copy = command[d].copy
         /\ \A e \in Devices : e # d => command'[e] = command[e]
<1> DEFINE c == [command[d] EXCEPT !.next = next]
<1>1. command[d] \in CommandState /\ command[d].next \in {"row", "queue", "describe", "attach"}
  BY DEF TypeOK, Importing
<1>2. command[d] \in [next : {"row", "queue", "describe", "attach"}, attachment : Attachments,
                      copy : SUBSET Attachments]
  BY <1>1 DEF CommandState, AtRest
<1>3. /\ c \in CommandState /\ c.next = next
      /\ c.attachment = command[d].attachment /\ c.copy = command[d].copy
  BY <1>2 DEF CommandState
<1>4. command' = [command EXCEPT ![d] = c]
  BY DEF Then
<1> HIDE DEF c
<1> QED
  BY <1>3, <1>4 DEF TypeOK

LEMMA ReferencedStay ==
  ASSUME UNCHANGED <<server, item, shown, conflict, deletions>>,
         \A d \in Devices : command'[d].copy = command[d].copy
  PROVE  Referenced' = Referenced /\ Traces' = Traces
<1>1. \A d \in Devices : References(d)' = References(d)
  BY DEF References, Opposed, In
<1>2. Referenced' = Referenced
  BY <1>1 DEF Referenced, In
<1> QED
  BY <1>2 DEF Traces

LEMMA ImportRowKeeps ==
  ASSUME IInv, NEW d \in Devices, ImportRow(d)
  PROVE  IInv'
<1> DEFINE x == command[d].attachment
<1>1. /\ TypeOK /\ CountInv /\ command[d].next = "row" /\ Importing(d) /\ Unqueued(d)
      /\ Then(d, "queue") /\ row' = [row EXCEPT ![d][x] = "pending"]
  BY DEF IInv, ImportRow, Importing, Unqueued
<1>2. /\ UNCHANGED <<server, remote, record, sync, described, blob, uploads, deletions, bounds,
                     history, imported, refused, excuses, edits, failures>>
      /\ UNCHANGED <<item, shown, dirty, unanswered, version, cursor, conflict, pc, hand>>
  BY DEF ImportRow, record, sync, bounds, history
<1>3. x \in Attachments /\ x \in blob[d] /\ x \notin uploads[d] /\ x \notin Listed(d)
  BY <1>1, Commands DEF IInv, HoldInv, MakingInv, PlacedInv, Placed
<1>4. /\ command' \in [Devices -> CommandState]
      /\ command'[d].next = "queue" /\ command'[d].attachment = x
      /\ command'[d].copy = command[d].copy
      /\ \A e \in Devices : e # d => command'[e] = command[e]
  BY <1>1, ThenFacts
<1>5. /\ row' \in [Devices -> [Attachments -> {"none", "pending", "synced"}]]
      /\ row'[d][x] = "pending"
      /\ \A y \in Attachments : y # x => row'[d][y] = row[d][y]
      /\ \A e \in Devices : e # d => row'[e] = row[e]
  BY <1>1, <1>3 DEF TypeOK
<1> HIDE DEF x
<1>6. TypeOK'
  BY <1>1, <1>2, <1>4, <1>5 DEF TypeOK
<1>7. CountInv'
  BY <1>1, <1>2, <1>4, BusyStays
<1>8. VersionInv' /\ LiveInv'
  BY <1>2, RecordFrame
<1>9. HoldInv'
  <2>1. ASSUME NEW e \in Devices
        PROVE  /\ \A y \in uploads'[e] :
                    row'[e][y] = "pending" /\ Maker[y] = e /\ y \notin deletions'[e]
               /\ \A y \in Attachments : row'[e][y] # "none" => y \in blob'[e]
               /\ command'[e].next = "row" => command'[e].attachment \in blob'[e]
               /\ command'[e].next = "queue" => row'[e][command'[e].attachment] = "pending"
    <3>1. \A y \in uploads[e] : y \in Attachments
      BY <1>1 DEF TypeOK
    <3>2. CASE e = d
      BY <1>2, <1>3, <1>4, <1>5, <3>1, <3>2 DEF IInv, HoldInv
    <3>3. CASE e # d
      BY <1>2, <1>4, <1>5, <3>3 DEF IInv, HoldInv
    <3> QED
      BY <3>2, <3>3
  <2> QED
    BY <2>1 DEF HoldInv
<1>10. Referenced' = Referenced /\ Traces' = Traces
  BY <1>2, <1>4, ReferencedStay
<1>11. Needed' \subseteq Needed
  <2>1. \A e \in Devices : Queued(e)' => Queued(e) /\ command'[e] = command[e]
    BY <1>4 DEF Queued
  <2> QED
    BY <1>10, <2>1 DEF Needed
<1>12. \A y \in Attachments : Safe(y) => Safe(y)'
  BY <1>2, SafeFrame
<1>13. ASSUME pc[d] = "unlink" PROVE row'[d][At(d)] = row[d][At(d)]
  <2>1. pc[d] \in Deleting
    BY <1>13 DEF Deleting
  <2>2. At(d) \in Attachments /\ At(d) \in Listed(d)
    BY <2>1, InDeletionFacts
  <2> QED
    BY <1>3, <1>5, <2>2
<1>14. Importing(d)' /\ Unqueued(d)'
  BY <1>4 DEF Importing, Unqueued
<1> QED
  BY <1>1, <1>2, <1>3, <1>4, <1>5, <1>6, <1>7, <1>8, <1>9, <1>10, <1>11, <1>12, <1>13, <1>14,
     CommandKeeps DEF x

LEMMA ImportQueueKeeps ==
  ASSUME IInv, NEW d \in Devices, ImportQueue(d)
  PROVE  IInv'
<1>1. PICK x : x = command[d].attachment
  OBVIOUS
<1>2. /\ TypeOK /\ CountInv /\ command[d].next = "queue" /\ Importing(d) /\ Unqueued(d)
      /\ Then(d, "describe") /\ uploads' = [uploads EXCEPT ![d] = @ \union {x}]
  BY <1>1 DEF IInv, ImportQueue, Importing, Unqueued, Add
<1>3. /\ UNCHANGED <<server, remote, record, sync, row, described, blob, deletions, bounds,
                     history, imported, refused, excuses, edits, failures>>
      /\ UNCHANGED <<item, shown, dirty, unanswered, version, cursor, conflict, pc, hand>>
  BY DEF ImportQueue, record, sync, bounds, history
<1>4. /\ x \in Attachments /\ x \in imported /\ Maker[x] = d /\ row[d][x] = "pending"
      /\ x \notin Listed(d)
  BY <1>1, <1>2, Commands DEF IInv, HoldInv, MakingInv, PlacedInv, Placed
<1>5. x \notin deletions[d]
  <2>1. ~Settled(x)
    BY <1>1, <1>2 DEF Settled
  <2> QED
    BY <2>1 DEF IInv, MakingInv, Traces
<1>6. /\ command' \in [Devices -> CommandState]
      /\ command'[d].next = "describe" /\ command'[d].attachment = x
      /\ command'[d].copy = command[d].copy
      /\ \A e \in Devices : e # d => command'[e] = command[e]
  BY <1>1, <1>2, ThenFacts
<1>7. /\ uploads' \in [Devices -> SUBSET Attachments]
      /\ uploads'[d] = uploads[d] \union {x}
      /\ \A e \in Devices : e # d => uploads'[e] = uploads[e]
  BY <1>2, <1>4 DEF TypeOK
<1>8. TypeOK'
  BY <1>2, <1>3, <1>6, <1>7 DEF TypeOK
<1>9. CountInv'
  BY <1>2, <1>3, <1>6, BusyStays
<1>20. VersionInv' /\ LiveInv'
  BY <1>3, RecordFrame
<1>21. HoldInv'
  <2>1. ASSUME NEW e \in Devices
        PROVE  /\ \A y \in uploads'[e] :
                    row'[e][y] = "pending" /\ Maker[y] = e /\ y \notin deletions'[e]
               /\ \A y \in Attachments : row'[e][y] # "none" => y \in blob'[e]
               /\ command'[e].next = "row" => command'[e].attachment \in blob'[e]
               /\ command'[e].next = "queue" => row'[e][command'[e].attachment] = "pending"
    <3>1. CASE e = d
      BY <1>3, <1>4, <1>5, <1>6, <1>7, <3>1 DEF IInv, HoldInv
    <3>2. CASE e # d
      BY <1>3, <1>6, <1>7, <3>2 DEF IInv, HoldInv
    <3> QED
      BY <3>1, <3>2
  <2> QED
    BY <2>1 DEF HoldInv
<1>22. Referenced' = Referenced /\ Traces' = Traces
  BY <1>3, <1>6, ReferencedStay
<1>23. Safe(x)'
  BY <1>7 DEF Safe
<1>24. Needed' \subseteq Needed \union {x}
  <2>1. \A e \in Devices : Queued(e)' =>
          (Queued(e) /\ command'[e] = command[e]) \/ command'[e].attachment = x
    BY <1>6 DEF Queued
  <2> QED
    BY <1>22, <2>1 DEF Needed
<1>25. \A y \in Attachments : Safe(y) => Safe(y)'
  <2>1. \A e \in Devices : uploads[e] \subseteq uploads'[e]
    BY <1>7
  <2> QED
    BY <1>3, <2>1 DEF Safe, Complete
<1>26. Importing(d)' /\ ~Unqueued(d)'
  BY <1>6 DEF Importing, Unqueued
<1> QED
  BY <1>1, <1>2, <1>3, <1>4, <1>6, <1>7, <1>8, <1>9, <1>20, <1>21, <1>22, <1>23, <1>24, <1>25, <1>26,
     CommandKeeps

LEMMA ImportDescribeKeeps ==
  ASSUME IInv, NEW d \in Devices, ImportDescribe(d)
  PROVE  IInv'
<1> DEFINE x == command[d].attachment
<1>1. /\ TypeOK /\ CountInv /\ command[d].next = "describe" /\ Importing(d) /\ Queued(d)
      /\ Then(d, "attach") /\ described' = [described EXCEPT ![d] = @ \union {x}]
  BY DEF IInv, ImportDescribe, Importing, Queued, Add
<1>2. /\ UNCHANGED <<server, remote, record, sync, row, blob, uploads, deletions, bounds,
                     history, imported, refused, excuses, edits, failures>>
      /\ UNCHANGED <<item, shown, dirty, unanswered, version, cursor, conflict, pc, hand>>
  BY DEF ImportDescribe, record, sync, bounds, history
<1>3. x \in Attachments
  BY <1>1, Commands
<1>4. /\ command' \in [Devices -> CommandState]
      /\ command'[d].next = "attach" /\ command'[d].attachment = x
      /\ command'[d].copy = command[d].copy
      /\ \A e \in Devices : e # d => command'[e] = command[e]
  BY <1>1, ThenFacts
<1>5. described' \in [Devices -> SUBSET Attachments]
  BY <1>1, <1>3 DEF TypeOK
<1>6. TypeOK'
  BY <1>1, <1>2, <1>4, <1>5 DEF TypeOK
<1>7. CountInv'
  BY <1>1, <1>2, <1>4, BusyStays
<1>8. VersionInv' /\ LiveInv'
  BY <1>2, RecordFrame
<1>9. HoldInv'
  BY <1>2, <1>4 DEF IInv, HoldInv
<1>10. Referenced' = Referenced /\ Traces' = Traces
  BY <1>2, <1>4, ReferencedStay
<1>11. Needed' \subseteq Needed
  <2>1. \A e \in Devices : Queued(e)' =>
          Queued(e) /\ command'[e].attachment = command[e].attachment
    BY <1>1, <1>4 DEF Queued
  <2> QED
    BY <1>10, <2>1 DEF Needed
<1>12. \A y \in Attachments : Safe(y) => Safe(y)'
  BY <1>2, SafeFrame
<1>13. Importing(d)' /\ ~Unqueued(d)'
  BY <1>4 DEF Importing, Unqueued
<1> HIDE DEF x
<1> QED
  BY <1>1, <1>2, <1>4, <1>6, <1>7, <1>8, <1>9, <1>10, <1>11, <1>12, <1>13, CommandKeeps DEF x

LEMMA Unanswered ==
  ASSUME TypeOK, NEW d \in Devices, unanswered' = [unanswered EXCEPT ![d] = 0]
  PROVE  /\ unanswered' \in [Devices -> 0 .. MaxEdits + 1] /\ unanswered'[d] = 0
         /\ \A e \in Devices : e # d => unanswered'[e] = unanswered[e]
<1> DEFINE U == 0 .. MaxEdits + 1
<1>1. unanswered \in [Devices -> U] /\ 0 \in U
  BY AttachmentSyncAssumption DEF TypeOK
<1> HIDE DEF U
<1>2. /\ unanswered' \in [Devices -> U] /\ unanswered'[d] = 0
      /\ \A e \in Devices : e # d => unanswered'[e] = unanswered[e]
  BY <1>1
<1> QED
  BY <1>2 DEF U

LEMMA NewRow ==
  ASSUME TypeOK, VersionInv, NEW d \in Devices, UNCHANGED <<server, version, conflict>>,
         unanswered'[d] = 0, dirty'[d] # "none",
         dirty'[d] = "upsert" => item'[d] # None, dirty'[d] = "delete" => item'[d] = None,
         \A e \in Devices : e # d =>
           item'[e] = item[e] /\ dirty'[e] = dirty[e] /\ unanswered'[e] = unanswered[e]
  PROVE  VersionInv'
<1>1. server.version \in Nat /\ server.version >= 1
  BY DEF TypeOK, Version
<1>2. ASSUME NEW e \in Devices
      PROVE  /\ version'[e] <= server'.version /\ unanswered'[e] <= server'.version
             /\ unanswered'[e] # 0 => dirty'[e] # "none"
             /\ unanswered'[e] = server'.version =>
                  server'.device = e /\ server'.content = item'[e]
             /\ dirty'[e] = "upsert" => item'[e] # None
             /\ dirty'[e] = "delete" => item'[e] = None
             /\ conflict'[e] # None =>
                  /\ dirty'[e] # "none" /\ server'.device # e
                  /\ version'[e] < conflict'[e].version
                  /\ conflict'[e].version <= server'.version
                  /\ conflict'[e].version = server'.version => conflict'[e] = server'
  <2>1. CASE e = d
    BY <1>1, <2>1 DEF VersionInv
  <2>2. CASE e # d
    BY <2>2 DEF VersionInv
  <2> QED
    BY <2>1, <2>2
<1> QED
  BY <1>2 DEF VersionInv

LEMMA DeleteRecordKeeps ==
  ASSUME IInv, NEW d \in Devices, DeleteRecord(d)
  PROVE  IInv'
<1> DEFINE S == command[d].copy
<1>1. /\ TypeOK /\ CountInv /\ VersionInv /\ LiveInv /\ HoldInv /\ command[d].next = "delete"
      /\ command' = [command EXCEPT ![d] = AtRest]
  BY DEF IInv, DeleteRecord
<1>2. /\ UNCHANGED <<server, remote, version, cursor, conflict, sync, row, described, blob,
                     bounds, history>>
      /\ UNCHANGED <<pc, hand, imported, refused, excuses, edits, failures>>
  BY DEF DeleteRecord, sync, bounds, history
<1>3. /\ command' \in [Devices -> CommandState]
      /\ command'[d] = AtRest /\ command'[d].next = "none" /\ command'[d].copy = None
      /\ \A e \in Devices : e # d => command'[e] = command[e]
  BY <1>1 DEF TypeOK, CommandState, AtRest
<1>4. ~Importing(d)' /\ ~Unqueued(d)' /\ ~Queued(d)'
  BY <1>3 DEF Importing, Unqueued, Queued
<1>5. S \in SUBSET Attachments
  BY <1>1, Commands
<1>6. S \subseteq Referenced
  <2>1. S # None
    BY <1>5, NoneAssumption
  <2> QED
    BY <2>1 DEF Referenced, References, In
<1>7. CASE item[d] = None
  <2>1. UNCHANGED <<item, shown, dirty, unanswered, uploads, deletions>>
    BY <1>7 DEF DeleteRecord
  <2>2. TypeOK'
    BY <1>1, <1>2, <1>3, <2>1 DEF TypeOK
  <2>3. CountInv'
    BY <1>1, <1>2, <1>3, <2>1, BusyStays
  <2>4. VersionInv' /\ LiveInv'
    BY <1>2, <2>1, RecordFrame DEF record
  <2>5. Referenced' \subseteq Referenced
    <3>1. \A e \in Devices : References(e)' \subseteq References(e)
      BY <1>2, <1>3, <2>1 DEF References, Opposed, In
    <3> QED
      BY <1>2, <3>1 DEF Referenced, In
  <2>6. Needed' \subseteq Needed /\ Traces' \subseteq Traces
    <3>1. \A e \in Devices : Queued(e)' => Queued(e) /\ command'[e] = command[e]
      BY <1>3, <1>4 DEF Queued
    <3> QED
      BY <2>1, <2>5, <3>1 DEF Needed, Traces
  <2>7. \A y \in Attachments : Safe(y) => Safe(y)'
    BY <1>2, <2>1, SafeFrame
  <2>8. HoldInv'
    BY <1>1, <1>2, <1>3, <2>1 DEF HoldInv
  <2> QED
    BY <1>2, <1>3, <1>4, <2>1, <2>2, <2>3, <2>4, <2>6, <2>7, <2>8, CommandKeeps
<1>8. CASE item[d] # None
  <2>1. /\ item' = [item EXCEPT ![d] = None] /\ shown' = [shown EXCEPT ![d] = None]
        /\ dirty' = [dirty EXCEPT ![d] = "delete"]
        /\ unanswered' = [unanswered EXCEPT ![d] = 0]
        /\ uploads' = [uploads EXCEPT ![d] = uploads[d] \ S]
        /\ deletions' = [deletions EXCEPT ![d] = @ \union S]
    BY <1>8 DEF DeleteRecord, UploadsLeft
  <2>2. /\ item' \in [Devices -> Content] /\ dirty' \in [Devices -> {"none", "upsert", "delete"}]
        /\ item'[d] = None /\ dirty'[d] = "delete"
        /\ \A e \in Devices : e # d => item'[e] = item[e] /\ dirty'[e] = dirty[e]
    BY <1>1, <2>1 DEF TypeOK, Content
  <2>13. /\ shown' \in [Devices -> Content] /\ shown'[d] = None
         /\ \A e \in Devices : e # d => shown'[e] = shown[e]
    BY <1>1, <2>1 DEF TypeOK, Content
  <2>14. /\ unanswered' \in [Devices -> 0 .. MaxEdits + 1] /\ unanswered'[d] = 0
         /\ \A e \in Devices : e # d => unanswered'[e] = unanswered[e]
    BY <1>1, <2>1, Unanswered
  <2>3. /\ uploads' \in [Devices -> SUBSET Attachments]
        /\ deletions' \in [Devices -> SUBSET Attachments]
        /\ uploads'[d] = uploads[d] \ S /\ deletions'[d] = deletions[d] \union S
        /\ \A e \in Devices :
             e # d => uploads'[e] = uploads[e] /\ deletions'[e] = deletions[e]
    BY <1>1, <1>5, <2>1 DEF TypeOK
  <2> HIDE DEF S
  <2>4. TypeOK'
    BY <1>1, <1>2, <1>3, <2>2, <2>3, <2>13, <2>14 DEF TypeOK
  <2>5. CountInv'
    <3>1. d \in Busy /\ Busy' \subseteq Busy \ {d} /\ Dirty' \subseteq Dirty \union {d}
      BY <1>1, <1>3, <2>2, <2>14 DEF Dirty, Busy
    <3>2. Busy' \subseteq Busy \union {d}
      BY <3>1
    <3> QED
      BY <1>1, <1>2, <3>1, <3>2, CountStep
  <2>6. VersionInv'
    BY <1>1, <1>2, <2>2, <2>14, NewRow
  <2>7. LiveInv'
    BY <1>1, <1>2, <2>2, <2>3, <2>14 DEF LiveInv, Live
  <2>8. Referenced' \subseteq Referenced
    <3>1. \A e \in Devices : References(e)' \subseteq References(e)
      BY <1>2, <1>3, <2>2, <2>13 DEF References, Opposed, In
    <3> QED
      BY <1>2, <3>1 DEF Referenced, In
  <2>9. Needed' \subseteq Needed
    <3>1. \A e \in Devices : Queued(e)' => Queued(e) /\ command'[e] = command[e]
      BY <1>3, <1>4 DEF Queued
    <3> QED
      BY <2>8, <3>1 DEF Needed
  <2>10. Traces' \subseteq Traces
    <3>1. \A e \in Devices : deletions'[e] \subseteq deletions[e] \union Referenced
      BY <1>6, <2>3 DEF S
    <3> QED
      BY <2>8, <3>1 DEF Traces
  <2>11. ASSUME NEW y \in Attachments, Safe(y) PROVE Safe(y)'
    <3>1. CASE Complete(y)
      BY <1>2, <3>1 DEF Safe, Complete
    <3>2. ASSUME NEW e \in Devices, y \in uploads[e] PROVE Safe(y)'
      BY <2>2, <2>3, <3>2 DEF Safe
    <3>3. ASSUME NEW e \in Devices, y \in deletions[e], dirty[e] = "delete" PROVE Safe(y)'
      BY <2>2, <2>3, <3>3 DEF Safe
    <3> QED
      BY <2>11, <3>1, <3>2, <3>3 DEF Safe
  <2>12. HoldInv'
    <3>1. ASSUME NEW e \in Devices
          PROVE  \A y \in uploads'[e] :
                   row'[e][y] = "pending" /\ Maker[y] = e /\ y \notin deletions'[e]
      BY <1>1, <1>2, <2>3 DEF HoldInv
    <3>2. ASSUME NEW e \in Devices
          PROVE  /\ \A y \in Attachments : row'[e][y] # "none" => y \in blob'[e]
                 /\ command'[e].next = "row" => command'[e].attachment \in blob'[e]
                 /\ command'[e].next = "queue" => row'[e][command'[e].attachment] = "pending"
      BY <1>1, <1>2, <1>3 DEF HoldInv
    <3> QED
      BY <3>1, <3>2 DEF HoldInv
  <2> QED
    BY <1>2, <1>3, <1>4, <2>3, <2>4, <2>5, <2>6, <2>7, <2>9, <2>10, <2>11, <2>12, CommandKeeps
<1> QED
  BY <1>7, <1>8

(* A save of the record, whatever it refers to then. A record that was gone*)
(* is revived; one that was not is of a device without deletions to carry  *)
(* out while it is live.                                                   *)
LEMMA SavedFacts ==
  ASSUME IInv, NEW d \in Devices, NEW content \in SUBSET Attachments, Save(d, content),
         UNCHANGED <<server, remote, version, cursor, conflict, store, imported, refused>>
  PROVE  /\ item' \in [Devices -> Content] /\ shown' \in [Devices -> Content]
         /\ dirty' \in [Devices -> {"none", "upsert", "delete"}]
         /\ unanswered' \in [Devices -> 0 .. MaxEdits + 1]
         /\ excuses' \subseteq {"choice", "revival"}
         /\ VersionInv' /\ LiveInv' /\ (Live' => Live)
         /\ \A x \in Attachments : Live' /\ Safe(x) => Safe(x)'
         /\ \A e \in Devices : References(e)' \subseteq
              In(command'[e].copy) \union In(item[e]) \union In(shown[e]) \union Opposed(e)
                \union (IF e = d THEN content ELSE {})
         /\ Dirty' \subseteq Dirty \union {d}
<1>1. TypeOK /\ VersionInv /\ LiveInv
  BY DEF IInv
<1>2. /\ item' \in [Devices -> Content] /\ dirty' \in [Devices -> {"none", "upsert", "delete"}]
      /\ item'[d] = content /\ dirty'[d] = "upsert" /\ content # None
      /\ \A e \in Devices : e # d => item'[e] = item[e] /\ dirty'[e] = dirty[e]
  BY <1>1, NoneAssumption DEF TypeOK, Save, Content
<1>3. /\ shown' \in [Devices -> Content] /\ shown'[d] = content
      /\ \A e \in Devices : e # d => shown'[e] = shown[e]
  BY <1>1 DEF TypeOK, Save, Content
<1>4. /\ unanswered' \in [Devices -> 0 .. MaxEdits + 1] /\ unanswered'[d] = 0
      /\ \A e \in Devices : e # d => unanswered'[e] = unanswered[e]
  BY <1>1, Unanswered DEF Save
<1>5. /\ UNCHANGED <<server, remote, version, conflict>>
      /\ uploads' = uploads /\ deletions' = deletions
      /\ excuses' = excuses \union (IF item[d] = None THEN {"revival"} ELSE {})
  BY DEF Save, store
<1>6. excuses' = {} => excuses = {} /\ item[d] # None /\ dirty[d] # "delete"
  BY <1>1, <1>5 DEF VersionInv
<1>7. VersionInv'
  BY <1>1, <1>2, <1>4, <1>5, NewRow
<1>8. Live' => Live
  BY <1>5, <1>6 DEF Live
<1>9. LiveInv'
  <2>1. ASSUME Live', NEW e \in Devices
        PROVE  /\ conflict'[e] # None => conflict'[e].content # None
               /\ deletions'[e] # {} => dirty'[e] = "delete"
               /\ unanswered'[e] # 0 => dirty'[e] # "delete"
    <3>1. Live /\ excuses' = {}
      BY <1>8, <2>1 DEF Live
    <3> QED
      BY <1>1, <1>2, <1>4, <1>5, <1>6, <3>1 DEF LiveInv
  <2>2. ASSUME excuses' = {}, server'.content = None, NEW e \in Devices,
               version'[e] = server'.version \/ server'.device = e
        PROVE  item'[e] = None
    BY <1>1, <1>2, <1>5, <1>6, <2>2 DEF LiveInv
  <2> QED
    BY <2>1, <2>2 DEF LiveInv
<1>10. ASSUME NEW x \in Attachments, Live', Safe(x) PROVE Safe(x)'
  <2>1. dirty[d] # "delete"
    BY <1>6, <1>10 DEF Live
  <2> QED
    BY <1>2, <1>5, <1>10, <2>1 DEF Safe, Complete
<1>11. ASSUME NEW e \in Devices
       PROVE  References(e)' \subseteq
                In(command'[e].copy) \union In(item[e]) \union In(shown[e]) \union Opposed(e)
                  \union (IF e = d THEN content ELSE {})
  <2>1. Opposed(e)' = Opposed(e) /\ In(command[e].copy)' = In(command'[e].copy)
    BY <1>5 DEF Opposed, In
  <2>2. /\ In(item[e])' \subseteq In(item[e]) \union (IF e = d THEN content ELSE {})
        /\ In(shown[e])' \subseteq In(shown[e]) \union (IF e = d THEN content ELSE {})
    BY <1>2, <1>3 DEF In
  <2> QED
    BY <2>1, <2>2 DEF References
<1>12. Dirty' \subseteq Dirty \union {d}
  BY <1>2, <1>4 DEF Dirty
<1>13. excuses' \subseteq {"choice", "revival"}
  BY <1>1, <1>5 DEF TypeOK
<1> QED
  BY <1>2, <1>3, <1>4, <1>7, <1>8, <1>9, <1>10, <1>11, <1>12, <1>13

LEMMA EditKeeps ==
  ASSUME IInv, NEW d \in Devices, Edit(d)
  PROVE  IInv'
<1>1. TypeOK /\ CountInv
  BY DEF IInv
<1>2. /\ UNCHANGED <<server, remote, version, cursor, conflict, store, sync, command, imported,
                     refused>>
      /\ UNCHANGED <<pc, hand, row, described, blob, uploads, deletions, failures>>
      /\ edits < MaxEdits /\ edits' = edits + 1
      /\ shown[d] # None /\ Save(d, shown[d])
  BY DEF Edit, Count, store, sync
<1>3. shown[d] \in SUBSET Attachments /\ In(shown[d]) = shown[d]
  BY <1>1, <1>2, Commands DEF In
<1>4. /\ item' \in [Devices -> Content] /\ shown' \in [Devices -> Content]
      /\ dirty' \in [Devices -> {"none", "upsert", "delete"}]
      /\ unanswered' \in [Devices -> 0 .. MaxEdits + 1]
      /\ excuses' \subseteq {"choice", "revival"}
      /\ VersionInv' /\ LiveInv' /\ (Live' => Live)
      /\ \A x \in Attachments : Live' /\ Safe(x) => Safe(x)'
      /\ \A e \in Devices : References(e)' \subseteq
           In(command'[e].copy) \union In(item[e]) \union In(shown[e]) \union Opposed(e)
             \union (IF e = d THEN shown[d] ELSE {})
      /\ Dirty' \subseteq Dirty \union {d}
  BY <1>2, <1>3, SavedFacts
<1>5. TypeOK'
  BY <1>1, <1>2, <1>4, Numbers DEF TypeOK
<1>6. CountInv'
  <2>1. Busy' = Busy
    BY <1>2 DEF Busy
  <2>2. Busy' \subseteq Busy \union {d}
    BY <2>1
  <2> QED
    BY <1>1, <1>2, <1>4, <2>1, <2>2, CountStep
<1>7. Referenced' \subseteq Referenced
  <2>1. \A e \in Devices : References(e)' \subseteq References(e)
    BY <1>2, <1>3, <1>4 DEF References
  <2> QED
    BY <1>2, <2>1 DEF Referenced, In
<1>8. Needed' \subseteq Needed /\ Traces' \subseteq Traces
  BY <1>2, <1>7 DEF Needed, Queued, Traces
<1> QED
  BY <1>2, <1>4, <1>5, <1>6, <1>8, StoreStays

LEMMA AttachKeeps ==
  ASSUME IInv, NEW d \in Devices, Attach(d)
  PROVE  IInv'
<1>1. TypeOK /\ CountInv /\ command[d].next = "attach" /\ Importing(d) /\ Queued(d)
  BY DEF IInv, Attach, Importing, Queued
<1>2. /\ UNCHANGED <<server, remote, version, cursor, conflict, store, sync, bounds, imported,
                     refused>>
      /\ UNCHANGED <<pc, hand, row, described, blob, uploads, deletions, edits, failures>>
      /\ command' = [command EXCEPT ![d] = AtRest]
  BY DEF Attach, store, sync, bounds
<1>3. /\ command' \in [Devices -> CommandState]
      /\ command'[d] = AtRest /\ command'[d].next = "none" /\ command'[d].copy = None
      /\ \A e \in Devices : e # d => command'[e] = command[e]
  BY <1>1, <1>2 DEF TypeOK, CommandState, AtRest
<1>4. ~Importing(d)' /\ ~Queued(d)'
  BY <1>3 DEF Importing, Queued
<1>5. PICK x : x = command[d].attachment
  OBVIOUS
<1>6. PICK S : S = command[d].copy
  OBVIOUS
<1>7. x \in Attachments /\ S \in SUBSET Attachments /\ S # None
  BY <1>1, <1>5, <1>6, Commands, NoneAssumption
<1>8. S \subseteq Referenced /\ x \in Needed
  <2>1. S = In(command[d].copy)
    BY <1>6, <1>7 DEF In
  <2> QED
    BY <1>1, <1>5, <2>1 DEF Referenced, References, Needed
<1>9. \A e \in Devices : Queued(e)' => Queued(e) /\ command'[e] = command[e]
  BY <1>3, <1>4 DEF Queued
<1>10. \A e \in Devices : In(command'[e].copy) \subseteq In(command[e].copy)
  BY <1>3 DEF In
<1>11. \A e \in Devices : command'[e] = command[e] \/ ~Importing(e)'
  BY <1>3, <1>4
<1>12. CASE shown[d] = None
  <2>1. UNCHANGED <<item, shown, dirty, unanswered, excuses>>
    BY <1>12 DEF Attach
  <2>2. TypeOK'
    BY <1>1, <1>2, <1>3, <2>1 DEF TypeOK
  <2>3. CountInv'
    BY <1>1, <1>2, <1>3, <2>1, BusyStays
  <2>4. VersionInv' /\ LiveInv' /\ (Live' => Live)
    BY <1>2, <2>1, RecordFrame DEF record, Live
  <2>5. Referenced' \subseteq Referenced
    <3>1. \A e \in Devices : References(e)' \subseteq References(e)
      BY <1>2, <1>3, <2>1 DEF References, Opposed, In
    <3> QED
      BY <1>2, <3>1 DEF Referenced, In
  <2>6. Needed' \subseteq Needed /\ Traces' \subseteq Traces
    BY <1>2, <1>9, <2>5 DEF Needed, Traces
  <2>7. \A y \in Attachments : Safe(y) => Safe(y)'
    BY <1>2, <2>1, SafeFrame
  <2> QED
    BY <1>2, <1>11, <2>2, <2>3, <2>4, <2>6, <2>7, StoreStays
<1>13. CASE shown[d] # None
  <2>1. Save(d, S \union {x}) /\ S \union {x} \in SUBSET Attachments
    BY <1>5, <1>6, <1>7, <1>13 DEF Attach
  <2>2. /\ item' \in [Devices -> Content] /\ shown' \in [Devices -> Content]
        /\ dirty' \in [Devices -> {"none", "upsert", "delete"}]
        /\ unanswered' \in [Devices -> 0 .. MaxEdits + 1]
        /\ excuses' \subseteq {"choice", "revival"}
        /\ VersionInv' /\ LiveInv' /\ (Live' => Live)
        /\ \A y \in Attachments : Live' /\ Safe(y) => Safe(y)'
        /\ \A e \in Devices : References(e)' \subseteq
             In(command'[e].copy) \union In(item[e]) \union In(shown[e]) \union Opposed(e)
               \union (IF e = d THEN S \union {x} ELSE {})
        /\ Dirty' \subseteq Dirty \union {d}
    BY <1>2, <2>1, SavedFacts
  <2>3. TypeOK'
    BY <1>1, <1>2, <1>3, <2>2 DEF TypeOK
  <2>4. CountInv'
    <3>1. d \in Busy /\ Busy' \subseteq Busy \ {d}
      BY <1>1, <1>3 DEF Busy
    <3>2. Busy' \subseteq Busy \union {d}
      BY <3>1
    <3> QED
      BY <1>1, <1>2, <2>2, <3>1, <3>2, CountStep
  <2>5. Referenced' \subseteq Referenced \union {x}
    <3>1. \A e \in Devices : References(e)' \subseteq References(e) \union S \union {x}
      BY <1>10, <2>2 DEF References
    <3>2. In(server.content)' = In(server.content)
      BY <1>2 DEF In
    <3> QED
      BY <1>8, <3>1, <3>2 DEF Referenced
  <2>6. Needed' \subseteq Needed
    <3>1. Referenced \subseteq Needed
      BY DEF Needed
    <3> QED
      BY <1>8, <1>9, <2>5, <3>1 DEF Needed
  <2>7. Traces' \subseteq Traces \union {x}
    BY <1>2, <2>5 DEF Traces
  <2>8. Settled(x)'
    <3>1. x \in imported /\ Maker[x] = d
      BY <1>1, <1>5 DEF IInv, MakingInv
    <3>2. ASSUME NEW e \in Devices, Importing(e)' PROVE command'[e].attachment # x
      <4>1. e # d /\ command'[e] = command[e]
        BY <1>3, <1>4, <3>2
      <4>2. Importing(e)
        BY <3>2, <4>1 DEF Importing
      <4> QED
        BY <3>1, <4>1, <4>2 DEF IInv, MakingInv
    <3> QED
      BY <1>2, <3>1, <3>2 DEF Settled
  <2> QED
    BY <1>2, <1>11, <2>2, <2>3, <2>4, <2>6, <2>7, <2>8, StoreStays
<1> QED
  BY <1>12, <1>13

LEMMA DeleteListKeeps ==
  ASSUME IInv, NEW d \in Devices, DeleteList(d)
  PROVE  IInv'
<1>1. TypeOK /\ CountInv
  BY DEF IInv
<1>2. /\ UNCHANGED <<server, remote, record, store, sync, history>>
      /\ UNCHANGED <<item, shown, dirty, unanswered, version, cursor, conflict, pc, hand, row,
                     described, blob, uploads, deletions, imported, refused, excuses, failures>>
      /\ edits < MaxEdits /\ edits' = edits + 1
      /\ item[d] # None
  BY DEF DeleteList, Count, record, store, sync, history
<1> DEFINE c == [next |-> "delete", attachment |-> None, copy |-> item[d]]
<1>3. command' = [command EXCEPT ![d] = c]
  BY DEF DeleteList
<1>4. c \in CommandState /\ c.next = "delete" /\ c.copy = item[d]
  <2>1. item[d] \in SUBSET Attachments
    BY <1>1, <1>2, Commands
  <2> QED
    BY <2>1 DEF CommandState
<1> HIDE DEF c
<1>5. /\ command' \in [Devices -> CommandState] /\ command'[d] = c
      /\ \A e \in Devices : e # d => command'[e] = command[e]
  BY <1>1, <1>3, <1>4 DEF TypeOK
<1>6. TypeOK'
  BY <1>1, <1>2, <1>5, Numbers DEF TypeOK
<1>7. CountInv'
  <2>1. Dirty' = Dirty /\ Busy' \subseteq Busy \union {d}
    BY <1>2, <1>5 DEF Dirty, Busy
  <2> QED
    BY <1>1, <1>2, <2>1, CountStep
<1>8. VersionInv' /\ LiveInv' /\ Live' = Live
  BY <1>2, RecordFrame DEF Live
<1>9. ~Importing(d)' /\ ~Queued(d)'
  BY <1>4, <1>5 DEF Importing, Queued
<1>10. Referenced' \subseteq Referenced
  <2>1. \A e \in Devices : References(e)' \subseteq References(e)
    BY <1>2, <1>4, <1>5 DEF References, Opposed, In
  <2> QED
    BY <1>2, <2>1 DEF Referenced, In
<1>11. Needed' \subseteq Needed /\ Traces' \subseteq Traces
  <2>1. \A e \in Devices : Queued(e)' => Queued(e) /\ command'[e] = command[e]
    BY <1>5, <1>9 DEF Queued
  <2> QED
    BY <1>2, <1>10, <2>1 DEF Needed, Traces
<1>12. \A y \in Attachments : Safe(y) => Safe(y)'
  BY <1>2, SafeFrame
<1> QED
  BY <1>2, <1>5, <1>6, <1>7, <1>8, <1>9, <1>11, <1>12, StoreStays

(* After a choice the record is live only if the user did not choose       *)
(* between a deletion and another version.                                 *)
LEMMA ResolveKeeps ==
  ASSUME IInv, NEW d \in Devices, NEW keep \in {"local", "remote"}, Resolve(d, keep)
  PROVE  IInv'
<1>1. TypeOK /\ CountInv /\ VersionInv /\ LiveInv
  BY DEF IInv
<1>2. PICK c : c = conflict[d]
  OBVIOUS
<1>3. /\ UNCHANGED <<server, remote, shown, cursor, store, sync, command, bounds, imported,
                     refused>>
      /\ UNCHANGED <<pc, hand, row, described, blob, uploads, deletions, edits, failures>>
      /\ c # None
      /\ version' = [version EXCEPT ![d] = c.version]
      /\ conflict' = [conflict EXCEPT ![d] = None]
      /\ excuses' = excuses \union
                      (IF (dirty[d] = "delete") # (c.content = None) THEN {"choice"} ELSE {})
  BY <1>2 DEF Resolve, store, sync, bounds
<1>4. PICK i \in Content, b \in {"none", "upsert", "delete"}, u \in 0 .. MaxEdits + 1 :
        /\ item' = [item EXCEPT ![d] = i] /\ dirty' = [dirty EXCEPT ![d] = b]
        /\ unanswered' = [unanswered EXCEPT ![d] = u]
        /\ \/ i = item[d] /\ b = dirty[d] /\ u = unanswered[d]
           \/ i = c.content /\ b = "none" /\ u = 0
  <2>1. CASE keep = "local"
    <3>1. /\ item' = [item EXCEPT ![d] = item[d]] /\ dirty' = [dirty EXCEPT ![d] = dirty[d]]
          /\ unanswered' = [unanswered EXCEPT ![d] = unanswered[d]]
      BY <1>1, <2>1 DEF Resolve, TypeOK
    <3>2. /\ item[d] \in Content /\ dirty[d] \in {"none", "upsert", "delete"}
          /\ unanswered[d] \in 0 .. MaxEdits + 1
      BY <1>1 DEF TypeOK
    <3> QED
      BY <3>1, <3>2
  <2>2. CASE keep = "remote"
    <3>1. /\ item' = [item EXCEPT ![d] = c.content] /\ dirty' = [dirty EXCEPT ![d] = "none"]
          /\ unanswered' = [unanswered EXCEPT ![d] = 0]
      BY <1>2, <2>2 DEF Resolve
    <3>2. c.content \in Content /\ 0 \in 0 .. MaxEdits + 1
      BY <1>1, <1>2, <1>3, Numbers
    <3> QED
      BY <3>1, <3>2
  <2> QED
    BY <2>1, <2>2
<1>5. /\ c \in Version /\ c.version \in Nat /\ c.version \in 1 .. MaxEdits + 1
      /\ dirty[d] # "none"
      /\ version[d] < c.version /\ c.version <= server.version
      /\ c.version = server.version => c = server
  BY <1>1, <1>2, <1>3, Numbers DEF VersionInv
<1>6. server.device # d
  BY <1>1, <1>2, <1>3 DEF VersionInv
<1>7. /\ item' \in [Devices -> Content] /\ dirty' \in [Devices -> {"none", "upsert", "delete"}]
      /\ version' \in [Devices -> 1 .. MaxEdits + 1]
      /\ conflict' \in [Devices -> Version \union {None}]
      /\ unanswered' \in [Devices -> 0 .. MaxEdits + 1]
      /\ excuses' \subseteq {"choice", "revival"}
      /\ item'[d] = i /\ dirty'[d] = b /\ version'[d] = c.version /\ conflict'[d] = None
      /\ unanswered'[d] = u
      /\ \A e \in Devices : e # d =>
           /\ item'[e] = item[e] /\ dirty'[e] = dirty[e] /\ unanswered'[e] = unanswered[e]
           /\ version'[e] = version[e] /\ conflict'[e] = conflict[e]
  <2>1. /\ item' \in [Devices -> Content] /\ item'[d] = i
        /\ \A e \in Devices : e # d => item'[e] = item[e]
    BY <1>1, <1>4 DEF TypeOK
  <2>2. /\ dirty' \in [Devices -> {"none", "upsert", "delete"}] /\ dirty'[d] = b
        /\ \A e \in Devices : e # d => dirty'[e] = dirty[e]
    BY <1>1, <1>4 DEF TypeOK
  <2>3. /\ version' \in [Devices -> 1 .. MaxEdits + 1] /\ version'[d] = c.version
        /\ \A e \in Devices : e # d => version'[e] = version[e]
    BY <1>1, <1>3, <1>5 DEF TypeOK
  <2>4. /\ conflict' \in [Devices -> Version \union {None}] /\ conflict'[d] = None
        /\ \A e \in Devices : e # d => conflict'[e] = conflict[e]
    BY <1>1, <1>3 DEF TypeOK
  <2>5. excuses' \subseteq {"choice", "revival"}
    BY <1>1, <1>3 DEF TypeOK
  <2>6. /\ unanswered' \in [Devices -> 0 .. MaxEdits + 1] /\ unanswered'[d] = u
        /\ \A e \in Devices : e # d => unanswered'[e] = unanswered[e]
    <3> DEFINE U == 0 .. MaxEdits + 1
    <3>1. unanswered \in [Devices -> U] /\ u \in U
      BY <1>1 DEF TypeOK
    <3> HIDE DEF U
    <3>2. /\ unanswered' \in [Devices -> U] /\ unanswered'[d] = u
          /\ \A e \in Devices : e # d => unanswered'[e] = unanswered[e]
      BY <1>4, <3>1
    <3> QED
      BY <3>2 DEF U
  <2> QED
    BY <2>1, <2>2, <2>3, <2>4, <2>5, <2>6
<1>8. TypeOK'
  BY <1>1, <1>3, <1>7 DEF TypeOK
<1>9. CountInv'
  <2>1. Dirty' \subseteq Dirty /\ Busy' = Busy
    BY <1>3, <1>4, <1>5, <1>7 DEF Dirty, Busy
  <2>2. Dirty' \subseteq Dirty \union {d} /\ Busy' \subseteq Busy \union {d} /\ Busy' \subseteq Busy
    BY <2>1
  <2> QED
    BY <1>1, <1>3, <2>1, <2>2, CountStep
<1>10. VersionInv'
  <2>1. ASSUME NEW e \in Devices
        PROVE  /\ version'[e] <= server'.version /\ unanswered'[e] <= server'.version
               /\ unanswered'[e] # 0 => dirty'[e] # "none"
               /\ unanswered'[e] = server'.version =>
                    server'.device = e /\ server'.content = item'[e]
               /\ dirty'[e] = "upsert" => item'[e] # None
               /\ dirty'[e] = "delete" => item'[e] = None
               /\ conflict'[e] # None =>
                    /\ dirty'[e] # "none" /\ server'.device # e
                    /\ version'[e] < conflict'[e].version
                    /\ conflict'[e].version <= server'.version
                    /\ conflict'[e].version = server'.version => conflict'[e] = server'
    <3>1. CASE e = d
      <4>1. server.version \in Nat /\ server.version >= 1
        BY <1>1 DEF TypeOK, Version
      <4> QED
        BY <1>1, <1>3, <1>4, <1>5, <1>6, <1>7, <3>1, <4>1 DEF VersionInv
    <3>2. CASE e # d
      BY <1>1, <1>3, <1>7, <3>2 DEF VersionInv
    <3> QED
      BY <3>1, <3>2
  <2> QED
    BY <2>1 DEF VersionInv
<1>11. Live' => Live /\ dirty[d] # "delete"
  <2>1. ASSUME Live' PROVE Live /\ dirty[d] # "delete"
    <3>1. excuses = {} /\ ((dirty[d] = "delete") = (c.content = None))
      BY <1>3, <2>1 DEF Live
    <3>2. Live
      BY <1>3, <2>1, <3>1 DEF Live
    <3> QED
      BY <1>1, <1>2, <1>3, <3>1, <3>2 DEF LiveInv
  <2> QED
    BY <2>1
<1>12. LiveInv'
  <2>1. ASSUME Live', NEW e \in Devices
        PROVE  /\ conflict'[e] # None => conflict'[e].content # None
               /\ deletions'[e] # {} => dirty'[e] = "delete"
               /\ unanswered'[e] # 0 => dirty'[e] # "delete"
    <3>1. CASE e = d
      BY <1>1, <1>3, <1>4, <1>7, <1>11, <2>1, <3>1 DEF LiveInv
    <3>2. CASE e # d
      BY <1>1, <1>3, <1>7, <1>11, <2>1, <3>2 DEF LiveInv
    <3> QED
      BY <3>1, <3>2
  <2>2. ASSUME excuses' = {}, server'.content = None, NEW e \in Devices,
               version'[e] = server'.version \/ server'.device = e
        PROVE  item'[e] = None
    <3>1. excuses = {} /\ ((dirty[d] = "delete") = (c.content = None))
      BY <1>3, <2>2
    <3>2. CASE e = d
      <4>1. c.content = None /\ dirty[d] = "delete"
        BY <1>3, <1>5, <1>6, <1>7, <2>2, <3>1, <3>2
      <4> QED
        BY <1>1, <1>4, <1>7, <3>2, <4>1 DEF VersionInv
    <3>3. CASE e # d
      BY <1>1, <1>3, <1>7, <2>2, <3>1, <3>3 DEF LiveInv
    <3> QED
      BY <3>2, <3>3
  <2> QED
    BY <2>1, <2>2 DEF LiveInv
<1>13. Referenced' \subseteq Referenced
  <2>1. \A e \in Devices : References(e)' \subseteq References(e)
    <3>1. ASSUME NEW e \in Devices
          PROVE  In(item'[e]) \subseteq In(item[e]) \union Opposed(e)
      BY <1>2, <1>3, <1>4, <1>7 DEF Opposed, In
    <3>2. \A e \in Devices : Opposed(e)' \subseteq Opposed(e)
      BY <1>7 DEF Opposed, In
    <3>3. \A e \in Devices :
            /\ In(item[e])' = In(item'[e]) /\ In(shown[e])' = In(shown[e])
            /\ In(command[e].copy)' = In(command[e].copy)
      BY <1>3 DEF In
    <3> QED
      BY <3>1, <3>2, <3>3 DEF References
  <2> QED
    BY <1>3, <2>1 DEF Referenced, In
<1>14. Needed' \subseteq Needed /\ Traces' \subseteq Traces
  BY <1>3, <1>13 DEF Needed, Queued, Traces
<1>15. ASSUME NEW x \in Attachments, Live', Safe(x) PROVE Safe(x)'
  BY <1>3, <1>7, <1>11, <1>15 DEF Safe, Complete
<1> QED
  BY <1>3, <1>8, <1>9, <1>10, <1>11, <1>12, <1>14, <1>15, StoreStays

(* The interface loads the record again: it shows what the record is.      *)
ShownAgain(d) == shown' \in {shown, [shown EXCEPT ![d] = item[d]]}

LEMMA ShownFacts ==
  ASSUME TypeOK, NEW d \in Devices, ShownAgain(d)
  PROVE  /\ shown' \in [Devices -> Content]
         /\ \A e \in Devices : shown'[e] \in {shown[e], item[e]}
BY DEF TypeOK, ShownAgain

LEMMA ReloadKeeps ==
  ASSUME IInv, NEW d \in Devices, Reload(d)
  PROVE  IInv'
<1>1. TypeOK /\ CountInv
  BY DEF IInv
<1>2. /\ UNCHANGED <<server, remote, store, sync, command, bounds, history>>
      /\ UNCHANGED <<item, dirty, unanswered, version, cursor, conflict, pc, hand, row,
                     described, blob, uploads, deletions, edits, failures, imported, refused,
                     excuses>>
      /\ ShownAgain(d)
  BY DEF Reload, store, sync, bounds, history, ShownAgain
<1>3. /\ shown' \in [Devices -> Content]
      /\ \A e \in Devices : shown'[e] \in {shown[e], item[e]}
  BY <1>1, <1>2, ShownFacts
<1>4. TypeOK'
  BY <1>1, <1>2, <1>3 DEF TypeOK
<1>5. CountInv'
  BY <1>1, <1>2, Numbers, CountFrame
<1>6. VersionInv' /\ LiveInv' /\ Live' = Live
  BY <1>2 DEF IInv, VersionInv, LiveInv, Live
<1>7. Referenced' \subseteq Referenced
  <2>1. \A e \in Devices : References(e)' \subseteq References(e)
    BY <1>2, <1>3 DEF References, Opposed, In
  <2> QED
    BY <1>2, <2>1 DEF Referenced, In
<1>8. Needed' \subseteq Needed /\ Traces' \subseteq Traces
  BY <1>2, <1>7 DEF Needed, Queued, Traces
<1>9. \A y \in Attachments : Safe(y) => Safe(y)'
  BY <1>2, SafeFrame
<1> QED
  BY <1>2, <1>4, <1>5, <1>6, <1>8, <1>9, StoreStays

LEMMA FailKeeps ==
  ASSUME IInv, NEW d \in Devices, Fail(d)
  PROVE  IInv'
<1>1. TypeOK /\ CountInv
  BY DEF IInv
<1>2. /\ UNCHANGED <<server, remote, store, edits, history>>
      /\ UNCHANGED <<item, dirty, unanswered, version, cursor, conflict, row, described, blob,
                     uploads, deletions, imported, refused, excuses>>
      /\ failures < MaxFailures /\ failures' = failures + 1
      /\ Stop(d)
      /\ command' \in {command, [command EXCEPT ![d] = AtRest]}
      /\ shown' \in {shown, [shown EXCEPT ![d] = item[d]]}
  BY DEF Fail, store, history
<1>3. Moves(d) /\ pc'[d] = "idle" /\ hand'[d] = <<>>
  BY <1>1, <1>2, StopMoves
<1>4. Placed(d)'
  BY <1>3, PlacedEmpty, Phases
<1>5. \A e \in Devices : (pc'[e] = pc[e] /\ hand'[e] = hand[e]) \/ Placed(e)'
  BY <1>3, <1>4 DEF Moves
<1>6. /\ command' \in [Devices -> CommandState]
      /\ command'[d] \in {command[d], AtRest}
      /\ \A e \in Devices : e # d => command'[e] = command[e]
  BY <1>1, <1>2 DEF TypeOK, CommandState
<1>7. AtRest.next = "none" /\ AtRest.copy = None
  BY DEF AtRest
<1>15. ShownAgain(d)
  BY <1>2 DEF ShownAgain
<1>16. /\ shown' \in [Devices -> Content]
       /\ \A e \in Devices : shown'[e] \in {shown[e], item[e]}
  BY <1>1, <1>15, ShownFacts
<1>8. \A e \in Devices :
        /\ command'[e] = command[e] \/ ~Importing(e)'
        /\ Queued(e)' => Queued(e) /\ command'[e] = command[e]
        /\ In(command'[e].copy) \subseteq In(command[e].copy)
  BY <1>6, <1>7 DEF Importing, Queued, In
<1>9. TypeOK'
  <2>1. failures' \in 0 .. MaxFailures
    BY <1>1, <1>2, AttachmentSyncAssumption DEF TypeOK
  <2>2. pc' \in [Devices -> Phase] /\ hand' \in [Devices -> Lists]
    BY <1>3 DEF Moves
  <2> QED
    BY <1>1, <1>2, <1>6, <1>16, <2>1, <2>2 DEF TypeOK
<1>10. CountInv'
  <2>1. command[d].next # "none" \/ command'[d].next = "none"
    BY <1>6, <1>7
  <2> QED
    BY <1>1, <1>2, <1>6, <2>1, BusyStays
<1>11. VersionInv' /\ LiveInv' /\ Live' = Live
  BY <1>2 DEF IInv, VersionInv, LiveInv, Live
<1>12. Referenced' \subseteq Referenced
  <2>1. \A e \in Devices : References(e)' \subseteq References(e)
    <3>1. \A e \in Devices :
            /\ In(item[e])' = In(item[e]) /\ Opposed(e)' = Opposed(e)
            /\ In(command[e].copy)' = In(command'[e].copy)
            /\ In(shown[e])' \subseteq In(shown[e]) \union In(item[e])
      BY <1>2, <1>16 DEF Opposed, In
    <3> QED
      BY <1>8, <3>1 DEF References
  <2> QED
    BY <1>2, <2>1 DEF Referenced, In
<1>13. Needed' \subseteq Needed /\ Traces' \subseteq Traces
  BY <1>2, <1>8, <1>12 DEF Needed, Traces
<1>14. \A y \in Attachments : Safe(y) => Safe(y)'
  BY <1>2, SafeFrame
<1> HIDE DEF Moves
<1> QED
  BY <1>2, <1>5, <1>8, <1>9, <1>10, <1>11, <1>13, <1>14, StoreStays

(* The server forgets uploads that are not complete, or nothing happens.   *)
LEMMA UploadsExpire ==
  ASSUME IInv, UNCHANGED <<server, record, store, sync, command, bounds, history>>,
         remote' \in [Attachments -> Upload \union {None}],
         \A y \in Attachments : remote'[y] \in {None, remote[y]},
         \A y \in Attachments : Complete(y) => remote'[y] = remote[y]
  PROVE  IInv'
<1>1. TypeOK /\ CountInv
  BY DEF IInv
<1>2. UNCHANGED <<item, shown, dirty, unanswered, version, cursor, conflict, row, described,
                  blob, uploads, deletions, pc, hand, edits, failures, imported, refused,
                  excuses>>
  BY DEF record, store, sync, bounds, history
<1>3. TypeOK'
  BY <1>1, <1>2 DEF TypeOK
<1>4. CountInv'
  BY <1>1, <1>2, Numbers, CountFrame
<1>5. VersionInv' /\ LiveInv' /\ Live' = Live
  BY <1>2, RecordFrame DEF Live
<1>6. HoldInv'
  BY <1>2, HoldFrame DEF IInv
<1>7. MakingInv' /\ \A y : Settled(y) => Settled(y)'
  BY <1>2, MakingFrame DEF IInv
<1>8. RefInv'
  <2>1. Needed' = Needed
    BY <1>2, NeededFrame
  <2>2. \A y \in Attachments : Safe(y) => Safe(y)'
    BY <1>2 DEF Safe, Complete
  <2> QED
    BY <1>5, <2>1, <2>2, RefStep DEF IInv
<1>9. ASSUME NEW d \in Devices PROVE Placed(d)'
  <2>1. Placed(d)
    BY DEF IInv, PlacedInv
  <2>2. pc[d] \in {"part", "mark"} => At(d) \in Attachments
    BY <1>1, <2>1, AtHand DEF Placed, Uploading
  <2>3. Unqueued(d)' = Unqueued(d)
    BY <1>2 DEF Unqueued
  <2>4. /\ pc[d] = "part" => remote'[At(d)] \in {None, remote[At(d)]}
        /\ pc[d] = "mark" /\ Live' /\ Complete(At(d)) => remote'[At(d)] = remote[At(d)]
    BY <2>2
  <2> QED
    BY <1>2, <1>5, <1>7, <2>1, <2>3, <2>4, PlacedStays
<1> QED
  BY <1>3, <1>4, <1>5, <1>6, <1>7, <1>8, <1>9 DEF IInv, PlacedInv

LEMMA ExpireKeeps ==
  ASSUME IInv, NEW x \in Attachments, Expire(x)
  PROVE  IInv'
<1>1. /\ UNCHANGED <<server, record, store, sync, command, bounds, history>>
      /\ remote[x] # None /\ remote[x].status = "uploading"
      /\ remote' = [remote EXCEPT ![x] = None]
  BY DEF Expire
<1>2. /\ remote' \in [Attachments -> Upload \union {None}]
      /\ \A y \in Attachments : remote'[y] \in {None, remote[y]}
      /\ \A y \in Attachments : Complete(y) => remote'[y] = remote[y]
  BY <1>1 DEF IInv, TypeOK, Complete
<1> QED
  BY <1>1, <1>2, UploadsExpire
-----------------------------------------------------------------------------
LEMMA InitHolds ==
  ASSUME Init
  PROVE  IInv
<1>1. PICK first \in Devices : first = CHOOSE d \in Devices : TRUE
  BY AttachmentSyncAssumption
<1>2. /\ server = [version |-> 1, content |-> {}, device |-> first]
      /\ item = [d \in Devices |-> {}] /\ shown = [d \in Devices |-> {}]
      /\ version = [d \in Devices |-> 1] /\ cursor = [d \in Devices |-> 1]
      /\ dirty = [d \in Devices |-> "none"] /\ unanswered = [d \in Devices |-> 0]
      /\ conflict = [d \in Devices |-> None]
      /\ remote = [x \in Attachments |-> None]
      /\ row = [d \in Devices |-> [x \in Attachments |-> "none"]]
      /\ described = [d \in Devices |-> {}] /\ blob = [d \in Devices |-> {}]
      /\ uploads = [d \in Devices |-> {}] /\ deletions = [d \in Devices |-> {}]
      /\ pc = [d \in Devices |-> "idle"] /\ hand = [d \in Devices |-> <<>>]
      /\ command = [d \in Devices |-> AtRest]
      /\ edits = 0 /\ failures = 0 /\ imported = {} /\ refused = {} /\ excuses = {}
  BY <1>1 DEF Init
<1>3. AtRest.next = "none" /\ AtRest.copy = None /\ AtRest \in CommandState
  BY DEF AtRest, CommandState
<1>4. TypeOK
  <2>1. /\ {} \in Content /\ 1 \in 1 .. MaxEdits + 1 /\ 0 \in 0 .. MaxEdits + 1
        /\ 0 \in 0 .. MaxEdits /\ 0 \in 0 .. MaxFailures
    BY AttachmentSyncAssumption DEF Content
  <2>2. server \in Version
    BY <1>1, <1>2, <2>1 DEF Version
  <2>3. /\ pc \in [Devices -> Phase] /\ hand \in [Devices -> Lists]
        /\ command \in [Devices -> CommandState]
    BY <1>2, <1>3, NoList, Phases
  <2> QED
    BY <1>2, <2>1, <2>2, <2>3 DEF TypeOK
<1>5. CountInv
  <2>1. Dirty = {} /\ Busy = {}
    BY <1>2, <1>3 DEF Dirty, Busy
  <2> QED
    BY <1>2, <2>1, FS_EmptySet DEF CountInv
<1>6. VersionInv
  BY <1>2 DEF VersionInv
<1>7. {} # None
  BY NoneAssumption
<1>8. LiveInv
  BY <1>2, <1>7 DEF LiveInv, Live
<1>9. \A d \in Devices : ~Importing(d) /\ ~Unqueued(d) /\ ~Queued(d)
  BY <1>2, <1>3 DEF Importing, Unqueued, Queued
<1>10. Referenced = {}
  <2>1. \A d \in Devices : References(d) = {}
    BY <1>2, <1>3, <1>7 DEF References, Opposed, In
  <2>2. In(server.content) = {}
    BY <1>2 DEF In
  <2> QED
    BY <2>1, <2>2 DEF Referenced
<1>11. Needed = {} /\ Traces = {}
  BY <1>2, <1>9, <1>10 DEF Needed, Traces
<1>12. RefInv
  BY <1>11 DEF RefInv
<1>13. MakingInv
  BY <1>2, <1>9, <1>11 DEF MakingInv
<1>14. HoldInv
  BY <1>2, <1>3 DEF HoldInv
<1>15. ASSUME NEW d \in Devices PROVE Placed(d)
  <2>1. hand[d] = <<>> /\ pc[d] = "idle"
    BY <1>2
  <2>2. Listed(d) = {} /\ ~InDeletion(d)
    BY <2>1, NoList DEF Listed, InDeletion, Deleting
  <2> QED
    BY <2>1, <2>2 DEF Placed, Uploading, Deleting, Fetching
<1> QED
  BY <1>4, <1>5, <1>6, <1>8, <1>12, <1>13, <1>14, <1>15 DEF IInv, PlacedInv

LEMMA NextKeeps ==
  ASSUME IInv, [Next]_vars
  PROVE  IInv'
<1>1. ASSUME NEW d \in Devices, User(d) PROVE IInv'
  BY <1>1, ImportKeeps, EditKeeps, DeleteListKeeps, ResolveKeeps DEF User
<1>2. ASSUME NEW d \in Devices, Command(d) PROVE IInv'
  BY <1>2, ImportRowKeeps, ImportQueueKeeps, ImportDescribeKeeps, AttachKeeps, DeleteRecordKeeps
  DEF Command
<1>3. ASSUME NEW d \in Devices, Sync(d) PROVE IInv'
  BY <1>3, SyncNowKeeps, ListUploadsKeeps, CreateUploadKeeps, RefuseUploadKeeps,
     UploadPartKeeps, CompleteUploadKeeps, MarkSyncedKeeps, PullKeeps, NothingToPushKeeps,
     PushKeeps, ListDeletionsKeeps, RequestDeletionKeeps, ForgetKeeps, UnlinkKeeps,
     ListDownloadsKeeps, DownloadKeeps, ImportDownloadKeeps
  DEF Sync
<1>4. CASE UNCHANGED vars
  <2>1. /\ UNCHANGED <<server, record, store, sync, command, bounds, history>>
        /\ remote' = remote
    BY <1>4 DEF vars
  <2>2. remote' \in [Attachments -> Upload \union {None}]
    BY <2>1 DEF IInv, TypeOK
  <2> QED
    BY <2>1, <2>2, UploadsExpire
<1> QED
  BY <1>1, <1>2, <1>3, <1>4, ReloadKeeps, PushUnansweredKeeps, FailKeeps, ExpireKeeps DEF Next

THEOREM Invariance == Spec => []IInv
<1>1. Init => IInv
  BY InitHolds
<1>2. IInv /\ [Next]_vars => IInv'
  BY NextKeeps
<1> QED
  BY <1>1, <1>2, PTL DEF Spec

(* The state is well typed: in particular no record gets more versions than*)
(* there were edits, no upload more parts than it has, and sync_now never  *)
(* has an attachment in hand twice.                                        *)
THEOREM Typing == Spec => []TypeOK
<1>1. IInv => TypeOK
  BY DEF IInv
<1> QED
  BY <1>1, Invariance, PTL

(* What is queued for upload is pending and what has a row has its file,   *)
(* on every device at every step of every import, deletion and download.   *)
THEOREM QueuedHeld == Spec => []QueuedIsHeld
<1>1. IInv => QueuedIsHeld
  BY DEF IInv, HoldInv, QueuedIsHeld
<1> QED
  BY <1>1, Invariance, PTL

(* What the server's record refers to is complete on the server, queued for*)
(* upload, or about to be deleted with its record.                         *)
THEOREM ReferencesResolve == Spec => []ReferenceResolves
<1>1. ASSUME IInv PROVE ReferenceResolves
  <2>1. ASSUME Live, NEW x \in server.content PROVE Safe(x)
    <3>1. x \in Needed
      BY <2>1 DEF Live, Needed, Referenced, In
    <3> QED
      BY <1>1, <2>1, <3>1 DEF IInv, RefInv
  <2> QED
    BY <2>1 DEF ReferenceResolves, Live, Safe, Complete
<1> QED
  BY <1>1, Invariance, PTL

(* What the steps of an upload leave on the server is an upload.           *)
LEMMA UploadWrites ==
  ASSUME IInv, NEW d \in Devices, CreateUpload(d) \/ UploadPart(d) \/ CompleteUpload(d)
  PROVE  \/ remote' = remote
         \/ \E u \in Upload : remote' = [remote EXCEPT ![At(d)] = u]
<1>1. TypeOK /\ Placed(d) /\ hand[d] # <<>>
  BY DEF IInv, PlacedInv, Placed, Uploading, CreateUpload, UploadPart, CompleteUpload
<1>2. At(d) \in Attachments
  BY <1>1, AtHand
<1>3. CASE CreateUpload(d)
  <2>1. [parts |-> 0, status |-> "uploading"] \in Upload
    BY AttachmentSyncAssumption DEF Upload, Status
  <2> QED
    BY <1>3, <2>1 DEF CreateUpload, At
<1>4. CASE UploadPart(d) /\ remote[At(d)] # None
  <2> DEFINE u == [remote[At(d)] EXCEPT !.parts = @ + 1]
  <2>1. remote[At(d)] \in Upload /\ remote[At(d)].parts < Parts
    BY <1>1, <1>2, <1>4 DEF TypeOK, Placed, UploadPart
  <2>2. u \in Upload
    BY <2>1, AttachmentSyncAssumption DEF Upload, Status
  <2>3. remote' = [remote EXCEPT ![At(d)] = u]
    BY <1>4 DEF UploadPart, At
  <2> QED
    BY <2>2, <2>3
<1>5. CASE CompleteUpload(d) /\ ~(remote[At(d)] = None \/ remote[At(d)].parts < Parts)
  <2> DEFINE u == [remote[At(d)] EXCEPT !.status = "complete"]
  <2>1. remote[At(d)] \in Upload
    BY <1>1, <1>2, <1>5 DEF TypeOK
  <2>2. u \in Upload
    BY <2>1 DEF Upload, Status
  <2>3. remote' = [remote EXCEPT ![At(d)] = u]
    BY <1>5 DEF CompleteUpload, At
  <2> QED
    BY <2>2, <2>3
<1>6. CASE UploadPart(d) /\ remote[At(d)] = None
  BY <1>6 DEF UploadPart, At
<1>7. CASE CompleteUpload(d) /\ (remote[At(d)] = None \/ remote[At(d)].parts < Parts)
  BY <1>7 DEF CompleteUpload, At
<1> QED
  BY <1>3, <1>4, <1>5, <1>6, <1>7

(* A step of the live record removes neither a complete attachment from the*)
(* server nor a file from a device.                                        *)
LEMMA CopiesStay ==
  ASSUME IInv, Live, [Next]_vars, NEW x \in Attachments
  PROVE  /\ Complete(x) => remote'[x] # None
         /\ \A d \in Devices : x \in blob[d] => x \in blob'[d]
<1> DEFINE Kept == /\ Complete(x) => remote'[x] # None
                   /\ \A d \in Devices : x \in blob[d] => x \in blob'[d]
<1>1. TypeOK
  BY DEF IInv
<1>2. UNCHANGED <<remote, blob>> => Kept
  BY DEF Complete
<1>3. ASSUME NEW d \in Devices, NEW y \in Attachments, Import(d, y) PROVE Kept
  BY <1>1, <1>3 DEF Import, Add, Complete, TypeOK
<1>4. ASSUME NEW d \in Devices, CreateUpload(d) \/ UploadPart(d) \/ CompleteUpload(d)
      PROVE  Kept
  <2>1. blob' = blob
    BY <1>4 DEF CreateUpload, UploadPart, CompleteUpload, store
  <2>2. ASSUME NEW u \in Upload, remote' = [remote EXCEPT ![At(d)] = u]
        PROVE  Complete(x) => remote'[x] # None
    BY <1>1, <2>2, NoneAssumption DEF Complete, TypeOK
  <2> QED
    BY <1>2, <1>4, <2>1, <2>2, UploadWrites
<1>5. ASSUME NEW d \in Devices, RequestDeletion(d) \/ Unlink(d) PROVE FALSE
  <2>1. pc[d] \in Deleting
    BY <1>5 DEF RequestDeletion, Unlink, Deleting
  <2> QED
    BY <2>1, InDeletionFacts
<1>6. ASSUME NEW d \in Devices, Download(d) PROVE Kept
  <2>1. remote' = remote
    BY <1>6 DEF Download
  <2>2. blob' = blob \/ blob' = [blob EXCEPT ![d] = @ \union {At(d)}]
    BY <1>6 DEF Download, At, Add
  <2>3. \A e \in Devices : x \in blob[e] => x \in blob'[e]
    BY <1>1, <2>2 DEF TypeOK
  <2> QED
    BY <2>1, <2>3 DEF Complete
<1>7. ASSUME NEW y \in Attachments, Expire(y) PROVE Kept
  <2>1. blob' = blob /\ remote[y].status = "uploading" /\ remote' = [remote EXCEPT ![y] = None]
    BY <1>7 DEF Expire, store
  <2> QED
    BY <1>1, <2>1 DEF Complete, TypeOK
<1>8. ASSUME NEW d \in Devices, User(d) PROVE Kept
  BY <1>2, <1>3, <1>8 DEF User, Edit, DeleteList, Resolve, store
<1>9. ASSUME NEW d \in Devices, Command(d) PROVE Kept
  BY <1>2, <1>9
  DEF Command, ImportRow, ImportQueue, ImportDescribe, Attach, DeleteRecord, store
<1>10. ASSUME NEW d \in Devices, Sync(d) PROVE Kept
  <2>1. CASE \/ SyncNow(d) \/ ListUploads(d) \/ RefuseUpload(d) \/ Pull(d)
             \/ NothingToPush(d) \/ Push(d) \/ ListDeletions(d) \/ ListDownloads(d)
    BY <1>2, <2>1
    DEF SyncNow, ListUploads, RefuseUpload, Pull, NothingToPush, Push, ListDeletions,
        ListDownloads, store
  <2>2. CASE MarkSynced(d) \/ Forget(d) \/ ImportDownload(d)
    BY <1>2, <2>2 DEF MarkSynced, Forget, ImportDownload
  <2> QED
    BY <1>4, <1>5, <1>6, <1>10, <2>1, <2>2 DEF Sync
<1>11. ASSUME NEW d \in Devices, Fail(d) \/ Reload(d) \/ PushUnanswered(d) PROVE Kept
  BY <1>2, <1>11 DEF Fail, Reload, PushUnanswered, store
<1>12. CASE UNCHANGED vars
  BY <1>2, <1>12 DEF vars, store
<1> QED
  BY <1>7, <1>8, <1>9, <1>10, <1>11, <1>12 DEF Next

(* No copy of an attachment is removed before the server has confirmed that*)
(* the record is deleted: sync_now carries a deletion out only when nothing*)
(* of the record waits to be pushed or resolved, and then the server's     *)
(* record is a tombstone.                                                  *)
THEOREM DeletionAfterTombstone == Spec => TombstoneFirst
<1>1. ASSUME IInv, [Next]_vars, NEW x \in Attachments, Removed(x)
      PROVE  server.content = None \/ x \notin server.content \/ excuses # {}
  BY <1>1, CopiesStay DEF Live, Complete, Removed
<1>2. IInv /\ [Next]_vars =>
        [\A x \in Attachments :
           Removed(x) => server.content = None \/ x \notin server.content \/ excuses # {}]_vars
  BY <1>1
<1> QED
  BY <1>2, Invariance, PTL DEF Spec, TombstoneFirst

(* An upload is complete only with all of its parts.                       *)
CompleteIsWhole == \A x \in Attachments : Complete(x) => remote[x].parts = Parts

LEMMA OnServerTyped ==
  ASSUME TypeOK, NEW x \in Attachments
  PROVE  /\ remote[x] = None => OnServer[x] = None
         /\ remote[x] # None =>
              /\ OnServer[x] = [file |-> x, status |-> remote[x].status,
                                parts |-> 0 .. remote[x].parts - 1]
              /\ OnServer[x] # None
              /\ remote[x].parts \in 0 .. Parts /\ remote[x].status \in Status
<1>1. ASSUME remote[x] # None
      PROVE  /\ remote[x].parts \in 0 .. Parts /\ remote[x].status \in Status
             /\ [file |-> x, status |-> remote[x].status,
                 parts |-> 0 .. remote[x].parts - 1] \in WholeUpload
  <2>1. remote[x] \in Upload
    BY <1>1 DEF TypeOK
  <2>2. remote[x].parts \in 0 .. Parts /\ remote[x].status \in Status
    BY <2>1 DEF Upload
  <2>3. 0 .. remote[x].parts - 1 \in SUBSET PartNumbers
    BY <2>2, AttachmentSyncAssumption DEF PartNumbers
  <2> QED
    BY <2>2, <2>3 DEF WholeUpload
<1>2. \A u \in WholeUpload : u # None
  BY NoneAssumption
<1> QED
  BY <1>1, <1>2 DEF OnServer

(* Only one upload changes at a time.                                      *)
LEMMA OneUpload ==
  ASSUME TypeOK, NEW x \in Attachments, NEW u, u # None, remote' = [remote EXCEPT ![x] = u]
  PROVE  OnServer' = [OnServer EXCEPT
           ![x] = [file |-> x, status |-> u.status, parts |-> 0 .. u.parts - 1]]
<1>1. remote'[x] = u /\ \A y \in Attachments : y # x => remote'[y] = remote[y]
  BY DEF TypeOK
<1>2. OnServer'[x] = [file |-> x, status |-> u.status, parts |-> 0 .. u.parts - 1]
  BY <1>1 DEF OnServer
<1>3. \A y \in Attachments : y # x => OnServer'[y] = OnServer[y]
  BY <1>1 DEF OnServer
<1>4. OnServer' = [OnServer EXCEPT ![x] = OnServer'[x]]
  BY <1>3 DEF OnServer
<1> QED
  BY <1>2, <1>4

LEMMA UploadEnds ==
  ASSUME TypeOK, NEW x \in Attachments, remote' = [remote EXCEPT ![x] = None]
  PROVE  OnServer' = [OnServer EXCEPT ![x] = None]
<1>1. remote'[x] = None /\ \A y \in Attachments : y # x => remote'[y] = remote[y]
  BY DEF TypeOK
<1>2. OnServer'[x] = None /\ \A y \in Attachments : y # x => OnServer'[y] = OnServer[y]
  BY <1>1 DEF OnServer
<1>3. OnServer' = [OnServer EXCEPT ![x] = OnServer'[x]]
  BY <1>2 DEF OnServer
<1> QED
  BY <1>2, <1>3

LEMMA AtServer ==
  ASSUME IInv, NEW d \in Devices,
         pc[d] \in Uploading \union Deleting
  PROVE  TypeOK /\ Placed(d) /\ At(d) \in Attachments
<1>1. TypeOK /\ Placed(d) /\ hand[d] # <<>>
  BY DEF IInv, PlacedInv, Placed
<1> QED
  BY <1>1, AtHand

Allowed == OnServer' = OnServer \/ Contract!Next
Whole == CompleteIsWhole'

LEMMA CreateBegins ==
  ASSUME IInv, CompleteIsWhole, NEW d \in Devices, CreateUpload(d)
  PROVE  Allowed /\ Whole
<1>1. TypeOK /\ At(d) \in Attachments
  BY AtServer DEF CreateUpload, Uploading
<1> PICK x \in Attachments : x = At(d)
  BY <1>1
<1>2. CASE remote[x] # None
  BY <1>2 DEF CreateUpload, SameMetadata, At, OnServer, Allowed, Whole, CompleteIsWhole, Complete
<1>3. CASE remote[x] = None
  <2> DEFINE u == [parts |-> 0, status |-> "uploading"]
  <2>1. remote' = [remote EXCEPT ![x] = u]
    BY <1>3 DEF CreateUpload, SameMetadata, At
  <2>2. u \in Upload /\ u.status = "uploading" /\ u.parts = 0
    BY AttachmentSyncAssumption DEF Upload, Status
  <2>3. u # None
    BY <2>2, NoneAssumption
  <2> HIDE DEF u
  <2>4. OnServer' = [OnServer EXCEPT
          ![x] = [file |-> x, status |-> u.status, parts |-> 0 .. u.parts - 1]]
    BY <1>1, <2>1, <2>3, OneUpload
  <2>5. 0 .. u.parts - 1 = {}
    BY <2>2
  <2>6. OnServer[x] = None
    BY <1>1, <1>3, OnServerTyped
  <2>7. Contract!Begin(x)
    BY <2>2, <2>4, <2>5, <2>6 DEF Contract!Begin, Itself
  <2>8. Contract!Next
    BY <2>7 DEF Contract!Next
  <2>9. Whole
    BY <1>1, <2>1, <2>2 DEF Whole, CompleteIsWhole, Complete, TypeOK
  <2> QED
    BY <2>8, <2>9 DEF Allowed
<1> QED
  BY <1>2, <1>3

LEMMA PartTaken ==
  ASSUME IInv, CompleteIsWhole, NEW d \in Devices, UploadPart(d)
  PROVE  Allowed /\ Whole
<1>1. TypeOK /\ At(d) \in Attachments /\ Placed(d) /\ pc[d] = "part"
  BY AtServer DEF UploadPart, Uploading
<1> PICK x \in Attachments : x = At(d)
  BY <1>1
<1>2. CASE remote[x] = None
  BY <1>2 DEF UploadPart, At, OnServer, Allowed, Whole, CompleteIsWhole, Complete
<1>3. CASE remote[x] # None
  <2> DEFINE u == [remote[x] EXCEPT !.parts = @ + 1]
             n == remote[x].parts
  <2>1. remote[x] \in Upload /\ n < Parts /\ n \in Nat
    <3>1. remote[x] \in Upload /\ n < Parts
      BY <1>1, <1>3 DEF TypeOK, Placed
    <3> QED
      BY <3>1 DEF Upload
  <2>2. remote[x].status = "uploading"
    <3>1. remote[x].status \in Status
      BY <2>1 DEF Upload
    <3>2. ~Complete(x)
      BY <2>1, AttachmentSyncAssumption DEF CompleteIsWhole
    <3> QED
      BY <1>3, <3>1, <3>2 DEF Complete, Status
  <2>3. remote' = [remote EXCEPT ![x] = u]
    BY <1>3 DEF UploadPart, At
  <2>4. u \in Upload /\ u.status = "uploading" /\ u.parts = n + 1
    BY <2>1, <2>2, AttachmentSyncAssumption DEF Upload
  <2>5. u # None
    BY <2>4, NoneAssumption
  <2> HIDE DEF u
  <2>6. OnServer' = [OnServer EXCEPT
          ![x] = [file |-> x, status |-> u.status, parts |-> 0 .. u.parts - 1]]
    BY <1>1, <2>3, <2>5, OneUpload
  <2>7. OnServer[x] = [file |-> x, status |-> "uploading", parts |-> 0 .. n - 1]
        /\ OnServer[x] # None
    BY <1>1, <1>3, <2>2, OnServerTyped
  <2>8. 0 .. u.parts - 1 = (0 .. n - 1) \union {n} /\ n \in PartNumbers
    BY <2>1, <2>4, AttachmentSyncAssumption DEF PartNumbers
  <2> HIDE DEF n
  <2> DEFINE held == 0 .. n - 1
  <2>9. OnServer[x] = [file |-> x, status |-> "uploading", parts |-> held]
    BY <2>7
  <2>10. 0 .. u.parts - 1 = held \union {n}
    BY <2>8
  <2> HIDE DEF held
  <2>11. [OnServer[x] EXCEPT !.parts = @ \union {n}]
          = [file |-> x, status |-> "uploading", parts |-> held \union {n}]
    BY <2>9
  <2>12. OnServer' = [OnServer EXCEPT ![x].parts = @ \union {n}]
    BY <2>4, <2>6, <2>10, <2>11
  <2>13. OnServer[x].status = "uploading" /\ n \in NumbersOf(OnServer[x].file)
    BY <2>7, <2>8 DEF NumbersOf
  <2>14. Contract!Take(x)
    BY <2>7, <2>12, <2>13, Zenon DEF Contract!Take, Contract!Uploading
  <2>15. Contract!Next
    BY <2>14 DEF Contract!Next
  <2>16. Whole
    BY <1>1, <2>3, <2>4 DEF Whole, CompleteIsWhole, Complete, TypeOK
  <2> QED
    BY <2>15, <2>16 DEF Allowed
<1> QED
  BY <1>2, <1>3

LEMMA UploadCompleted ==
  ASSUME IInv, CompleteIsWhole, NEW d \in Devices, CompleteUpload(d)
  PROVE  Allowed /\ Whole
<1>1. TypeOK /\ At(d) \in Attachments
  BY AtServer DEF CompleteUpload, Uploading
<1> PICK x \in Attachments : x = At(d)
  BY <1>1
<1>2. CASE remote[x] = None \/ remote[x].parts < Parts
  BY <1>2 DEF CompleteUpload, At, OnServer, Allowed, Whole, CompleteIsWhole, Complete
<1>3. CASE ~(remote[x] = None \/ remote[x].parts < Parts)
  <2> DEFINE u == [remote[x] EXCEPT !.status = "complete"]
  <2>1. remote[x] # None /\ remote[x] \in Upload
    BY <1>1, <1>3 DEF TypeOK
  <2>2. remote[x].parts = Parts /\ remote[x].status \in Status
    BY <1>3, <2>1, AttachmentSyncAssumption DEF Upload
  <2>3. remote' = [remote EXCEPT ![x] = u]
    BY <1>3 DEF CompleteUpload, At
  <2>4. u \in Upload /\ u.status = "complete" /\ u.parts = Parts
    BY <2>1, <2>2 DEF Upload, Status
  <2>5. u # None
    BY <2>4, NoneAssumption
  <2> HIDE DEF u
  <2>6. OnServer' = [OnServer EXCEPT
          ![x] = [file |-> x, status |-> u.status, parts |-> 0 .. u.parts - 1]]
    BY <1>1, <2>3, <2>5, OneUpload
  <2>7. /\ OnServer[x] = [file |-> x, status |-> remote[x].status, parts |-> PartNumbers]
        /\ OnServer[x] # None
    BY <1>1, <2>1, <2>2, OnServerTyped DEF PartNumbers
  <2>8. OnServer' = [OnServer EXCEPT ![x].status = "complete"]
    <3>1. [OnServer[x] EXCEPT !.status = "complete"]
            = [file |-> x, status |-> "complete", parts |-> PartNumbers]
      BY <2>7
    <3> QED
      BY <2>4, <2>6, <3>1 DEF PartNumbers
  <2>9. ASSUME remote[x].status = "complete"
        PROVE  Allowed
    <3>1. OnServer' = [OnServer EXCEPT ![x] = OnServer[x]]
      BY <2>4, <2>6, <2>7, <2>9 DEF PartNumbers
    <3>2. OnServer' = OnServer
      BY <3>1 DEF OnServer
    <3> QED
      BY <3>2 DEF Allowed
  <2>10. ASSUME remote[x].status = "uploading"
         PROVE  Allowed
    <3>1. OnServer[x].status = "uploading" /\ OnServer[x].parts = NumbersOf(OnServer[x].file)
      BY <2>7, <2>10 DEF NumbersOf
    <3>2. Contract!Complete(x)
      BY <2>7, <2>8, <3>1, Zenon DEF Contract!Complete, Contract!Uploading
    <3> QED
      BY <3>2 DEF Allowed, Contract!Next
  <2>11. Whole
    BY <1>1, <2>3, <2>4 DEF Whole, CompleteIsWhole, Complete, TypeOK
  <2> QED
    BY <2>2, <2>9, <2>10, <2>11 DEF Status
<1> QED
  BY <1>2, <1>3

LEMMA UploadDropped ==
  ASSUME TypeOK, CompleteIsWhole, NEW x \in Attachments, remote' = [remote EXCEPT ![x] = None]
  PROVE  Allowed /\ Whole
<1>1. Contract!Delete(x)
  BY UploadEnds DEF Contract!Delete
<1>2. Whole
  BY DEF Whole, CompleteIsWhole, Complete, TypeOK
<1> QED
  BY <1>1, <1>2 DEF Allowed, Contract!Next

LEMMA StepIsAllowed ==
  ASSUME IInv, CompleteIsWhole, [Next]_vars
  PROVE  Allowed /\ Whole
<1>1. CASE UNCHANGED remote
  BY <1>1 DEF OnServer, Allowed, Whole, CompleteIsWhole, Complete
<1>2. ASSUME NEW d \in Devices, User(d) \/ Command(d) \/ Reload(d)
                                \/ PushUnanswered(d) \/ Fail(d)
      PROVE  UNCHANGED remote
  BY <1>2 DEF User, Command, Fail, Import, Edit, DeleteList, Resolve, ImportRow, ImportQueue,
              ImportDescribe, Attach, DeleteRecord, Reload, PushUnanswered
<1>3. ASSUME NEW d \in Devices, RequestDeletion(d)
      PROVE  Allowed /\ Whole
  <2>1. TypeOK /\ At(d) \in Attachments
    BY <1>3, AtServer DEF RequestDeletion, Deleting
  <2> PICK x \in Attachments : x = At(d)
    BY <2>1
  <2>2. remote' = [remote EXCEPT ![x] = None]
    BY <1>3 DEF RequestDeletion, At
  <2> QED
    BY <2>1, <2>2, UploadDropped
<1>4. ASSUME NEW d \in Devices, Sync(d)
      PROVE  Allowed /\ Whole
  <2>1. CASE CreateUpload(d) \/ UploadPart(d) \/ CompleteUpload(d) \/ RequestDeletion(d)
    BY <2>1, <1>3, CreateBegins, PartTaken, UploadCompleted
  <2>2. CASE \/ SyncNow(d) \/ ListUploads(d) \/ RefuseUpload(d) \/ MarkSynced(d) \/ Pull(d)
             \/ NothingToPush(d) \/ Push(d) \/ ListDeletions(d) \/ Forget(d) \/ Unlink(d)
             \/ ListDownloads(d) \/ Download(d) \/ ImportDownload(d)
    BY <1>1, <2>2
    DEF SyncNow, ListUploads, RefuseUpload, MarkSynced, Pull, NothingToPush, Push,
        ListDeletions, Forget, Unlink, ListDownloads, Download, ImportDownload
  <2> QED
    BY <1>4, <2>1, <2>2 DEF Sync
<1>5. ASSUME NEW x \in Attachments, Expire(x)
      PROVE  Allowed /\ Whole
  BY <1>5, UploadDropped DEF Expire, IInv
<1>6. CASE UNCHANGED vars
  BY <1>1, <1>6 DEF vars
<1> QED
  BY <1>1, <1>2, <1>4, <1>5, <1>6 DEF Next

(* The devices keep to the contract of uploads that AttachmentStore        *)
(* implements: with calls cut off anywhere and two devices at work, no     *)
(* upload begins over another, takes a part after it is complete or is     *)
(* completed without one.                                                  *)
THEOREM KeepsContract == Spec => ImplementsUploads
<1>1. Init => Contract!Init /\ CompleteIsWhole
  BY DEF Init, Contract!Init, OnServer, CompleteIsWhole, Complete
<1>2. IInv /\ CompleteIsWhole /\ [Next]_vars => CompleteIsWhole' /\ [Contract!Next]_OnServer
  BY StepIsAllowed DEF Allowed, Whole
<1> QED
  BY <1>1, <1>2, Invariance, PTL DEF Spec, Contract!Spec, ImplementsUploads
=============================================================================
