------------------------------ MODULE DesktopSync ------------------------------
(***************************************************************************)
(* The synchronization of the desktop clients of one account: on every     *)
(* device a SQLite repository (items, outbox, sync_state, sync_conflicts,  *)
(* pull cursor), the user who saves, deletes and resolves conflicts, and   *)
(* the command `sync_now`, which runs beside the user: it takes and        *)
(* releases the repository's mutex call by call. A push is one atomic step *)
(* of the server, which is what SyncContract promises and SyncServer does  *)
(* for objects that exist; it takes its cursors in that step, so a change  *)
(* is never committed below a cursor a device has passed (in SyncServer it *)
(* can be: NoChangeSkipped).                                               *)
(***************************************************************************)
EXTENDS Integers, FiniteSets

CONSTANTS
  Devices,
  Objects,
  Shared,      \* the objects every device has synchronized before
  PageLimit,   \* changes in one page of `pull`
  BatchLimit,  \* changes in one `push`
  MaxEdits,    \* bound of the model: saves and deletions the users make
  MaxFailures, \* bound of the model: calls that fail, or crashes, between two steps
  Allowed,     \* the disturbances that may happen
  None         \* "there is no such thing"

Disturbances == {
  "lost answer",           \* a failure after the server took a push and before its
                           \* answer is used
  "edit during apply",     \* the user edits between the check and the write of
                           \* apply_remote_change
  "resolve during apply"}  \* ... or the read and the write of resolve_sync_conflict
                           \* overlap with those two

ASSUME DesktopAssumption ==
  /\ IsFiniteSet(Objects) /\ Shared \subseteq Objects
  /\ PageLimit \in Nat \ {0} /\ BatchLimit \in Nat \ {0}
  /\ MaxEdits \in Nat /\ MaxFailures \in Nat
  /\ Allowed \subseteq Disturbances

VARIABLES
  server,    \* sync_objects: the version and the content of each object
  log,       \* sync_changes
  item,      \* the content each device shows, Nothing without a row in items
  outbox,    \* the newest outbox row of each object
  lastSeq,   \* the AUTOINCREMENT of each outbox
  version,   \* sync_state.server_version, 0 without a row
  conflict,  \* sync_conflicts: the change stored for an object, or None
  cursor,    \* the pull cursor
  pc,        \* what sync_now does next
  stage,     \* which of its pulls and pushes sync_now is at
  page,      \* the page of changes being taken in
  verdict,   \* what apply_remote_change decided for the change at hand
  batch,     \* the outbox rows being pushed
  choosing,  \* the conflict resolve_sync_conflict has read, or None
  edits,     \* the number of the last edit; the shared objects start with edit 1
  failures,  \* how many failures there were
  mine,      \* the last edit made on the device and not given up, or None
  seen       \* the changes a user has been shown, as the item or as a conflict

store == <<item, outbox, lastSeq, version, conflict, cursor>>
sync == <<pc, stage, page, verdict, batch>>
ghosts == <<edits, failures, mine, seen>>
vars == <<server, log, store, sync, choosing, ghosts>>

(* A content is the number of the edit that wrote it; all that matters is  *)
(* whether two are the same. A tombstone and an absent item are Nothing.   *)
Nothing == 0
Content == Nat

(* The newest outbox row of an object stands for all of its rows: the      *)
(* queries only ask for the newest, and rows are cleared from the oldest.  *)
NoRow == [seq |-> 0, op |-> "none"]
Row == [seq : Nat, op : {"none", "upsert", "delete"}]
Sent == [seq : Nat, op : {"upsert", "delete"}, base : Nat]
Change == [object : Objects, version : Nat, content : Content, cursor : Nat,
           device : Devices, key : Devices \X SUBSET (Objects \X Nat)]

ASSUME NoneAssumption == None \notin Change

NoPage == [next |-> 0, last |-> 0, more |-> FALSE]
NoBatch == [o \in {} |-> NoRow]

TypeOK ==
  /\ server \in [Objects -> [version : Nat, content : Content]]
  /\ log \subseteq Change
  /\ item \in [Devices -> [Objects -> Content]]
  /\ outbox \in [Devices -> [Objects -> Row]]
  /\ lastSeq \in [Devices -> Nat]
  /\ version \in [Devices -> [Objects -> Nat]]
  /\ conflict \in [Devices -> [Objects -> Change \cup {None}]]
  /\ cursor \in [Devices -> Nat]
  /\ pc \in [Devices -> {"idle", "pull", "check", "apply", "collect", "send", "await"}]
  /\ stage \in [Devices -> {"first", "again", "after"}]
  /\ page \in [Devices -> [next : Nat, last : Nat, more : BOOLEAN]]
  /\ verdict \in [Devices -> {"none", "conflict", "own", "take"}]
  /\ DOMAIN batch = Devices
  /\ \A d \in Devices :
       /\ \E s \in SUBSET Objects : batch[d] \in [s -> Sent]
       /\ pc[d] \in {"send", "await"} <=> batch[d] # NoBatch
  /\ choosing \in [Devices -> [keep : {"local", "remote"}, change : Change] \cup {None}]
  /\ edits \in Nat /\ failures \in Nat
  /\ mine \in [Devices -> [Objects -> Content \cup {None}]]
  /\ seen \in [Devices -> SUBSET Change]

Each(x) == [d \in Devices |-> x]
EachObject(x) == [d \in Devices |-> [o \in Objects |-> x]]
AtStart(x, y) == [o \in Objects |-> IF o \in Shared THEN x ELSE y]

Init ==
  /\ server = AtStart([version |-> 1, content |-> 1], [version |-> 0, content |-> Nothing])
  /\ log = {}
  /\ item = Each(AtStart(1, Nothing))
  /\ outbox = EachObject(NoRow)
  /\ lastSeq = Each(0)
  /\ version = Each(AtStart(1, 0))
  /\ conflict = EachObject(None)
  /\ cursor = Each(0)
  /\ pc = Each("idle")
  /\ stage = Each("first")
  /\ page = Each(NoPage)
  /\ verdict = Each("none")
  /\ batch = Each(NoBatch)
  /\ choosing = Each(None)
  /\ edits = 1
  /\ failures = 0
  /\ mine = EachObject(None)
  /\ seen = Each({})

LastCursor == Cardinality(log)
Pending(d, o) == outbox[d][o] # NoRow

-----------------------------------------------------------------------------
(* The user. A device edits an object it knows; a new object gets a fresh  *)
(* identifier, so only one device creates it.                              *)
Knows(d, o) == version[d][o] > 0 \/ Pending(d, o)
Unborn(o) == server[o].version = 0 /\ \A d \in Devices : ~Knows(d, o)

(* UI commands run one at a time (they hold the session's mutex), and take *)
(* turns with sync_now at the repository's mutex.                          *)
MayEdit(d) ==
  /\ edits <= MaxEdits
  /\ choosing[d] = None
  /\ pc[d] = "apply" => "edit during apply" \in Allowed

Edit(d, o, content, op) ==
  /\ edits' = edits + 1
  /\ item' = [item EXCEPT ![d][o] = content]
  /\ lastSeq' = [lastSeq EXCEPT ![d] = @ + 1]
  /\ outbox' = [outbox EXCEPT ![d][o] = [seq |-> lastSeq[d] + 1, op |-> op]]
  /\ mine' = [mine EXCEPT ![d][o] = content]
  /\ UNCHANGED <<server, log, version, conflict, cursor, sync, choosing, failures, seen>>

Save(d, o) ==
  /\ MayEdit(d) /\ (Knows(d, o) \/ Unborn(o))
  /\ Edit(d, o, edits + 1, "upsert")
Delete(d, o) ==
  /\ MayEdit(d) /\ item[d][o] # Nothing
  /\ Edit(d, o, Nothing, "delete")

(* resolve_sync_conflict reads the stored conflict under the repository's  *)
(* mutex, releases it, and takes it again to write.                        *)
Choose(d, o, keep) ==
  /\ choosing[d] = None /\ conflict[d][o] # None
  /\ pc[d] = "apply" => "resolve during apply" \in Allowed
  /\ choosing' = [choosing EXCEPT ![d] = [keep |-> keep, change |-> conflict[d][o]]]
  /\ UNCHANGED <<server, log, store, sync, ghosts>>

Resolved(d) ==
  LET c == choosing[d].change
  IN  /\ version' = [version EXCEPT ![d][c.object] = c.version]
      /\ conflict' = [conflict EXCEPT ![d][c.object] = None]
      /\ choosing' = [choosing EXCEPT ![d] = None]
      /\ seen' = [seen EXCEPT ![d] = @ \cup {c}]

ResolveLocal(d) ==
  /\ choosing[d] # None /\ choosing[d].keep = "local"
  /\ Resolved(d)
  /\ UNCHANGED <<server, log, item, outbox, lastSeq, cursor, sync, edits, failures, mine>>
(* ... and apply_remote_force for the remote version, which discards the   *)
(* local edits. (Faulty variant: it keeps their outbox rows.)              *)
KeptRow(d, o) == outbox[d][o]
DiscardedRow(d, o) == NoRow
ResolveRemote(d) ==
  /\ choosing[d] # None /\ choosing[d].keep = "remote"
  /\ Resolved(d)
  /\ LET c == choosing[d].change
     IN  /\ item' = [item EXCEPT ![d][c.object] = c.content]
         /\ outbox' = [outbox EXCEPT ![d][c.object] = DiscardedRow(d, c.object)]
         /\ mine' = [mine EXCEPT ![d][c.object] = None]
  /\ UNCHANGED <<server, log, lastSeq, cursor, sync, edits, failures>>
-----------------------------------------------------------------------------
(* sync_now: pull, push, pull; when the push is refused, pull and push     *)
(* once more before the last pull. The flag sync_processing lets one run   *)
(* at a time.                                                              *)
Goto(d, where) == pc' = [pc EXCEPT ![d] = where]

(* sync_now returns; what it held in memory is gone.                       *)
(* (Faulty variant: the batch survives.)                                   *)
StopKeepingBatch(d) ==
  /\ Goto(d, "idle")
  /\ stage' = [stage EXCEPT ![d] = "first"]
  /\ page' = [page EXCEPT ![d] = NoPage]
  /\ verdict' = [verdict EXCEPT ![d] = "none"]
  /\ UNCHANGED batch
Stop(d) ==
  /\ Goto(d, "idle")
  /\ stage' = [stage EXCEPT ![d] = "first"]
  /\ page' = [page EXCEPT ![d] = NoPage]
  /\ verdict' = [verdict EXCEPT ![d] = "none"]
  /\ batch' = [batch EXCEPT ![d] = NoBatch]

(* GET sync/pull from the cursor, the first time when sync_now is called.  *)
Fetch(d) ==
  /\ pc[d] \in {"idle", "pull"}
  /\ LET end == cursor[d] + PageLimit
     IN  page' = [page EXCEPT ![d] =
           [next |-> cursor[d] + 1,
            last |-> IF end < LastCursor THEN end ELSE LastCursor,
            more |-> end < LastCursor]]
  /\ Goto(d, "check")
  /\ UNCHANGED <<server, log, store, stage, verdict, batch, choosing, ghosts>>

AtHand(d) == CHOOSE c \in log : c.cursor = page[d].next
NextChange(d) == page' = [page EXCEPT ![d].next = @ + 1]

(* The first half of apply_remote_change, under the repository's mutex.    *)
Skip(d) ==
  /\ pc[d] = "check" /\ page[d].next <= page[d].last
  /\ version[d][AtHand(d).object] >= AtHand(d).version
  /\ NextChange(d)
  /\ UNCHANGED <<server, log, store, pc, stage, verdict, batch, choosing, ghosts>>
(* (Faulty variant: any change of an object with local edits is taken for  *)
(* the device's own.)                                                      *)
DecisionIgnoringDevice(d) == IF Pending(d, AtHand(d).object) THEN "own" ELSE "take"
Decision(d) ==
  IF ~Pending(d, AtHand(d).object) THEN "take"
  ELSE IF AtHand(d).device # d THEN "conflict" ELSE "own"
Check(d) ==
  /\ pc[d] = "check" /\ page[d].next <= page[d].last
  /\ version[d][AtHand(d).object] < AtHand(d).version
  /\ choosing[d] # None => "resolve during apply" \in Allowed
  /\ verdict' = [verdict EXCEPT ![d] = Decision(d)]
  /\ Goto(d, "apply")
  /\ UNCHANGED <<server, log, store, stage, page, batch, choosing, ghosts>>

(* The second half, which takes the mutex again.                           *)
Applying(d, what) ==
  /\ pc[d] = "apply" /\ verdict[d] = what
  /\ verdict' = [verdict EXCEPT ![d] = "none"]
  /\ NextChange(d)
  /\ Goto(d, "check")
  /\ UNCHANGED <<server, log, stage, batch, choosing>>

StoreConflict(d) ==
  /\ Applying(d, "conflict")
  /\ conflict' = [conflict EXCEPT ![d][AtHand(d).object] = AtHand(d)]
  /\ UNCHANGED <<item, outbox, lastSeq, version, cursor, ghosts>>
RecognizeOwn(d) ==
  /\ Applying(d, "own")
  /\ version' = [version EXCEPT ![d][AtHand(d).object] =
       IF @ < AtHand(d).version THEN AtHand(d).version ELSE @]
  /\ UNCHANGED <<item, outbox, lastSeq, conflict, cursor, ghosts>>
Take(d) ==
  /\ Applying(d, "take")
  /\ item' = [item EXCEPT ![d][AtHand(d).object] = AtHand(d).content]
  /\ version' = [version EXCEPT ![d][AtHand(d).object] = AtHand(d).version]
  /\ conflict' = [conflict EXCEPT ![d][AtHand(d).object] = None]
  /\ seen' = [seen EXCEPT ![d] = @ \cup {AtHand(d)}]
  /\ UNCHANGED <<outbox, lastSeq, cursor, edits, failures, mine>>

(* set_pull_cursor at the end of a page; after the last page, the push or  *)
(* the end.                                                                *)
(* (Faulty variant: MIN where the code has MAX.)                           *)
MovedBack(d) == IF cursor[d] < page[d].last THEN cursor[d] ELSE page[d].last
Moved(d) == IF cursor[d] < page[d].last THEN page[d].last ELSE cursor[d]
Mark(d) ==
  /\ pc[d] = "check" /\ page[d].next > page[d].last
  /\ cursor' = [cursor EXCEPT ![d] = Moved(d)]
  /\ IF ~page[d].more /\ stage[d] = "after"
     THEN Stop(d)
     ELSE /\ Goto(d, IF page[d].more THEN "pull" ELSE "collect")
          /\ page' = [page EXCEPT ![d] = NoPage]
          /\ UNCHANGED <<stage, verdict, batch>>
  /\ UNCHANGED <<server, log, item, outbox, lastSeq, version, conflict, choosing, ghosts>>

(* pending_sync_changes, its query: the newest row of each object without  *)
(* a stored conflict, oldest first, with the version it is based on.       *)
Eligible(d) == {o \in Objects : Pending(d, o) /\ conflict[d][o] = None}
Chosen(d) ==
  {o \in Eligible(d) :
     Cardinality({p \in Eligible(d) : outbox[d][p].seq < outbox[d][o].seq}) < BatchLimit}
Collect(d) ==
  /\ pc[d] = "collect" /\ Eligible(d) # {}
  /\ batch' = [batch EXCEPT ![d] =
       [o \in Chosen(d) |-> [seq |-> outbox[d][o].seq, op |-> outbox[d][o].op,
                             base |-> version[d][o]]]]
  /\ Goto(d, "send")
  /\ UNCHANGED <<server, log, store, stage, page, verdict, choosing, ghosts>>
NothingToPush(d) ==
  /\ pc[d] = "collect" /\ Eligible(d) = {}
  /\ Goto(d, "pull")
  /\ stage' = [stage EXCEPT ![d] = "after"]
  /\ UNCHANGED <<server, log, store, page, verdict, batch, choosing, ghosts>>

(* The rest of pending_sync_changes reads each content with the mutex      *)
(* released in between, so it may be newer than the row; an upsert whose   *)
(* item is gone is an error. Then the push: the idempotency key is made of *)
(* the device, the objects and the row numbers.                            *)
InBatch(d) == DOMAIN batch[d]
Readable(d) == \A o \in InBatch(d) : batch[d][o].op = "upsert" => item[d][o] # Nothing
Key(d) == <<d, {<<o, batch[d][o].seq>> : o \in InBatch(d)}>>
Stored(d) == {c \in log : c.key = Key(d)}
Answered(d) == Stored(d) # {}
UpToDate(d) == \A o \in InBatch(d) : batch[d][o].base = server[o].version
Accepted(d, o) ==
  [object |-> o,
   version |-> server[o].version + 1,
   content |-> IF batch[d][o].op = "delete" THEN Nothing ELSE item[d][o],
   cursor |-> LastCursor +
     Cardinality({p \in InBatch(d) : batch[d][p].seq <= batch[d][o].seq}),
   device |-> d,
   key |-> Key(d)]

SendAccepted(d) ==
  /\ pc[d] = "send" /\ Readable(d)
  /\ ~Answered(d) /\ UpToDate(d)
  /\ log' = log \cup {Accepted(d, o) : o \in InBatch(d)}
  /\ server' = [o \in Objects |->
       IF o \in InBatch(d)
       THEN [version |-> Accepted(d, o).version, content |-> Accepted(d, o).content]
       ELSE server[o]]
  /\ Goto(d, "await")
  /\ UNCHANGED <<store, stage, page, verdict, batch, choosing, ghosts>>
SendReplayed(d) ==
  /\ pc[d] = "send" /\ Readable(d)
  /\ Answered(d)
  /\ Goto(d, "await")
  /\ UNCHANGED <<server, log, store, stage, page, verdict, batch, choosing, ghosts>>
SendRefused(d) ==
  /\ pc[d] = "send" /\ Readable(d)
  /\ ~Answered(d) /\ ~UpToDate(d)
  /\ IF stage[d] = "first"
     THEN /\ Goto(d, "pull")
          /\ stage' = [stage EXCEPT ![d] = "again"]
          /\ batch' = [batch EXCEPT ![d] = NoBatch]
          /\ UNCHANGED <<page, verdict>>
     ELSE Stop(d)
  /\ UNCHANGED <<server, log, store, choosing, ghosts>>
Unreadable(d) ==
  /\ pc[d] = "send" /\ ~Readable(d)
  /\ Stop(d)
  /\ UNCHANGED <<server, log, store, choosing, ghosts>>

(* complete_sync_push: the versions of the answer, and every outbox row up *)
(* to the one that was pushed is gone.                                     *)
Confirmed(d, o) == CHOOSE c \in Stored(d) : c.object = o
(* (Faulty variant: every row of the object is cleared.)                   *)
NoRowLeft(d, o) == IF o \in InBatch(d) THEN NoRow ELSE outbox[d][o]
RowLeft(d, o) ==
  IF o \in InBatch(d) /\ outbox[d][o].seq <= batch[d][o].seq THEN NoRow
  ELSE outbox[d][o]
Complete(d) ==
  /\ pc[d] = "await"
  /\ version' = [version EXCEPT ![d] = [o \in Objects |->
       IF o \in InBatch(d) THEN Confirmed(d, o).version ELSE @[o]]]
  /\ outbox' = [outbox EXCEPT ![d] = [o \in Objects |-> RowLeft(d, o)]]
  /\ batch' = [batch EXCEPT ![d] = NoBatch]
  /\ Goto(d, "collect")
  /\ UNCHANGED <<server, log, item, lastSeq, conflict, cursor, stage, page, verdict,
                 choosing, ghosts>>

(* A call fails or the application dies.                                   *)
Abort(d) ==
  /\ pc[d] # "idle" /\ failures < MaxFailures
  /\ pc[d] = "await" => "lost answer" \in Allowed
  /\ failures' = failures + 1
  /\ Stop(d)
  /\ UNCHANGED <<server, log, store, choosing, edits, mine, seen>>

-----------------------------------------------------------------------------
User(d) ==
  \/ \E o \in Objects :
       \/ Save(d, o) \/ Delete(d, o)
       \/ \E keep \in {"local", "remote"} : Choose(d, o, keep)
Writing(d) == ResolveLocal(d) \/ ResolveRemote(d)
Syncing(d) ==
  \/ Fetch(d) \/ Skip(d) \/ Check(d)
  \/ StoreConflict(d) \/ RecognizeOwn(d) \/ Take(d) \/ Mark(d)
  \/ Collect(d) \/ NothingToPush(d)
  \/ SendAccepted(d) \/ SendReplayed(d) \/ SendRefused(d) \/ Unreadable(d)
  \/ Complete(d)

Next == \E d \in Devices : User(d) \/ Writing(d) \/ Syncing(d) \/ Abort(d)

Spec == Init /\ [][Next]_vars

(* The interface starts sync_now every 30 seconds, the runtime polls it,   *)
(* and a command that was started comes to its end. No user has to edit or *)
(* to resolve anything.                                                    *)
FairSpec == Spec /\ \A d \in Devices : WF_vars(Syncing(d)) /\ WF_vars(Writing(d))

-----------------------------------------------------------------------------
(* An edit is never lost: the last one made on a device is what the device *)
(* shows and still has to push, or the server has it, unless the user gave *)
(* it up by choosing the remote version.                                   *)
NoEditLost ==
  \A d \in Devices, o \in Objects : mine[d][o] # None =>
    \/ Pending(d, o) /\ item[d][o] = mine[d][o]
    \/ \E c \in log : c.object = o /\ c.device = d /\ c.content = mine[d][o]

(* A device never pushes over a change its user was not shown: the change  *)
(* before one it makes is its own, or was taken in, or was the conflict    *)
(* the user resolved.                                                      *)
NoBlindOverwrite ==
  [][\A c \in log' \ log : \A e \in log :
       e.object = c.object /\ e.version = c.version - 1 =>
         e.device = c.device \/ e \in seen[c.device]]_vars

(* A device that has taken in the whole log, has nothing to push for an    *)
(* object and no conflict shows what the server has.                       *)
CaughtUp(d, o) == cursor[d] = LastCursor /\ ~Pending(d, o) /\ conflict[d][o] = None
CaughtUpAgrees ==
  \A d \in Devices, o \in Objects : CaughtUp(d, o) =>
    item[d][o] = server[o].content /\ version[d][o] = server[o].version

(* When the users stop editing and the calls stop failing, every object of *)
(* every device is caught up for good or waits for its user to resolve a   *)
(* conflict.                                                               *)
Settles ==
  <>[](\A d \in Devices, o \in Objects : CaughtUp(d, o) \/ conflict[d][o] # None)
=============================================================================
