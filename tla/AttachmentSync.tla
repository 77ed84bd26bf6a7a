----------------------------- MODULE AttachmentSync -----------------------------
(***************************************************************************)
(* The attachments of a record on the devices of an account: a command of  *)
(* the user stores an attachment and puts it into the record, sync_now     *)
(* uploads it before it pushes records, deletes it after the record's      *)
(* deletion is confirmed, and downloads what the records it pulled refer   *)
(* to. Pulling and pushing the record are one step each, DesktopSync has   *)
(* what happens inside them; the server's answers are one step each, as    *)
(* AttachmentStore shows them to be. sync_now and the user's commands run  *)
(* beside each other and meet at the repository's mutex; the commands save *)
(* and show the interface's own copy of the record.                        *)
(***************************************************************************)
EXTENDS Integers, FiniteSets, Sequences, SequencesExt

CONSTANTS
  Devices,
  Attachments,
  Maker,       \* the device each attachment is imported on; its id is fresh
  Parts,       \* the number of parts of an attachment
  MaxEdits,    \* bound of the model: edits, imports and deletions of the users
  MaxFailures, \* bound of the model: calls that fail, applications that stop
  None         \* "there is no such thing"

ASSUME AttachmentSyncAssumption ==
  /\ Devices # {} /\ IsFiniteSet(Attachments) /\ Maker \in [Attachments -> Devices]
  /\ Parts \in Nat \ {0} /\ MaxEdits \in Nat /\ MaxFailures \in Nat

VARIABLES
  server,     \* the record in sync_objects; its content is None after a tombstone
  remote,     \* the server's attachments: parts uploaded and status, or None
  item,       \* the record on each device: the attachments it refers to, or None
  shown,      \* the interface's copy of it
  dirty,      \* the newest outbox row of the record
  unanswered, \* the version the server gave to that row while its answer was lost, or 0
  version,    \* sync_state.server_version of the record
  cursor,     \* the last version of the record that was delivered
  conflict,   \* the change stored in sync_conflicts, or None
  row,        \* attachments.sync_status, "none" without a row
  described,  \* attachments with a row in attachment_descriptors
  blob,       \* the ciphertext files in the attachment directory
  uploads,    \* outbox rows 'attachment'
  deletions,  \* outbox rows 'attachment_delete'
  pc,         \* what sync_now does next
  hand,       \* the attachments sync_now has listed and not dealt with
  command,    \* the command the user waits for: its next step and the record as
              \* it was when the command started
  edits, failures,
  imported,   \* history: the attachments that were ever imported
  refused,    \* history: those whose upload the server last refused to begin
  excuses     \* history: what has been set against a deletion, the "choice" of a user
              \* in a conflict or the "revival" of the record by a stale copy

record == <<item, shown, dirty, unanswered, version, cursor, conflict>>
store == <<row, described, blob, uploads, deletions>>
sync == <<pc, hand>>
bounds == <<edits, failures>>
history == <<imported, refused, excuses>>
vars == <<server, remote, record, store, sync, command, bounds, history>>

Content == (SUBSET Attachments) \union {None}
Version == [version : 1 .. MaxEdits + 1, content : Content, device : Devices]
Status == {"uploading", "complete"}
Upload == [parts : 0 .. Parts, status : Status]  \* parts are sent in order
PartNumbers == 0 .. Parts - 1
WholeUpload == [file : Attachments, status : Status, parts : SUBSET PartNumbers]

ASSUME NoneAssumption ==
  \A c \in (SUBSET Attachments) \union Version \union Upload \union WholeUpload : c # None

Phase ==
  {"idle", "upload", "create", "part", "complete", "mark", "pull", "push", "pull again",
   "push again", "pull last", "delete", "request deletion", "forget", "unlink", "download",
   "fetch", "import"}
Lists ==
  {q \in UNION {[1 .. n -> Attachments] : n \in 0 .. Cardinality(Attachments)} : IsInjective(q)}
AtRest == [next |-> "none", attachment |-> None, copy |-> None]
CommandState ==
  {AtRest}
  \union [next : {"row", "queue", "describe", "attach"}, attachment : Attachments,
          copy : SUBSET Attachments]
  \union [next : {"delete"}, attachment : {None}, copy : SUBSET Attachments]

TypeOK ==
  /\ server \in Version
  /\ remote \in [Attachments -> Upload \union {None}]
  /\ item \in [Devices -> Content] /\ shown \in [Devices -> Content]
  /\ dirty \in [Devices -> {"none", "upsert", "delete"}]
  /\ unanswered \in [Devices -> 0 .. MaxEdits + 1]
  /\ version \in [Devices -> 1 .. MaxEdits + 1] /\ cursor \in [Devices -> 1 .. MaxEdits + 1]
  /\ conflict \in [Devices -> Version \union {None}]
  /\ row \in [Devices -> [Attachments -> {"none", "pending", "synced"}]]
  /\ \A held \in {described, blob, uploads, deletions} :
       held \in [Devices -> SUBSET Attachments]
  /\ pc \in [Devices -> Phase] /\ hand \in [Devices -> Lists]
  /\ command \in [Devices -> CommandState]
  /\ edits \in 0 .. MaxEdits /\ failures \in 0 .. MaxFailures
  /\ imported \subseteq Attachments /\ refused \subseteq Attachments
  /\ excuses \subseteq {"choice", "revival"}

Init ==
  LET first == [version |-> 1, content |-> {}, device |-> CHOOSE d \in Devices : TRUE]
      Each(x) == [d \in Devices |-> x]
  IN
  /\ server = first
  /\ item = Each({}) /\ shown = Each({}) /\ version = Each(1) /\ cursor = Each(1)
  /\ dirty = Each("none") /\ unanswered = Each(0) /\ conflict = Each(None)
  /\ remote = [x \in Attachments |-> None]
  /\ row = Each([x \in Attachments |-> "none"])
  /\ described = Each({}) /\ blob = Each({}) /\ uploads = Each({}) /\ deletions = Each({})
  /\ pc = Each("idle") /\ hand = Each(<<>>) /\ command = Each(AtRest)
  /\ edits = 0 /\ failures = 0 /\ imported = {} /\ refused = {} /\ excuses = {}

Add(held, d, x) == [held EXCEPT ![d] = @ \union {x}]
Drop(held, d, x) == [held EXCEPT ![d] = @ \ {x}]
-----------------------------------------------------------------------------
(* The user's commands. Storing an attachment is four writes, none of them *)
(* in one transaction with another; the interface then saves its copy of   *)
(* the record with the attachment added, unless it shows it no more. save  *)
(* inserts a record that is gone: a copy that was not loaded again since   *)
(* the deletion was pulled revives it.                                     *)

Idle(d) == command[d] = AtRest
Then(d, next) == command' = [command EXCEPT ![d].next = next]
Count == edits < MaxEdits /\ edits' = edits + 1 /\ UNCHANGED failures

Save(d, content) ==
  /\ item' = [item EXCEPT ![d] = content]
  /\ shown' = [shown EXCEPT ![d] = content]
  /\ dirty' = [dirty EXCEPT ![d] = "upsert"]
  /\ unanswered' = [unanswered EXCEPT ![d] = 0]
  /\ excuses' = excuses \union (IF item[d] = None THEN {"revival"} ELSE {})

Import(d, x) ==
  /\ Idle(d) /\ Count
  /\ shown[d] # None /\ Maker[x] = d /\ x \notin imported
  /\ imported' = imported \union {x}
  /\ blob' = Add(blob, d, x)
  /\ command' = [command EXCEPT ![d] =
                   [next |-> "row", attachment |-> x, copy |-> shown[d]]]
  /\ UNCHANGED <<server, remote, record, row, described, uploads, deletions, sync, refused,
                 excuses>>

ImportRow(d) ==
  /\ command[d].next = "row"
  /\ row' = [row EXCEPT ![d][command[d].attachment] = "pending"]
  /\ Then(d, "queue")
  /\ UNCHANGED <<server, remote, record, described, blob, uploads, deletions, sync, bounds,
                 history>>

ImportQueue(d) ==
  /\ command[d].next = "queue"
  /\ uploads' = Add(uploads, d, command[d].attachment)
  /\ Then(d, "describe")
  /\ UNCHANGED <<server, remote, record, row, described, blob, deletions, sync, bounds,
                 history>>

ImportDescribe(d) ==
  /\ command[d].next = "describe"
  /\ described' = Add(described, d, command[d].attachment)
  /\ Then(d, "attach")
  /\ UNCHANGED <<server, remote, record, row, blob, uploads, deletions, sync, bounds, history>>

Attach(d) ==
  /\ command[d].next = "attach"
  /\ IF shown[d] = None
     THEN UNCHANGED <<item, shown, dirty, unanswered, excuses>>
     ELSE Save(d, command[d].copy \union {command[d].attachment})
  /\ command' = [command EXCEPT ![d] = AtRest]
  /\ UNCHANGED <<server, remote, version, cursor, conflict, store, sync, bounds, imported,
                 refused>>

(* Any other edit of the record: the copy that is shown is saved.          *)
Edit(d) ==
  /\ Idle(d) /\ Count
  /\ shown[d] # None /\ Save(d, shown[d])
  /\ UNCHANGED <<server, remote, version, cursor, conflict, store, sync, command, imported,
                 refused>>

(* The interface loads the record again, some time after sync_now ended    *)
(* well and had pulled something, a conflict was resolved or a user has    *)
(* logged in.                                                              *)
Reload(d) ==
  /\ shown[d] # item[d]
  /\ shown' = [shown EXCEPT ![d] = item[d]]
  /\ UNCHANGED <<server, remote, item, dirty, unanswered, version, cursor, conflict, store,
                 sync, command, bounds, history>>

(* delete lists the records before it takes the mutex, then deletes the    *)
(* record, queues the deletion of the attachments it had then, and drops   *)
(* their uploads. (Faulty variant: it keeps the uploads.)                  *)
UploadsKept(d) == uploads[d]
UploadsLeft(d) == uploads[d] \ command[d].copy

DeleteList(d) ==
  /\ Idle(d) /\ Count
  /\ shown[d] # None /\ item[d] # None
  /\ command' = [command EXCEPT ![d] =
                   [next |-> "delete", attachment |-> None, copy |-> item[d]]]
  /\ UNCHANGED <<server, remote, record, store, sync, history>>

DeleteRecord(d) ==
  /\ command[d].next = "delete"
  /\ command' = [command EXCEPT ![d] = AtRest]
  /\ IF item[d] = None
     THEN UNCHANGED <<item, shown, dirty, unanswered, uploads, deletions>>   \* NotFound
     ELSE /\ item' = [item EXCEPT ![d] = None]
          /\ shown' = [shown EXCEPT ![d] = None]
          /\ dirty' = [dirty EXCEPT ![d] = "delete"]
          /\ unanswered' = [unanswered EXCEPT ![d] = 0]
          /\ uploads' = [uploads EXCEPT ![d] = UploadsLeft(d)]
          /\ deletions' = [deletions EXCEPT ![d] = @ \union command[d].copy]
  /\ UNCHANGED <<server, remote, version, cursor, conflict, row, described, blob, sync,
                 bounds, history>>

(* resolve_sync_conflict. The remote version discards the record's own     *)
(* outbox rows and no others; the local one makes no new row.              *)
Resolve(d, keep) ==
  /\ Idle(d) /\ conflict[d] # None
  /\ version' = [version EXCEPT ![d] = conflict[d].version]
  /\ conflict' = [conflict EXCEPT ![d] = None]
  /\ IF keep = "local"
     THEN UNCHANGED <<item, dirty, unanswered>>
     ELSE /\ item' = [item EXCEPT ![d] = conflict[d].content]
          /\ dirty' = [dirty EXCEPT ![d] = "none"]
          /\ unanswered' = [unanswered EXCEPT ![d] = 0]
  /\ excuses' = excuses \union
                  (IF (dirty[d] = "delete") # (conflict[d].content = None)
                   THEN {"choice"} ELSE {})
  /\ UNCHANGED <<server, remote, shown, cursor, store, sync, command, bounds, imported,
                 refused>>
-----------------------------------------------------------------------------
(* sync_now: upload, pull, push, (after a refusal pull and push again,)    *)
(* pull, delete, download. An error ends it.                               *)

Goto(d, next) == pc' = [pc EXCEPT ![d] = next] /\ UNCHANGED hand
Stop(d) == pc' = [pc EXCEPT ![d] = "idle"] /\ hand' = [hand EXCEPT ![d] = <<>>]
(* The attachment at hand is dealt with, or the whole list.                *)
Finish(d, next) ==
  /\ hand' = [hand EXCEPT ![d] = Tail(@)]
  /\ pc' = [pc EXCEPT ![d] = next]
List(d, set, nonempty, empty) ==
  \E q \in SetToSeqs(set) :
    hand' = [hand EXCEPT ![d] = q] /\ pc' = [pc EXCEPT ![d] = IF set = {} THEN empty ELSE nonempty]

SyncNow(d) ==
  /\ pc[d] = "idle"
  /\ Goto(d, "upload")
  /\ UNCHANGED <<server, remote, record, store, command, bounds, history>>

(* pending_attachments                                                     *)
Pending(d) == {x \in uploads[d] \intersect described[d] : row[d][x] = "pending"}

ListUploads(d) ==
  /\ pc[d] = "upload"
  /\ IF hand[d] = <<>> THEN List(d, Pending(d), "create", "pull") ELSE Goto(d, "create")
  /\ UNCHANGED <<server, remote, record, store, command, bounds, history>>

(* Every attempt encrypts the metadata anew, and the server keeps those of *)
(* the first: the two are equal only when this attempt made the row.       *)
(* (Faulty variant: the server takes them, and the upload begins again.)   *)
AnyMetadata(d) == TRUE
SameMetadata(d) == remote[Head(hand[d])] = None

(* (Faulty variant: an attachment the server knows counts as uploaded.)    *)
TakenAsUploaded(d) == Goto(d, "mark")
OtherMetadata(d) == Stop(d)

CreateUpload(d) ==
  /\ pc[d] = "create"
  /\ IF SameMetadata(d)
     THEN /\ remote' = [remote EXCEPT ![Head(hand[d])] = [parts |-> 0, status |-> "uploading"]]
          /\ refused' = refused \ {Head(hand[d])}
          /\ Goto(d, "part")
     ELSE OtherMetadata(d) /\ UNCHANGED <<remote, refused>>
  /\ UNCHANGED <<server, record, store, command, bounds, imported, excuses>>

(* The server has no room for the attachment, or takes none of that length.*)
RefuseUpload(d) ==
  /\ pc[d] = "create" /\ remote[Head(hand[d])] = None
  /\ refused' = refused \union {Head(hand[d])}
  /\ Stop(d)
  /\ UNCHANGED <<server, remote, record, store, command, bounds, imported, excuses>>

(* (Faulty variant: a part too many.)                                      *)
OnePartMore(d) == remote[Head(hand[d])].parts = Parts
LastPart(d) == remote[Head(hand[d])].parts + 1 = Parts

UploadPart(d) ==
  LET x == Head(hand[d]) IN
  /\ pc[d] = "part"
  /\ IF remote[x] = None
     THEN Stop(d) /\ UNCHANGED remote   \* 404
     ELSE /\ remote' = [remote EXCEPT ![x].parts = @ + 1]
          /\ Goto(d, IF LastPart(d) THEN "complete" ELSE "part")
  /\ UNCHANGED <<server, record, store, command, bounds, history>>

CompleteUpload(d) ==
  LET x == Head(hand[d]) IN
  /\ pc[d] = "complete"
  /\ IF remote[x] = None \/ remote[x].parts < Parts
     THEN Stop(d) /\ UNCHANGED remote   \* 404, or parts are missing
     ELSE remote' = [remote EXCEPT ![x].status = "complete"] /\ Goto(d, "mark")
  /\ UNCHANGED <<server, record, store, command, bounds, history>>

MarkSynced(d) ==
  LET x == Head(hand[d]) IN
  /\ pc[d] = "mark"
  /\ row' = [row EXCEPT ![d][x] = IF @ = "none" THEN @ ELSE "synced"]
  /\ uploads' = Drop(uploads, d, x)
  /\ Finish(d, "upload")
  /\ UNCHANGED <<server, remote, record, described, blob, deletions, command, bounds, history>>

(* What was not delivered yet, as far as it leaves something: the record is*)
(* taken in, kept as a conflict, or recognised as the device's own.        *)
News(d) == cursor[d] < server.version /\ version[d] < server.version

Pull(d) ==
  /\ pc[d] \in {"pull", "pull again", "pull last"}
  /\ cursor' = [cursor EXCEPT ![d] = server.version]
  /\ CASE ~News(d) -> UNCHANGED <<item, version, conflict>>
       [] News(d) /\ dirty[d] = "none" ->
            /\ item' = [item EXCEPT ![d] = server.content]
            /\ version' = [version EXCEPT ![d] = server.version]
            /\ conflict' = [conflict EXCEPT ![d] = None]
       [] News(d) /\ dirty[d] # "none" /\ server.device # d ->
            conflict' = [conflict EXCEPT ![d] = server] /\ UNCHANGED <<item, version>>
       [] News(d) /\ dirty[d] # "none" /\ server.device = d ->
            version' = [version EXCEPT ![d] = server.version] /\ UNCHANGED <<item, conflict>>
  /\ Goto(d, CASE pc[d] = "pull" -> "push"
               [] pc[d] = "pull again" -> "push again"
               [] pc[d] = "pull last" -> "delete")
  /\ UNCHANGED <<server, remote, shown, dirty, unanswered, store, command, bounds, history>>

(* A row that the server has taken before is sent with the same key, and   *)
(* answered with the version of then.                                      *)
Sending(d) == pc[d] \in {"push", "push again"} /\ dirty[d] # "none" /\ conflict[d] = None
Accept(d) == server' = [version |-> server.version + 1, content |-> item[d], device |-> d]
Pushed(d, v) ==
  /\ version' = [version EXCEPT ![d] = v]
  /\ dirty' = [dirty EXCEPT ![d] = "none"]
  /\ unanswered' = [unanswered EXCEPT ![d] = 0]
  /\ Goto(d, "pull last")
  /\ UNCHANGED <<item, shown, cursor, conflict>>

NothingToPush(d) ==
  /\ pc[d] \in {"push", "push again"} /\ ~Sending(d)
  /\ Goto(d, "pull last")
  /\ UNCHANGED <<server, remote, record, store, command, bounds, history>>

Push(d) ==
  /\ Sending(d)
  /\ CASE unanswered[d] # 0 -> Pushed(d, unanswered[d]) /\ UNCHANGED server
       [] unanswered[d] = 0 /\ version[d] = server.version ->
            Accept(d) /\ Pushed(d, server.version + 1)
       [] unanswered[d] = 0 /\ version[d] # server.version ->
            /\ IF pc[d] = "push" THEN Goto(d, "pull again") ELSE Stop(d)
            /\ UNCHANGED <<server, record>>
  /\ UNCHANGED <<remote, store, command, bounds, history>>

(* The server takes the row and its answer is lost.                        *)
PushUnanswered(d) ==
  /\ Sending(d) /\ unanswered[d] = 0 /\ version[d] = server.version
  /\ failures < MaxFailures /\ failures' = failures + 1
  /\ Accept(d)
  /\ unanswered' = [unanswered EXCEPT ![d] = server.version + 1]
  /\ Stop(d)
  /\ UNCHANGED <<remote, item, shown, dirty, version, cursor, conflict, store, command, edits,
                 history>>

(* pending_attachment_deletions: none before every change of a record is   *)
(* pushed and every conflict resolved. (Faulty variant: the outbox is not  *)
(* looked at.)                                                             *)
WithoutConflict(d) == conflict[d] = None
Confirmed(d) == dirty[d] = "none" /\ conflict[d] = None

ListDeletions(d) ==
  /\ pc[d] = "delete"
  /\ IF hand[d] = <<>>
     THEN List(d, IF Confirmed(d) THEN deletions[d] ELSE {}, "request deletion", "download")
     ELSE Goto(d, "request deletion")
  /\ UNCHANGED <<server, remote, record, store, command, bounds, history>>

(* A 404 is as good as a deletion. (Faulty variant: it is an error.)       *)
DeletedNow(d) == remote[Head(hand[d])] # None
Gone(d) == TRUE

RequestDeletion(d) ==
  /\ pc[d] = "request deletion"
  /\ remote' = [remote EXCEPT ![Head(hand[d])] = None]
  /\ IF Gone(d) THEN Goto(d, "forget") ELSE Stop(d)
  /\ UNCHANGED <<server, record, store, command, bounds, history>>

(* complete_attachment_deletion: the rows, then the file.                  *)
Forget(d) ==
  LET x == Head(hand[d]) IN
  /\ pc[d] = "forget"
  /\ row' = [row EXCEPT ![d][x] = "none"]
  /\ deletions' = Drop(deletions, d, x)
  /\ Goto(d, "unlink")
  /\ UNCHANGED <<server, remote, record, described, blob, uploads, command, bounds, history>>

Unlink(d) ==
  /\ pc[d] = "unlink"
  /\ blob' = Drop(blob, d, Head(hand[d]))
  /\ Finish(d, "delete")
  /\ UNCHANGED <<server, remote, record, row, described, uploads, deletions, command, bounds,
                 history>>

(* download_attachments lists what the records refer to; an attachment the *)
(* server does not have complete ends sync_now with an error.              *)
Missing(d, x) == row[d][x] = "none"

ListDownloads(d) ==
  /\ pc[d] = "download"
  /\ List(d, IF item[d] = None THEN {} ELSE item[d], "fetch", "idle")
  /\ UNCHANGED <<server, remote, record, store, command, bounds, history>>

Fetched(d) == IF Len(hand[d]) = 1 THEN "idle" ELSE "fetch"

Download(d) ==
  LET x == Head(hand[d]) IN
  /\ pc[d] = "fetch"
  /\ CASE ~Missing(d, x) -> Finish(d, Fetched(d)) /\ UNCHANGED blob
       [] Missing(d, x) /\ (remote[x] = None \/ remote[x].status # "complete") ->
            Stop(d) /\ UNCHANGED blob
       [] Missing(d, x) /\ remote[x] # None /\ remote[x].status = "complete" ->
            blob' = Add(blob, d, x) /\ Goto(d, "import")
  /\ UNCHANGED <<server, remote, record, row, described, uploads, deletions, command, bounds,
                 history>>

ImportDownload(d) ==
  LET x == Head(hand[d]) IN
  /\ pc[d] = "import"
  /\ row' = [row EXCEPT ![d][x] = IF @ = "none" THEN "synced" ELSE @]
  /\ described' = Add(described, d, x)
  /\ Finish(d, Fetched(d))
  /\ UNCHANGED <<server, remote, record, blob, uploads, deletions, command, bounds, history>>
-----------------------------------------------------------------------------
(* The server's cleanup removes an upload that has not moved for the TTL.  *)
(* (A running upload is taken not to pause that long.)                     *)
Expire(x) ==
  /\ remote[x] # None /\ remote[x].status = "uploading"
  /\ \A d \in Devices : pc[d] \in {"part", "complete"} => Head(hand[d]) # x
  /\ remote' = [remote EXCEPT ![x] = None]
  /\ UNCHANGED <<server, record, store, sync, command, bounds, history>>

(* A call of sync_now or its answer is lost, or the application stops and  *)
(* loads the record again when it is back.                                 *)
Fail(d) ==
  /\ pc[d] # "idle" \/ ~Idle(d)
  /\ failures < MaxFailures /\ failures' = failures + 1
  /\ Stop(d)
  /\ \/ UNCHANGED <<shown, command>>
     \/ /\ command' = [command EXCEPT ![d] = AtRest]
        /\ shown' = [shown EXCEPT ![d] = item[d]]
  /\ UNCHANGED <<server, remote, item, dirty, unanswered, version, cursor, conflict, store,
                 edits, history>>

User(d) ==
  \/ \E x \in Attachments : Import(d, x)
  \/ Edit(d) \/ DeleteList(d)
  \/ \E keep \in {"local", "remote"} : Resolve(d, keep)

Command(d) ==
  \/ ImportRow(d) \/ ImportQueue(d) \/ ImportDescribe(d) \/ Attach(d) \/ DeleteRecord(d)

Sync(d) ==
  \/ SyncNow(d) \/ ListUploads(d) \/ CreateUpload(d) \/ RefuseUpload(d) \/ UploadPart(d)
  \/ CompleteUpload(d) \/ MarkSynced(d) \/ Pull(d) \/ NothingToPush(d) \/ Push(d)
  \/ ListDeletions(d) \/ RequestDeletion(d) \/ Forget(d) \/ Unlink(d) \/ ListDownloads(d)
  \/ Download(d) \/ ImportDownload(d)

Next ==
  \/ \E d \in Devices :
       User(d) \/ Command(d) \/ Reload(d) \/ Sync(d) \/ PushUnanswered(d) \/ Fail(d)
  \/ \E x \in Attachments : Expire(x)

Spec == Init /\ [][Next]_vars

(* The interface runs sync_now every 30 seconds, a command that was started*)
(* comes to its end, and the server's cleanup runs every hour. No user has *)
(* to edit or to resolve anything. (Each subscript has what its steps      *)
(* change in any case.)                                                    *)
FairSpec ==
  /\ Spec
  /\ \A d \in Devices : WF_<<sync, remote>>(Sync(d)) /\ WF_command(Command(d))
  /\ \A x \in Attachments : WF_remote(Expire(x))
-----------------------------------------------------------------------------
(* What is queued for upload is there to be uploaded, and what the device  *)
(* believes it holds it holds, wherever an import, a deletion or a download*)
(* was cut off.                                                            *)
QueuedIsHeld ==
  \A d \in Devices, x \in Attachments :
    /\ x \in uploads[d] => row[d][x] = "pending"
    /\ row[d][x] # "none" => x \in blob[d]

(* The record the server has never refers to an attachment that is lost:   *)
(* the server has it complete, or its device still has to upload it, or has*)
(* deleted the record and still has to say so. Only what is set against a  *)
(* deletion breaks this: a user who chooses the remote version leaves the  *)
(* deletions of its attachments queued, and a record that is chosen over a *)
(* tombstone, or revived by a stale copy, does not bring its attachments   *)
(* back.                                                                   *)
ReferenceResolves ==
  excuses = {} /\ server.content # None =>
    \A x \in server.content :
      \/ remote[x] # None /\ remote[x].status = "complete"
      \/ \E d \in Devices : x \in uploads[d]
      \/ \E d \in Devices : x \in deletions[d] /\ dirty[d] = "delete"

Removed(x) ==
  \/ remote[x] # None /\ remote[x].status = "complete" /\ remote'[x] = None
  \/ \E d \in Devices : x \in blob[d] /\ x \notin blob'[d]

(* No copy of an attachment, neither the server's nor a device's, is       *)
(* removed before the server has confirmed that the record is deleted, with*)
(* the same exceptions.                                                    *)
TombstoneFirst ==
  [][\A x \in Attachments :
       Removed(x) => server.content = None \/ x \notin server.content \/ excuses # {}]_vars

(* A record that is deleted on the server comes back only where a user has *)
(* chosen so (docs/IMPLEMENTATION_PLAN.md:173).                            *)
StaysDeleted ==
  [][server.content = None /\ server'.content # None => "choice" \in excuses]_vars

(* What the devices do to the server's attachments, with calls that are cut*)
(* off and repeated and with two devices at it, is what UploadContract     *)
(* allows, the contract that AttachmentStore implements: no upload begins  *)
(* again before it has ended, no part is sent for a complete upload, and   *)
(* completion comes when all parts are there.                              *)
Itself(x) == x
NumbersOf(x) == PartNumbers
OnServer ==
  [x \in Attachments |->
     IF remote[x] = None THEN None
     ELSE [file |-> x, status |-> remote[x].status, parts |-> 0 .. remote[x].parts - 1]]
Contract == INSTANCE UploadContract WITH
  Ids <- Attachments, Files <- Attachments, Name <- Itself, Numbers <- NumbersOf,
  upload <- OnServer
ImplementsUploads == Contract!Spec

(* The upload of x was finished but its device does not know: each attempt *)
(* to go on fails at the metadata, and nothing ever removes the row.       *)
Jammed(d) ==
  \E x \in Pending(d) : remote[x] # None /\ remote[x].status = "complete"

Refused(d) == Pending(d) \intersect refused # {}

(* An old answer has set the version back below what was delivered: every  *)
(* push of a newer change is a conflict, and no pull explains it.          *)
Stalled(d) ==
  /\ dirty[d] # "none" /\ unanswered[d] = 0
  /\ version[d] < server.version /\ cursor[d] = server.version

Waiting == \E d \in Devices : conflict[d] # None \/ Jammed(d) \/ Refused(d) \/ Stalled(d)

Drained(d) == Pending(d) = {} /\ deletions[d] = {}
Provided(d) == item[d] # None => \A x \in item[d] : row[d][x] # "none"

(* Whatever failed on the way, in the end every attachment that is ready   *)
(* to be uploaded is uploaded or deleted, every queued deletion is carried *)
(* out, and every device has all attachments of the record it shows, unless*)
(* a device waits for good: for its user to resolve a conflict, for an     *)
(* upload that is jammed or that the server refuses, or behind an answer   *)
(* that set its version back. Where something was set against a deletion,  *)
(* attachments of the record may be gone.                                  *)
Settles ==
  <>[](Waiting \/ \A d \in Devices : Drained(d) /\ (excuses # {} \/ Provided(d)))
=============================================================================
