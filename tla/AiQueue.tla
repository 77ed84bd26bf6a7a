-------------------------------- MODULE AiQueue --------------------------------
(***************************************************************************)
(* The queue of AI jobs of a desktop repository: one row of ai_jobs beside *)
(* each row of items, the command process_ai_queue that claims jobs, asks  *)
(* the model and writes the metadata into the record, and the full-text    *)
(* index kept in a second, in-memory database. Three threads share the     *)
(* repository and take its mutexes call by call: process_ai_queue, the     *)
(* user's commands (one at a time, under the mutex of the session), and    *)
(* sync_now, of which only what changes records matters here. A model is   *)
(* configured throughout: without one, no run of the queue gets anywhere.  *)
(***************************************************************************)
EXTENDS Integers, FiniteSets

CONSTANTS
  Items,
  MaxEdits,  \* bound of the model: texts written, here or on another device
  MaxErrors, \* bound of the model: requests the model does not answer, and restarts
  None       \* "there is no such thing"

ASSUME QueueAssumption == Items # {} /\ MaxEdits \in Nat /\ MaxErrors \in Nat

VARIABLES
  item,    \* items: text and metadata of each record, or None
  job,     \* ai_jobs: the row of each record, or None
  outbox,  \* the operation of the newest outbox row of each record, or None
  index,   \* record_search: what each record can be found by, or None
  shown,   \* the copy of each record the interface holds, or None
  user,    \* the index entry a command of the user has yet to write, or None, and
           \* whether the interface then calls process_ai_queue
  sync,    \* ... and the one applying a remote change has yet to write
  called,  \* whether a call of process_ai_queue is on its way
  worker,  \* process_ai_queue: what it does next, and its locals
  edits,   \* the number of the last text
  errors,  \* how many errors there were
  raced,   \* history: records changed while process_ai_queue had a copy of them
  outdated, \* history: records saved from a copy older than their metadata
  pasted,  \* history: records a file was put into since they were last typed in
  stranded, \* history: jobs a run has claimed and left behind
  adrift   \* history: records whose index entry two threads wrote at once, or that
           \* were completed when they were gone, or not indexed since the restart

tables == <<item, job, outbox>>
histories == <<raced, outdated, pasted, stranded, adrift>>
others == <<edits, errors, histories>>
vars == <<tables, index, shown, user, sync, called, worker, others>>

(* A text is the number of the edit that wrote it, and content_fingerprint *)
(* tells two texts apart. A metadata is the number of the text it was made *)
(* from, NoMetadata without one; a record is indexed by both.              *)
NoMetadata == 0
Content == [text : Nat \ {0}, metadata : Nat]
Status == {"pending", "processing", "complete", "failed"}
Job == [fingerprint : Nat, status : Status, due : BOOLEAN]
Entry == [id : Items, entry : Content \union {None}]
UserEntry == [id : Items, entry : Content \union {None}, call : BOOLEAN]

ASSUME NoneAssumption == None \notin Content \union Job \union {"upsert", "delete"}

Off == [pc |-> "off", todo |-> {}, jobs |-> {}, at |-> None, content |-> None, list |-> None]

TypeOK ==
  /\ item \in [Items -> Content \union {None}]
  /\ job \in [Items -> Job \union {None}]
  /\ outbox \in [Items -> {"upsert", "delete", None}]
  /\ index \in [Items -> Content \union {None}]
  /\ shown \in [Items -> Content \union {None}]
  /\ user \in UserEntry \union {None} /\ sync \in Entry \union {None} /\ called \in BOOLEAN
  /\ worker.todo \subseteq Items /\ worker.at \in Items \union {None}
  /\ {w.id : w \in worker.jobs} \intersect worker.todo = {}
  /\ edits \in 0 .. MaxEdits /\ errors \in 0 .. MaxErrors
  /\ raced \subseteq Items /\ outdated \subseteq Items /\ pasted \subseteq Items
  /\ stranded \subseteq Items /\ adrift \subseteq Items

Init ==
  /\ item = [i \in Items |-> None] /\ job = [i \in Items |-> None]
  /\ outbox = [i \in Items |-> None] /\ index = [i \in Items |-> None]
  /\ shown = [i \in Items |-> None]
  /\ user = None /\ sync = None /\ worker = Off /\ called = TRUE
  /\ edits = 0 /\ errors = 0
  /\ raced = {} /\ outdated = {} /\ pasted = {} /\ stranded = {} /\ adrift = {}

(* index_item and remove_from_index: what a content is found by.           *)
Indexed(c) == IF c = None \/ c.metadata = NoMetadata THEN None ELSE c
ToIndex(i, c) == [id |-> i, entry |-> Indexed(c)]
UserToIndex(i, c, call) == [id |-> i, entry |-> Indexed(c), call |-> call]

(* A thread has yet to write, or to empty, the entry of a record.          *)
Pending(i) ==
  \/ user # None /\ user.id = i
  \/ sync # None /\ sync.id = i
  \/ worker.pc = "index" /\ worker.at = i
  \/ worker.pc = "clear" \/ (worker.pc = "add" /\ Indexed(worker.list[i]) # None)

(* A change of a record meanwhile may be overwritten in the index; any     *)
(* other writes the entry anew.                                            *)
AdriftBy(i) == IF Pending(i) THEN adrift \union {i} ELSE adrift \ {i}

(* process_ai_queue works with a copy of the record.                       *)
InHand(i) == \E w \in worker.jobs : w.id = i
Racing(i) == IF InHand(i) \/ i \in worker.todo THEN {i} ELSE {}
-----------------------------------------------------------------------------
(* save: the row of the record, of the outbox and of the job in one        *)
(* transaction. A job keeps its status while the text stays the same,      *)
(* unless the content comes with its metadata.                             *)

StatusOf(c) == IF c.metadata = NoMetadata THEN "pending" ELSE "complete"

(* (Faulty variant: the text is not compared.)                             *)
SavedJobOnce(i, c) ==
  IF job[i] # None THEN job[i]
  ELSE [fingerprint |-> c.text, status |-> StatusOf(c), due |-> TRUE]

SavedJob(i, c) ==
  LET fresh == [fingerprint |-> c.text, status |-> StatusOf(c), due |-> TRUE] IN
  IF job[i] = None \/ job[i].fingerprint # c.text THEN fresh
  ELSE IF StatusOf(c) = "complete" THEN [job[i] EXCEPT !.status = "complete"]
  ELSE job[i]

Save(i, c, call) ==
  /\ user = None
  /\ item' = [item EXCEPT ![i] = c]
  /\ job' = [job EXCEPT ![i] = SavedJob(i, c)]
  /\ outbox' = [outbox EXCEPT ![i] = "upsert"]
  /\ shown' = [shown EXCEPT ![i] = c]
  /\ user' = UserToIndex(i, c, call)
  /\ raced' = raced \union Racing(i)
  /\ adrift' = AdriftBy(i)

(* What is typed in the editor is saved without metadata; a capture makes  *)
(* a new record, and calls nothing. (Faulty variant: with the metadata of  *)
(* the old text.)                                                          *)
MetadataKept(i) == IF item[i] = None THEN NoMetadata ELSE item[i].metadata
MetadataEdited(i) == NoMetadata

Edit ==
  /\ edits < MaxEdits
  /\ edits' = edits + 1
  /\ \E i \in Items, call \in BOOLEAN :
       /\ call \/ item[i] = None
       /\ Save(i, [text |-> edits + 1, metadata |-> MetadataEdited(i)], call)
       /\ pasted' = pasted \ {i}
  /\ UNCHANGED <<index, sync, called, worker, errors, outdated, stranded>>

(* A file pasted or imported into the editor changes the text of the copy  *)
(* the interface holds and leaves its metadata, ...                        *)
Insert ==
  /\ edits < MaxEdits
  /\ edits' = edits + 1
  /\ \E i \in Items :
       /\ shown[i] # None
       /\ Save(i, [text |-> edits + 1, metadata |-> shown[i].metadata], TRUE)
       /\ pasted' = pasted \union {i}
  /\ UNCHANGED <<index, sync, called, worker, errors, outdated, stranded>>

(* ... pinning and archiving save that copy as it is.                      *)
Flag ==
  /\ \E i \in Items :
       /\ shown[i] # None
       /\ Save(i, shown[i], TRUE)
       /\ outdated' = IF item[i] = shown[i] THEN outdated ELSE outdated \union {i}
  /\ UNCHANGED <<index, sync, called, worker, edits, errors, pasted, stranded>>

(* delete: the job goes with the record (ON DELETE CASCADE). (Faulty       *)
(* variant: the outbox is left as it is.)                                  *)
OutboxKept(i) == outbox[i]
OutboxDeleted(i) == "delete"

Delete ==
  /\ user = None
  /\ \E i \in Items :
       /\ item[i] # None
       /\ item' = [item EXCEPT ![i] = None]
       /\ job' = [job EXCEPT ![i] = None]
       /\ outbox' = [outbox EXCEPT ![i] = OutboxDeleted(i)]
       /\ shown' = [shown EXCEPT ![i] = None]
       /\ user' = UserToIndex(i, None, FALSE)
       /\ raced' = raced \union Racing(i)
       /\ adrift' = AdriftBy(i)
       /\ pasted' = pasted \ {i}
  /\ UNCHANGED <<index, sync, called, worker, edits, errors, outdated, stranded>>

(* The interface reads the records anew (list_items).                      *)
Reload ==
  /\ user = None /\ shown # item
  /\ shown' = item
  /\ UNCHANGED <<tables, index, user, sync, called, worker, others>>

(* reset_ai_jobs, for a new configuration or a rebuild of all metadata;    *)
(* the settings then call process_ai_queue.                                *)
Reset ==
  /\ user = None /\ errors < MaxErrors
  /\ errors' = errors + 1
  /\ job' = [i \in Items |->
       IF job[i] = None THEN None ELSE [job[i] EXCEPT !.status = "pending", !.due = TRUE]]
  /\ called' = TRUE
  /\ UNCHANGED <<item, outbox, index, shown, user, sync, worker, edits, histories>>

(* Commands and changes end by writing the index, under its own mutex.     *)
Write(entry) == index' = [index EXCEPT ![entry.id] = entry.entry]

UserIndexes ==
  /\ user # None
  /\ Write(user)
  /\ user' = None
  /\ called' = (called \/ user.call)
  /\ UNCHANGED <<tables, shown, sync, worker, others>>
-----------------------------------------------------------------------------
(* sync_now: a change of another device is taken when nothing is pending,  *)
(* with the metadata it may have; a push reads every record with a row in  *)
(* the outbox and does nothing while one of them is missing.               *)

Take(i, c) ==
  /\ sync = None /\ outbox[i] = None
  /\ item' = [item EXCEPT ![i] = c]
  /\ job' = [job EXCEPT ![i] =
       IF c = None THEN None
       ELSE [fingerprint |-> c.text, status |-> StatusOf(c), due |-> TRUE]]
  /\ sync' = ToIndex(i, c)
  /\ raced' = raced \union Racing(i)
  /\ adrift' = AdriftBy(i)

ApplyRemote ==
  /\ edits < MaxEdits
  /\ edits' = edits + 1
  /\ \E i \in Items :
       \E c \in {None} \union [text : {edits + 1}, metadata : {NoMetadata, edits + 1}] :
         Take(i, c)
  /\ UNCHANGED <<outbox, index, shown, user, called, worker, errors>>
  /\ UNCHANGED <<outdated, pasted, stranded>>

SyncIndexes ==
  /\ sync # None
  /\ Write(sync)
  /\ sync' = None
  /\ UNCHANGED <<tables, shown, user, called, worker, others>>

Pushable == \A i \in Items : outbox[i] = "upsert" => item[i] # None

Push ==
  /\ sync = None /\ Pushable
  /\ \E i \in Items : outbox[i] # None
  /\ outbox' = [i \in Items |-> None]
  /\ UNCHANGED <<item, job, index, shown, user, sync, called, worker, others>>
-----------------------------------------------------------------------------
(* process_ai_queue: one run at a time, and only when it is called; a call *)
(* made during a run does nothing. claim_ai_jobs marks the jobs in a       *)
(* transaction and reads their records one by one afterwards; one record   *)
(* that is gone ends the run, and the jobs stay marked.                    *)
Drop ==
  /\ called /\ worker.pc # "off"
  /\ called' = FALSE
  /\ UNCHANGED <<tables, index, shown, user, sync, worker, others>>

Claimable(i) ==
  /\ job[i] # None
  /\ job[i].status = "pending" \/ (job[i].status = "failed" /\ job[i].due)

Claim ==
  /\ called /\ worker.pc = "off"
  /\ called' = FALSE
  /\ LET ids == {i \in Items : Claimable(i)} IN
       /\ job' = [i \in Items |->
            IF i \in ids THEN [job[i] EXCEPT !.status = "processing"] ELSE job[i]]
       /\ worker' = [Off EXCEPT !.pc = "run", !.todo = ids]
       /\ stranded' = stranded \ ids
  /\ UNCHANGED <<item, outbox, index, shown, user, sync, edits, errors>>
  /\ UNCHANGED <<raced, outdated, pasted, adrift>>

(* (Faulty variant: a record read stays on the list.)                      *)
ReadAgain(i) == worker.todo
ToRead(i) == worker.todo \ {i}

Claimed == worker.todo \union {w.id : w \in worker.jobs}

Get ==
  /\ worker.pc = "run"
  /\ \E i \in worker.todo :
       \/ /\ item[i] = None
          /\ worker' = Off
          /\ stranded' = stranded \union Claimed
       \/ /\ item[i] # None
          /\ worker' = [worker EXCEPT !.todo = ToRead(i),
                                      !.jobs = @ \union {[id |-> i, text |-> item[i].text]}]
          /\ UNCHANGED stranded
  /\ UNCHANGED <<tables, index, shown, user, sync, called, edits, errors>>
  /\ UNCHANGED <<raced, outdated, pasted, adrift>>

(* (Faulty variant: the loop over the jobs ends with the first.)           *)
FinishedAll(i) == {}
Finished(i) == {w \in worker.jobs : w.id # i}

(* The model answers, and complete_ai_job reads the record as it is now,   *)
(* or does not, or the record is gone: fail_ai_job.                        *)
Ask ==
  /\ worker.pc = "run" /\ worker.todo = {}
  /\ \E w \in worker.jobs :
       \/ /\ item[w.id] # None
          /\ worker' = [worker EXCEPT !.pc = "write", !.at = w.id,
               !.content = [text |-> item[w.id].text, metadata |-> w.text]]
          /\ UNCHANGED errors
       \/ /\ item[w.id] = None
          /\ worker' = [worker EXCEPT !.pc = "fail", !.at = w.id]
          /\ UNCHANGED errors
       \/ /\ errors < MaxErrors
          /\ errors' = errors + 1
          /\ worker' = [worker EXCEPT !.pc = "fail", !.at = w.id]
  /\ UNCHANGED <<tables, index, shown, user, sync, called, edits, histories>>

FailJob ==
  LET i == worker.at IN
  /\ worker.pc = "fail"
  /\ job' = IF job[i] = None THEN job
            ELSE [job EXCEPT ![i].status = "failed", ![i].due = FALSE]
  /\ worker' = [worker EXCEPT !.pc = "run", !.jobs = Finished(i), !.at = None]
  /\ UNCHANGED <<item, outbox, index, shown, user, sync, called, others>>

(* complete_ai_job, its transaction: the UPDATEs touch a row only if it is *)
(* there, the row of the outbox is written in any case. (Faulty variant:   *)
(* an upsert of the record.)                                               *)
Upserted(i) == worker.content
Updated(i) == IF item[i] = None THEN None ELSE worker.content

CompleteJob ==
  LET i == worker.at IN
  /\ worker.pc = "write"
  /\ item' = [item EXCEPT ![i] = Updated(i)]
  /\ job' = IF job[i] = None THEN job ELSE [job EXCEPT ![i].status = "complete"]
  /\ outbox' = [outbox EXCEPT ![i] = "upsert"]
  /\ worker' = [worker EXCEPT !.pc = "index"]
  /\ adrift' = IF item[i] = None THEN adrift \union {i} ELSE AdriftBy(i)
  /\ UNCHANGED <<index, shown, user, sync, called, edits, errors>>
  /\ UNCHANGED <<raced, outdated, pasted, stranded>>

IndexJob ==
  LET i == worker.at IN
  /\ worker.pc = "index"
  /\ Write(ToIndex(i, worker.content))
  /\ worker' = [worker EXCEPT !.pc = "run", !.jobs = Finished(i), !.at = None,
                              !.content = None]
  /\ UNCHANGED <<tables, shown, user, sync, called, others>>

(* rebuild_search_index: list the records, empty the index, add them.      *)
ListRecords ==
  /\ worker.pc = "run" /\ worker.todo = {} /\ worker.jobs = {}
  /\ worker' = [worker EXCEPT !.pc = "clear", !.list = item]
  /\ UNCHANGED <<tables, index, shown, user, sync, called, others>>

(* (Faulty variant: the index is not emptied.)                             *)
NotEmptied == index
Emptied == [i \in Items |-> None]

Adding(list) ==
  IF \A i \in Items : Indexed(list[i]) = None THEN Off
  ELSE [worker EXCEPT !.pc = "add", !.list = list]

ClearIndex ==
  /\ worker.pc = "clear"
  /\ index' = Emptied
  /\ worker' = Adding(worker.list)
  /\ adrift' = {i \in adrift :
       (user # None /\ user.id = i) \/ (sync # None /\ sync.id = i) \/ worker.list[i] # item[i]}
  /\ UNCHANGED <<tables, shown, user, sync, called, edits, errors>>
  /\ UNCHANGED <<raced, outdated, pasted, stranded>>

AddRecord ==
  /\ worker.pc = "add"
  /\ \E i \in Items :
       /\ Indexed(worker.list[i]) # None
       /\ Write(ToIndex(i, worker.list[i]))
       /\ worker' = Adding([worker.list EXCEPT ![i] = None])
  /\ UNCHANGED <<tables, shown, user, sync, called, others>>

(* What a run of process_ai_queue does once it has claimed its jobs.       *)
Run ==
  \/ Get \/ Ask \/ FailJob \/ CompleteJob \/ IndexJob
  \/ ListRecords \/ ClearIndex \/ AddRecord

(* The time of a failed job comes.                                         *)
Due ==
  /\ \E i \in Items :
       /\ job[i] # None /\ job[i].status = "failed" /\ ~job[i].due
       /\ job' = [job EXCEPT ![i].due = TRUE]
  /\ UNCHANGED <<item, outbox, index, shown, user, sync, called, worker, others>>

(* The application is restarted, or the user logs in again:                *)
(* Repository::open takes claimed jobs back and starts with no index; the  *)
(* interface calls process_ai_queue once.                                  *)
Restart ==
  /\ errors < MaxErrors
  /\ errors' = errors + 1
  /\ job' = [i \in Items |->
       IF job[i] # None /\ job[i].status = "processing"
       THEN [job[i] EXCEPT !.status = "pending"] ELSE job[i]]
  /\ index' = [i \in Items |-> None]
  /\ shown' = item
  /\ user' = None /\ sync' = None /\ worker' = Off /\ called' = TRUE
  /\ stranded' = {} /\ adrift' = Items
  /\ UNCHANGED <<item, outbox, edits, raced, outdated, pasted>>

Next ==
  \/ Edit \/ Insert \/ Flag \/ Delete \/ Reload \/ Reset \/ UserIndexes
  \/ ApplyRemote \/ SyncIndexes \/ Push
  \/ Drop \/ Claim \/ Run \/ Due \/ Restart

Spec == Init /\ [][Next]_vars
-----------------------------------------------------------------------------
(* A record and its job are one: every record has a job, of its own text,  *)
(* and no job is left of a record that is gone.                            *)
JobOfEachRecord ==
  \A i \in Items :
    /\ (item[i] = None) = (job[i] = None)
    /\ item[i] # None /\ i \notin raced => job[i].fingerprint = item[i].text

(* The metadata of a record was made from the text it has. There are two   *)
(* ways to the metadata of another text, which nothing then makes anew: a  *)
(* change while process_ai_queue works with its copy of the record, and a  *)
(* file put into the editor.                                               *)
MetadataFitsText ==
  \A i \in Items \ (raced \union pasted) :
    item[i] # None => item[i].metadata \in {NoMetadata, item[i].text}

(* A job that says complete has left its metadata in the record, or it     *)
(* would never be done again. The one way to lose it is to pin or archive  *)
(* the record from a copy the interface read before the metadata came.     *)
CompleteHasMetadata ==
  \A i \in Items \ (raced \union outdated) :
    job[i] # None /\ job[i].status = "complete" => item[i].metadata # NoMetadata

(* Nothing blocks the push: the outbox asks for a record that exists,      *)
(* unless it was deleted while process_ai_queue was about to complete it.  *)
NothingBlocksPush ==
  \A i \in Items \ raced : outbox[i] = "upsert" => item[i] # None

(* Each record is found by what it holds as soon as no thread has its      *)
(* entry yet to write. Only what two threads write at once, or what is     *)
(* completed when it is gone, may go astray, and the rebuilding at the end *)
(* of a run puts it right; a restarted application finds a record once it  *)
(* is saved or such a run has ended.                                       *)
IndexInStep ==
  \A i \in Items \ adrift : Pending(i) \/ index[i] = Indexed(item[i])

(* A job that says processing is one the run has yet to do or to give up,  *)
(* whatever becomes of the others. Only those of a run that found a record *)
(* gone after it had claimed them stay behind, until the next login.       *)
NoJobLeftBehind ==
  \A i \in Items \ stranded : job[i] # None /\ job[i].status = "processing" => i \in Claimed
=============================================================================
