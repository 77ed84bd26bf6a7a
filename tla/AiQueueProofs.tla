----------------------------- MODULE AiQueueProofs -----------------------------
(***************************************************************************)
(* Theorems of AiQueue, for any number of records, edits and errors: its   *)
(* types, that a record and its job are one, that the metadata of a record *)
(* is of its text, that a job which says complete has left metadata, that  *)
(* nothing blocks the push, and that a run leaves no job behind.           *)
(***************************************************************************)
EXTENDS AiQueue, TLAPS

(* What process_ai_queue holds. While it is at a record, it holds what it  *)
(* has read of it, once.                                                   *)
Steps == {"off", "run", "write", "fail", "index", "clear", "add"}
Copies == [id : Items, text : Nat \ {0}]
List == [Items -> Content \union {None}]
WorkerInv ==
  /\ worker \in [pc : Steps, todo : SUBSET Items, jobs : SUBSET Copies,
                 at : Items \union {None}, content : Content \union {None},
                 list : List \union {None}]
  /\ \A v, w \in worker.jobs : v.id = w.id => v = w
  /\ worker.pc \in {"write", "fail", "index"} =>
       worker.at \in Items /\ InHand(worker.at)
  /\ worker.pc \in {"write", "index"} => worker.content \in Content
  /\ worker.pc \in {"clear", "add"} => worker.list \in List

(* Texts are numbered up to the last edit.                                 *)
TextInv ==
  /\ \A i \in Items :
       /\ item[i] # None => item[i].text <= edits
       /\ shown[i] # None => shown[i].text <= edits
       /\ job[i] # None => job[i].fingerprint <= edits
  /\ worker.pc = "write" => worker.content.text <= edits

(* What process_ai_queue has read of a record is what the record still is, *)
(* unless the record was changed meanwhile.                                *)
CopyInv ==
  \A i \in Items \ raced :
    /\ \A w \in worker.jobs : w.id = i => item[i] # None /\ item[i].text = w.text
    /\ worker.pc = "write" /\ worker.at = i =>
         worker.content.text = item[i].text /\ worker.content.metadata = item[i].text

(* The interface only ever held what the record was.                       *)
ShownInv ==
  \A i \in Items \ (raced \union pasted) :
    shown[i] # None => shown[i].metadata \in {NoMetadata, shown[i].text}

(* A run has jobs only while it does them, and the one it has completed is *)
(* not claimed again before it goes on.                                    *)
IdleInv ==
  /\ worker.pc \in {"off", "clear", "add"} => Claimed = {}
  /\ worker.pc = "index" /\ job[worker.at] # None => job[worker.at].status # "processing"

IInv ==
  /\ TypeOK /\ WorkerInv /\ TextInv /\ CopyInv /\ ShownInv /\ IdleInv /\ NoJobLeftBehind
  /\ JobOfEachRecord /\ MetadataFitsText /\ CompleteHasMetadata /\ NothingBlocksPush
-----------------------------------------------------------------------------
(* What the index is written with, and what save leaves in ai_jobs.        *)
LEMMA Indexes ==
  ASSUME NEW i \in Items, NEW c \in Content \union {None}
  PROVE  ToIndex(i, c) \in Entry /\ \A call \in BOOLEAN : UserToIndex(i, c, call) \in UserEntry
BY DEF ToIndex, UserToIndex, Indexed, Entry, UserEntry

LEMMA SavedFacts ==
  ASSUME TypeOK, NEW i \in Items, NEW c \in Content
  PROVE  /\ SavedJob(i, c) \in Job /\ SavedJob(i, c) # None
         /\ SavedJob(i, c).fingerprint = c.text
         /\ SavedJob(i, c).status = "complete" =>
              \/ c.metadata # NoMetadata
              \/ job[i] # None /\ job[i].fingerprint = c.text /\ job[i].status = "complete"
         /\ SavedJob(i, c).status = "processing" => job[i] # None /\ job[i].status = "processing"
<1>1. job[i] \in Job \union {None} /\ c.text \in Nat /\ StatusOf(c) \in Status
  BY DEF TypeOK, Content, StatusOf, Status
<1>2. (StatusOf(c) = "complete" => c.metadata # NoMetadata) /\ StatusOf(c) # "processing"
  BY DEF StatusOf
<1>3. CASE job[i] = None \/ job[i].fingerprint # c.text
  <2>1. SavedJob(i, c) = [fingerprint |-> c.text, status |-> StatusOf(c), due |-> TRUE]
    BY <1>3 DEF SavedJob
  <2>2. SavedJob(i, c) \in Job
    BY <1>1, <2>1 DEF Job
  <2>3. SavedJob(i, c).fingerprint = c.text /\ SavedJob(i, c).status = StatusOf(c)
    BY <2>1
  <2> QED
    BY <1>2, <2>2, <2>3, NoneAssumption
<1>4. CASE /\ ~(job[i] = None \/ job[i].fingerprint # c.text)
           /\ StatusOf(c) = "complete"
  <2>1. SavedJob(i, c) = [job[i] EXCEPT !.status = "complete"]
    BY <1>4 DEF SavedJob
  <2> QED
    BY <1>1, <1>2, <1>4, <2>1, NoneAssumption DEF Job, Status
<1>5. CASE /\ ~(job[i] = None \/ job[i].fingerprint # c.text)
           /\ StatusOf(c) # "complete"
  <2>1. SavedJob(i, c) = job[i]
    BY <1>5 DEF SavedJob
  <2> QED
    BY <1>1, <1>5, <2>1
<1> QED
  BY <1>3, <1>4, <1>5

TakenJob(c) ==
  IF c = None THEN None
  ELSE [fingerprint |-> c.text, status |-> StatusOf(c), due |-> TRUE]
LEMMA TakenFacts ==
  ASSUME NEW c \in Content \union {None}
  PROVE  /\ TakenJob(c) \in Job \union {None} /\ (c = None) = (TakenJob(c) = None)
         /\ c # None => TakenJob(c).fingerprint = c.text /\ TakenJob(c).status = StatusOf(c)
<1>1. CASE c = None
  BY <1>1 DEF TakenJob
<1>2. CASE c # None
  <2>1. TakenJob(c) = [fingerprint |-> c.text, status |-> StatusOf(c), due |-> TRUE]
    BY <1>2 DEF TakenJob
  <2>2. c.text \in Nat /\ StatusOf(c) \in Status
    BY <1>2 DEF Content, StatusOf, Status
  <2>3. TakenJob(c) \in Job
    BY <2>1, <2>2 DEF Job
  <2>4. TakenJob(c).fingerprint = c.text /\ TakenJob(c).status = StatusOf(c)
    BY <2>1
  <2> QED
    BY <1>2, <2>3, <2>4, NoneAssumption
<1> QED
  BY <1>1, <1>2

(* A record that changes while process_ai_queue has it counts as raced, so *)
(* what is known of the copies of the others stays.                        *)
LEMMA Raced ==
  ASSUME WorkerInv, NEW i \in Items
  PROVE  /\ Racing(i) \subseteq Items
         /\ \A w \in worker.jobs : w.id = i => i \in Racing(i)
         /\ worker.pc \in {"write", "fail", "index"} /\ worker.at = i => i \in Racing(i)
BY DEF Racing, WorkerInv, InHand

(* A change of the row of one record, by the user or by sync, while the    *)
(* worker does nothing: its job goes with it, the rest is as it was.       *)
Changed(i, c) ==
  /\ item' = [item EXCEPT ![i] = c]
  /\ \E j \in Job \union {None} :
       /\ job' = [job EXCEPT ![i] = j]
       /\ (c = None) = (j = None)
       /\ c # None => j.fingerprint = c.text
       /\ c # None /\ j.status = "complete" /\ i \notin raced' \union outdated' =>
            c.metadata # NoMetadata
       /\ j # None /\ j.status = "processing" => job[i] # None /\ job[i].status = "processing"
  /\ \E op \in {"upsert", "delete", None} :
       /\ outbox' = [outbox EXCEPT ![i] = op]
       /\ op = "upsert" => c # None
  /\ raced' = raced \union Racing(i)
  /\ outdated \subseteq outdated' /\ outdated' \subseteq Items
  /\ pasted' \subseteq Items /\ pasted \ {i} \subseteq pasted'
  /\ \/ shown' = [shown EXCEPT ![i] = c]
     \/ shown' = shown /\ pasted' = pasted
  /\ adrift' = AdriftBy(i)
  /\ UNCHANGED <<called, worker, stranded>>

LEMMA ChangedKeeps ==
  ASSUME IInv, NEW i \in Items, NEW c \in Content \union {None}, Changed(i, c),
         edits' \in {edits, edits + 1}, edits' <= MaxEdits,
         c # None => c.text <= edits',
         c # None /\ i \notin raced \union pasted' => c.metadata \in {NoMetadata, c.text},
         UNCHANGED <<index, errors>>,
         user' \in UserEntry \union {None}, sync' \in Entry \union {None}
  PROVE  IInv'
<1>1. TypeOK /\ WorkerInv
  BY DEF IInv
<1>2. /\ item' = [item EXCEPT ![i] = c] /\ UNCHANGED <<called, worker, stranded>>
      /\ raced' = raced \union Racing(i) /\ outdated \subseteq outdated' /\ outdated' \subseteq Items
      /\ shown' = shown \/ shown' = [shown EXCEPT ![i] = c]
      /\ pasted' \subseteq Items /\ pasted \ {i} \subseteq pasted'
      /\ shown' = [shown EXCEPT ![i] = c] \/ i \in pasted' \/ i \notin pasted
      /\ adrift' \subseteq Items
  BY <1>1 DEF Changed, AdriftBy, TypeOK
<1>3. PICK j \in Job \union {None} :
        /\ job' = [job EXCEPT ![i] = j]
        /\ (c = None) = (j = None)
        /\ c # None => j.fingerprint = c.text
        /\ c # None /\ j.status = "complete" /\ i \notin raced' \union outdated' =>
             c.metadata # NoMetadata
        /\ j # None /\ j.status = "processing" => job[i] # None /\ job[i].status = "processing"
  BY DEF Changed
<1>4. PICK op \in {"upsert", "delete", None} :
        outbox' = [outbox EXCEPT ![i] = op] /\ (op = "upsert" => c # None)
  BY DEF Changed
<1>5. /\ item'[i] = c /\ job'[i] = j /\ outbox'[i] = op
      /\ \A k \in Items : k # i =>
           item'[k] = item[k] /\ job'[k] = job[k] /\ outbox'[k] = outbox[k]
      /\ shown'[i] \in {shown[i], c} /\ \A k \in Items : k # i => shown'[k] = shown[k]
      /\ shown'[i] = c \/ i \in pasted' \/ i \notin pasted
      /\ \A k \in Items : k # i /\ k \in pasted => k \in pasted'
  BY <1>1, <1>2, <1>3, <1>4 DEF TypeOK
<1>6. /\ raced \subseteq raced' /\ raced' \subseteq Items
      /\ \A w \in worker.jobs : w.id = i => i \in raced'
      /\ worker.pc = "write" /\ worker.at = i => i \in raced'
  BY <1>1, <1>2, Raced DEF TypeOK
<1>7. edits' \in 0 .. MaxEdits /\ edits \in Nat /\ edits <= edits'
  BY <1>1, QueueAssumption DEF TypeOK
<1>8. TypeOK'
  <2>1. /\ item' \in [Items -> Content \union {None}]
        /\ job' \in [Items -> Job \union {None}]
        /\ outbox' \in [Items -> {"upsert", "delete", None}]
        /\ shown' \in [Items -> Content \union {None}]
    BY <1>1, <1>2, <1>3, <1>4 DEF TypeOK
  <2> QED
    BY <1>1, <1>2, <1>6, <1>7, <2>1 DEF TypeOK
<1>9. WorkerInv'
  BY <1>1, <1>2 DEF WorkerInv, InHand
<1>10. TextInv'
  <2>1. ASSUME NEW k \in Items
        PROVE  /\ item[k] # None => item[k].text \in Nat /\ item[k].text <= edits
               /\ shown[k] # None => shown[k].text \in Nat /\ shown[k].text <= edits
               /\ job[k] # None => job[k].fingerprint \in Nat /\ job[k].fingerprint <= edits
    BY <1>1 DEF IInv, TextInv, TypeOK, Content, Job
  <2>2. c # None => c.text \in Nat
    BY DEF Content
  <2>3. ASSUME NEW k \in Items
        PROVE  /\ item'[k] # None => item'[k].text <= edits'
               /\ shown'[k] # None => shown'[k].text <= edits'
               /\ job'[k] # None => job'[k].fingerprint <= edits'
    BY <1>3, <1>5, <1>7, <2>1, <2>2
  <2>4. worker.pc = "write" => worker.content.text \in Nat /\ worker.content.text <= edits
    BY <1>1 DEF IInv, TextInv, WorkerInv, Content
  <2> QED
    BY <1>2, <1>7, <2>3, <2>4 DEF TextInv
<1>11. CopyInv'
  BY <1>1, <1>2, <1>5, <1>6 DEF IInv, CopyInv
<1>12. ShownInv'
  BY <1>2, <1>5, <1>6 DEF IInv, ShownInv
<1>13. JobOfEachRecord'
  BY <1>3, <1>5, <1>6 DEF IInv, JobOfEachRecord
<1>14. MetadataFitsText'
  BY <1>5, <1>6 DEF IInv, MetadataFitsText
<1>15. CompleteHasMetadata'
  BY <1>2, <1>3, <1>5, <1>6 DEF IInv, CompleteHasMetadata
<1>16. NothingBlocksPush'
  BY <1>4, <1>5, <1>6 DEF IInv, NothingBlocksPush
<1>17. IdleInv' /\ NoJobLeftBehind'
  <2>1. \A k \in Items : job'[k] # None /\ job'[k].status = "processing" =>
          job[k] # None /\ job[k].status = "processing"
    BY <1>3, <1>5
  <2>2. IdleInv'
    BY <1>1, <1>2, <2>1 DEF IInv, IdleInv, Claimed, WorkerInv
  <2>3. NoJobLeftBehind'
    BY <1>2, <2>1 DEF IInv, NoJobLeftBehind, Claimed
  <2> QED
    BY <2>2, <2>3
<1> QED
  BY <1>8, <1>9, <1>10, <1>11, <1>12, <1>13, <1>14, <1>15, <1>16, <1>17 DEF IInv
-----------------------------------------------------------------------------
(* The user and sync change a record each in their way.                    *)
LEMMA SaveIsChange ==
  ASSUME IInv, NEW i \in Items, NEW c \in Content, NEW call \in BOOLEAN, Save(i, c, call),
         UNCHANGED <<called, worker, stranded>>,
         pasted' \subseteq Items, pasted \ {i} \subseteq pasted',
         outdated \subseteq outdated', outdated' \subseteq Items,
         /\ job[i] # None /\ job[i].fingerprint = c.text /\ i \notin outdated'
           => item[i] = c
  PROVE  Changed(i, c) /\ user' \in UserEntry
<1>1. TypeOK /\ c # None
  BY NoneAssumption DEF IInv
<1>2. /\ item' = [item EXCEPT ![i] = c] /\ job' = [job EXCEPT ![i] = SavedJob(i, c)]
      /\ outbox' = [outbox EXCEPT ![i] = "upsert"]
      /\ raced' = raced \union Racing(i) /\ user' = UserToIndex(i, c, call)
      /\ shown' = [shown EXCEPT ![i] = c] /\ adrift' = AdriftBy(i)
  BY DEF Save
<1>3. user' \in UserEntry
  BY <1>2, Indexes
<1>4. /\ SavedJob(i, c) \in Job /\ SavedJob(i, c) # None
      /\ SavedJob(i, c).fingerprint = c.text
      /\ SavedJob(i, c).status = "processing" => job[i] # None /\ job[i].status = "processing"
  BY <1>1, SavedFacts
<1>5. ASSUME SavedJob(i, c).status = "complete", i \notin raced' \union outdated'
      PROVE  c.metadata # NoMetadata
  <2>1. CASE job[i] # None /\ job[i].fingerprint = c.text /\ job[i].status = "complete"
    <3>1. item[i] = c /\ i \notin raced \union outdated
      BY <1>2, <1>5, <2>1
    <3> QED
      BY <2>1, <3>1 DEF IInv, CompleteHasMetadata
  <2> QED
    BY <1>1, <1>5, <2>1, SavedFacts
<1>6. \E j \in Job \union {None} :
       /\ job' = [job EXCEPT ![i] = j]
       /\ (c = None) = (j = None)
       /\ c # None => j.fingerprint = c.text
       /\ c # None /\ j.status = "complete" /\ i \notin raced' \union outdated' =>
            c.metadata # NoMetadata
       /\ j # None /\ j.status = "processing" => job[i] # None /\ job[i].status = "processing"
  <2> PICK j : j = SavedJob(i, c)
    OBVIOUS
  <2>1. /\ j \in Job \union {None} /\ job' = [job EXCEPT ![i] = j]
        /\ (c = None) = (j = None) /\ j.fingerprint = c.text
        /\ j.status = "processing" => job[i] # None /\ job[i].status = "processing"
    BY <1>1, <1>2, <1>4
  <2> QED
    BY <1>5, <2>1
<1>7. \E op \in {"upsert", "delete", None} :
       /\ outbox' = [outbox EXCEPT ![i] = op]
       /\ op = "upsert" => c # None
  BY <1>1, <1>2
<1> QED
  BY <1>2, <1>3, <1>6, <1>7 DEF Changed

(* A new text, typed or with a file put into it, is no job's yet.          *)
LEMMA NewTextKeeps ==
  ASSUME IInv, edits < MaxEdits, edits' = edits + 1, NEW i \in Items, NEW m \in Nat,
         NEW call \in BOOLEAN, Save(i, [text |-> edits + 1, metadata |-> m], call),
         UNCHANGED <<index, sync, called, worker, errors, outdated, stranded>>,
         pasted' \subseteq Items, pasted \ {i} \subseteq pasted',
         i \in pasted' \/ m = NoMetadata
  PROVE  IInv'
<1> PICK c : c = [text |-> edits + 1, metadata |-> m]
  OBVIOUS
<1>3. /\ edits \in Nat /\ edits' \in Nat /\ edits' <= MaxEdits
      /\ sync \in Entry \union {None} /\ outdated \subseteq Items
  BY QueueAssumption DEF IInv, TypeOK
<1>4. c \in Content /\ c.text = edits' /\ c.metadata = m
  BY <1>3 DEF Content
<1>5. job[i] # None => job[i].fingerprint # c.text
  <2>1. job[i] # None => job[i].fingerprint <= edits /\ job[i].fingerprint \in Nat
    BY <1>3 DEF IInv, TextInv, TypeOK, Job
  <2> QED
    BY <1>3, <1>4, <2>1
<1>6. Changed(i, c) /\ user' \in UserEntry
  BY <1>3, <1>4, <1>5, SaveIsChange
<1> QED
  BY <1>3, <1>4, <1>6, ChangedKeeps

LEMMA EditKeeps ==
  ASSUME IInv, Edit
  PROVE  IInv'
<1>1. PICK i \in Items, call \in BOOLEAN :
        /\ Save(i, [text |-> edits + 1, metadata |-> NoMetadata], call)
        /\ pasted' = pasted \ {i}
  BY DEF Edit, MetadataEdited
<1>2. pasted \subseteq Items /\ NoMetadata \in Nat
  BY DEF IInv, TypeOK, NoMetadata
<1> QED
  BY <1>1, <1>2, NewTextKeeps DEF Edit

LEMMA InsertKeeps ==
  ASSUME IInv, Insert
  PROVE  IInv'
<1>1. PICK i \in Items :
        /\ shown[i] # None
        /\ Save(i, [text |-> edits + 1, metadata |-> shown[i].metadata], TRUE)
        /\ pasted' = pasted \union {i}
  BY DEF Insert
<1>2. pasted \subseteq Items /\ shown[i].metadata \in Nat
  BY <1>1 DEF IInv, TypeOK, Content
<1> QED
  BY <1>1, <1>2, NewTextKeeps DEF Insert

LEMMA FlagKeeps ==
  ASSUME IInv, Flag
  PROVE  IInv'
<1>1. PICK i \in Items :
        /\ shown[i] # None /\ Save(i, shown[i], TRUE)
        /\ outdated' = IF item[i] = shown[i] THEN outdated ELSE outdated \union {i}
  BY DEF Flag
<1> PICK c : c = shown[i]
  OBVIOUS
<1>2. UNCHANGED <<index, sync, called, worker, edits, errors, pasted, stranded>>
  BY DEF Flag
<1>3. /\ c \in Content /\ c.text <= edits /\ edits \in 0 .. MaxEdits
      /\ i \notin raced \union pasted => c.metadata \in {NoMetadata, c.text}
      /\ sync \in Entry \union {None} /\ outdated \subseteq Items /\ pasted \subseteq Items
  BY <1>1 DEF IInv, TypeOK, TextInv, ShownInv
<1>4. Changed(i, c) /\ user' \in UserEntry
  BY <1>1, <1>2, <1>3, SaveIsChange
<1> QED
  BY <1>2, <1>3, <1>4, QueueAssumption, ChangedKeeps

LEMMA DeleteKeeps ==
  ASSUME IInv, Delete
  PROVE  IInv'
<1>1. PICK i \in Items :
       /\ item' = [item EXCEPT ![i] = None]
       /\ job' = [job EXCEPT ![i] = None]
       /\ outbox' = [outbox EXCEPT ![i] = "delete"]
       /\ shown' = [shown EXCEPT ![i] = None]
       /\ user' = UserToIndex(i, None, FALSE)
       /\ raced' = raced \union Racing(i)
       /\ adrift' = AdriftBy(i)
       /\ pasted' = pasted \ {i}
  BY DEF Delete, OutboxDeleted
<1>2. UNCHANGED <<index, sync, called, worker, edits, errors, outdated, stranded>>
  BY DEF Delete
<1>3. /\ edits \in 0 .. MaxEdits /\ sync \in Entry \union {None}
      /\ outdated \subseteq Items /\ pasted \subseteq Items
  BY DEF IInv, TypeOK
<1>4. Changed(i, None)
  BY <1>1, <1>2, <1>3 DEF Changed
<1>5. user' \in UserEntry
  BY <1>1, Indexes
<1>6. edits' = edits /\ edits <= MaxEdits
  BY <1>2, <1>3, QueueAssumption
<1> QED
  BY <1>2, <1>3, <1>4, <1>5, <1>6, ChangedKeeps

LEMMA ApplyRemoteKeeps ==
  ASSUME IInv, ApplyRemote
  PROVE  IInv'
<1>1. PICK i \in Items,
           c \in {None} \union [text : {edits + 1}, metadata : {NoMetadata, edits + 1}] :
        Take(i, c)
  BY DEF ApplyRemote
<1>2. /\ edits < MaxEdits /\ edits' = edits + 1
      /\ UNCHANGED <<outbox, index, shown, user, called, worker, errors, outdated, pasted, stranded>>
  BY DEF ApplyRemote
<1>3. /\ edits \in Nat /\ edits' \in Nat /\ edits' <= MaxEdits
      /\ user \in UserEntry \union {None} /\ outdated \subseteq Items /\ pasted \subseteq Items
      /\ outbox \in [Items -> {"upsert", "delete", None}]
  BY <1>2, QueueAssumption DEF IInv, TypeOK
<1>4. /\ c \in Content \union {None}
      /\ c # None => c.text = edits' /\ c.metadata \in {NoMetadata, c.text}
  BY <1>2, <1>3 DEF Content, NoMetadata
<1> PICK j : j = TakenJob(c)
  OBVIOUS
<1>5. /\ outbox[i] = None /\ item' = [item EXCEPT ![i] = c]
      /\ job' = [job EXCEPT ![i] = j]
      /\ sync' = ToIndex(i, c) /\ raced' = raced \union Racing(i) /\ adrift' = AdriftBy(i)
  BY <1>1 DEF Take, TakenJob
<1>6. /\ j \in Job \union {None} /\ (c = None) = (j = None)
      /\ c # None => j.fingerprint = c.text /\ j.status = StatusOf(c)
  BY <1>4, TakenFacts
<1>7. Changed(i, c)
  <2>1. outbox' = [outbox EXCEPT ![i] = None]
    BY <1>2, <1>3, <1>5
  <2>2. \E op \in {"upsert", "delete", None} :
          /\ outbox' = [outbox EXCEPT ![i] = op]
          /\ op = "upsert" => c # None
    BY <2>1, NoneAssumption
  <2>3. /\ c # None /\ j.status = "complete" => c.metadata # NoMetadata
        /\ c # None => j.status # "processing"
    BY <1>6 DEF StatusOf
  <2> QED
    BY <1>2, <1>3, <1>5, <1>6, <2>2, <2>3 DEF Changed
<1>8. sync' \in Entry
  BY <1>3, <1>4, <1>5, Indexes
<1> QED
  BY <1>2, <1>3, <1>4, <1>7, <1>8, ChangedKeeps
-----------------------------------------------------------------------------
(* The other steps but two leave the records, the outbox and the texts of  *)
(* the jobs as they are, and no job complete that was not.                 *)
Restatus ==
  /\ UNCHANGED <<item, outbox, edits, raced, outdated, pasted>>
  /\ shown' = shown \/ shown' = item
  /\ job' \in [Items -> Job \union {None}]
  /\ \A i \in Items :
       /\ (job'[i] = None) = (job[i] = None)
       /\ job[i] # None =>
            /\ job'[i].fingerprint = job[i].fingerprint
            /\ job'[i].status = "complete" => job[i].status = "complete"

(* What the invariant says of the rest.                                    *)
Apart ==
  /\ index \in [Items -> Content \union {None}]
  /\ user \in UserEntry \union {None} /\ sync \in Entry \union {None} /\ called \in BOOLEAN
  /\ errors \in 0 .. MaxErrors
  /\ stranded \subseteq Items /\ adrift \subseteq Items
HandsApart == {w.id : w \in worker.jobs} \intersect worker.todo = {}
Held == IdleInv /\ NoJobLeftBehind
WorkerOK ==
  /\ WorkerInv /\ HandsApart /\ CopyInv
  /\ worker.pc = "write" => worker.content.text <= edits

LEMMA RestatusKeeps ==
  ASSUME IInv, Restatus, Apart', WorkerOK', Held'
  PROVE  IInv'
<1>1. TypeOK'
  <2>1. worker'.todo \subseteq Items /\ worker'.at \in Items \union {None}
    BY DEF WorkerOK, WorkerInv
  <2>2. shown' \in [Items -> Content \union {None}] /\ TypeOK
    BY DEF IInv, TypeOK, Restatus
  <2> QED
    BY <2>1, <2>2 DEF TypeOK, Restatus, Apart, WorkerOK, HandsApart
<1>2. WorkerInv' /\ CopyInv'
  BY DEF WorkerOK
<1>3. TextInv'
  BY DEF IInv, TextInv, Restatus, WorkerOK
<1>4. ShownInv'
  BY DEF IInv, ShownInv, MetadataFitsText, Restatus
<1>5. JobOfEachRecord'
  BY DEF IInv, JobOfEachRecord, Restatus
<1>6. MetadataFitsText'
  BY DEF IInv, MetadataFitsText, Restatus
<1>7. CompleteHasMetadata'
  BY DEF IInv, CompleteHasMetadata, Restatus
<1>8. NothingBlocksPush'
  BY DEF IInv, NothingBlocksPush, Restatus
<1> QED
  BY <1>1, <1>2, <1>3, <1>4, <1>5, <1>6, <1>7, <1>8 DEF IInv, Held

LEMMA AsItWas ==
  ASSUME IInv
  PROVE  /\ Apart /\ WorkerOK
         /\ UNCHANGED <<tables, shown, edits, raced, outdated, pasted>> => Restatus
BY DEF IInv, TypeOK, Apart, WorkerOK, HandsApart, TextInv, Restatus, tables

(* What a run has claimed it still has, when no more jobs are processing.  *)
LEMMA HeldStays ==
  ASSUME IInv, stranded \subseteq stranded',
         worker'.pc = "index" => worker.pc = "index" /\ worker'.at = worker.at,
         worker'.pc \in {"off", "clear", "add"} => Claimed' = {},
         \A i \in Items : job'[i] # None /\ job'[i].status = "processing" =>
           /\ job[i] # None /\ job[i].status = "processing"
           /\ i \in Claimed => i \in Claimed' \union stranded'
  PROVE  Held'
<1>1. IdleInv'
  <2>1. worker'.pc = "index" => worker'.at \in Items
    BY DEF IInv, WorkerInv
  <2> QED
    BY <2>1 DEF IInv, IdleInv
<1>2. NoJobLeftBehind'
  BY DEF IInv, NoJobLeftBehind
<1> QED
  BY <1>1, <1>2 DEF Held

LEMMA WorkerStays ==
  ASSUME IInv, UNCHANGED <<item, edits, raced, worker>>
  PROVE  WorkerOK'
BY DEF IInv, TypeOK, TextInv, WorkerOK, WorkerInv, InHand, HandsApart, CopyInv

LEMMA WorkerOff ==
  ASSUME worker' = Off
  PROVE  WorkerOK'
BY DEF WorkerOK, WorkerInv, InHand, HandsApart, CopyInv, Off, Steps

LEMMA HeldAsWas ==
  ASSUME IInv, UNCHANGED <<worker, stranded>>,
         \A i \in Items : job'[i] # None /\ job'[i].status = "processing" =>
           job[i] # None /\ job[i].status = "processing"
  PROVE  Held'
<1>1. Claimed' = Claimed
  BY DEF Claimed
<1>2. worker'.pc \in {"off", "clear", "add"} => Claimed' = {}
  BY <1>1 DEF IInv, IdleInv
<1> QED
  BY <1>1, <1>2, HeldStays
-----------------------------------------------------------------------------
(* The user and sync, where they change no record.                         *)
LEMMA StutterKeeps ==
  ASSUME IInv, UNCHANGED vars
  PROVE  IInv'
<1>1. Restatus /\ Apart'
  BY AsItWas DEF vars, tables, others, histories, Apart
<1>2. WorkerOK' /\ Held'
  BY WorkerStays, HeldAsWas DEF vars, tables, others, histories
<1> QED
  BY <1>1, <1>2, RestatusKeeps

LEMMA ReloadKeeps ==
  ASSUME IInv, Reload
  PROVE  IInv'
<1>1. Apart' /\ Restatus
  BY AsItWas DEF Reload, tables, others, histories, Apart, Restatus, IInv, TypeOK
<1>2. WorkerOK' /\ Held'
  BY WorkerStays, HeldAsWas DEF Reload, tables, others, histories
<1> QED
  BY <1>1, <1>2, RestatusKeeps

LEMMA WriteFacts ==
  ASSUME index \in [Items -> Content \union {None}], NEW e \in Entry \union UserEntry, Write(e)
  PROVE  index' \in [Items -> Content \union {None}]
BY DEF Write, Entry, UserEntry

LEMMA IndexesKeep ==
  ASSUME IInv, UserIndexes \/ SyncIndexes
  PROVE  IInv'
<1>1. UNCHANGED <<tables, shown, worker, others>>
  BY DEF UserIndexes, SyncIndexes
<1>2. Apart
  BY AsItWas
<1>3. index' \in [Items -> Content \union {None}]
  <2>1. CASE UserIndexes
    BY <1>2, <2>1, WriteFacts DEF UserIndexes, Apart
  <2>2. CASE SyncIndexes
    BY <1>2, <2>2, WriteFacts DEF SyncIndexes, Apart
  <2> QED
    BY <2>1, <2>2
<1>4. user' \in {user, None} /\ sync' \in {sync, None} /\ called' \in BOOLEAN
  BY <1>2 DEF UserIndexes, SyncIndexes, Apart, UserEntry
<1>5. Apart' /\ Restatus
  BY <1>1, <1>2, <1>3, <1>4, AsItWas DEF others, histories, Apart
<1>6. WorkerOK' /\ Held'
  BY <1>1, WorkerStays, HeldAsWas DEF tables, others, histories
<1> QED
  BY <1>5, <1>6, RestatusKeeps

LEMMA ResetKeeps ==
  ASSUME IInv, Reset
  PROVE  IInv'
<1>1. Apart /\ TypeOK
  BY AsItWas DEF IInv
<1>2. /\ UNCHANGED <<item, outbox, index, shown, user, sync, worker, edits, histories>>
      /\ errors < MaxErrors /\ errors' = errors + 1 /\ called' = TRUE
      /\ job' = [i \in Items |->
           IF job[i] = None THEN None ELSE [job[i] EXCEPT !.status = "pending", !.due = TRUE]]
  BY DEF Reset
<1>3. ASSUME NEW i \in Items
      PROVE  /\ job'[i] \in Job \union {None}
             /\ (job'[i] = None) = (job[i] = None)
             /\ job[i] # None =>
                  job'[i].fingerprint = job[i].fingerprint /\ job'[i].status = "pending"
  <2>1. CASE job[i] = None
    BY <1>2, <2>1
  <2>2. CASE job[i] # None
    <3>1. job'[i] = [job[i] EXCEPT !.status = "pending", !.due = TRUE]
      BY <1>2, <2>2
    <3>2. job[i] \in Job
      BY <1>1, <2>2 DEF TypeOK
    <3>3. job'[i] \in Job /\ job'[i].fingerprint = job[i].fingerprint
          /\ job'[i].status = "pending"
      BY <3>1, <3>2 DEF Job, Status
    <3> QED
      BY <2>2, <3>3, NoneAssumption
  <2> QED
    BY <2>1, <2>2
<1>4. job' \in [Items -> Job \union {None}]
  BY <1>2, <1>3
<1>5. Restatus
  BY <1>2, <1>3, <1>4 DEF Restatus, histories
<1>6. Apart'
  <2>1. errors' \in 0 .. MaxErrors
    <3>1. errors < MaxErrors /\ errors' = errors + 1
      BY DEF Reset
    <3> QED
      BY <1>1, <3>1, QueueAssumption DEF TypeOK
  <2> QED
    BY <1>1, <1>2, <2>1 DEF Apart, histories
<1>7. WorkerOK' /\ Held'
  BY <1>2, <1>3, WorkerStays, HeldAsWas DEF histories
<1> QED
  BY <1>5, <1>6, <1>7, RestatusKeeps

LEMMA DueKeeps ==
  ASSUME IInv, Due
  PROVE  IInv'
<1>1. PICK i \in Items :
        /\ job[i] # None /\ job[i].status = "failed"
        /\ job' = [job EXCEPT ![i].due = TRUE]
  BY DEF Due
<1>2. UNCHANGED <<item, outbox, index, shown, user, sync, called, worker, others>>
  BY DEF Due
<1>3. job \in [Items -> Job \union {None}]
  BY DEF IInv, TypeOK
<1>4. /\ job'[i] = [job[i] EXCEPT !.due = TRUE]
      /\ \A k \in Items : k # i => job'[k] = job[k]
      /\ job[i] \in Job
  BY <1>1, <1>3
<1>5. /\ job'[i] \in Job /\ job'[i] # None /\ job'[i].fingerprint = job[i].fingerprint
      /\ job'[i].status = "failed"
  <2>1. job[i].status = "failed"
    BY <1>1
  <2> QED
    BY <1>4, <2>1, NoneAssumption DEF Job
<1>6. job' \in [Items -> Job \union {None}]
  BY <1>1, <1>3, <1>4, <1>5
<1>7. Restatus
  BY <1>1, <1>2, <1>4, <1>5, <1>6 DEF Restatus, others, histories
<1>8. Apart' /\ WorkerOK'
  BY <1>2, AsItWas, WorkerStays DEF others, histories, Apart
<1>9. Held'
  BY <1>2, <1>4, <1>5, HeldAsWas DEF others, histories
<1> QED
  BY <1>7, <1>8, <1>9, RestatusKeeps

LEMMA RestartKeeps ==
  ASSUME IInv, Restart
  PROVE  IInv'
<1>1. Apart /\ TypeOK
  BY AsItWas DEF IInv
<1>2. /\ UNCHANGED <<item, outbox, edits, raced, outdated, pasted>>
      /\ called' = TRUE /\ stranded' = {} /\ adrift' = Items
      /\ errors < MaxErrors /\ errors' = errors + 1
      /\ index' = [i \in Items |-> None] /\ shown' = item
      /\ user' = None /\ sync' = None /\ worker' = Off
      /\ job' = [i \in Items |->
           IF job[i] # None /\ job[i].status = "processing"
           THEN [job[i] EXCEPT !.status = "pending"] ELSE job[i]]
  BY DEF Restart
<1>3. ASSUME NEW i \in Items
      PROVE  /\ job'[i] \in Job \union {None}
             /\ (job'[i] = None) = (job[i] = None)
             /\ job[i] # None =>
                  /\ job'[i].fingerprint = job[i].fingerprint
                  /\ job'[i].status = "complete" => job[i].status = "complete"
                  /\ job'[i].status # "processing"
  <2>1. CASE job[i] # None /\ job[i].status = "processing"
    <3>1. job'[i] = [job[i] EXCEPT !.status = "pending"]
      BY <1>2, <2>1
    <3>2. job[i] \in Job
      BY <1>1, <2>1 DEF TypeOK
    <3>3. job'[i] \in Job /\ job'[i].fingerprint = job[i].fingerprint
          /\ job'[i].status = "pending"
      BY <3>1, <3>2 DEF Job, Status
    <3> QED
      BY <2>1, <3>3, NoneAssumption
  <2>2. CASE ~(job[i] # None /\ job[i].status = "processing")
    <3>1. job'[i] = job[i]
      BY <1>2, <2>2
    <3> QED
      BY <1>1, <2>2, <3>1 DEF TypeOK
  <2> QED
    BY <2>1, <2>2
<1>4. job' \in [Items -> Job \union {None}]
  BY <1>2, <1>3
<1>5. Restatus
  BY <1>2, <1>3, <1>4 DEF Restatus
<1>6. Apart'
  <2>1. errors' \in 0 .. MaxErrors
    BY <1>1, <1>2, QueueAssumption DEF TypeOK
  <2> QED
    BY <1>1, <1>2, <2>1 DEF Apart
<1>7. WorkerOK'
  BY <1>2, WorkerOff
<1>8. Held'
  BY <1>2, <1>3 DEF Held, IdleInv, NoJobLeftBehind, Claimed, Off
<1> QED
  BY <1>5, <1>6, <1>7, <1>8, RestatusKeeps

LEMMA PushKeeps ==
  ASSUME IInv, Push
  PROVE  IInv'
<1>1. /\ UNCHANGED <<item, job, index, shown, user, sync, called, worker, others>>
      /\ outbox' = [i \in Items |-> None]
  BY DEF Push
<1>2. TypeOK'
  BY <1>1 DEF IInv, TypeOK, others, histories
<1>3. NothingBlocksPush'
  BY <1>1, NoneAssumption DEF NothingBlocksPush
<1>4. /\ WorkerInv' /\ TextInv' /\ CopyInv' /\ ShownInv'
      /\ JobOfEachRecord' /\ MetadataFitsText' /\ CompleteHasMetadata'
      /\ IdleInv' /\ NoJobLeftBehind'
  BY <1>1 DEF IInv, others, histories, WorkerInv, InHand, TextInv, CopyInv, ShownInv,
              JobOfEachRecord, MetadataFitsText, CompleteHasMetadata, IdleInv, Claimed,
              NoJobLeftBehind
<1> QED
  BY <1>2, <1>3, <1>4 DEF IInv
-----------------------------------------------------------------------------
(* process_ai_queue.                                                       *)
LEMMA DropKeeps ==
  ASSUME IInv, Drop
  PROVE  IInv'
<1>1. UNCHANGED <<tables, index, shown, user, sync, worker, others>> /\ called' = FALSE
  BY DEF Drop
<1>2. Restatus /\ Apart'
  BY <1>1, AsItWas DEF tables, others, histories, Apart
<1>3. WorkerOK' /\ Held'
  BY <1>1, WorkerStays, HeldAsWas DEF tables, others, histories
<1> QED
  BY <1>2, <1>3, RestatusKeeps

LEMMA ClaimKeeps ==
  ASSUME IInv, Claim
  PROVE  IInv'
<1> DEFINE ids == {i \in Items : Claimable(i)}
<1>1. TypeOK
  BY DEF IInv
<1>2. /\ UNCHANGED <<item, outbox, index, shown, user, sync, edits, errors>>
      /\ UNCHANGED <<raced, outdated, pasted, adrift>>
      /\ worker.pc = "off" /\ called' = FALSE /\ stranded' = stranded \ ids
      /\ job' = [i \in Items |->
            IF i \in ids THEN [job[i] EXCEPT !.status = "processing"] ELSE job[i]]
      /\ worker' = [Off EXCEPT !.pc = "run", !.todo = ids]
  BY DEF Claim
<1>3. \A i \in ids : i \in Items /\ job[i] # None
  BY DEF Claimable
<1> HIDE DEF ids
<1>4. ASSUME NEW i \in Items
      PROVE  /\ job'[i] \in Job \union {None}
             /\ (job'[i] = None) = (job[i] = None)
             /\ job[i] # None =>
                  /\ job'[i].fingerprint = job[i].fingerprint
                  /\ job'[i].status = "complete" => job[i].status = "complete"
                  /\ i \notin ids => job'[i] = job[i]
  <2>1. CASE i \in ids
    <3>1. job'[i] = [job[i] EXCEPT !.status = "processing"]
      BY <1>2, <2>1
    <3>2. job[i] \in Job
      BY <1>1, <1>3, <2>1 DEF TypeOK
    <3>3. job'[i] \in Job /\ job'[i].fingerprint = job[i].fingerprint
          /\ job'[i].status = "processing"
      BY <3>1, <3>2 DEF Job, Status
    <3> QED
      BY <1>3, <2>1, <3>3, NoneAssumption
  <2>2. CASE i \notin ids
    <3>1. job'[i] = job[i]
      BY <1>2, <2>2
    <3> QED
      BY <1>1, <3>1 DEF TypeOK
  <2> QED
    BY <2>1, <2>2
<1>5. job' \in [Items -> Job \union {None}]
  BY <1>2, <1>4
<1>6. Restatus
  BY <1>2, <1>4, <1>5 DEF Restatus
<1>7. Apart'
  BY <1>2, AsItWas DEF Apart
<1>8. WorkerOK'
  <2>1. worker' = [pc |-> "run", todo |-> ids, jobs |-> {}, at |-> None,
                   content |-> None, list |-> None]
    BY <1>2 DEF Off
  <2>2. ids \subseteq Items
    BY <1>3
  <2> QED
    BY <2>1, <2>2 DEF WorkerOK, WorkerInv, HandsApart, CopyInv, InHand, Steps
<1>9. Held'
  <2>1. worker'.pc = "run" /\ Claimed' = ids
    BY <1>2 DEF Off, Claimed
  <2>2. Claimed = {}
    BY <1>2 DEF IInv, IdleInv
  <2>3. NoJobLeftBehind'
    BY <1>2, <1>4, <2>1, <2>2 DEF IInv, NoJobLeftBehind
  <2> QED
    BY <2>1, <2>3 DEF Held, IdleInv
<1> QED
  BY <1>6, <1>7, <1>8, <1>9, RestatusKeeps

LEMMA GetKeeps ==
  ASSUME IInv, Get
  PROVE  IInv'
<1>1. /\ worker.pc = "run"
      /\ UNCHANGED <<tables, index, shown, user, sync, called, edits, errors>>
      /\ UNCHANGED <<raced, outdated, pasted, adrift>>
  BY DEF Get
<1>2. Restatus /\ Apart /\ WorkerOK
  BY <1>1, AsItWas
<1>3. PICK i \in worker.todo :
        \/ /\ item[i] = None /\ worker' = Off
           /\ stranded' = stranded \union Claimed
        \/ /\ item[i] # None /\ UNCHANGED stranded
           /\ worker' = [worker EXCEPT !.todo = ToRead(i),
                !.jobs = @ \union {[id |-> i, text |-> item[i].text]}]
  BY DEF Get
<1>4. CASE item[i] = None
  <2>1. worker' = Off /\ stranded' = stranded \union Claimed
    BY <1>3, <1>4
  <2>2. Claimed \subseteq Items /\ Claimed' = {} /\ worker'.pc = "off"
    BY <1>2, <2>1 DEF WorkerOK, WorkerInv, Claimed, Copies, Off
  <2>3. Apart'
    BY <1>1, <1>2, <2>1, <2>2 DEF Apart
  <2>4. Held'
    BY <1>1, <2>1, <2>2, HeldStays DEF tables
  <2> QED
    BY <1>2, <2>1, <2>3, <2>4, WorkerOff, RestatusKeeps
<1>5. CASE item[i] # None
  <2> DEFINE new == [id |-> i, text |-> item[i].text]
  <2>1. i \in Items /\ item[i] \in Content /\ new \in Copies
    BY <1>2, <1>5 DEF WorkerOK, WorkerInv, IInv, TypeOK, Content, Copies
  <2>2. new.id = i /\ new.text = item[i].text
    OBVIOUS
  <2>3. worker' = [worker EXCEPT !.todo = @ \ {i}, !.jobs = @ \union {new}] /\ UNCHANGED stranded
    BY <1>3, <1>5 DEF ToRead
  <2> HIDE DEF new
  <2>4. /\ worker'.pc = "run" /\ worker'.todo = worker.todo \ {i}
        /\ worker'.jobs = worker.jobs \union {new}
        /\ worker' \in [pc : Steps, todo : SUBSET Items, jobs : SUBSET Copies,
                        at : Items \union {None}, content : Content \union {None},
                        list : List \union {None}]
    BY <1>1, <1>2, <2>1, <2>3 DEF WorkerOK, WorkerInv
  <2>5. \A w \in worker.jobs : w.id \notin worker.todo
    BY <1>2 DEF WorkerOK, HandsApart
  <2>6. WorkerInv'
    BY <1>2, <2>2, <2>4, <2>5 DEF WorkerOK, WorkerInv
  <2>7. HandsApart'
    BY <2>2, <2>4, <2>5 DEF HandsApart
  <2>8. CopyInv'
    BY <1>1, <1>2, <1>5, <2>2, <2>4 DEF WorkerOK, CopyInv, tables
  <2>9. WorkerOK'
    BY <2>4, <2>6, <2>7, <2>8 DEF WorkerOK
  <2>10. Claimed \subseteq Claimed'
    BY <2>2, <2>4 DEF Claimed
  <2>11. Held'
    BY <1>1, <2>3, <2>4, <2>10, HeldStays DEF tables
  <2>12. Apart'
    BY <1>1, <1>2, <2>3 DEF Apart
  <2> QED
    BY <1>2, <2>9, <2>11, <2>12, RestatusKeeps
<1> QED
  BY <1>4, <1>5

LEMMA AskKeeps ==
  ASSUME IInv, Ask
  PROVE  IInv'
<1>1. /\ worker.pc = "run"
      /\ UNCHANGED <<tables, index, shown, user, sync, called, edits, histories>>
  BY DEF Ask
<1>2. Restatus /\ Apart /\ WorkerOK
  BY <1>1, AsItWas DEF histories
<1>3. errors' \in 0 .. MaxErrors
  BY <1>2, QueueAssumption DEF Ask, Apart
<1>4. Apart'
  BY <1>1, <1>2, <1>3 DEF Apart, histories
<1>5. PICK w \in worker.jobs :
        \/ /\ item[w.id] # None
           /\ worker' = [worker EXCEPT !.pc = "write", !.at = w.id,
                !.content = [text |-> item[w.id].text, metadata |-> w.text]]
        \/ worker' = [worker EXCEPT !.pc = "fail", !.at = w.id]
  BY DEF Ask
<1>6. w.id \in Items /\ w.text \in Nat \ {0}
  BY <1>2 DEF WorkerOK, WorkerInv, Copies
<1>7. WorkerOK' /\ worker'.pc \in {"write", "fail"}
      /\ worker'.jobs = worker.jobs /\ worker'.todo = worker.todo
  <2>1. CASE /\ item[w.id] # None
             /\ worker' = [worker EXCEPT !.pc = "write", !.at = w.id,
                  !.content = [text |-> item[w.id].text, metadata |-> w.text]]
    <3> DEFINE c == [text |-> item[w.id].text, metadata |-> w.text]
    <3>1. item[w.id] \in Content /\ item[w.id].text <= edits
      BY <1>6, <2>1 DEF IInv, TypeOK, TextInv
    <3>2. c \in Content /\ c.text = item[w.id].text /\ c.metadata = w.text
      BY <1>6, <3>1 DEF Content
    <3>3. worker' = [worker EXCEPT !.pc = "write", !.at = w.id, !.content = c]
      BY <2>1
    <3> HIDE DEF c
    <3>4. /\ worker' \in [pc : Steps, todo : SUBSET Items, jobs : SUBSET Copies,
                          at : Items \union {None}, content : Content \union {None},
                          list : List \union {None}]
          /\ worker'.pc = "write" /\ worker'.content = c /\ worker'.at = w.id
          /\ worker'.jobs = worker.jobs /\ worker'.todo = worker.todo
      BY <1>2, <1>6, <3>2, <3>3 DEF WorkerOK, WorkerInv, Steps
    <3>5. WorkerInv'
      BY <1>2, <1>6, <3>2, <3>4 DEF WorkerOK, WorkerInv, InHand
    <3>6. CopyInv'
      BY <1>1, <1>2, <3>2, <3>4 DEF WorkerOK, CopyInv, tables, histories
    <3>7. HandsApart'
      BY <1>2, <3>4 DEF WorkerOK, HandsApart
    <3> QED
      BY <1>1, <3>1, <3>2, <3>4, <3>5, <3>6, <3>7 DEF WorkerOK
  <2>2. CASE worker' = [worker EXCEPT !.pc = "fail", !.at = w.id]
    <3>1. /\ worker' \in [pc : Steps, todo : SUBSET Items, jobs : SUBSET Copies,
                          at : Items \union {None}, content : Content \union {None},
                          list : List \union {None}]
          /\ worker'.pc = "fail" /\ worker'.at = w.id
          /\ worker'.jobs = worker.jobs /\ worker'.todo = worker.todo
      BY <1>2, <1>6, <2>2 DEF WorkerOK, WorkerInv, Steps
    <3>2. WorkerInv'
      BY <1>2, <1>6, <3>1 DEF WorkerOK, WorkerInv, InHand
    <3> QED
      BY <1>1, <1>2, <3>1, <3>2 DEF WorkerOK, HandsApart, CopyInv, tables, histories
  <2> QED
    BY <1>5, <2>1, <2>2
<1>8. Held'
  <2>1. Claimed' = Claimed
    BY <1>7 DEF Claimed
  <2> QED
    BY <1>1, <1>7, <2>1, HeldStays DEF tables, histories
<1> QED
  BY <1>2, <1>4, <1>7, <1>8, RestatusKeeps

(* It goes on to the next job or to the index.                             *)
LEMMA GoesOn ==
  ASSUME WorkerOK, UNCHANGED <<item, raced>>,
         worker' \in [pc : {"run", "clear", "add"}, todo : SUBSET worker.todo,
                      jobs : SUBSET worker.jobs, at : Items \union {None},
                      content : Content \union {None}, list : List \union {None}],
         worker'.pc \in {"clear", "add"} => worker'.list \in List
  PROVE  WorkerOK'
<1>1. /\ worker'.pc \in {"run", "clear", "add"} /\ worker'.jobs \subseteq worker.jobs
      /\ worker'.todo \subseteq worker.todo
      /\ worker' \in [pc : Steps, todo : SUBSET Items, jobs : SUBSET Copies,
                      at : Items \union {None}, content : Content \union {None},
                      list : List \union {None}]
  BY DEF WorkerOK, WorkerInv, Steps
<1>2. WorkerInv'
  BY <1>1 DEF WorkerOK, WorkerInv
<1>3. HandsApart' /\ CopyInv' /\ worker'.pc # "write"
  BY <1>1 DEF WorkerOK, HandsApart, CopyInv
<1> QED
  BY <1>2, <1>3 DEF WorkerOK

LEMMA FailJobKeeps ==
  ASSUME IInv, FailJob
  PROVE  IInv'
<1> DEFINE i == worker.at
<1>1. /\ worker.pc = "fail"
      /\ UNCHANGED <<item, outbox, index, shown, user, sync, called, others>>
      /\ worker' = [worker EXCEPT !.pc = "run", !.jobs = Finished(i), !.at = None]
  BY DEF FailJob
<1>2. Apart' /\ WorkerOK /\ i \in Items /\ job \in [Items -> Job \union {None}]
  BY <1>1, AsItWas DEF Apart, others, histories, WorkerOK, WorkerInv, IInv, TypeOK
<1>3. WorkerOK'
  <2>1. Finished(i) \subseteq worker.jobs
    BY DEF Finished
  <2>2. worker' \in [pc : {"run", "clear", "add"}, todo : SUBSET worker.todo,
                     jobs : SUBSET worker.jobs, at : Items \union {None},
                     content : Content \union {None}, list : List \union {None}]
    BY <1>1, <1>2, <2>1 DEF WorkerOK, WorkerInv
  <2>3. worker'.pc = "run"
    BY <1>1, <1>2 DEF WorkerOK, WorkerInv
  <2> QED
    BY <1>1, <1>2, <2>2, <2>3, GoesOn DEF others, histories
<1>4. Restatus
  <2>1. CASE job[i] = None
    <3>1. job' = job
      BY <2>1 DEF FailJob
    <3> QED
      BY <1>1, <3>1, AsItWas DEF tables, others, histories
  <2>2. CASE job[i] # None
    <3>1. job' = [job EXCEPT ![i].status = "failed", ![i].due = FALSE]
      BY <2>2 DEF FailJob
    <3>2. job'[i] = [job[i] EXCEPT !.status = "failed", !.due = FALSE]
      BY <1>2, <2>2, <3>1 DEF Job
    <3>3. /\ job'[i] \in Job /\ job'[i].fingerprint = job[i].fingerprint
          /\ job'[i].status = "failed"
      BY <1>2, <2>2, <3>2 DEF Job, Status
    <3>4. \A k \in Items : k # i => job'[k] = job[k]
      BY <1>2, <3>1
    <3>5. job' \in [Items -> Job \union {None}]
      BY <1>2, <3>1, <3>3, <3>4
    <3> QED
      BY <1>1, <2>2, <3>3, <3>4, <3>5, NoneAssumption DEF Restatus, others, histories
  <2> QED
    BY <2>1, <2>2
<1>5. Held'
  <2>1. \A k \in Items : job'[k] # None /\ job'[k].status = "processing" =>
          k # i /\ job[k] # None /\ job[k].status = "processing"
    <3>1. job[i] # None => job'[i].status = "failed"
      BY <1>2 DEF FailJob, Job
    <3>2. job[i] = None => job'[i] = None
      BY DEF FailJob
    <3>3. \A k \in Items : k # i => job'[k] = job[k]
      BY <1>2 DEF FailJob
    <3> QED
      BY <3>1, <3>2, <3>3
  <2>2. worker'.pc = "run" /\ worker'.todo = worker.todo /\ worker'.jobs = Finished(i)
    BY <1>1, <1>2 DEF WorkerOK, WorkerInv
  <2>3. \A k \in Claimed : k # i => k \in Claimed'
    BY <2>2 DEF Claimed, Finished
  <2> QED
    BY <1>1, <2>1, <2>2, <2>3, HeldStays DEF others, histories
<1> QED
  BY <1>2, <1>3, <1>4, <1>5, RestatusKeeps

(* The record still is what was read of it, unless it was raced: there,    *)
(* with its text, and the metadata that comes is of that text.             *)
LEMMA CompleteJobKeeps ==
  ASSUME IInv, CompleteJob
  PROVE  IInv'
<1> DEFINE i == worker.at
           c == worker.content
<1>1. /\ worker.pc = "write" /\ worker' = [worker EXCEPT !.pc = "index"]
      /\ item' = [item EXCEPT ![i] = Updated(i)]
      /\ outbox' = [outbox EXCEPT ![i] = "upsert"]
      /\ UNCHANGED <<index, shown, user, sync, called, edits, errors>>
      /\ UNCHANGED <<raced, outdated, pasted, stranded>>
      /\ adrift' \in {adrift \union {i}, adrift \ {i}}
  BY DEF CompleteJob, AdriftBy
<1>2. TypeOK /\ WorkerInv /\ i \in Items /\ InHand(i) /\ c \in Content /\ c # None
  BY <1>1, NoneAssumption DEF IInv, WorkerInv
<1>3. /\ item'[i] = Updated(i) /\ outbox'[i] = "upsert"
      /\ \A k \in Items : k # i => item'[k] = item[k] /\ outbox'[k] = outbox[k]
  BY <1>1, <1>2 DEF TypeOK
<1>4. /\ item'[i] \in Content \union {None} /\ (item'[i] = None) = (item[i] = None)
      /\ item[i] # None => item'[i] = c
  BY <1>2, <1>3 DEF Updated
<1>5. i \notin raced => /\ item[i] # None /\ item[i].text \in Nat \ {0}
                        /\ c.text = item[i].text /\ c.metadata = item[i].text
  BY <1>1, <1>2 DEF IInv, CopyInv, InHand, TypeOK, Content
<1>6. /\ job' \in [Items -> Job \union {None}]
      /\ (job'[i] = None) = (job[i] = None)
      /\ job[i] # None => job'[i].fingerprint = job[i].fingerprint
      /\ job[i] # None => job'[i].status = "complete"
      /\ \A k \in Items : k # i => job'[k] = job[k]
  <2>1. CASE job[i] = None
    <3>1. job' = job
      BY <2>1 DEF CompleteJob
    <3> QED
      BY <1>2, <2>1, <3>1 DEF TypeOK
  <2>2. CASE job[i] # None
    <3>1. job' = [job EXCEPT ![i].status = "complete"]
      BY <2>2 DEF CompleteJob
    <3>2. job'[i] = [job[i] EXCEPT !.status = "complete"] /\ job[i] \in Job
      BY <1>2, <2>2, <3>1 DEF TypeOK
    <3>3. /\ job'[i] \in Job /\ job'[i].fingerprint = job[i].fingerprint
          /\ job'[i].status = "complete"
      BY <3>2 DEF Job, Status
    <3>4. \A k \in Items : k # i => job'[k] = job[k]
      BY <1>2, <3>1 DEF TypeOK
    <3>5. job' \in [Items -> Job \union {None}]
      BY <1>2, <3>1, <3>3, <3>4 DEF TypeOK
    <3> QED
      BY <2>2, <3>3, <3>4, <3>5, NoneAssumption
  <2> QED
    BY <2>1, <2>2
<1>7. /\ worker' \in [pc : Steps, todo : SUBSET Items, jobs : SUBSET Copies,
                      at : Items \union {None}, content : Content \union {None},
                      list : List \union {None}]
      /\ worker'.pc = "index" /\ worker'.jobs = worker.jobs /\ worker'.at = i
      /\ worker'.content = c /\ worker'.todo = worker.todo
  BY <1>1, <1>2 DEF WorkerInv, Steps
<1> HIDE DEF i, c
<1>8. TypeOK'
  <2>1. item' \in [Items -> Content \union {None}]
    BY <1>1, <1>2, <1>3, <1>4 DEF TypeOK
  <2>2. outbox' \in [Items -> {"upsert", "delete", None}]
    BY <1>1, <1>2 DEF TypeOK
  <2>3. worker'.todo \subseteq Items /\ worker'.at \in Items \union {None}
    BY <1>2, <1>7 DEF TypeOK
  <2>4. {w.id : w \in worker'.jobs} \intersect worker'.todo = {}
    BY <1>2, <1>7 DEF TypeOK
  <2>5. /\ UNCHANGED <<index, shown, user, sync, called, edits, errors, raced, outdated>>
        /\ UNCHANGED <<pasted, stranded>> /\ adrift' \subseteq Items
    BY <1>1, <1>2 DEF TypeOK
  <2> QED
    BY <1>2, <1>6, <2>1, <2>2, <2>3, <2>4, <2>5 DEF TypeOK
<1>9. WorkerInv'
  BY <1>2, <1>7 DEF WorkerInv, InHand
<1>10. TextInv'
  <2>1. c.text <= edits
    BY <1>1 DEF IInv, TextInv, c
  <2> QED
    BY <1>1, <1>3, <1>4, <1>6, <1>7, <2>1 DEF IInv, TextInv, others, histories
<1>11. CopyInv'
  BY <1>1, <1>3, <1>4, <1>5, <1>7 DEF IInv, CopyInv, others, histories
<1>12. ShownInv'
  BY <1>1 DEF IInv, ShownInv, others, histories
<1>13. JobOfEachRecord'
  BY <1>1, <1>3, <1>4, <1>5, <1>6 DEF IInv, JobOfEachRecord, others, histories
<1>14. MetadataFitsText'
  BY <1>1, <1>3, <1>4, <1>5 DEF IInv, MetadataFitsText, others, histories
<1>15. CompleteHasMetadata'
  BY <1>1, <1>3, <1>4, <1>5, <1>6 DEF IInv, CompleteHasMetadata, others, histories, NoMetadata
<1>16. NothingBlocksPush'
  BY <1>1, <1>3, <1>4, <1>5 DEF IInv, NothingBlocksPush, others, histories
<1>17. Held'
  <2>1. Claimed' = Claimed
    BY <1>7 DEF Claimed
  <2>2. IdleInv'
    BY <1>2, <1>6, <1>7 DEF IdleInv
  <2>3. NoJobLeftBehind'
    BY <1>1, <1>6, <2>1 DEF IInv, NoJobLeftBehind
  <2> QED
    BY <2>2, <2>3 DEF Held
<1> QED
  BY <1>8, <1>9, <1>10, <1>11, <1>12, <1>13, <1>14, <1>15, <1>16, <1>17 DEF IInv, Held

LEMMA IndexJobKeeps ==
  ASSUME IInv, IndexJob
  PROVE  IInv'
<1> DEFINE i == worker.at
<1>1. /\ worker.pc = "index" /\ Write(ToIndex(i, worker.content))
      /\ UNCHANGED <<tables, shown, user, sync, called, others>>
      /\ worker' = [worker EXCEPT !.pc = "run", !.jobs = Finished(i), !.at = None,
                                  !.content = None]
  BY DEF IndexJob
<1>2. Restatus /\ Apart /\ WorkerOK /\ i \in Items /\ worker.content \in Content
  BY <1>1, AsItWas DEF others, histories, WorkerOK, WorkerInv
<1>3. Apart'
  <2>1. ToIndex(i, worker.content) \in Entry
    BY <1>2, Indexes
  <2>2. index' \in [Items -> Content \union {None}]
    BY <1>1, <1>2, <2>1, WriteFacts DEF Apart
  <2> QED
    BY <1>1, <1>2, <2>2 DEF Apart, others, histories
<1>4. WorkerOK'
  <2>1. Finished(i) \subseteq worker.jobs
    BY DEF Finished
  <2>2. worker' \in [pc : {"run", "clear", "add"}, todo : SUBSET worker.todo,
                     jobs : SUBSET worker.jobs, at : Items \union {None},
                     content : Content \union {None}, list : List \union {None}]
    BY <1>1, <1>2, <2>1 DEF WorkerOK, WorkerInv
  <2>3. worker'.pc = "run"
    BY <1>1, <1>2 DEF WorkerOK, WorkerInv
  <2> QED
    BY <1>1, <1>2, <2>2, <2>3, GoesOn DEF tables, others, histories
<1>5. Held'
  <2>1. worker'.pc = "run" /\ worker'.todo = worker.todo /\ worker'.jobs = Finished(i)
    BY <1>1, <1>2 DEF WorkerOK, WorkerInv
  <2>2. \A k \in Claimed : k # i => k \in Claimed'
    BY <2>1 DEF Claimed, Finished
  <2>3. job[i] # None => job[i].status # "processing"
    BY <1>1 DEF IInv, IdleInv
  <2> QED
    BY <1>1, <2>1, <2>2, <2>3, HeldStays DEF tables, others, histories
<1> QED
  BY <1>2, <1>3, <1>4, <1>5, RestatusKeeps

LEMMA ListRecordsKeeps ==
  ASSUME IInv, ListRecords
  PROVE  IInv'
<1>1. /\ UNCHANGED <<tables, index, shown, user, sync, called, others>>
      /\ worker' = [worker EXCEPT !.pc = "clear", !.list = item]
      /\ worker.todo = {} /\ worker.jobs = {}
  BY DEF ListRecords
<1>2. Restatus /\ Apart' /\ WorkerOK
  BY <1>1, AsItWas DEF Apart, others, histories
<1>3. item \in List
  BY DEF IInv, TypeOK, List
<1>4. /\ worker' \in [pc : {"run", "clear", "add"}, todo : SUBSET worker.todo,
                      jobs : SUBSET worker.jobs, at : Items \union {None},
                      content : Content \union {None}, list : List \union {None}]
      /\ worker'.list = item /\ worker'.pc = "clear"
      /\ worker'.todo = worker.todo /\ worker'.jobs = worker.jobs
  BY <1>2, <1>3, <1>1 DEF WorkerOK, WorkerInv
<1>5. WorkerOK'
  BY <1>1, <1>2, <1>3, <1>4, GoesOn DEF tables, others, histories
<1>6. Held'
  <2>1. Claimed = {} /\ Claimed' = {}
    BY <1>1, <1>4 DEF Claimed
  <2> QED
    BY <1>1, <1>4, <2>1, HeldStays DEF tables, others, histories
<1> QED
  BY <1>2, <1>5, <1>6, RestatusKeeps

(* The records are added one by one, and the run ends with the last.       *)
LEMMA AddsOn ==
  ASSUME IInv, NEW list \in List, worker' = Adding(list), worker.pc \in {"clear", "add"},
         UNCHANGED <<tables, raced, stranded, edits>>
  PROVE  WorkerOK' /\ Held'
<1>1. WorkerOK /\ Claimed = {}
  BY AsItWas DEF IInv, IdleInv
<1>2. CASE worker' = Off
  <2>1. Claimed' = {} /\ worker'.pc = "off"
    BY <1>2 DEF Claimed, Off
  <2> QED
    BY <1>1, <1>2, <2>1, WorkerOff, HeldStays DEF tables
<1>3. CASE worker' = [worker EXCEPT !.pc = "add", !.list = list]
  <2>1. /\ worker' \in [pc : {"run", "clear", "add"}, todo : SUBSET worker.todo,
                        jobs : SUBSET worker.jobs, at : Items \union {None},
                        content : Content \union {None}, list : List \union {None}]
        /\ worker'.list = list /\ worker'.pc = "add"
        /\ worker'.todo = worker.todo /\ worker'.jobs = worker.jobs
    BY <1>1, <1>3 DEF WorkerOK, WorkerInv
  <2>2. WorkerOK'
    BY <1>1, <2>1, GoesOn DEF tables
  <2>3. Claimed' = {}
    BY <1>1, <2>1 DEF Claimed
  <2> QED
    BY <1>1, <2>1, <2>2, <2>3, HeldStays DEF tables
<1> QED
  BY <1>2, <1>3 DEF Adding

LEMMA ClearIndexKeeps ==
  ASSUME IInv, ClearIndex
  PROVE  IInv'
<1>1. /\ UNCHANGED <<tables, shown, user, sync, called, edits, errors>>
      /\ UNCHANGED <<raced, outdated, pasted, stranded>> /\ adrift' \subseteq adrift
      /\ worker.pc = "clear" /\ worker' = Adding(worker.list)
      /\ index' = [i \in Items |-> None]
  BY DEF ClearIndex, Emptied
<1>2. Restatus /\ Apart
  BY <1>1, AsItWas
<1>3. Apart'
  BY <1>1, <1>2 DEF Apart
<1>4. worker.list \in List
  BY <1>1 DEF IInv, WorkerInv
<1> QED
  BY <1>1, <1>2, <1>3, <1>4, AddsOn, RestatusKeeps

LEMMA AddRecordKeeps ==
  ASSUME IInv, AddRecord
  PROVE  IInv'
<1>1. /\ UNCHANGED <<tables, shown, user, sync, called, others>>
      /\ worker.pc = "add"
  BY DEF AddRecord
<1>2. Restatus /\ Apart /\ worker.list \in List
  BY <1>1, AsItWas DEF others, histories, IInv, WorkerInv
<1>3. PICK i \in Items :
        /\ Write(ToIndex(i, worker.list[i]))
        /\ worker' = Adding([worker.list EXCEPT ![i] = None])
  BY DEF AddRecord
<1>4. worker.list[i] \in Content \union {None} /\ [worker.list EXCEPT ![i] = None] \in List
  BY <1>2 DEF List
<1>5. index' \in [Items -> Content \union {None}]
  BY <1>2, <1>3, <1>4, Indexes, WriteFacts DEF Apart
<1>6. Apart'
  BY <1>1, <1>2, <1>5 DEF Apart, others, histories
<1> QED
  BY <1>1, <1>2, <1>3, <1>4, <1>6, AddsOn, RestatusKeeps DEF others, histories
-----------------------------------------------------------------------------
LEMMA InitHolds == Init => IInv
<1> SUFFICES ASSUME Init PROVE IInv
  OBVIOUS
<1>1. TypeOK
  BY QueueAssumption DEF Init, Off, TypeOK
<1>2. WorkerInv
  BY DEF Init, Off, WorkerInv, Steps, InHand
<1>3. TextInv /\ CopyInv /\ ShownInv
  BY DEF Init, Off, TextInv, CopyInv, ShownInv
<1>4. JobOfEachRecord /\ MetadataFitsText /\ CompleteHasMetadata
  BY DEF Init, JobOfEachRecord, MetadataFitsText, CompleteHasMetadata
<1>5. NothingBlocksPush
  BY NoneAssumption DEF Init, NothingBlocksPush
<1>6. IdleInv /\ NoJobLeftBehind
  BY DEF Init, Off, IdleInv, Claimed, NoJobLeftBehind
<1> QED
  BY <1>1, <1>2, <1>3, <1>4, <1>5, <1>6 DEF IInv

LEMMA StepHolds == IInv /\ [Next]_vars => IInv'
<1> SUFFICES ASSUME IInv, [Next]_vars PROVE IInv'
  OBVIOUS
<1>1. CASE Edit BY <1>1, EditKeeps
<1>2. CASE Insert BY <1>2, InsertKeeps
<1>3. CASE Flag BY <1>3, FlagKeeps
<1>4. CASE Delete BY <1>4, DeleteKeeps
<1>5. CASE Reload BY <1>5, ReloadKeeps
<1>6. CASE Reset BY <1>6, ResetKeeps
<1>7. CASE UserIndexes \/ SyncIndexes BY <1>7, IndexesKeep
<1>8. CASE ApplyRemote BY <1>8, ApplyRemoteKeeps
<1>9. CASE Push BY <1>9, PushKeeps
<1>10. CASE Drop BY <1>10, DropKeeps
<1>11. CASE Claim BY <1>11, ClaimKeeps
<1>12. CASE Run
  <2>1. CASE Get BY <2>1, GetKeeps
  <2>2. CASE Ask BY <2>2, AskKeeps
  <2>3. CASE FailJob BY <2>3, FailJobKeeps
  <2>4. CASE CompleteJob BY <2>4, CompleteJobKeeps
  <2>5. CASE IndexJob BY <2>5, IndexJobKeeps
  <2>6. CASE ListRecords BY <2>6, ListRecordsKeeps
  <2>7. CASE ClearIndex BY <2>7, ClearIndexKeeps
  <2>8. CASE AddRecord BY <2>8, AddRecordKeeps
  <2> QED
    BY <1>12, <2>1, <2>2, <2>3, <2>4, <2>5, <2>6, <2>7, <2>8 DEF Run
<1>13. CASE Due BY <1>13, DueKeeps
<1>14. CASE Restart BY <1>14, RestartKeeps
<1>15. CASE UNCHANGED vars BY <1>15, StutterKeeps
<1> QED
  BY <1>1, <1>2, <1>3, <1>4, <1>5, <1>6, <1>7, <1>8, <1>9, <1>10, <1>11, <1>12, <1>13, <1>14,
     <1>15 DEF Next

LEMMA Invariance == Spec => []IInv
BY InitHolds, StepHolds, PTL DEF Spec

(* Every variable keeps its type.                                          *)
THEOREM Typing == Spec => []TypeOK
<1>1. IInv => TypeOK
  BY DEF IInv
<1> QED
  BY <1>1, Invariance, PTL

(* A record and its row of ai_jobs come and go together, whatever the      *)
(* threads do, and the row is of the text of the record unless the record  *)
(* changed while process_ai_queue had a copy of it.                        *)
THEOREM OneJobEach == Spec => []JobOfEachRecord
<1>1. IInv => JobOfEachRecord
  BY DEF IInv
<1> QED
  BY <1>1, Invariance, PTL

(* No answer of the model becomes the metadata of another text, unless     *)
(* the record changed while process_ai_queue had a copy of it, or had a    *)
(* file put into it in the editor.                                         *)
THEOREM MetadataFits == Spec => []MetadataFitsText
<1>1. IInv => MetadataFitsText
  BY DEF IInv
<1> QED
  BY <1>1, Invariance, PTL

(* A job is not complete without its metadata in the record, unless a      *)
(* change raced process_ai_queue or was saved from a stale copy.           *)
THEOREM CompleteIsDone == Spec => []CompleteHasMetadata
<1>1. IInv => CompleteHasMetadata
  BY DEF IInv
<1> QED
  BY <1>1, Invariance, PTL

(* The outbox asks the push for no record that is gone, unless it was      *)
(* deleted while process_ai_queue had a copy of it.                        *)
THEOREM PushNotBlocked == Spec => []NothingBlocksPush
<1>1. IInv => NothingBlocksPush
  BY DEF IInv
<1> QED
  BY <1>1, Invariance, PTL

(* A run that ends leaves no job marked as processing, unless it found a   *)
(* record gone that it had claimed.                                        *)
THEOREM RunsLeaveNothing == Spec => []NoJobLeftBehind
<1>1. IInv => NoJobLeftBehind
  BY DEF IInv
<1> QED
  BY <1>1, Invariance, PTL
=============================================================================
