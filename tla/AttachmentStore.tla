---------------------------- MODULE AttachmentStore ----------------------------
(***************************************************************************)
(* The server's attachment store: rows of `attachments` and                *)
(* `attachment_parts` in PostgreSQL, part files and object files in the    *)
(* object directory. The database has transactions and row locks, the      *)
(* files have neither: every handler of attachments.rs changes the two in  *)
(* an order of its own, and handlers run beside each other and beside the  *)
(* task that removes stale uploads. One account: ids and quota are its own.*)
(* Reading (status, download, the answer of `create`) changes nothing and  *)
(* is left out.                                                            *)
(***************************************************************************)
EXTENDS Integers, FiniteSets

CONSTANTS
  Handlers,  \* requests the server can be working on at a time
  Ids,       \* attachment identifiers
  Files,     \* the encrypted files a client may upload
  Name(_),   \* the identifier a file is uploaded under
  Length(_), \* the length of a file, in units of a part
  Asked,     \* the requests clients make
  Quota,     \* attachment_quota_bytes, in the same units
  MaxFailures, \* bound of the model: failures of handlers, removals or the server
  None       \* "there is no such thing"

VARIABLES
  row,       \* attachments: the row of each identifier, or None
  part,      \* attachment_parts: the numbers that have a row
  partFile,  \* <id>.parts/<n>.part: the file each stored part is of
  assembled, \* <id>.tmp: the file `complete` has put together, or None
  object,    \* <id>.blob
  stale,     \* the identifiers whose updated_at is older than the upload TTL
  pc,        \* what each handler does next
  request,   \* the request of each handler
  holds,     \* the row lock each handler's transaction holds
  expired,   \* the next removal of the cleanup task for each row it deleted, or None
  overtaken, \* history: rows created while files of an earlier row of the
             \* identifier were still being removed
  failures   \* how many handlers, removals, or the whole server, failed half-way

database == <<row, part, stale>>
disk == <<partFile, assembled, object>>
vars == <<database, disk, pc, request, holds, expired, overtaken, failures>>

Failure == failures < MaxFailures /\ failures' = failures + 1

NoRequest == [op |-> None]
UserRow == "user row"

(* A part is as long as part_size, here one unit: a file has as many parts *)
(* as units, and a part stored is the part of some file. A file and its    *)
(* ciphertext_sha256 are one: two files have different hashes.             *)
Numbers(f) == 0 .. Length(f) - 1
Number == UNION {Numbers(f) : f \in Files}

Request ==
  {NoRequest}
  \union [op : {"create"}, file : Files]
  \union {r \in [op : {"upload part"}, file : Files, number : Number] :
            r.number \in Numbers(r.file)}
  \union [op : {"complete", "delete"}, id : Ids]

Status == {"uploading", "complete"}
Row == [file : Files, status : Status]
Upload == [file : Files, status : Status, parts : SUBSET Number]  \* a row and its parts

Removals == {"remove parts", "remove object", "remove assembled"}

Pc ==
  {"idle", "create", "reserve", "insert", "upload part", "write part", "record part",
   "complete", "assemble", "rename", "record", "sweep", "delete"} \union Removals

ASSUME StoreAssumption ==
  /\ IsFiniteSet(Ids) /\ Quota \in Nat /\ MaxFailures \in Nat
  /\ \A f \in Files : Name(f) \in Ids /\ Length(f) \in Nat \ {0}
  /\ Asked \subseteq Request \ {NoRequest}
  /\ None \notin Ids \union Files \union Row \union Upload \union Pc \union {"other", UserRow}

TypeOK ==
  /\ row \in [Ids -> Row \union {None}]
  /\ part \in [Ids -> SUBSET Number]
  /\ \A i \in Ids : part[i] # {} => row[i] # None  \* a foreign key
  /\ partFile \in [Ids -> [Number -> Files \union {None}]]
  /\ assembled \in [Ids -> Files \union {"other", None}]
  /\ object \in [Ids -> Files \union {None}]
  /\ stale \subseteq {i \in Ids : row[i] # None}
  /\ pc \in [Handlers -> Pc] /\ request \in [Handlers -> Request]
  /\ holds \in [Handlers -> Ids \union {UserRow, None}]
  /\ expired \in [Ids -> Removals \union {None}]
  /\ overtaken \subseteq {i \in Ids : row[i] # None}
  /\ failures \in 0 .. MaxFailures

NoParts == [n \in Number |-> None]

Init ==
  /\ row = [i \in Ids |-> None] /\ part = [i \in Ids |-> {}]
  /\ partFile = [i \in Ids |-> NoParts]
  /\ assembled = [i \in Ids |-> None] /\ object = [i \in Ids |-> None]
  /\ expired = [i \in Ids |-> None]
  /\ stale = {} /\ overtaken = {} /\ failures = 0
  /\ pc = [h \in Handlers |-> "idle"]
  /\ request = [h \in Handlers |-> NoRequest]
  /\ holds = [h \in Handlers |-> None]
-----------------------------------------------------------------------------
(* The handlers' control, and PostgreSQL's row locks.                      *)

Id(h) == IF "file" \in DOMAIN request[h] THEN Name(request[h].file) ELSE request[h].id

(* (Faulty variant: the user's row is not locked.)                         *)
AttachmentLocked(r) == r # UserRow /\ \E h \in Handlers : holds[h] = r
Locked(r) == \E h \in Handlers : holds[h] = r

Goto(h, to) == pc' = [pc EXCEPT ![h] = to] /\ UNCHANGED request

(* A handler answers: its transaction is over, committed or rolled back.   *)
Answer(h) ==
  /\ pc' = [pc EXCEPT ![h] = "idle"]
  /\ request' = [request EXCEPT ![h] = NoRequest]
  /\ holds' = [holds EXCEPT ![h] = None]

Receive(h) ==
  /\ pc[h] = "idle"
  /\ \E r \in Asked :
       /\ request' = [request EXCEPT ![h] = r]
       /\ pc' = [pc EXCEPT ![h] = r.op]
  /\ UNCHANGED <<database, disk, holds, expired, overtaken, failures>>

(* Files of an earlier row of i are still to be removed: by a deletion,    *)
(* by the cleanup, or, its parts only, by a `complete` that has committed. *)
Removing(i) ==
  \/ expired[i] # None
  \/ \E h \in Handlers : pc[h] \in Removals \union {"sweep"} /\ Id(h) = i
-----------------------------------------------------------------------------
(* create: look the row up, then reserve the space under a lock of the     *)
(* user's row, insert and commit.                                          *)

CreateLookup(h) ==
  /\ pc[h] = "create"
  /\ IF row[Id(h)] = None
     THEN Goto(h, "reserve") /\ UNCHANGED holds
     ELSE Answer(h)  \* the row's status, or ApiError::Conflict for another file
  /\ UNCHANGED <<database, disk, expired, overtaken, failures>>

(* SUM(total_size) over the account's rows: a part is one unit, so what    *)
(* the rows add up to is the number of their parts.                        *)
Units == UNION {{i} \X Numbers(row[i].file) : i \in {j \in Ids : row[j] # None}}
Reserved == Cardinality(Units)

(* quota.saturating_sub(total_size): nothing may be reserved yet when the  *)
(* file alone is longer than the quota, but then it is let in.             *)
Room(f) == IF Length(f) > Quota THEN 0 ELSE Quota - Length(f)

CreateReserve(h) ==
  /\ pc[h] = "reserve"
  /\ ~Locked(UserRow)
  /\ IF Reserved > Room(request[h].file)
     THEN Answer(h)  \* ApiError::QuotaExceeded
     ELSE Goto(h, "insert") /\ holds' = [holds EXCEPT ![h] = UserRow]
  /\ UNCHANGED <<database, disk, expired, overtaken, failures>>

(* ON CONFLICT DO NOTHING: a row inserted since the lookup stays.          *)
CreateInsert(h) ==
  LET i == Id(h) IN
  /\ pc[h] = "insert"
  /\ IF row[i] = None
     THEN /\ row' = [row EXCEPT ![i] = [file |-> request[h].file, status |-> "uploading"]]
          /\ overtaken' = IF Removing(i) THEN overtaken \union {i} ELSE overtaken
     ELSE UNCHANGED <<row, overtaken>>
  /\ Answer(h)
  /\ UNCHANGED <<part, stale, disk, expired, failures>>
-----------------------------------------------------------------------------
(* upload_part: touch the row, which locks it; put the file in place;      *)
(* record the part and commit. (Faulty variant: the file comes after.)     *)
RecordFirst == "record part"
Touched == "write part"

PartTouch(h) ==
  LET i == Id(h) IN
  /\ pc[h] = "upload part"
  /\ ~Locked(i)
  /\ IF /\ row[i] # None /\ row[i].status = "uploading"
        /\ request[h].number \in Numbers(row[i].file)
     THEN Goto(h, Touched) /\ holds' = [holds EXCEPT ![h] = i]
     ELSE Answer(h)  \* ApiError::NotFound or Validation
  /\ UNCHANGED <<database, disk, expired, overtaken, failures>>

PartWrite(h) ==
  /\ pc[h] = "write part"
  /\ partFile' = [partFile EXCEPT ![Id(h)][request[h].number] = request[h].file]
  /\ Goto(h, "record part")
  /\ UNCHANGED <<database, assembled, object, holds, expired, overtaken, failures>>

PartRecord(h) ==
  LET i == Id(h) IN
  /\ pc[h] = "record part"
  /\ part' = [part EXCEPT ![i] = @ \union {request[h].number}]
  /\ stale' = stale \ {i}
  /\ Answer(h)
  /\ UNCHANGED <<row, disk, expired, overtaken, failures>>
-----------------------------------------------------------------------------
(* complete: under the row's lock, put the parts together, compare the     *)
(* hash, rename the result to the object and commit; then remove the parts.*)
(* (Faulty variant: commit before the file has its name.)                  *)
CommitFirst == "record"
Assembled == "rename"

(* (Faulty variant: some parts will do.)                                   *)
SomeRecorded(i) == part[i] # {}
AllRecorded(i) == part[i] = Numbers(row[i].file)

CompleteCheck(h) ==
  LET i == Id(h) IN
  /\ pc[h] = "complete"
  /\ ~Locked(i)
  /\ IF row[i] # None /\ row[i].status = "uploading" /\ AllRecorded(i)
     THEN Goto(h, "assemble") /\ holds' = [holds EXCEPT ![h] = i]
     ELSE Answer(h)  \* NotFound, the status of a complete row, or Validation
  /\ UNCHANGED <<database, disk, expired, overtaken, failures>>

(* What the part files of row[i] add up to: the file of the row, another   *)
(* one, or nothing when a part file is missing. The tmp file stays then.   *)
Assembly(i) ==
  LET stored == {partFile[i][n] : n \in Numbers(row[i].file)} IN
  IF None \in stored THEN None
  ELSE IF stored = {row[i].file} THEN row[i].file ELSE "other"

CompleteAssemble(h) ==
  LET i == Id(h) IN
  /\ pc[h] = "assemble"
  /\ CASE Assembly(i) = None ->
            Answer(h) /\ assembled' = [assembled EXCEPT ![i] = "other"]  \* Internal
       [] Assembly(i) = "other" ->
            Answer(h) /\ assembled' = [assembled EXCEPT ![i] = None]     \* Validation
       [] Assembly(i) = row[i].file ->
            /\ assembled' = [assembled EXCEPT ![i] = row[i].file]
            /\ Goto(h, Assembled) /\ UNCHANGED holds
  /\ UNCHANGED <<database, partFile, object, expired, overtaken, failures>>

CompleteRename(h) ==
  LET i == Id(h) IN
  /\ pc[h] = "rename"
  /\ IF assembled[i] = None
     THEN Answer(h) /\ UNCHANGED disk                               \* Internal
     ELSE /\ object' = [object EXCEPT ![i] = assembled[i]]
          /\ assembled' = [assembled EXCEPT ![i] = None]
          /\ Goto(h, "record") /\ UNCHANGED <<partFile, holds>>
  /\ UNCHANGED <<database, expired, overtaken, failures>>

CompleteRecord(h) ==
  LET i == Id(h) IN
  /\ pc[h] = "record"
  /\ row' = [row EXCEPT ![i].status = "complete"]
  /\ stale' = stale \ {i}
  /\ holds' = [holds EXCEPT ![h] = None]
  /\ Goto(h, "sweep")
  /\ UNCHANGED <<part, disk, expired, overtaken, failures>>

CompleteSweep(h) ==
  /\ pc[h] = "sweep"
  /\ partFile' = [partFile EXCEPT ![Id(h)] = NoParts]
  /\ Answer(h)
  /\ UNCHANGED <<database, assembled, object, expired, overtaken, failures>>
-----------------------------------------------------------------------------
(* delete: the row first, in a transaction of its own, then its files. The *)
(* rows of the parts go with it. (Faulty variant: they stay.)              *)

DroppedAlone(gone) ==
  /\ row' = [i \in Ids |-> IF i \in gone THEN None ELSE row[i]]
  /\ stale' = stale \ gone
  /\ overtaken' = overtaken \ gone
  /\ UNCHANGED part
Dropped(gone) ==
  /\ row' = [i \in Ids |-> IF i \in gone THEN None ELSE row[i]]
  /\ part' = [i \in Ids |-> IF i \in gone THEN {} ELSE part[i]]
  /\ stale' = stale \ gone
  /\ overtaken' = overtaken \ gone

DeleteRow(h) ==
  LET i == Id(h) IN
  /\ pc[h] = "delete"
  /\ ~Locked(i)
  /\ IF row[i] = None
     THEN Answer(h) /\ UNCHANGED <<database, overtaken>>              \* NotFound
     ELSE Dropped({i}) /\ Goto(h, "remove parts") /\ UNCHANGED holds
  /\ UNCHANGED <<disk, expired, failures>>

(* remove_attachment_files: three calls, one after the other; one that     *)
(* fails is logged and the next is made.                                   *)
Remove(i, removal) ==
  \/ /\ partFile' = IF removal = "remove parts"
                    THEN [partFile EXCEPT ![i] = NoParts] ELSE partFile
     /\ object' = IF removal = "remove object"
                  THEN [object EXCEPT ![i] = None] ELSE object
     /\ assembled' = IF removal = "remove assembled"
                     THEN [assembled EXCEPT ![i] = None] ELSE assembled
     /\ UNCHANGED failures
  \/ Failure /\ UNCHANGED disk

(* (Faulty variant: the tmp file is forgotten.)                            *)
AfterPartsOnly(removal) == IF removal = "remove parts" THEN "remove object" ELSE None
After(removal) ==
  CASE removal = "remove parts" -> "remove object"
    [] removal = "remove object" -> "remove assembled"
    [] removal = "remove assembled" -> None

DeleteFiles(h) ==
  /\ pc[h] \in Removals
  /\ Remove(Id(h), pc[h])
  /\ IF After(pc[h]) = None THEN Answer(h)
     ELSE Goto(h, After(pc[h])) /\ UNCHANGED holds
  /\ UNCHANGED <<database, expired, overtaken>>
-----------------------------------------------------------------------------
(* The cleanup task: a tick deletes the rows of every stale upload, waiting*)
(* for the locks on them, then removes the files identifier by identifier. *)
(* (Faulty variant: whatever is old is taken for abandoned.)               *)
Old == stale
Abandoned == {i \in stale : row[i].status = "uploading"}

CleanupRows ==
  /\ \A i \in Ids : expired[i] = None
  /\ Abandoned # {}
  /\ \A i \in Abandoned : ~Locked(i)
  /\ Dropped(Abandoned)
  /\ expired' = [i \in Ids |-> IF i \in Abandoned THEN "remove parts" ELSE None]
  /\ UNCHANGED <<disk, pc, request, holds, failures>>

CleanupFiles ==
  /\ \E i \in Ids :
       /\ expired[i] # None
       /\ \A j \in Ids \ {i} : expired[j] \in {None, "remove parts"}
       /\ Remove(i, expired[i])
       /\ expired' = [expired EXCEPT ![i] = After(@)]
  /\ UNCHANGED <<database, pc, request, holds, overtaken>>

(* The TTL passes without a part being uploaded.                           *)
Age ==
  /\ \E i \in Ids :
       /\ row[i] # None /\ i \notin stale
       /\ stale' = stale \union {i}
  /\ UNCHANGED <<row, part, disk, pc, request, holds, expired, overtaken, failures>>
-----------------------------------------------------------------------------
(* A handler's future is dropped or one of its calls fails: its            *)
(* transaction is rolled back and what it did to the files stays. When the *)
(* process stops, all handlers and the cleanup do.                         *)

Fail(h) ==
  /\ pc[h] # "idle"
  /\ Answer(h)
  /\ Failure
  /\ UNCHANGED <<database, disk, expired, overtaken>>

Crash ==
  /\ pc' = [h \in Handlers |-> "idle"]
  /\ request' = [h \in Handlers |-> NoRequest]
  /\ holds' = [h \in Handlers |-> None]
  /\ expired' = [i \in Ids |-> None]
  /\ Failure
  /\ UNCHANGED <<database, disk, overtaken>>

Step(h) ==
  \/ CreateLookup(h) \/ CreateReserve(h) \/ CreateInsert(h)
  \/ PartTouch(h) \/ PartWrite(h) \/ PartRecord(h)
  \/ CompleteCheck(h) \/ CompleteAssemble(h) \/ CompleteRename(h)
  \/ CompleteRecord(h) \/ CompleteSweep(h)
  \/ DeleteRow(h) \/ DeleteFiles(h)

Next ==
  \/ \E h \in Handlers : Receive(h) \/ Step(h) \/ Fail(h)
  \/ CleanupRows \/ CleanupFiles \/ Age \/ Crash

Spec == Init /\ [][Next]_vars
-----------------------------------------------------------------------------
(* create reserves under the lock of the user's row: whatever uploads start*)
(* at the same time, the account's rows never add up to more than its      *)
(* quota, but for one row: the file an account without rows begins with may*)
(* be longer than the quota, and then it stays the only one.               *)
OnlyRow(i) == row[i] # None /\ \A j \in Ids \ {i} : row[j] = None
QuotaHeld == Reserved <= Quota \/ \E i \in Ids : OnlyRow(i)

(* A row says complete only while the object file exists and is the file   *)
(* whose hash the row promises, wherever a handler or the server stopped   *)
(* half-way. Only a row created while the files of an earlier row of the   *)
(* identifier were still being removed is not safe: the removal goes on to *)
(* take the files of the new one.                                          *)
CompleteHasObject ==
  \A i \in Ids \ overtaken :
    row[i] # None /\ row[i].status = "complete" => object[i] = row[i].file

(* A part that has a row, and that a resumed upload will therefore not     *)
(* send again, has its file, with the same exception.                      *)
PartsHaveFiles ==
  \A i \in Ids \ overtaken :
    row[i] # None /\ row[i].status = "uploading" =>
      \A n \in part[i] : partFile[i][n] # None

(* Unless something failed, an identifier without a row, and with no       *)
(* removal going on, has no file left in the object directory.             *)
NothingLeftBehind ==
  \A i \in Ids :
    row[i] = None /\ ~Removing(i) /\ failures = 0 =>
      partFile[i] = NoParts /\ assembled[i] = None /\ object[i] = None

(* A complete upload is final: only a request to delete it takes it away;  *)
(* no late part, no second `complete` and no cleanup changes its row.      *)
CompleteStays ==
  [][\A i \in Ids :
       row[i] # None /\ row[i].status = "complete" =>
         \/ row'[i] = row[i] /\ part'[i] = part[i]
         \/ \E h \in Handlers : pc[h] = "delete" /\ Id(h) = i]_vars

(* The committed rows change as UploadContract says, whatever statements of*)
(* other handlers and of the cleanup fall between those of a handler: what *)
(* `upload_part` and `complete` have checked still holds when they commit, *)
(* though files, parts and status change at different times.               *)
Committed ==
  [i \in Ids |->
     IF row[i] = None THEN None
     ELSE [file |-> row[i].file, status |-> row[i].status, parts |-> part[i]]]
Contract == INSTANCE UploadContract WITH upload <- Committed
ImplementsUploads == Contract!Spec
=============================================================================
