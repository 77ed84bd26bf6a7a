------------------------ MODULE AttachmentStoreProofs ------------------------
(***************************************************************************)
(* Theorems of AttachmentStore, for any number of handlers, identifiers,   *)
(* files and failures: its type invariant, that a row never promises files *)
(* that are not there, that a complete upload is final, and that nothing   *)
(* is left behind when nothing fails.                                      *)
(***************************************************************************)
EXTENDS AttachmentStore, FiniteSetTheorems, TLAPS

(* A handler carries the request its step is part of.                      *)
RequestInv(h) ==
  /\ pc[h] \in {"create", "reserve", "insert"} =>
       request[h] \in [op : {"create"}, file : Files]
  /\ pc[h] \in {"upload part", "write part", "record part"} =>
       request[h] \in [op : {"upload part"}, file : Files, number : Number]
  /\ pc[h] \in {"complete", "assemble", "rename", "record", "sweep", "delete"} \union Removals =>
       request[h] \in [op : {"complete", "delete"}, id : Ids]

(* A transaction that has locked its row finds it uploading at every later *)
(* step, and, unless the row is overtaken, the files it has put in place.  *)
Locking == {"write part", "record part", "assemble", "rename", "record"}
LockInv(h) ==
  LET i == Id(h) IN
  pc[h] \in Locking =>
    /\ holds[h] = i /\ row[i] # None /\ row[i].status = "uploading"
    /\ pc[h] = "rename" => assembled[i] \in {row[i].file, None}
    /\ i \notin overtaken =>
         /\ pc[h] = "record part" => partFile[i][request[h].number] # None
         /\ pc[h] = "rename" => assembled[i] = row[i].file
         /\ pc[h] = "record" => object[i] = row[i].file

(* What a handler removes without a lock is no longer needed, or belongs   *)
(* to an overtaken row.                                                    *)
Gone(i) == row[i] = None \/ i \in overtaken
RemovalInv(h) ==
  LET i == Id(h) IN
  /\ pc[h] \in Removals => Gone(i)
  /\ pc[h] = "sweep" => Gone(i) \/ row[i].status = "complete"

HandlerInv(h) == RequestInv(h) /\ LockInv(h) /\ RemovalInv(h)

Exclusive == \A g, h \in Handlers : holds[g] = holds[h] /\ holds[h] # None => g = h

(* Somebody will still remove the files of i, from `removal` on.           *)
Removes(i, removals) ==
  \/ expired[i] \in removals
  \/ \E h \in Handlers : pc[h] \in removals /\ Id(h) = i

LeftInv(i) ==
  row[i] = None /\ failures = 0 =>
    /\ partFile[i] # NoParts => Removes(i, {"remove parts", "sweep"})
    /\ object[i] # None => Removes(i, {"remove parts", "remove object"})
    /\ assembled[i] # None => Removes(i, Removals)

IdInv(i) == LeftInv(i) /\ (expired[i] # None => Gone(i))

IInv ==
  /\ TypeOK /\ CompleteHasObject /\ PartsHaveFiles
  /\ \A h \in Handlers : HandlerInv(h)
  /\ Exclusive
  /\ \A i \in Ids : IdInv(i)
-----------------------------------------------------------------------------
(* What the types say of a request, a row and a stored file.               *)
LEMMA NotNone ==
  /\ \A i \in Ids : i # None
  /\ \A f \in Files : f # None /\ Name(f) \in Ids
  /\ \A r \in Row : r # None
  /\ \A p \in Removals \union {"sweep", "other"} : p # None
BY StoreAssumption DEF Pc

LEMMA IdTyped ==
  ASSUME NEW h \in Handlers, RequestInv(h), pc \in [Handlers -> Pc], pc[h] # "idle"
  PROVE  /\ Id(h) \in Ids
         /\ pc[h] \in {"create", "reserve", "insert", "upload part", "write part", "record part"} =>
              request[h].file \in Files
         /\ pc[h] \in {"upload part", "write part", "record part"} =>
              request[h].number \in Number
<1>1. CASE pc[h] \in {"create", "reserve", "insert"}
  BY <1>1, StoreAssumption DEF RequestInv, Id, Removals
<1>2. CASE pc[h] \in {"upload part", "write part", "record part"}
  BY <1>2, StoreAssumption DEF RequestInv, Id, Removals
<1>3. CASE pc[h] \in {"complete", "assemble", "rename", "record", "sweep", "delete"} \union Removals
  BY <1>3 DEF RequestInv, Id, Removals
<1> QED
  BY <1>1, <1>2, <1>3 DEF Pc
-----------------------------------------------------------------------------
(* A handler whose control stays keeps its invariant when no other step    *)
(* takes away what its lock promises or brings back what it removes.       *)
Same(g) == pc'[g] = pc[g] /\ request'[g] = request[g] /\ holds'[g] = holds[g]
SameDisk(i) == partFile'[i] = partFile[i] /\ assembled'[i] = assembled[i] /\ object'[i] = object[i]

LEMMA Bystander ==
  ASSUME NEW g, NEW i, i = Id(g), HandlerInv(g), Same(g),
         pc[g] \in Locking =>
           /\ row'[i] = row[i]
           /\ i \in overtaken => i \in overtaken'
           /\ SameDisk(i) \/ (i \in overtaken /\ assembled'[i] \in {assembled[i], None}),
         pc[g] \in Removals \union {"sweep"} /\ Gone(i) => Gone(i)',
         pc[g] = "sweep" /\ ~Gone(i) => Gone(i)' \/ row'[i].status = "complete"
  PROVE  HandlerInv(g)'
<1>1. Id(g)' = Id(g)
  BY DEF Same, Id
<1>2. RequestInv(g)'
  BY DEF HandlerInv, RequestInv, Same
<1>3. LockInv(g)'
  BY <1>1 DEF HandlerInv, LockInv, Same, SameDisk
<1>4. RemovalInv(g)'
  BY <1>1 DEF HandlerInv, RemovalInv, Gone, Same
<1> QED
  BY <1>2, <1>3, <1>4 DEF HandlerInv

LEMMA RemovesStays ==
  ASSUME NEW i, NEW removals, Removes(i, removals),
         expired[i] \in removals => expired'[i] = expired[i],
         \A g \in Handlers : pc[g] \in removals /\ Id(g) = i => Same(g)
  PROVE  Removes(i, removals)'
<1>1. CASE expired[i] \in removals
  BY <1>1 DEF Removes
<1>2. ASSUME NEW g \in Handlers, pc[g] \in removals, Id(g) = i
      PROVE  Removes(i, removals)'
  BY <1>2 DEF Removes, Same, Id
<1> QED
  BY <1>1, <1>2 DEF Removes

(* The files of an identifier that has none, with whoever removes them.    *)
LEMMA LeftStays ==
  ASSUME NEW i, LeftInv(i), expired'[i] = expired[i],
         \A g \in Handlers : pc[g] \in Removals \union {"sweep"} /\ Id(g) = i => Same(g),
         row'[i] = None => row[i] = None /\ SameDisk(i),
         failures' = 0 => failures = 0
  PROVE  LeftInv(i)'
<1> SUFFICES ASSUME row'[i] = None, failures' = 0
             PROVE  /\ partFile[i] # NoParts => Removes(i, {"remove parts", "sweep"})'
                    /\ object[i] # None => Removes(i, {"remove parts", "remove object"})'
                    /\ assembled[i] # None => Removes(i, Removals)'
  BY DEF LeftInv, SameDisk, NoParts, Removals
<1>1. ASSUME NEW removals, Removes(i, removals), removals \subseteq Removals \union {"sweep"}
      PROVE  Removes(i, removals)'
  BY <1>1, RemovesStays
<1> QED
  BY <1>1 DEF LeftInv, Removals
-----------------------------------------------------------------------------
(* Steps that change a handler's control only.                             *)
Stays == UNCHANGED <<database, disk, expired, overtaken>>

LEMMA HandlerMoves ==
  ASSUME IInv, Stays, NEW h \in Handlers, \A g \in Handlers : g # h => Same(g),
         pc' \in [Handlers -> Pc], request' \in [Handlers -> Request],
         holds' \in [Handlers -> Ids \union {UserRow, None}],
         holds'[h] = None \/ \A g \in Handlers : g # h => holds[g] # holds'[h],
         HandlerInv(h)',
         failures' \in 0 .. MaxFailures,
         (failures' = failures /\ pc[h] \notin Removals \union {"sweep"}) \/ failures' # 0
  PROVE  IInv'
<1>1. TypeOK' /\ CompleteHasObject' /\ PartsHaveFiles'
  BY DEF IInv, TypeOK, CompleteHasObject, PartsHaveFiles, Stays, database, disk
<1>2. ASSUME NEW g \in Handlers
      PROVE  HandlerInv(g)'
  <2>1. CASE g = h
    BY <2>1
  <2>2. CASE g # h
    <3> DEFINE i == Id(g)
    <3>1. HandlerInv(g) /\ Same(g) /\ SameDisk(i) /\ row' = row /\ overtaken' = overtaken
      BY <2>2 DEF IInv, Stays, database, disk, SameDisk
    <3>2. pc[g] = "sweep" /\ ~Gone(i) => row[i].status = "complete"
      BY <3>1 DEF HandlerInv, RemovalInv
    <3>3. i = Id(g)
      OBVIOUS
    <3> HIDE DEF i
    <3> QED
      BY <3>1, <3>2, <3>3, Bystander DEF Gone
  <2> QED
    BY <2>1, <2>2
<1>3. Exclusive'
  BY DEF IInv, Exclusive, Same
<1>4. ASSUME NEW i \in Ids
      PROVE  IdInv(i)'
  <2>1. CASE failures' # 0
    BY <2>1 DEF IInv, IdInv, LeftInv, Gone, Stays, database
  <2>2. CASE failures' = failures /\ pc[h] \notin Removals \union {"sweep"}
    <3>1. LeftInv(i)'
      BY <2>2, LeftStays DEF IInv, IdInv, SameDisk, Stays, database, disk
    <3> QED
      BY <3>1 DEF IInv, IdInv, Gone, Stays, database
  <2> QED
    BY <2>1, <2>2
<1> QED
  BY <1>1, <1>2, <1>3, <1>4 DEF IInv

(* Answering, whatever the step.                                           *)
LEMMA AnswerFacts ==
  ASSUME TypeOK, NEW h \in Handlers, Answer(h)
  PROVE  /\ \A g \in Handlers : g # h => Same(g)
         /\ pc' \in [Handlers -> Pc] /\ request' \in [Handlers -> Request]
         /\ holds' \in [Handlers -> Ids \union {UserRow, None}]
         /\ pc'[h] = "idle" /\ holds'[h] = None
         /\ HandlerInv(h)'
<1>1. /\ \A g \in Handlers : g # h => Same(g)
      /\ pc' \in [Handlers -> Pc] /\ request' \in [Handlers -> Request]
      /\ holds' \in [Handlers -> Ids \union {UserRow, None}]
      /\ pc'[h] = "idle" /\ holds'[h] = None
  BY DEF TypeOK, Answer, Same, Pc, Request
<1>2. HandlerInv(h)'
  BY <1>1 DEF HandlerInv, RequestInv, LockInv, RemovalInv, Locking, Removals
<1> QED
  BY <1>1, <1>2

LEMMA GotoFacts ==
  ASSUME TypeOK, NEW h \in Handlers, NEW p \in Pc, Goto(h, p), NEW l,
         l \in Ids \union {UserRow, None},
         holds' = [holds EXCEPT ![h] = l]
  PROVE  /\ \A g \in Handlers : g # h => Same(g)
         /\ pc' \in [Handlers -> Pc] /\ request' \in [Handlers -> Request]
         /\ holds' \in [Handlers -> Ids \union {UserRow, None}]
         /\ pc'[h] = p /\ request'[h] = request[h] /\ holds'[h] = l
         /\ Id(h)' = Id(h)
BY DEF TypeOK, Goto, Same, Id

LEMMA AnswerKeeps ==
  ASSUME IInv, NEW h \in Handlers, Answer(h), Stays, UNCHANGED failures,
         pc[h] \notin Removals \union {"sweep"}
  PROVE  IInv'
<1>1. failures' \in 0 .. MaxFailures
  BY DEF IInv, TypeOK
<1> QED
  BY <1>1, AnswerFacts, HandlerMoves DEF IInv
-----------------------------------------------------------------------------
(* The steps that only receive, answer, look up or lock.                   *)
LEMMA ReceiveKeeps ==
  ASSUME IInv, NEW h \in Handlers, Receive(h)
  PROVE  IInv'
<1>1. PICK r \in Asked : /\ request' = [request EXCEPT ![h] = r]
                         /\ pc' = [pc EXCEPT ![h] = r.op]
  BY DEF Receive
<1>2. /\ pc[h] = "idle" /\ Stays /\ UNCHANGED holds /\ failures' = failures
      /\ failures \in 0 .. MaxFailures /\ pc[h] \notin Removals \union {"sweep"}
  BY DEF Receive, Stays, IInv, TypeOK, Removals
<1>3. /\ r \in Request /\ r.op \in {"create", "upload part", "complete", "delete"}
      /\ r.op = "create" => r \in [op : {"create"}, file : Files]
      /\ r.op = "upload part" => r \in [op : {"upload part"}, file : Files, number : Number]
      /\ r.op \in {"complete", "delete"} => r \in [op : {"complete", "delete"}, id : Ids]
  BY StoreAssumption DEF Request
<1> DEFINE o == r.op
<1>4. /\ o \in {"create", "upload part", "complete", "delete"}
      /\ pc' = [pc EXCEPT ![h] = o] /\ request' = [request EXCEPT ![h] = r]
      /\ o = "create" => r \in [op : {"create"}, file : Files]
      /\ o = "upload part" => r \in [op : {"upload part"}, file : Files, number : Number]
      /\ o \in {"complete", "delete"} => r \in [op : {"complete", "delete"}, id : Ids]
  BY <1>1, <1>3
<1> HIDE DEF o
<1>5. /\ \A g \in Handlers : g # h => Same(g)
      /\ pc' \in [Handlers -> Pc] /\ request' \in [Handlers -> Request]
      /\ holds' \in [Handlers -> Ids \union {UserRow, None}]
      /\ pc'[h] = o /\ request'[h] = r
  <2>1. o \in Pc /\ r \in Request
    BY <1>3, <1>4 DEF Pc
  <2>2. /\ pc \in [Handlers -> Pc] /\ request \in [Handlers -> Request]
        /\ holds \in [Handlers -> Ids \union {UserRow, None}] /\ holds' = holds
    BY <1>2 DEF IInv, TypeOK
  <2> QED
    BY <1>4, <2>1, <2>2 DEF Same
<1>6. RequestInv(h)'
  BY <1>4, <1>5 DEF RequestInv, Removals
<1>7. LockInv(h)' /\ RemovalInv(h)'
  BY <1>4, <1>5 DEF LockInv, RemovalInv, Locking, Removals
<1>8. HandlerInv(h)'
  BY <1>6, <1>7 DEF HandlerInv
<1>9. Exclusive /\ (holds'[h] = None \/ \A g \in Handlers : g # h => holds[g] # holds'[h])
  BY <1>2 DEF IInv, Exclusive
<1> QED
  BY <1>2, <1>5, <1>8, <1>9, HandlerMoves

LEMMA CreateLookupKeeps ==
  ASSUME IInv, NEW h \in Handlers, CreateLookup(h)
  PROVE  IInv'
<1>1. /\ pc[h] = "create" /\ Stays /\ failures' = failures
      /\ failures \in 0 .. MaxFailures /\ pc[h] \notin Removals \union {"sweep"}
  BY DEF CreateLookup, Stays, IInv, TypeOK, Removals
<1>2. CASE Answer(h)
  BY <1>1, <1>2, AnswerKeeps
<1>3. CASE Goto(h, "reserve") /\ UNCHANGED holds
  <2>1. holds' = [holds EXCEPT ![h] = holds[h]] /\ holds[h] \in Ids \union {UserRow, None}
    BY <1>3 DEF IInv, TypeOK
  <2>2. "reserve" \in Pc
    BY DEF Pc
  <2>3. /\ \A g \in Handlers : g # h => Same(g)
        /\ pc' \in [Handlers -> Pc] /\ request' \in [Handlers -> Request]
        /\ holds' \in [Handlers -> Ids \union {UserRow, None}]
        /\ pc'[h] = "reserve" /\ request'[h] = request[h] /\ holds'[h] = holds[h]
    BY <1>3, <2>1, <2>2, GotoFacts DEF IInv
  <2>4. HandlerInv(h)'
    BY <1>1, <2>3 DEF IInv, HandlerInv, RequestInv, LockInv, RemovalInv, Locking, Removals
  <2>5. holds'[h] = None \/ \A g \in Handlers : g # h => holds[g] # holds'[h]
    BY <2>3 DEF IInv, Exclusive
  <2> QED
    BY <1>1, <2>3, <2>4, <2>5, HandlerMoves
<1> QED
  BY <1>2, <1>3 DEF CreateLookup

LEMMA CreateReserveKeeps ==
  ASSUME IInv, NEW h \in Handlers, CreateReserve(h)
  PROVE  IInv'
<1>1. /\ pc[h] = "reserve" /\ Stays /\ failures' = failures
      /\ failures \in 0 .. MaxFailures /\ pc[h] \notin Removals \union {"sweep"}
  BY DEF CreateReserve, Stays, IInv, TypeOK, Removals
<1>2. CASE Answer(h)
  BY <1>1, <1>2, AnswerKeeps
<1>3. CASE Goto(h, "insert") /\ holds' = [holds EXCEPT ![h] = UserRow]
  <2>1. "insert" \in Pc
    BY DEF Pc
  <2>2. /\ \A g \in Handlers : g # h => Same(g)
        /\ pc' \in [Handlers -> Pc] /\ request' \in [Handlers -> Request]
        /\ holds' \in [Handlers -> Ids \union {UserRow, None}]
        /\ pc'[h] = "insert" /\ request'[h] = request[h] /\ holds'[h] = UserRow
    BY <1>3, <2>1, GotoFacts DEF IInv
  <2>3. HandlerInv(h)'
    BY <1>1, <2>2 DEF IInv, HandlerInv, RequestInv, LockInv, RemovalInv, Locking, Removals
  <2>4. \A g \in Handlers : holds[g] # UserRow
    BY DEF CreateReserve, Locked
  <2> QED
    BY <1>1, <2>2, <2>3, <2>4, HandlerMoves
<1> QED
  BY <1>2, <1>3 DEF CreateReserve

(* A transaction takes the lock of an uploading row.                       *)
LEMMA LockKeeps ==
  ASSUME IInv, NEW h \in Handlers, NEW p \in {"write part", "assemble"},
         pc[h] = (IF p = "write part" THEN "upload part" ELSE "complete"),
         Goto(h, p), holds' = [holds EXCEPT ![h] = Id(h)], ~Locked(Id(h)),
         row[Id(h)] # None, row[Id(h)].status = "uploading", Stays, UNCHANGED failures
  PROVE  IInv'
<1>1. p \in Pc /\ pc[h] \in {"upload part", "complete"}
  BY DEF Pc
<1>2. Id(h) \in Ids
  BY <1>1, IdTyped DEF IInv, HandlerInv, TypeOK
<1>3. /\ \A g \in Handlers : g # h => Same(g)
      /\ pc' \in [Handlers -> Pc] /\ request' \in [Handlers -> Request]
      /\ holds' \in [Handlers -> Ids \union {UserRow, None}]
      /\ pc'[h] = p /\ request'[h] = request[h] /\ holds'[h] = Id(h) /\ Id(h)' = Id(h)
  BY <1>1, <1>2, GotoFacts DEF IInv
<1>4. RequestInv(h)'
  BY <1>3 DEF IInv, HandlerInv, RequestInv, Removals
<1>5. LockInv(h)' /\ RemovalInv(h)'
  BY <1>3 DEF LockInv, RemovalInv, Removals, Stays, database
<1>6. \A g \in Handlers : holds[g] # Id(h)
  BY DEF Locked
<1>7. failures' \in 0 .. MaxFailures /\ pc[h] \notin Removals \union {"sweep"}
  BY <1>1 DEF IInv, TypeOK, Removals
<1> QED
  BY <1>3, <1>4, <1>5, <1>6, <1>7, HandlerMoves DEF HandlerInv

LEMMA PartTouchKeeps ==
  ASSUME IInv, NEW h \in Handlers, PartTouch(h)
  PROVE  IInv'
<1>1. pc[h] = "upload part" /\ Stays /\ UNCHANGED failures /\ pc[h] \notin Removals \union {"sweep"}
  BY DEF PartTouch, Stays, Removals
<1>2. CASE Answer(h)
  BY <1>1, <1>2, AnswerKeeps
<1>3. CASE ~Answer(h)
  <2>1. /\ Goto(h, "write part") /\ holds' = [holds EXCEPT ![h] = Id(h)] /\ ~Locked(Id(h))
        /\ row[Id(h)] # None /\ row[Id(h)].status = "uploading"
    BY <1>3 DEF PartTouch, Touched
  <2> QED
    BY <1>1, <2>1, LockKeeps
<1> QED
  BY <1>2, <1>3

LEMMA CompleteCheckKeeps ==
  ASSUME IInv, NEW h \in Handlers, CompleteCheck(h)
  PROVE  IInv'
<1>1. pc[h] = "complete" /\ Stays /\ UNCHANGED failures /\ pc[h] \notin Removals \union {"sweep"}
  BY DEF CompleteCheck, Stays, Removals
<1>2. CASE Answer(h)
  BY <1>1, <1>2, AnswerKeeps
<1>3. CASE ~Answer(h)
  <2>1. /\ Goto(h, "assemble") /\ holds' = [holds EXCEPT ![h] = Id(h)] /\ ~Locked(Id(h))
        /\ row[Id(h)] # None /\ row[Id(h)].status = "uploading"
    BY <1>3 DEF CompleteCheck
  <2> QED
    BY <1>1, <2>1, LockKeeps
<1> QED
  BY <1>2, <1>3

LEMMA FailKeeps ==
  ASSUME IInv, NEW h \in Handlers, Fail(h)
  PROVE  IInv'
<1>1. Answer(h) /\ Stays /\ failures' # 0 /\ failures' \in 0 .. MaxFailures
  BY StoreAssumption DEF Fail, Failure, Stays, IInv, TypeOK
<1> QED
  BY <1>1, AnswerFacts, HandlerMoves DEF IInv
-----------------------------------------------------------------------------
(* The steps of a transaction that holds the lock of its attachment's row. *)
LEMMA LockFacts ==
  ASSUME IInv, NEW h \in Handlers, pc[h] \in Locking
  PROVE  /\ Id(h) \in Ids /\ holds[h] = Id(h)
         /\ row[Id(h)] # None /\ row[Id(h)] \in Row /\ row[Id(h)].status = "uploading"
         /\ \A g \in Handlers : g # h => holds[g] # Id(h)
         /\ \A g \in Handlers : g # h /\ pc[g] \in Locking => Id(g) # Id(h)
         /\ LockInv(h)
<1>1. HandlerInv(h) /\ pc \in [Handlers -> Pc] /\ pc[h] # "idle"
  BY DEF IInv, TypeOK, Locking
<1>2. Id(h) \in Ids
  BY <1>1, IdTyped DEF HandlerInv
<1>3. /\ holds[h] = Id(h) /\ row[Id(h)] # None /\ row[Id(h)].status = "uploading"
      /\ LockInv(h)
  BY <1>1 DEF HandlerInv, LockInv
<1>4. row[Id(h)] \in Row /\ Id(h) # None
  BY <1>2, <1>3, NotNone DEF IInv, TypeOK
<1>5. \A g \in Handlers : g # h => holds[g] # Id(h)
  BY <1>3, <1>4 DEF IInv, Exclusive
<1>6. \A g \in Handlers : g # h /\ pc[g] \in Locking => Id(g) # Id(h)
  BY <1>5 DEF IInv, HandlerInv, LockInv
<1> QED
  BY <1>2, <1>3, <1>4, <1>5, <1>6

LEMMA LockedStep ==
  ASSUME IInv, NEW h \in Handlers, NEW i, i = Id(h), pc[h] \in Locking,
         TypeOK', HandlerInv(h)', \A g \in Handlers : g # h => Same(g),
         holds'[h] \in {holds[h], None},
         row'[i] # None,
         \A j \in Ids : j # i => row'[j] = row[j] /\ part'[j] = part[j] /\ SameDisk(j),
         overtaken' = overtaken, expired' = expired, failures' = failures,
         i \notin overtaken =>
           /\ row'[i].status = "complete" => object'[i] = row'[i].file
           /\ row'[i].status = "uploading" => \A n \in part'[i] : partFile'[i][n] # None
  PROVE  IInv'
<1>1. /\ i \in Ids /\ row[i] # None /\ row[i].status = "uploading"
      /\ \A g \in Handlers : g # h /\ pc[g] \in Locking => Id(g) # i
  BY LockFacts
<1>2. CompleteHasObject' /\ PartsHaveFiles'
  <2>1. ASSUME NEW j \in Ids, j \notin overtaken, row'[j] # None
        PROVE  /\ row'[j].status = "complete" => object'[j] = row'[j].file
               /\ row'[j].status = "uploading" => \A n \in part'[j] : partFile'[j][n] # None
    <3>1. CASE j = i
      BY <2>1, <3>1
    <3>2. CASE j # i
      BY <2>1, <3>2 DEF IInv, CompleteHasObject, PartsHaveFiles, SameDisk
    <3> QED
      BY <3>1, <3>2
  <2> QED
    BY <2>1 DEF CompleteHasObject, PartsHaveFiles
<1>3. ASSUME NEW g \in Handlers
      PROVE  HandlerInv(g)'
  <2>1. CASE g = h
    BY <2>1
  <2>2. CASE g # h
    <3> PICK j : j = Id(g)
      OBVIOUS
    <3>1. HandlerInv(g) /\ Same(g) /\ pc \in [Handlers -> Pc]
      BY <2>2 DEF IInv, TypeOK
    <3>2. pc[g] # "idle" => j \in Ids
      BY <3>1, IdTyped DEF HandlerInv
    <3>4. pc[g] \in Locking => j # i
      BY <1>1, <2>2
    <3>5. pc[g] = "sweep" => Gone(j) \/ row[j].status = "complete"
      BY <3>1 DEF HandlerInv, RemovalInv
    <3>6. pc[g] \in Locking => row'[j] = row[j] /\ SameDisk(j)
      BY <3>2, <3>4 DEF Locking
    <3>7. pc[g] \in Removals \union {"sweep"} /\ Gone(j) => Gone(j)'
      BY <1>1, <3>2 DEF Gone, Removals
    <3>8. pc[g] = "sweep" /\ ~Gone(j) => Gone(j)' \/ row'[j].status = "complete"
      BY <1>1, <3>2, <3>5
    <3> QED
      BY <3>1, <3>6, <3>7, <3>8, Bystander
  <2> QED
    BY <2>1, <2>2
<1>4. Exclusive'
  BY DEF IInv, Exclusive, Same
<1>5. ASSUME NEW j \in Ids
      PROVE  IdInv(j)'
  <2>1. LeftInv(j) /\ (expired[j] # None => Gone(j))
    BY DEF IInv, IdInv
  <2>2. expired'[j] # None => Gone(j)'
    BY <1>1, <2>1 DEF Gone
  <2>3. LeftInv(j)'
    <3>1. ~(pc[h] \in Removals \union {"sweep"} /\ Id(h) = j)
      BY DEF Locking, Removals
    <3>2. row'[j] = None => row[j] = None /\ SameDisk(j)
      OBVIOUS
    <3> QED
      BY <2>1, <3>1, <3>2, LeftStays
  <2> QED
    BY <2>2, <2>3 DEF IdInv
<1> QED
  BY <1>2, <1>3, <1>4, <1>5 DEF IInv

LEMMA PartWriteKeeps ==
  ASSUME IInv, NEW h \in Handlers, PartWrite(h)
  PROVE  IInv'
<1> PICK i, n, f : i = Id(h) /\ n = request[h].number /\ f = request[h].file
  OBVIOUS
<1>1. /\ pc[h] = "write part" /\ pc[h] \in Locking
      /\ partFile' = [partFile EXCEPT ![i][n] = f]
      /\ Goto(h, "record part") /\ UNCHANGED holds
      /\ UNCHANGED <<row, part, stale, assembled, object, expired, overtaken, failures>>
  BY DEF PartWrite, Locking, database
<1>2. i \in Ids /\ n \in Number /\ f \in Files /\ f # None
  BY <1>1, IdTyped, NotNone DEF IInv, HandlerInv, TypeOK
<1>3. /\ i \in Ids /\ holds[h] = i /\ row[i] # None /\ row[i].status = "uploading"
  BY <1>1, LockFacts
<1>5. /\ partFile' \in [Ids -> [Number -> Files \union {None}]] /\ partFile'[i][n] = f
      /\ \A j \in Ids : j # i => partFile'[j] = partFile[j]
      /\ \A m \in Number : m # n => partFile'[i][m] = partFile[i][m]
  BY <1>1, <1>2 DEF IInv, TypeOK
<1>6. holds' = [holds EXCEPT ![h] = holds[h]] /\ "record part" \in Pc
  BY <1>1 DEF IInv, TypeOK, Pc
<1>7. /\ \A g \in Handlers : g # h => Same(g)
      /\ pc' \in [Handlers -> Pc] /\ request' \in [Handlers -> Request]
      /\ holds' \in [Handlers -> Ids \union {UserRow, None}]
      /\ pc'[h] = "record part" /\ request'[h] = request[h] /\ holds'[h] = holds[h]
      /\ Id(h)' = Id(h)
  BY <1>1, <1>3, <1>6, GotoFacts DEF IInv
<1>8. TypeOK'
  BY <1>1, <1>5, <1>7 DEF IInv, TypeOK
<1>9. HandlerInv(h)'
  <2>1. RequestInv(h)'
    BY <1>1, <1>7 DEF IInv, HandlerInv, RequestInv, Removals
  <2>2. /\ Id(h)' = i /\ request'[h].number = n /\ pc'[h] = "record part" /\ holds'[h] = i
        /\ row' = row /\ partFile'[i][n] # None
    BY <1>1, <1>2, <1>3, <1>5, <1>7
  <2>3. LockInv(h)'
    BY <1>3, <2>2 DEF LockInv
  <2>4. RemovalInv(h)'
    BY <2>2 DEF RemovalInv, Removals
  <2> QED
    BY <2>1, <2>3, <2>4 DEF HandlerInv
<1>10. i \notin overtaken /\ row'[i].status = "uploading" =>
         \A m \in part'[i] : partFile'[i][m] # None
  <2>1. part[i] \subseteq Number
    BY <1>2 DEF IInv, TypeOK
  <2>2. i \notin overtaken => \A m \in part[i] : partFile[i][m] # None
    BY <1>3 DEF IInv, PartsHaveFiles
  <2> QED
    BY <1>1, <1>2, <1>5, <2>1, <2>2
<1>11. \A j \in Ids : j # i => row'[j] = row[j] /\ part'[j] = part[j] /\ SameDisk(j)
  BY <1>1, <1>5 DEF SameDisk
<1> QED
  BY <1>1, <1>3, <1>7, <1>8, <1>9, <1>10, <1>11, LockedStep

LEMMA PartRecordKeeps ==
  ASSUME IInv, NEW h \in Handlers, PartRecord(h)
  PROVE  IInv'
<1> PICK i, n : i = Id(h) /\ n = request[h].number
  OBVIOUS
<1>1. /\ pc[h] = "record part" /\ pc[h] \in Locking /\ Answer(h)
      /\ part' = [part EXCEPT ![i] = @ \union {n}] /\ stale' = stale \ {i}
      /\ UNCHANGED <<row, partFile, assembled, object, expired, overtaken, failures>>
  BY DEF PartRecord, Locking, disk
<1>2. n \in Number
  BY <1>1, IdTyped DEF IInv, HandlerInv, TypeOK
<1>3. /\ i \in Ids /\ row[i] # None /\ row[i].status = "uploading"
      /\ i \notin overtaken => partFile[i][n] # None
  BY <1>1, LockFacts DEF LockInv
<1>5. /\ \A g \in Handlers : g # h => Same(g)
      /\ pc' \in [Handlers -> Pc] /\ request' \in [Handlers -> Request]
      /\ holds' \in [Handlers -> Ids \union {UserRow, None}]
      /\ holds'[h] = None /\ HandlerInv(h)'
  BY <1>1, AnswerFacts DEF IInv
<1>6. /\ part' \in [Ids -> SUBSET Number] /\ part'[i] = part[i] \union {n}
      /\ \A j \in Ids : j # i => part'[j] = part[j]
  BY <1>1, <1>2, <1>3 DEF IInv, TypeOK
<1>7. TypeOK'
  BY <1>1, <1>3, <1>5, <1>6 DEF IInv, TypeOK
<1>8. i \notin overtaken /\ row'[i].status = "uploading" =>
         \A m \in part'[i] : partFile'[i][m] # None
  <2>1. i \notin overtaken => \A m \in part[i] : partFile[i][m] # None
    BY <1>3 DEF IInv, PartsHaveFiles
  <2> QED
    BY <1>1, <1>3, <1>6, <2>1
<1>9. \A j \in Ids : j # i => row'[j] = row[j] /\ part'[j] = part[j] /\ SameDisk(j)
  BY <1>1, <1>6 DEF SameDisk
<1>10. row'[i] # None /\ row'[i].status = "uploading" /\ holds'[h] \in {holds[h], None}
  BY <1>1, <1>3, <1>5
<1>11. overtaken' = overtaken /\ expired' = expired /\ failures' = failures
  BY <1>1
<1> QED
  BY <1>1, <1>5, <1>7, <1>8, <1>9, <1>10, <1>11, LockedStep
-----------------------------------------------------------------------------
(* What `complete` puts together, and under which name.                    *)
LEMMA AssembleChoices ==
  ASSUME NEW h \in Handlers, CompleteAssemble(h)
  PROVE  LET i == Id(h) IN
         \/ Answer(h) /\ \E v \in {"other", None} : assembled' = [assembled EXCEPT ![i] = v]
         \/ /\ assembled' = [assembled EXCEPT ![i] = row[i].file]
            /\ Goto(h, "rename") /\ UNCHANGED holds
BY DEF CompleteAssemble, Assembly, Assembled

LEMMA CompleteAssembleKeeps ==
  ASSUME IInv, NEW h \in Handlers, CompleteAssemble(h)
  PROVE  IInv'
<1> PICK i : i = Id(h)
  OBVIOUS
<1>1. /\ pc[h] = "assemble" /\ pc[h] \in Locking
      /\ UNCHANGED <<row, part, stale, partFile, object, expired, overtaken, failures>>
  BY DEF CompleteAssemble, Locking, database
<1>2. /\ i \in Ids /\ holds[h] = i /\ row[i] # None /\ row[i] \in Row
      /\ row[i].status = "uploading" /\ row[i].file \in Files
  BY <1>1, LockFacts DEF Row, Status
<1>3. PICK v \in Files \union {"other", None} :
        /\ assembled' = [assembled EXCEPT ![i] = v]
        /\ Answer(h) \/ (Goto(h, "rename") /\ UNCHANGED holds /\ v = row[i].file)
  BY <1>2, AssembleChoices
<1>4. /\ assembled' \in [Ids -> Files \union {"other", None}] /\ assembled'[i] = v
      /\ \A j \in Ids : j # i => assembled'[j] = assembled[j]
  BY <1>2, <1>3 DEF IInv, TypeOK
<1>5. /\ \A g \in Handlers : g # h => Same(g)
      /\ pc' \in [Handlers -> Pc] /\ request' \in [Handlers -> Request]
      /\ holds' \in [Handlers -> Ids \union {UserRow, None}]
      /\ holds'[h] \in {holds[h], None} /\ HandlerInv(h)'
  <2>1. CASE Answer(h)
    BY <2>1, AnswerFacts DEF IInv
  <2>2. CASE Goto(h, "rename") /\ UNCHANGED holds /\ v = row[i].file
    <3>1. holds' = [holds EXCEPT ![h] = holds[h]] /\ "rename" \in Pc
      BY <2>2 DEF IInv, TypeOK, Pc
    <3>2. /\ \A g \in Handlers : g # h => Same(g)
          /\ pc' \in [Handlers -> Pc] /\ request' \in [Handlers -> Request]
          /\ holds' \in [Handlers -> Ids \union {UserRow, None}]
          /\ pc'[h] = "rename" /\ request'[h] = request[h] /\ holds'[h] = holds[h]
          /\ Id(h)' = Id(h)
      BY <2>2, <1>2, <3>1, GotoFacts DEF IInv
    <3>3. RequestInv(h)'
      BY <1>1, <3>2 DEF IInv, HandlerInv, RequestInv, Removals
    <3>4. Id(h)' = i /\ assembled'[i] = row'[i].file /\ row' = row
      BY <1>1, <1>4, <2>2, <3>2
    <3>5. LockInv(h)'
      BY <1>2, <3>2, <3>4 DEF LockInv
    <3>6. RemovalInv(h)'
      BY <3>2 DEF RemovalInv, Removals
    <3> QED
      BY <3>2, <3>3, <3>5, <3>6 DEF HandlerInv
  <2> QED
    BY <1>3, <2>1, <2>2
<1>6. TypeOK'
  BY <1>1, <1>4, <1>5 DEF IInv, TypeOK
<1>7. \A j \in Ids : j # i => row'[j] = row[j] /\ part'[j] = part[j] /\ SameDisk(j)
  BY <1>1, <1>4 DEF SameDisk
<1>8. i \notin overtaken => \A n \in part'[i] : partFile'[i][n] # None
  BY <1>1, <1>2 DEF IInv, PartsHaveFiles
<1>9. row'[i] # None /\ row'[i].status = "uploading"
  BY <1>1, <1>2
<1>10. overtaken' = overtaken /\ expired' = expired /\ failures' = failures
  BY <1>1
<1> QED
  BY <1>1, <1>5, <1>6, <1>7, <1>8, <1>9, <1>10, LockedStep

LEMMA CompleteRenameKeeps ==
  ASSUME IInv, NEW h \in Handlers, CompleteRename(h)
  PROVE  IInv'
<1> PICK i : i = Id(h)
  OBVIOUS
<1>1. /\ pc[h] = "rename" /\ pc[h] \in Locking
      /\ UNCHANGED <<row, part, stale, partFile, expired, overtaken, failures>>
  BY DEF CompleteRename, Locking, database, disk
<1>2. /\ i \in Ids /\ holds[h] = i /\ row[i] # None /\ row[i].status = "uploading"
      /\ row[i] \in Row /\ assembled[i] \in {row[i].file, None}
  BY <1>1, LockFacts DEF LockInv
<1>3. CASE assembled[i] = None
  <2>1. Answer(h) /\ Stays /\ UNCHANGED failures /\ pc[h] \notin Removals \union {"sweep"}
    BY <1>1, <1>3 DEF CompleteRename, Stays, Removals
  <2> QED
    BY <2>1, AnswerKeeps
<1>4. CASE assembled[i] # None
  <2>1. /\ object' = [object EXCEPT ![i] = assembled[i]]
        /\ assembled' = [assembled EXCEPT ![i] = None]
        /\ Goto(h, "record") /\ UNCHANGED holds
    BY <1>4 DEF CompleteRename
  <2>2. assembled[i] = row[i].file /\ row[i].file \in Files
    BY <1>2, <1>4 DEF Row, Status
  <2>3. /\ assembled' \in [Ids -> Files \union {"other", None}]
        /\ object' \in [Ids -> Files \union {None}] /\ object'[i] = row[i].file
        /\ \A j \in Ids : j # i => assembled'[j] = assembled[j] /\ object'[j] = object[j]
    BY <1>2, <2>1, <2>2 DEF IInv, TypeOK
  <2>4. holds' = [holds EXCEPT ![h] = holds[h]] /\ "record" \in Pc
    BY <2>1 DEF IInv, TypeOK, Pc
  <2>5. /\ \A g \in Handlers : g # h => Same(g)
        /\ pc' \in [Handlers -> Pc] /\ request' \in [Handlers -> Request]
        /\ holds' \in [Handlers -> Ids \union {UserRow, None}]
        /\ pc'[h] = "record" /\ request'[h] = request[h] /\ holds'[h] = holds[h]
        /\ Id(h)' = Id(h)
    BY <1>2, <2>1, <2>4, GotoFacts DEF IInv
  <2>6. TypeOK'
    BY <1>1, <2>3, <2>5 DEF IInv, TypeOK
  <2>7. HandlerInv(h)'
    <3>1. RequestInv(h)'
      BY <1>1, <2>5 DEF IInv, HandlerInv, RequestInv, Removals
    <3>2. Id(h)' = i /\ object'[i] = row'[i].file /\ row' = row
      BY <1>1, <2>3, <2>5
    <3>3. LockInv(h)'
      BY <1>2, <2>5, <3>2 DEF LockInv
    <3>4. RemovalInv(h)'
      BY <2>5 DEF RemovalInv, Removals
    <3> QED
      BY <3>1, <3>3, <3>4 DEF HandlerInv
  <2>8. \A j \in Ids : j # i => row'[j] = row[j] /\ part'[j] = part[j] /\ SameDisk(j)
    BY <1>1, <2>3 DEF SameDisk
  <2>9. i \notin overtaken => \A n \in part'[i] : partFile'[i][n] # None
    BY <1>1, <1>2 DEF IInv, PartsHaveFiles
  <2>10. row'[i] # None /\ row'[i].status = "uploading"
    BY <1>1, <1>2
  <2>11. overtaken' = overtaken /\ expired' = expired /\ failures' = failures
    BY <1>1
  <2> QED
    BY <1>1, <2>5, <2>6, <2>7, <2>8, <2>9, <2>10, <2>11, LockedStep
<1> QED
  BY <1>3, <1>4

LEMMA CompleteRecordKeeps ==
  ASSUME IInv, NEW h \in Handlers, CompleteRecord(h)
  PROVE  IInv'
<1> PICK i : i = Id(h)
  OBVIOUS
<1>1. /\ pc[h] = "record" /\ pc[h] \in Locking /\ Goto(h, "sweep")
      /\ row' = [row EXCEPT ![i].status = "complete"]
      /\ stale' = stale \ {i} /\ holds' = [holds EXCEPT ![h] = None]
      /\ UNCHANGED <<part, partFile, assembled, object, expired, overtaken, failures>>
  BY DEF CompleteRecord, Locking, disk
<1>2. /\ i \in Ids /\ row[i] # None /\ row[i] \in Row
      /\ i \notin overtaken => object[i] = row[i].file
  BY <1>1, LockFacts DEF LockInv
<1>3. /\ row'[i] \in Row /\ row'[i] # None /\ row'[i].status = "complete"
      /\ row'[i].file = row[i].file
      /\ row' \in [Ids -> Row \union {None}]
      /\ \A j \in Ids : j # i => row'[j] = row[j]
  BY <1>1, <1>2, NotNone DEF IInv, TypeOK, Row, Status
<1>4. "sweep" \in Pc
  BY DEF Pc
<1>5. /\ \A g \in Handlers : g # h => Same(g)
      /\ pc' \in [Handlers -> Pc] /\ request' \in [Handlers -> Request]
      /\ holds' \in [Handlers -> Ids \union {UserRow, None}]
      /\ pc'[h] = "sweep" /\ request'[h] = request[h] /\ holds'[h] = None
      /\ Id(h)' = Id(h)
  BY <1>1, <1>4, GotoFacts DEF IInv
<1>6. TypeOK'
  BY <1>1, <1>2, <1>3, <1>5 DEF IInv, TypeOK
<1>7. HandlerInv(h)'
  <2>1. RequestInv(h)'
    BY <1>1, <1>5 DEF IInv, HandlerInv, RequestInv, Removals
  <2>2. LockInv(h)'
    BY <1>5 DEF LockInv, Locking
  <2>3. Id(h)' = i /\ row'[i].status = "complete"
    BY <1>3, <1>5
  <2>4. RemovalInv(h)'
    BY <1>5, <2>3 DEF RemovalInv, Removals
  <2> QED
    BY <2>1, <2>2, <2>4 DEF HandlerInv
<1>8. \A j \in Ids : j # i => row'[j] = row[j] /\ part'[j] = part[j] /\ SameDisk(j)
  BY <1>1, <1>3 DEF SameDisk
<1>9. i \notin overtaken => object'[i] = row'[i].file
  BY <1>1, <1>2, <1>3
<1>10. overtaken' = overtaken /\ expired' = expired /\ failures' = failures
  BY <1>1
<1> QED
  BY <1>1, <1>3, <1>5, <1>6, <1>7, <1>8, <1>9, <1>10, LockedStep
-----------------------------------------------------------------------------
(* A row is inserted. It is overtaken if files are still being removed.    *)
LEMMA CreateInsertKeeps ==
  ASSUME IInv, NEW h \in Handlers, CreateInsert(h)
  PROVE  IInv'
<1> PICK i, f : i = Id(h) /\ f = request[h].file
  OBVIOUS
<1>1. /\ pc[h] = "insert" /\ Answer(h)
      /\ UNCHANGED <<part, stale, partFile, assembled, object, expired, failures>>
  BY DEF CreateInsert, disk
<1>2. i \in Ids /\ f \in Files
  BY <1>1, IdTyped DEF IInv, HandlerInv, TypeOK
<1>3. CASE row[i] # None
  <2>1. Stays /\ UNCHANGED failures /\ pc[h] \notin Removals \union {"sweep"}
    BY <1>1, <1>3 DEF CreateInsert, Stays, Removals, database, disk
  <2> QED
    BY <1>1, <2>1, AnswerKeeps
<1>4. CASE row[i] = None
  <2> DEFINE new == [file |-> f, status |-> "uploading"]
  <2>1. /\ row' = [row EXCEPT ![i] = new]
        /\ overtaken' = IF Removing(i) THEN overtaken \union {i} ELSE overtaken
    BY <1>4 DEF CreateInsert
  <2>2. new \in Row /\ new # None /\ new.status = "uploading"
    BY <1>2, NotNone DEF Row, Status
  <2> HIDE DEF new
  <2>3. /\ row' \in [Ids -> Row \union {None}] /\ row'[i] = new
        /\ \A j \in Ids : j # i => row'[j] = row[j]
        /\ \A j \in Ids : row[j] # None => row'[j] # None
    BY <1>2, <1>4, <2>1, <2>2 DEF IInv, TypeOK
  <2>4. /\ \A j \in Ids : j \in overtaken => j \in overtaken'
        /\ \A j \in Ids : j # i /\ j \in overtaken' => j \in overtaken
        /\ Removing(i) => Gone(i)'
    BY <2>1 DEF Gone
  <2>5. part[i] = {} /\ \A j \in Ids : SameDisk(j) /\ part'[j] = part[j]
    BY <1>1, <1>2, <1>4 DEF IInv, TypeOK, SameDisk
  <2>6. /\ \A g \in Handlers : g # h => Same(g)
        /\ pc' \in [Handlers -> Pc] /\ request' \in [Handlers -> Request]
        /\ holds' \in [Handlers -> Ids \union {UserRow, None}]
        /\ holds'[h] = None /\ HandlerInv(h)'
    BY <1>1, AnswerFacts DEF IInv
  <2>7. TypeOK'
    <3>1. overtaken' \subseteq {j \in Ids : row'[j] # None}
      BY <1>2, <2>1, <2>2, <2>3 DEF IInv, TypeOK
    <3>2. stale' \subseteq {j \in Ids : row'[j] # None}
      BY <1>1, <2>3 DEF IInv, TypeOK
    <3> QED
      BY <1>1, <2>3, <2>6, <3>1, <3>2 DEF IInv, TypeOK
  <2>8. CompleteHasObject' /\ PartsHaveFiles'
    <3>1. ASSUME NEW j \in Ids, j \notin overtaken', row'[j] # None
          PROVE  /\ row'[j].status = "complete" => object'[j] = row'[j].file
                 /\ row'[j].status = "uploading" => \A n \in part'[j] : partFile'[j][n] # None
      <4>1. CASE j = i
        BY <1>1, <2>2, <2>3, <2>5, <4>1
      <4>2. CASE j # i
        BY <1>1, <2>3, <2>4, <3>1, <4>2 DEF IInv, CompleteHasObject, PartsHaveFiles
      <4> QED
        BY <4>1, <4>2
    <3> QED
      BY <3>1 DEF CompleteHasObject, PartsHaveFiles
  <2>9. ASSUME NEW g \in Handlers, g # h
        PROVE  HandlerInv(g)'
    <3> PICK j : j = Id(g)
      OBVIOUS
    <3>1. HandlerInv(g) /\ Same(g) /\ pc \in [Handlers -> Pc]
      BY <2>6, <2>9 DEF IInv, TypeOK
    <3>2. pc[g] # "idle" => j \in Ids
      BY <3>1, IdTyped DEF HandlerInv
    <3>3. pc[g] \in Locking => row[j] # None
      BY <3>1 DEF HandlerInv, LockInv
    <3>4. pc[g] = "sweep" => Gone(j) \/ row[j].status = "complete"
      BY <3>1 DEF HandlerInv, RemovalInv
    <3>5. pc[g] \in Removals \union {"sweep"} => j \in Ids
      BY <3>2 DEF Removals
    <3>6. pc[g] \in Locking => /\ row'[j] = row[j] /\ SameDisk(j)
                               /\ j \in overtaken => j \in overtaken'
      BY <1>4, <2>3, <2>4, <2>5, <3>2, <3>3 DEF Locking
    <3>7. pc[g] \in Removals \union {"sweep"} /\ j = i => Gone(j)'
      BY <2>4 DEF Removing
    <3>8. pc[g] \in Removals \union {"sweep"} /\ Gone(j) => Gone(j)'
      BY <2>3, <2>4, <3>5, <3>7 DEF Gone
    <3>9. pc[g] = "sweep" /\ ~Gone(j) => Gone(j)' \/ row'[j].status = "complete"
      BY <2>3, <3>4, <3>5, <3>7
    <3> QED
      BY <3>1, <3>6, <3>8, <3>9, Bystander
  <2>10. Exclusive'
    BY <2>6 DEF IInv, Exclusive, Same
  <2>11. ASSUME NEW j \in Ids
         PROVE  IdInv(j)'
    <3>1. LeftInv(j) /\ (expired[j] # None => Gone(j))
      BY DEF IInv, IdInv
    <3>2. expired'[j] # None => Gone(j)'
      BY <1>1, <2>3, <2>4, <3>1 DEF Gone, Removing
    <3>3. row'[j] = None => row[j] = None /\ SameDisk(j)
      BY <2>3, <2>5
    <3>4. \A g \in Handlers : pc[g] \in Removals \union {"sweep"} => Same(g)
      BY <1>1, <2>6 DEF Removals
    <3>5. LeftInv(j)'
      BY <1>1, <3>1, <3>3, <3>4, LeftStays
    <3> QED
      BY <3>2, <3>5 DEF IdInv
  <2> QED
    BY <2>6, <2>7, <2>8, <2>9, <2>10, <2>11 DEF IInv
<1> QED
  BY <1>3, <1>4
-----------------------------------------------------------------------------
(* Files of i are removed: it has no row, or an overtaken one, or it is    *)
(* complete and only its parts go.                                         *)
LEMMA RemovalStep ==
  ASSUME IInv, NEW i \in Ids, UNCHANGED <<row, part, stale, overtaken>>,
         TypeOK', Exclusive', \A g \in Handlers : Same(g) \/ HandlerInv(g)',
         \A j \in Ids : j # i => SameDisk(j) /\ LeftInv(j)',
         partFile'[i] \in {partFile[i], NoParts}, assembled'[i] \in {assembled[i], None},
         object'[i] \in {object[i], None},
         \/ Gone(i)
         \/ row[i].status = "complete" /\ assembled'[i] = assembled[i] /\ object'[i] = object[i],
         \A j \in Ids : expired'[j] # None => expired[j] # None,
         LeftInv(i)'
  PROVE  IInv'
<1>1. CompleteHasObject' /\ PartsHaveFiles'
  <2>1. ASSUME NEW j \in Ids, j \notin overtaken, row[j] # None
        PROVE  /\ row[j].status = "complete" => object'[j] = row[j].file
               /\ row[j].status = "uploading" => \A n \in part[j] : partFile'[j][n] # None
    <3>1. /\ row[j].status = "complete" => object[j] = row[j].file
          /\ row[j].status = "uploading" => \A n \in part[j] : partFile[j][n] # None
      BY <2>1 DEF IInv, CompleteHasObject, PartsHaveFiles
    <3>2. CASE j = i
      BY <2>1, <3>1, <3>2 DEF Gone
    <3>3. CASE j # i
      BY <3>1, <3>3 DEF SameDisk
    <3> QED
      BY <3>2, <3>3
  <2> QED
    BY <2>1 DEF CompleteHasObject, PartsHaveFiles
<1>2. ASSUME NEW g \in Handlers
      PROVE  HandlerInv(g)'
  <2>1. CASE Same(g)
    <3> PICK j : j = Id(g)
      OBVIOUS
    <3>1. HandlerInv(g) /\ pc \in [Handlers -> Pc]
      BY DEF IInv, TypeOK
    <3>2. pc[g] \in Locking => j \in Ids
      BY <3>1, IdTyped DEF HandlerInv, Locking
    <3>3. pc[g] \in Locking => row[j] # None /\ row[j].status = "uploading"
      BY <3>1 DEF HandlerInv, LockInv
    <3>4. pc[g] = "sweep" => Gone(j) \/ row[j].status = "complete"
      BY <3>1 DEF HandlerInv, RemovalInv
    <3>5. pc[g] \in Locking =>
             SameDisk(j) \/ (j \in overtaken /\ assembled'[j] \in {assembled[j], None})
      BY <3>2, <3>3 DEF Gone
    <3>6. Gone(j) => Gone(j)'
      BY DEF Gone
    <3> QED
      BY <2>1, <3>1, <3>4, <3>5, <3>6, Bystander
  <2>2. CASE HandlerInv(g)'
    BY <2>2
  <2> QED
    BY <2>1, <2>2
<1>3. ASSUME NEW j \in Ids
      PROVE  IdInv(j)'
  <2>1. LeftInv(j)'
    OBVIOUS
  <2>2. expired'[j] # None => Gone(j)'
    BY DEF IInv, IdInv, Gone
  <2> QED
    BY <2>1, <2>2 DEF IdInv
<1> QED
  BY <1>1, <1>2, <1>3 DEF IInv

LEMMA CompleteSweepKeeps ==
  ASSUME IInv, NEW h \in Handlers, CompleteSweep(h)
  PROVE  IInv'
<1> PICK i : i = Id(h)
  OBVIOUS
<1>1. /\ pc[h] = "sweep" /\ Answer(h) /\ partFile' = [partFile EXCEPT ![i] = NoParts]
      /\ UNCHANGED <<row, part, stale, assembled, object, expired, overtaken, failures>>
  BY DEF CompleteSweep, database
<1>2. HandlerInv(h) /\ pc \in [Handlers -> Pc]
  BY DEF IInv, TypeOK
<1>3. i \in Ids
  BY <1>1, <1>2, IdTyped DEF HandlerInv
<1>4. Gone(i) \/ row[i].status = "complete"
  BY <1>1, <1>2 DEF HandlerInv, RemovalInv
<1>5. /\ partFile' \in [Ids -> [Number -> Files \union {None}]] /\ partFile'[i] = NoParts
      /\ \A j \in Ids : j # i => SameDisk(j)
  BY <1>1, <1>3 DEF IInv, TypeOK, NoParts, SameDisk
<1>6. /\ \A g \in Handlers : g # h => Same(g)
      /\ pc' \in [Handlers -> Pc] /\ request' \in [Handlers -> Request]
      /\ holds' \in [Handlers -> Ids \union {UserRow, None}]
      /\ holds'[h] = None /\ HandlerInv(h)'
  BY <1>1, AnswerFacts DEF IInv
<1>7. TypeOK'
  BY <1>1, <1>5, <1>6 DEF IInv, TypeOK
<1>8. Exclusive'
  BY <1>6 DEF IInv, Exclusive, Same
<1>9. ASSUME NEW j \in Ids, j # i
      PROVE  LeftInv(j)'
  <2>1. LeftInv(j) /\ SameDisk(j)
    BY <1>5, <1>9 DEF IInv, IdInv
  <2>2. \A g \in Handlers : pc[g] \in Removals \union {"sweep"} /\ Id(g) = j => Same(g)
    BY <1>6, <1>9
  <2> QED
    BY <1>1, <2>1, <2>2, LeftStays
<1>10. LeftInv(i)'
  <2>1. ASSUME NEW removals, Removes(i, removals), "sweep" \notin removals
        PROVE  Removes(i, removals)'
    BY <1>1, <1>6, <2>1, RemovesStays
  <2>2. LeftInv(i)
    BY <1>3 DEF IInv, IdInv
  <2> QED
    BY <1>1, <1>5, <2>1, <2>2 DEF LeftInv, Removals, NoParts
<1> QED
  BY <1>1, <1>3, <1>4, <1>5, <1>6, <1>7, <1>8, <1>9, <1>10, RemovalStep
-----------------------------------------------------------------------------
(* remove_attachment_files: one call, which may fail.                      *)
LEMMA RemoveFacts ==
  ASSUME IInv, NEW i \in Ids, NEW removal \in Removals, Remove(i, removal)
  PROVE  /\ partFile' \in [Ids -> [Number -> Files \union {None}]]
         /\ assembled' \in [Ids -> Files \union {"other", None}]
         /\ object' \in [Ids -> Files \union {None}]
         /\ failures' \in 0 .. MaxFailures /\ (failures' = 0 => failures = 0)
         /\ \A j \in Ids : j # i => SameDisk(j)
         /\ partFile'[i] \in {partFile[i], NoParts} /\ assembled'[i] \in {assembled[i], None}
         /\ object'[i] \in {object[i], None}
         /\ failures' = 0 =>
              /\ removal = "remove parts" => partFile'[i] = NoParts
              /\ removal = "remove object" => object'[i] = None
              /\ removal = "remove assembled" => assembled'[i] = None
<1>1. CASE Failure /\ UNCHANGED disk
  <2>1. failures' \in 0 .. MaxFailures /\ failures' # 0
    BY <1>1, StoreAssumption DEF IInv, TypeOK, Failure
  <2>2. partFile' = partFile /\ assembled' = assembled /\ object' = object
    BY <1>1 DEF disk
  <2> QED
    BY <2>1, <2>2 DEF IInv, TypeOK, SameDisk
<1>2. CASE ~(Failure /\ UNCHANGED disk)
  <2>1. /\ partFile' = IF removal = "remove parts"
                       THEN [partFile EXCEPT ![i] = NoParts] ELSE partFile
        /\ object' = IF removal = "remove object"
                     THEN [object EXCEPT ![i] = None] ELSE object
        /\ assembled' = IF removal = "remove assembled"
                        THEN [assembled EXCEPT ![i] = None] ELSE assembled
        /\ UNCHANGED failures
    BY <1>2 DEF Remove
  <2>2. NoParts \in [Number -> Files \union {None}]
    BY DEF NoParts
  <2>3. /\ partFile' \in [Ids -> [Number -> Files \union {None}]]
        /\ \A j \in Ids : j # i => partFile'[j] = partFile[j]
        /\ partFile'[i] \in {partFile[i], NoParts}
        /\ removal = "remove parts" => partFile'[i] = NoParts
    BY <2>1, <2>2 DEF IInv, TypeOK
  <2>4. /\ object' \in [Ids -> Files \union {None}]
        /\ \A j \in Ids : j # i => object'[j] = object[j]
        /\ object'[i] \in {object[i], None}
        /\ removal = "remove object" => object'[i] = None
    BY <2>1 DEF IInv, TypeOK
  <2>5. /\ assembled' \in [Ids -> Files \union {"other", None}]
        /\ \A j \in Ids : j # i => assembled'[j] = assembled[j]
        /\ assembled'[i] \in {assembled[i], None}
        /\ removal = "remove assembled" => assembled'[i] = None
    BY <2>1 DEF IInv, TypeOK
  <2> QED
    BY <2>1, <2>3, <2>4, <2>5 DEF IInv, TypeOK, SameDisk
<1> QED
  BY <1>1, <1>2

LEMMA AfterFacts ==
  /\ After("remove parts") = "remove object"
  /\ After("remove object") = "remove assembled"
  /\ After("remove assembled") = None
  /\ \A r \in Removals : After(r) \in Removals \union {None}
BY DEF After, Removals

(* The call made, whoever makes it has the next one to make.               *)
LEMMA LeftAfterRemoval ==
  ASSUME IInv, NEW i \in Ids, NEW removal \in Removals, Remove(i, removal), UNCHANGED row,
         \A removals \in SUBSET (Removals \union {"sweep"}) :
           Removes(i, removals) /\ removal \notin removals => Removes(i, removals)',
         \A removals \in SUBSET Removals :
           After(removal) \in removals => Removes(i, removals)'
  PROVE  LeftInv(i)'
<1> SUFFICES ASSUME row'[i] = None, failures' = 0
             PROVE  /\ partFile'[i] # NoParts => Removes(i, {"remove parts", "sweep"})'
                    /\ object'[i] # None => Removes(i, {"remove parts", "remove object"})'
                    /\ assembled'[i] # None => Removes(i, Removals)'
  BY DEF LeftInv, NoParts, Removals
<1>1. /\ failures = 0 /\ row[i] = None
      /\ partFile'[i] \in {partFile[i], NoParts} /\ assembled'[i] \in {assembled[i], None}
      /\ object'[i] \in {object[i], None}
      /\ removal = "remove parts" => partFile'[i] = NoParts
      /\ removal = "remove object" => object'[i] = None
      /\ removal = "remove assembled" => assembled'[i] = None
  BY RemoveFacts
<1>2. /\ partFile[i] # NoParts => Removes(i, {"remove parts", "sweep"})
      /\ object[i] # None => Removes(i, {"remove parts", "remove object"})
      /\ assembled[i] # None => Removes(i, Removals)
  BY <1>1 DEF IInv, IdInv, LeftInv
<1>3. partFile'[i] # NoParts => Removes(i, {"remove parts", "sweep"})'
  BY <1>1, <1>2 DEF Removals
<1>4. object'[i] # None => Removes(i, {"remove parts", "remove object"})'
  BY <1>1, <1>2, AfterFacts DEF Removals
<1>5. assembled'[i] # None => Removes(i, Removals)'
  BY <1>1, <1>2, AfterFacts DEF Removals
<1> QED
  BY <1>3, <1>4, <1>5
-----------------------------------------------------------------------------
LEMMA DeleteFilesKeeps ==
  ASSUME IInv, NEW h \in Handlers, DeleteFiles(h)
  PROVE  IInv'
<1> PICK i, removal : i = Id(h) /\ removal = pc[h]
  OBVIOUS
<1>1. /\ removal \in Removals /\ pc[h] # "idle" /\ Remove(i, removal)
      /\ UNCHANGED <<row, part, stale, expired, overtaken>>
  BY DEF DeleteFiles, Removals, database
<1>2. HandlerInv(h) /\ pc \in [Handlers -> Pc]
  BY DEF IInv, TypeOK
<1>3. i \in Ids /\ Gone(i)
  BY <1>1, <1>2, IdTyped DEF HandlerInv, RemovalInv
<1>4. /\ \A g \in Handlers : g # h => Same(g)
      /\ pc' \in [Handlers -> Pc] /\ request' \in [Handlers -> Request]
      /\ holds' \in [Handlers -> Ids \union {UserRow, None}]
      /\ holds'[h] \in {holds[h], None} /\ HandlerInv(h)'
      /\ After(removal) # None => pc'[h] = After(removal) /\ Id(h)' = i
  <2>1. CASE After(removal) = None
    <3>1. Answer(h)
      BY <2>1 DEF DeleteFiles
    <3> QED
      BY <2>1, <3>1, AnswerFacts DEF IInv
  <2>2. CASE After(removal) # None
    <3>1. Goto(h, After(removal)) /\ holds' = [holds EXCEPT ![h] = holds[h]]
      BY <2>2 DEF DeleteFiles, IInv, TypeOK
    <3>2. After(removal) \in Removals /\ After(removal) \in Pc
      BY <1>1, <2>2, AfterFacts DEF Pc
    <3>3. holds[h] \in Ids \union {UserRow, None}
      BY DEF IInv, TypeOK
    <3>4. /\ \A g \in Handlers : g # h => Same(g)
          /\ pc' \in [Handlers -> Pc] /\ request' \in [Handlers -> Request]
          /\ holds' \in [Handlers -> Ids \union {UserRow, None}]
          /\ pc'[h] = After(removal) /\ request'[h] = request[h] /\ holds'[h] = holds[h]
          /\ Id(h)' = i
      BY <3>1, <3>2, <3>3, GotoFacts DEF IInv
    <3>5. RequestInv(h)'
      BY <1>1, <1>2, <3>2, <3>4 DEF HandlerInv, RequestInv, Removals
    <3>6. LockInv(h)'
      BY <3>2, <3>4 DEF LockInv, Locking, Removals
    <3>7. Gone(i)'
      BY <1>1, <1>3 DEF Gone
    <3>8. RemovalInv(h)'
      BY <3>2, <3>4, <3>7 DEF RemovalInv, Removals, Gone
    <3> QED
      BY <3>4, <3>5, <3>6, <3>8 DEF HandlerInv
  <2> QED
    BY <2>1, <2>2
<1>5. TypeOK'
  BY <1>1, <1>3, <1>4, RemoveFacts DEF IInv, TypeOK
<1>6. Exclusive'
  BY <1>4 DEF IInv, Exclusive, Same
<1>7. /\ \A j \in Ids : j # i => SameDisk(j)
      /\ partFile'[i] \in {partFile[i], NoParts} /\ assembled'[i] \in {assembled[i], None}
      /\ object'[i] \in {object[i], None} /\ (failures' = 0 => failures = 0)
  BY <1>1, <1>3, RemoveFacts
<1>8. ASSUME NEW j \in Ids, j # i
      PROVE  LeftInv(j)'
  <2>1. LeftInv(j) /\ SameDisk(j)
    BY <1>7, <1>8 DEF IInv, IdInv
  <2>2. \A g \in Handlers : pc[g] \in Removals \union {"sweep"} /\ Id(g) = j => Same(g)
    BY <1>4, <1>8
  <2> QED
    BY <1>1, <1>7, <2>1, <2>2, LeftStays
<1>9. LeftInv(i)'
  <2>1. ASSUME NEW removals \in SUBSET (Removals \union {"sweep"}),
               Removes(i, removals), removal \notin removals
        PROVE  Removes(i, removals)'
    BY <1>1, <1>4, <2>1, RemovesStays
  <2>2. ASSUME NEW removals \in SUBSET Removals, After(removal) \in removals
        PROVE  Removes(i, removals)'
    <3>1. After(removal) # None
      BY <1>1, <2>2, AfterFacts, NotNone
    <3> QED
      BY <1>4, <2>2, <3>1 DEF Removes
  <2> QED
    BY <1>1, <1>3, <2>1, <2>2, LeftAfterRemoval
<1>10. \A j \in Ids : expired'[j] # None => expired[j] # None
  BY <1>1
<1> QED
  BY <1>1, <1>3, <1>4, <1>5, <1>6, <1>7, <1>8, <1>9, <1>10, RemovalStep

LEMMA CleanupFilesKeeps ==
  ASSUME IInv, CleanupFiles
  PROVE  IInv'
<1>1. PICK i \in Ids : /\ expired[i] # None /\ Remove(i, expired[i])
                       /\ expired' = [expired EXCEPT ![i] = After(@)]
  BY DEF CleanupFiles
<1> PICK removal : removal = expired[i]
  OBVIOUS
<1>2. /\ UNCHANGED <<row, part, stale, pc, request, holds, overtaken>>
      /\ \A g \in Handlers : Same(g)
  BY DEF CleanupFiles, database, Same
<1>3. removal \in Removals /\ Gone(i) /\ Remove(i, removal)
  BY <1>1 DEF IInv, IdInv, TypeOK
<1>4. /\ expired' \in [Ids -> Removals \union {None}] /\ expired'[i] = After(removal)
      /\ \A j \in Ids : j # i => expired'[j] = expired[j]
  BY <1>1, <1>3, AfterFacts DEF IInv, TypeOK
<1>5. TypeOK'
  BY <1>2, <1>3, <1>4, RemoveFacts DEF IInv, TypeOK
<1>6. Exclusive'
  BY <1>2 DEF IInv, Exclusive
<1>7. /\ \A j \in Ids : j # i => SameDisk(j)
      /\ partFile'[i] \in {partFile[i], NoParts} /\ assembled'[i] \in {assembled[i], None}
      /\ object'[i] \in {object[i], None} /\ (failures' = 0 => failures = 0)
  BY <1>3, RemoveFacts
<1>8. ASSUME NEW j \in Ids, j # i
      PROVE  LeftInv(j)'
  <2>1. LeftInv(j) /\ SameDisk(j)
    BY <1>7, <1>8 DEF IInv, IdInv
  <2> QED
    BY <1>2, <1>4, <1>7, <1>8, <2>1, LeftStays
<1>9. LeftInv(i)'
  <2>1. ASSUME NEW removals \in SUBSET (Removals \union {"sweep"}),
               Removes(i, removals), removal \notin removals
        PROVE  Removes(i, removals)'
    BY <1>2, <2>1, RemovesStays
  <2>2. ASSUME NEW removals \in SUBSET Removals, After(removal) \in removals
        PROVE  Removes(i, removals)'
    BY <1>4, <2>2 DEF Removes
  <2> QED
    BY <1>2, <1>3, <2>1, <2>2, LeftAfterRemoval
<1>10. \A j \in Ids : expired'[j] # None => expired[j] # None
  BY <1>1, <1>4
<1> QED
  BY <1>2, <1>3, <1>5, <1>6, <1>7, <1>8, <1>9, <1>10, RemovalStep
-----------------------------------------------------------------------------
(* Rows are dropped with their parts: nobody holds their locks, and their  *)
(* files are removed next.                                                 *)
LEMMA DropStep ==
  ASSUME IInv, NEW gone \in SUBSET Ids, Dropped(gone), UNCHANGED <<disk, failures>>,
         \A i \in gone : ~Locked(i),
         pc' \in [Handlers -> Pc], request' \in [Handlers -> Request],
         expired' \in [Ids -> Removals \union {None}], UNCHANGED holds,
         \A g \in Handlers : Same(g) \/ HandlerInv(g)',
         \A i \in gone : Removes(i, {"remove parts"})',
         \A i \in Ids \ gone : expired'[i] \in {expired[i], None} /\ (row[i] = None => LeftInv(i)')
  PROVE  IInv'
<1>1. /\ row' \in [Ids -> Row \union {None}]
      /\ \A i \in Ids : row'[i] = IF i \in gone THEN None ELSE row[i]
      /\ part' \in [Ids -> SUBSET Number]
      /\ \A i \in Ids : part'[i] = IF i \in gone THEN {} ELSE part[i]
      /\ stale' = stale \ gone /\ overtaken' = overtaken \ gone
  BY DEF Dropped, IInv, TypeOK
<1>2. partFile' = partFile /\ assembled' = assembled /\ object' = object /\ failures' = failures
  BY DEF disk
<1>3. TypeOK'
  <2>1. /\ \A i \in Ids : part'[i] # {} => row'[i] # None
        /\ stale' \subseteq {i \in Ids : row'[i] # None}
        /\ overtaken' \subseteq {i \in Ids : row'[i] # None}
    BY <1>1 DEF IInv, TypeOK
  <2> QED
    BY <1>1, <1>2, <2>1 DEF IInv, TypeOK
<1>4. CompleteHasObject' /\ PartsHaveFiles'
  <2>1. ASSUME NEW i \in Ids, i \notin overtaken', row'[i] # None
        PROVE  /\ row'[i].status = "complete" => object'[i] = row'[i].file
               /\ row'[i].status = "uploading" => \A n \in part'[i] : partFile'[i][n] # None
    <3>1. i \notin overtaken /\ row'[i] = row[i] /\ part'[i] = part[i] /\ row[i] # None
      BY <1>1, <2>1
    <3> QED
      BY <1>2, <3>1 DEF IInv, CompleteHasObject, PartsHaveFiles
  <2> QED
    BY <2>1 DEF CompleteHasObject, PartsHaveFiles
<1>5. ASSUME NEW g \in Handlers
      PROVE  HandlerInv(g)'
  <2>1. CASE Same(g)
    <3> PICK j : j = Id(g)
      OBVIOUS
    <3>1. HandlerInv(g) /\ pc \in [Handlers -> Pc]
      BY DEF IInv, TypeOK
    <3>2. pc[g] \in Locking \union Removals \union {"sweep"} => j \in Ids
      BY <3>1, IdTyped DEF HandlerInv, Locking, Removals
    <3>3. pc[g] \in Locking => j \notin gone
      BY <3>1 DEF HandlerInv, LockInv, Locked
    <3>4. pc[g] = "sweep" => Gone(j) \/ row[j].status = "complete"
      BY <3>1 DEF HandlerInv, RemovalInv
    <3>5. pc[g] \in Locking => /\ row'[j] = row[j] /\ SameDisk(j)
                               /\ j \in overtaken => j \in overtaken'
      BY <1>1, <1>2, <3>2, <3>3 DEF SameDisk
    <3>6. pc[g] \in Removals \union {"sweep"} /\ Gone(j) => Gone(j)'
      BY <1>1, <3>2 DEF Gone
    <3>7. pc[g] = "sweep" /\ ~Gone(j) => Gone(j)' \/ row'[j].status = "complete"
      BY <1>1, <3>2, <3>4 DEF Gone
    <3> QED
      BY <2>1, <3>1, <3>5, <3>6, <3>7, Bystander
  <2>2. CASE HandlerInv(g)'
    BY <2>2
  <2> QED
    BY <2>1, <2>2
<1>6. Exclusive'
  BY DEF IInv, Exclusive
<1>7. ASSUME NEW i \in Ids
      PROVE  IdInv(i)'
  <2>1. CASE i \in gone
    <3>1. row'[i] = None
      BY <1>1, <2>1
    <3>2. Removes(i, {"remove parts"})'
      BY <2>1
    <3>3. \A removals : {"remove parts"} \subseteq removals => Removes(i, removals)'
      BY <3>2 DEF Removes
    <3>4. LeftInv(i)'
      BY <3>3 DEF LeftInv, Removals
    <3> QED
      BY <3>1, <3>4 DEF IdInv, Gone
  <2>2. CASE i \notin gone
    <3>1. expired'[i] # None => Gone(i)
      BY <2>2 DEF IInv, IdInv
    <3>2. expired'[i] # None => Gone(i)'
      BY <1>1, <2>2, <3>1 DEF Gone
    <3>3. LeftInv(i)'
      BY <1>1, <2>2 DEF LeftInv
    <3> QED
      BY <3>2, <3>3 DEF IdInv
  <2> QED
    BY <2>1, <2>2
<1> QED
  BY <1>3, <1>4, <1>5, <1>6, <1>7 DEF IInv

LEMMA DeleteRowKeeps ==
  ASSUME IInv, NEW h \in Handlers, DeleteRow(h)
  PROVE  IInv'
<1> PICK i : i = Id(h)
  OBVIOUS
<1>1. /\ pc[h] = "delete" /\ pc[h] \notin Removals \union {"sweep"} /\ ~Locked(i)
      /\ UNCHANGED <<disk, expired, failures>>
  BY DEF DeleteRow, Removals
<1>2. CASE row[i] = None
  <2>1. Answer(h) /\ Stays /\ UNCHANGED failures
    BY <1>1, <1>2 DEF DeleteRow, Stays
  <2> QED
    BY <1>1, <2>1, AnswerKeeps
<1>3. CASE row[i] # None
  <2>1. Dropped({i}) /\ Goto(h, "remove parts") /\ UNCHANGED holds
    BY <1>3 DEF DeleteRow
  <2>2. HandlerInv(h) /\ pc \in [Handlers -> Pc]
    BY DEF IInv, TypeOK
  <2>3. i \in Ids
    BY <1>1, <2>2, IdTyped DEF HandlerInv
  <2>4. /\ holds' = [holds EXCEPT ![h] = holds[h]] /\ "remove parts" \in Pc
        /\ holds[h] \in Ids \union {UserRow, None}
    BY <2>1 DEF IInv, TypeOK, Pc, Removals
  <2>5. /\ \A g \in Handlers : g # h => Same(g)
        /\ pc' \in [Handlers -> Pc] /\ request' \in [Handlers -> Request]
        /\ pc'[h] = "remove parts" /\ request'[h] = request[h] /\ Id(h)' = i
    BY <2>1, <2>4, GotoFacts DEF IInv
  <2>6. RequestInv(h)'
    BY <1>1, <2>2, <2>5 DEF HandlerInv, RequestInv, Removals
  <2>7. LockInv(h)'
    BY <2>5 DEF LockInv, Locking
  <2>8. Gone(i)'
    BY <2>1, <2>3 DEF Dropped, Gone
  <2>9. RemovalInv(h)'
    BY <2>5, <2>8 DEF RemovalInv, Gone
  <2>10. HandlerInv(h)'
    BY <2>6, <2>7, <2>9 DEF HandlerInv
  <2>11. Removes(i, {"remove parts"})'
    BY <2>5 DEF Removes
  <2>12. ASSUME NEW j \in Ids, j # i, row[j] = None
         PROVE  LeftInv(j)'
    <3>1. LeftInv(j) /\ SameDisk(j)
      BY <1>1 DEF IInv, IdInv, SameDisk, disk
    <3>2. \A g \in Handlers : pc[g] \in Removals \union {"sweep"} => Same(g)
      BY <1>1, <2>5
    <3> QED
      BY <1>1, <2>12, <3>1, <3>2, LeftStays
  <2>13. expired' \in [Ids -> Removals \union {None}]
    BY <1>1 DEF IInv, TypeOK
  <2> QED
    BY <1>1, <2>1, <2>3, <2>5, <2>10, <2>11, <2>12, <2>13, DropStep
<1> QED
  BY <1>2, <1>3

LEMMA CleanupRowsKeeps ==
  ASSUME IInv, CleanupRows
  PROVE  IInv'
<1>1. /\ \A i \in Ids : expired[i] = None
      /\ \A i \in Abandoned : ~Locked(i)
      /\ Dropped(Abandoned)
      /\ expired' = [i \in Ids |-> IF i \in Abandoned THEN "remove parts" ELSE None]
      /\ UNCHANGED <<disk, pc, request, holds, failures>>
  BY DEF CleanupRows
<1>2. Abandoned \in SUBSET Ids
  BY DEF Abandoned, IInv, TypeOK
<1>3. /\ \A g \in Handlers : Same(g)
      /\ pc' \in [Handlers -> Pc] /\ request' \in [Handlers -> Request]
      /\ expired' \in [Ids -> Removals \union {None}]
  BY <1>1 DEF IInv, TypeOK, Same, Removals
<1>4. ASSUME NEW i \in Abandoned
      PROVE  Removes(i, {"remove parts"})'
  BY <1>1, <1>2 DEF Removes
<1>5. ASSUME NEW i \in Ids, i \notin Abandoned
      PROVE  expired'[i] = expired[i] /\ (row[i] = None => LeftInv(i)')
  <2>1. expired'[i] = expired[i] /\ LeftInv(i) /\ SameDisk(i)
    BY <1>1, <1>5 DEF IInv, IdInv, SameDisk, disk
  <2> QED
    BY <1>1, <1>3, <2>1, LeftStays
<1> QED
  BY <1>1, <1>2, <1>3, <1>4, <1>5, DropStep
-----------------------------------------------------------------------------
(* Time passes, and the server stops.                                      *)
LEMMA OnlyStale ==
  ASSUME IInv, stale' \subseteq {i \in Ids : row'[i] # None},
         UNCHANGED <<row, part, disk, pc, request, holds, expired, overtaken, failures>>
  PROVE  IInv'
<1>1. /\ \A g \in Handlers : Same(g)
      /\ UNCHANGED <<row, part, partFile, assembled, object, pc, request, holds,
                     expired, overtaken, failures>>
  BY DEF disk, Same
<1>2. TypeOK' /\ CompleteHasObject' /\ PartsHaveFiles' /\ Exclusive'
  BY <1>1 DEF IInv, TypeOK, CompleteHasObject, PartsHaveFiles, Exclusive
<1>3. ASSUME NEW g \in Handlers
      PROVE  HandlerInv(g)'
  <2> PICK j : j = Id(g)
    OBVIOUS
  <2>1. HandlerInv(g) /\ Same(g) /\ SameDisk(j) /\ row' = row /\ overtaken' = overtaken
    BY <1>1 DEF IInv, SameDisk
  <2>2. pc[g] = "sweep" => Gone(j) \/ row[j].status = "complete"
    BY <2>1 DEF HandlerInv, RemovalInv
  <2> QED
    BY <2>1, <2>2, Bystander DEF Gone
<1>4. ASSUME NEW i \in Ids
      PROVE  IdInv(i)'
  <2>1. LeftInv(i) /\ (expired[i] # None => Gone(i)) /\ SameDisk(i)
    BY <1>1 DEF IInv, IdInv, SameDisk
  <2>2. LeftInv(i)'
    BY <1>1, <2>1, LeftStays
  <2> QED
    BY <1>1, <2>1, <2>2 DEF IdInv, Gone
<1> QED
  BY <1>2, <1>3, <1>4 DEF IInv

LEMMA AgeKeeps ==
  ASSUME IInv, Age
  PROVE  IInv'
BY OnlyStale DEF Age, IInv, TypeOK

LEMMA CrashKeeps ==
  ASSUME IInv, Crash
  PROVE  IInv'
<1>1. /\ pc' = [h \in Handlers |-> "idle"] /\ request' = [h \in Handlers |-> NoRequest]
      /\ holds' = [h \in Handlers |-> None] /\ expired' = [i \in Ids |-> None]
      /\ UNCHANGED <<row, part, stale, partFile, assembled, object, overtaken>>
  BY DEF Crash, database, disk
<1>2. failures' \in 0 .. MaxFailures /\ failures' # 0
  BY StoreAssumption DEF Crash, Failure, IInv, TypeOK
<1>3. TypeOK'
  BY <1>1, <1>2 DEF IInv, TypeOK, Pc, Request
<1>4. CompleteHasObject' /\ PartsHaveFiles'
  BY <1>1 DEF IInv, CompleteHasObject, PartsHaveFiles
<1>5. Exclusive'
  BY <1>1 DEF Exclusive
<1>6. ASSUME NEW h \in Handlers
      PROVE  HandlerInv(h)'
  BY <1>1 DEF HandlerInv, RequestInv, LockInv, RemovalInv, Locking, Removals
<1>7. ASSUME NEW i \in Ids
      PROVE  IdInv(i)'
  BY <1>1, <1>2 DEF IdInv, LeftInv
<1> QED
  BY <1>3, <1>4, <1>5, <1>6, <1>7 DEF IInv

LEMMA StutterKeeps ==
  ASSUME IInv, UNCHANGED vars
  PROVE  IInv'
BY OnlyStale DEF vars, database, IInv, TypeOK

LEMMA StepKeeps ==
  ASSUME IInv, Next
  PROVE  IInv'
<1>1. ASSUME NEW h \in Handlers, Step(h)
      PROVE  IInv'
  BY <1>1, CreateLookupKeeps, CreateReserveKeeps, CreateInsertKeeps, PartTouchKeeps,
     PartWriteKeeps, PartRecordKeeps, CompleteCheckKeeps, CompleteAssembleKeeps,
     CompleteRenameKeeps, CompleteRecordKeeps, CompleteSweepKeeps, DeleteRowKeeps,
     DeleteFilesKeeps DEF Step
<1>2. ASSUME NEW h \in Handlers, Receive(h) \/ Fail(h)
      PROVE  IInv'
  BY <1>2, ReceiveKeeps, FailKeeps
<1> QED
  BY <1>1, <1>2, CleanupRowsKeeps, CleanupFilesKeeps, AgeKeeps, CrashKeeps DEF Next

LEMMA InitInv == Init => IInv
<1> SUFFICES ASSUME Init
             PROVE  IInv
  OBVIOUS
<1>1. TypeOK
  <2>1. NoParts \in [Number -> Files \union {None}] /\ NoRequest \in Request /\ "idle" \in Pc
    BY DEF NoParts, Request, Pc
  <2>2. 0 \in 0 .. MaxFailures
    BY StoreAssumption
  <2> QED
    BY <2>1, <2>2 DEF Init, TypeOK
<1>2. CompleteHasObject /\ PartsHaveFiles /\ Exclusive
  BY DEF Init, CompleteHasObject, PartsHaveFiles, Exclusive
<1>3. ASSUME NEW h \in Handlers
      PROVE  HandlerInv(h)
  BY DEF Init, HandlerInv, RequestInv, LockInv, RemovalInv, Locking, Removals
<1>4. ASSUME NEW i \in Ids
      PROVE  IdInv(i)
  BY DEF Init, IdInv, LeftInv
<1> QED
  BY <1>1, <1>2, <1>3, <1>4 DEF IInv
-----------------------------------------------------------------------------
(* The quota. A handler between the sum and the insertion holds the user's *)
(* row, and so is alone there: what it found to fit still does when the row*)
(* is inserted, for all the others can do is take rows away. What is longer*)
(* than the quota was let in when there was nothing, and there still is.   *)
Fits(f) == Reserved = 0 \/ Reserved + Length(f) <= Quota
Inserting(h) == pc[h] = "insert" => holds[h] = UserRow /\ Fits(request[h].file)

QuotaInv == QuotaHeld /\ \A h \in Handlers : Inserting(h)

(* A row's parts are as many as its file is long.                          *)
LEMMA UnitsOfFile ==
  ASSUME NEW i, NEW f \in Files
  PROVE  /\ IsFiniteSet({i} \X Numbers(f))
         /\ Cardinality({i} \X Numbers(f)) = Length(f)
         /\ Length(f) \in Nat
<1>1. Length(f) \in Nat \ {0}
  BY StoreAssumption
<1>2. IsFiniteSet(Numbers(f)) /\ Cardinality(Numbers(f)) = Length(f)
  <2> PICK n \in Int : n = Length(f) - 1 /\ n >= 0
    BY <1>1
  <2>1. IsFiniteSet(0 .. n) /\ Cardinality(0 .. n) = IF 0 > n THEN 0 ELSE n - 0 + 1
    BY FS_Interval
  <2> QED
    BY <1>1, <2>1 DEF Numbers
<1>3. IsFiniteSet({i}) /\ Cardinality({i}) = 1
  BY FS_Singleton
<1>4. /\ IsFiniteSet({i} \X Numbers(f))
      /\ Cardinality({i} \X Numbers(f)) = Cardinality({i}) * Cardinality(Numbers(f))
  BY <1>2, <1>3, FS_Product
<1> QED
  BY <1>1, <1>2, <1>3, <1>4

(* The rows of finitely many identifiers have finitely many parts.         *)
LEMMA UnitsFinite ==
  ASSUME TypeOK
  PROVE  IsFiniteSet(Units) /\ Reserved \in Nat
<1> DEFINE taken == {j \in Ids : row[j] # None}
           unitsOf == [i \in taken |-> {i} \X Numbers(row[i].file)]
           all == {unitsOf[i] : i \in taken}
<1>1. IsFiniteSet(taken)
  BY StoreAssumption, FS_Subset
<1>2. unitsOf \in Surjection(taken, all)
  BY DEF Surjection
<1>3. IsFiniteSet(all)
  BY <1>1, <1>2, FS_Surjection
<1>4. ASSUME NEW u \in all
      PROVE  IsFiniteSet(u)
  <2>1. PICK i \in taken : u = {i} \X Numbers(row[i].file)
    OBVIOUS
  <2>2. row[i].file \in Files
    BY DEF TypeOK, Row
  <2> QED
    BY <2>1, <2>2, UnitsOfFile
<1>5. IsFiniteSet(UNION all)
  BY <1>3, <1>4, FS_UNION
<1>6. Units = UNION all
  BY DEF Units
<1> QED
  BY <1>5, <1>6, FS_CardinalityType DEF Reserved

(* Where nothing is reserved there is no row: every row has a part.        *)
LEMMA NothingReserved ==
  ASSUME TypeOK, Reserved = 0, NEW i \in Ids
  PROVE  row[i] = None
<1> SUFFICES ASSUME row[i] # None
             PROVE  FALSE
  OBVIOUS
<1>1. Units = {}
  BY UnitsFinite, FS_EmptySet DEF Reserved
<1>2. row[i].file \in Files
  BY DEF TypeOK, Row
<1>3. Length(row[i].file) \in Nat \ {0}
  BY <1>2, StoreAssumption
<1>4. 0 \in Numbers(row[i].file)
  BY <1>3 DEF Numbers
<1>5. <<i, 0>> \in Units
  BY <1>4 DEF Units
<1> QED
  BY <1>1, <1>5

(* Steps that insert no row, and bring no handler to its insertion.        *)
LEMMA QuotaStays ==
  ASSUME IInv, IInv', QuotaInv,
         \A i \in Ids : row'[i] # None => row[i] # None /\ row'[i].file = row[i].file,
         \A g \in Handlers : pc'[g] = "insert" => Same(g)
  PROVE  QuotaInv'
<1>1. Units' \subseteq Units
  BY DEF Units
<1>2. Reserved \in Nat /\ Reserved' \in Nat /\ Reserved' <= Reserved
  <2>1. IsFiniteSet(Units) /\ Reserved \in Nat
    BY UnitsFinite DEF IInv
  <2>2. IsFiniteSet(Units') /\ Cardinality(Units') <= Cardinality(Units)
    BY <1>1, <2>1, FS_Subset
  <2> QED
    BY <2>1, <2>2, FS_CardinalityType DEF Reserved
<1>3. Quota \in Nat
  BY StoreAssumption
<1>4. ASSUME NEW g \in Handlers, pc'[g] = "insert"
      PROVE  holds'[g] = UserRow /\ Fits(request[g].file)' /\ request'[g] = request[g]
  <2>1. pc[g] = "insert" /\ holds'[g] = holds[g] /\ request'[g] = request[g]
    BY <1>4 DEF Same
  <2>2. holds[g] = UserRow /\ Fits(request[g].file)
    BY <2>1 DEF QuotaInv, Inserting
  <2>3. Length(request[g].file) \in Nat
    <3>1. request[g].file \in Files
      BY <2>1 DEF IInv, HandlerInv, RequestInv
    <3> QED
      BY <3>1, UnitsOfFile
  <2> QED
    BY <1>2, <1>3, <2>1, <2>2, <2>3 DEF Fits
<1>5. QuotaHeld'
  <2>1. CASE Reserved <= Quota
    BY <1>2, <1>3, <2>1 DEF QuotaHeld
  <2>2. ASSUME NEW i \in Ids, OnlyRow(i)
        PROVE  QuotaHeld'
    <3>1. CASE row'[i] # None
      BY <2>2, <3>1 DEF QuotaHeld, OnlyRow
    <3>2. CASE row'[i] = None
      <4>1. Units' = {}
        BY <2>2, <3>2 DEF OnlyRow, Units
      <4>2. Reserved' = 0
        BY <4>1, FS_EmptySet DEF Reserved
      <4> QED
        BY <1>3, <4>2 DEF QuotaHeld
    <3> QED
      BY <3>1, <3>2
  <2> QED
    BY <2>1, <2>2 DEF QuotaInv, QuotaHeld
<1> QED
  BY <1>4, <1>5 DEF QuotaInv, Inserting, Fits

(* Space is reserved: nobody else is at its insertion, for it would hold   *)
(* the row this handler has just locked.                                   *)
LEMMA ReserveFits ==
  ASSUME IInv, IInv', QuotaInv, NEW h \in Handlers, CreateReserve(h)
  PROVE  QuotaInv'
<1>1. pc[h] = "reserve" /\ UNCHANGED row /\ \A g \in Handlers : holds[g] # UserRow
  BY DEF CreateReserve, Locked, database
<1>2. \A g \in Handlers : pc[g] # "insert"
  BY <1>1 DEF QuotaInv, Inserting
<1>3. /\ Reserved' = Reserved /\ Reserved \in Nat /\ Quota \in Nat /\ QuotaHeld'
  BY <1>1, UnitsFinite, StoreAssumption DEF Reserved, Units, IInv, QuotaInv, QuotaHeld, OnlyRow
<1>4. CASE Answer(h)
  <2>1. \A g \in Handlers : pc'[g] # "insert"
    BY <1>2, <1>4 DEF Answer, IInv, TypeOK
  <2> QED
    BY <1>3, <2>1 DEF QuotaInv, Inserting
<1>5. CASE ~Answer(h)
  <2>1. /\ ~(Reserved > Room(request[h].file))
        /\ Goto(h, "insert") /\ holds' = [holds EXCEPT ![h] = UserRow]
    BY <1>5 DEF CreateReserve
  <2>2. Length(request[h].file) \in Nat
    BY <1>1, UnitsOfFile DEF IInv, HandlerInv, RequestInv
  <2>3. \A g \in Handlers : pc'[g] = "insert" => g = h
    BY <1>2, <2>1 DEF Goto, IInv, TypeOK
  <2>4. holds'[h] = UserRow /\ request' = request
    BY <2>1 DEF Goto, IInv, TypeOK
  <2>5. Fits(request[h].file)
    BY <1>3, <2>1, <2>2 DEF Room, Fits
  <2> QED
    BY <1>3, <2>3, <2>4, <2>5 DEF QuotaInv, Inserting, Fits
<1> QED
  BY <1>4, <1>5

(* The row is inserted: its parts are the ones that were found to fit.     *)
LEMMA InsertFits ==
  ASSUME IInv, IInv', QuotaInv, NEW h \in Handlers, CreateInsert(h)
  PROVE  QuotaInv'
<1> PICK i, f : i = Id(h) /\ f = request[h].file
  OBVIOUS
<1>1. pc[h] = "insert" /\ Answer(h) /\ UserRow # None
  BY StoreAssumption DEF CreateInsert
<1>2. i \in Ids /\ f \in Files
  BY <1>1, IdTyped DEF IInv, HandlerInv, TypeOK
<1>3. holds[h] = UserRow /\ Fits(f)
  BY <1>1 DEF QuotaInv, Inserting
<1>4. \A g \in Handlers : pc[g] = "insert" => g = h
  BY <1>1, <1>3 DEF QuotaInv, Inserting, IInv, Exclusive
<1>5. \A g \in Handlers : pc'[g] # "insert"
  BY <1>1, <1>4 DEF Answer, IInv, TypeOK
<1>6. Units' \subseteq Units \union ({i} \X Numbers(f))
  <2>1. CASE row[i] # None
    BY <2>1 DEF CreateInsert, Units
  <2>2. CASE row[i] = None
    <3>1. row' = [row EXCEPT ![i] = [file |-> f, status |-> "uploading"]]
      BY <2>2 DEF CreateInsert
    <3>2. row'[i].file = f /\ \A j \in Ids : j # i => row'[j] = row[j]
      BY <1>2, <3>1 DEF IInv, TypeOK
    <3> QED
      BY <3>2 DEF Units
  <2> QED
    BY <2>1, <2>2
<1>7. Reserved' <= Reserved + Length(f) /\ Reserved' \in Nat /\ Reserved \in Nat
  <2> DEFINE new == {i} \X Numbers(f)
  <2>1. IsFiniteSet(Units) /\ IsFiniteSet(new) /\ Cardinality(new) = Length(f) /\ Length(f) \in Nat
    BY <1>2, UnitsFinite, UnitsOfFile DEF IInv
  <2>2. /\ IsFiniteSet(Units \union new) /\ IsFiniteSet(Units \intersect new)
        /\ Cardinality(Units \union new)
             = Cardinality(Units) + Cardinality(new) - Cardinality(Units \intersect new)
    <3> HIDE DEF new
    <3> QED
      BY <2>1, FS_Union, FS_Subset
  <2>3. IsFiniteSet(Units') /\ Cardinality(Units') <= Cardinality(Units \union new)
    BY <1>6, <2>2, FS_Subset
  <2>4. /\ Cardinality(Units) \in Nat /\ Cardinality(Units') \in Nat
        /\ Cardinality(Units \intersect new) \in Nat
    BY <2>1, <2>2, <2>3, FS_CardinalityType
  <2> HIDE DEF new
  <2> QED
    BY <2>1, <2>2, <2>3, <2>4 DEF Reserved
<1>8. Quota \in Nat /\ Length(f) \in Nat
  BY <1>2, UnitsOfFile, StoreAssumption
<1>9. QuotaHeld'
  <2>1. CASE Reserved + Length(f) <= Quota
    BY <1>7, <1>8, <2>1 DEF QuotaHeld
  <2>2. CASE Reserved = 0
    <3>1. \A j \in Ids : row[j] = None
      BY <2>2, NothingReserved DEF IInv
    <3>2. row' = [row EXCEPT ![i] = [file |-> f, status |-> "uploading"]]
      BY <1>2, <3>1 DEF CreateInsert
    <3>3. row'[i] = [file |-> f, status |-> "uploading"] /\ \A j \in Ids \ {i} : row'[j] = None
      BY <1>2, <3>1, <3>2 DEF IInv, TypeOK
    <3>4. row'[i] # None
      BY <1>2, <3>3, NotNone DEF Row, Status
    <3> QED
      BY <1>2, <3>3, <3>4 DEF QuotaHeld, OnlyRow
  <2> QED
    BY <1>3, <2>1, <2>2 DEF Fits
<1> QED
  BY <1>5, <1>9 DEF QuotaInv, Inserting

(* No other step makes a row.                                              *)
LEMMA OthersMakeNoRow ==
  ASSUME IInv, Next, \A h \in Handlers : ~CreateInsert(h), NEW i \in Ids, row'[i] # None
  PROVE  row[i] # None /\ row'[i].file = row[i].file
<1>1. CASE UNCHANGED database
  BY <1>1 DEF database
<1>2. ASSUME UNCHANGED row
      PROVE  row[i] # None /\ row'[i].file = row[i].file
  BY <1>2
<1>3. ASSUME NEW h \in Handlers, CompleteRecord(h)
      PROVE  row[i] # None /\ row'[i].file = row[i].file
  <2>1. pc[h] \in Locking /\ row' = [row EXCEPT ![Id(h)].status = "complete"]
    BY <1>3 DEF CompleteRecord, Locking
  <2>2. Id(h) \in Ids /\ row[Id(h)] \in Row /\ row[Id(h)] # None
    BY <2>1, LockFacts
  <2>3. CASE i = Id(h)
    BY <2>1, <2>2, <2>3 DEF IInv, TypeOK, Row
  <2>4. CASE i # Id(h)
    BY <2>1, <2>4 DEF IInv, TypeOK
  <2> QED
    BY <2>3, <2>4
<1>4. ASSUME NEW gone, Dropped(gone)
      PROVE  row[i] # None /\ row'[i].file = row[i].file
  BY <1>4 DEF Dropped
<1> QED
  BY <1>1, <1>2, <1>3, <1>4
     DEF Next, Step, Receive, CreateLookup, CreateReserve, PartTouch, PartWrite, PartRecord,
         CompleteCheck, CompleteAssemble, CompleteRename, CompleteSweep, DeleteRow, DeleteFiles,
         Fail, CleanupRows, CleanupFiles, Crash, Age

-----------------------------------------------------------------------------
(* A handler comes to a step of its transaction by a step of its own.      *)
Checks(g) == PartTouch(g) \/ CompleteCheck(g)
Proceeds(g) == PartWrite(g) \/ CompleteAssemble(g) \/ CompleteRename(g)

Moves(h, p) == Goto(h, p) /\ \A k \in Handlers : k # h => holds'[k] = holds[k]

LEMMA Advances ==
  ASSUME IInv, Next, NEW g \in Handlers, pc'[g] \in Locking \union {"insert"}
  PROVE  Same(g) \/ (CreateReserve(g) /\ pc'[g] = "insert") \/ Checks(g) \/ Proceeds(g)
<1> DEFINE Own == (CreateReserve(g) /\ pc'[g] = "insert") \/ Checks(g) \/ Proceeds(g)
<1>1. TypeOK /\ pc \in [Handlers -> Pc] /\ holds \in [Handlers -> Ids \union {UserRow, None}]
      /\ request \in [Handlers -> Request]
  BY DEF IInv, TypeOK
<1>2. ASSUME NEW h \in Handlers, Answer(h)
      PROVE  Same(g)
  BY <1>1, <1>2, AnswerFacts DEF Locking
<1>3. ASSUME NEW h \in Handlers, NEW p, Moves(h, p)
      PROVE  Same(g) \/ (g = h /\ pc'[g] = p)
  BY <1>1, <1>3 DEF Goto, Moves, Same
<1>4. ASSUME NEW h \in Handlers, Receive(h)
      PROVE  Same(g)
  <2>1. PICK r \in Asked : /\ request' = [request EXCEPT ![h] = r]
                           /\ pc' = [pc EXCEPT ![h] = r.op]
    BY <1>4 DEF Receive
  <2>2. r.op \notin Locking \union {"insert"} /\ holds' = holds
    BY <1>4, StoreAssumption DEF Request, Receive, Locking
  <2>3. g # h
    BY <1>1, <2>1, <2>2
  <2> QED
    BY <1>1, <2>1, <2>2, <2>3 DEF Same
<1>5. ASSUME UNCHANGED <<pc, request, holds>>
      PROVE  Same(g)
  BY <1>5 DEF Same
<1>6. ~Crash
  BY DEF Crash, Locking
<1>7. pc'[g] \notin {"idle", "reserve", "sweep", "remove parts"}
  BY DEF Locking
<1>8. ASSUME NEW h \in Handlers, Step(h)
      PROVE  Same(g) \/ Own
  <2>1. CASE CreateLookup(h)
    <3>1. Answer(h) \/ Moves(h, "reserve")
      BY <2>1, <1>1 DEF CreateLookup, Moves
    <3> QED
      BY <3>1, <1>2, <1>3, <1>7
  <2>2. CASE CreateReserve(h)
    <3>1. Answer(h) \/ Moves(h, "insert")
      BY <2>2, <1>1 DEF CreateReserve, Moves
    <3> QED
      BY <2>2, <3>1, <1>2, <1>3 DEF Locking
  <2>3. CASE CreateInsert(h) \/ PartRecord(h) \/ CompleteSweep(h)
    BY <2>3, <1>2 DEF CreateInsert, PartRecord, CompleteSweep
  <2>4. CASE PartTouch(h)
    <3>1. Answer(h) \/ Moves(h, "write part")
      BY <2>4, <1>1 DEF PartTouch, Touched, Moves
    <3> QED
      BY <2>4, <3>1, <1>2, <1>3 DEF Checks
  <2>5. CASE PartWrite(h)
    <3>1. Moves(h, "record part")
      BY <2>5, <1>1 DEF PartWrite, Moves
    <3> QED
      BY <2>5, <3>1, <1>2, <1>3 DEF Proceeds
  <2>6. CASE CompleteCheck(h)
    <3>1. Answer(h) \/ Moves(h, "assemble")
      BY <2>6, <1>1 DEF CompleteCheck, Moves
    <3> QED
      BY <2>6, <3>1, <1>2, <1>3 DEF Checks
  <2>7. CASE CompleteAssemble(h)
    <3>1. Answer(h) \/ Moves(h, "rename")
      BY <2>7, AssembleChoices DEF Moves
    <3> QED
      BY <2>7, <3>1, <1>2, <1>3 DEF Proceeds
  <2>8. CASE CompleteRename(h)
    <3>1. Answer(h) \/ Moves(h, "record")
      BY <2>8, <1>1 DEF CompleteRename, Moves
    <3> QED
      BY <2>8, <3>1, <1>2, <1>3 DEF Proceeds
  <2>9. CASE CompleteRecord(h)
    <3>1. Moves(h, "sweep")
      BY <2>9, <1>1 DEF CompleteRecord, Moves
    <3> QED
      BY <3>1, <1>2, <1>3, <1>7
  <2>10. CASE DeleteRow(h)
    <3>1. Answer(h) \/ Moves(h, "remove parts")
      BY <2>10, <1>1 DEF DeleteRow, Moves
    <3> QED
      BY <3>1, <1>2, <1>3, <1>7
  <2>11. CASE DeleteFiles(h)
    <3>1. Answer(h) \/ Moves(h, After(pc[h]))
      BY <2>11 DEF DeleteFiles, Moves
    <3>2. pc[h] \in Removals /\ After(pc[h]) \notin Locking \union {"insert"}
      BY <2>11, StoreAssumption DEF DeleteFiles, Removals, After, Pc, Locking
    <3> QED
      BY <3>1, <3>2, <1>2, <1>3
  <2> QED
    BY <1>8, <2>1, <2>2, <2>3, <2>4, <2>5, <2>6, <2>7, <2>8, <2>9, <2>10, <2>11 DEF Step
<1>9. ASSUME NEW h \in Handlers, Fail(h)
      PROVE  Same(g)
  BY <1>2, <1>9 DEF Fail
<1>10. CASE CleanupRows \/ CleanupFiles \/ Age
  BY <1>5, <1>10 DEF CleanupRows, CleanupFiles, Age
<1> QED
  BY <1>4, <1>6, <1>8, <1>9, <1>10 DEF Next

(* Of the others only a reservation leads to an insertion.                 *)
LEMMA OthersDoNotInsert ==
  ASSUME IInv, Next, \A h \in Handlers : ~CreateReserve(h), NEW g \in Handlers, pc'[g] = "insert"
  PROVE  Same(g)
<1>1. Checks(g) \/ Proceeds(g) => pc'[g] # "insert"
  <2>1. ASSUME NEW p, Goto(g, p), p # "insert"
        PROVE  pc'[g] # "insert"
    BY <2>1 DEF Goto, IInv, TypeOK
  <2>2. ~Answer(g)
    BY DEF Answer, IInv, TypeOK
  <2> QED
    BY <2>1, <2>2, AssembleChoices
       DEF Checks, Proceeds, PartTouch, Touched, CompleteCheck, PartWrite, CompleteRename
<1> QED
  BY <1>1, Advances

(* The lock of a row is for the row and for its parts.                     *)
LEMMA LockedRowStays ==
  ASSUME IInv, Next, NEW g \in Handlers, pc[g] \in Locking, Same(g)
  PROVE  row'[Id(g)] = row[Id(g)] /\ part'[Id(g)] = part[Id(g)]
<1> PICK i : i = Id(g)
  OBVIOUS
<1>1. /\ i \in Ids /\ holds[g] = i /\ row[i] # None
      /\ \A h \in Handlers : h # g /\ pc[h] \in Locking => Id(h) # i
  BY LockFacts
<1>2. CASE UNCHANGED <<row, part>>
  BY <1>2
<1>3. ASSUME NEW h \in Handlers, CreateInsert(h)
      PROVE  row'[i] = row[i] /\ part'[i] = part[i]
  BY <1>1, <1>3 DEF CreateInsert, IInv, TypeOK
<1>4. ASSUME NEW h \in Handlers, PartRecord(h) \/ CompleteRecord(h)
      PROVE  row'[i] = row[i] /\ part'[i] = part[i]
  <2>1. pc[h] \in Locking /\ pc'[h] # pc[h]
    BY <1>4 DEF PartRecord, CompleteRecord, Locking, Answer, Goto, IInv, TypeOK
  <2>2. Id(h) # i
    BY <1>1, <2>1 DEF Same
  <2>3. CASE PartRecord(h)
    BY <1>1, <2>2, <2>3 DEF PartRecord, IInv, TypeOK
  <2>4. CASE CompleteRecord(h)
    BY <1>1, <2>2, <2>4 DEF CompleteRecord, IInv, TypeOK
  <2> QED
    BY <1>4, <2>3, <2>4
<1>5. ASSUME NEW h \in Handlers, DeleteRow(h)
      PROVE  row'[i] = row[i] /\ part'[i] = part[i]
  <2>1. CASE row[Id(h)] = None
    BY <1>5, <2>1 DEF DeleteRow, database
  <2>2. CASE row[Id(h)] # None
    <3>1. Dropped({Id(h)}) /\ Id(h) # i
      BY <1>1, <1>5, <2>2 DEF DeleteRow, Locked
    <3> QED
      BY <1>1, <3>1 DEF Dropped
  <2> QED
    BY <2>1, <2>2
<1>6. ASSUME CleanupRows
      PROVE  row'[i] = row[i] /\ part'[i] = part[i]
  <2>1. Dropped(Abandoned) /\ i \notin Abandoned
    <3>1. Dropped(Abandoned) /\ \A j \in Abandoned : ~Locked(j)
      BY <1>6 DEF CleanupRows
    <3>2. Locked(i)
      BY <1>1 DEF Locked
    <3> QED
      BY <3>1, <3>2
  <2> QED
    BY <1>1, <2>1 DEF Dropped
<1> QED
  BY <1>2, <1>3, <1>4, <1>5, <1>6
     DEF Next, Step, Receive, CreateLookup, CreateReserve, PartTouch, PartWrite, CompleteCheck,
         CompleteAssemble, CompleteRename, CompleteSweep, DeleteFiles, Fail, CleanupFiles, Crash,
         Age, database

(* What upload_part and complete have checked under the lock holds until   *)
(* they commit.                                                            *)
Checked(h) ==
  LET i == Id(h) IN
  /\ pc[h] \in {"write part", "record part"} => request[h].number \in Numbers(row[i].file)
  /\ pc[h] \in {"assemble", "rename", "record"} => part[i] = Numbers(row[i].file)

CheckedInv == \A h \in Handlers : Checked(h)

LEMMA CheckedStays ==
  ASSUME IInv, CheckedInv, Next
  PROVE  CheckedInv'
<1> SUFFICES ASSUME NEW g \in Handlers, pc'[g] \in Locking
             PROVE  Checked(g)'
  BY DEF CheckedInv, Checked, Locking
<1>1. CASE Same(g)
  <2>1. Id(g)' = Id(g) /\ pc[g] \in Locking
    BY <1>1 DEF Same, Id
  <2>2. row'[Id(g)] = row[Id(g)] /\ part'[Id(g)] = part[Id(g)]
    BY <1>1, <2>1, LockedRowStays
  <2> QED
    BY <1>1, <2>1, <2>2 DEF CheckedInv, Checked, Same
<1>2. CASE Checks(g)
  <2>1. ~Answer(g)
    BY DEF Answer, IInv, TypeOK, Locking
  <2>2. CASE PartTouch(g)
    <3>1. /\ Goto(g, "write part") /\ row' = row
          /\ request[g].number \in Numbers(row[Id(g)].file)
      BY <2>1, <2>2 DEF PartTouch, Touched, database
    <3>2. Id(g)' = Id(g) /\ request' = request /\ pc'[g] = "write part"
      BY <3>1 DEF Goto, Id, IInv, TypeOK
    <3> QED
      BY <3>1, <3>2 DEF Checked
  <2>3. CASE CompleteCheck(g)
    <3>1. /\ Goto(g, "assemble") /\ row' = row /\ part' = part
          /\ part[Id(g)] = Numbers(row[Id(g)].file)
      BY <2>1, <2>3 DEF CompleteCheck, AllRecorded, database
    <3>2. Id(g)' = Id(g) /\ pc'[g] = "assemble"
      BY <3>1 DEF Goto, Id, IInv, TypeOK
    <3> QED
      BY <3>1, <3>2 DEF Checked
  <2> QED
    BY <1>2, <2>2, <2>3 DEF Checks
<1>3. CASE Proceeds(g)
  <2>1. ~Answer(g)
    BY DEF Answer, IInv, TypeOK, Locking
  <2>2. /\ UNCHANGED <<row, part>>
        /\ \/ pc[g] = "write part" /\ Goto(g, "record part")
           \/ pc[g] = "assemble" /\ Goto(g, "rename")
           \/ pc[g] = "rename" /\ Goto(g, "record")
    BY <1>3, <2>1, AssembleChoices
       DEF Proceeds, PartWrite, CompleteAssemble, CompleteRename, database
  <2>3. /\ Id(g)' = Id(g) /\ request' = request
        /\ \/ pc[g] = "write part" /\ pc'[g] = "record part"
           \/ pc[g] = "assemble" /\ pc'[g] = "rename"
           \/ pc[g] = "rename" /\ pc'[g] = "record"
    BY <2>2 DEF Goto, Id, IInv, TypeOK
  <2> QED
    BY <2>2, <2>3 DEF CheckedInv, Checked
<1> QED
  BY <1>1, <1>2, <1>3, Advances DEF Locking
-----------------------------------------------------------------------------
(* Every commit is a step of the contract.                                 *)
LEMMA CommittedTyped ==
  ASSUME TypeOK, NEW i \in Ids
  PROVE  /\ row[i] = None => Committed[i] = None /\ part[i] = {}
         /\ row[i] # None =>
              /\ Committed[i] = [file |-> row[i].file, status |-> row[i].status,
                                 parts |-> part[i]]
              /\ Committed[i] # None
<1>1. row[i] # None => [file |-> row[i].file, status |-> row[i].status, parts |-> part[i]] \in Upload
  BY DEF TypeOK, Row, Upload
<1>2. \A u \in Upload : u # None
  BY StoreAssumption
<1> QED
  BY <1>1, <1>2 DEF TypeOK, Committed

LEMMA InsertBegins ==
  ASSUME IInv, IInv', NEW h \in Handlers, CreateInsert(h)
  PROVE  Committed' = Committed \/ \E f \in Files : Contract!Begin(f)
<1> PICK i, f : i = Id(h) /\ f = request[h].file
  OBVIOUS
<1>1. pc[h] = "insert" /\ part' = part
  BY DEF CreateInsert
<1>2. i \in Ids /\ f \in Files /\ i = Name(f)
  <2>1. request[h] \in [op : {"create"}, file : Files]
    BY <1>1 DEF IInv, HandlerInv, RequestInv
  <2> QED
    BY <2>1, StoreAssumption DEF Id
<1>3. CASE row[i] # None
  BY <1>1, <1>3 DEF CreateInsert, Committed
<1>4. CASE row[i] = None
  <2>1. row' = [row EXCEPT ![i] = [file |-> f, status |-> "uploading"]]
    BY <1>4 DEF CreateInsert
  <2>2. /\ row'[i] = [file |-> f, status |-> "uploading"]
        /\ \A j \in Ids : j # i => row'[j] = row[j]
    BY <1>2, <2>1 DEF IInv, TypeOK
  <2>3. row'[i] # None /\ part[i] = {} /\ Committed[i] = None
    BY <1>2, <1>4, <2>2, NotNone, CommittedTyped DEF IInv, Row, Status
  <2>4. Committed' = [Committed EXCEPT
          ![i] = [file |-> f, status |-> "uploading", parts |-> {}]]
    <3>1. Committed'[i] = [file |-> f, status |-> "uploading", parts |-> {}]
      <4>1. /\ row'[i] # None /\ row'[i].file = f /\ row'[i].status = "uploading"
            /\ part'[i] = {}
        BY <1>1, <2>2, <2>3
      <4>2. Committed'[i] = [file |-> row'[i].file, status |-> row'[i].status,
                             parts |-> part'[i]]
        BY <1>2, <4>1 DEF Committed
      <4> QED
        BY <4>1, <4>2
    <3>2. \A j \in Ids : j # i => Committed'[j] = Committed[j]
      BY <1>1, <2>2 DEF Committed
    <3>3. Committed' = [Committed EXCEPT ![i] = Committed'[i]]
      BY <3>2 DEF Committed
    <3> QED
      BY <3>1, <3>3
  <2>5. Committed[Name(f)] = None
    BY <1>2, <2>3
  <2>6. Committed' = [Committed EXCEPT
          ![Name(f)] = [file |-> f, status |-> "uploading", parts |-> {}]]
    BY <1>2, <2>4
  <2>7. Contract!Begin(f)
    BY <2>5, <2>6, Zenon DEF Contract!Begin
  <2> QED
    BY <1>2, <2>7
<1> QED
  BY <1>3, <1>4

LEMMA RecordTakes ==
  ASSUME IInv, CheckedInv, NEW h \in Handlers, PartRecord(h)
  PROVE  \E i \in Ids : Contract!Take(i)
<1> PICK i, n : i = Id(h) /\ n = request[h].number
  OBVIOUS
<1>1. /\ pc[h] = "record part" /\ pc[h] \in Locking /\ row' = row
      /\ part' = [part EXCEPT ![i] = @ \union {n}]
  BY DEF PartRecord, Locking
<1>2. i \in Ids /\ row[i] # None /\ row[i].status = "uploading"
  BY <1>1, LockFacts
<1>3. n \in Numbers(row[i].file)
  BY <1>1 DEF CheckedInv, Checked
<1>4. /\ Committed[i] = [file |-> row[i].file, status |-> row[i].status, parts |-> part[i]]
      /\ Committed[i] # None
  BY <1>2, CommittedTyped DEF IInv
<1>5. part'[i] = part[i] \union {n} /\ \A j \in Ids : j # i => part'[j] = part[j]
  BY <1>1, <1>2 DEF IInv, TypeOK
<1>6. Committed' = [Committed EXCEPT ![i].parts = @ \union {n}]
  <2>1. Committed'[i] = [file |-> row[i].file, status |-> row[i].status,
                         parts |-> part[i] \union {n}]
    BY <1>1, <1>2, <1>5 DEF Committed
  <2>2. \A j \in Ids : j # i => Committed'[j] = Committed[j]
    BY <1>1, <1>5 DEF Committed
  <2>3. [Committed[i] EXCEPT !.parts = @ \union {n}]
          = [file |-> row[i].file, status |-> row[i].status, parts |-> part[i] \union {n}]
    BY <1>4
  <2>4. Committed' = [Committed EXCEPT ![i] = Committed'[i]]
    BY <2>2 DEF Committed
  <2> QED
    BY <2>1, <2>3, <2>4
<1>7. Committed[i] # None /\ Committed[i].status = "uploading" /\ n \in Numbers(Committed[i].file)
  BY <1>2, <1>3, <1>4
<1>8. Contract!Take(i)
  BY <1>6, <1>7, Zenon DEF Contract!Take, Contract!Uploading
<1> QED
  BY <1>2, <1>8

LEMMA RecordCompletes ==
  ASSUME IInv, CheckedInv, NEW h \in Handlers, CompleteRecord(h)
  PROVE  \E i \in Ids : Contract!Complete(i)
<1> PICK i : i = Id(h)
  OBVIOUS
<1>1. /\ pc[h] = "record" /\ pc[h] \in Locking /\ part' = part
      /\ row' = [row EXCEPT ![i].status = "complete"]
  BY DEF CompleteRecord, Locking
<1>2. i \in Ids /\ row[i] # None /\ row[i].status = "uploading" /\ row[i] \in Row
  BY <1>1, LockFacts
<1>3. part[i] = Numbers(row[i].file)
  BY <1>1 DEF CheckedInv, Checked
<1>4. /\ Committed[i] = [file |-> row[i].file, status |-> row[i].status, parts |-> part[i]]
      /\ Committed[i] # None
  BY <1>2, CommittedTyped DEF IInv
<1>5. /\ row'[i] = [file |-> row[i].file, status |-> "complete"] /\ row'[i] \in Row
      /\ row'[i] # None /\ \A j \in Ids : j # i => row'[j] = row[j]
  BY <1>1, <1>2, NotNone DEF IInv, TypeOK, Row, Status
<1>6. Committed' = [Committed EXCEPT ![i].status = "complete"]
  <2>1. Committed'[i] = [file |-> row[i].file, status |-> "complete", parts |-> part[i]]
    BY <1>1, <1>2, <1>5 DEF Committed
  <2>2. \A j \in Ids : j # i => Committed'[j] = Committed[j]
    BY <1>1, <1>5 DEF Committed
  <2>3. [Committed[i] EXCEPT !.status = "complete"]
          = [file |-> row[i].file, status |-> "complete", parts |-> part[i]]
    BY <1>4
  <2>4. Committed' = [Committed EXCEPT ![i] = Committed'[i]]
    BY <2>2 DEF Committed
  <2> QED
    BY <2>1, <2>3, <2>4
<1>7. /\ Committed[i] # None /\ Committed[i].status = "uploading"
      /\ Committed[i].parts = Numbers(Committed[i].file)
  BY <1>2, <1>3, <1>4
<1>8. Contract!Complete(i)
  BY <1>6, <1>7, Zenon DEF Contract!Complete, Contract!Uploading
<1> QED
  BY <1>2, <1>8

LEMMA DroppedCommitted ==
  ASSUME NEW gone \in SUBSET Ids, Dropped(gone)
  PROVE  Committed' = [i \in Ids |-> IF i \in gone THEN None ELSE Committed[i]]
BY DEF Dropped, Committed

LEMMA RowDeleted ==
  ASSUME IInv, NEW h \in Handlers, DeleteRow(h)
  PROVE  Committed' = Committed \/ \E i \in Ids : Contract!Delete(i)
<1> PICK i : i = Id(h)
  OBVIOUS
<1>1. CASE row[i] = None
  BY <1>1 DEF DeleteRow, database, Committed
<1>2. CASE row[i] # None
  <2>1. pc[h] = "delete" /\ Dropped({i})
    BY <1>2 DEF DeleteRow
  <2>2. i \in Ids
    BY <2>1, IdTyped DEF IInv, HandlerInv, TypeOK
  <2>3. Committed' = [j \in Ids |-> IF j \in {i} THEN None ELSE Committed[j]]
    BY <2>1, <2>2, DroppedCommitted
  <2>4. Committed' = [Committed EXCEPT ![i] = None]
    BY <2>3 DEF Committed
  <2> QED
    BY <2>2, <2>4 DEF Contract!Delete
<1> QED
  BY <1>1, <1>2

LEMMA RowsAbandoned ==
  ASSUME IInv, CleanupRows
  PROVE  \E gone \in SUBSET Ids : Contract!Abandon(gone)
<1>1. Abandoned \in SUBSET Ids /\ Dropped(Abandoned)
  BY DEF CleanupRows, Abandoned, IInv, TypeOK
<1>2. Committed' = [i \in Ids |-> IF i \in Abandoned THEN None ELSE Committed[i]]
  BY <1>1 DEF Dropped, Committed
<1>3. \A i \in Abandoned : Contract!Uploading(i)
  <2> SUFFICES ASSUME NEW i \in Abandoned
               PROVE  Committed[i] # None /\ Committed[i].status = "uploading"
    BY DEF Contract!Uploading
  <2>1. i \in Ids /\ row[i] # None /\ row[i].status = "uploading"
    BY DEF Abandoned, IInv, TypeOK
  <2>2. /\ Committed[i] = [file |-> row[i].file, status |-> row[i].status, parts |-> part[i]]
        /\ Committed[i] # None
    BY <2>1, CommittedTyped DEF IInv
  <2> QED
    BY <2>1, <2>2
<1> QED
  BY <1>1, <1>2, <1>3 DEF Contract!Abandon

LEMMA StepIsPromised ==
  ASSUME IInv, IInv', CheckedInv, Next
  PROVE  Committed' = Committed \/ Contract!Next
<1>1. CASE UNCHANGED <<row, part>>
  BY <1>1 DEF Committed
<1>2. ASSUME NEW h \in Handlers, CreateInsert(h)
      PROVE  Committed' = Committed \/ Contract!Next
  BY <1>2, InsertBegins DEF Contract!Next
<1>3. ASSUME NEW h \in Handlers, PartRecord(h)
      PROVE  Contract!Next
  BY <1>3, RecordTakes DEF Contract!Next
<1>4. ASSUME NEW h \in Handlers, CompleteRecord(h)
      PROVE  Contract!Next
  BY <1>4, RecordCompletes DEF Contract!Next
<1>5. ASSUME NEW h \in Handlers, DeleteRow(h)
      PROVE  Committed' = Committed \/ Contract!Next
  BY <1>5, RowDeleted DEF Contract!Next
<1>6. CASE CleanupRows
  BY <1>6, RowsAbandoned DEF Contract!Next
<1> QED
  BY <1>1, <1>2, <1>3, <1>4, <1>5, <1>6
     DEF Next, Step, Receive, CreateLookup, CreateReserve, PartTouch, PartWrite, CompleteCheck,
         CompleteAssemble, CompleteRename, CompleteSweep, DeleteFiles, Fail, CleanupFiles, Crash,
         Age, database

-----------------------------------------------------------------------------
(* IInv is inductive.                                                      *)
THEOREM Invariance == Spec => []IInv
<1>1. IInv /\ [Next]_vars => IInv'
  BY StepKeeps, StutterKeeps
<1> QED
  BY InitInv, <1>1, PTL DEF Spec

(* However many uploads are reserved at the same time, the account's rows  *)
(* never add up to more than its quota, unless there is one row only: the  *)
(* user's row is locked from the sum of the lengths to the insertion.      *)
THEOREM WithinQuota == Spec => []QuotaHeld
<1>1. Init => QuotaInv
  <2> SUFFICES ASSUME Init
               PROVE  QuotaInv
    OBVIOUS
  <2>1. Units = {}
    BY DEF Init, Units
  <2>2. Reserved = 0
    BY <2>1, FS_EmptySet DEF Reserved
  <2> QED
    BY <2>2, StoreAssumption DEF Init, QuotaInv, QuotaHeld, Inserting
<1>2. QuotaInv /\ IInv /\ IInv' /\ [Next]_vars => QuotaInv'
  <2> SUFFICES ASSUME QuotaInv, IInv, IInv', [Next]_vars
               PROVE  QuotaInv'
    OBVIOUS
  <2>1. CASE UNCHANGED vars
    BY <2>1 DEF vars, database, QuotaInv, QuotaHeld, OnlyRow, Inserting, Fits, Reserved, Units
  <2>2. CASE \E h \in Handlers : CreateReserve(h) \/ CreateInsert(h)
    BY <2>2, ReserveFits, InsertFits
  <2>3. CASE Next /\ \A h \in Handlers : ~CreateReserve(h) /\ ~CreateInsert(h)
    BY <2>3, OthersMakeNoRow, OthersDoNotInsert, QuotaStays
  <2> QED
    BY <2>1, <2>2, <2>3
<1>3. QuotaInv => QuotaHeld
  BY DEF QuotaInv
<1> QED
  BY Invariance, <1>1, <1>2, <1>3, PTL DEF Spec

(* Every reachable state has the declared types.                           *)
THEOREM Typing == Spec => []TypeOK
<1>1. IInv => TypeOK
  BY DEF IInv
<1> QED
  BY Invariance, <1>1, PTL

(* A complete row has the object file it promises, wherever handlers, the  *)
(* cleanup or the server stopped, except for a row created while the files *)
(* of an earlier one were being removed.                                   *)
THEOREM ObjectsAreThere == Spec => []CompleteHasObject
<1>1. IInv => CompleteHasObject
  BY DEF IInv
<1> QED
  BY Invariance, <1>1, PTL

(* A part a resumed upload will not send again has its file.               *)
THEOREM PartsAreThere == Spec => []PartsHaveFiles
<1>1. IInv => PartsHaveFiles
  BY DEF IInv
<1> QED
  BY Invariance, <1>1, PTL

(* As long as nothing fails, an identifier that has no row and of which    *)
(* nothing is being removed has no file.                                   *)
THEOREM NoLeftovers == Spec => []NothingLeftBehind
<1>1. IInv => NothingLeftBehind
  <2> SUFFICES ASSUME IInv, NEW i \in Ids, row[i] = None, ~Removing(i), failures = 0
               PROVE  partFile[i] = NoParts /\ assembled[i] = None /\ object[i] = None
    BY DEF NothingLeftBehind
  <2>1. LeftInv(i) /\ expired[i] = None
    BY DEF IInv, IdInv, Removing
  <2>2. expired[i] \notin Removals \union {"sweep"}
    BY <2>1, NotNone
  <2>3. ASSUME NEW removals \in SUBSET (Removals \union {"sweep"})
        PROVE  ~Removes(i, removals)
    BY <2>2 DEF Removing, Removes
  <2> QED
    BY <2>1, <2>3 DEF LeftInv, Removals
<1> QED
  BY Invariance, <1>1, PTL

(* No step but a request to delete it changes a complete row: locks are    *)
(* taken for uploading rows only, and the cleanup drops uploading rows.    *)
LEMMA CompleteRowStays ==
  ASSUME IInv, Next, NEW i \in Ids, row[i] # None, row[i].status = "complete",
         \A h \in Handlers : ~(pc[h] = "delete" /\ Id(h) = i)
  PROVE  row'[i] = row[i] /\ part'[i] = part[i]
<1>1. ASSUME NEW h \in Handlers, pc[h] \in Locking
      PROVE  Id(h) # i
  BY <1>1, LockFacts
<1>2. CASE UNCHANGED database
  BY <1>2 DEF database
<1>3. ASSUME NEW h \in Handlers, CreateInsert(h)
      PROVE  row'[i] = row[i] /\ part'[i] = part[i]
  BY <1>3 DEF CreateInsert, IInv, TypeOK
<1>4. ASSUME NEW h \in Handlers, PartRecord(h)
      PROVE  row'[i] = row[i] /\ part'[i] = part[i]
  BY <1>1, <1>4 DEF PartRecord, Locking, IInv, TypeOK
<1>5. ASSUME NEW h \in Handlers, CompleteRecord(h)
      PROVE  row'[i] = row[i] /\ part'[i] = part[i]
  BY <1>1, <1>5 DEF CompleteRecord, Locking, IInv, TypeOK
<1>6. ASSUME NEW h \in Handlers, DeleteRow(h)
      PROVE  row'[i] = row[i] /\ part'[i] = part[i]
  BY <1>6 DEF DeleteRow, Dropped, database
<1>7. ASSUME CleanupRows
      PROVE  row'[i] = row[i] /\ part'[i] = part[i]
  <2>1. i \notin Abandoned /\ Dropped(Abandoned)
    BY <1>7 DEF CleanupRows, Abandoned
  <2> QED
    BY <2>1 DEF Dropped
<1>8. ASSUME Age
      PROVE  row'[i] = row[i] /\ part'[i] = part[i]
  BY <1>8 DEF Age
<1> QED
  BY <1>2, <1>3, <1>4, <1>5, <1>6, <1>7, <1>8
     DEF Next, Step, Receive, CreateLookup, CreateReserve, PartTouch, PartWrite, CompleteCheck,
         CompleteAssemble, CompleteRename, CompleteSweep, DeleteFiles, Fail, CleanupFiles, Crash

(* A complete upload is final.                                             *)
THEOREM CompleteIsFinal == Spec => CompleteStays
<1>1. IInv /\ [Next]_vars =>
        [\A i \in Ids :
           row[i] # None /\ row[i].status = "complete" =>
             \/ row'[i] = row[i] /\ part'[i] = part[i]
             \/ \E h \in Handlers : pc[h] = "delete" /\ Id(h) = i]_vars
  BY CompleteRowStays
<1> QED
  BY Invariance, <1>1, PTL DEF Spec, CompleteStays

(* The store implements the contract of its uploads: a row is inserted, a  *)
(* part recorded, an upload completed or dropped as if by one step each,   *)
(* for what was checked under the row's lock still holds at the commit.    *)
THEOREM Implements == Spec => ImplementsUploads
<1>1. Init => Contract!Init /\ CheckedInv
  BY DEF Init, Contract!Init, Committed, CheckedInv, Checked
<1>2. IInv /\ IInv' /\ CheckedInv /\ [Next]_vars => CheckedInv' /\ [Contract!Next]_Committed
  <2> SUFFICES ASSUME IInv, IInv', CheckedInv, [Next]_vars
               PROVE  CheckedInv' /\ [Contract!Next]_Committed
    OBVIOUS
  <2>1. CASE UNCHANGED vars
    <3>1. Committed' = Committed
      BY <2>1 DEF vars, database, Committed
    <3>2. CheckedInv'
      BY <2>1 DEF vars, database, CheckedInv, Checked, Id
    <3> QED
      BY <3>1, <3>2
  <2>2. CASE Next
    BY <2>2, CheckedStays, StepIsPromised
  <2> QED
    BY <2>1, <2>2
<1> QED
  BY Invariance, <1>1, <1>2, PTL DEF Spec, Contract!Spec, ImplementsUploads
=============================================================================
