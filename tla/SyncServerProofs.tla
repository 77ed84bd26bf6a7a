--------------------------- MODULE SyncServerProofs ---------------------------
(***************************************************************************)
(* Theorems of SyncServer, for any number of handlers, devices, objects    *)
(* and keys and any set of requests: the type invariant, the properties    *)
(* the runs check on small instances, and the refinement of SyncContract.  *)
(***************************************************************************)
EXTENDS SyncServer, TLAPS

(* The position of a handler within its request.                           *)
ControlInv ==
  \A h \in Handlers :
    /\ pc[h] = "idle" => accepted[h] = <<>> /\ locks[h] = {}
    /\ pc[h] # "idle" => request[h] \in Requests
    /\ pc[h] # "idle" => Len(accepted[h]) <= Len(request[h].changes)
    /\ pc[h] \in {"select", "write"} => Len(accepted[h]) < Len(request[h].changes)
    /\ pc[h] \in {"record", "commit"} => Len(accepted[h]) > 0
    /\ \A i \in 1..Len(accepted[h]) :
         /\ accepted[h][i].object = request[h].changes[i].object
         /\ accepted[h][i].object \in locks[h]

(* A row is locked by one transaction at a time, and what a transaction    *)
(* has read of a row it has locked is still true.                          *)
LockInv ==
  /\ \A g, h \in Handlers : g # h => locks[g] \cap locks[h] = {}
  /\ \A h \in Handlers :
       /\ pc[h] = "write" /\ Todo(h).object \in Existing =>
            Todo(h).object \in locks[h] /\ current[h] = objects[Todo(h).object]
       /\ \A i \in 1..Len(accepted[h]) :
            accepted[h][i].object \in Existing =>
              accepted[h][i].version = objects[accepted[h][i].object] + 1

(* A key is inserted by one transaction at a time, and only if it is free. *)
KeyInv ==
  \A h \in Handlers : pc[h] = "commit" =>
    /\ answered[request[h].key] = <<>>
    /\ \A g \in Handlers : pc[g] = "commit" /\ request[g].key = request[h].key => g = h

(* Where the cursors are: every one was taken from the BIGSERIAL, a change *)
(* a transaction has prepared comes after every committed change of its    *)
(* object.                                                                 *)
CursorInv ==
  /\ \A c \in log : c.cursor <= lastCursor
  /\ \A h \in Handlers : \A i \in 1..Len(accepted[h]) :
       /\ accepted[h][i].cursor <= lastCursor
       /\ \A c \in log : c.object = accepted[h][i].object => c.cursor < accepted[h][i].cursor

(* The committed versions of an existing object.                           *)
VersionInv ==
  /\ \A o \in Existing : objects[o] >= 1
  /\ \A o \in Existing : \A c \in ChangesOf(o) : c.version \in 2..objects[o]

IInv ==
  /\ TypeOK /\ ControlInv /\ LockInv /\ KeyInv /\ CursorInv /\ VersionInv
  /\ AnswerMatchesLog /\ AnswersAgree /\ GaplessHistory /\ CursorOrderIsVersionOrder

-----------------------------------------------------------------------------
(* While a handler applies changes, there is one to apply.                 *)
LEMMA TodoIsChange ==
  ASSUME TypeOK, ControlInv, NEW h \in Handlers, pc[h] \in {"select", "write"}
  PROVE  /\ Position(h) \in 1..Len(request[h].changes)
         /\ Todo(h) \in Change
<1>1. request[h] \in Requests /\ Len(accepted[h]) < Len(request[h].changes)
  BY DEF ControlInv
<1>2. request[h].changes \in Seq(Change)
  BY <1>1, RequestsAssumption
<1>3. accepted[h] \in Seq(Accepted)
  BY DEF TypeOK
<1>4. Position(h) \in 1..Len(request[h].changes)
  BY <1>1, <1>2, <1>3 DEF Position
<1> QED
  BY <1>2, <1>4 DEF Todo

(* The end of a transaction, committed or not, leaves the handler's own    *)
(* state well typed and its control state initial.                         *)
LEMMA EndKeepsControl ==
  ASSUME TypeOK, ControlInv, NEW h \in Handlers, EndTransaction(h)
  PROVE  /\ pc' \in [Handlers -> Statements]
         /\ request' \in [Handlers -> Requests \cup {NoRequest}]
         /\ current' \in [Handlers -> Nat]
         /\ accepted' \in [Handlers -> Seq(Accepted)]
         /\ locks' \in [Handlers -> SUBSET Objects]
         /\ ControlInv'
<1>1. /\ pc' \in [Handlers -> Statements]
      /\ request' \in [Handlers -> Requests \cup {NoRequest}]
      /\ current' \in [Handlers -> Nat]
      /\ accepted' \in [Handlers -> Seq(Accepted)]
      /\ locks' \in [Handlers -> SUBSET Objects]
  BY DEF EndTransaction, TypeOK, Statements
<1>2. ControlInv'
  BY DEF EndTransaction, TypeOK, ControlInv
<1> QED
  BY <1>1, <1>2

(* What a transaction is about to commit are rows of sync_changes.         *)
LEMMA WrittenTyped ==
  ASSUME TypeOK, ControlInv, NEW h \in Handlers, pc[h] # "idle"
  PROVE  Written(h) \subseteq LogEntry
<1>1. request[h] \in Requests /\ accepted[h] \in Seq(Accepted)
  BY DEF TypeOK, ControlInv
<1>2. request[h].key \in Keys /\ request[h].device \in Devices
  BY <1>1, RequestsAssumption
<1>3. ASSUME NEW i \in 1..Len(accepted[h])
      PROVE  Entry(accepted[h][i], request[h].key, request[h].device) \in LogEntry
  <2>1. accepted[h][i] \in Accepted
    BY <1>1
  <2> QED
    BY <2>1, <1>2 DEF Accepted, LogEntry, Entry
<1> QED
  BY <1>3 DEF Written

(* The version a commit gives an object is one the transaction accepted.   *)
LEMMA VersionWrittenIsAccepted ==
  ASSUME TypeOK, ControlInv, NEW h \in Handlers, pc[h] # "idle",
         NEW i \in 1..Len(accepted[h])
  PROVE  VersionWritten(h, accepted[h][i].object) = accepted[h][i].version
<1>1. request[h] \in Requests /\ accepted[h] \in Seq(Accepted)
  BY DEF TypeOK, ControlInv
<1>2. request[h].changes \in Seq(Change)
  BY <1>1, RequestsAssumption
<1>3. Len(accepted[h]) <= Len(request[h].changes)
  BY DEF ControlInv
<1>4. ASSUME NEW j \in 1..Len(accepted[h]), accepted[h][j].object = accepted[h][i].object
      PROVE  j = i
  <2>1. request[h].changes[j].object = request[h].changes[i].object
    BY <1>4 DEF ControlInv
  <2>2. i \in 1..Len(request[h].changes) /\ j \in 1..Len(request[h].changes)
    BY <1>1, <1>2, <1>3
  <2> QED
    BY <1>1, <2>1, <2>2, RequestsAssumption
<1>5. i = CHOOSE j \in 1..Len(accepted[h]) : accepted[h][j].object = accepted[h][i].object
  BY <1>4
<1> QED
  BY <1>5 DEF VersionWritten

(* Types and control are inductive together: the operand of a statement is *)
(* a change only because a handler never runs past the end of its request. *)
LEMMA ControlStep ==
  ASSUME TypeOK, ControlInv, [Next]_vars
  PROVE  TypeOK' /\ ControlInv'
<1>1. ASSUME NEW h \in Handlers, Rollback(h)
      PROVE  TypeOK' /\ ControlInv'
  <2>1. EndTransaction(h) /\ UNCHANGED <<database, lastCursor, sent, clients>>
    BY <1>1 DEF Rollback
  <2> QED
    BY <2>1, EndKeepsControl DEF TypeOK, database, clients
<1>2. ASSUME NEW h \in Handlers, NEW r \in Requests, Replay(h, r)
      PROVE  TypeOK' /\ ControlInv'
  <2>1. r.key \in Keys
    BY RequestsAssumption
  <2>2. TypeOK'
    BY <1>2, <2>1 DEF Replay, TypeOK, database, transaction, clients
  <2>3. ControlInv'
    BY <1>2 DEF Replay, ControlInv, transaction
  <2> QED
    BY <2>2, <2>3
<1>3. ASSUME NEW h \in Handlers, NEW r \in Requests, Begin(h, r)
      PROVE  TypeOK' /\ ControlInv'
  <2>1. r.changes \in Seq(Change) /\ r.changes # <<>>
    BY RequestsAssumption
  <2>2. Len(r.changes) > 0
    BY <2>1
  <2>3. TypeOK'
    BY <1>3 DEF Begin, TypeOK, Statements, database, clients
  <2>4. accepted[h] = <<>> /\ locks[h] = {}
    BY <1>3 DEF Begin, ControlInv
  <2>5. ControlInv'
    BY <1>3, <2>2, <2>4 DEF Begin, ControlInv, TypeOK
  <2> QED
    BY <2>3, <2>5
<1>4. ASSUME NEW h \in Handlers, Select(h)
      PROVE  TypeOK' /\ ControlInv'
  <2>1. Todo(h) \in Change
    BY <1>4, TodoIsChange DEF Select
  <2>2. TypeOK'
    BY <1>4, <2>1 DEF Select, TypeOK, Statements, Change, database, clients
  <2>3. ControlInv'
    BY <1>4 DEF Select, ControlInv, TypeOK
  <2> QED
    BY <2>2, <2>3
<1>5. ASSUME NEW h \in Handlers, Write(h)
      PROVE  TypeOK' /\ ControlInv'
  <2> DEFINE a == [object |-> Todo(h).object, version |-> current[h] + 1,
                   cursor |-> lastCursor + 1]
  <2>1. Todo(h) \in Change /\ Position(h) \in 1..Len(request[h].changes)
    BY <1>5, TodoIsChange DEF Write
  <2>2. a \in Accepted
    BY <2>1 DEF TypeOK, Change, Accepted
  <2>3. accepted' = [accepted EXCEPT ![h] = Append(@, a)]
    BY <1>5 DEF Write
  <2>4. TypeOK'
    BY <1>5, <2>1, <2>2, <2>3 DEF Write, TypeOK, Statements, Change, database, clients
  <2>5. /\ accepted[h] \in Seq(Accepted)
        /\ Len(accepted'[h]) = Len(accepted[h]) + 1
        /\ accepted'[h][Len(accepted[h]) + 1] = a
        /\ \A i \in 1..Len(accepted[h]) : accepted'[h][i] = accepted[h][i]
    BY <2>2, <2>3 DEF TypeOK
  <2>6. a.object = request[h].changes[Len(accepted[h]) + 1].object
    BY DEF Todo, Position
  <2>7. ASSUME NEW g \in Handlers, g # h
        PROVE  /\ pc'[g] = pc[g] /\ request'[g] = request[g]
               /\ accepted'[g] = accepted[g] /\ locks'[g] = locks[g]
    BY <1>5, <2>7 DEF Write, TypeOK
  <2>8. request[h] \in Requests /\ Len(accepted[h]) < Len(request[h].changes)
    BY <1>5 DEF Write, ControlInv
  <2>9. request[h].changes \in Seq(Change)
    BY <2>8, RequestsAssumption
  <2>10. /\ pc'[h] = IF Position(h) < Len(request[h].changes) THEN "select" ELSE "record"
         /\ request'[h] = request[h]
         /\ locks'[h] = locks[h] \cup {a.object}
    BY <1>5 DEF Write, TypeOK
  <2>11. /\ pc'[h] \in {"select", "record"}
         /\ Len(accepted'[h]) <= Len(request'[h].changes)
         /\ pc'[h] = "select" => Len(accepted'[h]) < Len(request'[h].changes)
         /\ Len(accepted'[h]) > 0
    BY <2>5, <2>8, <2>9, <2>10 DEF Position
  <2>12. ASSUME NEW i \in 1..Len(accepted'[h])
         PROVE  /\ accepted'[h][i].object = request'[h].changes[i].object
                /\ accepted'[h][i].object \in locks'[h]
    <3>1. CASE i = Len(accepted[h]) + 1
      BY <3>1, <2>5, <2>6, <2>10
    <3>2. CASE i \in 1..Len(accepted[h])
      BY <3>2, <2>5, <2>10 DEF ControlInv
    <3> QED
      BY <3>1, <3>2, <2>5
  <2>13. ControlInv'
    <3> SUFFICES ASSUME NEW g \in Handlers
                 PROVE  ControlInv!(g)'
      BY DEF ControlInv
    <3>1. CASE g = h
      BY <3>1, <2>8, <2>10, <2>11, <2>12
    <3>2. CASE g # h
      BY <3>2, <2>7 DEF ControlInv
    <3> QED
      BY <3>1, <3>2
  <2> QED
    BY <2>4, <2>13
<1>6. ASSUME NEW h \in Handlers, Record(h)
      PROVE  TypeOK' /\ ControlInv'
  <2>1. TypeOK'
    BY <1>6 DEF Record, TypeOK, Statements, database, clients
  <2>2. ControlInv'
    BY <1>6 DEF Record, ControlInv, TypeOK
  <2> QED
    BY <2>1, <2>2
<1>7. ASSUME NEW h \in Handlers, Commit(h)
      PROVE  TypeOK' /\ ControlInv'
  <2>1. request[h] \in Requests /\ accepted[h] \in Seq(Accepted) /\ pc[h] # "idle"
    BY <1>7 DEF Commit, ControlInv, TypeOK
  <2>2. request[h].key \in Keys
    BY <2>1, RequestsAssumption
  <2>3. log' \subseteq LogEntry
    BY <1>7, <2>1, WrittenTyped DEF Commit, TypeOK
  <2>4. ASSUME NEW o \in Touched(h)
        PROVE  VersionWritten(h, o) \in Nat
    <3>1. PICK i \in 1..Len(accepted[h]) : o = accepted[h][i].object
      BY DEF Touched
    <3>2. accepted[h][i] \in Accepted
      BY <2>1
    <3> QED
      BY <3>1, <3>2, <2>1, VersionWrittenIsAccepted DEF Accepted
  <2>5. objects' \in [Objects -> Nat]
    BY <1>7, <2>4 DEF Commit, TypeOK
  <2>6. answered' \in [Keys -> Seq(Accepted)] /\ sent' \in [Keys -> SUBSET Seq(Accepted)]
    BY <1>7, <2>1, <2>2 DEF Commit, TypeOK
  <2>7. EndTransaction(h) /\ UNCHANGED <<lastCursor, clients>>
    BY <1>7 DEF Commit
  <2> QED
    BY <2>3, <2>5, <2>6, <2>7, EndKeepsControl DEF TypeOK, clients
<1>8. ASSUME NEW d \in Devices, Pull(d)
      PROVE  TypeOK' /\ ControlInv'
  <2>1. Page(d) \subseteq LogEntry
    BY DEF Page, TypeOK
  <2>2. pulled' \in [Devices -> Nat] /\ seen' \in [Devices -> SUBSET LogEntry]
    BY <1>8, <2>1 DEF Pull, TypeOK, LogEntry
  <2>3. TypeOK'
    BY <1>8, <2>2 DEF Pull, TypeOK, database, transaction
  <2>4. ControlInv'
    BY <1>8 DEF Pull, ControlInv, transaction
  <2> QED
    BY <2>3, <2>4
<1>9. CASE UNCHANGED vars
  BY <1>9 DEF vars, database, transaction, clients, TypeOK, ControlInv
<1> QED
  BY <1>1, <1>2, <1>3, <1>4, <1>5, <1>6, <1>7, <1>8, <1>9
     DEF Next, Step, Conflict, KeyTaken, Fail, DeadlockVictim

(* The types and the control state hold at the start.                      *)
LEMMA ControlInit == Init => TypeOK /\ ControlInv
<1> SUFFICES ASSUME Init PROVE TypeOK /\ ControlInv
  OBVIOUS
<1>1. TypeOK
  BY DEF Init, TypeOK, Statements
<1>2. ControlInv
  BY DEF Init, ControlInv
<1> QED
  BY <1>1, <1>2

(* Every value the handlers read, keep and commit has its type, in every   *)
(* interleaving: in particular no version or cursor is ever negative.      *)
THEOREM Typing == Spec => []TypeOK
<1>1. Init => TypeOK /\ ControlInv
  BY ControlInit
<1>2. TypeOK /\ ControlInv /\ [Next]_vars => (TypeOK /\ ControlInv)'
  BY ControlStep
<1> QED
  BY <1>1, <1>2, PTL DEF Spec

-----------------------------------------------------------------------------
(* A handler in a transaction leaves the others' transactions alone, and   *)
(* every step is that of one handler, a pull, or none.                     *)
Others(h) ==
  \A g \in Handlers : g # h =>
    /\ pc'[g] = pc[g] /\ request'[g] = request[g] /\ current'[g] = current[g]
    /\ accepted'[g] = accepted[g] /\ locks'[g] = locks[g]

Quiet == UNCHANGED <<database, lastCursor, transaction>>

(* Every step is quiet or a step of one handler; the rollbacks (a          *)
(* conflict, a taken key, a failure, a deadlock) need no telling apart.    *)
LEMMA StepCases ==
  ASSUME TypeOK, [Next]_vars
  PROVE  \/ Quiet
         \/ \E h \in Handlers :
              /\ Others(h)
              /\ \/ Rollback(h)
                 \/ \E r \in Requests : Begin(h, r)
                 \/ Select(h) \/ Write(h) \/ Record(h) \/ Commit(h)
<1>1. ASSUME NEW h \in Handlers, Rollback(h)
      PROVE  Others(h)
  BY <1>1 DEF Rollback, EndTransaction, TypeOK, Others
<1>2. ASSUME NEW h \in Handlers, NEW r \in Requests, Begin(h, r)
      PROVE  Others(h)
  BY <1>2 DEF Begin, TypeOK, Others
<1>3. ASSUME NEW h \in Handlers, Select(h) \/ Write(h) \/ Record(h)
      PROVE  Others(h)
  BY <1>3 DEF Select, Write, Record, TypeOK, Others
<1>4. ASSUME NEW h \in Handlers, Commit(h)
      PROVE  Others(h)
  BY <1>4 DEF Commit, EndTransaction, TypeOK, Others
<1>5. ASSUME NEW h \in Handlers, NEW r \in Requests, Replay(h, r)
      PROVE  Quiet
  BY <1>5 DEF Replay, Quiet
<1>6. ASSUME NEW d \in Devices, Pull(d)
      PROVE  Quiet
  BY <1>6 DEF Pull, Quiet
<1>7. CASE UNCHANGED vars
  BY <1>7 DEF vars, Quiet
<1> QED
  BY <1>1, <1>2, <1>3, <1>4, <1>5, <1>6, <1>7
     DEF Next, Step, Conflict, KeyTaken, Fail, DeadlockVictim

(* What a commit does to the row of an object.                             *)
LEMMA CommitRow ==
  ASSUME TypeOK, ControlInv, LockInv, NEW h \in Handlers, Commit(h)
  PROVE  /\ Touched(h) \subseteq locks[h]
         /\ \A o \in Objects : o \notin Touched(h) => objects'[o] = objects[o]
         /\ \A o \in Existing \cap Touched(h) : objects'[o] = objects[o] + 1
<1>1. pc[h] # "idle" /\ accepted[h] \in Seq(Accepted)
  BY DEF Commit, TypeOK
<1>2. Touched(h) \subseteq locks[h]
  BY DEF Touched, ControlInv
<1>3. ASSUME NEW o \in Existing \cap Touched(h)
      PROVE  objects'[o] = objects[o] + 1
  <2>1. PICK i \in 1..Len(accepted[h]) : o = accepted[h][i].object
    BY DEF Touched
  <2>2. accepted[h][i].version = objects[o] + 1
    BY <2>1 DEF LockInv
  <2>3. VersionWritten(h, o) = accepted[h][i].version
    BY <2>1, <1>1, VersionWrittenIsAccepted
  <2> QED
    BY <2>2, <2>3, ExistingAssumption DEF Commit
<1> QED
  BY <1>2, <1>3 DEF Commit

(* What Write appends.                                                     *)
LEMMA WriteAppends ==
  ASSUME TypeOK, ControlInv, NEW h \in Handlers, Write(h)
  PROVE  /\ Len(accepted[h]) \in Nat /\ Len(accepted'[h]) = Len(accepted[h]) + 1
         /\ \A i \in 1..Len(accepted[h]) : accepted'[h][i] = accepted[h][i]
         /\ accepted'[h][Len(accepted[h]) + 1] =
              [object |-> Todo(h).object, version |-> current[h] + 1,
               cursor |-> lastCursor + 1]
         /\ Todo(h).object \in Objects
<1> DEFINE a == [object |-> Todo(h).object, version |-> current[h] + 1,
                 cursor |-> lastCursor + 1]
<1>1. Todo(h) \in Change
  BY TodoIsChange DEF Write
<1>2. a \in Accepted
  BY <1>1 DEF TypeOK, Change, Accepted
<1>3. accepted' = [accepted EXCEPT ![h] = Append(@, a)] /\ accepted[h] \in Seq(Accepted)
  BY DEF Write, TypeOK
<1> QED
  BY <1>1, <1>2, <1>3 DEF TypeOK, Change

(* A handler that holds nothing new and has prepared nothing.              *)
LEMMA LockFrame ==
  ASSUME LockInv, NEW h \in Handlers, Others(h), objects' = objects,
         pc'[h] # "write", accepted'[h] = <<>>, locks'[h] \subseteq locks[h]
  PROVE  LockInv'
<1>1. \A g, f \in Handlers : g # f => locks'[g] \cap locks'[f] = {}
  BY DEF Others, LockInv
<1>2. \A g \in Handlers : g # h => Todo(g)' = Todo(g)
  BY DEF Others, Todo, Position
<1>3. ASSUME NEW g \in Handlers, pc'[g] = "write", Todo(g)'.object \in Existing
      PROVE  Todo(g)'.object \in locks'[g] /\ current'[g] = objects'[Todo(g)'.object]
  BY <1>2, <1>3 DEF Others, LockInv
<1>4. ASSUME NEW g \in Handlers, NEW i \in 1..Len(accepted'[g]),
             accepted'[g][i].object \in Existing
      PROVE  accepted'[g][i].version = objects'[accepted'[g][i].object] + 1
  <2>1. g # h
    BY <1>4
  <2> QED
    BY <1>4, <2>1 DEF Others, LockInv
<1> QED
  BY <1>1, <1>3, <1>4 DEF LockInv

(* A locked row is locked once, and its committed version stands still.    *)
LEMMA LockStep ==
  ASSUME TypeOK, ControlInv, LockInv, VersionInv, [Next]_vars
  PROVE  LockInv'
<1>1. CASE Quiet
  BY <1>1 DEF Quiet, LockInv, database, transaction, Todo, Position
<1>2. ASSUME NEW h \in Handlers, Others(h), Rollback(h)
      PROVE  LockInv'
  <2>1. pc'[h] = "idle" /\ accepted'[h] = <<>> /\ locks'[h] = {} /\ objects' = objects
    BY <1>2 DEF Rollback, EndTransaction, database, TypeOK
  <2> QED
    BY <1>2, <2>1, LockFrame
<1>3. ASSUME NEW h \in Handlers, Others(h), NEW r \in Requests, Begin(h, r)
      PROVE  LockInv'
  <2>1. /\ pc'[h] = "select" /\ accepted'[h] = <<>> /\ locks'[h] = locks[h]
        /\ objects' = objects
    BY <1>3 DEF Begin, database, TypeOK, ControlInv
  <2> QED
    BY <1>3, <2>1, LockFrame
<1>4. ASSUME NEW h \in Handlers, Others(h), Select(h)
      PROVE  LockInv'
  <2> DEFINE o == Todo(h).object
  <2>1. Todo(h) \in Change
    BY <1>4, TodoIsChange DEF Select
  <2>2. /\ pc'[h] = "write" /\ accepted'[h] = accepted[h] /\ request'[h] = request[h]
        /\ current'[h] = objects[o] /\ objects' = objects
        /\ locks'[h] = locks[h] \cup {p \in {o} : objects[p] > 0}
    BY <1>4 DEF Select, database, TypeOK
  <2>3. objects[o] > 0 => \A g \in Handlers : g # h => o \notin locks[g]
    BY <1>4 DEF Select, RowBusy, LockedByOther
  <2>4. o \in Existing => objects[o] > 0
    BY ExistingAssumption DEF VersionInv, TypeOK
  <2>5. Todo(h)' = Todo(h)
    BY <2>2 DEF Todo, Position
  <2>6. \A g \in Handlers : g # h => Todo(g)' = Todo(g)
    BY <1>4 DEF Others, Todo, Position
  <2>7. \A g, f \in Handlers : g # f => locks'[g] \cap locks'[f] = {}
    BY <1>4, <2>2, <2>3 DEF Others, LockInv
  <2>8. ASSUME NEW g \in Handlers, pc'[g] = "write", Todo(g)'.object \in Existing
        PROVE  Todo(g)'.object \in locks'[g] /\ current'[g] = objects'[Todo(g)'.object]
    <3>1. CASE g = h
      BY <2>2, <2>4, <2>5, <2>8, <3>1
    <3>2. CASE g # h
      BY <1>4, <2>2, <2>6, <2>8, <3>2 DEF Others, LockInv
    <3> QED
      BY <3>1, <3>2
  <2> QED
    BY <1>4, <2>2, <2>7, <2>8 DEF Others, LockInv
<1>5. ASSUME NEW h \in Handlers, Others(h), Write(h)
      PROVE  LockInv'
  <2> DEFINE o == Todo(h).object
             n == Len(accepted[h])
  <2>1. /\ n \in Nat /\ Len(accepted'[h]) = n + 1
        /\ \A i \in 1..n : accepted'[h][i] = accepted[h][i]
        /\ accepted'[h][n + 1] = [object |-> o, version |-> current[h] + 1,
                                  cursor |-> lastCursor + 1]
    BY <1>5, WriteAppends
  <2>2. /\ pc'[h] # "write" /\ locks'[h] = locks[h] \cup {o} /\ objects' = objects
    BY <1>5 DEF Write, database, TypeOK
  <2>3. \A g \in Handlers : g # h => o \notin locks[g]
    BY <1>5 DEF Write, RowBusy, LockedByOther
  <2>4. o \in Existing => current[h] = objects[o]
    BY <1>5 DEF Write, LockInv
  <2>5. \A g \in Handlers : g # h => Todo(g)' = Todo(g)
    BY <1>5 DEF Others, Todo, Position
  <2>6. \A g, f \in Handlers : g # f => locks'[g] \cap locks'[f] = {}
    BY <1>5, <2>2, <2>3 DEF Others, LockInv
  <2>7. ASSUME NEW g \in Handlers, pc'[g] = "write", Todo(g)'.object \in Existing
        PROVE  Todo(g)'.object \in locks'[g] /\ current'[g] = objects'[Todo(g)'.object]
    BY <1>5, <2>2, <2>5, <2>7 DEF Others, LockInv
  <2>8. ASSUME NEW i \in 1..Len(accepted'[h]), accepted'[h][i].object \in Existing
        PROVE  accepted'[h][i].version = objects'[accepted'[h][i].object] + 1
    <3>1. CASE i = n + 1
      BY <3>1, <2>1, <2>2, <2>4, <2>8
    <3>2. CASE i \in 1..n
      BY <3>2, <2>1, <2>2, <2>8 DEF LockInv
    <3> QED
      BY <3>1, <3>2, <2>1
  <2> QED
    BY <1>5, <2>2, <2>6, <2>7, <2>8 DEF Others, LockInv
<1>6. ASSUME NEW h \in Handlers, Others(h), Record(h)
      PROVE  LockInv'
  <2>1. /\ pc'[h] = "commit" /\ accepted' = accepted /\ locks' = locks /\ objects' = objects
    BY <1>6 DEF Record, database, TypeOK
  <2> QED
    BY <1>6, <2>1 DEF Others, LockInv, Todo, Position
<1>7. ASSUME NEW h \in Handlers, Others(h), Commit(h)
      PROVE  LockInv'
  <2>1. pc'[h] = "idle" /\ accepted'[h] = <<>> /\ locks'[h] = {}
    BY <1>7 DEF Commit, EndTransaction, TypeOK
  <2>2. ASSUME NEW g \in Handlers, g # h, NEW o \in locks[g] \cap Existing
        PROVE  objects'[o] = objects[o]
    <3>1. o \notin Touched(h) /\ o \in Objects
      BY <1>7, <2>2, CommitRow, ExistingAssumption DEF LockInv
    <3> QED
      BY <1>7, <3>1, CommitRow
  <2>3. \A g \in Handlers : g # h => Todo(g)' = Todo(g)
    BY <1>7 DEF Others, Todo, Position
  <2>4. ASSUME NEW g \in Handlers, pc'[g] = "write", Todo(g)'.object \in Existing
        PROVE  Todo(g)'.object \in locks'[g] /\ current'[g] = objects'[Todo(g)'.object]
    BY <1>7, <2>1, <2>2, <2>3, <2>4 DEF Others, LockInv
  <2>5. ASSUME NEW g \in Handlers, NEW i \in 1..Len(accepted'[g]),
               accepted'[g][i].object \in Existing
        PROVE  accepted'[g][i].version = objects'[accepted'[g][i].object] + 1
    <3>1. g # h /\ accepted'[g] = accepted[g]
      BY <1>7, <2>1, <2>5 DEF Others
    <3>2. accepted[g][i].object \in locks[g]
      BY <3>1 DEF ControlInv
    <3> QED
      BY <2>2, <2>5, <3>1, <3>2 DEF LockInv
  <2>6. \A g, f \in Handlers : g # f => locks'[g] \cap locks'[f] = {}
    BY <1>7, <2>1 DEF Others, LockInv
  <2> QED
    BY <2>4, <2>5, <2>6 DEF LockInv
<1> QED
  BY <1>1, <1>2, <1>3, <1>4, <1>5, <1>6, <1>7, StepCases

-----------------------------------------------------------------------------
(* Of the transactions of one key, one at most is ready to commit, and the *)
(* key has no stored response then.                                        *)
LEMMA KeyStep ==
  ASSUME TypeOK, ControlInv, KeyInv, [Next]_vars
  PROVE  KeyInv'
<1>1. CASE Quiet
  BY <1>1 DEF Quiet, KeyInv, database, transaction
<1>2. ASSUME NEW h \in Handlers, Others(h), answered' = answered, pc'[h] # "commit"
      PROVE  KeyInv'
  <2> SUFFICES ASSUME NEW g \in Handlers, pc'[g] = "commit"
               PROVE  KeyInv!(g)'
    BY DEF KeyInv
  <2> QED
    BY <1>2 DEF Others, KeyInv
<1>3. ASSUME NEW h \in Handlers, Rollback(h)
      PROVE  answered' = answered /\ pc'[h] # "commit"
  BY <1>3 DEF Rollback, EndTransaction, database, TypeOK
<1>4. ASSUME NEW h \in Handlers, NEW r \in Requests, Begin(h, r)
      PROVE  answered' = answered /\ pc'[h] # "commit"
  BY <1>4 DEF Begin, database, TypeOK
<1>5. ASSUME NEW h \in Handlers, Select(h) \/ Write(h)
      PROVE  answered' = answered /\ pc'[h] # "commit"
  BY <1>5 DEF Select, Write, database, TypeOK
<1>6. ASSUME NEW h \in Handlers, Others(h), Record(h)
      PROVE  KeyInv'
  <2>1. /\ pc'[h] = "commit" /\ request' = request /\ answered' = answered
        /\ answered[request[h].key] = <<>>
    BY <1>6 DEF Record, database, TypeOK
  <2>2. ASSUME NEW g \in Handlers, g # h, pc'[g] = "commit"
        PROVE  request[g].key # request[h].key
    BY <1>6, <2>2 DEF Record, KeyBusy, Others
  <2> QED
    BY <1>6, <2>1, <2>2 DEF Others, KeyInv
<1>7. ASSUME NEW h \in Handlers, Others(h), Commit(h)
      PROVE  KeyInv'
  <2>1. pc'[h] = "idle" /\ pc[h] = "commit" /\ request[h] \in Requests
    BY <1>7 DEF Commit, EndTransaction, TypeOK, ControlInv
  <2>2. \A k \in Keys : k # request[h].key => answered'[k] = answered[k]
    BY <1>7 DEF Commit, TypeOK
  <2>3. ASSUME NEW g \in Handlers, pc'[g] = "commit"
        PROVE  /\ g # h /\ pc[g] = "commit" /\ request'[g] = request[g]
               /\ request[g].key # request[h].key /\ request[g].key \in Keys
    <3>1. g # h /\ pc[g] = "commit" /\ request'[g] = request[g]
      BY <1>7, <2>1, <2>3 DEF Others
    <3>2. request[g] \in Requests
      BY <3>1 DEF ControlInv
    <3> QED
      BY <2>1, <3>1, <3>2, RequestsAssumption DEF KeyInv
  <2> QED
    BY <2>2, <2>3 DEF KeyInv
<1> QED
  BY <1>1, <1>2, <1>3, <1>4, <1>5, <1>6, <1>7, StepCases

(* A prepared change has a cursor above those of its object in the log,    *)
(* because the row lock is taken before the cursor and kept to the commit. *)
LEMMA CursorStep ==
  ASSUME TypeOK, ControlInv, LockInv, CursorInv, [Next]_vars
  PROVE  CursorInv'
<1>1. CASE Quiet
  BY <1>1 DEF Quiet, CursorInv, database, transaction
<1>2. ASSUME NEW h \in Handlers, Others(h), log' = log, lastCursor' = lastCursor,
             accepted'[h] = <<>> \/ accepted'[h] = accepted[h]
      PROVE  CursorInv'
  <2>1. ASSUME NEW g \in Handlers, NEW i \in 1..Len(accepted'[g])
        PROVE  i \in 1..Len(accepted[g]) /\ accepted'[g] = accepted[g]
    BY <1>2, <2>1 DEF Others
  <2> QED
    BY <1>2, <2>1 DEF CursorInv
<1>3. ASSUME NEW h \in Handlers, Rollback(h)
      PROVE  log' = log /\ lastCursor' = lastCursor /\ accepted'[h] = <<>>
  BY <1>3 DEF Rollback, EndTransaction, database, TypeOK
<1>4. ASSUME NEW h \in Handlers, NEW r \in Requests, Begin(h, r)
      PROVE  log' = log /\ lastCursor' = lastCursor /\ accepted'[h] = accepted[h]
  BY <1>4 DEF Begin, database
<1>5. ASSUME NEW h \in Handlers, Select(h) \/ Record(h)
      PROVE  log' = log /\ lastCursor' = lastCursor /\ accepted'[h] = accepted[h]
  BY <1>5 DEF Select, Record, database
<1>6. ASSUME NEW h \in Handlers, Others(h), Write(h)
      PROVE  CursorInv'
  <2> DEFINE n == Len(accepted[h])
  <2>1. /\ n \in Nat /\ Len(accepted'[h]) = n + 1
        /\ \A i \in 1..n : accepted'[h][i] = accepted[h][i]
        /\ accepted'[h][n + 1] = [object |-> Todo(h).object, version |-> current[h] + 1,
                                  cursor |-> lastCursor + 1]
    BY <1>6, WriteAppends
  <2>2. lastCursor' = lastCursor + 1 /\ log' = log
    BY <1>6 DEF Write, database
  <2>3. \A c \in log : c.cursor \in Nat /\ c.cursor < lastCursor'
    BY <2>2 DEF CursorInv, TypeOK, LogEntry
  <2>4. ASSUME NEW g \in Handlers, NEW i \in 1..Len(accepted[g])
        PROVE  accepted[g][i].cursor \in Nat /\ accepted[g][i].cursor <= lastCursor'
    <3>1. accepted[g][i] \in Accepted
      BY DEF TypeOK
    <3> QED
      BY <3>1, <2>2 DEF CursorInv, TypeOK, Accepted
  <2>5. ASSUME NEW g \in Handlers, NEW i \in 1..Len(accepted'[g])
        PROVE  /\ accepted'[g][i].cursor <= lastCursor'
               /\ \A c \in log : c.object = accepted'[g][i].object =>
                                   c.cursor < accepted'[g][i].cursor
    <3>1. CASE g = h /\ i = n + 1
      BY <3>1, <2>1, <2>2, <2>3 DEF TypeOK
    <3>2. CASE ~(g = h /\ i = n + 1)
      <4>1. i \in 1..Len(accepted[g]) /\ accepted'[g][i] = accepted[g][i]
        BY <1>6, <2>1, <3>2 DEF Others
      <4> QED
        BY <2>4, <4>1 DEF CursorInv
    <3> QED
      BY <3>1, <3>2
  <2> QED
    BY <2>2, <2>3, <2>5 DEF CursorInv, TypeOK
<1>7. ASSUME NEW h \in Handlers, Others(h), Commit(h)
      PROVE  CursorInv'
  <2>1. /\ log' = log \cup Written(h) /\ lastCursor' = lastCursor /\ accepted'[h] = <<>>
    BY <1>7 DEF Commit, EndTransaction, TypeOK
  <2>2. ASSUME NEW c \in Written(h)
        PROVE  c.cursor <= lastCursor /\ c.object \in locks[h]
    BY DEF Written, Entry, CursorInv, ControlInv
  <2>3. ASSUME NEW g \in Handlers, NEW i \in 1..Len(accepted'[g])
        PROVE  /\ g # h /\ accepted'[g] = accepted[g]
               /\ \A c \in Written(h) : c.object # accepted[g][i].object
    <3>1. g # h /\ accepted'[g] = accepted[g]
      BY <1>7, <2>1, <2>3 DEF Others
    <3>2. accepted[g][i].object \in locks[g]
      BY <3>1 DEF ControlInv
    <3> QED
      BY <2>2, <3>1, <3>2 DEF LockInv
  <2> QED
    BY <2>1, <2>2, <2>3 DEF CursorInv
<1> QED
  BY <1>1, <1>2, <1>3, <1>4, <1>5, <1>6, <1>7, StepCases

-----------------------------------------------------------------------------
HistoryInv == VersionInv /\ GaplessHistory /\ CursorOrderIsVersionOrder

(* A change a transaction writes, as seen at its commit.                   *)
LEMMA WrittenChange ==
  ASSUME TypeOK, ControlInv, LockInv, CursorInv, NEW h \in Handlers, pc[h] # "idle",
         NEW c \in Written(h)
  PROVE  /\ c \in LogEntry /\ c.object \in Touched(h) /\ c.key = request[h].key
         /\ c.object \in Existing => c.version = objects[c.object] + 1
         /\ \A e \in log : e.object = c.object => e.cursor < c.cursor
         /\ \A e \in Written(h) : e.object = c.object => e = c
<1>1. accepted[h] \in Seq(Accepted) /\ request[h] \in Requests
  BY DEF TypeOK, ControlInv
<1>2. request[h].changes \in Seq(Change) /\ Len(accepted[h]) <= Len(request[h].changes)
  BY <1>1, RequestsAssumption DEF ControlInv
<1>3. PICK i \in 1..Len(accepted[h]) :
        c = Entry(accepted[h][i], request[h].key, request[h].device)
  BY DEF Written
<1>4. /\ c.object = accepted[h][i].object /\ c.version = accepted[h][i].version
      /\ c.cursor = accepted[h][i].cursor /\ c.key = request[h].key
  BY <1>3 DEF Entry
<1>5. c \in LogEntry
  BY WrittenTyped
<1>6. c.object \in Touched(h)
  BY <1>4 DEF Touched
<1>7. ASSUME NEW e \in Written(h), e.object = c.object
      PROVE  e = c
  <2>1. PICK j \in 1..Len(accepted[h]) :
          e = Entry(accepted[h][j], request[h].key, request[h].device)
    BY DEF Written
  <2>2. accepted[h][j].object = accepted[h][i].object
    BY <1>4, <1>7, <2>1 DEF Entry
  <2>3. request[h].changes[j].object = request[h].changes[i].object
    BY <2>2 DEF ControlInv
  <2>4. i \in 1..Len(request[h].changes) /\ j \in 1..Len(request[h].changes)
    BY <1>1, <1>2
  <2>5. i = j
    BY <1>1, <2>3, <2>4, RequestsAssumption
  <2> QED
    BY <1>3, <2>1, <2>5
<1> QED
  BY <1>4, <1>5, <1>6, <1>7 DEF LockInv, CursorInv

(* The committed changes of an object with a row extend its history.       *)
LEMMA HistoryStep ==
  ASSUME TypeOK, ControlInv, LockInv, CursorInv, HistoryInv, [Next]_vars
  PROVE  HistoryInv'
<1>1. CASE objects' = objects /\ log' = log
  BY <1>1 DEF HistoryInv, VersionInv, GaplessHistory, CursorOrderIsVersionOrder, ChangesOf
<1>2. Quiet => objects' = objects /\ log' = log
  BY DEF Quiet, database
<1>3. ASSUME NEW h \in Handlers, NEW r \in Requests,
             Rollback(h) \/ Begin(h, r) \/ Select(h) \/ Write(h) \/ Record(h)
      PROVE  objects' = objects /\ log' = log
  BY <1>3 DEF Rollback, Begin, Select, Write, Record, database
<1>4. ASSUME NEW h \in Handlers, Rollback(h) \/ Select(h) \/ Write(h) \/ Record(h)
      PROVE  objects' = objects /\ log' = log
  BY <1>4 DEF Rollback, Select, Write, Record, database
<1>5. ASSUME NEW h \in Handlers, Commit(h)
      PROVE  HistoryInv'
  <2>1. pc[h] # "idle" /\ log' = log \cup Written(h)
    BY <1>5 DEF Commit
  <2>2. \A o \in Objects : o \notin Touched(h) => objects'[o] = objects[o]
    BY <1>5, CommitRow
  <2>3. \A o \in Existing \cap Touched(h) : objects'[o] = objects[o] + 1
    BY <1>5, CommitRow
  <2>4. \A o \in Existing : o \in Objects /\ objects[o] \in Nat /\ objects[o] >= 1
    BY ExistingAssumption DEF TypeOK, HistoryInv, VersionInv
  <2>5. ASSUME NEW o \in Existing, NEW c \in ChangesOf(o)'
        PROVE  \/ c \in ChangesOf(o) /\ c.version \in 2..objects[o]
               \/ /\ c \in Written(h) /\ o \in Touched(h)
                  /\ c.object = o /\ c.version = objects[o] + 1
    <3>1. CASE c \in log
      BY <2>5, <3>1 DEF ChangesOf, HistoryInv, VersionInv
    <3>2. CASE c \in Written(h)
      BY <2>1, <2>5, <3>2, WrittenChange DEF ChangesOf
    <3> QED
      BY <2>1, <2>5, <3>1, <3>2 DEF ChangesOf
  <2>6. VersionInv'
    <3>1. ASSUME NEW o \in Existing
          PROVE  objects'[o] >= 1
      BY <2>2, <2>3, <2>4
    <3>2. ASSUME NEW o \in Existing, NEW c \in ChangesOf(o)'
          PROVE  c.version \in 2..objects'[o]
      BY <2>2, <2>3, <2>4, <2>5, <3>2
    <3> QED
      BY <3>1, <3>2 DEF VersionInv
  <2>7. ASSUME NEW o \in Existing
        PROVE  {c.version : c \in ChangesOf(o)'} = 2..objects'[o]
    <3>1. ASSUME NEW v \in 2..objects'[o]
          PROVE  \E c \in ChangesOf(o)' : c.version = v
      <4>1. CASE v \in 2..objects[o]
        <5>1. PICK c \in ChangesOf(o) : c.version = v
          BY <4>1 DEF HistoryInv, GaplessHistory
        <5> QED
          BY <2>1, <5>1 DEF ChangesOf
      <4>2. CASE v \notin 2..objects[o]
        <5>1. o \in Touched(h) /\ v = objects[o] + 1
          BY <2>2, <2>3, <2>4, <3>1, <4>2
        <5>2. PICK i \in 1..Len(accepted[h]) : o = accepted[h][i].object
          BY <5>1 DEF Touched
        <5> DEFINE c == Entry(accepted[h][i], request[h].key, request[h].device)
        <5>3. c \in Written(h) /\ c.object = o
          BY <5>2 DEF Written, Entry
        <5>4. c.version = objects[o] + 1
          BY <2>1, <5>3, WrittenChange
        <5>5. c \in ChangesOf(o)'
          BY <2>1, <5>3 DEF ChangesOf
        <5> QED
          BY <5>1, <5>4, <5>5
      <4> QED
        BY <4>1, <4>2
    <3>2. \A c \in ChangesOf(o)' : c.version \in 2..objects'[o]
      BY <2>6 DEF VersionInv
    <3> QED
      BY <3>1, <3>2
  <2>8. ASSUME NEW o \in Existing, NEW c \in ChangesOf(o)', NEW e \in ChangesOf(o)'
        PROVE  /\ c.version = e.version => c = e
               /\ c.cursor < e.cursor => c.version < e.version
    <3>1. CASE c \in ChangesOf(o) /\ e \in ChangesOf(o)
      BY <3>1 DEF HistoryInv, CursorOrderIsVersionOrder
    <3>2. CASE c \in ChangesOf(o) /\ c.version \in 2..objects[o] /\ e \in Written(h)
      <4>1. e.object = o /\ e.version = objects[o] + 1
        BY <2>1, <2>8, <3>2, WrittenChange DEF ChangesOf
      <4> QED
        BY <2>4, <3>2, <4>1
    <3>3. CASE c \in Written(h) /\ e \in ChangesOf(o) /\ e.version \in 2..objects[o]
      <4>1. c.object = o /\ c.version = objects[o] + 1 /\ c \in LogEntry
        BY <2>1, <2>8, <3>3, WrittenChange DEF ChangesOf
      <4>2. e.cursor < c.cursor /\ e \in LogEntry
        BY <2>1, <3>3, <4>1, WrittenChange DEF ChangesOf, TypeOK
      <4>3. ~(c.cursor < e.cursor)
        BY <4>1, <4>2 DEF LogEntry
      <4> QED
        BY <2>4, <3>3, <4>1, <4>3
    <3>4. CASE c \in Written(h) /\ e \in Written(h)
      <4>1. c.object = o /\ e.object = o /\ c \in LogEntry
        BY <2>1, <2>8, <3>4, WrittenChange DEF ChangesOf
      <4>2. c = e
        BY <2>1, <3>4, <4>1, WrittenChange
      <4> QED
        BY <4>1, <4>2 DEF LogEntry
    <3> QED
      BY <2>5, <2>8, <3>1, <3>2, <3>3, <3>4
  <2> QED
    BY <2>6, <2>7, <2>8 DEF HistoryInv, GaplessHistory, CursorOrderIsVersionOrder
<1> QED
  BY <1>1, <1>2, <1>3, <1>4, <1>5, StepCases

-----------------------------------------------------------------------------
AnswerInv == AnswerMatchesLog /\ AnswersAgree

(* What is stored, what is sent and what is committed agree for each key.  *)
LEMMA AnswerStep ==
  ASSUME TypeOK, ControlInv, KeyInv, AnswerInv, [Next]_vars
  PROVE  AnswerInv'
<1>1. CASE UNCHANGED <<log, answered, sent>>
  BY <1>1 DEF AnswerInv, AnswerMatchesLog, AnswersAgree, CommittedUnder, Lists
<1>2. ASSUME NEW h \in Handlers, Rollback(h)
      PROVE  UNCHANGED <<log, answered, sent>>
  BY <1>2 DEF Rollback, database
<1>3. ASSUME NEW h \in Handlers, NEW r \in Requests, Begin(h, r)
      PROVE  UNCHANGED <<log, answered, sent>>
  BY <1>3 DEF Begin, database
<1>4. ASSUME NEW h \in Handlers, Select(h) \/ Write(h) \/ Record(h)
      PROVE  UNCHANGED <<log, answered, sent>>
  BY <1>4 DEF Select, Write, Record, database
<1>5. ASSUME NEW d \in Devices, Pull(d)
      PROVE  UNCHANGED <<log, answered, sent>>
  BY <1>5 DEF Pull, database
<1>6. ASSUME NEW h \in Handlers, NEW r \in Requests, Replay(h, r)
      PROVE  AnswerInv'
  <2>1. r.key \in Keys /\ log' = log /\ answered' = answered /\ answered[r.key] # <<>>
    BY <1>6, RequestsAssumption DEF Replay, database
  <2>2. sent' = [sent EXCEPT ![r.key] = @ \cup {answered[r.key]}]
    BY <1>6 DEF Replay
  <2>3. AnswersAgree'
    BY <2>1, <2>2 DEF AnswerInv, AnswersAgree, TypeOK
  <2>4. AnswerMatchesLog'
    BY <2>1 DEF AnswerInv, AnswerMatchesLog, CommittedUnder, Lists
  <2> QED
    BY <2>3, <2>4 DEF AnswerInv
<1>7. ASSUME NEW h \in Handlers, Commit(h)
      PROVE  AnswerInv'
  <2> DEFINE key == request[h].key
  <2>1. /\ pc[h] = "commit" /\ request[h] \in Requests /\ accepted[h] \in Seq(Accepted)
        /\ Len(accepted[h]) > 0
    BY <1>7 DEF Commit, ControlInv, TypeOK
  <2>2. key \in Keys /\ answered[key] = <<>>
    BY <2>1, RequestsAssumption DEF KeyInv
  <2>3. /\ log' = log \cup Written(h)
        /\ answered' = [answered EXCEPT ![key] = accepted[h]]
        /\ sent' = [sent EXCEPT ![key] = @ \cup {accepted[h]}]
    BY <1>7 DEF Commit
  <2>4. \A c \in Written(h) : c.key = key
    BY DEF Written, Entry
  <2>5. CommittedUnder(key) = {}
    <3>1. Len(answered[key]) = 0
      BY <2>2
    <3> QED
      BY <2>2, <3>1 DEF AnswerInv, AnswerMatchesLog
  <2>6. \A k \in Keys : k = key => CommittedUnder(k)' = Written(h)
    BY <2>3, <2>4, <2>5 DEF CommittedUnder
  <2>7. \A k \in Keys : k # key => CommittedUnder(k)' = CommittedUnder(k)
    BY <2>3, <2>4 DEF CommittedUnder
  <2>8. /\ \A c \in Written(h) : \E i \in 1..Len(accepted[h]) : Lists(accepted[h][i], c)
        /\ \A i \in 1..Len(accepted[h]) : \E c \in Written(h) : Lists(accepted[h][i], c)
    <3>1. \A i \in 1..Len(accepted[h]) :
            Lists(accepted[h][i], Entry(accepted[h][i], request[h].key, request[h].device))
      BY DEF Entry, Lists
    <3> QED
      BY <3>1 DEF Written
  <2>9. answered'[key] = accepted[h] /\ \A k \in Keys : k # key => answered'[k] = answered[k]
    BY <2>2, <2>3 DEF TypeOK
  <2>10. AnswerMatchesLog'
    <3> SUFFICES ASSUME NEW k \in Keys
                 PROVE  AnswerMatchesLog!(k)'
      BY DEF AnswerMatchesLog
    <3>1. CASE k = key
      <4>1. answered'[k] = accepted[h] /\ CommittedUnder(k)' = Written(h)
        BY <2>6, <2>9, <3>1
      <4> QED
        BY <2>8, <4>1
    <3>2. CASE k # key
      <4>1. answered'[k] = answered[k] /\ CommittedUnder(k)' = CommittedUnder(k)
        BY <2>7, <2>9, <3>2
      <4>2. /\ \A c \in CommittedUnder(k) :
                 \E i \in 1..Len(answered[k]) : Lists(answered[k][i], c)
            /\ \A i \in 1..Len(answered[k]) :
                 \E c \in CommittedUnder(k) : Lists(answered[k][i], c)
        BY DEF AnswerInv, AnswerMatchesLog
      <4> QED
        BY <4>1, <4>2
    <3> QED
      BY <3>1, <3>2
  <2>11. AnswersAgree'
    <3>1. accepted[h] # <<>>
      BY <2>1
    <3>2. sent[key] = {}
      BY <2>2 DEF AnswerInv, AnswersAgree
    <3>3. sent'[key] = {accepted[h]} /\ \A k \in Keys : k # key => sent'[k] = sent[k]
      BY <2>2, <2>3, <3>2 DEF TypeOK
    <3> QED
      BY <2>9, <3>1, <3>3 DEF AnswerInv, AnswersAgree
  <2> QED
    BY <2>10, <2>11 DEF AnswerInv
<1>8. CASE UNCHANGED vars
  BY <1>1, <1>8 DEF vars, database
<1> QED
  BY <1>1, <1>2, <1>3, <1>4, <1>5, <1>6, <1>7, <1>8
     DEF Next, Step, Conflict, KeyTaken, Fail, DeadlockVictim

-----------------------------------------------------------------------------
(* The inductive invariant holds at the start ...                          *)
LEMMA IInvInit == Init => IInv
<1> SUFFICES ASSUME Init PROVE IInv
  OBVIOUS
<1>1. TypeOK /\ ControlInv
  BY ControlInit
<1>2. LockInv /\ KeyInv /\ CursorInv
  BY DEF Init, LockInv, KeyInv, CursorInv
<1>3. VersionInv /\ GaplessHistory /\ CursorOrderIsVersionOrder
  BY ExistingAssumption
     DEF Init, VersionInv, GaplessHistory, CursorOrderIsVersionOrder, ChangesOf
<1>4. AnswerMatchesLog /\ AnswersAgree
  BY DEF Init, AnswerMatchesLog, AnswersAgree, CommittedUnder
<1> QED
  BY <1>1, <1>2, <1>3, <1>4 DEF IInv

(* ... is preserved by every step ...                                      *)
LEMMA IInvStep == IInv /\ [Next]_vars => IInv'
<1> SUFFICES ASSUME IInv, [Next]_vars PROVE IInv'
  OBVIOUS
<1> USE DEF IInv
<1>1. TypeOK' /\ ControlInv'
  BY ControlStep
<1>2. LockInv' /\ KeyInv' /\ CursorInv'
  BY LockStep, KeyStep, CursorStep
<1>3. HistoryInv'
  BY HistoryStep DEF HistoryInv
<1>4. AnswerInv'
  BY AnswerStep DEF AnswerInv
<1> QED
  BY <1>1, <1>2, <1>3, <1>4 DEF HistoryInv, AnswerInv

(* ... and so always holds.                                                *)
LEMMA Inductive == Spec => []IInv
<1> QED
  BY IInvInit, IInvStep, PTL DEF Spec

(* Exactly once and all or nothing, for every set of concurrent pushes:    *)
(* the changes committed under a key are those of its stored response.     *)
THEOREM ExactlyOnce == Spec => []AnswerMatchesLog
<1>1. IInv => AnswerMatchesLog
  BY DEF IInv
<1> QED
  BY <1>1, Inductive, PTL

(* Every 200 a key is ever given is the same.                              *)
THEOREM OneAnswer == Spec => []AnswersAgree
<1>1. IInv => AnswersAgree
  BY DEF IInv
<1> QED
  BY <1>1, Inductive, PTL

(* The history of an object that has a row has no gap ...                  *)
THEOREM Gapless == Spec => []GaplessHistory
<1>1. IInv => GaplessHistory
  BY DEF IInv
<1> QED
  BY <1>1, Inductive, PTL

(* ... and is linear, in the order of the cursors.                         *)
THEOREM Linear == Spec => []CursorOrderIsVersionOrder
<1>1. IInv => CursorOrderIsVersionOrder
  BY DEF IInv
<1> QED
  BY <1>1, Inductive, PTL

-----------------------------------------------------------------------------
(* A device has received committed changes only, none above its cursor.    *)
SeenInv == \A d \in Devices : \A c \in seen[d] : c \in log /\ c.cursor <= pulled[d]

(* The log only grows, whatever a handler does, and only a pull delivers.  *)
LEMMA LogGrows ==
  ASSUME [Next]_vars
  PROVE  /\ log \subseteq log'
         /\ (\E d \in Devices : Pull(d)) \/ UNCHANGED clients
<1>1. ASSUME NEW h \in Handlers, Step(h) \/ Fail(h) \/ DeadlockVictim(h)
      PROVE  log \subseteq log' /\ UNCHANGED clients
  BY <1>1 DEF Step, Fail, DeadlockVictim, Select, Conflict, Write, Record, KeyTaken,
              Commit, Rollback, database
<1>2. ASSUME NEW h \in Handlers, NEW r \in Requests, Replay(h, r) \/ Begin(h, r)
      PROVE  log \subseteq log' /\ UNCHANGED clients
  BY <1>2 DEF Replay, Begin, database
<1>3. ASSUME NEW d \in Devices, Pull(d)
      PROVE  log \subseteq log'
  BY <1>3 DEF Pull, database
<1>4. CASE UNCHANGED vars
  BY <1>4 DEF vars, database
<1> QED
  BY <1>1, <1>2, <1>3, <1>4 DEF Next

(* What a pull delivers lies above everything the device has received, and *)
(* not above the cursor it moves to.                                       *)
LEMMA PullDelivers ==
  ASSUME TypeOK, NEW d \in Devices, Pull(d), NEW p \in Devices, NEW c \in seen'[p]
  PROVE  /\ c \in seen[p] => pulled[p] <= pulled'[p]
         /\ c \notin seen[p] => c \in log /\ pulled[p] < c.cursor /\ c.cursor <= pulled'[p]
<1>1. CASE p = d
  <2>1. seen'[d] = seen[d] \cup Page(d)
    BY DEF Pull, TypeOK
  <2>2. PICK last \in Page(d) :
          (\A e \in Page(d) : e.cursor <= last.cursor) /\ pulled'[d] = last.cursor
    BY DEF Pull, TypeOK
  <2>3. \A e \in Page(d) : e \in log /\ e.cursor > pulled[d]
    BY DEF Page
  <2>4. pulled[d] \in Nat /\ \A e \in log : e.cursor \in Nat
    BY DEF TypeOK, LogEntry
  <2> QED
    BY <1>1, <2>1, <2>2, <2>3, <2>4
<1>2. CASE p # d
  <2>1. seen'[p] = seen[p] /\ pulled'[p] = pulled[p] /\ pulled[p] \in Nat
    BY <1>2 DEF Pull, TypeOK
  <2> QED
    BY <2>1
<1> QED
  BY <1>1, <1>2

(* A device receives the versions of an object that has a row in order: a  *)
(* pull delivers changes with higher cursors, and those are newer. That    *)
(* changes can be missed (the cursor gap) takes nothing away from it.      *)
THEOREM InOrder == Spec => DeliveredInVersionOrder
<1>1. Init => SeenInv
  BY DEF Init, SeenInv
<1>2. IInv /\ SeenInv /\ [Next]_vars => SeenInv'
  <2> SUFFICES ASSUME IInv, SeenInv, [Next]_vars,
                      NEW p \in Devices, NEW c \in seen'[p]
               PROVE  c \in log' /\ c.cursor <= pulled'[p]
    BY DEF SeenInv
  <2>1. CASE UNCHANGED clients
    BY <2>1, LogGrows DEF clients, SeenInv
  <2>2. ASSUME NEW d \in Devices, Pull(d)
        PROVE  c \in log' /\ c.cursor <= pulled'[p]
    <3>1. TypeOK
      BY DEF IInv
    <3>2. log \subseteq log'
      BY LogGrows
    <3>3. CASE c \in seen[p]
      <4>1. c \in log /\ c.cursor <= pulled[p]
        BY <3>3 DEF SeenInv
      <4>2. pulled[p] <= pulled'[p] /\ pulled[p] \in Nat /\ c.cursor \in Nat
        BY <2>2, <3>1, <3>3, <4>1, PullDelivers DEF TypeOK, LogEntry
      <4>3. pulled'[p] \in Nat
        BY <2>2, <3>1, <3>2, ControlStep DEF IInv, TypeOK
      <4> QED
        BY <3>2, <4>1, <4>2, <4>3
    <3>4. CASE c \notin seen[p]
      BY <2>2, <3>1, <3>2, <3>4, PullDelivers
    <3> QED
      BY <3>3, <3>4
  <2> QED
    BY <2>1, <2>2, LogGrows
<1>3. IInv /\ SeenInv /\ [Next]_vars =>
        [\A d \in Devices :
           \A c \in seen'[d] \ seen[d], e \in seen[d] :
             c.object = e.object /\ c.object \in Existing => e.version < c.version]_vars
  <2> SUFFICES ASSUME IInv, SeenInv, [Next]_vars,
                      NEW p \in Devices, NEW c \in seen'[p] \ seen[p], NEW e \in seen[p],
                      c.object = e.object, c.object \in Existing
               PROVE  e.version < c.version
    OBVIOUS
  <2>1. PICK d \in Devices : Pull(d)
    BY LogGrows DEF clients
  <2>2. TypeOK /\ CursorOrderIsVersionOrder
    BY DEF IInv
  <2>3. c \in log /\ pulled[p] < c.cursor
    BY <2>1, <2>2, PullDelivers
  <2>4. e \in log /\ e.cursor <= pulled[p]
    BY DEF SeenInv
  <2>5. e.cursor < c.cursor
    BY <2>2, <2>3, <2>4 DEF TypeOK, LogEntry
  <2> QED
    BY <2>2, <2>3, <2>4, <2>5 DEF CursorOrderIsVersionOrder, ChangesOf
<1> QED
  BY <1>1, <1>2, <1>3, Inductive, PTL DEF Spec, DeliveredInVersionOrder

-----------------------------------------------------------------------------
Visible == <<objects, log, answered>>

(* A change is accepted only with the base its object had when it was      *)
(* read, which is then the version before the one it is given.             *)
BaseInv ==
  \A h \in Handlers :
    /\ pc[h] = "write" => current[h] = Todo(h).base
    /\ pc[h] \in {"record", "commit"} => Len(accepted[h]) = Len(request[h].changes)
    /\ \A i \in 1..Len(accepted[h]) :
         accepted[h][i].version = request[h].changes[i].base + 1

LEMMA BaseStep ==
  ASSUME TypeOK, ControlInv, BaseInv, [Next]_vars
  PROVE  BaseInv'
<1>1. CASE Quiet
  BY <1>1 DEF Quiet, transaction, BaseInv, Todo, Position
<1>2. ASSUME NEW h \in Handlers, Others(h), BaseInv!(h)'
      PROVE  BaseInv'
  <2> SUFFICES ASSUME NEW g \in Handlers
               PROVE  BaseInv!(g)'
    BY DEF BaseInv
  <2>1. CASE g = h
    BY <1>2, <2>1
  <2>2. CASE g # h
    <3>1. Todo(g)' = Todo(g)
      BY <1>2, <2>2 DEF Others, Todo, Position
    <3> QED
      BY <1>2, <2>2, <3>1 DEF Others, BaseInv
  <2> QED
    BY <2>1, <2>2
<1>3. ASSUME NEW h \in Handlers, Rollback(h) \/ Commit(h)
      PROVE  BaseInv!(h)'
  <2>1. pc'[h] = "idle" /\ accepted'[h] = <<>>
    BY <1>3 DEF Rollback, Commit, EndTransaction, TypeOK
  <2> QED
    BY <2>1
<1>4. ASSUME NEW h \in Handlers, NEW r \in Requests, Begin(h, r)
      PROVE  BaseInv!(h)'
  <2>1. pc'[h] = "select" /\ accepted'[h] = <<>>
    BY <1>4 DEF Begin, TypeOK, ControlInv
  <2> QED
    BY <2>1
<1>5. ASSUME NEW h \in Handlers, Select(h)
      PROVE  BaseInv!(h)'
  <2>1. /\ pc'[h] = "write" /\ current'[h] = Todo(h).base
        /\ accepted' = accepted /\ request' = request
    BY <1>5 DEF Select, TypeOK
  <2> QED
    BY <2>1 DEF BaseInv, Todo, Position
<1>6. ASSUME NEW h \in Handlers, Write(h)
      PROVE  BaseInv!(h)'
  <2> DEFINE n == Len(accepted[h])
  <2>1. /\ n \in Nat /\ Len(accepted'[h]) = n + 1
        /\ \A i \in 1..n : accepted'[h][i] = accepted[h][i]
        /\ accepted'[h][n + 1] = [object |-> Todo(h).object, version |-> current[h] + 1,
                                  cursor |-> lastCursor + 1]
    BY <1>6, WriteAppends
  <2>v. accepted'[h][n + 1].version = current[h] + 1
    BY <2>1
  <2>2. current[h] = request[h].changes[n + 1].base /\ request' = request
    BY <1>6 DEF Write, BaseInv, Todo, Position
  <2>3. \A i \in 1..n + 1 : accepted'[h][i].version = request'[h].changes[i].base + 1
    <3>1. \A i \in 1..n : accepted[h][i].version = request[h].changes[i].base + 1
      BY DEF BaseInv
    <3>2. accepted'[h][n + 1].version = request'[h].changes[n + 1].base + 1
      BY <2>2, <2>v
    <3>3. \A i \in 1..n : accepted'[h][i].version = request'[h].changes[i].base + 1
      <4> SUFFICES ASSUME NEW i \in 1..n
                   PROVE  accepted'[h][i].version = request'[h].changes[i].base + 1
        OBVIOUS
      <4>1. accepted'[h][i] = accepted[h][i]
        BY <2>1
      <4>2. accepted[h][i].version = request[h].changes[i].base + 1
        BY <3>1
      <4> QED
        BY <2>2, <4>1, <4>2
    <3>4. n \in Nat
      BY <2>1
    <3> HIDE DEF n
    <3>5. \A i \in 1..n + 1 : i \in 1..n \/ i = n + 1
      BY <3>4
    <3> QED
      BY <3>2, <3>3, <3>5
  <2>4. /\ pc'[h] = IF n + 1 < Len(request[h].changes) THEN "select" ELSE "record"
    BY <1>6 DEF Write, TypeOK, Position
  <2>5. n < Len(request[h].changes) /\ Len(request[h].changes) \in Nat
    <3>1. request[h] \in Requests /\ n < Len(request[h].changes)
      BY <1>6 DEF Write, ControlInv
    <3> QED
      BY <3>1, RequestsAssumption
  <2> HIDE DEF n
  <2> QED
    BY <2>1, <2>2, <2>3, <2>4, <2>5
<1>7. ASSUME NEW h \in Handlers, Record(h)
      PROVE  BaseInv!(h)'
  BY <1>7 DEF Record, TypeOK, BaseInv
<1> QED
  BY <1>1, <1>2, <1>3, <1>4, <1>5, <1>6, <1>7, StepCases

(* A commit is an Accept of the contract, of the request it serves.        *)
LEMMA CommitIsAccept ==
  ASSUME IInv, BaseInv, NEW h \in Handlers, Commit(h)
  PROVE  \E r \in Requests : Contract!Accept(r)
<1> DEFINE old == {c \in log : c.object \in Existing}
           new == {c \in log' : c.object \in Existing}
<1>1. TypeOK /\ ControlInv /\ LockInv /\ KeyInv /\ CursorInv
  BY DEF IInv
<1>2. /\ pc[h] = "commit" /\ request[h] \in Requests
      /\ accepted[h] \in Seq(Accepted) /\ Len(accepted[h]) > 0
  BY <1>1 DEF Commit, ControlInv, TypeOK
<1>r. PICK r \in Requests : r = request[h]
  BY <1>2
<1>k. r.key \in Keys /\ r.changes \in Seq(Change)
  BY RequestsAssumption
<1>3. answered[r.key] = <<>> /\ accepted[h] # <<>>
  BY <1>r, <1>1, <1>2 DEF KeyInv
<1>4. log' = log \cup Written(h) /\ answered' = [answered EXCEPT ![r.key] = accepted[h]]
  BY <1>r DEF Commit
<1>5. {x \in Keys : answered'[x] # <<>>} = {x \in Keys : answered[x] # <<>>} \cup {r.key}
  BY <1>1, <1>k, <1>3, <1>4 DEF TypeOK
<1>6. /\ Len(accepted[h]) = Len(r.changes) /\ Len(r.changes) \in Nat
      /\ \A i \in 1..Len(r.changes) :
           /\ accepted[h][i].object = r.changes[i].object
           /\ accepted[h][i].version = r.changes[i].base + 1
           /\ accepted[h][i].object \in Existing =>
                accepted[h][i].version = objects[r.changes[i].object] + 1
  BY <1>1, <1>2, <1>r, <1>k DEF BaseInv, ControlInv, LockInv
<1>7. \A c \in Contract!Changes(r) :
        /\ c.object \in Existing \cap Touched(h) /\ c.base = objects[c.object]
  <2> SUFFICES ASSUME NEW c \in Contract!Changes(r)
               PROVE  c.object \in Existing \cap Touched(h) /\ c.base = objects[c.object]
    OBVIOUS
  <2>1. PICK i \in 1..Len(r.changes) : c = r.changes[i]
    BY DEF Contract!Changes
  <2>2. c.object \in Existing
    BY DEF Contract!Changes
  <2>3. c \in Change
    BY <1>k, <2>1
  <2>4. c.base \in Nat /\ objects[c.object] \in Nat
    BY <1>1, <2>3 DEF Change, TypeOK
  <2>5. c.object \in Touched(h)
    BY <1>6, <2>1 DEF Touched
  <2>6. c.base + 1 = objects[c.object] + 1
    BY <1>6, <2>1, <2>2
  <2> QED
    BY <2>2, <2>4, <2>5, <2>6
<1>8. \A o \in Existing \cap Touched(h) : \E c \in Contract!Changes(r) : c.object = o
  BY <1>6 DEF Contract!Changes, Touched
<1>9. ASSUME NEW e \in new \ old
      PROVE  /\ e.key = r.key
             /\ \E c \in Contract!Changes(r) : e.object = c.object /\ e.version = c.base + 1
             /\ \A f \in old : f.object = e.object => f.cursor < e.cursor
             /\ \A f \in new \ old : f.object = e.object => f = e
  <2>1. e \in Written(h) /\ e.object \in Existing
    BY <1>4
  <2>2. /\ e.key = r.key /\ e.object \in Touched(h)
        /\ e.version = objects[e.object] + 1
        /\ \A f \in old : f.object = e.object => f.cursor < e.cursor
        /\ \A f \in new \ old : f.object = e.object => f = e
    BY <1>r, <1>1, <1>2, <1>4, <2>1, WrittenChange
  <2>3. PICK c \in Contract!Changes(r) : c.object = e.object
    BY <1>8, <2>1, <2>2
  <2> QED
    BY <1>7, <2>2, <2>3
<1>10. ASSUME NEW c \in Contract!Changes(r)
       PROVE  \E e \in new \ old : e.object = c.object
  <2> DEFINE o == c.object
  <2>1. PICK i \in 1..Len(accepted[h]) : o = accepted[h][i].object
    BY <1>7 DEF Touched
  <2> DEFINE e == Entry(accepted[h][i], request[h].key, request[h].device)
  <2>2. e \in Written(h) /\ e.object = o
    BY <2>1 DEF Written, Entry
  <2>3. e \in LogEntry /\ \A f \in log : f.object = o => f.cursor < e.cursor
    BY <1>1, <1>2, <2>2, WrittenChange
  <2>4. e \notin log
    BY <2>2, <2>3 DEF LogEntry
  <2> QED
    BY <1>4, <1>7, <2>2, <2>4
<1>11. [o \in Existing |-> objects'[o]] =
         [o \in Existing |->
            IF \E c \in Contract!Changes(r) : c.object = o
              THEN [p \in Existing |-> objects[p]][o] + 1
              ELSE [p \in Existing |-> objects[p]][o]]
  <2>1. ASSUME NEW o \in Existing
        PROVE  objects'[o] = IF \E c \in Contract!Changes(r) : c.object = o
                               THEN objects[o] + 1 ELSE objects[o]
    <3>1. CASE o \in Touched(h)
      BY <1>1, <1>8, <3>1, CommitRow
    <3>2. CASE o \notin Touched(h)
      BY <1>1, <1>7, <3>2, CommitRow, ExistingAssumption
    <3> QED
      BY <3>1, <3>2
  <2> QED
    BY <2>1
<1>12. \A c \in Contract!Changes(r) : c.base = [o \in Existing |-> objects[o]][c.object]
  BY <1>7
<1>13. old \subseteq new
  BY <1>4
<1>14. Contract!Accept(r)
  BY <1>3, <1>5, <1>9, <1>10, <1>11, <1>12, <1>13, <1>k DEF Contract!Accept
<1> QED
  BY <1>14

(* The server implements its contract: the visible state changes only when *)
(* a transaction commits, and then as SyncContract has it.                 *)
THEOREM Implements == Spec => ImplementsContract
<1>1. Init => Contract!Init /\ BaseInv
  BY ExistingAssumption DEF Init, Contract!Init, BaseInv
<1>2. IInv /\ BaseInv /\ [Next]_vars => BaseInv' /\ [Contract!Next]_(Contract!vars)
  <2> SUFFICES ASSUME IInv, BaseInv, [Next]_vars
               PROVE  BaseInv' /\ [Contract!Next]_(Contract!vars)
    OBVIOUS
  <2>0. BaseInv'
    BY BaseStep DEF IInv
  <2>1. CASE UNCHANGED Visible
    BY <2>0, <2>1 DEF Visible, Contract!vars
  <2>2. ASSUME NEW h \in Handlers, Commit(h)
        PROVE  Contract!Next
    BY <2>2, CommitIsAccept DEF Contract!Next
  <2>3. TypeOK
    BY DEF IInv
  <2>4. Quiet => UNCHANGED Visible
    BY DEF Quiet, database, Visible
  <2>5. ASSUME NEW h \in Handlers, Rollback(h) \/ Select(h) \/ Write(h) \/ Record(h)
        PROVE  UNCHANGED Visible
    BY <2>5 DEF Rollback, Select, Write, Record, database, Visible
  <2>6. ASSUME NEW h \in Handlers, NEW r \in Requests, Begin(h, r)
        PROVE  UNCHANGED Visible
    BY <2>6 DEF Begin, database, Visible
  <2> QED
    BY <2>0, <2>1, <2>2, <2>3, <2>4, <2>5, <2>6, StepCases
<1> QED
  BY <1>1, <1>2, Inductive, PTL DEF Spec, Contract!Spec, ImplementsContract
=============================================================================
