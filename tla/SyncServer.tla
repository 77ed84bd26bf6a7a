------------------------------ MODULE SyncServer ------------------------------
(***************************************************************************)
(* The synchronization API of the Snapline server for the account of one   *)
(* user: concurrent executions of `push`, each a PostgreSQL transaction at *)
(* READ COMMITTED taken statement by statement, and `pull`.                *)
(*                                                                         *)
(* What the database does is modelled by what these statements rely on:    *)
(*   - a row written or selected FOR UPDATE stays locked until its         *)
(*     transaction ends, and whoever wants it waits;                       *)
(*   - SELECT ... FOR UPDATE locks nothing when no committed row matches;  *)
(*   - INSERT ... ON CONFLICT DO UPDATE waits for another transaction's    *)
(*     uncommitted row, then writes over whatever that one committed;      *)
(*   - the BIGSERIAL behind sync_changes.cursor is outside transactions: a *)
(*     value is taken at the INSERT and never given back.                  *)
(***************************************************************************)
EXTENDS Integers, Sequences, FiniteSets

CONSTANTS
  Handlers,   \* executions of `push` that may run at the same time
  Devices,    \* devices of the account
  Objects,    \* synchronized objects
  Existing,   \* those with a committed sync_objects row (version 1) at the start
  Keys,       \* idempotency keys
  Requests,   \* the push requests the devices may send, over and over
  NoRequest,  \* "this handler is not serving a request"
  PageLimit,  \* changes in one page of `pull`
  MaxCursor   \* bound of the model: no push begins once so many cursors are taken

(* A change of a request: the object and the version the device based it   *)
(* on. A device sends at most one change of an object in a request (it     *)
(* collects the newest outbox row of each object).                         *)
Change == [object : Objects, base : Nat]

ASSUME ExistingAssumption == Existing \subseteq Objects

ASSUME RequestsAssumption ==
  /\ \A r \in Requests :
       /\ r.key \in Keys /\ r.device \in Devices
       /\ r.changes \in Seq(Change) /\ r.changes # <<>>
       /\ \A i, j \in 1..Len(r.changes) :
            r.changes[i].object = r.changes[j].object => i = j
  /\ NoRequest \notin Requests

ASSUME BoundsAssumption == PageLimit \in Nat \ {0} /\ MaxCursor \in Nat

VARIABLES
  objects,    \* sync_objects: the committed version of each object, 0 without a row
  log,        \* sync_changes: the committed changes
  answered,   \* sync_push_requests: the stored response of each key, <<>> without one
  lastCursor, \* the last value taken from the BIGSERIAL
  pc,         \* the statement each handler is about to run
  request,    \* the request each handler serves
  current,    \* `current_version` as the handler's SELECT returned it
  accepted,   \* the `accepted` vector the handler has built so far
  locks,      \* the sync_objects rows the handler's transaction has locked
  sent,       \* the 200 responses computed for each key
  pulled,     \* each device's pull cursor
  seen        \* the changes delivered to each device

database == <<objects, log, answered>>
transaction == <<pc, request, current, accepted, locks>>
clients == <<pulled, seen>>
vars == <<database, lastCursor, transaction, sent, clients>>

(* AcceptedChange, an element of PushResponse.accepted.                    *)
Accepted == [object : Objects, version : Nat, cursor : Nat]

(* A row of sync_changes; `key` is the idempotency key of the request that *)
(* wrote it, which the table itself does not keep.                         *)
LogEntry == [object : Objects, version : Nat, cursor : Nat,
             key : Keys, device : Devices]

Statements == {"idle", "select", "write", "record", "commit"}

TypeOK ==
  /\ objects \in [Objects -> Nat]
  /\ log \subseteq LogEntry
  /\ answered \in [Keys -> Seq(Accepted)]
  /\ lastCursor \in Nat
  /\ pc \in [Handlers -> Statements]
  /\ request \in [Handlers -> Requests \cup {NoRequest}]
  /\ current \in [Handlers -> Nat]
  /\ accepted \in [Handlers -> Seq(Accepted)]
  /\ locks \in [Handlers -> SUBSET Objects]
  /\ sent \in [Keys -> SUBSET Seq(Accepted)]
  /\ pulled \in [Devices -> Nat]
  /\ seen \in [Devices -> SUBSET LogEntry]

Init ==
  /\ objects = [o \in Objects |-> IF o \in Existing THEN 1 ELSE 0]
  /\ log = {}
  /\ answered = [k \in Keys |-> <<>>]
  /\ lastCursor = 0
  /\ pc = [h \in Handlers |-> "idle"]
  /\ request = [h \in Handlers |-> NoRequest]
  /\ current = [h \in Handlers |-> 0]
  /\ accepted = [h \in Handlers |-> <<>>]
  /\ locks = [h \in Handlers |-> {}]
  /\ sent = [k \in Keys |-> {}]
  /\ pulled = [d \in Devices |-> 0]
  /\ seen = [d \in Devices |-> {}]

-----------------------------------------------------------------------------
(* The change a handler is working on.                                     *)
Position(h) == Len(accepted[h]) + 1
Todo(h) == request[h].changes[Position(h)]

LockedByOther(h, o) == \E g \in Handlers \ {h} : o \in locks[g]

(* The row a handler must wait for, and the one it would have to wait for  *)
(* at the unique index of sync_push_requests: a row another transaction    *)
(* has inserted and not committed.                                         *)
RowBusy(h) ==
  /\ \/ pc[h] = "select" /\ objects[Todo(h).object] > 0
     \/ pc[h] = "write"
  /\ LockedByOther(h, Todo(h).object)
KeyBusy(h) ==
  /\ pc[h] = "record"
  /\ \E g \in Handlers \ {h} :
       pc[g] = "commit" /\ request[g].key = request[h].key

(* The end of a transaction: its locks are gone, the handler is free.      *)
EndTransaction(h) ==
  /\ pc' = [pc EXCEPT ![h] = "idle"]
  /\ request' = [request EXCEPT ![h] = NoRequest]
  /\ current' = [current EXCEPT ![h] = 0]
  /\ accepted' = [accepted EXCEPT ![h] = <<>>]
  /\ locks' = [locks EXCEPT ![h] = {}]

Rollback(h) == EndTransaction(h) /\ UNCHANGED <<database, lastCursor, sent, clients>>

(* BEGIN and the lookup of the key find a stored response: it is returned. *)
Replay(h, r) ==
  /\ pc[h] = "idle" /\ answered[r.key] # <<>>
  /\ sent' = [sent EXCEPT ![r.key] = @ \cup {answered[r.key]}]
  /\ UNCHANGED <<database, lastCursor, transaction, clients>>

(* BEGIN and the lookup of the key find nothing: the changes are applied.  *)
Begin(h, r) ==
  /\ pc[h] = "idle" /\ answered[r.key] = <<>>
  /\ lastCursor < MaxCursor
  /\ pc' = [pc EXCEPT ![h] = "select"]
  /\ request' = [request EXCEPT ![h] = r]
  /\ UNCHANGED <<database, lastCursor, current, accepted, locks, sent, clients>>

(* Faulty variants of Select: without FOR UPDATE; without the comparison   *)
(* with base_version; with an absent row read as -1.                       *)
SelectUnlocked(h) ==
  /\ pc[h] = "select"
  /\ objects[Todo(h).object] = Todo(h).base
  /\ current' = [current EXCEPT ![h] = objects[Todo(h).object]]
  /\ pc' = [pc EXCEPT ![h] = "write"]
  /\ UNCHANGED <<database, lastCursor, request, accepted, locks, sent, clients>>
SelectUncompared(h) ==
  /\ pc[h] = "select" /\ ~RowBusy(h)
  /\ current' = [current EXCEPT ![h] = objects[Todo(h).object]]
  /\ locks' = [locks EXCEPT ![h] =
                 @ \cup {o \in {Todo(h).object} : objects[o] > 0}]
  /\ pc' = [pc EXCEPT ![h] = "write"]
  /\ UNCHANGED <<database, lastCursor, request, accepted, sent, clients>>
SelectAbsentAsMinusOne(h) ==
  /\ pc[h] = "select" /\ ~RowBusy(h)
  /\ current' = [current EXCEPT ![h] =
       IF objects[Todo(h).object] = 0 THEN -1 ELSE objects[Todo(h).object]]
  /\ locks' = [locks EXCEPT ![h] = @ \cup {Todo(h).object}]
  /\ pc' = [pc EXCEPT ![h] = "write"]
  /\ UNCHANGED <<database, lastCursor, request, accepted, sent, clients>>

(* SELECT version ... FOR UPDATE, and the comparison with base_version. An *)
(* absent row reads as 0 and locks nothing.                                *)
Select(h) ==
  /\ pc[h] = "select" /\ ~RowBusy(h)
  /\ objects[Todo(h).object] = Todo(h).base
  /\ current' = [current EXCEPT ![h] = objects[Todo(h).object]]
  /\ locks' = [locks EXCEPT ![h] =
                 @ \cup {o \in {Todo(h).object} : objects[o] > 0}]
  /\ pc' = [pc EXCEPT ![h] = "write"]
  /\ UNCHANGED <<database, lastCursor, request, accepted, sent, clients>>

(* ... and the answer 409 when they differ, which rolls back every change  *)
(* of the request applied before.                                          *)
Conflict(h) ==
  /\ pc[h] = "select" /\ ~RowBusy(h)
  /\ objects[Todo(h).object] # Todo(h).base
  /\ Rollback(h)

(* The upsert of sync_objects, which may wait for a row, and the INSERT    *)
(* into sync_changes, which takes the next cursor and never waits.         *)
Write(h) ==
  /\ pc[h] = "write" /\ ~RowBusy(h)
  /\ lastCursor' = lastCursor + 1
  /\ accepted' = [accepted EXCEPT ![h] =
       Append(@, [object |-> Todo(h).object,
                  version |-> current[h] + 1,
                  cursor |-> lastCursor + 1])]
  /\ locks' = [locks EXCEPT ![h] = @ \cup {Todo(h).object}]
  /\ pc' = [pc EXCEPT ![h] =
       IF Position(h) < Len(request[h].changes) THEN "select" ELSE "record"]
  /\ UNCHANGED <<database, request, current, sent, clients>>

(* Faulty variant of Record: ON CONFLICT DO UPDATE SET response.           *)
RecordOverwriting(h) ==
  /\ pc[h] = "record"
  /\ pc' = [pc EXCEPT ![h] = "commit"]
  /\ UNCHANGED <<database, lastCursor, request, current, accepted, locks, sent, clients>>

(* INSERT INTO sync_push_requests: the key is free.                        *)
Record(h) ==
  /\ pc[h] = "record" /\ ~KeyBusy(h)
  /\ answered[request[h].key] = <<>>
  /\ pc' = [pc EXCEPT ![h] = "commit"]
  /\ UNCHANGED <<database, lastCursor, request, current, accepted, locks, sent, clients>>

(* ... or another transaction committed it since the lookup: the primary   *)
(* key is violated and the answer is 500.                                  *)
KeyTaken(h) ==
  /\ pc[h] = "record" /\ ~KeyBusy(h)
  /\ answered[request[h].key] # <<>>
  /\ Rollback(h)

(* The rows a transaction has written to sync_objects and sync_changes.    *)
Touched(h) == {accepted[h][i].object : i \in 1..Len(accepted[h])}
VersionWritten(h, o) ==
  LET i == CHOOSE i \in 1..Len(accepted[h]) : accepted[h][i].object = o
  IN  accepted[h][i].version
Entry(a, k, d) == [object |-> a.object, version |-> a.version, cursor |-> a.cursor,
                   key |-> k, device |-> d]
Written(h) == {Entry(accepted[h][i], request[h].key, request[h].device) :
                 i \in 1..Len(accepted[h])}

Commit(h) ==
  /\ pc[h] = "commit"
  /\ objects' = [o \in Objects |->
       IF o \in Touched(h) THEN VersionWritten(h, o) ELSE objects[o]]
  /\ log' = log \cup Written(h)
  /\ answered' = [answered EXCEPT ![request[h].key] = accepted[h]]
  /\ sent' = [sent EXCEPT ![request[h].key] = @ \cup {accepted[h]}]
  /\ EndTransaction(h)
  /\ UNCHANGED <<lastCursor, clients>>

(* A transaction may end without committing at any statement: the process  *)
(* or the connection dies, or the caller hangs up.                         *)
Fail(h) == pc[h] # "idle" /\ Rollback(h)

(* PostgreSQL aborts a transaction that waits in a circle, as two requests *)
(* that lock the same rows in opposite orders do.                          *)
WaitsFor(h, g) ==
  /\ g # h
  /\ \/ RowBusy(h) /\ Todo(h).object \in locks[g]
     \/ KeyBusy(h) /\ pc[g] = "commit" /\ request[g].key = request[h].key
InCircle(h) ==
  \E S \in SUBSET Handlers :
    /\ h \in S
    /\ \A g \in S : (\E f \in S : WaitsFor(g, f)) /\ (\E f \in S : WaitsFor(f, g))
(* Faulty variant of DeadlockVictim: waiters in a circle keep waiting.      *)
DeadlockIgnored(h) == pc[h] # "idle" /\ InCircle(h) /\ UNCHANGED vars
DeadlockVictim(h) == pc[h] # "idle" /\ InCircle(h) /\ Rollback(h)

(* A page of `pull`: the committed changes above the device's cursor, in   *)
(* cursor order, at most PageLimit of them. The device takes the page in   *)
(* and moves its cursor to the last change of it.                          *)
Page(d) == {c \in log :
              /\ c.cursor > pulled[d]
              /\ Cardinality({e \in log : e.cursor > pulled[d] /\ e.cursor < c.cursor})
                   < PageLimit}
Pull(d) ==
  /\ Page(d) # {}
  /\ seen' = [seen EXCEPT ![d] = @ \cup Page(d)]
  /\ \E last \in Page(d) :
       /\ \A c \in Page(d) : c.cursor <= last.cursor
       /\ pulled' = [pulled EXCEPT ![d] = last.cursor]
  /\ UNCHANGED <<database, lastCursor, transaction, sent>>

(* What a handler does once it has a request and nothing fails.            *)
Step(h) == Select(h) \/ Conflict(h) \/ Write(h) \/ Record(h) \/ KeyTaken(h) \/ Commit(h)

Next ==
  \/ \E h \in Handlers :
       \/ \E r \in Requests : Replay(h, r) \/ Begin(h, r)
       \/ Step(h)
       \/ Fail(h)
       \/ DeadlockVictim(h)
  \/ \E d \in Devices : Pull(d)

Spec == Init /\ [][Next]_vars

(* The runtime keeps polling a handler, and the database runs a statement  *)
(* that waits for nothing and grants a row in the order of the waiters, so *)
(* nobody is overtaken forever (strong fairness); a circle of waiters is   *)
(* broken. Nobody has to send, replay, pull or fail.                       *)
FairSpec ==
  /\ Spec
  /\ \A h \in Handlers : SF_vars(Step(h))
  /\ WF_vars(\E h \in Handlers : DeadlockVictim(h))

-----------------------------------------------------------------------------
ChangesOf(o) == {c \in log : c.object = o}
CommittedUnder(k) == {c \in log : c.key = k}

Lists(a, c) == a.object = c.object /\ a.version = c.version /\ a.cursor = c.cursor

(* Exactly once and all or nothing: the committed changes of an            *)
(* idempotency key are those its stored response lists, with the version   *)
(* and the cursor the response gives each, and there are none without a    *)
(* stored response. Concurrent retries of a key, a transaction that fails  *)
(* between two statements and a replay must all preserve it.               *)
AnswerMatchesLog ==
  \A k \in Keys :
    /\ \A c \in CommittedUnder(k) :
         \E i \in 1..Len(answered[k]) : Lists(answered[k][i], c)
    /\ \A i \in 1..Len(answered[k]) :
         \E c \in CommittedUnder(k) : Lists(answered[k][i], c)

(* A device clears its outbox on a 200: whatever the retries, every 200 a  *)
(* key was ever given is the stored one, so it names committed changes.    *)
AnswersAgree == \A k \in Keys : sent[k] \subseteq {answered[k]} \ {<<>>}

(* The history of an object whose row exists is gapless: the changes since *)
(* the start carry the versions 2, 3, ... up to the row's version.         *)
GaplessHistory ==
  \A o \in Existing : {c.version : c \in ChangesOf(o)} = 2..objects[o]

(* ... and linear: the order of the cursors, in which devices take changes *)
(* in, is the order of the versions, and no two changes share a version.   *)
(* It is the row lock held from the version check to the commit that keeps *)
(* a cursor taken early from being committed late.                         *)
CursorOrderIsVersionOrder ==
  \A o \in Existing : \A c, e \in ChangesOf(o) :
    /\ c.version = e.version => c = e
    /\ c.cursor < e.cursor => c.version < e.version

(* Whatever it misses, a device never receives an older version of an      *)
(* existing object after a newer one.                                      *)
DeliveredInVersionOrder ==
  [][\A d \in Devices :
       \A c \in seen'[d] \ seen[d], e \in seen[d] :
         c.object = e.object /\ c.object \in Existing => e.version < c.version]_vars

(* For the objects that have rows the server is the contract: whatever the *)
(* interleaving of statements, retries and failures, what is committed     *)
(* changes by whole requests, each based on the versions its objects have  *)
(* when it is committed.                                                   *)
Contract == INSTANCE SyncContract WITH
  Objects <- Existing,
  version <- [o \in Existing |-> objects[o]],
  history <- {c \in log : c.object \in Existing},
  done <- {k \in Keys : answered[k] # <<>>}
ImplementsContract == Contract!Spec

(* Every push comes to an answer or an error: no lock is waited for        *)
(* forever, whatever the order in which requests lock their objects.       *)
EveryPushEnds == \A h \in Handlers : pc[h] # "idle" ~> pc[h] = "idle"

(* docs/IMPLEMENTATION_PLAN.md promises that the server never silently     *)
(* overwrites a change: a version of an object is written once, also for   *)
(* an object that has no row yet.                                          *)
NoSilentOverwrite ==
  \A c, e \in log : c.object = e.object /\ c.version = e.version => c = e

(* docs/IMPLEMENTATION_PLAN.md has the devices pull by cursor: a device    *)
(* that has moved past a cursor has received the change committed there.   *)
NoChangeSkipped ==
  \A d \in Devices : \A c \in log : c.cursor <= pulled[d] => c \in seen[d]
=============================================================================
