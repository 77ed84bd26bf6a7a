# Snapline: a TLA+ development

Snapline is a desktop notebook whose records are encrypted on the device and
synchronized between the devices of one account through a server that sees
ciphertext only. These modules specify how the pieces that share state behave,
TLC checks them on small instances, and TLAPS proves the most important of the
properties for every instance. Paths are relative to the repository; T is
`apps/desktop/src-tauri/src/lib.rs`, D is `crates/desktop-core/src/lib.rs`.

* [Inventory](#inventory) - the system, part by part
* [Modules](#modules) - what is modelled and how it corresponds to the code
* [Runs](#runs) - what is checked, with which bounds and fairness
* [Proofs](#proofs) - what is proved and how
* [Where code and documents disagree](#where-code-and-documents-disagree)
* [Not modelled](#not-modelled) - what is left out, and why
* [Plan](#plan) - what could come next, in order

## Inventory

```
 Interface (React)        editor autosave, sync every 30 s, AI queue after some saves
     | Tauri commands
 src-tauri/src/lib.rs     session, sync_now, attachment transfer, AI runs
     |                            | HTTPS
 desktop-core (SQLite)    server: auth.rs, sync.rs, attachments.rs, rate_limit.rs
 one mutex per connection    one PostgreSQL pool, attachment files on disk
```

**Server: synchronization** (`crates/server/src/sync.rs`, migration 0002).
*State*: `sync_objects` (newest version of each object), `sync_changes` (the
log, its `cursor` a BIGSERIAL), `sync_push_requests` (the stored answer of each
idempotency key), `sync_acks`. *Operations*: `push`, `pull`, `ack`. *Hard*: any
number of pushes run at once at READ COMMITTED; a push is retried with its key
when its answer was lost; it may fail or be dropped between any two statements;
cursors are handed out outside transactions. *Correct when*: a push is all or
nothing and takes effect once for its key; each version of an object is checked
against the one it replaces; the log is linear per object; a device that
follows the cursor receives everything, in order; no push waits forever.

**Desktop: repository** (`crates/desktop-core/src/lib.rs`). *State*: `items`,
`outbox`, `sync_state`, `sync_conflicts`, `sync_meta`. *Operations*: `save`,
`delete`, `apply_remote_change`, `resolve_sync_conflict`,
`pending_sync_changes`, `complete_sync_push`, `set_pull_cursor`. *Hard*: one
mutex, released within `apply_remote_change`, `resolve_sync_conflict` and
`pending_sync_changes`, so user commands come between the halves of a call.
*Correct when*: no edit disappears, nothing is overwritten unseen.

**Desktop: sync_now** (`apps/desktop/src-tauri/src/lib.rs`). *State*: the flag
`sync_processing`; a page or a batch in memory. *Operations*: upload
attachments, pull, push, on a refusal pull and push once more, pull, download
attachments, delete attachments. *Hard*: any call may fail or lose its answer,
the application may stop anywhere. *Correct when*: the devices agree once
things settle.

**Desktop: attachment transfer** (the same two files): tables `attachments`,
`attachment_descriptors`, encrypted files, `attachment_upload` and
`attachment_delete` outbox rows. Upload resumes by parts, download verifies a
hash, deletion waits for its record's conflict. *Correct when*: a record that
survives keeps its attachments; an interrupted upload can be completed.

**Server: attachment store** (`crates/server/src/attachments.rs`, migrations
0003 and 0004): rows and part files, quota, assembly under a temporary name,
rename, hourly cleanup. *Hard*: rows and files change in separate steps.
*Correct when*: a row marked complete has its file, the quota is kept, nothing
live is cleaned up.

**Server: accounts, sessions, devices** (`auth.rs`, `rate_limit.rs`): users,
devices, sessions with refresh token rotation and a login limiter in memory.
*Hard*: refresh against revocation, concurrent refreshes of one token, checks
that are stale when the password hash is done. *Correct when*: a refresh token
is used once, a revoked device has no usable session.

**Desktop: session** (`src-tauri/src/lib.rs`): unlocked repository, master key
and access token under a mutex, refresh token in the keychain. *Hard*: a
refresh in flight while the user logs out; an answer to a refresh that is lost.

**Desktop: AI queue** (`ai_jobs` in desktop-core; `process_ai_queue` in src-tauri):
claim, complete, fail with backoff, reset. *Hard*: a job takes seconds and the
record is edited meanwhile; a run happens only when the interface asks for one.
*Correct when*: a result is attached to the content it was computed for and
overwrites no edit; no job stays claimed.

**Desktop: agent and AI clients** (`agent.rs`, `ai.rs`, `media_ai.rs`): a
bounded loop of model answers and read-only tools; HTTP requests, parsing.

**Cryptography** (`crates/crypto`), **protocol types** (`crates/domain`): pure.

**Interface** (`apps/desktop/src`): rendering, the timers, and an editor that
saves 300 ms after a key stroke what it loaded earlier, as pinning, archiving and
importing a file do.

**Deployment** (`deploy`): containers, backup and restore scripts.

## Modules

| module | what it is |
| --- | --- |
| `SyncContract` | abstract: a push compares the base version of each of its changes and increments the versions, in one step and at most once per key |
| `SyncServer` | `sync.rs`, statement by statement, over what PostgreSQL does |
| `SyncServerProofs` | theorems about `SyncServer` |
| `DesktopSync` | the devices of one account: repositories, users, `sync_now`, over an atomic push |
| `DesktopSyncProofs` | theorems about `DesktopSync` |
| `DesktopAgreesProofs` | the theorem that devices end up with what the server has |
| `UploadContract` | abstract: an upload begins, takes parts, is completed with all of them and ends, in one step each |
| `AttachmentStore` | `attachments.rs`: rows with transactions, files without, and the cleanup task |
| `AttachmentStoreProofs` | theorems about `AttachmentStore` |
| `AttachmentSync` | an attachment and its record on several devices: import, upload, deferred deletion, download |
| `AttachmentSyncProofs` | theorems about `AttachmentSync` |
| `AttachmentFormat` | pure: the lengths of frames, parts and ranges |
| `AttachmentFormatProofs` | theorems about them, for all lengths |
| `AuthSessions` | `auth.rs` and the desktop's session: rotation, revocation, login and logout |
| `AuthSessionsProofs` | theorems about `AuthSessions` |
| `AiQueue` | `ai_jobs`, `process_ai_queue` and the search index, beside user and sync |
| `AiQueueProofs` | theorems about `AiQueue` |
| `MC...` | the instances for TLC |

```
 DesktopSync - - - - - - one atomic push - - - - -> SyncContract <------ SyncServer
     |                       (assumed)                                      (proved)
     | Pull and Push are one step each
 AttachmentSync -------- one step per answer -----> UploadContract <---- AttachmentStore
     | lengths
 AttachmentFormat        AuthSessions (server and desktop)       AiQueue (desktop)
```

`SyncServer` implements `SyncContract`: the contract compares the base version of
every change of a request with the version of the object at the moment the request
takes effect, so a server that compared too early, or not at all, would not.
`DesktopSync` has a push that is such a step by its definition, and that is all the
two have in common; what the devices do is not checked against the contract. Two things
the server does are not in `DesktopSync`: it creates an object twice (`create_race`), and
it commits cursors out of order. `DesktopSync` hands cursors out in the order of the
commits, so its results about agreement (`CaughtUpAgrees`, `Settles`, `Agrees`) hold
where no change is skipped as in `cursor_gap`.
`AttachmentSync` and `AttachmentStore` meet at `UploadContract`: the
devices take the store's answers as single steps, and both are checked, and proved,
to change the server's uploads as the contract says. That what a row promises is on
disk (a complete row has its object, recorded parts have their files) is proved of the
store by itself. Several modules carry a *history variable* that says which
disturbance has happened (`overtaken`, `excuses`, `raced`, `outdated`, `pasted`,
`stranded`, `adrift`). A property that names one in its premise states precisely where the
code's guarantee ends; each of these ends is described under
[Limits that the models show](#limits-that-the-models-show).

### SyncServer

A handler is one execution of `push`; `pc` is the statement it is about to run.

| action | code in `sync.rs` |
| --- | --- |
| `Replay`, `Begin` | `BEGIN` and the lookup of the key: the stored answer, or go on |
| `Select`, `Conflict` | `SELECT version ... FOR UPDATE` and the comparison with `base_version` |
| `Write` | the upsert of `sync_objects` and the `INSERT` into `sync_changes` |
| `Record`, `KeyTaken` | `INSERT INTO sync_push_requests`, or its primary key violated |
| `Commit` | `COMMIT` and the answer 200 |
| `Fail` | an error at any statement, or the request is dropped: rollback |
| `DeadlockVictim` | PostgreSQL ends a transaction that waits in a circle |
| `Pull` | a page of `pull`, taken in by the device, whose cursor moves to `next_cursor` |

`objects`, `log` and `answered` hold what is committed. What a transaction has
written is in `accepted`, visible to nobody else until `Commit`, and `locks`
are the rows it has locked. `Write` is one step because its second statement
waits for nothing and what it writes is not visible before the commit.
`KeyBusy` is the wait at a unique index for a row that is not yet committed.
The row of an object that does not exist cannot be locked: `Select` passes and
`Write` waits instead, which is where two creations collide. `lastCursor` is the
sequence behind `cursor`: it moves at `Write` and never back.

`sent`, `pulled` and `seen` are what the outside has observed; the code has no
such variables on the server. `version + 1` cannot overflow a BIGINT in any
run of the system and is unbounded here. `ack` only writes `sync_acks`, which
nothing reads. `validate_change` refuses malformed requests before a
transaction begins.

### DesktopSync

One copy of the repository's tables for each device. A content is the number of
the edit that wrote it. The newest outbox row of an object stands for all of
them: the queries ask for the newest only, and `complete_sync_push` clears up to
a row number.

| actions | code |
| --- | --- |
| `Save`, `Delete` | `save`, `delete` in desktop-core, each one SQLite transaction |
| `Choose`, then `ResolveLocal` or `ResolveRemote` | `resolve_sync_conflict`: it reads under the mutex, releases it, and writes under it |
| `Fetch` | the request of `pull_remote` |
| `Skip`, `Check` | `apply_remote_change` up to `drop(connection)` |
| `StoreConflict`, `RecognizeOwn`, `Take` | its three endings, under a new lock |
| `Mark` | `set_pull_cursor` after a page, and where `sync_now` goes next |
| `Collect`, `NothingToPush` | the query of `pending_sync_changes` |
| `SendAccepted`, `SendReplayed`, `SendRefused`, `Unreadable` | its second half, which reads the contents later, and the push |
| `Complete` | `complete_sync_push` |
| `Abort` | a request fails or the application ends: what is in memory is gone |

`stage` says which of the three pulls `sync_now` is at (`first`; `again` after a
refused push; `after` the pushes). The transaction of `Edit` is atomic, and user
commands exclude each other because they hold the session's mutex; they do not
exclude `sync_now`, which runs on a blocking thread. `mine`, `seen`, `edits`
and `failures` are ghosts for the properties and the bounds.

`CONSTANT Allowed` names the disturbances under which the code is known not to
keep a property, so that a property can be checked with and without each:

* `"lost answer"` - a failure between the server's commit and the use of its
  answer. Without it `Abort` is not possible in `await`.
* `"edit during apply"` - a user's save between the two halves of
  `apply_remote_change`.
* `"resolve during apply"` - the same, with the halves of `resolve_sync_conflict`.

The others (failures and crashes everywhere else, edits beside every other step
of `sync_now`, resolutions beside a push) are always possible.

A device keeps its identity here. In the code every login makes a new device id
(`auth.rs:240`); the properties are about devices that stay logged in.

### AttachmentStore

Database and disk are separate variables, and every handler changes them in the
order of its statements. `holds` is the row lock of each handler's transaction;
`Locked` is the wait for it. `Fail` drops a handler between any two statements -
its transaction is rolled back, what it did to the files stays - and `Crash`
stops all of them and the cleanup.

| actions | code in `attachments.rs` |
| --- | --- |
| `CreateLookup`, `CreateReserve`, `CreateInsert` | `create`: the lookup, the lock of the user's row with the quota, the insert with `ON CONFLICT DO NOTHING` |
| `PartTouch`, `PartWrite`, `PartRecord` | `upload_part`: the `UPDATE` that locks the row, the part file, its row |
| `CompleteCheck`, `CompleteAssemble`, `CompleteRename`, `CompleteRecord`, `CompleteSweep` | `complete`: under the row's lock the parts are put together and the hash is compared, the rename, the commit, the removal of the parts |
| `DeleteRow`, `DeleteFiles` | `delete`, whose files go after its commit |
| `CleanupRows`, `CleanupFiles`, `Age` | `cleanup_stale_uploads` and the time that makes an upload stale |

A file has as many units of size as parts, and `Reserved` counts the units of all rows
as `create` sums `total_size`. `Room` is `quota.saturating_sub(total_size)`: nothing is
left beside a file longer than the quota, and an account without rows has reserved no
more than that. A file is one value for its bytes and its hash; a part file remembers which file
it is a part of, so that parts of two files under one identifier do not add up.

### AttachmentSync

One record, its attachments, and on every device the tables `attachments`,
`attachment_descriptors`, the ciphertext files and the two kinds of outbox rows.

| actions | code |
| --- | --- |
| `Import`, `ImportRow`, `ImportQueue`, `ImportDescribe`, `Attach` | `import_attachment_from_path`, one action per write, then the save of the interface's copy of the record (`EditorPane.tsx:98`) |
| `DeleteList`, `DeleteRecord` | `delete`: the list is read before the mutex is taken for the transaction |
| `Edit`, `Resolve` | `save` of the copy the interface shows, `resolve_sync_conflict` |
| `Reload` | the interface loads its records again |
| `ListUploads`, `CreateUpload`, `RefuseUpload`, `UploadPart`, `CompleteUpload`, `MarkSynced` | `upload_attachments` |
| `Pull`, `NothingToPush`, `Push`, `PushUnanswered` | `pull_remote`, `push_local`, of which `DesktopSync` has the inside |
| `ListDeletions`, `RequestDeletion`, `Forget`, `Unlink` | `delete_remote_attachments` |
| `ListDownloads`, `Download`, `ImportDownload` | `download_attachments` |
| `Expire` | the server's cleanup |
| `Fail` | a request or its answer is lost, or the application stops |

`shown` is the copy of the record the interface holds, and what `save` is given: `Save`
writes it whether the record is there or not, as `INSERT ... ON CONFLICT DO UPDATE`
does. `Reload` may come at any time, which includes the moments the code loads at (a
`sync_now` that ended well and pulled something, a login, a resolved conflict); it may
as well not come. The autosave's 300 ms are in the choice of when `Edit` and `Attach`
happen. `RefuseUpload` stands for the quota (`attachments.rs:104`) and for a length the
server does not take (`:428`); the server may refuse any upload it does
not have, at any time, and `refused` remembers those it refused last.

`PushUnanswered` is a push the server takes and whose answer is lost. `unanswered` is
the version the server gave to the outbox row: while that row is the newest, another
push has the same idempotency key and `Push` is answered with that version, whatever
has happened in between. `cursor` is the last version that was delivered, so that a
version set back by such an answer is not repaired by a pull. A `Pull` takes only the
newest version in, although a page may hold several: the earlier ones leave nothing
that the newest does not replace, and the device's own change is recognised as its own
only where it is the newest.

`excuses` remembers what was set against a deletion: a `"choice"` between a deletion
and another version in a conflict, or a `"revival"`, a stale copy saved over a record
that was gone. `imported` remembers the identifiers that were given out: each import
gets a new one (`Uuid::new_v4`). `edits` and `failures` are bounds. `OnServer` is the
server's side as `UploadContract` sees it: the client sends its parts in order, so their
number says which are there.

### AttachmentFormat

Operators on numbers only: the frames of `encrypt_chunks`, the inverse in
`attachment_plaintext_bytes`, the parts of `upload_attachments` and the checks of
`create` and `upload_part`, `parse_protocol_range` and `RangeCollector`.
`MCAttachmentStore` evaluates them against sums over frames and parts for small
lengths; `AttachmentFormatProofs` proves what matters for all lengths.

### AuthSessions

The server's users, devices and sessions; on the desktop the credential, the
unlocked state, one `sync_now` and one command of the user. A session's number
stands for its refresh token and for the access token issued with it. `sync.pc`
walks through `send_authorized`, `access_token` and `invalidate_session`; `user.pc`
through `unlock` and `logout_account`. `serving` has the executions of `refresh` at the
server: the desktop waits for one at most, but one it has given up goes on, and the
next `sync_now` sends the same refresh token again.

| actions | code |
| --- | --- |
| `SignIn`, `Unlock` | `login`, `register` and `unlock`: the credential first, the state second |
| `AccessToken`, `ReadCredential`, `Refresh`, `Unanswered`, `StoreRefreshed`, `Adopt`, `Send`, `Invalidate` | a request of `sync_now`, with one refresh and one repetition |
| `RefreshSelect`, `RefreshLock`, `Rotate`, `RefreshFails` | `refresh` in `auth.rs`: the snapshot of its `SELECT`, `FOR UPDATE OF s` once the row is free, the commit |
| `RevokeBegin`, `RevokeCommit` | `revoke_device`, from another device: what its `UPDATE` sees, and what is visible when it commits |
| `LogoutBegin`, `LogoutServer`, `LogoutLocal` | `logout_account`; the server's answer does not matter |
| `Expire`, `Restart` | time, and the end of the application |

The `SELECT` of `refresh` takes its snapshot and then waits for the session's row
(`RefreshLocks`). When it gets it, PostgreSQL reads that row anew, but the device's row
is that of the snapshot: `active` is what was read of the device. A revocation may commit in
between, and the session made then is the one `RevokedGetsNoSession` speaks of. The
expiry of refresh tokens (30 days) and the limiter are left out.

### AiQueue

A text is the number of the edit that wrote it; a metadata is the number of the
text it was made from. `worker` is `process_ai_queue`, whose flag lets one run at a
time work. A model is configured throughout: without one, `process_ai_queue` returns
before it claims or rebuilds anything (T:1197).

| actions | code |
| --- | --- |
| `Edit`, `Insert`, `Flag` | `save` of an edited text, without metadata; of a copy with a pasted or imported file, whose text is new and whose metadata are old (`EditorPane.tsx:98`, `:112`); of the copy as it is (pin, archive) |
| `Delete`, `Reload`, `Reset` | `delete`, `list_items`, `reset_ai_jobs` |
| `ApplyRemote`, `Push` | what `sync_now` does to the same tables |
| `UserIndexes`, `SyncIndexes` | the index entry, under its own mutex after the tables'; a save of `persistItem` then calls `process_ai_queue` |
| `Drop`, `Claim`, `Get`, `Ask`, `CompleteJob`, `FailJob`, `IndexJob` | a call during a run, `claim_ai_jobs`, the loop of `process_ai_queue`, `complete_ai_job`, `fail_ai_job` |
| `ListRecords`, `ClearIndex`, `AddRecord` | `rebuild_search_index` |
| `Due`, `Restart` | the backoff passes; `Repository::open` takes claimed jobs back, and the interface asks for a run |

`called` is a call of `process_ai_queue` on its way: after a login, a save through
`persistItem`, or a change in the settings, and at no other time. A record that is
captured (`Edit` without a call), deleted or pulled brings none, and neither does the end
of a backoff.

## Runs

| run | shows | bounds |
| --- | --- | --- |
| `sync_server` | safety of the server, that it implements `SyncContract`, and that every push ends (55 000 states) | 2 handlers, 2 devices, 3 objects, 4 keys, `MaxCursor` 3, `PageLimit` 1 |
| `create_race` | two creations of an object: the second overwrites (`NoSilentOverwrite` fails) | 2 handlers |
| `cursor_gap` | a change is skipped (`NoChangeSkipped` fails) | 2 handlers |
| `desktop_sync` | no edit is lost and nothing is overwritten unseen, with lost answers | 2 devices, 1 object, `MaxEdits` 3, `MaxFailures` 1 |
| `desktop_converges` | caught-up devices agree and the devices settle, without the disturbances | 2 devices, 2 objects, `MaxEdits` 2, `MaxFailures` 1, `BatchLimit` 2 |
| `stale_replay` | with a lost answer `CaughtUpAgrees` fails | 2 edits, 1 failure |
| `edit_overwritten` | with an edit during apply `NoEditLost` fails | 2 edits |
| `attachment_store` | rows, files and quota stay consistent (1 190 000 states) | 2 handlers, 2 identifiers, files of 1, 2 and 3 parts, quota 2, `MaxFailures` 2 |
| `attachment_sync` | no attachment in use is lost, and transfers settle (1 000 000 states, without symmetry) | 2 devices, 1 attachment of 2 parts, `MaxEdits` 3, `MaxFailures` 1 |
| `revived` | a stale copy brings a deleted record back (`StaysDeleted` fails, 12 states) | 2 devices, 1 attachment of 1 part, 2 edits, no failure |
| `auth_sessions` | one live session per device, revocation is final, no sign-out in vain (580 000 states) | 1 account, 2 handlers, `MaxDevices` 2, `MaxExpiries` 2, `MaxLost` 1 |
| `ai_queue` | metadata belongs to its text, runs leave no job behind, the index keeps step (1 630 000 states) | 2 records, `MaxEdits` 2, `MaxErrors` 1 |

**The properties, and what would break them.** On the server,
`AnswerMatchesLog` and `AnswersAgree` say that a key takes effect once and all
or nothing: a device clears its outbox on a 200, so a 200 that names changes the
log does not have loses an edit. They need the primary key, the wait at it, and
that a transaction which loses there takes its changes back. `CursorOrderIsVersionOrder`
needs the row lock from the check to the commit; without `FOR UPDATE` two pushes write
one version. `DeliveredInVersionOrder` is about what devices receive over several pulls,
and holds although changes may be missed.
`ImplementsContract` puts these together: no interleaving of statements,
retries, conflicts and failures does anything an atomic push, which compares the base
versions when it commits, would not. `EveryPushEnds` is about requests that lock the same
rows in opposite orders or retry one key at once.

On the desktop, `NoEditLost` follows an edit from the outbox to the log across
lost answers, crashes and newer edits that ride on an older row;
`NoBlindOverwrite` relates a push to what its user was shown on that device, at
whatever time before; `CaughtUpAgrees` compares a device with the server at the
moments when the device has nothing left to do; `Settles` says such moments
come for good.

In the attachment store, `CompleteHasObject` relates a committed row to a file
that several handlers write, rename and remove: it needs the rename before the
commit, the row's lock from the check to the commit, and that the cleanup leaves
complete rows alone. `PartsHaveFiles` is what resuming relies on. `QuotaHeld`
needs the lock of the user's row, which is held from the sum to the commit; it lets one
row alone be longer than the quota, because the code does. `NothingLeftBehind` says that
every way to drop a row goes on to its three kinds of files, `CompleteStays` that nothing
but a deletion takes back what a client was told is complete. `ImplementsUploads` is about what
`upload_part` and `complete` checked and commit only several statements later: with
deletions, the cleanup and new uploads of the identifier in between, the committed
rows change as if each had been one step.

On the devices, `ReferenceResolves` looks for a reference in the server's record
that nobody can serve any more, `TombstoneFirst` for a copy removed too early,
across conflicts, refusals, retries, lost answers and stale copies; `Settles` for an
attachment that stays queued, or missing, for good, but for the four ways in which a
device of the code waits for good (`Waiting`: a conflict nobody resolves, `Jammed`,
`Refused`, `Stalled`). `ImplementsUploads` is the client's half of the contract: a device
that repeats a cut-off upload begins nothing over another upload, sends no part to a
complete one and completes none without all parts. `StaysDeleted` is what
`docs/IMPLEMENTATION_PLAN.md:173` expects of a tombstone; it fails.

For sessions, `OneLiveSession` and `RevokedGetsNoSession` are about the server, with two
refreshes of one token at work beside a revocation, a login or a logout: two of them
meet when the first stays unanswered and the device asks again. The losses are bounded
by `MaxLost`, so a third refresh of the token is not in the run (it is in the theorems,
which hold for any number of handlers and losses). `SignedOutForCause`,
`CredentialUsable` and `NothingLeftSignedIn` compare what the desktop keeps with what
the server takes, as long as no answer was lost and no login or logout crossed a running
sync; `RevokedSignsOut` is the way out of a revocation, through 401, refresh, 401.

For the queue, `MetadataFitsText` and `CompleteHasMetadata` compare what a slow
answer writes with the text that is there by then; `NothingBlocksPush` with the
outbox. `NoJobLeftBehind` looks at every end of a run for jobs that stay `processing`,
`IndexInStep` at every moment for an entry that no thread is about to write and that is
not of its record. Neither says that a job is done in the end: nothing in the code
sees to that.

**Bounds.** `MaxCursor` stops new pushes from beginning after 3 cursors were
taken (handlers that run by then go on and take more). Two handlers are enough for
batches that lock the same rows in opposite orders, for two executions of one key, for
a cursor committed after a higher one, and for a replay after a newer change; three at
once are left to the theorems, which hold for any number. `PageLimit` 1 makes every pull stop
between two changes. `MaxEdits` 3 gives one device two edits and the other one
in between, which all scenarios above need; `MaxFailures` 1 lets one failure or
crash happen at any step: the failures that matter leave their trace in the
tables, and a second one finds the same kinds of state as the first.
`desktop_converges` has an object that only one device creates and batches of
two; its 2 edits are too few for a conflict on one object while a change of the other
waits on the same device. In `attachment_store` quota 2 lets either the long file or two short ones fit, or the
huge one when there is no other; two handlers and the cleanup are three parties, and a second failure can hit what
the first left behind. In `attachment_sync` one attachment meets all parties it
can meet (maker, other device, server, cleanup) and 3 edits are an import, a
deletion on one device and an edit, perhaps of a stale copy, on the other; the one
failure may be a push whose answer is lost. In `auth_sessions` two devices
are a login after a logout, or after a revocation; each of two expiries makes
`sync_now` refresh, and one lost answer leaves a refresh running while the next begins. In `ai_queue` two records let one be deleted or edited while
another is in hand. The states left unexplored are longer histories of the same steps.
Handlers, and devices in `desktop_sync`, are symmetric where a run says so; no run that checks
liveness uses symmetry. Deadlock is not checked: users may stop editing and
devices may stop sending.

**Fairness.** `EveryPushEnds` assumes `SF(Step(h))` - PostgreSQL grants a row
lock in the order of its queue, so a waiter is not overtaken forever - and
`WF(DeadlockVictim)`, PostgreSQL's deadlock detector. Weak fairness would not do
for a step that waits for a row others take and release. `Settles` assumes
`WF(Syncing(d))` - `App.tsx` starts `sync_now` every 30 seconds and the runtime
polls it - and `WF(Writing(d))`, that a command which was started ends. No user
has to do anything, and no failure has to happen or to stop: the number of
failures is finite by `MaxFailures`, since a network that always fails delivers
nothing. `attachment_sync` assumes the same of `Sync(d)` and `Command(d)`, and
`WF(Expire(x))`: the server's cleanup runs every hour. `auth_sessions` assumes that
`sync_now` is called while a session is shown, that a refresh or a revocation the
server has begun goes on and that a login or logout once begun ends. `ai_queue` claims
no liveness and assumes no fairness: `process_ai_queue` runs when the interface calls it
(`App.tsx:73`, `:97`, `AiSettings.tsx:24`, `:35`), a call during a run is dropped, and no
timer repeats it. Elsewhere no user has to do anything.

## Proofs

Eight modules hold theorems; nothing is assumed in them but the named assumptions
of the modules they extend. Every invariant, every action property and every
implementation of a contract that the runs find to hold is proved, but for `IndexInStep`,
some from a premise on `Allowed` that their run shares. Liveness (`EveryPushEnds`,
`Settles` of either module, `RevokedSignsOut`) is out of the prover's reach and, like
`IndexInStep`, model-checked only; what the runs refute is false and has no theorem.

### SyncServerProofs

For any handlers, devices, objects and keys and any set of well-formed requests:

| theorem | statement |
| --- | --- |
| `Typing` | `Spec => []TypeOK` |
| `ExactlyOnce` | `Spec => []AnswerMatchesLog` |
| `OneAnswer` | `Spec => []AnswersAgree` |
| `Gapless` | `Spec => []GaplessHistory` |
| `Linear` | `Spec => []CursorOrderIsVersionOrder` |
| `InOrder` | `Spec => DeliveredInVersionOrder` |
| `Implements` | `Spec => ImplementsContract` |

*Assumptions.* `ExistingAssumption`: the objects with a row are objects.
`RequestsAssumption`: a request has a key, a device and a non-empty sequence of
changes, at most one of an object; `validate_change` and the checks at the head
of `push` refuse the rest, except that the client, not the server, sees to
"at most one of an object" (`pending_sync_changes` groups by object).
`BoundsAssumption`: a page has room for a change. `MaxCursor` is a guard of
`Begin` only and any number.

*The inductive invariant* `IInv` adds to the properties what they rest on:

* `ControlInv` - a handler never runs past the end of its request, and
  `accepted` lists the changes of the request in order, each under a lock.
  Type correctness is inductive only together with it.
* `LockInv` - a row is locked by one transaction; what a transaction read of a
  row it locked is still the committed version, and what it has prepared is
  that version plus one. This is what `FOR UPDATE` is for.
* `KeyInv` - of the transactions of one key one at most is ready to commit, and
  then the key has no answer: the primary key, as an invariant.
* `CursorInv` - a prepared change has a higher cursor than all committed
  changes of its object, since the cursor is taken under the row's lock.
* `VersionInv` - committed versions lie in `2..objects[o]`.

Each of these has a lemma that every step preserves it (`ControlStep`,
`LockStep`, `KeyStep`, `CursorStep`, `HistoryStep`, `AnswerStep`), over the cases
of `StepCases`. `InOrder` adds `SeenInv`: a device has received committed changes
only, none above its cursor, and a pull delivers above it. `Implements` adds
`BaseInv`: what a transaction has prepared is the version after the base of its change,
which its `Select` compared under the lock. With `LockInv` the base is still the
committed version at the commit, which is therefore an `Accept` of the contract
(`CommitIsAccept`); every other step leaves the visible state alone.

`GaplessHistory`, which `Gapless` states, is a part of the induction and follows from the
contract, which counts versions one by one; the runs check the contract only.

The properties are about objects that have a row. For an object without one
they are false: that is the run `create_race`.

### DesktopSyncProofs

For any devices, objects, page and batch limits, edits and failures
(`DesktopAssumption`: the objects are finitely many; `NoneAssumption`: `None` is
not a change). The first two hold for every `Allowed`, so with lost answers and
with edits and resolutions in the middle of an apply:

| theorem | statement |
| --- | --- |
| `Typing` | `Spec => []TypeOK` |
| `NeverBlind` | `Spec => NoBlindOverwrite` |
| `EditsKept` | `NoEditDuringApply` implies `Spec => []NoEditLost` |

`NoEditDuringApply` says that `"edit during apply"` is not in `Allowed`; with it
the property is false (run `edit_overwritten`). Lost answers, failures and
resolutions at any point may still happen.

*The inductive invariant* `IInv` is

* `LogInv` - cursors number the log from 1 to its size, each once, and an object and
  a version name one change. A batch gets its cursors by counting, and that this is
  a numbering is the lemma `RankOnto`.
* `KeyInv` - the key of a change names its device and lists every object of its
  batch, with a change for each. It makes `Confirmed` (a `CHOOSE`) defined, also when
  the answer is that of an earlier push.
* `RowInv`, `BatchInv` - outbox rows are numbered as they are written; a batch's rows
  are in the outbox, superseded or given up.
* `PageInv` - the change at hand is in the log, and one judged the device's own is.
* `ConflictInv` - a stored conflict, and the one being resolved, are in the log.
* `VersionInv` - the version a device holds of an object, and the one its batch is
  based on, is of a change it made or its user was shown. `NeverBlind` follows: a
  push is accepted on that version only.

`EInv` adds what keeps an edit: an outbox row shows the last edit (`RowShown`),
nothing is written over one (`TakeFree`), and a change pushed from the row that is
still there has its content (`Carried`), so an answer clears the row only when the
edit is in the log. Most steps move `sync_now` and nothing else (`Moves`, `Quiet`);
the others have a lemma each.

### DesktopAgreesProofs

| theorem | statement |
| --- | --- |
| `Agrees` | `Allowed = {}` implies `Spec => []CaughtUpAgrees` |

With a lost answer or a resolution during an apply it is false (run
`stale_replay`, and [below](#where-code-and-documents-disagree)). The statement speaks of the
end of a long way: the invariant `AInv` says for each device how far it is.

* `HistoryInv` - of one object, cursors are ordered as versions are, and the
  server's version is that of the start or of a change in the log.
* `NothingMissed` - every change up to the device's place in its page is no newer
  than its version of the object or than the conflict stored for it. A later
  conflict replaces an earlier one, which is right because of `HistoryInv`.
* `OwnFits`, `AwaitFits` - the only changes of a device in the log that it does not
  know are those of the push whose answer it awaits, and the rows of all others are
  gone. So a push is never taken for an earlier one (`NeverReplayed`) and the device
  never meets its own change as new (`OwnNeverLate`): the code's branch for that is
  for lost answers only.
* `ShownFits` - an object without a local edit shows the content of its version;
  here `EInv` is needed, since the answer to a push clears the row of the edit.
* `ConflictFits`, `BatchFits`, `ApplyFits`, `ChoiceFits` - what keeps a conflict, a
  batch, an apply and a resolution out of each other's way.

A step of a device preserves its own part by a lemma for each action and leaves
the others theirs (`Bystander`).

### AuthSessionsProofs

For any accounts and any number of devices, sessions, expiries and lost answers
(`SessionsAssumption` bounds nothing: it says that the bounds are numbers and
that `None` is neither a number nor a session):

| theorem | statement |
| --- | --- |
| `Typing` | `Spec => []TypeOK` |
| `OneSession` | `Spec => []OneLiveSession` |
| `RevokedForGood` | `Spec => RevokedGetsNoSession` |
| `NeverSignedOutInVain` | `Spec => []SignedOutForCause` |
| `Usable` | `Spec => []CredentialUsable` |
| `SignedOutIsOut` | `Spec => []NothingLeftSignedIn` |

These are all safety properties the run `auth_sessions` checks, and they hold for any
number of handlers. *The first invariant*, `IInv`, is about the server: devices and
sessions are numbered as they are made (`NumberInv`), the locals of `sync_now` and of the
user's command name existing ones (`ControlInv`), the handler that is waited for is at
work on the token it was sent (`AwaitInv`), two live sessions are of two devices
(`LiveInv`), a handler that has the lock of a session's row has it alone and finds the
session live (`ServingInv`): of two refreshes of one token the second finds it ended. A
handler that may still give a revoked device a session is at the session that was live
when it was revoked, so after one such session no other handler gets through
(`GrantedInv`). A revocation ends sessions of its device only (`SeenInv`). *The second*, `CalmInv`, holds while nothing has disturbed the desktop:
one thing happens at a time (`OneAtATime`), no account but the one in use has a
credential (`NoneElse`), each token carried from one step to the next is the one it
is taken for (`Carried`) and is good (`AllGood`), and every live session of a device
that is not revoked is the one the desktop goes on from (`OneLive`). `OneLive` is what
makes a refusal mean a revocation. Each action has a lemma for either invariant
(`RotateKeeps`, `RotateCalm`, ...).

### AttachmentStoreProofs

For any handlers, identifiers, files, requests and number of failures
(`StoreAssumption`: a file has an identifier and at least one part, requests are
requests, and `None` is none of the values it stands beside - rows, uploads, locks):

| theorem | statement |
| --- | --- |
| `Typing` | `Spec => []TypeOK` |
| `ObjectsAreThere` | `Spec => []CompleteHasObject` |
| `PartsAreThere` | `Spec => []PartsHaveFiles` |
| `NoLeftovers` | `Spec => []NothingLeftBehind` |
| `CompleteIsFinal` | `Spec => CompleteStays` |
| `WithinQuota` | `Spec => []QuotaHeld` |
| `Implements` | `Spec => ImplementsUploads` |

`CompleteHasObject` is not inductive: nothing in it says what a `complete` under
way is about to put in place. `IInv` adds

* `Exclusive` - a row's lock is held by one transaction;
* `LockInv` - a transaction that holds it finds its row uploading at every later
  step, and, unless the row is overtaken, the part, the assembled file and the
  object it has put in place;
* `RemovalInv`, `IdInv` - whoever still removes files removes those of an
  identifier without a row or with an overtaken one, or the parts of a complete row;
* `LeftInv` - unless something failed, each kind of file of an identifier without
  a row has a remover that has not come to it yet.

A step that holds the row's lock (`LockedStep`), one that removes files
(`RemovalStep`), one that drops rows (`DropStep`) and one that only moves a handler
(`HandlerMoves`) each leave the other handlers their invariant (`Bystander`); the
actions are cases of these four.

`WithinQuota` rests on `QuotaInv`: a handler about to insert a row holds the lock of the
user's row, and what it inserts still fits, or is the first row (`Fits`). That stays true because no other handler
can be about to insert (`Inserting`, one lock), and the steps of all others make no
row (`OthersMakeNoRow`), so they only lower the sum (`QuotaStays`). The sum is stated as
the number of the rows' units, so that an insertion adds a finite set
(`InsertFits`) and no induction over the rows is needed.

`Implements` maps the committed rows, with their parts, to the contract's uploads. A
handler commits what it checked earlier: `CheckedInv` says what still holds between the
two - the part about to be recorded is one of the file the row has now, and the upload
about to be completed has all parts of it recorded. Both need the row's lock
(`LockedRowStays`). `StepIsPromised` maps each action: `CreateInsert` begins
an upload, `PartRecord` takes a part, `CompleteRecord` completes, `DeleteRow` and
`CleanupRows` end, every other step leaves the committed rows alone.

### AttachmentSyncProofs

For any devices, attachments, parts, edits and failures (`AttachmentSyncAssumption`:
there is a device, attachments are finitely many and have at least one part, the
bounds are numbers; `NoneAssumption`: `None` is no content, version or upload):

| theorem | statement |
| --- | --- |
| `Typing` | `Spec => []TypeOK` |
| `QueuedHeld` | `Spec => []QueuedIsHeld` |
| `ReferencesResolve` | `Spec => []ReferenceResolves` |
| `DeletionAfterTombstone` | `Spec => TombstoneFirst` |
| `KeepsContract` | `Spec => ImplementsUploads` |

None of them is inductive: an import is five steps and a transfer as many, on several
devices at once, and what a reference needs changes place under way, from the maker's
file to its queue to the server. `IInv` says where it is:

* `CountInv` - the server's version, the devices with a local change and the commands
  under way are together no more than the edits: each version costs an edit, and a change
  whose answer was lost has become one already.
* `VersionInv` - a device is not ahead of the server and behind what it has a conflict
  with; while its newest row waits for a lost answer that is the server's version, it has
  what the server has.
* `LiveInv` - while the record is live, a device has deletions queued only with its own
  deletion of the record, which the server has not taken yet; once a tombstone is known,
  nobody who knows it has a record to push. This is what `excuses` excepts.
* `RefInv` - all that records, shown copies, stored conflicts and copies in hand refer to is
  complete on the server, queued for upload, or to be deleted with the record.
* `MakingInv` - an attachment that is being imported is of its device, and nothing
  refers to it yet.
* `HoldInv` - on each device rows, files and queues fit, also between the writes of an
  import.
* `PlacedInv` - what `sync_now` has in hand is what its phase is about: what it uploads
  is the device's own, what it deletes is not queued for upload, and it carries deletions out only when the
  record is no longer live. `DeletionAfterTombstone` is that last part.

Most steps move one `sync_now` or one command. `SyncKeeps`, `RemoteKeeps`, `StoreStays`
and `CommandKeeps` say what of `IInv` such a step cannot disturb, `PlacedOn`,
`PlacedFinish` and `PlacedEmpty` go on to the next phase, `SavedFacts` and `PushedKeeps` do
the saves and the push; then each action has its lemma. `KeepsContract` adds that what is
complete is whole (`CompleteIsWhole`), and maps every step by `StepIsAllowed`:
no upload is begun twice because its own device alone uploads it and refuses what it
finds there with other metadata.

### AttachmentFormatProofs

For any chunk size, frame overhead, part size and limits greater than zero:

| theorem | statement |
| --- | --- |
| `LengthRecovered` | `attachment_plaintext_bytes` undoes the framing, for every length |
| `OnlyEncryptedLengths` | and takes no length that no encrypted file has |
| `PartsAccepted` | the server takes every part `upload_attachments` cuts |
| `PartsPartition` | the parts are the whole file and nothing twice |
| `RangeWithin` | an answered range lies in the plaintext and within the limit |
| `RangeCollected` | decrypting frame by frame collects exactly the range |
| `LargestImportRefused` | the longest plaintext that can be imported is never taken by the server |

They are facts about `div` and need no invariant; the work is in lemmas that give
the number of frames for a length between two multiples of a chunk.

### AiQueueProofs

For any number of records, texts, errors and restarts (`QueueAssumption`: there is a
record, the bounds are numbers; `NoneAssumption`: `None` is no content, no job and no
operation of the outbox):

| theorem | statement |
| --- | --- |
| `Typing` | `Spec => []TypeOK` |
| `OneJobEach` | `Spec => []JobOfEachRecord` |
| `MetadataFits` | `Spec => []MetadataFitsText` |
| `CompleteIsDone` | `Spec => []CompleteHasMetadata` |
| `PushNotBlocked` | `Spec => []NothingBlocksPush` |
| `RunsLeaveNothing` | `Spec => []NoJobLeftBehind` |

These are the properties of the run `ai_queue` but for `IndexInStep`, which is
model-checked only. None is inductive alone, because `process_ai_queue` works for several
steps with what it has read. `IInv` adds

* `WorkerInv` - it holds one copy of each record it has read: claimed records are read
  once each; and while it is at a record, in the end, the content to write.
* `IdleInv` - it has jobs only while it does them, and the one it has completed is not
  marked `processing`. `NoJobLeftBehind` is inductive with it.
* `CopyInv` - the copy has the text of the record, unless the record is in `raced`.
  So the answer is written where it belongs, and into a record that is there.
* `TextInv` - no text is newer than the last edit: an edit is never taken for the
  text its job already has.
* `ShownInv` - the interface holds no metadata of another text either, unless a file was
  put into the record (`pasted`); pinning writes back what it holds.

Changes of a record by the user or by sync are one case (`Changed`, `ChangedKeeps`);
saving keeps a complete job complete only if its metadata stays (`SaveIsChange`),
which pinning an old copy does not (`outdated`). Of the other steps all but `Push`
and `CompleteJob` change no record and complete no job (`Restatus`,
`RestatusKeeps`), and show what they do to the locals of `process_ai_queue`.

## Where code and documents disagree

1. **Creating an object twice** (`create_race`, `sync.rs:188`). `SELECT ... FOR
   UPDATE` locks nothing without a row. Two pushes of different keys that create
   one object (a device whose second push overtakes its first, abandoned one)
   both read version 0; the second overwrites the first and logs version 1
   again. `docs/IMPLEMENTATION_PLAN.md:175` excludes silent overwriting.
2. **The cursor gap** (`cursor_gap`, `sync.rs:223`). Cursor 1 is taken, cursor 2
   is taken and committed, a device pulls up to 2, cursor 1 is committed: that
   device never receives it. `docs/IMPLEMENTATION_PLAN.md:173` has the devices
   follow the cursor.
3. **The stale replay** (`stale_replay`, `src-tauri/src/lib.rs:629`). The
   idempotency key ignores the base version. The answer to a push is lost,
   another device edits, the user keeps the local version of the conflict: the
   push on the new base has the key of the old one, is answered from storage,
   and the outbox is cleared although the server never took it.
   `docs/SECURITY.md:40` excludes clearing the outbox on a wrong answer.
4. **The overwritten edit** (`edit_overwritten`, desktop-core `lib.rs:649`). The
   mutex is released between the check for local edits and the write of the
   remote content. `docs/IMPLEMENTATION_PLAN.md:175` has both versions kept.

5. **The revived record** (`revived`, desktop-core `lib.rs:325`). `save` inserts the
   record it is given without asking whether it was deleted, and the interface loads its
   records again only after a `sync_now` that ended well and had pulled something
   (`App.tsx:40`). A device pulls a tombstone, its user edits, pins or puts a file into the
   copy still shown: the record is back, based on the tombstone's version, and the push
   is accepted without a conflict. Its attachments are deleted by the device that
   deleted the record. `docs/IMPLEMENTATION_PLAN.md:173` has tombstones so that devices
   do not revive data.

Of the same kind as 4, without a run of its own, is **the overtaken resolution**
(desktop-core `lib.rs:699`). The mutex is released between reading the stored conflict
and writing the choice. A newer change of the object that sync stores in between is
deleted with the conflict, and the version is set back to the one that was read; the
pull cursor has passed the newer change, which never comes again.
`StaleReplay.cfg` with `MaxEdits = 3`, `MaxFailures = 0` and
`Allowed = {"resolve during apply"}` gives the trace: two changes of one device, an
edit of the other in conflict with both, and the choice of the remote version made
between the two.

Three more, which the models have and no run is spent on:

* **The quota** (`attachments.rs:104`). `reserved > quota.saturating_sub(total_size)` is
  `0 > 0` for a file longer than the whole quota on an account without rows: it is
  accepted. `docs/SECURITY.md:38` speaks of a default quota of 10 GiB that is accounted
  for atomically. `config.rs` only requires the quota to be positive; with the default
  the limit of 2 GiB for a file comes first. `QuotaHeld` without its second disjunct fails.
* **Retries of AI jobs** (T:1189). `docs/SECURITY.md:30` and
  `docs/IMPLEMENTATION_PLAN.md:153` have failed jobs retried after a backoff. The backoff
  only makes a job claimable again; nothing calls `process_ai_queue` when it passes, nor
  after a capture (`App.tsx:114`) or a pull, and a call during a run is dropped.
* **Metadata of an old text** (`EditorPane.tsx:98`, `:112`). Pasting or importing a file
  changes the text and keeps the metadata; `save` then marks the job complete
  (desktop-core `lib.rs:344`), so they are never made anew. Every other edit drops them
  (`updateContent`, `:46`). `MetadataFitsText` without `pasted` fails.

### Limits that the models show

Where a property holds but for a named disturbance, the disturbance breaks it;
dropping the exemption from the property gives the trace. These are the ends of the
guarantees.

*Attachments on the server* (`overtaken`). `delete` and the cleanup remove files
after the commit that removed the row (`attachments.rs:159`, `:310`): an upload of the
same identifier begun in between loses its parts or its object.

*Attachments on the devices*

* `Jammed`: T:786 compares the metadata the server kept with freshly encrypted ones,
  which are never equal, so an interrupted upload cannot be resumed: it waits
  until the cleanup removes it, and if only the answer of `complete` was lost,
  for ever. `docs/FEATURES.md:18` and `docs/TESTING.md:171` speak of resuming.
* `"choice"`, the remote version over a local deletion: D:1297 leaves the
  `attachment_delete` rows queued, and the attachments of a live record are deleted
  with the next push (`docs/SECURITY.md:42`).
* `"choice"`, the local version over a tombstone: the record comes back, its
  attachments do not, and the downloads of the other devices (T:859) fail every time.
* `"revival"`: the same, without any choice (disagreement 5).
* `Refused`: an upload the server refuses for its length or the quota ends every
  `sync_now` before anything is pulled or pushed.
* `Stalled`: after a lost answer, a change of another device and the choice of the local
  version, the replayed answer sets the version back (disagreement 3); every later push
  of the record is refused and no pull brings what it lacks.
* An attachment imported after the upload phase is pushed within its record first;
  other devices' `sync_now` fails until the next run of its maker. `ReferenceResolves`
  allows for this: its second alternative is that a device still has to upload it.
* An upload that is running while another device deletes the record leaves an
  attachment nobody refers to on the server.
* `EditorPane.tsx:98` puts the result of an import into the record as it was when
  the import began: what other devices or the user changed meanwhile is dropped.
* The limit of 2 GiB counts plaintext on import (T:48) and ciphertext on the server
  (`attachments.rs:428`): theorem `LargestImportRefused`.

*Sessions* (`excuses`)

* `"lost"`: if the answer to a refresh is lost (T:512), the stored token is already
  used; the next refresh is refused and the user signed out.
* `"crossed"`: a refresh in flight at a logout puts a credential back that was
  deleted (T:521); a 401 of a session before a login clears the session after it (T:470).
* `granted`: a refresh that had read the device before the revocation committed gets one
  more session, of no use for another (`auth.rs:276`).

*The AI queue*

* `raced`: `complete_ai_job` reads the record, releases the mutex and writes the
  whole record back (D:767): an edit in between is lost. An outbox row is written for
  a record deleted meanwhile (D:782), and nothing is pushed after that.
* `stranded`: one record gone between claim and read (D:756) ends the run, and its jobs
  stay `processing` until the next login.
* `outdated`: pinning and archiving save the interface's copy (D:344) and erase
  metadata written since.
* `pasted`: the metadata of the text before a file was put into it.
* `adrift`: an entry of the index that two threads had under way at once (D:835) stays
  as the later one left it until the next rebuilding.

## Not modelled

* **`rate_limit.rs`**: counters in memory that only refuse more logins; `check` and
  `failure` are apart, so concurrent logins all pass the check before one is
  counted. `AuthSessions` has the logins that succeed.
* **Agent and AI clients** (`agent.rs`, `ai.rs`, `media_ai.rs`): a bounded loop over a
  model's answers with tools that only read, requests and parsing. They share no
  state that a step of theirs could break; `Ask` has the two outcomes that reach the
  queue.
* **The ciphers and key wrapping** (`crates/crypto`): opaque here. The framing is in
  `AttachmentFormat`, as lengths.
* **`ack`, `status`, `download`, `list_devices`** and the reading commands: they change
  nothing another operation reads. `validate_change` and the validations in `auth.rs`
  refuse requests before any state is touched.
* **The interface**: rendering. Its timer of `sync_now` is the fairness, its copies of the
  records are in `AiQueue` and `AttachmentSync`. `DesktopSync` has no such copies: its
  users edit what the repository holds.
* **A desktop without a configured model**: the queue then stands still (T:1197).
* **Deployment**: scripts around containers, backup and restore.
* **Two accounts in one `sync_now`**: it keeps the repository it began with (T:968) and
  reads the session for every request (T:480). `AuthSessions` has the crossing
  (`"crossed"`), what would be pushed then is not modelled.

## Plan

1. `DesktopSync`: a new device identity at login; the repository of one account
   under the session of another.
2. `AttachmentSync` with two attachments, and with several parts in one store.
