# Ferroma: a TLA+ verification project

Ferroma is a self-hosted mail server in Rust: one process that speaks SMTP, IMAP and HTTPS,
keeps message metadata in PostgreSQL and message bytes in a Maildir. This project models the
parts of it whose correctness depends on the order in which things happen, checks the models
with TLC on small instances, and proves the central safety properties for every size with TLAPS.

Contents: 1 inventory, 2 plan and conventions, 3 the outbound queue, 4 the sync journal, 5 the
message store, 6 the event stream, 7 accounts, 8 client operations, 9 listeners, 10 the SMTP
server session, 11 the inbound policy, 12 the IMAP session, 13 the SMTP client, 14 runs,
15 proofs, 16 disagreements, 17 what is not modelled.

## 1. Inventory

| Component (code) | State | Operations | Talks to | Hard behaviour | What makes it correct |
|---|---|---|---|---|---|
| **Outbound queue** (`ferroma-smtp/src/queue.rs`, `ferroma-storage/src/repository/queue.rs`, admin queue routes, migrations 0006 and 0008) | `mail_queue`, `delivery_attempts`, the DSN task columns; the claims a worker holds in memory | enqueue, claim, record, finish, recover stale claims, claim/finish a DSN, admin retry/cancel, the delete triggers | submission fills it; it drives the SMTP client; files DSNs through local delivery; publishes `delivery.updated` | crash between acceptance and verdict, claims taken back from a live worker, two-statement requests | no mail lost in silence, bounded attempts and duplicates, verdicts final, every row ends |
| **Sync journal** (`ferroma-sync`, `repository/sync.rs`, migration 0007) | `change_log` and its sequence; each client's stored cursor | append in a transaction, the three queries of a sync, prune, cascade of a deleted address, backup/restore | written by every mailbox mutation; read by clients over FCP | commit order against sequence order, retention against cursors, restore | a cursor never skips a change; clients converge |
| **Message store** (`repository/messages.rs`, `mailboxes.rs`, `maildir.rs`, `relocate.rs`, `folder_rename.rs`) | `messages`, folder counters and `uid_next`, `users.used_bytes`, files | insert (one, batch, import, draft copy, placeholder), flags, move, copy, expunge, delete, folder rename/delete, recount | used by SMTP delivery, IMAP, the API; appends to the journal | file and row cannot commit together; row locks in different orders | every row has its file; UIDs unique and increasing; counters exact; quota held by what is charged |
| **Event bus and WebSocket** (`ferroma-events/src/bus.rs`, `ferroma-api/src/ws.rs`) | sequence counter, ring of recent events, broadcast channel | publish, subscribe, replay, lag, socket loop, heartbeat | every component publishes; sockets and IMAP IDLE listen | replay against live events, ring overflow, restart of the numbering | a gap is announced, never silent; a revoked device's socket closes |
| **Client operations** (`repository/sync.rs`, `ferroma-sync/src/service.rs`, mutating routes) | `client_operations` | begin, replay the stored result, finish, purge | API mutations; the client's outbox | repeated and concurrent requests, crash between effect and result | an operation takes effect once, and only its own result is replayed |
| **Accounts and sessions** (`ferroma-auth`, `repository/auth.rs`, `users.rs`, `mfa.rs`) | users' lockout, sessions, devices, TOTP secrets, recovery codes | login, second factor, IMAP LOGIN, SMTP AUTH, refresh, logout, revoke, reset, enrol | every API request; IMAP and SMTP AUTH | two refreshes at once, revocation racing refresh, counters checked before they are raised | one live session per login; a revocation ends what existed; what is used up is used up once |
| **SMTP server session** (`session.rs`, `server.rs`) | greeting, TLS, authentication, envelope | HELO/EHLO, STARTTLS, AUTH, MAIL, RCPT, DATA, RSET, QUIT | delivery, auth, inbound policy | command order, state left over after STARTTLS/RSET | no relay without authentication; the envelope is the one the peer was told of |
| **Connection limits and inbound policy** (`connection.rs`, `inbound.rs`, `spf.rs`, `dkim.rs`, `dmarc.rs`, `greylist.rs`, `dnsbl.rs`) | connection counters, greylist triplets; otherwise pure over DNS answers | admit/release, first seen/retry, evaluate, decide | SMTP session, DNS | limits at the boundary, time windows, lookups that fail half way | counters exact; nobody is refused or put aside without a published reason |
| **Submission and delivery** (`delivery.rs`, `submission.rs`, compose routes) | none of its own | stage files, one transaction for sent copy, local copies and queue rows, cleanup | message store, queue, journal, bus | partial failure between file and row | all recipients or none, and the reply says which |
| **IMAP session** (`ferroma-imap/src/session.rs`) | selected folder and its listing, IDLE subscription | SELECT, STORE, COPY, MOVE, EXPUNGE, CLOSE, APPEND, CREATE, RENAME, DELETE, IDLE | message store, bus | numbering while others expunge | a number never denotes another message; only marked mail is destroyed |
| **SMTP client** (`client.rs`, `mx.rs`, `queue.rs`) | one dialogue; the DNS cache | resolve, walk hosts and addresses, the dialogue, deadlines | the queue worker, DNS, peers | lost answers, misread replies, silent peers | a verdict was heard; copies are explained; nothing secret in the clear |
| **Server process** (`server/src`) | listeners, TLS material, ACME orders, backups | serve, switch listeners, reload, issue, back up, restore | everything | a switch used while the old loop holds the port, sessions that outlive it | slots never leak; the switch tells the truth; a clean drain |
| **MIME, addresses, parsers** | none | pure functions over bytes | all protocol layers | malformed input | round trips, limits |
| **Front ends** (`web`, `admin`, `shared`) | browser state | over the API | API | reconnects | none stated here |

The same list with its status is in `PROJECT.json`; its hazards are what the properties are for.

Components interact in two ways: through rows in PostgreSQL (the queue row a submission leaves,
the journal row a mutation leaves, the DSN task a verdict leaves), and through the in-process
event bus, which only hints that something happened: nothing in the database depends on an
event being seen. The modules meet at the same places: what `SmtpClient` calls an outcome is
what `MailQueue` lets an attempt bring back; what `SmtpSession` calls `queued` are the rows that
`MailQueue!Enqueue` makes; what `SmtpSession` and `ImapSession` do to a message in one step is a
transaction of `MessageStore`; the journal rows of `MessageStore` are the changes of `ChangeLog`,
and its announcements the events of `EventStream`.

## 2. Plan and conventions

Most important first: what cannot be repaired when it goes wrong (mail lost or repeated), then
what clients see, then the protocol front ends.

| Module | Composes | Proofs |
|---|---|---|
| `MailQueue` | `MailQueueRefinement` over `MailPromise` | `MailQueueProofs` (refinement included) |
| `ChangeLog` | `ChangeLogRefinement` over `ChangeStream` | `ChangeLogProofs` (refinement included) |
| `MessageStore` | | `MessageStoreProofs` |
| `EventStream` | | `ClientViewProofs` |
| `Accounts` | | `AccountsProofs` |
| `Operations` | `OperationsRefinement` over `Once` | `OperationsProofs` (refinement included) |
| `Listeners` | | `SmtpServerProofs` |
| `SmtpSession` | | `SmtpServerProofs` |
| `InboundPolicy` | its judgements are the constant of `SmtpInbound`, which composes them with `SmtpSession` | `SmtpServerProofs` |
| `ImapSession` | | `ClientViewProofs` |
| `SmtpClient` | | `SmtpClientProofs` |
| `Order` (sorting, for journal, ring and listings) | | in `ClientViewProofs` and `ChangeLogProofs` |

`EventStream` and `Listeners` have a prefix before their `Init`, `Next`, `Spec` and type invariant
(`StreamSpec`, `ListenersSpec`), as their proofs stand in one module with those of another
component.

Every safety property that a run checks is a theorem (section 15). What is left of the plan:
folder rename and deletion inside `MessageStore`; a module for certificate installation and
backup (their steps were read, section 16); the DNS cache.

Conventions: every SQL statement or critical section is one action; what a handler keeps
between two statements is state of its own; a CONSTANT named `Max...` is a bound on the
exploration, unless its comment names a setting of the code; a definition `X_Y` is `X` with a
plausible mistake `Y`, used to show that a property notices it. An MC module only gives
constants their values.

## 3. The outbound queue

`MailQueue` models the `mail_queue` table with one action per statement or handler step.

| Code | Model |
|---|---|
| `enqueue_batch` | `Enqueue` (all recipients of a message in one step) |
| `QueueWorker::run`, recovery at start | `Start`, `RecoverOnStart`, `RecoverBouncesOnStart` |
| `dispatch_batch`: day-old recovery, claim, attempts | `RecoverDayOld`, `ClaimDue`, `LoseAnswer`, `Attempt`, `RecordAttempt`, `FinishClaim`, `BatchDone` |
| `dispatch_bounces`, `deliver_bounce` | `RecoverDayOldBounces`, `ClaimDueBounces`, `DeliverBounce`, `FinishBounce`, `DsnDone` |
| `retry_queue_entry` (check, then `mark_retry`) | `RetryCheck`, `MarkRetry` |
| `cancel_queue_entry` | `Cancel` |
| delete triggers of migrations 0006/0008 | `DeleteMessage` guarded by `NeedsMessage` |
| shutdown, kill | `Stop`: the database stays, `pc`, `job` and `dsnJob` are lost |

The attempt number is also the fencing token of a claim: `finish_claim` updates only where
`attempts` still is the claimed number (`ClaimIsCurrent`). The dialogue with the remote server
is its outcome, chosen freely, and apart from the outcome what the recipient got: a host may take
the message while its answer is lost or the QUIT after it runs into the deadline (`client.rs:640`),
which is a failure to the worker and a copy to the recipient. `LoseAnswer` is that step; it may
come before any outcome, and more than once in an attempt, as each host or address that follows
may do it again. In the same way a DSN may have been filed although `deliver_raw` returns an error
(`delivery.rs:1204`: recipients and attachments are written after the row has been committed), the
second branch of `DeliverBounce`. Time is `clock`: which timestamps have come, and which claims are
a day old. History variables count what recipients and senders received, what of it the worker was
not told (`unheard`, `misfiled`), and what put a row back without a verdict; the properties are
bounds in terms of these. `RepeatsBounded` is therefore exact about the causes of a repetition:
copies beyond the first are paid for by recoveries, retry requests and lost answers, notices
beyond the first by recoveries, retry requests and DSNs that were filed before an error. How many
answers may be lost is the network's affair and not bounded by the code, other than by the hosts
of an attempt and the attempts of a row (`SmtpClient!CopiesExplained` counts the same copies from
the dialogue's side). Faults are bounded each for itself and together (`Limit`, `Troubles`,
`MaxFaults`).

`MailPromise` is the same queue as its users know it: mail is taken, perhaps received, and
concluded once, for a reason. `MailQueueRefinement` maps the row to a promise (`PromiseOf`), and
`KeepsPromise` states that `MailQueue` implements it. A copy may arrive before the row is
concluded and, through a lost answer, although it is then concluded as failed. It is checked
without retry requests, which revise verdicts by design.

## 4. The sync journal

`ChangeLog` models transactions that append rows (`Begin`, `AppendChange`, `Commit`,
`Rollback`), the advisory lock of migration 0007 (`LockFree`), the three queries of a sync
request, each on its own snapshot (`CheckLatest`, `CheckOldest`, `ReadPage`), and the operators'
prune, delete, dump and restore. A client applies a page and stores `next_cursor` in one step,
as `docs/fcp.md` asks of it; requests and answers may be lost (`Lose`).

`ChangeStream` is what a client relies on: one growing sequence of changes per account, the
client's copy the replay of a prefix. `ChangeLogRefinement` shows `ChangeLog` implements it
(`KeepsStream`), in runs without prune or restore, which break the stream on purpose.

`NoHole` is the property behind cursors: what the client holds is what the changes up to its
cursor say. It is proved, and the proof shows what it rests on: rows of a user become durable in
the order of `created_at`, by which retention deletes them, and no prune runs while a request is
served (or nothing is pruned at all). With transactions that overlap the order can fail (section
16). It makes two exceptions, kept in `floor`: rows pruned before the client started from 0, and
rows of a timeline a restore ended (a restored sequence draws the same numbers again, and a cursor
from the lost timeline that is not ahead of the new one cannot be told apart).

`PruneOnline = FALSE` states that `ferroma sync prune` runs between requests. With `TRUE`, a
prune between the staleness check and the page query can leave a hole: the checks and the page
are separate statements (`ferroma-sync/src/service.rs:128-166`).

## 5. The message store

`MessageStore` models one account: its message rows, folders, `users` row, journal and body
files, under any number of IMAP sessions, deliveries and API requests (`Procs`). What makes it
hard is that a file and a row cannot commit together, and that what a transaction has read
before a row lock may be stale once it has the lock. So an operation is a small program:

1. it reads the row, outside its transaction (`Start...`, `op[p].base`);
2. it stages a body under a fresh name (`Stage`), because flags are part of a Maildir name and a
   move changes the directory;
3. its transaction takes its row locks one at a time, in the order of its statements
   (`Acquire`; the order is `Rank`, the set is `Needs`), checking what it waited for when it
   has it (`Refused`);
4. its writes become visible together (`Commit...`), and the locks are free;
5. it removes the body nobody needs any more (`RemoveBody`).

| Code | Model |
|---|---|
| `insert_logged`, behind a delivery or an APPEND | `StartInsert` (kind `insert`), `CommitInsert` |
| `insert`, behind an import of JMAP (`import_raw_message`), the copy of a draft in Drafts (`mirror_draft`) and the placeholder of an upload (`MessageStub::ensure`) | `StartInsert` (kinds `import`, `mirror`, `stub`: `Unmetered`), `CommitInsert`; the import's journal row is `CommitTell` |
| `set_flags_with_path_logged` (STORE, FETCH, PATCH) | `StartFlags`, `CommitFlags` |
| `move_to_folder_with_path_logged` (MOVE, API move, trash) | `StartMove`, `CommitMove` |
| `check_quota`, then `copy_to_folder_with_path_logged` | `StartCopy`, `LoseSource`, `CommitInsert` |
| `hard_delete_logged` (EXPUNGE, CLOSE) | `StartDelete`, `CommitDelete(p, "expunge")` |
| `hard_delete`, `Maildir::delete`, `record_message_deleted` (`DELETE ?permanent`) | `StartDelete`, `CommitDelete(p, "purge")` or `DeleteNothing`, `RemoveBody`, `CommitTell` |
| the draft routes and `cleanup_stub`, which discard the copy of a draft or a placeholder | `StartDiscard`, `RemoveAhead` (the body goes first), `CommitDelete(p, "discard")` |
| `FoldersRepository::recount` | `StartRecount`, `CommitRecount` |
| `Maildir::store`, `stage_flags`, `delete` | `Stage`, `RemoveBody` |
| a statement or the process fails | `StatementFails`, `DeadlockVictim`, `Crash` |

Details that the properties depend on:

- A flag change or a move updates `WHERE storage_path = $expected`: the path serves as the
  row's version (`AsRead`), which is sound because `Maildir::stage_flags` picks a fresh name even
  when the flags stay the same. `NoFlagLost` is the property behind it. A change that finds the
  row as it would make it commits nothing (`FindUnchanged`).
- When the source file is missing, IMAP and `relocate_message` give up, but the API's flag
  change goes on with the old path (second branch of `Stage`).
- `insert_logged` and the copy lock the `users` row first and count the messages under it, so
  that two deliveries cannot both take the last place; `check_quota` before a copy is only a
  hint (`StartCopy`). The sum they store in `used_bytes` is read when they have the folder row
  (`note`).
- `insert` without a user asks no quota, leaves `used_bytes` alone and writes no journal row. What
  that costs is written in the properties, not left out of the model: `QuotaHolds` is about what
  deliveries, appends and copies bring (`Metered`); `UsageCovers` says that `used_bytes` covers the
  mail unless some came in uncharged, and is exact until something left it alone (`skew`);
  `JournalTold` excepts the messages whose last change came without a row of its transaction
  (`hushed`), until a later row tells the truth about them.
- An import writes its journal row, and a purge its tombstone, in a second transaction with nothing
  to make it happen (`CommitTell`). A late row says what the operation knew: it may contradict what
  others have committed and told meanwhile, which also makes the message `hushed`.
- Two kinds of rows stand without a body (`bare`): the placeholder of an upload, and the copy of a
  draft whose route removes the body before the row. The path of such a row never changes, so it
  is no version: `NoFlagLost` excepts them (section 16).
- Of the statements that number a message, any two may run at once on one folder: the UID comes
  with the lock of its row (`Acquire`), and `UidsDistinct` is the part of `BooksBalance` that would
  notice one drawn twice.
- `recount` is one `UPDATE` with a subquery. PostgreSQL evaluates the subquery on the
  statement's snapshot and does not repeat it when the folder row it waited for has changed;
  `StartRecount` reads, `CommitRecount` writes.
- A journal row's foreign key takes a share lock on the `users` row that conflicts with
  `FOR UPDATE`; as the advisory lock admits one journal writer per account at a time, the share
  is modelled as the lock itself.
- Every message has size 1, a placeholder 0: bytes and messages are the same count (`Mail`).

`wanted`, `drifted`, `hushed`, `skew`, `orphans` and `bare` are history variables: each records the
one thing that the corresponding property must make an exception for, so that the property stays
exact everywhere else.

## 6. The event stream

`EventStream` models the bus (`PublishNowait`: number, ring and broadcast channel under one lock)
and the whole life of a socket of `GET /client/events`: `Connect` (authenticate, subscribe),
`SendHello`, the replay, which takes the bus lock two or three times (`ReadOldest`, `ReadLast`,
`Replay`), the run loop (`Recv`, `Heartbeat`, `HeartbeatBlind`), and `Drop`, `Revoke` and
`Restart` around it. A frame is handed over: the loop waits until the client has taken it
(`Deliver`), and it is that wait which lets a slow client fall behind its channel.

Events are named by their place in `published`, sequence numbers start over with the process
(`base`): that difference is what the component is about. A client is *careful* when it syncs
after every `hello`, as `docs/fcp.md` section 8 asks, and otherwise trusts its cursor and
`replay_gap` alone. `NothingMissed` says that a careful client knows every change its socket has
gone past, that any other client that misses one either was told of the gap or met one of two
*seams*, and that a cursor never claims more than the client knows. The seams are a cursor
numbered by an earlier process, and a ring that moves between the two reads of a replay; both are
properties of `ws.rs` that the protocol document covers by asking for the sync. So a client that
trusts its cursor alone *can* lose a change in silence after a restart: the property names where,
and says that it happens nowhere else.

## 7. Accounts

`Accounts` is one account with its lockout, second factor, recovery code, sessions and devices,
and requests that work on it concurrently. Each statement of `AuthService` is a step, and a
handler may be dropped between two (`Abandon`: the client went away and the future with it).

| Code | Model |
|---|---|
| `login` and its parts | `Login`, `LoginFails`, `Rehash`, `AskFactor`, `FindFactor`, `Consume`, `LoginSucceeds`, `RegisterDevice`, `OpenSession`, `Unlock` |
| `login` with an application password | `LoginByApp` |
| IMAP LOGIN (`ferroma-imap/src/auth.rs`) | `ImapLogin`, `LoginFails`, `ImapGate`, `ImapSucceeds`, `ImapForgets` |
| wrong credentials that nothing counts | `SmtpAuthMiss` (`authenticate_client`), `ImapAppMiss`, `OwnerMiss` |
| `refresh`, `SessionsRepository::rotate` | `Refresh`, `RefreshUser`, `Claim` (the conditional UPDATE, which waits for the row lock), `Rotate` (commit) |
| revocations | `Logout`/`EndSession`; `ChangePassword`, `ResetPassword`, `Disable`, `Unlink` with their writes, then `StartRevoking`, `FinishRevoking` |
| TOTP and recovery codes | `Enroll`/`WriteSecret`, `Confirm`/`WriteConfirmed`/`ReplaceCodes`, `TurnOff`/`DeleteFactor` |

`UPDATE sessions SET revoked_at ... WHERE user_id` is two steps: PostgreSQL chooses the rows on
the statement's snapshot and then waits for those that are locked. Rows that appear meanwhile are
not revoked, and `CutOff` says exactly that: every live session was opened after the last such
statement began. A password, a secret and a set of codes are numbered by when they were made; a
set holds one code.

The account has several doors, and they differ. The logins of the web, JMAP and official clients
and the account password at IMAP look at the lock and count what is wrong; `guesses` are those, and
`SpentOnce` bounds them between two lock-outs through all these doors together. SMTP AUTH looks
only at `enabled`, and neither it nor an application password at IMAP nor the current password of
a signed-in user counts anything, and a count at IMAP that fails is forgotten: `unheard` are
those, and nothing bounds them (`LockHoldsEverywhere`, section 16). The model has them so that the
bound is shown to hold beside them and is not read as more than it is.

## 8. Client operations

`Operations` models `SyncService::with_operation` over `client_operations`: the claim
(`INSERT ... ON CONFLICT DO NOTHING`, `Begin`), the row of an earlier attempt (`Find`, `Replay`),
the work and the record of its result (`Work`, `Record`, `RecordFails`), `ferroma sync prune`
(`Purge`), handlers that vanish (`Drop`) and the client's outbox, which repeats an action until
the answer settles it (`Attempt`, `Answer`). Routes differ in where they look for the key
(`Keyed`): the instance gives each action the place its route reads.

`Once` is the promise: per key at most one effect until it is forgotten, and "done" only after
an effect. `OperationsRefinement` maps it identically and the refinement is proved as well as
checked, for actions whose key the route finds. `Settles` is liveness with an honest exception:
an action whose handler vanished between claim and record stays unanswered (`Orphaned`), because
the row stays open and nothing closes it.

## 9. Listeners

`Listeners` models the supervisor that applies the admin's SMTP and IMAP switches
(`server/src/listeners.rs`), the accept loops, and the SMTP connection tasks with the limiter
each one passes. Every start makes a new server with a new limiter and a new stop signal
(`Servers`). A connection is where its task waits: in the limiter between its two counters
(`claimed`), in a TLS handshake, for a command, for a step of AUTH, in a body, or on its way out.
A peer may vanish without a word (`Vanish`), and then only deadlines and the stop signal move the
task. `SlotsExact` ties the two counters to the connections they stand for; `SwitchIsTrue` the
published switch to the port; `VanishedPeerEnds` and `SwitchedOffDrains` say that slots come back.

## 10. The SMTP server session

`SmtpSession` is one connection on any of the three kinds of listener, the greylist, and what a
message becomes at the end of DATA. The peer says anything in any order; a reply that changes
nothing is not written down. The handlers of `server.rs` are the actions, the mutators of
`session.rs` are operators with their names (`Greet`, `BeginTransaction`, `Reset`,
`EndTransaction`), so that "which of them does this command call" is visible. `heard` is what the
peer was told; `EnvelopeIsHeard` compares it with what the server holds.

A message that ends leaves an `effect` (copies per mailbox in INBOX and Junk, queue rows, the
reply), kept until the next `MAIL`. Mail from outside goes to all mailboxes in one transaction
(`Inbound`); a submission is staged, committed and then delivered to local recipients one at a
time (`Submission`). `grey` is the row of one triplet with its age in ticks, `waited` how long a
peer has been kept waiting since its first attempt.

## 11. The inbound policy

`InboundPolicy` translates `spf.rs` (evaluation), the verifier of `dkim.rs`, `dmarc.rs` and
`inbound.rs` as functions of a *world*: the envelope sender, the `From:` domain, the signatures,
the configuration, and what DNS answers. An answer says how the lookup went: `answered`,
`absent`, or `down`; the resolver makes an error of the last two (`Fails`), which matters in
section 16. Parsing, macros and cryptography enter as their outcome (`garbled`, `holds`).

The second half of the module is a reference: what the published policies *ask for*, as a set of
actions, because an answer that did not come could have been anything (`AskedFor`). It is written
without the lookup counter, the order of names and the early exits of the code, and it counts
lookups of a finished evaluation where the code charges before each. `Due` are the actions
allowed: the one on which every completion agrees, or to accept when a stage reports a temporary
error, which is the module's stated principle (`inbound.rs`: "Never lose mail because a lookup
failed"). `Overlooked` excepts two situations in which the code disagrees with the reference,
section 16.

`SmtpInbound` puts the two together: where `SmtpSession` leaves quarantine and rejection open,
the verdict of some world decides. It knows a world by its `Judgement` only, what the policy does
and whether that is due: the constant `Verdicts`, which `MCSmtpSession` fills with the judgements
of the worlds it considers. Each of its steps is a step of `SmtpSession` (lemma `PolicyRefines`),
so the theorems about that module hold of it. `InboundIsFair` is the greylist's clock and
`VerdictIsDue`.

## 12. The IMAP session

`ImapSession` has any number of sessions of one account over its folders and messages. A session
keeps the listing it read at SELECT, and numbers, marks and expunges by it while others change the
folder: `fresh` are the listed messages whose path is still the row's, which is what the `WHERE
storage_path = $expected` of a STORE tests. `EXPUNGE`, `CLOSE`, `COPY` and `MOVE` take their
messages one by one (`ExpungeOne`, `CloseOne`, `CopyOne`, `MoveOne`; `job` is the command under
way), and other sessions, deliveries and folder changes come between; `Abandon` ends a command
half way. `told` is the client's own numbering, as it follows from EXISTS and EXPUNGE responses:
`RenumberedAlike` says that it stays the server's, `ReportedIsGone` that what was reported
expunged is gone. `RenumberedAlike` excepts an IDLE over a listing that is not up to date
(`UpToDate`: what is listed is there, and nothing lies unlisted among it), because IDLE reads the
folder again and reports only its new length. `Dropping` is what a MOVE's reports leave of a
listing, one number after the other. `IDLE` keeps a subscription of bounded capacity that can lose
events.

LOGIN is a new client after `Leave`; `STORE` and `FETCH` of several messages are repetitions of
one; folder names are flat.

## 13. The SMTP client

`SmtpClient` is one row of the queue over several attempts: resolution (`mx`, `addresses` phases),
the walk over hosts and addresses, and the dialogue, one phase per reply that is waited for, with
STARTTLS, the second EHLO and AUTH. A reply is only how it stands to what the step asks for.
`Deadline` is the session timeout, which may pass in any phase. `willing` fixes a world in which
resolver, network and peers do all that is asked of them: only about that world can one say that
the mail is delivered (`WillingTakesIt`); all other properties hold with peers that answer
anything, break off or stay silent. `Panic` and `Restart` model the one way in which a reply ends
the worker's task (section 16). `allow_cleartext_auth` is always false, as every constructor of
the server leaves it.

What the module calls `outcome` is what `MailQueue` lets an attempt return, and `VerdictIsHeard`
is the fact about it that the queue relies on: `delivered` means a peer took the message, and
`permanent` that one refused it.

## 14. Runs

All runs are exhaustive for their bounds, and all pass. Numbers are distinct states.

| Run | Instance | Shows | States |
|---|---|---|---|
| `queue` | 1 worker process, 2 messages (one owed a DSN), budget 2, one stop, one failing statement, one lost answer, two of these together, fairness | `KeepsPromise` (implements `MailPromise`: verdicts final, each for a reason), `EverythingEnds` (every row ends, every owed DSN is sent) | 438,399 |
| `queue_two` | 2 worker processes, 1 message, budget 2, one slow claim, one lost answer, one DSN with an error, one retry request, three of these together | `ClaimsFenced` (unique tokens, attempts within the budget), `LogAgreesWithRow`, `NoSilentLoss`, `RepeatsBounded` (copies and notices against what explains them) | 2,305,072 |
| `journal` | 2 writers, 2 clients with different scopes, 2 items, 3 rows, page size 2, one lost request, fairness | `KeepsStream`, `EventuallyConsistent` | 100,192 |
| `journal_retention` | 1 writer, 1 scoped client, 3 rows, any two of a prune, a deleted address and a restore | `NoHole` | 2,653,168 |
| `store` | 2 processes, 3 messages, 2 folders, 2 flags, quota 2, 4 operations of any kind (a recount or an uncharged insert counts as two), one failing statement or crash | `BodiesKept`, `NoFlagLost`, `BooksBalance` (no orphans, counters and UIDs exact, usage covers, quota holds), `JournalTold` | 202,654 |
| `stream` | 1 device, 1 foreign account, ring of 2, channel of 1, 3 events, one restart, one drop, one failing heartbeat, fairness | `NothingMissed`, `EventuallyKnown`, `RevokedIsClosed` | 83,891 |
| `accounts` | 2 requests at a time, 4 in all, through any door, one abandoned, 1 device, lock after 1 failure | `OneLivePerLogin`, `CutOff`, `SpentOnce` (counted guesses bounded, a recovery code once) | 1,391,451 |
| `operations` | 3 actions, 2 of different accounts under one key, 2 attempts at a time, one fault of each kind, fairness | `OwnResult`, `KeepsPromise` (implements `Once`), `Settles` | 240,046 |
| `listeners` | 3 connections, 2 of one address, 2 slots, 1 per address, 2 starts, 3 uses of the switches, fairness | `SlotsExact`, `SwitchIsTrue`, `VanishedPeerEnds`, `SwitchedOffDrains` | 65,845 |
| `smtp` | any dialogue on 3 kinds of listener, 4 local addresses over 2 mailboxes, 1 remote, delay 2, the verdicts of about 35,000 worlds | `EnvelopeIsHeard`, `NoRelayUnproven`, `CopiesAsSaid` (all or nothing, listed mail in no INBOX), `InboundIsFair` | 644,898 |
| `imap` | 2 sessions, 2 messages and room for a third, 3 names, 2 folder rows, 3 commands, channel of 1, fairness | `ListingsAreTrue`, `QueuedMailKept`, `ExpungesAreTrue`, `DestroyedWasMarked`, `IdleHears` | 220,643 |
| `client` | 10 zones of 2 exchangers with up to 2 addresses, or a relay under every TLS policy with and without credentials, 2 attempts, fairness | `VerdictIsHeard`, `CopiesExplained`, `NothingInClear`, `AttemptEnds`, `WillingTakesIt` | 86,317 |

Types are part of one property of each run (`NothingMissed`, `SpentOnce`, `ListingsAreTrue`), or
proved for every instance where the module has proofs.

**Bounds.** They are chosen so that each interesting situation occurs and can be followed by any
other. Queue: budget 2 has a first and a last attempt; two processes are the fewest that take
claims from each other; one recovery, one crash, one retry request and one lost answer suffice to
use up and exceed a budget and to deliver the same message again. Journal: three rows are the
fewest for a page that is full, a row pruned before the cursor and one after it; a scoped and an
unscoped client see different subsequences. Store: three messages fill a quota of two and leave
one that must be refused; four operations allow a row to be created, changed by two at once, and
changed again, or an uncharged message to meet two others; with two flags, two sessions can set
different ones from the same old row. Stream: three events overflow a ring of
two and a channel of one twice. Accounts: two concurrent requests are the pairwise races; four let
a fresh session be raced for by two and revoked by a third, with a limit of one so that lock and
guess race at once. Operations: two attempts race for one key, each kind of fault comes once, and
the third action shows that keys do not disturb each other. Listeners: two of three connections
share an address over one slot for it, so each cap refuses somebody; two starts are an old and a
new server, three uses switch off and on again. SMTP: an address, its alias, one of another
mailbox by the catch-all and a remote one give every pairing of recipients; a delay of two ticks
tells "restarted" from "passed". Of the worlds, some 19,000 pair any SPF record of two or three
terms with any record of an included or redirected-to domain under a limit of three lookups,
reached, met exactly and exceeded; some 16,000 pair signatures, `From:` domains, DMARC records at
the domain and its organization, samples and the operator's setting. IMAP: three commands or
arrivals are the fewest in which one session marks, a second moves and the first expunges; only
one session idles, as two watchers do not meet. Client: two exchangers of two addresses give a
next address, a next host and none; two attempts carry a copy into the next.

**Symmetry** is used for processes only, in runs without liveness properties.

**Deadlock** is checked where the system may not stop (`queue`, `queue_two`, `smtp`) and off
where a bounded run ends with every budget spent. The circular waits of the store are not TLC
deadlocks: PostgreSQL breaks them (`DeadlockVictim`).

**Fairness.** Nothing is assumed of administrators, crashes, faults or the answers of peers.

- `MailQueue`: weak fairness of each worker process's start and steps, which the loop of
  `QueueWorker::run` gives as long as the process is started again and every network wait has a
  timeout (`client.rs`; that every attempt ends is `SmtpClient!AttemptEnds`), and of timestamps
  becoming due, which is time passing.
- `ChangeLog`: weak fairness of a client that is behind asking and being answered (`fcp.md` makes
  clients poll after an event or a reconnect); nothing of the network, which may lose requests.
- `EventStream`: weak fairness of the socket's steps and of a client that reads, reconnects and
  syncs; strong fairness of the heartbeat, because `tokio::select!` polls its arms in random order
  and so events that are always there do not starve it.
- `Operations`: weak fairness of handlers, strong fairness of a client that repeats what it has no
  answer to (`docs/sync.md` section 10): another attempt needs a free handler, which others may
  take again and again.
- `Listeners`: weak fairness of the supervisor, the loops, the tasks and their deadlines, which
  are timers of the runtime; strong fairness of noticing the stop signal (`Notice`), again for
  `tokio::select!`.
- `ImapSession`: weak fairness of an idling session taking events, which `serve_idle` polls for as
  long as it idles.
- `SmtpClient`: weak fairness of the worker's own steps and deadlines, and of the peers only in a
  willing world.
- `MessageStore`, `Accounts` and `SmtpSession` state no liveness: their operations end because
  each of their statements ends or fails, which is PostgreSQL's promise and not this code's.

**Properties and their mutants.** For each property of a run, PROJECT.json names a mistake a
plausible edit could make in one definition (`X_Y` for a definition `X`), under which TLC finds
that property violated in the same run: a missing guard, a swapped order, an off-by-one, a stale
token accepted. A few modules hold one or two more such definitions than PROJECT.json names.

## 15. Proofs

Checked by TLAPS, for any values of the constants that satisfy the named assumptions. These say
that messages, folders and locks are what their names say (`StoreAssumption`), that mail belongs
to addresses and addresses to users (`MailAssumption`, `ClientAssumption`), that rows, messages
and connections are finite sets (`RowsAssumption`, `StoreAssumption`, `ListenersAssumption`), that
local and remote addresses differ (`SmtpAssumption`), that a zone is a zone (`ZonesAssumption`),
and that numbers are natural. The bounds on exploration take part only as natural numbers: the
theorems hold however large they are.

| Theorem | Property | Argument |
|---|---|---|
| `MailQueueProofs!TypeCorrect` | `TypeOK` | inductive as it is, with one fact more: a token in hand is never ahead of its row |
| `AttemptBudgetHolds`, `TokensAreUnique`, `ClaimsAreFenced` | `ClaimsFenced` | `BudgetInv`: a row that *waits* has an attempt left, of its own or bought by a recovery; `TokensInv`: a token in hand is at most its row's counter, so the next claim's is new |
| `LogAlwaysAgrees` | `LogAgreesWithRow` | `LogInv`: an entry's attempt is at most its row's counter, a worker finds no entry of its own before it writes it, and once a row is delivered or failed nobody holds its last claim; so an entry that comes late, from a worker that lost its claim, is never the row's last |
| `RepeatsAreBounded` | `RepeatsBounded` | `RepeatInv`: the claims of a row that can still deliver a copy (`Unused`), counted as a set, and the copies made are together paid for by the revivals and the answers that were lost; the same for notices (`Unsent`) and the DSNs filed before an error. No bound on lost answers is assumed |
| `QueueKeepsPromise` | `KeepsPromise` | a step of `MailQueue` is a step of `MailPromise` or a stutter under `PromiseOf`, from `AnswerInv` and `PromiseInv`: a DSN claim in hand is of a row that failed and is owed one. Assumes `MaxAdminRetries = 0` |
| `NothingIsLostInSilence` | `NoSilentLoss` | `AnswerInv`: what a process remembers of an attempt did happen (`Truthful`), and every status that no longer holds the message was reached on such a memory (`Grounded`) |
| `ChangeLogTypes` | `TypeOK` | inductive; `Newest` is a number by well-foundedness of the naturals (`GreatestNatural`) |
| `CommitsInOrder` | `CommitOrder` | `JournalInv`: no row is ahead of the sequence (`Drawn`), only a lock holder has uncommitted rows (`Locked`), and they are newer than everything of that user readers ever saw (`Newer`), also across a restore (`Same`) |
| `CursorsSkipNothing`, `CursorsSkipNothingUnpruned` | `NoHole` | `CursorInv`: a pruned row of a user is older than all that are left of him (`PrunedFirst`), so a client whose cursor passed the check has a page without gaps (`PageSound`), also between the three queries; `Told` is `NoHole` row by row. Hypotheses below |
| `JournalKeepsStream` | `KeepsStream` | a commit appends to an account's stream, a page moves a client along it: the copy is the replay of the rows the cursor has passed (`CopyOf`), and ranks turn rows into places (`Apart`, `Order`). Assumes `Unpruned` |
| `StoreTypes` | `TypeOK` | inductive with `OpShape`: an operation names the rows its kind needs |
| `NoBodyLost` | `BodiesKept` | `Paths`, below |
| `QuotaAlwaysHolds` | `QuotaHolds` | About what is charged. `RoomHeld`: who holds the `users` row for a new message has room for it under the quota; it stays true because every other charged insert needs that row, and an uncharged one does not count (it only leaves less room for those that ask later) |
| `UidsOnlyAscend` | `UidsAscend` | `UidHeld`: who holds a folder row for a new UID holds the folder's next one, inserts of every kind and moves alike |
| `FlagsSurvive`, `JournalTellsAll` | `NoFlagLost`, `JournalTold` | `Story`: as long as a row has the path an operation read, it has the flags it read (`ReadStill`, of rows that have a body); what its commit tells is the row it makes, and a statement that tells nothing or too late leaves its message in `hushed`; a message that is gone is gone for good (`Dead`, `Emptied`), and operations know ids that were drawn (`Known`) |
| `BooksAlwaysBalance` | `BooksBalance` | `Swept`: a file is in hand only between staging and commit or between commit and removal, so at rest nothing is unaccounted for; `SumsHeld`: the sum an operation noted still covers the rows and its own when it commits, as it has had the `users` row since before, so `used_bytes` never understates the mail, uncharged inserts and their `skew` apart; `UidsDistinct` from `UidHeld`; a counter changes by the `Weight` of the row that changes |
| `NothingIsMissed` | `NothingMissed` | For a client that syncs, everything its socket has gone past; for one that does not, the same but for announced gaps and the two seams of section 6. `StreamInv`: the ring is the newest end of what was published (`Bus`), frames are in flight in the order of their seq (`Flight`), and what a live socket has gone past of this process's events is known or in flight (`LiveTells`), up to the cursor known (`CursorTells`), before this process known (`EarlierTold`), and all of it for a client that syncs (`CarefulTold`) |
| `OneHeir`, `CleanCut` | `OneLivePerLogin`, `CutOff` | `Heirs`: a rotation holds the lock of a live row and no two the same (`LocksHeld`); a live row outlives the revocations that are done and those under way that did not choose it, counted (`Overtakes`) |
| `UsedUpOnce` | `SpentOnce` | About the credentials that are counted. `GuessInv`: the wrong ones and the requests past the check that may still be wrong, at web logins or IMAP, counted together (`Countable`); `CodesInv`: an unused code has let nobody in |
| `KeyedAtMostOnce`, `NoFalseAck` | `AtMostOnce`, `AckMeansDone` | `IInv`: who works on a key holds its row alone (`OneHolder`, `HolderHasRow`), and until its work is done the key had no effect since it was last forgotten (`FreshUnclaimed`, `FreshAtWork`) |
| `OnlyOwnResults` | `OwnResult` | `OwnInv`: an account's row of a key names the action that claimed it, and what is replayed was compared with it |
| `PromiseKept` | `KeepsPromise` | from the same invariant: `Work` is `Once!Effect` or a stutter, an answer is `Once!Tell`, `Purge` is `Once!Forget`, anything else a stutter |
| `LimitsTyped`, `SlotsNeverLeak` | `SlotsExact` | the two together are inductive (`Caps`); a place changes the counted sets by one connection, and `OneMore` and `OneLess` say what that does to their cardinality |
| `SwitchTellsTheTruth` | `SwitchIsTrue` | `SwitchInv`: only the newest server's loop can accept, only while the switch is published as on, and it does until it is told to stop |
| `SmtpServerProofs!TypeCorrect`, `EnvelopeHeard`, `NeverAnOpenRelay`, `KeptAsSaid` | `EnvelopeIsHeard`, `NoRelayUnproven`, `CopiesAsSaid` | `IInv`: a session that is greeting, authenticating or closed has no transaction (`Tidy`), what the session says of TLS and the account is what the peer has shown (`Agrees`), and the last effect was reached in such a session |
| `WaitIsBounded`, `OutsideMailIsFair` | `GreylistClock`, `InboundIsFair` | `Clock`: a peer has waited since its first attempt exactly as long as its row is old; `Heeds`: what was done last with a message is what the reply and the copies show. The second assumes that every judgement in `Verdicts` is due |
| `ListingsStayTrue`, `QueuedMailStays` | `ListingsAreTrue`, `QueuedMailKept` | `SessionInv`, below |
| `OnlyMarkedMailGoes` | `DestroyedWasMarked` | from `SessionInv`: what an EXPUNGE or CLOSE under way still has to do is marked in the listing (`TodoSound`), even if other sessions changed the listing's rows meanwhile |
| `ExpungesStayTrue` | `ExpungesAreTrue` | eight ways in which a step changes a listing and the client's numbers (`ViewMoves`): forgetting a number keeps two sequences alike (`ForgettingMatches`, and `DroppingMatches` by counting up), and an up-to-date listing is a beginning of what reading the folder gives (`UpToDateReads`) |
| `VerdictsAreHeard` | `VerdictIsHeard` | before the answer to the body nothing was taken (`Untaken`); while QUIT is awaited the last reply says whether it was (`Answered`) |
| `CopiesAreExplained` | `CopiesExplained` | `Acceptances`: copies are the lost answers, and one if this connection's peer took the message |
| `NothingLeavesInClear` | `NothingInClear` | `Private`: where a policy requires TLS, a phase after the second EHLO is encrypted, and only the phases before it write in the clear |

Some theorems have hypotheses, each one a fact about the code or its configuration:

- The theorems about `Operations` but for `OnlyOwnResults` assume that each route finds its
  action's key (`AllKeyed`), which the route of `POST /client/messages` does not if the key is in
  the body (section 16).
- `QueueKeepsPromise` has `MaxAdminRetries = 0`: an administrator's retry takes a verdict back, and
  `MailPromise` says that verdicts are final.
- `CursorsSkipNothing` assumes `BornInOrder` of the behaviour (a user's rows became durable in the
  order of `created_at`) and `~PruneOnline`; `CursorsSkipNothingUnpruned` assumes instead that
  nothing is pruned. Without either `NoHole` is false (section 16). The server writes through a
  pool of connections, so the order is a condition on what its transactions do and not one it
  enforces; the run `journal_retention` has one writer, where it holds.
- `JournalKeepsStream` assumes `Unpruned`: no prune, deletion or restore, as the run does.
- `OutsideMailIsFair` assumes that the judgements it is given are due. That those of
  `InboundPolicy` are is what TLC finds over the worlds of the run `smtp`.

The IMAP invariant `SessionInv` has a part for each thing a session holds while others work.
A listing is in the order of UIDs, all below the folder's next (`ListingSound`), since a UID is
never used again (`NeverBack` is the step's half of that); a path that is still the row's
(`fresh`) belongs to a listed message that is exactly as listed (`FreshSound`), because everyone
who changes a row takes the path from all sessions; what a command still has to expunge is marked
(`TodoSound`); and what a MOVE has taken out of the folder is not where its listing has it
(`DoneSound`), even if it was moved back meanwhile, as it then has another UID. The last two let
a command be followed over steps of other sessions.

`BodiesKept` is far from inductive. A row keeps its body because nobody else will remove it, and
that is a statement about all operations in flight: rows never share a path (`RowsOwn`); what an
operation has staged exists, is nobody else's and named by no row (`StagedOwn`); what it will
remove is no row's (`DoomedGone`); the path it *read* belongs to its own message or to none, and
while it holds the row lock it is still that row's path (`BaseHeld`); a message being added is
known to one operation (`AddsAlone`); and locks are held inside transactions only (`Course`). The
odd case is the API's flag change without a source: it carries the old path as if it were
staged, and the invariant says that this file is gone for good, so the row cannot be pointing
at it (last part of `StagedOwn`). All parts were checked by TLC as invariants of `store` before
they were proved.

Only proved, not among the properties of a run: the type invariants of the modules with proofs,
`CommitOrder`, `UidsAscend`, `AtMostOnce`, `AckMeansDone`.

Only model-checked: liveness (`EverythingEnds`, `EventuallyConsistent`, `EventuallyKnown`,
`RevokedIsClosed`, `Settles`, `VanishedPeerEnds`, `SwitchedOffDrains`, `IdleHears`, `AttemptEnds`,
`WillingTakesIt`), which is out of the prover's reach; and that the judgements of `InboundPolicy`
are due, as that module recurs over includes and folds (RECURSIVE operators are beyond the
prover).

## 16. Disagreements

Where the code does not do what a document or comment of the repository says, or does something a
reader would not expect. The properties make the exception explicitly wherever one is needed.
Definitions named here are in the modules without being a property of a run; TLC violates each
when it is added to the run's configuration (where an instance is named, with that instance).

**Queue, journal, store**

- `DeliveredIsFinal`: a retry request checks the status in one statement and writes in another
  (`admin/queue.rs:255`); the worker's verdict between them is overwritten and a delivered message
  is sent again.
- `RowBudget`: `mail_queue.max_attempts` is documented as the attempt limit
  (`repository/queue.rs:30`, `delivery.rs:55`) and read by nothing; the worker uses its
  configuration.
- `CaughtUpIsComplete`: a client that starts from cursor 0 is never told of items whose changes
  were pruned; `docs/fcp.md:181` calls this a normal first sync.
- `NoHole` with transactions that last (`Retention` over `created_at`): pruning goes by the start
  of a transaction and the staleness check by `seq`, so a long transaction's row can be pruned
  while an older `seq` survives, and the check sees nothing missing (`service.rs:396`). With
  `PruneOnline = TRUE`, a prune between two queries of one request leaves a hole as well.
- `JournalLockLast`: migration 0007 asks that its lock not be taken in the reverse order of row
  locks. Inserts come to it with the `users` row, expunges and flag changes come to the `users`
  row with it. PostgreSQL resolves it; the price is a failed delivery or command.
- `RecountRepairs`: a recount that waits behind a delivery overwrites the new count with the old
  (`docs/storage.md:1086`).
- `NoBodySurvives`: a permanent delete removes the path it read first and ignores the row it
  deleted; a body that a concurrent move or flag change gave the row stays on disk, unaccounted
  (`ferroma-api/src/service.rs:1018`).
- A retry request during a running attempt can deliver the message twice (`RepeatsBounded` counts
  it); attempts of a recovered claim go past the budget by one each; a row that is retried after
  it failed keeps its bounce task, and a later delivery does not withdraw it.
- A delivery error after the commit makes the sending server repeat a message that is there, and
  the queue file a DSN a second time (`misfiled`); an answer lost after a host took the message is
  a failure of that host, and the next one gets the message as well (`unheard`).
- `import_raw_message` promises a message "indistinguishable from one that arrived through SMTP"
  (`ferroma-api/src/service.rs:656`), but asks no quota, adds nothing to `used_bytes`, and writes
  its journal row in a transaction of its own (`:752`): a crash in between leaves a message no
  client is told of, and a row that comes late tells the flags of the import over later ones, or
  of a message that was expunged. An expunge of it still lowers `used_bytes`, which it never
  raised.
- The copy of a draft and the placeholder of an upload come and go without a journal row and
  without being charged; the draft routes remove the body before the row (`drafts.rs:230`), so
  that a failure in between leaves a row whose body is gone; a draft copy whose insert fails
  leaves its body (`store_message` has no cleanup; `orphans`).
- A row without a body keeps its path, and the path is what `WHERE storage_path = $expected`
  compares: two flag changes through the API on such a row both pass, and one is lost
  (`NoFlagLost` without `bare`).
- Rolled-back transactions leave gaps in `seq`; retention does not look at device cursors;
  `ferroma sync prune` is the only purge, of the journal as of the operations
  (`commands.rs:1199`).
- `hard_delete` does not lower `used_bytes` (the next insert sets it right, `UsageCovers`).
- The name of a body file is the second, the process id and a counter that starts over with the
  process, and `Maildir::store` renames over an existing file: a restart within one second with
  the same process id could hand out a name twice (the model's counter outlives a crash).
- `insert_logged` and the copy compare the account-wide sum with the mailbox's limit if it has
  one; `insert_batch_logged` checks both limits.

**Event stream, accounts, operations**

- `DeliveryFoundBySync` (`Kinds` with `"delivery"`): `docs/sync.md:675` lists `delivery.updated`
  in the change stream; nothing appends it to `change_log`, so a lost frame stays lost.
- `ConfirmedIsProven`: `confirm()` marks whatever secret the row holds by then, so an enrolment
  that replaces the secret meanwhile is enforced without a code for it (`mfa.rs:130`, against
  `routes/mfa.rs:6` and `migrations/0011_mfa.sql:12`).
- `LoginKeepsPassword`: the rehash of a login that read the old hash writes the old password back
  over one that was just changed (`ferroma-auth/src/service.rs:743`).
- A refresh that has locked its row while the device is unlinked opens a session the revocation
  does not see, as the rows were chosen before (`docs/fcp.md:395`); `CutOff` states what does
  hold.
- `LockHoldsEverywhere`: wrong passwords lock the account, at SMTP AUTH too (`docs/security.md`
  section 5.2, `docs/smtp.md:336`). `authenticate_client` (`ferroma-auth/src/service.rs:561`)
  neither looks at the lock nor counts a wrong password; a wrong application password at IMAP
  (`ferroma-imap/src/auth.rs:104`) and a wrong current password of `change_password` are not
  counted either, and IMAP ignores a failure of the statement that counts.
- A confirm that is abandoned leaves a confirmed factor without recovery codes; an application
  password that lets a client in at IMAP clears the failures counted elsewhere.
- `AtMostOnce` with `AsDocumented`: `client_send_message` takes the key from the query string
  only; `docs/api.md:106` and its example put it in the body, and then two attempts take effect
  twice. `resources.rs:20` says every mutating route accepts `?operation_id=`, but PATCH and MOVE
  read the body and DELETE and marking none.
- A temporary error is recorded like any other and replayed as a conflict, which is final for the
  client (`docs/sync.md` section 11); a handler that ends between claim and record leaves the key
  open until it is pruned (`Settles` excepts it).

**Listeners and the SMTP server**

- `ImapSwitchIsTrue`: IMAP binds inside the task it spawns (`ferroma-imap/src/server.rs:225`) and a
  bind or accept that fails ends it, while the switch stays on.
- Each start makes a new limiter, so sessions in DATA of a stopped server and those of the new one
  can exceed `max_connections` together; a TLS handshake and the writing of a reply have no
  deadline; IMAP enforces no cap. `admin/system.rs:864` persists a switch before it is applied.
- `PlainContinues`: AUTH PLAIN without an initial response takes the next line as the password of
  an empty name (`server.rs:2097`, against `docs/smtp.md:312`).
- After 552 or 451 the rest of the body is read as commands (`docs/smtp.md:145`); a body line over
  64 KiB is cut, and a remainder of `.` ends the message; a second MAIL is accepted
  (`docs/smtp.md:144`), as is AUTH before EHLO (`docs/smtp.md:132`); `require_auth` applies to
  submission only, not to port 465 (`docs/smtp.md:34`).
- "Nothing is visible until this succeeds" (`delivery.rs:752`): local recipients of a submission
  can already have their copies when a later one fails, and 250 is said if any was delivered.

**Inbound policy**

- Of several DKIM signatures only the first that passes, or the topmost failure, is handed to
  DMARC. A message whose upper signature passes for another domain and whose lower one passes for
  its own is refused, although `dmarc.rs:15` says that a DKIM pass under an aligned domain
  passes; and if the topmost fails for good while a lower one's key cannot be looked up, the
  failure is enforced, although `inbound.rs:23` says a transient result anywhere in the chain
  suppresses enforcement. (`Overlooked`; TLC violates `VerdictIsDue` without it.)
- A name of a `ptr` mechanism whose lookup is down is passed over, and so enforced against, like
  one that does not match (`spf.rs:981`). (`Overlooked`.)
- `map_resolve_error` (`mx.rs:268`) makes an error of "no records of this type", contrary to its
  own comment and the trait's (`mx.rs:92`). For the policy a name without the records is therefore
  a resolver that is down: mail from a domain without TXT records gives an SPF `temperror`, DKIM
  and DMARC are then not attempted and everything is accepted; a missing DKIM key is `temperror`;
  the fallback to the organizational domain and `sp=` is reached only where the sub-domain has TXT
  records at `_dmarc`. The tests' `MockResolver` answers an empty list instead.
- The limits of RFC 7208 on the names of one `mx` or `ptr` are not enforced.

**IMAP**

- The client's numbering: IDLE replaces the listing without reporting what others expunged
  (`session.rs:2596`, against `docs/imap.md:642`), so numbers can differ afterwards. The same
  happens with nothing expunged: the session's own APPEND adds its message to the listing
  (`session.rs:1748`) although one that came before it is not listed yet, an IDLE that lagged
  announces the length of that listing, and the next refresh inserts the earlier message in its
  place, so that the client has the appended one under the wrong number. `RenumberedAlike` excepts
  both (`UpToDate`); the second needs more steps than the run's bounds allow and was found by the
  proof; an EXPUNGE destroys what the *listing* marks, also if another
  session took the mark back meanwhile (`session.rs:1805`).
- `BODY[]` without PEEK sets `\Seen` under EXAMINE too (`session.rs:2398`, against
  `docs/imap.md:166`).
- UIDVALIDITY is never set (`mailboxes.rs:929`, `migrations/0001_initial.sql:122`): a mailbox that
  is deleted and made again gives old UIDs to other messages (`docs/imap.md:376`).
- A MOVE that fails half way answers NO without reporting what it moved; an own APPEND sends no
  EXISTS; a STORE that changes nothing on a stale listing answers OK with stale flags; CLOSE
  publishes nothing; NOOP flushes nothing (`docs/imap.md:168`); IDLE is accepted before LOGIN
  (`docs/imap.md:647`) and is not woken by SMTP deliveries, whose event carries the id of the
  address; RENAME needs its callers to be serialised (`folder_rename.rs:9`); DELETE removes the
  directory by name after the commit.

**SMTP client**

- A relay over implicit TLS always fails: the greeting is followed by a STARTTLS that no such
  server offers (`client.rs:568`).
- For the same `map_resolve_error`, the fallback to the domain's own address (`mx.rs:579`) is
  never reached, and one exchanger without an address fails the whole lookup (`mx.rs:660`).
- Any 2yz at the greeting, HELO, DATA, STARTTLS or the second EHLO that is not the one expected
  counts as *delivered*, contrary to `client.rs:19`; 1yz and 3yz count as refusals.
  (`VerdictIsHeard` names both.)
- The session timeout during QUIT makes an accepted message temporary (`client.rs:650`), and a
  null MX puts mail off instead of bouncing it; DNS errors are cached and never served from the
  cache.
- A reply with a multi-byte character across its third or fourth byte ends the worker's task
  (`split_reply`, `client.rs:927`), against "Never returns `Err`" (`client.rs:411`).

**Read, not modelled**

- ACME installs the certificate atomically and then the key, not atomically (`acme.rs:2151`, against
  its comment at 2147); renewal looks only at the expiry; a pair that does not match fails the
  start even where a self-signed fallback exists (`tls.rs:136`); `acme-renew` on the command line
  shares no lock with the server. A backup import checks the data directories after it has
  restored the database (`backup.rs:1603`).

## 17. What is not modelled

Of the modelled components: batches over several accounts, folder rename and deletion inside
`MessageStore` (their effect on sessions is in `ImapSession`), `MessagesRepository::expunge`, whose
one caller (`MessageService::expunge_folder`) nothing calls, and the branches of the IMAP session
without a `SyncService`, which `server/src/listeners.rs:234` always gives it; the login throttle by
address, the minting and revoking of application passwords, and session expiry;
`allow_cleartext_auth` of the SMTP client, which no constructor of the server sets;
the command and message windows of a connection and the block list's cache; the DNS cache, which
only saves lookups; the contents of bodies, payloads and answers; parsing, macros,
canonicalisation and cryptography of SPF, DKIM and DMARC, and the Authentication-Results header.
PostgreSQL is READ COMMITTED with row locks, foreign-key locks, one snapshot per statement and a
deadlock detector; its own crash loses nothing committed.

Not modelled at all, with the reason in PROJECT.json: core types and configuration, MIME and
addresses, the IMAP parser and the rendering of FETCH and SEARCH, which are sequential functions
over bytes and better served by the repository's tests; REST, JMAP and admin routes as such (what
they do to the queue, the journal, the store and accounts are actions of those modules); contacts,
audit log and settings, which are single statements; ACME, TLS reload and backups, which an
operator drives one at a time; the front ends, schema and scripts. The map therefore covers about
a tenth of the implementation's lines: the tenth in which order matters.
