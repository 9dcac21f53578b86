# Verification of pages_to_rgb

`pages_to_rgb` (historically *Pages to Audio*) photographs a multiple choice
exam with an ESP32 camera, ships the frames through an Android gateway to a
FastAPI server, processes them in a Temporal workflow (OCR, reconstruction,
solving, two quality gates), and plays the validated answers back as a sequence
of colours on an RGB lamp of the device. This directory holds TLA+ models of
the parts of it that are hard to get right, TLC runs that check them on small
instances, and TLAPS proofs of the core for every value of its constants.

Paths below are those of the repository. Line numbers are given where a
statement depends on one line.

## 1. Inventory

### 1.1 The actors and the state they share

| Component | State it keeps | Operations | Talks to |
|---|---|---|---|
| **Session row** (`domain/state_machine.py`, `domain/enums/session_state.py`) | `sessions.status`, one of 26 states | `transition_session`: lock the row, validate, write, audit | every component below writes it |
| **Capture end** (`apps/api/routers/gateway.py:608`, `handwritten.py:441`) | session row, delivery row, `workflow_outbox` | end-signal: walk to `LOCKED`, mark the result as processing, enqueue the intent | outbox, delivery |
| **Outbox and dispatcher** (`capture/dispatcher.py`, `workflows/worker.py`, `workflows/starter.py`) | `workflow_outbox.status` | `enqueue`, `dispatch_pending` every 30 s, start by workflow id | Temporal |
| **Workflow** (`workflows/process_exam.py`, `workflows/activities/real.py`, `rgb.py`) | Temporal history; every activity opens its own transaction | 30 steps, two gates, publication, closing | session row, delivery |
| **Administrator** (`apps/api/routers/admin_sessions.py`) | audit events | cancel, retry from a stage, debug publish (`gateway.py:903`) | session row, delivery, Temporal |
| **RGB delivery** (`rgb/delivery.py`, `rgb/publisher.py`, `rgb/policy.py`) | `rgb_sequences`, `session_result_delivery` (one row, one cursor), `rgb_sequence_events` | mark, publish, cancel, record an event, snapshot | polled by the device |
| **Device commands** (`rgb/device_commands.py`, Kotlin `RgbCommandRepository`, `RgbCommandDao`, `EspBridgeService`) | `rgb_device_commands`, `..._events`; on the phone Room tables `pending_rgb_commands`, `rgb_command_cursors`, `rgb_event_outbox` | create, read, stop, expire, list, report; poll, persist, drain | cloud, phone, ESP |
| **Frame upload** (`capture/frame_upload.py`, `capture/orphans.py`) | `frames` rows, object storage, orphans | upload, complete a capture, reconcile orphans | gateway, storage |
| **Android spool** (`SpoolRepository`, `SpoolDao`, `UploadWorker`, `PhoneCameraCaptureSource`) | JPEGs, Room rows, unique upload work | shoot, save, enqueue, upload, acknowledge, delete | cloud, camera |
| **ESP bridge, frames** (`EspHttpServer`, `EspBridgeService`) | JPEGs of the ESP | take over a frame, answer 201 or 208 | ESP, spool |
| **Capture commands** (`capture/commands.py`, `end_detection.py`, Kotlin `CommandPollWorker`) | gateway commands and their acknowledgement; the cursor in the preferences | issue, poll, acknowledge | gateway, ESP |
| **Session start** (`gateway.py:180`, `handwritten.py`, `common/idempotency.py`) | rows of gateways, devices and sessions; snapshots in `sessions` | hello, heartbeat, start or resume, close | settings, profiles |
| **Camera profiles** (`camera_profiles/service.py`, `routers/camera_profiles.py`) | `camera_profile_revisions` by scope, one active | create a revision, resolve the one in force, create the default | session start |
| **Admin settings** (`admin/settings_service.py`) | one versioned row | read, update with an expected version, snapshot | session start |
| **Camera diagnostics** (`camera_diagnostics/service.py`, two routers, Kotlin `CameraDiagnosticsForwarder`, `DiagCloudApi`) | `camera_diagnostics`, their frames, objects; on the phone a job and a spool | create, claim, frame, preview, stop, stopped, expire, clean up | admin, gateway, ESP |
| **Android session state** (`SessionRepository`, `SessionViewModel`) | polling, bursts, the closing of a session | start, poll, capture, end | spool, cloud |
| **Knowledge base** (`routers/knowledge.py`, `rag/`) | documents, chunks with their vectors, originals in storage | create, deactivate, delete, reindex, search | embeddings, storage |
| **Page OCR** (`ocr/policy.py`, `ocr/providers/`) | circuit breakers in memory, bucket `ocr-raw` | `analyze_page` | Google, Azure, Paddle |
| **Question pipeline** (`ai/`, `llm/providers/gemini_provider.py`) | none that survives | `process_question` | OCR, Gemini |
| **Solver, verifier, arbiter** (`llm/`) | semaphores | `solve_question`, `verify_question`, `arbitrate_question`, `run_with_fallback` | Anthropic, DeepSeek |
| **Reconstruction** (`reconstruction/`) | the questions it returns | `reconstruct`, `validate_reconstruction`, `rescue_question` | a model |
| **Plan controller** (`scripts/plan_control.py`) | a JSON file and a dashboard | 11 commands, each a process | people, agents |
| **Audio, image and storage adapters**, **admin console** | files; none | I/O | - |

### 1.2 What is hard about them

* **Interleaving on one row.** A cancellation, a retry, the end of the capture
  and the activities of up to several workflow runs all write
  `sessions.status`. `transition_session` locks the row (`state_machine.py:207`),
  but the activities have loaded the session before, without a lock, and
  SQLAlchemy's identity map returns the entity it already holds (there is no
  `populate_existing`). What is validated is the *earlier* read.
* **Commit after the answer.** `get_uow` (`apps/api/dependencies.py:14`) commits
  when the dependency exits; with the FastAPI version of `uv.lock` this is after
  the response was sent. An acknowledged request may not be committed, and a
  workflow started by a handler runs before its request is.
* **At least once, anywhere.** The dispatcher may die between the start and the
  commit, an activity may commit and lose its report, a report of the phone may
  be stored and its acceptance lost. Every receiver must tell a repetition from
  news.
* **Activities that outlive their run.** Closing a run from outside does not
  stop a thread that is about to write.
* **A cursor that must name one thing.** The device is answered 204 whenever its
  cursor is current: a visible change that leaves the cursor alone is never seen.
* **The phone may be killed anywhere.** A frame is a file, a row and a unit of
  work, made in this order and unmade in another; WorkManager repeats what had
  not ended, coroutines are gone, and a preference written with `apply()` may be
  too. A command whose effect is not known to be complete is repeated, over the
  files of its first try.
* **Locks taken in several orders.** A start locks its gateway, its device and,
  to make a default profile, the scope of it; an end-signal its session and gateway;
  a cancellation its session, device and gateway; heartbeats and editors some of
  them.
* **A row that was read before its lock.** The handlers of the diagnostics lock a
  row they already hold; some refresh it, the administrator's do not.
* **Pure code with many boundaries.** The chunker, the confidence thresholds, the
  triggers of the arbiter and the checks of the reconstruction meet in cases that
  examples hardly reach; they are checked against what they are meant to keep.
* **Three copies of a command.** Cloud, phone and lamp each have their own idea
  of a manual command and different transition tables.

The list with source lines is `hazards` in `PROJECT.json`.

### 1.3 What makes each component correct

* Delivery: the announced revision can be downloaded; only the newest is
  playable; a device that is told "nothing new" is right; a final result never
  falls back to "processing"; a cancellation fences off publication; events are
  applied exactly once; every result is seen or replaced by a later one.
* Session: the status moves along `ALLOWED_TRANSITIONS`; no state behind a gate
  without the gate; no session is processed without a durable intent; no session
  ends before its result; cancellation is shown to the device and is durable.
* Device commands: at most one test per device; no claim without a report; no
  command skipped by the cursor; what is over stays over; the device is freed.
* Frames: a row has its original, byte for byte; what was confirmed is recorded;
  an original is never overwritten; no frame is counted twice.
* Spool: what is acknowledged, and so deleted, is in the cloud; a command the
  cursor has passed has its effect; a registered frame of the ESP keeps its
  file; the backlog is limited; a session is closed with the frames of its commands in the cloud.
* Session start: requests never block each other for ever; a session belongs to the phone and device
  that asked; what it is bound to was committed.
* Settings and profiles: no update undoes one its editor had not seen; one
  revision of a scope is active, the newest.
* Diagnostics: one at a time accepts frames; a frame that was acknowledged is in
  the bucket, and in the database if its transaction was committed; the camera is always freed.
* Knowledge: an active document has all its chunks and its original; no word of a
  text is lost by the chunker, and no table or heading is cut or mixed; a search shows documents that were active.
* OCR and answers: a provider that is down is left alone; no answer of one is
  lost; doubt leads to a review, disagreement to the arbiter.
* Reconstruction: what is ready is complete, unambiguous, and the first of its number.
* Plan controller: gates are completed in order, with their evidence.
* Acknowledgement of capture commands (planned): one effect per command.

## 2. Modules

| Module | Models | Size of its state |
|---|---|---|
| `ResultDelivery` | delivery row, revisions, event log and the polling device of one session | 7 variables |
| `MCResultDelivery` | its model-checking instance (symmetry) | |
| `ResultDelivery_proofs` | its theorems | |
| `SessionMachine` | the abstract specification: what `domain/state_machine.py` promises of one status | 1 variable |
| `ProcessExam` | capture end, outbox, dispatcher, workflow runs, activities, cancellation, retry of one session | 12 variables |
| `MCProcessExam` | its model-checking instance (a constraint) | |
| `ProcessExam_proofs` | its theorems | |
| `CommandLease` | the abstract specification: manual tests as leases of one device | 2 variables |
| `DeviceCommands` | manual commands of one device in the cloud, on the phone and in the outbox | 10 variables |
| `DeviceCommands_proofs` | its theorems | |
| `FrameLedger` | the abstract specification: what the cloud promises about the JPEGs of a session | 2 variables |
| `FrameUpload` | uploads, end of the capture and reconciliation of one session, between object storage and database | 10 variables |
| `FrameUpload_proofs` | its theorems | |
| `FrameSpool` | commands, bursts, spool and uploads of one session on the phone, with `FrameLedger` as its cloud | 15 variables |
| `MCFrameSpool` | its model-checking instance (a constraint) | |
| `FrameSpool_proofs` | its theorems | |
| `CameraDiagnostics` | the diagnostics of one device, in the cloud, on its phones and in the bucket | 8 variables |
| `MCCameraDiagnostics` | the plans its run explores | |
| `CameraDiagnostics_proofs` | its theorems | |
| `SessionStart` | requests of phones, editors of settings and profiles, and their locks | 12 variables |
| `MCSessionStart` | the scenes its run explores | |
| `SessionStart_proofs` | its theorems | |
| `Knowledge` | chunker, documents, requests and searches | 5 variables |
| `PageOcr` | pages, two providers, their breakers | 4 variables |
| `QuestionPipeline` | one question through OCR, review and solution | 7 variables |
| `Answering` | questions, three roles, two providers | 2 variables |
| `Reconstruction` | the questions a model reads and their checks | 3 variables |
| `PlanControl` | the plan's file, its dashboard, commands under way | 3 variables |
| `MCParts` | the sum of the last six, which share nothing | 1 more variable |
| `Parts_proofs` | theorems about each of the six | |

Operators under a comment that begins with "Mutant" are plausible bugs of the
definition that follows them. No specification uses them: they show that each
property really depends on the code it is about.

### 2.1 ResultDelivery

| Code | Model |
|---|---|
| `sessions.status = CANCELLED` | `cancelled` |
| `rgb_sequences` by revision | `latest`, `seq[r]` (status, answers, `next_index`) |
| `session_result_delivery` | `delivery` (command, cursor, active revision, reason) |
| `rgb_sequence_events` | `log` |
| the last answer of `GET .../result` the device got | `client` |
| the session entity the debug endpoint loaded | `debug` |
| `get_or_create_delivery` | `Advance`: the cursor moves exactly when a visible column does |
| `mark_result_processing` | `MarkProcessing` |
| `cancel_session` | `Cancel` |
| `publish_rgb_for_session` | `Publish` = cancelled, disabled, refused, reuse, new |
| the workflow's call of it; the debug endpoint's | `WorkflowPublish`; `DebugLoad` then `DebugPublish` |
| `record_rgb_event` | `RecordEvent` guarded by `Acceptable` |
| `result_snapshot`, `get_result` | `Snapshot`, `Poll` |

One action is one transaction. All of them lock the rows they share, so they
are serialised; a refused request is rolled back and is no step. Answers are
model values: equality of their hash is equality of the values. Sessions,
devices, profiles and colours are left out: a row belongs to one session, and
no guard above compares another one.

In this module a cancelled session stays cancelled. That the workflow may
overwrite the cancellation is modelled in `ProcessExam`.

### 2.2 SessionMachine and ProcessExam

`SessionMachine` is the abstract specification: `ALLOWED_TRANSITIONS` and the
walk to `LOCKED` within one transaction. `ProcessExam` instantiates it and the
property `LegalTransitions == Machine!Spec` says that it implements it
(`status` maps to `status`).

| Code | Model |
|---|---|
| `sessions.status`, committed; `session_type` | `status`, `type` |
| `workflow_outbox.status`; the dispatcher between start and commit | `outbox`, `dispatching` |
| the last Temporal run of each workflow id: its next step, `gate2_passed` | `runs` |
| the status an activity has loaded and the target it will write | `attempt` |
| the same for an activity whose run is closed | `orphans` |
| the transaction of an HTTP request that has not committed | `tx` |
| the command of the delivery row | `delivery` |
| idempotency keys with an `ADMIN_SESSION_RETRY` audit event | `retried` |
| which request last wrote CANCELLED (history) | `cancelledBy` |
| which gates some evaluation found passed (history) | `passed` |

The program of the workflow is the function `Straight` and the operator
`StepAfter`; each activity is an action at its step. `advance_session_state` and
`complete_session` are two actions, `LoadSession` and `WriteSession`, with
everything else possible in between: this is where the stale read lives.
`Report` may lose the report of an activity, `FailRun` closes a run whose
activity failed by itself, `GiveUp` one whose activity cannot succeed on this
session, `Orphan` lets an activity write after its run is closed. The two
capture ends differ: `EndSignal` is one transaction, `HandwrittenEndSignal`
sends the intent to Temporal from inside its open one, so that the run starts
before, or without, the commit. `CancelSession` requests the cancellation of the
main workflow before it commits; `RetrySession` starts a run under an id made
from its key, and may ask for any stage `ALLOWED_TRANSITIONS` has behind
FAILED_RECOVERABLE, CANCELLED among them: that request cancels the session and
leaves its delivery alone.

What OCR, reconstruction and the solvers find out is one nondeterministic
outcome of each gate. `validate_final_audio` always answers `valid = False` in
this code, so `READY` is never reached and the branch behind a valid audio is
not in the program.

### 2.3 CommandLease and DeviceCommands

| Code | Model |
|---|---|
| `rgb_device_commands.status`, `expires_at` passed | `cloud`, `overdue` |
| `rgb_device_command_events` | `accepted` |
| an open `rgb_sequences` row of the device | `sequence` |
| an answer to `GET .../rgb-commands` under way | `page` |
| `rgb_command_cursors` | `cursor` |
| `pending_rgb_commands.status` | `phone` |
| `rgb_event_outbox`; those without `sentAt` | `recorded`; `outbox` |
| `_expire_overdue`, called first by create, read, stop and report | `Expired` inside those actions |
| `_next_status`; `isAllowedTransition` of the phone | `NextFrom`; `LocalNext` |
| `persistCloudPage` | `PersistPage`: `INSERT OR IGNORE`, so a stored command is never updated |
| `recordLocalEvent`, `drainEvents`, `record_event` | `RecordLocalEvent`, `DrainEvent`, `RecordEvent` |

Commands are numbered in the order of `queued_at`. The ESP is outside the
repository: it may make any of the reports in `EspEvents` that the phone takes,
about the command it is shown. The cursor has the resolution of a millisecond,
which `PollCommands` models by listing from the cursor or from behind it. A
`DrainEvent` posts any of the oldest `DrainLimit` reports: the drain of the code
goes through them in order and continues after a failure, so any of them may be
the next that arrives.

`CommandLease` is what remains for somebody who looks at the lamp: leases are granted
one after the other, each only when no other is held or the one that is held lapses;
a lease moves by one step (forwarded, received, applied, off) on a report of the
device; once stopped it is held until the lamp is reported off, and a lease that is
over stays over. There are no cursors, pages, outboxes or deadlines in it.
`KeepsLease` says that `DeviceCommands` implements it (`lease` maps to `cloud`,
`reported` to `recorded`). It contains the exclusion of two tests.

### 2.4 FrameLedger and FrameUpload

`FrameLedger` says of a slot (a capture and a frame index) that the first content
kept is the only one, and that a content is confirmed only once it is kept. The
phone deletes its JPEG on that word. `KeepsLedger` says that `FrameUpload`
implements it (`ledger` maps to `objects`).

| Code | Model |
|---|---|
| `sessions.status` open for uploads, or LOCKED | `status` |
| `captures.status`, `received_frames` | `capture`, `received` |
| `frames` by slot, with their hash | `frames` |
| bucket `pages-originals` | `objects` |
| `storage_orphans` without `resolved_at` | `orphans` |
| a request to `POST .../frame`: read, stored, or answered and not committed | `request` |
| the orphan `reconcile` has read, with the counter it saw | `recon` |
| slots and contents answered 2xx; slots whose commit failed after that | `confirmed`, `undone` (history) |
| `upload_frame_gateway` up to the call, `upload_frame` | `Load`; `Duplicate`, `Store`, `Refuse`, `Abort`, `Answer` |
| the exit of `get_uow` | `Commit`, `CommitFails` |
| `capture_complete`, `end_signal` | `CaptureComplete`, `EndSignal` |
| `reconcile` | `Resolve`, `ReadOrphan`, `LinkOrphan`, `LinkFails` |

`Load` is apart from the rest because the status it reads is the one the upload
is judged by. Contents are model values that stand for a hash and its bytes;
validation of the image is a way to `Refuse`. `Store` covers the write and its
reconciliation with an object that an earlier try left. The OCR derivative is a
step that may fail (`Abort`). `reconcile` commits its batch at once; here each
orphan is a transaction, the finer grain, and `LinkFails` is the rollback. The
end of the capture goes from CAPTURING to LOCKED in one transaction, so the open
states between are not seen.

### 2.5 FrameSpool

The cloud of this module is `FrameLedger`, which `FrameUpload` implements: it may
keep a content, confirm it, and refuse anything for any reason.

| Code | Model |
|---|---|
| `captureSourceLabel` of the session | `source` |
| `sessions.status`; `gateway_commands` by cursor | `session`; `commands` |
| originals in storage; uploads answered 2xx | `ledger`; `confirmed` (of `FrameLedger`) |
| polling, `isEndingSession`, after the drain, not polling, ended, no process | `ui`: polling, closing, signalling, idle, ended, off |
| the cursor, also in the preferences `cmd_cursor` | `cursor` |
| the coroutine of `handleServerCapture`, one of `captureManual` for every press, a request in `deviceFrame` | `burst[Command]`, `burst[c]` for `c \in Manual`, `burst[Bridge]`: program counter, capture, index, hash, frames saved |
| an insert or enqueue under way in a coroutine that was cancelled | `detached` |
| `{captureId}_{frameIndex}.jpg` | `file` |
| `pending_frames`: hash, `ack`, `attempts` | `row` |
| unique work `upload-...` | `work`: none, queued, posting, accepted (2xx received), acked (row marked) |
| frames the ESP was answered 201 or 208 for | `owned` (history) |
| frames registered by a cancelled burst since the spool was found empty; the most pages that ever stood between check and insert | `late`; `together` (history) |
| `next_persistent_command`, `startPolling` | `PollCommand`, `NextCursor`, `Desired` |
| `capture` and `takePictureAndProcess` | `Shoot` |
| `save` up to the insert; the insert; `enqueueUpload` | `Check`; `Insert`; `Enqueue` |
| end of `handleServerCapture`; of `captureManual` | `CompleteCommand`; `CompleteButton` |
| `UploadWorker.doWork` | `BeginUpload`, `CloudKeeps`, `CloudConfirms`, `Rejected`, `Retried`, `Acknowledge`, `DeleteFile` |
| `reenqueueAllPending` | `ReenqueueAllPending` |
| `endSession`, `awaitSpoolDrain`, `endSignal` | `EndSession`, then perhaps `InsertDetached` or `EnqueueDetached`; `AwaitSpoolDrain`, `EndSignal` |
| the process is killed; the app is opened again | `Die`; `Resume` |
| `deviceFrame` | `EspFrame`, `EspVerify`, then `Check`, `Insert`, `Enqueue`, `EspAnswer`; `EspDuplicate` |

An action ends where the code suspends or writes to something that survives the
process: file, row and work are three actions, in the order of the code. `saved`
is the local `allOk` with its history: `allOk` is `saved = Indexes`. `Shoot` writes
over whatever file the slot has, because `takePicture` does; a worker that reads
the body at the same time (`CloudKeeps`, `CloudConfirms`) is refused by the cloud
unless the bytes still have the announced hash.

A command that is repeated for one cursor names the same captures: `Captures` up
to `MaxCursor` are those of commands, the others those of the button. A press makes
a capture of its own (`captureManual` launches a coroutine each time and the button
stays enabled), so that any number of bursts of the button run beside each other and
beside the one of the command.

`stopPolling` cancels the burst of the command and does not wait for it. What has
been handed over is not recalled: an insert may commit in Room behind the
cancellation, an enqueue may reach WorkManager (`detached`). A save that was only
checking ends at its next suspension. The picture that is being taken then is written
at once, in `EndSession`, or not at all. The ESP is outside the repository: it sends one frame at a time and
repeats one until it is answered 201 or 208. Every frame of the ESP has the one
content `EspJpeg` on its card; other contents are what a transmission makes of it.

Left out: the commands PAUSE, RESUME, PING and CAPTURE_PROBE (a full capture with one
frame), the acknowledgement of a command (`ack_command` writes a status nothing
reads), uploads of diagnostics, the pruning of old rows, and a second session beside
this one (only the page limit counts them together).

### 2.6 CameraDiagnostics

| Code | Model |
|---|---|
| `camera_diagnostics` | `diag`: status, owner, `expires_at` passed (`late`), bytes, last frame, clip |
| `camera_diagnostic_frames`; objects by key | `rows`; `store` |
| a request that has loaded its row | `call`, with what it saw |
| the forwarder's job; its files and Room rows | `phone`; `spool` |
| frames whose transaction failed behind its 2xx (history) | `undone` |
| `create`, `pending`, `expire_stale` | `Create`, `PollPending`, `ExpireStale` |
| `claim`, `stopped`, `ack` of a gateway | `Claim`, `Stopped`, `Ack` |
| frames and previews of a gateway | `HandleFrame` over `Ingest` (duplicate, conflict, quota, storage, row) |
| the administrator's stop; relay of the bench; clean-up; retention | `LoadStop`, `Stop`; `LoadRelay`, `Relay`; `Cleanup`; `Retention` |
| start, stop, death of the forwarder; its uploads | `StartJob`, `StopJob`, `Kill`; `DeviceFrame`, `UploadFrame`, `DevicePreview` |
| an answer, or a request, that is lost | `Lose` |

`SELECT ... FOR UPDATE` does not refresh an entity the session holds: the model
keeps what `Load` saw and uses it wherever the handler does not call `refresh`.
Every 2xx leaves before `get_uow` commits: in `Claim`, `HandleFrame` and `Relay` the
answer may arrive and the rows stay as they were, with the object already in storage.
Two gateways that claim one diagnostic are the `owner` a request has seen; the run
has one gateway, with two there are more than six million states. The phone's
own deadline ends a job as `StopJob` does.

### 2.7 SessionStart

| Code | Model |
|---|---|
| rows of gateways and devices | `registered` |
| `sessions`, each with its snapshots | `sessions` |
| requests under way, with the locks they hold | `req`: locking, resolve, scope, commit |
| `admin_settings`; the form of a browser; a PUT behind its lock | `settings`; `form`; `editing` |
| `camera_profile_revisions`; a POST behind its lock | `profiles`; `creating` |
| settings ever in force; what accepted PUTs had loaded | `published`, `accepted` (history) |
| `SELECT ... FOR UPDATE` in the order of the handler | `LockOrder`, `TakeLock` |
| `end_signal`; `cancel_session` and `retry_session`, as far as they lock and close | requests of the kinds END and CANCEL, `End` in `Resolve` |
| resumption by hint, by device; a new session | `Resumable`, `Resume`, `Create` in `Resolve` |
| `ensure_default_profile` under its advisory lock | `TakeScope` |
| `update_admin_settings`, its answer, the exit of `get_uow` | `BeginUpdate`, `AnswerUpdate`, `CommitUpdate` or `FailUpdate` |
| `create_profile_revision` | `BeginRevision`, `CommitRevision` or `FailRevision` |

A lock is held up to the commit or roll-back. A statement that locks a join takes its
rows in the order of the tables it names: `end_signal` its session, then its gateway
(`gateway.py:614`), `_session_binding` the session, the device, the gateway
(`admin_sessions.py:137`). The answer of a PUT reaches the browser, or does not,
before its commit, which may fail; the form then holds a version of which nobody
knows whether it came into force. Profiles are those of one camera mode. A behaviour belongs to a *scene* that says who takes part.

### 2.8 Knowledge

`ChunkText` is `chunk_text`: lines become blocks (`ExtractBlocks`), blocks are
collected up to `ChunkSize`, cut by sentences and words above it, and the overlap
is carried on. A text is a sequence of lines, a line a kind (`LineKinds`) and a
sequence of sentences, a sentence a sequence of words, each of a number of characters
(`Chars`). `Tokens` counts as `_approx_tokens` does, a quarter of the characters and at
least one, of a text with its blanks; words are counted one by one where the code does
(`TokensOfEach`). The overlap is in words where blocks are collected (line 260) and
words cut (line 290), and four characters for each of them where sentences are (line
302), which may begin in the middle of a word: `LastChars` keeps the whole ones. A word
is told apart by its place in the text, so that nothing is equal by accident.
`TextIsKept` says what the chunks have of the text: every word, for the first time in
the order of the text, and each table and heading as a chunk of its own with words in no
other. It says nothing of the length of a chunk: no bound on it holds (section 5). The
requests (`Extract`, `Deduplicate`, `Store`, `CommitDocument`;
`ReadChunks`, `Update`, `CommitChunks`; `RemoveDocument`) interleave with a search,
whose two queries (`FullText`, `Vector`) see the rows at two times and whose
rankings are any of those the query can have; `Fuse` is the reciprocal rank fusion:
of two chunks the one with the greater sum of shares is before the other, and with
equal sums the one that was inserted first (`Before`).

### 2.9 PageOcr

One event loop: what lies between two awaits is one step. `Opened` and `IsOpen` are
the breaker, with times as ages in ticks; `AnalyzePage`, `PrimaryFails`,
`PrimaryResponds`, `Persist`, `FallbackAnswers` and `FallbackFails` are the policy.
Confidence is low or high. A page may be analysed again; the object of its earlier
analysis counts only once it is written again.

### 2.10 QuestionPipeline and Answering

`QuestionPipeline` follows `process_question`: `Recognize` decides by the worst
span among those that have a confidence, and by the page if none has one (`Judged`);
`Reconcile` by what the review says, or, of an adapter that returns a text and flags
alone (`TextAlone`), by the score the OCR had; `Solve` checks the letter. Scores are
percentages, 0 also that of a span without one; texts are critical or not. `Answering` has a solver, a verifier and
an arbiter for each question; `Pose`, `Acquire`, the answers and failures of both
providers follow `run_with_fallback` with its retries, and `NeedsArbiter` is
`should_arbitrate`, which looks at the flags of both, at `needs_visual_recheck` of the
solver and at the status "uncertain" of the verifier, but not at "ambiguous"
(`Statuses`, `LooksAgain`). The steps are in the order of the workflow, whose activities for
them are stubs in this commit: the functions are there, and nothing calls them.

### 2.11 Reconstruction

`WellFormed` is the schema, `Rated` and `Marks` what the two passes of
`validate_reconstruction` and `_validate_single` leave of a question; `Report`
counts. `ReadyIsSound` compares it with what the model said. `rescue.py` is not
modelled: nothing calls `rescue_question`, its strategies are stubs that fail, merging
a result (`rescue.py:140`) is never reached, and so no question changes by it.

### 2.12 PlanControl

A command reads the file and decides (`InitPlan`, `Verify`, `Start`, `Evidence`,
`Complete`, `Block`, `Unblock`, `SyncPlan`), replaces it (`Save`) and then the
dashboard (`Render`), and may be killed in between (`Killed`). There is no lock, and
two run at a time. Of evidence only the kinds matter, of blockers how many are open.
A gate that has reached its target status has the status "target"; `sync-plan`
also rewrites targets and requirements from `DEFINITIONS`, which are taken to be
those the earlier controller had.

## 3. Runs

| Run | Expect | Asks |
|---|---|---|
| `ResultDelivery_safety` | pass | two answer sets, two revisions, both publishers, the feature switch on and off: consistency of row, revisions and device |
| `ResultDelivery_device` | pass | two keys and no key, two items, without the debug endpoint: event accounting, the cancellation fence, and every result reaches the device |
| `ProcessExam_safety` | pass | both kinds of sessions, every fault, an activity behind the end of its run, or a retry from three stages or into CANCELLED beside the main run, cancellation, dispatcher crashes |
| `ProcessExam_machine` | pass | two retries, no faults: refinement of `SessionMachine`, and the end is reached |
| `ProcessExam_revival` | violation | is a cancellation durable? |
| `DeviceCommands_safety` | pass | two commands, every fault, an ESP that may fail: refinement of `CommandLease`, physical proof, the cursor of the phone |
| `DeviceCommands_live` | pass | the outbox keeps what the cloud does not have; the device is freed |
| `FrameUpload_safety` | pass | two uploads at a time, two contents, two indexes, every failure between storage and commit, end of the capture, reconciliation; refinement of `FrameLedger` |
| `FrameSpool_safety` | pass | a command of two frames, two contents, or with its first frame beside two captures of the button, or cancelled in the middle of an insert, or the frames of an ESP; every failure of an upload, kills and a lost preference: acknowledgement, effect of a command, possession, backlog and drain |
| `CameraDiagnostics_run` | pass | a diagnostic of each mode beside another, a phone, the bench, the administrator, everything that can be lost, the commit behind a 2xx included: exclusion, frames, and the camera is freed |
| `SessionStart_run` | pass | eight scenes of one to three requests, ends and cancellations among them, and two administrators: settings, profiles, what a session is bound to, and every request ends unless a cancellation closes a circle |
| `Parts_run` | pass | the six modules of `MCParts`, each behaviour in one of them |

Deadlock is not checked: all systems legitimately stop (a session ends, a bound
of the model is reached, an ESP makes no more reports, every frame is uploaded).

### 3.1 Bounds and why they are enough

* **Two revisions, two answer sets** are the least with which a publication can
  supersede, reuse an older revision that is still alive, or reuse one that
  completed. The revision before last can only be closed, which the proof of
  `LatestOpen` shows for any number.
* **`MaxCursor` 4**: processing, a sequence, a cancellation and one more result.
  A publication of an already announced sequence needs one value, from a
  cancellation two.
* **Two items** distinguish `next_index` zero, in the middle and at the end.
* **Two keys and `NoKey`**: reuse of a key, a new key for an old event, no key.
  The delivery of a sequence to the device and the accounting of its events do
  not depend on a second revision, which is why `ResultDelivery_device` has one.
* **Retry stages** `IMAGE_PROCESSING`, `SOLVING`, `AUDIO_ASSEMBLING`, `CANCELLED`:
  the only one the restarted workflow can continue from, one behind gate 1, one behind
  gate 2, and the one that ends the session. One key with every fault; two keys without, in `ProcessExam_machine`,
  since a second retry needs a first that failed recoverably.
* **`MaxOrphans` 1**: what is still to be written is independent of a second one.
  The constraint of `MCProcessExam` explores a handwritten session, and an activity
  behind the end of its run, without a retry beside them; the proofs have no bound.
* **Two commands** for exclusion and the cursor. Finality, proof and the outbox
  speak of one command at a time.
* **One capture, two indexes, two contents, two uploads**: equal and different
  contents for one slot, two slots of one counter, one upload behind another. A
  third upload would wait behind the same lock; captures only share the session.
* **`FrameSpool_safety`**: one command, because slots of different commands share
  only the cursor; two frames, so that one can be saved and the other not; two
  contents, so that a shot differs from the one before. One page allowed, so that
  the command and two presses of the button pass the limit together (three pages, the
  most `PagesBounded` allows here), and one attempt for a worker at its limit. The
  constraint of `MCFrameSpool` explores the button only beside the first frame of the
  command, with one content and a second picture that fails, a cancelled burst that
  goes on only with one content and without a second press, and a second press only
  while the session captures and up to the end of its first frame. The proofs have none
  of these bounds. The fault "commit", a row lost behind its answer, is left to the
  proof, and so is a second command.
* **`CameraDiagnostics_run`**: two diagnostics are enough for one to be written over
  beside a newer one; two indexes and two contents for duplicates and conflicts, the
  bench posting a content of its own at an index of the phone.
* **`SessionStart_run`**: two connections hold locks against each other, also a start
  and a cancellation, which close a circle, and an end; three requests of one phone, so
  that a session is closed, and hinted at, in between; a third editor would wait behind the same row.
* **`Parts_run`**: texts of up to three lines of every kind with chunks of two tokens,
  words of one token, two, and more than a chunk has, and an overlap of one, so that every branch of the chunker meets every other; one
  document beside a search, a removal or a reindexing. Two pages, a threshold of two
  and four remembered failures. Scores on both sides
  of every threshold, and 0. Two
  retries and one call at a time for each provider. All pairs of questions of a
  reconstruction, all triples of their numbers. Two gates and an absorbed one, two
  commands at a time, two blockers.
* `DrainLimit` is the 20 of `drainEvents` in every run: two commands make fewer
  reports than that, so no run fills the drain. See 5.

### 3.2 Fairness

* `ResultDelivery`: weak fairness of `Poll`. The firmware polls for as long as a
  session exists; nothing else is assumed, in particular not that anybody
  publishes.
* `ProcessExam`: weak fairness of the commit of an open request, of the
  dispatcher (`worker.py` loops every 30 s) and of its commit, and of giving up
  on or repeating a refused attempt (Temporal's retry policy, `policies.py:44`).
  Activities have strong fairness: they wait for a row lock that requests keep
  taking, and PostgreSQL grants it to its waiters in turn. `ExamFinishes` is
  claimed for `Faults = {}` only: see 5 for what a failing activity leaves.
* `CameraDiagnostics`: weak fairness of the gateway's poll, of the expiry it and the
  administrator's list trigger, and of time: nothing else is assumed of phones.
* `SessionStart`: a request that has its locks goes on and commits; a lock that is
  free again and again is taken (PostgreSQL queues who waits). That the deadlock
  detector aborts one of a circle is `RollBack`, on which nothing rests: `RequestsEnd`
  excepts the circles with a cancellation in them. Nothing is assumed of browsers but
  that a transaction ends.
* `Knowledge`, `PageOcr`, `QuestionPipeline`, `Answering`, `Reconstruction`,
  `PlanControl`: none; their properties are safety.
* `FrameUpload`, `FrameSpool`: none. Their properties are safety; that a spool
  drains cannot be promised, see 5.
* `DeviceCommands`: weak fairness of polling, of storing a page, of time and of
  *some* report of the ESP on the command it is shown (the bridge service loops
  every 5 s), strong fairness of posting each report, because a drain tries
  every report it reads although which of them the cloud takes changes. The ESP
  must eventually report something but chooses what. Nothing is assumed of the
  administrator.

## 4. Proofs

`tlapm` checks every theorem. They hold for every value of the constants that
satisfies the named `ASSUME`s of the modules, which say that bounds are numbers,
that sentinels are not members of the sets they complete and that switches are
taken from the values the code knows. Three say more:

* `PlanAssumption`: no gate is in a list twice, and the gates of `DEFINITIONS` are
  among those of an earlier file, in the same order. `sync-plan` refuses a file that
  lacks one of them (`plan_control.py:327`) and otherwise keeps the state of each
  gate under its id; it does not look at their order, and a list that moved an open
  gate in front of a complete one would give a plan that was not worked through in
  order. `DEFINITIONS` and `ABSORBED_GATES` keep it.
* `OcrAssumption`: a finite set of pages, and a circuit that is half open after a
  positive time.
* `ReconstructionAssumption`: what the model reads is a sequence of questions with the
  fields of the schema.
* `KnowledgeAssumption`: a request is one of the operations of the router, a chunk has
  room for a word, and a text is a finite sequence of lines whose words are told apart
  by their places. The last is how words are represented and no limit on texts: the
  chunker never compares two words.

**ResultDelivery.** The safety properties are not inductive one by one. That a
cursor names one result (`CurrentClientIsRight`) needs that no step changes
what the announced revision looks like without moving the cursor. The dangerous
steps are the report of INVALID and the superseding by a new revision: the first
withdraws the announcement in the same transaction (`WithdrawStep`), the second
replaces it. That reuse announces a live revision needs `OnlyLatestOpen`, which
needs dense numbering (`Dense`). `Inv` is the conjunction with `ClientBehind`.
Above it: `NoRegression` and `CursorNames` (action properties), and `Fence`: if
the debug endpoint does not publish, a committed cancellation is never followed
by a sequence. The event accounting has an invariant of its own, `LogInv`: nothing
is stored about a revision that is not published yet, so that a new revision starts
with an empty log. From it `RowFromLog` and `OneCompletion`.

**ProcessExam.** The next status of a session is decided long before it is
written. `Inv` therefore asks of every place that holds a future status (the
committed row, a run's next step, an attempt that has read, an orphan, an open
request) that the session is licensed for it: the gates in `passed`, an intent in
the outbox, a final delivery. The three conditions only ever grow (`Grows`), so
that a licence stays good however late it is used; this is why stale reads cannot
break the gates although they can break the transition table. From it:
`GatesGuard`, `IntentKept`, `ResultFirst` and `CancelShownAlways`. The last holds
although a cancellation can be overwritten: a cancellation that makes the status
CANCELLED takes the delivery along, a retry that does so finds a final delivery, and no
step of a run takes a final delivery away from a cancelled session.

`MachineImplemented` is the refinement of `SessionMachine`, for `~MayCancel` and
`Faults = {}`: what the code validates is what an attempt has read, so it keeps to
the table only if nobody writes in between. `Solo` says why nobody does: the main
workflow is started once (`MainOnce`), what an open request will write follows from
the status as it is (`TxSolo`), one run is open, and none beside a session that
waits for a retry except the one whose retry has not committed (`OneRun`); hence
what an attempt has read is the status (`Fresh`). Both hypotheses matter: a
cancellation is overwritten (`ProcessExam_revival`), and a retry that is lost, a
dispatcher that dies or an activity behind the end of its run make a second writer
(section 5).

**DeviceCommands.** `Inv` follows a command down and its reports up: a page
under way has every command up to its cursor that still occupies the device and
that the phone lacks (`PageCovers`), and reports move in one direction, recorded,
pending, accepted, shown (`Reported`). From it: `Exclusion`, `Proven`,
`NothingSkipped`, `OverStays`, and, where no commit fails behind its answer,
`OutboxKept`.

`LeaseKept` is the refinement of `CommandLease`. A step of the cloud expires what is
overdue *and* does what it is for, and a step of the leases does one thing.
`ExpiresOne` and `HeldAlone` say why this fits: since one command at most occupies
the device, expiry changes one row at most, and a command that is still active after
the expiry is the only one, so nothing expired beside it; only a creation does both,
and that is what `Grant` allows. `Known` adds that the phone only has commands that
were created. `LeaseExcludes` proves that the leases imply `OneCommand`, so that the
refinement is worth at least the exclusion.

**FrameUpload.** `Inv` says what is held between two steps of an upload and of the
reconciliation: the one upload with the lock has its original in storage and no
frame yet (`OneHolder`, `HolderIsBacked`), and the orphan about to be linked has
its original, its capture, and a count that has only grown since it was read
(`LinkIsBacked`). From it: `FramesAreBacked`, `ConfirmedUploads`, `Counter`, and
the refinement `LedgerImplemented`.

**FrameSpool.** Two invariants, one on top of the other. `Inv` says what a worker
knows: work under way is about a known frame, a 2xx that was received is about
the content of the row, and a row marked is a row in the cloud (`WorkInv`); and who
may be at work on which slots (`BurstInv`): the bursts of the camera, one for each
press and one for the command, are of captures of their own, and the bridge has a
session without any of them. From it
`AckIsTrue`. `EffectInv` adds what a burst has done so far: the frames in `saved`
are durable (`BehindIndex`), the burst of a command is for the capture right behind
the cursor (`CommandInv`), and so no shot writes over a frame the cursor has passed
(`BehindCursor`). That is the only place where the file of a pending frame can be
lost, and why `EffectKept` needs `"commit" \notin Faults`: the cloud gives out the
next command from the rows it has, and a row that was lost behind its answer, with
an older cursor after a kill, makes it skip one, see 5.

Three more rest on `Inv`. A page that was counted by the check may be acknowledged
before the insert, so `PagesInv` bounds the pages that wait *together* with those
about to be inserted, a cancelled insert included (`Entering`). How many of these there
have been at a time is `together`, and the limit is exceeded by that number less one
(`BackpressureBound`). `DrainInv` says that the burst of a command has been cancelled
before the drain begins; what it still registers behind that is in `late`
(`DrainedAtEnd`). `EspInv` says that what the
bridge is about to register is the file it wrote, and that what it deletes after a
failed verification is not the file of a frame that waits (`EspFilesAreKept`).

**CameraDiagnostics.** `OneCamera` is kept because nothing but a creation makes a
diagnostic accept frames, and a creation finds every other one over or stale: a stop
or an expiry that writes over a row it read before may reopen it, but only as
STOPPING (`NoNewCamera`). The same makes `NotReopened` a theorem (`StaysClosed`): what
has been stopped or is over never accepts frames again. `FrameIsKept` needs to know that the request whose 2xx makes
the phone delete a file is about that file: `OnItsWay` says so of every request in
flight, `RowsInv` that a row has its object, and `AckedInv` joins the two: a frame whose
commit failed behind its 2xx has no row, but its object is in the bucket under its key
and is not written over, by a repetition, by the bench or by the retention, which
deletes the objects of rows (`InCloud`). From
them `Exclusion` and `NoFrameLost`.

**SessionStart.** What a transaction has read and not yet written has to be right
when it commits. For the settings that is `SettingsInv`: who edits has sent the current
version, alone, and what was in force and the snapshots make a history with one content
for each version. A form need not be of that history: it may hold an answer whose commit
failed, and then a version that another administrator has since given to something
else. `Versioned` therefore speaks of forms that were in force. For profiles `ProfileInv`: who holds the lock of a scope is alone
and knows its latest number, with the default of a first reader and an editor's
revision on the same lock. For requests `RequestInv`: the id is the request's own,
and the session it writes or answers is of its phone and device. From them
`Versioned`, `OneActive` and `Bound`.

Two more theorems are about the steps and the locks. `Binding`: no step changes what a
session is bound to, and a closed one is not opened again, although requests answer
rows they have read before. `Acyclic`: in no set of requests without a cancellation does
everyone wait for another of them. The locks are taken in stages (session, gateway,
device, scope), the requests of a set that hold the latest stage wait for nobody in it
(`WaitsAhead`); it is the safety half of `RequestsEnd`. A cancellation or a retry takes
the device before the gateway and is no part of this order, see 5.

**The six parts.** Each has its own specification in `Parts_proofs`, from its own
initial states.

* `Recognition`: failures are counted when they arrive, so the bound on the failures
  in a window has to count the pages *in flight* at that provider (`BreakerInv`): a
  closed circuit holds fewer than the threshold and every page under way may fail.
  `PageInv` says that a result that is kept for later is in the storage already.
* `Reviewed`: that the worst of the spans that count decides needs `Smallest`, the least element of a set
  of numbers, which is proved from the well-foundedness of strict inclusion.
* `Arbitrated`: `AskedInv` counts the failures of the provider before the one that is
  asked, `StageInv` says what has been given at each stage, and that an answer without
  the arbiter is one where none of its triggers holds. What triggers nothing, a
  verifier that is ambiguous by status alone or uncertain about a question that depends
  on no image, is in the property as the code has it, see 5.
* `Ready`: the paper is always `Validated(said)`, so that the property is about the
  checks as a function, for every sequence of questions.
* `ActiveDocuments`: a request that is about to commit has its original stored, and
  the chunks of an active document are there and of one run (`DocumentInv`,
  `RequestInv`).
* `DocumentText`: the chunks of every document are `ChunkText` of its text (`TextInv`),
  and `ChunksKeepText` is about that function, for every text, size and overlap. A
  cut in progress has in its chunks and parts, in this order, every word so far for the
  first time in the order of the text; every line, block, sentence and word keeps it so,
  the overlap because it only repeats the last words, whether they are counted in words
  or in characters, and never those of a table or a heading, which leaves nothing to be
  repeated. Lengths of words and what a token is do not matter for it, so that it holds
  for all of them.
  The folds are unfolded by one element; that a fold ends where every step leads
  is `UpTo`, proved by the least number that would be an exception (`Smallest`).
* `SearchAnswers`: what was inactive before a search began stays so while it runs
  (`SeenInv`), because a request that creates a document is the first to write it: no
  two have one number. The two rankings are of chunks that were active at their times,
  and the fusion loses this only if it finds something else: `ScoreFacts` and
  `Crosswise` show that `Before` is a strict order of fractions, total on what is
  ranked, `Sortable` that a finite set with such an order can be sorted, so that the
  fused list exists and has each chunk once (`FuseFacts`).
* `DocumentsKept`: no step changes the text or the words of a document or activates it
  again, although a reindexing writes over chunks it read long before (`DocumentsStay`).
* `PlanOrder`: a command that is about to write holds a plan that is in order
  (`ControlInv`), so it does not matter which of two commands writes last. What is
  lost this way is evidence, never the order.

**Proved and not run.** The types of the modules (`TypeCorrect`), `LatestOpen`,
`NoRegression`, `CursorNames`, `Exclusion`, `OverStays`, `FramesAreBacked`, `Acyclic`,
`Binding`, `StaysClosed` and `DocumentsKept` were checked while they were proved; the runs keep what
they do not imply (`OneCommand` is part of `KeepsLease`). TLC checked the inductive
invariants on the instances of the runs before they were proved.

**Model-checked only.** Liveness (`ResultReachesDevice`, `ExamFinishes`,
`DeviceFreed`, `CameraFreed`, `RequestsEnd`) is out of reach of the prover: it needs
fairness and ENABLED. Every other property of the passing runs is a theorem.

## 5. Where the code and its documents disagree

The violation run, with its counterexample in TLC's output:

* `ProcessExam_revival`: an activity in flight writes over CANCELLED, against
  `docs/contracts/INTEGRACAO_CONSOLIDADA_2026-09-09.md:70`, "Evento atrasado não
  ressuscita sessão cancelada."

These were met while modelling. No run states them; they bound what the passing
runs claim:

* The bridge answers 208 as soon as the file is there with its hash
  (`EspHttpServer.kt:363`). A request that was refused by the page limit, or killed
  behind the rename, leaves such a file without a row: nothing uploads it, and the
  ESP was told it is owned. The comment at line 360 promises "registro Room +
  reconciliação antes do ACK".

* A retry from a stage behind `IMAGE_PROCESSING` strands the session
  (`admin_sessions.py:435`): the workflow starts at its first step, whose
  transition that stage does not allow. `CODEX_EXECUTION_PLAN.md:494` speaks of
  an "estado de retomada permitido".
* A stop of a command the phone already has is never shown to the ESP
  (`RgbCommandDao.kt:18` ignores a row it has, and no page behind the cursor lists
  it). An ESP that ends by itself sends OFF. `RGB_DEVICE_COMMANDS_V1.md:35` has
  every active state go CANCELLED, then OFF.
* An upload that read the session before the capture ended adds a frame to the
  LOCKED session, against the comment at `capture/frame_upload.py:307`: the lock
  at line 201 returns the entity that `gateway.py:1069` loaded without one.
* A command is repeated over its own files. `capture-complete` is answered 404
  until the first upload of the capture commits, the cursor stays, and the next
  poll shoots the same slots again (`SessionViewModel.kt:510`). When the new picture
  replaces a file that is still pending, `save` refuses it and the worker finds
  another hash: the frame stays pending for ever and the session never drains.
  Nothing behind the cursor is lost, which is `EffectIsDurable`; the comment
  "sem captura duplicada" (`SessionViewModel.kt:581`) does not hold.
* A command that was issued is answered whatever the session has become
  (`commands.py:124`): STOP waits behind a capture that cannot complete any more,
  which the comment at `commands.py:5` excludes.
* `endSession` stops the polling but not `captureManual`: a capture of the button
  goes on during and behind the drain, against "nenhuma captura nova após
  drenagem" (`SessionViewModel.kt:379`). `CommandsAreDrained` speaks of commands.
  And `stopPolling` (line 623) cancels the burst of the command without waiting for
  it: an insert under way (`SpoolRepository.kt:98`) may commit behind a count of zero,
  so that the end-signal goes out with a registered frame of a command missing
  (`late`).
* `MAX_PENDING_PAGES` (`SpoolRepository.kt:47`) is checked before the insert, without a
  transaction (lines 70 and 98), and every press of the button is a coroutine of its own
  (`SessionViewModel.kt:427`, `SessionScreen.kt:235`): as many pages as pass the check
  together are all taken. The comment at line 67 has a new page rejected "when ten pages
  already await remote confirmation".
* A frame of a diagnostic that was answered 2xx, and so deleted by the phone, has no row
  when the commit fails behind the answer (`dependencies.py:14`,
  `gateway_diagnostics.py:213`); only its object is there, and nothing refers to it.
* A retry may ask for the stage CANCELLED (`admin_sessions.py:402` accepts what
  `state_machine.py:176` allows): the session is cancelled, the delivery keeps the final
  answer it had, and a run is started for it. `cancel_session` shows RESULT_CANCELLED.
* The answer of a PUT of the settings carries a version that is not committed yet
  (`settings_service.py:279`). If the commit fails, the browser goes on with it
  (`config/page.tsx:96`); once a second editor has committed an update, which has the
  same version, the first one's next PUT is accepted and overwrites an update its editor
  has not seen, against "Settings were changed by another request" (line 216).
* The administrator's cancellation and retry lock the device before the gateway
  (`admin_sessions.py:134`, in the order of the tables of the join), a start the gateway
  before the device (`gateway.py:191`): the two can wait for each other, and PostgreSQL
  aborts one. `RequestsEnd` and `Acyclic` except exactly this.
* A burst that is cancelled between the insert and `enqueueUpload` leaves a row
  without work until the network or the app comes back; a frame with 25 attempts
  stays pending for ever.
* A command row lost behind its answer (`dependencies.py:14`) and a lost cursor
  preference together make the cloud jump over a command of which not every
  frame was kept (`commands.py:130`). TLC finds it with three commands.
* The debug endpoint publishes behind a cancellation (`gateway.py:918`, the same
  stale entity), against `docs/contracts/INTEGRACAO_CONSOLIDADA_2026-09-09.md:81`;
  `CancelFence` is checked and proved where it does not publish.
* A FAILED report that arrives behind a stop is refused for ever and the device
  stays locked (`device_commands.py:315`); `RGB_DEVICE_COMMANDS_V1.md:35` has
  every cancelled command go OFF.
* The reconciliation links a frame to a session that is LOCKED or processed, and
  adds to a stale count (`capture/orphans.py:136`): `received_frames` may fall
  behind the frames in the database, which `gateway.py:1136` calls authoritative,
  until `capture-complete` counts again.
* After a failed flush the session entity is expired, and reading its id
  (`frame_upload.py:428`) may fail as well: then no orphan is recorded.

* `mark_result_processing` rewrites the reason of a cancelled delivery and uses
  up a cursor; its docstring says "entrega CANCELLED existente é preservada"
  (`delivery.py:253`).
* Publication supersedes a revision that is PLAYING;
  `INTEGRACAO_CONSOLIDADA_2026-09-09.md:81` says "Não substituir revisão ativa
  durante reprodução."
* The handwritten endpoint dispatches inside its transaction;
  `capture/dispatcher.py:43` says "Chamado por worker/cron após commit do LOCK."
* Exhausted activities leave the session in its processing state, where it can
  be neither cancelled nor retried; `state_machine.py:170` promises FAILED_FATAL
  for TTS.
* When the request of a retry is lost after its workflow was started, a second
  retry runs beside the first, and validation on stale reads lets the two leave
  `ALLOWED_TRANSITIONS`; the comment at `state_machine.py:203` rules this out.
* `_expire_overdue` expires RECEIVED and APPLIED commands too, and then refuses
  their OFF; `RGB_DEVICE_COMMANDS_V1.md:33` lists QUEUED and FORWARDED.
* A revision is published beside an active manual test;
  `PLANO_MESTRE_PRODUCAO_CAMERA_RGB_2026-09-09.md:744` says "Uma sequência real
  ativa cancela ou rejeita teste manual."
* A report the cloud refuses keeps its place among the 20 oldest: enough of them
  keep every later report from being sent (`RgbCommandRepository.kt:114`).
* `session/start` is not idempotent, against its docstring (`gateway.py:186`): a
  start whose answer was lost makes another session. A hint that is not found
  makes a new one with `allow_new_session` only, the comment at `gateway.py:301`
  says otherwise. A resumption does not ask for the type of the session.
* The UNIQUE constraint on profile revisions has a NULL device for the global scope,
  where it does not hold; the advisory lock is what keeps them numbered. The first
  GET of the settings creates their row with defaults of its own.
* The administrator's stop and the relay of the bench write over a row they read
  before its lock (`camera_diagnostics/service.py:211`,
  `admin_camera_diagnostics.py:341`): a finished diagnostic may be STOPPING again.
* No bound on the length of a chunk holds, although `chunk_size` reads like one
  (`rag/chunking.py:187`): the overlap is "`overlap` tokens' worth" by the comment at
  line 259 but as many *words* at lines 260 and 290, and four characters for each at line
  302; a word of more characters than a chunk has tokens for is a chunk by itself, and
  what is left of a large block joins an overlap that is no longer counted (line 308).
* Two uploads of one document may both find no other with its hash
  (`knowledge.py:220`, no UNIQUE). A document that was deactivated blocks its file
  for ever (409). A failed UPDATE of one chunk aborts the transaction, so that
  `chunks_failed` above zero is never committed. Originals are not deleted.
* `ocr/policy.py:55` announces a retry of Google before Azure; there is none. A
  circuit that is half open does not open again before a success. Azure posts an
  empty image (a TODO at `azure_document_intelligence.py:39`), and the key it
  announces for the raw response is never stored, like Paddle's.
* The prompt of Gemini has a review by a person below the limit of verification;
  `finalize_review` has it below 0.50. `final_decision.critical` forgets what the
  OCR said. The number of the question a solver returns is not compared with the
  one that was asked; an arbiter that finds a question unresolvable still
  names a letter, which counts.
* A span without a confidence has 0.0 (`google_document_ai.py:161`), and spans of 0 are
  not looked at (`question_pipeline.py:51`): beside a sure span a question with one whose
  confidence nobody knows is solved without review.
* A verifier that calls a question "ambiguous" by its status (`schemas.py:53`) triggers
  nothing in `should_arbitrate` (`arbiter.py:60`), nor does one that is "uncertain" where
  the question depends on no image: both are answered without the arbiter.
* A letter outside A to E is a failure of the schema (`schemas.py:27`) and so a technical
  one: it is asked for again, and then of the other provider. A letter from A to E that
  was not offered ends the question.
* `SEQUENCE_GAP` is marked at the first number behind a gap only (`validators.py:69`): of
  1, 3 and 4, question 4 is ready. The "persistent attempt counter" that `rescue.py:5`
  speaks of does not exist: `ctx.attempt_number` is read (line 84) and never written.
* The report of a reconstruction counts a question without text twice, as
  incomplete and as failed (`validators.py:93`), so that `total` may exceed the
  questions; a question the model itself misses becomes partial when its number is
  repeated (line 65).
* Two commands of the plan controller at a time may lose what the first has written
  (`plan_control.py:148`); killed behind the state, one leaves the old dashboard
  until `verify` is run. A blocked gate can be blocked again.

## 6. Not modelled, and why

* Image and audio processing, and what models and services answer: pure functions
  and external services; the modules take any outcome the code can receive.
* Ranking and embeddings of a search, token counts and prices of models: values.
* `Knowledge`, `PageOcr`, `Answering`, `QuestionPipeline` and `Reconstruction` are
  not composed with `ProcessExam`: in this commit the workflow's activities do not
  call them.
* The values of camera profiles, their ranges and the compilation for the sensor:
  tables without state.
* Authentication, rate limits, pagination, observability, the admin console:
  no protocol state of their own.
* The waiting inside PostgreSQL: an event locks the sequence before the
  delivery, a publication the delivery before the sequence. The database aborts
  one of two that wait for each other, and the aborted transaction is the step
  that does not happen.
* Two sessions sharing a device, two administrators' tokens, several gateways of
  one device: no guard of the modelled code relates two sessions, except
  `_active_sequence`, which `sequence` stands for.

## 7. Plan

In this order, each module with its runs, mutants and theorems:

1. `ResultDelivery`, `SessionMachine`, `ProcessExam`, `DeviceCommands`,
   `FrameLedger`, `FrameUpload`, `FrameSpool`: modelled, checked, proved.
2. `CameraDiagnostics`, `SessionStart`, `Knowledge`, `PageOcr`, `QuestionPipeline`,
   `Answering`, `Reconstruction`, `PlanControl`: modelled, checked, proved.
3. `CommandLease`, the leases that `DeviceCommands` implements: modelled, checked, proved.
4. `CaptureCommands`: the acknowledgement of gateway commands, the other pollers
   and phases, composed with the capture end.
5. A composition of `ProcessExam` and `ResultDelivery` sharing status and
   delivery, in which the fence is checked against stale activities.
