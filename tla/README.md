# VigiON in TLA+

Models, model-checking runs and machine-checked proofs for VigiON, a
multi-tenant service for monitoring cameras: an API (Express, Prisma, MariaDB),
a gateway agent that runs next to the cameras, and a web application. Every
definition is translated from the TypeScript source and the Prisma schema;
`PROJECT.json` ("map") names the lines each one stands for.

Contents: [the system](#1-the-system) · [what is modelled, and how](#2-the-modules) ·
[runs](#3-the-runs-and-what-they-show) · [fairness](#4-fairness) ·
[proofs](#5-what-is-proved) · [what is not covered](#6-what-is-not-modelled-or-not-proved) ·
[plan](#7-plan) · [running it](#8-running-the-checks)

## 1. The system

The API is stateless apart from its database, a directory of live media and an
object store. It may run as several processes; all its handlers `await` between
database statements, so they interleave, and a process may die anywhere. The
gateway polls the API for commands, acknowledges them, and posts events, health
and media. All its traffic is HTTP that it starts itself.

| component | state | operations | what makes it hard | what makes it correct |
|---|---|---|---|---|
| **live streaming, cloud** (`streams/`) | `StreamSession`, media directories | create, stop, cleanup worker, PUT of playlists, viewing | writes by id after a read; late uploads; removal of media after the transaction | the limit of concurrent sessions; ACTIVE means playable; every session ends; the gateway is told |
| **gateway command queue** (`gateways/gateway.service.ts`) | `GatewayCommand`, `GatewayMessage` | poll, redeliver, expire, acknowledge | lost responses and acknowledgements, redelivery, deduplication before the effect | an outcome is final; every command settles |
| **gateway agent, streaming** (`gateway/src/stream-manager.ts`, `index.ts`) | pipelines, viewers, index of sessions, batch, local queue | start, stop, exit of ffmpeg, upload, flush | redelivery, shared pipelines, failing starts, restarts | both indexes agree; no ffmpeg without viewers; the limit |
| **media assets** (`media/`) | `StorageFile`, bucket | request, upload, fail, remove, retention | database and bucket have no common transaction; late and repeated uploads; concurrent removals | what is charged fits what is stored; bytes are freed only with the object |
| **entitlements** (`billing/entitlement.service.ts`) | `StorageUsage`, `ResourceCounter` | reserve and release bytes, cameras, members | the reservation and the row it is for are separate | quotas hold; nothing is given back twice |
| **organizations and members** (`organizations/`) | `OrganizationMembership`, `OrganizationInvitation` | invite, resend, cancel, accept, change role or status, remove | checks and writes are separate statements; expiry; crashes between a row and its seat | seats match rows; an owner remains |
| **authentication and sessions** (`auth/`) | `User`, `Session`, one-time tokens, MFA | login, refresh, logout, reset | rotation races, reuse detection, revocation racing refresh | one live session per family; revocation is complete |
| **gateway claim, heartbeat** (`gateways/`) | `Gateway`, pairing code | claim, heartbeat, disabling, rotation, offline reconciliation | a gateway that comes back while it is reconciled, or is disabled while it beats | alerts tell its presence; a disabled one is silent |
| **camera health** (`camera-health/`, `gateway/src/camera-health-manager.ts`) | `Camera`'s status, generation and sequence; the gateway's runtimes | check, ingest, retry, disabling, new credentials | late and repeated observations, new generations, restarts, several writers of one status | never back to an older observation; a disabled camera is left alone; events tell the status |
| **events, alerts** (`events/`, `notifications/`) | `CameraEvent`, `Alert` | ingest, evaluate, acknowledge, recover | deduplication before the effect, alerts evaluated after the commit | an event once; its alert is not lost |
| **notifications** (`notifications/`) | `Notification`, `PushSubscription` | dispatch, retry, subscribe | overlapping turns of the worker, crashes after sending | the row tells what was delivered |
| **intelligence** (`intelligence/`) | `EventClassification`, schedules, zones | classify a motion, save a schedule, an exception, a zone | every read of an analysis awaits, a schedule is read in three queries; intervals over midnight | judged by what was true of the motion |
| **realtime and dashboard** (`realtime/`, `web/src/dashboard`, `web/src/realtime`) | connections in memory, what a tab shows | connect, publish, poll, load | reconnection, a process that ends, overlapping loads | a dashboard that is told of changes shows them |
| **live player** (`web/src/cameras/StreamPlayer.tsx`) | the player's state, refs, timers | open, poll, play, stop, close | answers that arrive after the effect ended | one picture; a session is asked to stop once |
| **gateway captures** (`gateway/src/capture-manager.ts`) | files and metadata in staging | snapshot, record, flush | overlapping flushes, lost answers, restarts also in the middle of a write | no capture is lost; no file is left |
| **gateway motion monitor** (`gateway/src/motion-monitor.ts`, `motion-detector.ts`) | monitors, their processes | sync, frames, end | a monitor is replaced while it reports | who is watched is told online |
| **gateway local queue** (`gateway/src/local-queue.ts`) | a JSON file | enqueue, flush | read-modify-write without a lock | no accepted message is lost |
| **subscriptions and Stripe** (`billing/`) | `Subscription`, `BillingCheckoutSession`, `BillingWebhookEvent` | checkout, webhooks, trial expiry | duplicates, reordering and failure of webhooks; an expiring lock | status follows the provider; one checkout at a time |
| **camera onboarding** (`camera-onboarding/`) | discovery and verification sessions, cameras, the counter | start, report, confirm, submit credentials, cancel, expire, complete | late results, cancellation, replaced credentials, two completions | one camera per device; verified credentials; no password kept longer than needed |
| **camera catalogue** (`camera-catalog/`, `prisma/catalog-import.ts`, `qr-analysis.service.ts`) | manufacturers, brands, models, variants | create, import, analyze a label | two writers with different keys, many writings of a name, more matches than are listed | a label identifies its model |
| **platform administration, AI support, other pages** | their rows | reports, single updates, a chat | none of their own | – |

Interactions: users' requests create sessions, captures, verifications and
discoveries, each of which writes a `GatewayCommand`; the gateway answers with an
acknowledgement and, by other routes, with playlists, captures, events and
observations; workers in `apps/api/src/index.ts` (cleanup of streams, retention,
offline reconciliation, notifications, billing) act on rows whose time has
passed; entitlements are counted on the way in and out.

`PROJECT.json` lists every component with its status, and under "hazards" every
place where this code is exposed to something a test would hardly reach.

## 2. The modules

| module | models | uses |
|---|---|---|
| `StreamAdmission` | abstract: what streaming promises an organization | |
| `StreamCommands` | the commands of streaming, which both sides know | |
| `StreamControl` | sessions, commands and live media in the cloud | `StreamCommands`; refines `StreamAdmission` |
| `StreamAgent` | the gateway's batch, `StreamManager`, queue of acknowledgements | `StreamCommands` |
| `StreamSystem` | cloud and gateway together | `StreamControl`, `StreamAgent`; refines `StreamControl` |
| `MediaStorage` | captures, bucket, storage quota | |
| `OrganizationSeats` | members, invitations, seats of the plan | |
| `RequestWork` | how a handler in progress begins, goes on and ends | |
| `AuthSession` | accounts, sessions and their refresh tokens, one-time tokens | `RequestWork` |
| `BillingCheckout` | checkouts, their lock, and the sessions at Stripe | `RequestWork` |
| `SubscriptionSync` | Stripe's reports and the rows of the plan | `RequestWork` |
| `CameraHealth` | one camera's checks, its row and its connectivity events | |
| `CaptureManager` | snapshots and recordings on the gateway, their files and uploads | |
| `MotionMonitor` | the gateway's monitors and what they tell | |
| `GatewayAgent` | the gateway as one process | `StreamAgent`, `CaptureManager`, `MotionMonitor` |
| `EventAlerts` | a gateway's presence, events, alerts, notifications | |
| `MotionRisk` | how a motion is judged | |
| `Realtime` | streams of events and what dashboards show | |
| `StreamPlayer` | the player of a live picture | |
| `Monitoring` | what the API does with the events of one gateway, and what is opened from a dashboard | the four above |
| `LocalQueue` | a queue in a file, without a lock | |
| `CameraDiscovery` | a session of discovery and the gateway's reports of it | `LocalQueue` |
| `CameraVerification` | credentials that are tried, and the camera they make | |
| `CameraCatalog` | the catalogue, and what a label says by it | |
| `CameraOnboarding` | from the scan to the camera | the three above |
| `SignIn` | sign-in with a provider and with a second factor | |
| `StreamingProofs` | theorems and proofs | `StreamSystem`, `GatewayAgent` |
| `CameraProofs` | theorems and proofs | `CameraHealth`, `CameraOnboarding` |
| `MonitoringProofs` | theorems and proofs | `Monitoring` |
| `BillingProofs` | theorems and proofs | `BillingCheckout`, `SubscriptionSync` |
| `MediaStorageProofs`, `OrganizationSeatsProofs`, `AuthSessionProofs`, `SignInProofs` | theorems and proofs | the module of that name |
| `MC…` | small instances for TLC: symmetry, bounds, constant functions | |

Conventions shared by the modules:

- One transaction or one statement against the database is one step; every
  `await` between two effects ends a step. Requests of users, workers and the
  gateway interleave freely.
- A row that does not exist has the status `"NONE"`. Statuses that the modelled
  code never tells apart share one value; each merge is said in a comment.
- Deadlines are abstract: what has an expiry may be found past it at any time.
- Where an instance is bounded beyond its constants, the bound is a named
  operator: `RequestsBound` (StreamControl), `WithinBound` (MediaStorage,
  OrganizationSeats), `MaxPasswords` (AuthSession), `MaxReports`
  (SubscriptionSync), `MaxObservations` and `MaxGeneration` (CameraHealth), and
  the constants marked "bound" in the other modules.
- An operator introduced by a comment "Variant: …" stands before the definition
  it varies. It is never used by the specification: it is what that definition
  would be after a plausible mistake, and the checks replace the definition by it
  to see that a property notices.

### StreamControl: `stream-session.service.ts`, `stream.routes.ts`, `gateway.service.ts`

`status` is `StreamSession.status`, `command` the status of every
`GatewayCommand`, indexed by session and cause: `START`, one per stop request of
a user (`Clicks`), and `CLEANUP`. `stopping` holds the requests between `stop`'s
read and its update by id, `removing` the sessions whose directory a handler has
still to delete after its transaction, `upload` the PUTs of `index.m3u8` with the
stage each has reached (authorized, stored), `media` the directories themselves.

`Create` is one transaction behind a lock of the organization's row; `StopRead`
and `StopCommit` are the two halves of `stop`; `Cleanup` is one turn of the loop
of `cleanup`, whose transaction checks the status again; `RemoveMedia` follows
both. `UploadAuthorize`, `UploadStore` and `UploadActivate` are the three awaits
of the PUT route. `Lapse` and `Poll` are `pollCommands`, `Acknowledge` the
transaction of `acknowledge`. `ApiRestart` forgets every handler in progress.
The gateway is unrestricted here; `StreamSystem` shows that the real one fits.

`StreamAdmission` keeps two sets, `live` and `over`: a session is admitted once,
below the limit, and never streams again once it is over. The refinement mapping
reads `live` as the sessions in STARTING or ACTIVE, `over` as the rest of those
that exist. The point of the refinement is the second half: `stop` writes
STOPPING by id, acknowledgements and uploads come late, and still no interleaving
brings a session back.

### StreamAgent: `stream-manager.ts`, `index.ts`, `local-queue.ts`

`running`, `viewers` and `indexed` are the three maps of `StreamManager`; `inbox`
is the batch being run, `starting` the START_STREAM that waits for its playlist
while the rest of the batch waits for it, `acks` the queue on disk, which alone
survives `Restart`. Starts are told apart by what they find (`StartAgain`,
`StartShared`, `StartRefused`, `StartSpawn`, then `StartAnswer`).
`BatchAbandoned` is the loop's `catch`: an exception drops the rest of the batch.
`PipelineExit` is ffmpeg's exit handler, at any time.

### StreamSystem

Extends both, which have only the commands (`StreamCommands`) in common, and
composes them by joint steps: `Poll` (the response may be lost, and what was
handed out before may come again), `Upload` (only for sessions a pipeline
serves), `Acknowledge` (with its effect, or without it when the API dies between
the `GatewayMessage` row and the transaction, in which case every copy is a
duplicate and the acknowledgement is lost for good).

### MediaStorage: `media-asset.service.ts`, `entitlement.service.ts`

`status`, `size` and `reserved` are columns of `StorageFile`, `objects` the
bucket. `StorageUsage` has two numbers for the organization; the model keeps
them as what each asset has been charged (`usedFor`, `reservedFor`), whose sums
are the columns. `work` is what each handler in progress is doing and what it
read: `request` (reserve, then create the row, or give the reservation back),
`upload` (mark, put the object, exchange the reservation for the size), `fail`,
and `remove` (mark, delete the object, release), for users and for retention.
`Die` ends a handler anywhere. Several handlers may be about one asset; the
history variable `overlap` records that, so that each property says how much
concurrency it withstands. `RequestReserve` may check the usage of its
transaction's first read, because under REPEATABLE READ the snapshot is taken
before the row is locked.

### OrganizationSeats: `organization.service.ts`, `entitlement.service.ts`

`member` and `role` are `OrganizationMembership`, `invitation` the rows of
`OrganizationInvitation` with the user they are for (PENDING past `expiresAt` is
`LAPSED`), `charged` is `ResourceCounter.memberCount` by user, as above. A
handler in `work` is an invite (expired invitations are marked and their seats
returned one by one, then the look for a duplicate, the look for a member, the
reservation, the row), a cancel, a resend, an accept, or a change (the actor's
role is read by the middleware, then `getTarget`, then the check for another
owner, then the write by id, then for a removal the seat). `Die` stands for a
refusal, an exception or the end of the process. `raced`, `contested` and `lost`
are history: users about whom handlers overlapped, changes that relied on each
other's owner, users for whom a handler died owing a seat.

### AuthSession: `auth.service.ts`, `auth.middleware.ts`, `organization.service.ts`

`account` is `User` with its membership, `session` the rows of `Session` (one per
refresh token; a family bears the name of its first session), `token` the rows of
`OneTimeToken`, `work` what each handler has read and where it is. `opened` is
history: the user's password, known by its number, when the family was opened.

`login`, `register` and the confirmation of a second factor end in
`issueSession`; `refresh` is `RefreshRead`, `RefreshMember` and the transaction
`Rotate`, whose guarded `updateMany` fails when the token was revoked in the
meantime, or `Reused` when the token presented is revoked already, or
`RefreshExpired`. `Logout`, `LogoutAll` (which disabling the second factor
repeats), `ChangePassword`, `ResetPassword` and the removal of a member revoke
sessions, each after an authentication or a read of its own. What has an expiry
may be found past it at any time: a session then is revoked by `refresh`; a
one-time token, or one whose e-mail was not delivered, is merely not presented
any more. A second factor is a login that may be refused (`Die`).

### BillingCheckout: `stripe.service.ts`, `stripe.provider.ts`

`checkout` is `BillingCheckoutSession`, a row per idempotency key, with its
`activeLock` and whether it has a URL; `stripe` the sessions at the provider;
`seen` the events that have a row in `BillingWebhookEvent`. A request is `Open`
(the row, refused by the unique lock), `CreateCheckout` (the call to Stripe) and
`RecordCheckout`; `CheckoutThrows` and `CheckoutFailed` are its `catch`, which may
follow a call that did have its effect. `ReconcileExpired` is the worker,
`Webhook` and `CheckoutCompleted` the event of a payment; `CheckoutDies` ends any of
them. A row expires with
Stripe's session once it has a URL; before that it expires half an hour after
the request, and `PastExpiry` assumes that no request takes that long. Asking
for the customer at Stripe is idempotent and is left out.

### SubscriptionSync: `stripe.service.ts`, `subscription.service.ts`

`plans` are the rows of `Subscription` ordered by `createdAt`: the newest one that
grants is the plan in force, and grants until the end of its period (`until`, counted
in periods by the clock `now`). `reports` is what Stripe has to say of each paid
subscription, in order, with the end of its period; it is delivered in any order and
any number of times. An end is `DELETED`, or `CANCELED` for an update whose status is
`canceled` or `incomplete_expired`, which may be all that Stripe says of a
subscription. `ledger` is `BillingWebhookEvent`, where FAILED is one value with
RECEIVED, since nothing reads the difference. `Receive` inserts the event or finds it
a duplicate, `FindRow` looks for the subscription, `SyncCreate` and `SyncUpdate` write
it, with the free plan in the same transaction when it was deleted and only then, and
`Mark` records the event as processed. `UNPAID` is `invoice.payment_failed`, which
finds a row or does nothing. `CancelRead`, `Cancel`, `ReactivateRead` and `Reactivate`
are the owner's requests: a read of the newest row, then a write by id.

### CameraHealth: `camera-health.service.ts`, `camera-health-manager.ts`, `event.service.ts`, `camera.service.ts`

`camera` is the row of `Camera`: whether it is ACTIVE and deleted, its status
(`ONLINE`, `OFFLINE`, the others one value), `healthGeneration`, `healthSequence`,
and `checkedAt`, which stands for `lastHealthCheckAt` by the place of the
observation it came from. `runtime` are the objects the gateway checks with,
`current` the one in its map: `Sync` replaces it when the generation is new,
though the check of the old one goes on; `Observe` numbers what a check saw.
`observations` is all that was queued, and a message is a place in it. `Receive`
writes the `GatewayMessage` row or finds a duplicate, `FindCamera` reads the row,
`Update` is the `updateMany` with the generation and the sequence in its
condition, `WriteEvent` the event of a transition. `FindNotice` and `WriteNotice`
are `EventService.ingest` for the motion monitor's CAMERA_ONLINE and
CAMERA_OFFLINE. `SetStatus`, `Retry` and `UpdateCredentials` read and then write
by id; `Remove` is one transaction, and so is `Test`, the acknowledgement of
TEST_CAMERA.

### CaptureManager: `capture-manager.ts`; MotionMonitor: `motion-monitor.ts`, `motion-detector.ts`

In `CaptureManager`, `files` are the media files in staging and `meta` the metadata
beside them, which together are the queue and alone survive `Restart`;
`recordings` and `completed` are the maps of the class, `job` the snapshot the
main loop waits for, `flushes` every call of `flush` under way: the main loop's
and one of each recording that has ended. A flush lists the items, then for each of them
reads its metadata, uploads it (stored or not, answered or not) and removes it or
writes a new attempt, each a step. A command may come again at any time.
Metadata is written in two steps, as `writeFile` does: the file is emptied (`Retry`,
`SnapshotQueued`), then written (`Rewrite`, `SnapshotWritten`). Meanwhile it is in
`open`, and other flushes find no JSON in it, skip it, or write it too; a restart leaves
it so. `cut` is history: the assets whose metadata is not JSON and will not become JSON
any more. Attempts are one digit, so that of two texts the one with a `nextAttemptAt`
is the longer, whose rest stays behind a shorter one that is written over it (`Over`).

In `MotionMonitor`, `wanted` and `updated` are what `monitoringConfiguration`
returns, `monitors` the map of the manager by the number of the monitor, `state`
each monitor's process with the counters of `MotionAggregator`. `SyncStart` and
`SyncStep` are `sync`, which waits for each monitor it stops; `Frame` and
`Finalize` what a process does meanwhile.

### GatewayAgent

Puts `StreamAgent`, `CaptureManager` and `MotionMonitor` into one process: the main
loop waits for a playlist, a snapshot, a monitor that stops and a flush, and does
nothing else meanwhile; pipelines, recordings and monitors run beside it; a
restart ends all of them. `AgentSpec` is its specification; an asset is a snapshot or
a recording, never both.

### EventAlerts: `event.service.ts`, `gateway.service.ts`, `notification.service.ts`, `push-subscription.service.ts`

`gateway` is the row of `Gateway` with whether its last heartbeat is recent,
`events` the rows of `CameraEvent` in the order they were created, `alert` and
`notification` the rows that follow from each. `work` holds what each handler is
about: the claim of a pairing code, a heartbeat (authentication, read, update,
transition, event), a reconciliation (which the list of gateways starts as well
as the worker), a message about motion, an analysis for an alert, and a turn of
the dispatch with the batch it has read. `Die` ends any of them; `dropped`
remembers the events whose handler ended before their alert, `raced` a heartbeat
that overlapped a reconciliation, `contended` a notification that two turns had.

### MotionRisk: `context-engine.ts`, `risk-engine.ts`, `intelligence.service.ts`

One analysis is its reads and a write, each a step (`ReadEvent`, `ReadSchedules`,
`ReadRelation`, `CountRecent`, `CountZones`, `CreateClassification`), while the owner
saves schedules, exceptions and zones and motions arrive. `findMany` with `include` is
a query for the row and one for each of its two relations, outside a transaction:
`reading` is the schedule that has been put together so far. `InLocalInterval`, `Score`,
`RiskLevel` and `Classification` are the pure functions.

`Truth` is what is true of a motion by the words of the settings, not by the code: a
schedule allows the minutes from the start of an interval, or of a date's exception, to
its end, which is on the next day if it is no later (`Spans`, `Within`, `Open`).
`possible` and `certain` are history: which factors were true of the motion at some
time, and at all times, of the analysis. `excused` is history too: the analyses of whose
hours nothing is said, because a schedule was saved between the queries that read one,
or because the motion was in the morning after an interval that passes midnight.

### Realtime and StreamPlayer: `realtime.service.ts`, `useRealtime.ts`, `MonitoringDashboard.tsx`, `StreamPlayer.tsx`

`Realtime` has the server's connections (with those that have ended and are
counted until their `close`), each tab's phase, the messages on the wire, the
summaries on their way and the one shown. `Commit` and `Publish` are two steps, so
that a process may end between them; then a change is `lost`.

`StreamPlayer` is one player from mounting to unmounting: the POST, the polls with
answers that overtake each other, the DELETEs, the timer of the hidden tab, and
the effects of React, each of which may end while the library it imports is on
its way. The session itself goes its way as in `StreamControl`.

`Monitoring` composes the four: the handler of an event calls one after the other
with the event's id, and they share no state.

### LocalQueue and CameraDiscovery: `local-queue.ts`, `discovery.service.ts`, `ws-discovery.ts`, `index.ts`

`LocalQueue` has the file, the enqueues and the flush under way, with what each
has read; `overlapped` remembers that two met. A write first empties the file, so
that who reads meanwhile, or after a crash, finds nothing. `CameraDiscovery` is a
session with its command, the scan, its reports through the queue, and `ingest`
in the steps that await: the message row, the candidates, the status. `disturbed`
remembers a report that came late, again or never.

### CameraVerification: `verification.service.ts`, `verification-credential.service.ts`, `completion.service.ts`, `camera.service.ts`, `entitlement.service.ts`

`verifications` are the sessions with the submission whose credential they have,
`commands` one VERIFICATION_START per submission, `cameras` what `complete` made of
a session, `counter` is `ResourceCounter.cameraCount`. Submitting, cancelling,
the clean-up and `ingest` each read, then write; `Complete` is one serializable
transaction; creation by hand reserves, writes, and gives back when it fails.
`CameraOnboarding` starts verifications of a discovery that was confirmed
(`BeginVerification`); `Requests` are those in progress, of each part at the same time.

### CameraCatalog: `camera-catalog.service.ts`, `catalog-import.ts`, `qr-analysis.service.ts`

Sets of rows by their normalized keys, the two writers with the keys each builds,
and `analyze`: the set of results that the analysis of a label may have, since
`catalogMatches` takes any ten (`MaxMatches`) of the variants that answer to it
(`Answering`). A variant answers by its hardware or its SKU; its `name`, which the
query looks at as well, is never written. A name is a normal form with a writing.

### SignIn: `auth.service.ts`, `oauth.service.ts`, `mfa.service.ts`

`transactions` are the rows of `OAuthTransaction`, from the redirect to the ticket
for the onboarding or the second factor; `mfa` is `MfaCredential` with
`lastUsedStep`, `recovery` one recovery code, `now` the period of 30 seconds,
`work` each request with what it has read. All paths that end in `issueSession`
are there: password, provider, onboarding, second factor. `uses`, `opened`,
`missed`, `confirmed` and `raced` are history.

## 3. The runs and what they show

| run | instance | states | shows |
|---|---|---|---|
| `stream_cloud` | 2 sessions, 1 stop request each, 1 slot, at most 3 requests at once | 0.7 M | `ActiveHasMedia`, refinement of `StreamAdmission` |
| `stream_system` | 1 session, 1 stop request, 1 camera | 0.06 M | `CloudSpec` (the gateway keeps to `StreamControl`), `LiveEnds`, `CommandsSettle` |
| `gateway_agent` | 3 sessions on 2 cameras, room for 1 pipeline; a snapshot and a recording, room for 2 files; 1 camera with 2 monitors | 0.3 M | `PipelinesServed`, `CapturesKept`, `StagingOwned`, `OnlineIsTold` |
| `media_storage` | 2 captures, 2 handlers, reservation 2, plan 3 | 0.6 M | `ChargesExact`, `WithinPlan` |
| `organization_seats` | 3 users, 3 invitations, 2 handlers, plan for 2 | 0.4 M | `SeatsCovered`, `SeatsExact`, `OwnerRemains` |
| `auth_session` | 1 user, 3 sessions, 3 one-time tokens, 2 handlers, 2 changes of the password | 0.4 M | `OneLivePerFamily`, `PasswordEndsFamilies`, `DeadFamilyStaysDead` |
| `sign_in` | 1 sign-in with a provider, 2 handlers, 3 periods, 2 enrollments | 1.3 M | `CodeOnce`, `OneSession`, `FactorAsked`, `ConfirmedStands` |
| `billing_checkout` | 3 checkouts, 2 handlers | 0.01 M | `OnePayable`, `LockIsReleased` |
| `subscription_sync` | 2 subscriptions, 3 reports together, 2 handlers, 1 period | 0.9 M | `EndedGrantsNothing` |
| `camera_health` | 2 runtimes, 2 handlers, 2 observations, 1 notice, 2 generations | 1.2 M | `NewerOnly`, `EventsTellStatus` |
| `camera_onboarding` | 1 discovery, 2 verifications, 2 submissions, 2 handlers of each, plan for 1; 2 models with 4 variants, lists of 2 | 0.3 M | `Kept`, `EndIsTold`, `VerifiedCredential`, `CredentialEnds`, `DeviceOnce`, `CamerasCounted`, `LabelIdentifies` |
| `monitoring` | 1 gateway, 1 motion, 3 events, 2 handlers, 2 attempts; 2 motions to judge, 2 changes; 2 tabs, 1 change; 1 player, 2 polls | 0.7 M | `AlertTellsPresence`, `EventsAlerted`, `RowTellsDelivery`, `DisabledStays`, `Grounded`, `ShownIsFresh`, `OnePicture` |

Why these bounds are enough. One slot and two sessions is the smallest instance
where admission matters, and every handler is about one session, so a third
session adds no new pair of conflicting steps; the proofs of section 5 cover any
number. Three requests in progress at once let a stop, a removal and an upload of
the same session meet. A plan of 3 for reservations of 2 makes the second
capture wait for the first to be exchanged. Three users make two guests compete
for the one seat the founder leaves, three invitations let one of them be
invited again after an invitation is over, and two handlers are the smallest race;
three handlers were explored to a depth of 27 steps without a violation. The
gateway's whole batch is one set, so `take: 20` is no bound at these sizes.
`organization_seats` uses a VIEW that forgets only what no step can read again
(the row of an invitation that is over and in nobody's hands, the role of
somebody who is no member and is not being changed).

In `auth_session` every handler is about one user, so one is enough; three
sessions are a family, its successor and either a second successor or a family
of its own; two handlers are the smallest race. The proofs cover any number.

In `billing_checkout` a failed, an expired and a new checkout exist together. In
`subscription_sync` three reports are the smallest number with which one
subscription's end, an older report of it and something about the other meet; the end of
one period is enough for all of them to be past it. Its VIEW forgets what no step can
read again.

In `camera_health` two observations can be of one runtime in order, of a runtime and
the one that replaced it, or of one before and one after a restart, and two
handlers meet at every await. Its VIEW forgets what no step can read again, above
all observations that are no longer new to the row; the comment in
`MCCameraHealth` gives the reason for each.

In `gateway_agent` two sessions share a camera while a third wants the only
pipeline, the room in staging is for one capture more than is queued, and one
monitor is replaced by another. Streams, captures and monitors share nothing but
the main loop, so the constraint `Apart` explores one of them at a time;
`Few` allows two captures.

In `camera_onboarding` a verification reads of the discovery only that it is
confirmed, so `Apart` lets it begin when no request of the discovery is under way
and the VIEW forgets the discovery from then on; `Told` stops where operations of
the queue met, about which nothing is said; `Few` lets one session at a time be
due; the catalogue is explored on its own. Two sessions are the smallest number
with which one device can be registered twice, two submissions let the second
replace the credential that is being tried, and a plan of one camera makes
creation by hand and completion compete. Two models that share a name or an alias, each
created by hand and imported, are four variants that answer to a label, of which a list
of two leaves some out.

In `monitoring` three events are a gateway's OFFLINE and ONLINE with a motion, or
the three transitions of which the last could leave an alert behind; the first two
events are sent by e-mail and by push, which differ in how they fail. The
delivery reads of the rest only the rows that are there (`Separate`, see
`MCMonitoring`), and events, risk, dashboards and players share nothing, so that
`OneAtATime` explores one of them after the other. A day of three minutes has an
interval over midnight, from its last minute to the second of the next day, and things
move in its last minute and the next; two motions may be recent to each other or not, and while one is
analyzed the other waits where its own analysis began, of which nothing is read.

In `sign_in` a code can come in its own period, in the one before and in the one
after; two enrollments let a second secret replace a first. `Orderly` does not
explore what follows a change of the enrollment under a request in hand.

Which concurrency each property withstands is part of the property:

- `ChargesExact` holds while the handlers of one asset do not overlap (the theorem
  `Charging` has what still holds while uploads do); crashes are allowed everywhere.
- `WithinPlan` excludes concurrent reservations: a reservation is checked
  against a snapshot that may be older than the lock, and two of them can
  together exceed the plan.
- `SeatsCovered` holds for every user about whom no handlers overlap, whatever
  happens about others; `SeatsExact` needs that nobody was raced, since one user's
  missing seat may be taken from the common counter.
- `OwnerRemains` allows an owner who has just lost the role to go on with what
  it had begun, and two handlers about two users; it excludes two changes that
  each have passed the check because of the other's owner.
- `NewerOnly` withstands everything but two runtimes that count in one
  generation (`CountedOnce`): after a restart of the gateway, or a
  CAMERA_UNREGISTER that comes again once the camera is back, the sequence starts
  at 1 while the generation stays. New observations are then ignored until they
  have caught up, and an older one still queued may replace a newer one.
- `EventsTellStatus` needs that nothing overlapped and no handler died between the
  status and its event (`rough`), and that no test wrote the status, which writes
  no event.
- `AlertTellsPresence` excludes a heartbeat that overlaps a reconciliation, and
  handlers that end early; `EventsAlerted` allows for the latter only, and
  `RowTellsDelivery` for turns that overlap about one notification.
- `DisabledStays` withstands everything once no heartbeat that had been let in is
  still under way.
- `Kept` is about a queue whose operations do not meet; `EndIsTold` about reports
  that were not disturbed; `VerifiedCredential` about sessions whose report was not
  in hand when they got new credentials (`crossed`); `CamerasCounted` allows for
  requests that ended between reservation and row.
- `Grounded` says nothing of the hours of a motion if a schedule was saved while one was
  read for it, nor of those in the morning after an interval that passes midnight. Of
  everything else it withstands every change.
- `EndedGrantsNothing` says of a subscription that was deleted that it is not in force
  once that was processed; of any end, that it grants nothing once its period is over. In
  between, an end that is not a deletion still grants.
- `LabelIdentifies` says nothing of what a full list leaves out.
- `CodeOnce` and `ConfirmedStands` exclude two requests that change the enrollment
  at the same time; `OneSession` and `FactorAsked` withstand everything.
- `CapturesKept` excludes a restart of the gateway in the middle of a write of metadata,
  and two flushes that write the same metadata at once, a new capture last: either
  leaves a file that is no JSON, which `flush` skips for ever. `StagingOwned` excludes restarts and a second
  capture of the same asset.

### Where the code does less than it promises

Found while modelling; the first six contradict the documentation.

- `docs/streaming.md:27` gives STOPPING → ENDED. If the STOP_STREAM expires or its
  acknowledgement is lost, nothing ends the session: `cleanup` looks for STARTING
  and ACTIVE only. It stays STOPPING and counts against the limit.
- `docs/media-storage.md:56` says a repeated deletion does not reduce the usage
  again. Two concurrent deletions do: the second writes DELETING over DELETED and
  its transaction subtracts the size once more.
- `docs/multi-tenancy.md:23` says removing, suspending or demoting the last OWNER is
  blocked. Two owners who change each other at the same time both pass
  `assertAnotherOwner` and both write.
- `docs/event-intelligence.md:11` lets an interval pass midnight; `context-engine.ts`
  then counts the early morning of the interval's own weekday, not of the next.
- `docs/stripe-integration.md:21` says that an ended paid plan grants nothing any more.
  An end that comes as an update to `canceled` or `incomplete_expired` writes CANCELED
  without a free plan, and `getEntitlements` goes on granting until `currentPeriodEnd`:
  even to a subscription whose first payment never succeeded.
- `docs/mobile-pwa.md:31` says that closing the player, or 60 seconds in the
  background, ends the session. A player closed before its POST is answered never
  knows its session, which ends with its TTL. The dashboard passes a new `onClose`
  at every render, and the effect that has the timer starts again without it.
- Overlapping loads of a dashboard may show the older summary, until the next poll.
- Player: an answer STARTING that arrives after ACTIVE ends the picture while the
  player still says it plays; a polled ENDED leaves it "connecting".
- A message that is enqueued while `flush` is at work, or a process that ends while
  it writes the file, loses messages of the gateway.
- Discovery: a report that comes late opens a closed session again, or is written
  over a COMPLETED one. The clean-up at the start of a discovery deletes expired
  sessions and candidates that verifications refer to (`onDelete: Restrict`), so
  once a verified discovery has expired, `start` fails. The identifiers of a
  removed camera stay, so its device cannot be onboarded again.
- Verification: a report that comes a second time overwrites COMPLETED and
  CONSUMED; one in hand while new credentials are submitted may leave a camera
  with credentials nobody tried.
- An event whose handler ends before its alert has none for ever: the message that
  comes again is a duplicate. The same holds for webhooks of Stripe that fail.
- Second factor: an enrollment begun before and written after a confirmation undoes
  it; overlapping confirmations can set `lastUsedStep` back.
- A process that ends while it writes the metadata of a capture loses the capture: its
  metadata is empty, which is no JSON, and `flush` skips it for ever. Two flushes that
  write it at once, with a new capture last, may leave it so as well.
- Captures: overlapping flushes may upload an item twice, and the one that loses
  writes its metadata again without a file and in the end reports a failure. Files
  of a capture that a crash cut off, or a second capture replaced, stay in staging
  and count against its limit; room is not reserved for recordings under way.
- Motion monitors are replaced whenever `Camera.updatedAt` changes, which their own
  CAMERA_ONLINE and every health report cause; a motion under way then never ends.
- A schedule that is saved while one is read may give hours that neither had: the row and
  the intervals are separate queries. SCHEDULED, as it was, without intervals, as they
  are, is out of hours at any time.
- A motion is judged once, when its start arrives; that it lasted a minute counts
  only if its end was recorded by then.
- Catalogue: `createModel` builds identity keys with five parts, the import with
  four; importing a model that was created by hand adds a second generic variant,
  and its label is found with less confidence. Aliases that differ only in writing
  make `createModel` fail. Of more than ten variants that answer to a label, which ten are
  listed is up to the database.
- Giving a camera to another gateway does not begin a new generation: the new
  gateway's observations are ignored until its numbers catch up.

## 4. Fairness

`StreamSystem` states fairness of three kinds:

- weak fairness of `Cleanup(s)`: `apps/api/src/index.ts` runs the cleanup every
  30 seconds, and every session has a fixed `expiresAt`;
- weak fairness of the agent's `RunBatch(s)`: the main loop awaits each command
  with a timeout and goes on to the next;
- strong fairness of `Lapse(c)`: the agent polls for ever and a command's
  `expiresAt` is fixed, so some later poll finds it past. Strong, because the
  agent polls only between batches.

Nothing is assumed of users, uploads, acknowledgements, the network or restarts.
`CommandsSettle` therefore rests on expiry alone, `LiveEnds` on cleanup alone.

`BillingCheckout` assumes weak fairness of `ReconcileExpired(k)` (the worker runs
at an interval for ever), of `SessionExpires(k)` (Stripe's sessions have a fixed end)
and of `CheckoutStep(h)` (what a request awaits answers, throws or times out).
Nothing is assumed of the customer or of webhooks: `LockIsReleased` does not need
the payment's event to arrive.

## 5. What is proved

All theorems are checked by TLAPS for every value of the constants. Every safety
property that section 3 lists, state or action property or refinement, is a theorem;
the runs and the mutants show on a small instance that the property can be violated
when the code is changed, the theorems that it holds whatever the sizes.

They rest on the assumptions the modules name, which TLC evaluates in the runs, and on
nothing else: the sets that are counted or summed over are finite (sessions, cameras
with pipelines, assets, users, invitations, verifications, reports of motion, and the
requests in progress of the onboarding); bounds and limits are natural numbers, with
at least one attempt (`MaxTries`, `MaxAttempts`), one member and one generation; a
reservation is positive; the founder is a user; the free plan is no subscription of
Stripe's; an asset is a snapshot or a recording; settings of the clock are moments of
the day; the analysis of a label lists two variants or more; and the values that stand for "none" are not in the sets they are added to.

The invariants of the runs are seldom inductive. What each needs besides:

**StreamingProofs**, the cloud: `TypeCorrect`, `Safety` (`LiveWithinLimit`,
`ActiveHasMedia`, `StopIsRequested`), `OutcomesAreFinal`, `ImplementsAdmission`.
`LiveWithinLimit` needs that STOPPING sessions are counted too at creation, and that a
stop request that is still to write was read from a session that existed.
`ActiveHasMedia` needs to know that a PUT about to activate has stored its playlist, and
that whoever has still to remove a directory does so for a session that cannot become
ACTIVE any more. The refinement is proved step by step: `Create` is `Admit`, what takes
a session out of STARTING or ACTIVE is `Retire`, everything else stutters.

*The whole*: `SystemImplementsCloud` and `SystemStreams`. `StreamControl` lets any
gateway acknowledge whatever it was handed, and upload at any time; the real one fits
because of `CommandsKnown`: whatever it holds in its batch, as a start in progress or as
an acknowledgement was handed out before, and what was handed out is never PENDING again.
So `ImplementsAdmission` holds of the composition by transitivity.

*The gateway*: `PipelinesAreServed`, `CapturesAreKept`, `StagingIsOwned`,
`PictureIsTold`, each over all steps of the one process (`GatewayInv`). `PipelinesInv`
adds that viewers belong to the camera. `CapturesSafe` says of each place a file can be
named from (the snapshot under way, a recording, the hand of a flush, the metadata)
that the file is written, whole or settled; of metadata that is no JSON (`MetaFits`), that
somebody has it open to write or that it is cut off. `Undisturbed` holds until a restart or a
second capture: each asset has one file, and it has a purpose. `MotionInv` adds that of
the monitors of a camera only the one in the map runs without being told to stop.

**MediaStorageProofs**: `TypeCorrect`, `Charging` (`ChargesCover`, `ChargesExact`,
`FreedIsGone`), `QuotaHolds`. The inductive invariant says for each asset what its row is
charged, and for each handler in progress what it still holds or has already given back,
as a function of its kind and place; it also says which handlers can be about the same
asset, so that a step of one leaves what is known of the others. `QuotaHolds` is about
the sum of all charges: `PlanFits` says that of the requests that have read the usage
without having reserved there is one at most, and what it read is no less than what is
charged now.

**OrganizationSeatsProofs**: `TypeCorrect`, `SeatsAreCovered`, `SeatsAreExact`,
`OwnersRemain`. `Apart`: two handlers about one user have been noticed (`raced`).
`UsersFit` and `HandlersFit`: for a user who was not raced, the seats are charged, there
is at most one of them, and the one handler about that user knows what it has looked at
and is charged for what it owes. `CheckedAlone` and `CheckedRelies`: a change that has
passed its check is the only one, and the other owner it found is still one. `ExactFits`
turns the inequalities into equalities while nobody was raced and no handler died owing;
it needs the sum, since a seat is given back only while the counter is above zero.

Both columns and counters are folds over a finite set (`MapThenSumSet`). The library's
induction takes an operator as a parameter, which the provers cannot instantiate; the
sums are handled instead by a smallest counterexample in a well-founded relation
(`WFMin`) on sets of sets. From it come a function that is the sum of every subset
(`SumsExist`), and that a column changes by what the charge of one asset or user does
(`ColumnChanges`), on which the theorems rest.

**AuthSessionProofs**: `TypeCorrect`, `OneValidSession`, `PasswordsEnd`, `LastTokenOnly`,
`DeadStays`. The three state properties are inductive together with `TypeOK` and
`Known`: the family of a session, and what a handler is about, exist.
`OneLivePerFamily` and `PasswordEndsFamilies` both rest on the guard of `Rotate`: the row
replaced is still live in the transaction, so the row written takes over its place and
its password.

**SignInProofs**: `CodesOnce`, `OneSessionEach`, `FactorIsAsked`, `FactorStands`.
`FactorInv`: a secret never comes back, so a factor that was in use when a sign-in began
is asked for or has been replaced. `CodesInv`, unless `raced`: what requests hold is what
is in the row, and a code that can still be accepted was never used. `SessionsInv`: a
transaction has one request that consumes it and one that may issue its session.

**BillingProofs**: `CheckoutsTyped`, `PayableOnce`, `CompletionIsFinal` of
`BillingCheckout`; `TypeCorrect`, `EndedNeverGrants` of `SubscriptionSync`. `PayableOnce`
rests on the lock: a checkout that can be paid still holds it, and the lock is unique.
That this is inductive needs what is known of a request at work: it is the only one about
its row, which until the end is PENDING, locked and without a URL; so the write by id of
the `catch` finds the row it left, never a completed one. `EndedNeverGrants` needs, for
what was deleted, that an event of a deletion whose row was written, and every handler
that is to mark one, has a later row that always grants (`EndsSuperseded`): the free plan
is never CANCELED into something that is passed over, because `cancel` too leaves a status
that `getEntitlements` looks at; and that a subscription has one row, so that an update
moves nothing past that later row. For what ended in any way it needs that the period of a
row is one that was reported of its subscription (`PeriodsReported`), and that no report,
earlier or later, has one that ends after the period of the end (`PeriodsOrdered`).

**CameraProofs**, health: `TypeCorrect`, `GetsNewer`, `DisabledStays`, `LastEventTells`. A
runtime counts its observations (`Counted`), the row has the sequence of what it
records, and what is of a newer generation was observed later (`RowFits`); so an
observation that passes the condition of `Update` either is of a newer generation than
the one recorded, or is of the same runtime with a larger number. `HandlersFit` says that
a handler about to record an observation of the row's generation found the camera in
service, and that whoever disables it begins a new generation. `EventsFit` says who is
about to write the event that the status still lacks.

*Onboarding*: `NothingIsLost`, `EndsAreTold`, `OneCameraOnly`, `CredentialsAreVerified`,
`PasswordsAreDropped`, `CamerasAreCounted`, `LabelsIdentify`, all over the steps of the
composition. `RowsInv` relates a session's credential, its command, and the report in
hand to the submission they are of (`SubmissionKnown`, `ReportCurrent`).
`CamerasAreCounted` compares cardinalities of finite sets, each of which a step changes by
one. `Orderly` says, while no two operations of the queue met, that the file and the two
lists of the flush under way together carry all that was enqueued and is not gone.
`Telling` follows the reports through that queue: in a `Good` queue what was tried is
known to the API, and so is progress that stands behind the end of the scan; so no report
that the API has not seen opens the session again. `CatalogueInv` says what the two
writers keep: no two models of a brand have the same name, and no two variants of a
model have a hardware or a SKU. `ResultsAre`: a list that is not full is complete, and one
of a single variant is not full.

**MonitoringProofs**: `MonitoringInductive` and, from it, `PresenceIsTold`,
`AlertsFollow`, `DeliveryIsTold`, `JudgmentsAreGrounded`, `ChangesAreShown`,
`OnePictureAtMost`; and `DisabledStaysSilent`. Each part has an invariant that the steps of
the others cannot touch. `PresenceInv`, until a heartbeat and a reconciliation meet: who is
still to tell a status that the alerts do not show yet. `DeliveryInv`: rows were there
before a turn, and what a turn alone has in hand is as it read it. `RiskInv` says place by
place which factors an analysis must have found by now, and of a schedule that is being
read, while nobody saves one, that what was read of it is what applies, and that what the
exceptions said when they were read was true then (`ReadsCurrent`). The lemma
`IntervalIsSpan` says that the comparisons of `InLocalInterval` are those of a span that
may end on the next day, but for the minutes in which the code and the settings disagree,
and `HoursAgree` carries it over to every schedule, for any day.
`LiveInv`: a change is told to a connected tab, or on the wire, unpublished, or lost.
`PlayerInv`: one effect at most plays or is about to, and the session is stopped when its
id is given up.

**Only model-checked:** liveness under fairness (`LiveEnds`, `CommandsSettle`,
`LockIsReleased`), which TLAPS does not reach. Nothing is proved about what fairness
promises, about ENABLED, or about the bounds the instances add.

What is proved and needs no run of its own: the type invariants, `LiveWithinLimit`,
`StopIsRequested`, `OutcomeIsFinal`, `ChargesCover`, `FreedIsGone`, `OneOutstanding`,
`CompletedIsFinal`, `DisabledUntouched`.

## 6. What is not modelled, or not proved

- Streams: contents and order of segments, viewing (reads only), the per-segment
  uploads that a refused PUT keeps other sessions of a pipeline from getting, and
  the time between redeliveries.
- Media: `stopRecording` (writes a command only; what it causes is the exit of a
  recording in `CaptureManager`), thresholds and notifications, signed URLs, and
  that a camera has one recording at a time. The bucket, like MariaDB, is
  external: its operations are atomic and either take effect or fail.
- Gateway: the disk does not fail; ffmpeg's frames are an unrestricted choice;
  acknowledgements of captures; `spawn` errors of recordings, which no handler
  catches.
- Seats and cameras: the lazy creation of `ResourceCounter` by `reserveCount`
  (registration creates it), changes of the plan's limit while members exist, the
  sessions that `remove` revokes (they belong to the sessions), e-mail.
- Sessions: rate limits, audit rows. A login that compared the old password just
  before a change may write its session just after it; `PasswordEndsFamilies`
  counts that session as one of the new password.
- Billing: trials (nothing in the code starts one), invoices and payments as
  records, `cancelAtPeriodEnd` and changes of plan (more reports of the same
  subscription), and that nothing renews the free plan, whose period ends 30 days after
  it begins. That a deletion takes the plan out of force at once is said of those that
  were processed. Reports are not compared by age.
- Camera health: the counting of failures before OFFLINE, the rediscovery of an
  address and its storage, the five-minute limit as a clock (an observation may be
  found too old at any time), and that a camera may be given to another gateway.
  The queue is not a file here: a message may come at any time, in any order,
  again, or never. `docs/notifications-alerts.md:9` lets CAMERA_OFFLINE raise an
  alert and CAMERA_ONLINE resolve it; the events that health itself writes are not
  given to the alerts, only the monitor's notices are.
  `docs/monitoring-events.md:29` gives the motion pipeline as the only source of a
  camera's state; health and tests write it too.
- Events: more than one user of an organization, the values of preferences,
  severity and cooldown (only the channel they lead to), `readAt`, the wording.
- Onboarding: which candidates a scan finds and how two descriptions of one are
  merged, the stages of a verification's progress, encryption, the parsing of a
  QR code, product families and compatibilities.
- Web: the other pages. They show what the API answers and call it; each call may
  come at any time in the models.
- Platform administration reads rows of all organizations and updates single rows
  by id, without a state of its own; AI support is a call to an external model
  under a daily quota; tenancy is a filter of every read.
- Database isolation is MariaDB's REPEATABLE READ, as the code uses it: an
  unlocked read in a transaction sees its first read's snapshot, an update or a
  locking read sees the latest rows. A range that an `updateMany` has scanned
  takes no insert of another transaction before it commits, so transactions that
  revoke a user's rows and then write one exclude each other.

## 7. Plan

In order of importance.

1. An abstract specification of alerting, which raises each event once and alerts it,
   and the proof that the steps of `Monitoring` implement it.
2. That `LocalQueue` and `CaptureManager` implement one abstract spool: what was
   accepted stays until it is sent or given up.
3. Recordings as recordings in `MediaStorage`, with one at a time for a camera.
4. The association of cameras with gateways in `CameraHealth`.

## 8. Running the checks

Each `.cfg` belongs to the `MC` module named in `PROJECT.json` ("runs"):

    tlc -workers 2 -config stream_cloud.cfg MCStreamControl.tla
    tlapm StreamingProofs.tla

The longest runs (`stream_cloud`, `camera_health`, `monitoring`,
`camera_onboarding`) take two to three minutes on two workers. Of the eight proof
modules, `CameraProofs` takes up to ten minutes, `MonitoringProofs`,
`StreamingProofs`, `OrganizationSeatsProofs` and `SignInProofs` two to four each, the
others less.
