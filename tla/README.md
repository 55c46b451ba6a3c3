# TLA+ verification of the Nexus edge engine

The Nexus edge engine is the program that runs on a video box at a customer's
site: it decodes camera streams, detects and tracks objects, evaluates rules,
records clips, delivers alerts to sinks (mail, webhook, cloud console...) and
keeps the box usable when its disk fills up. This directory holds TLA+ models of
the parts of it where the order of events decides whether the result is right,
TLC configurations that check them on small instances, and TLAPS proofs for
every value of their constants. Paths are relative to the repository root.

## 1. Inventory

### Components, their state and their operations

| Component | Where | State | Operations |
|---|---|---|---|
| Frame handler, alert path | `crates/nexus-pipeline/src/supervisor.rs` | one task per camera; the frame in hand, the open motion clip | write the alert's snapshot; record the event with its outbox rows; arm an alert clip; link the motion clip |
| Frame handler, motion lifecycle | `crates/nexus-pipeline/src/supervisor.rs`, `post_roll.rs` | the current clip, a pending open with its backoff, the post-roll | per frame: rotate, detect, track, open or close; react to a refused or failed open |
| Outbox table | `crates/nexus-store/src/lib.rs`, `outbox.rs` | rows (event, sink): status, attempts, next_attempt_at | enqueue (one transaction), pending query, mark sent / failed / waiting / dead / suppressed, prune |
| Dispatcher | `crates/nexus-sinks/src/dispatcher.rs`, `backoff.rs` | the batch of a tick, one task per sink | tick, process_row, clip resolution, deliver under a ceiling, retry, dead-letter, reclaim the snapshot |
| Sink routing and registry | `crates/nexus-engine/src/sink_router.rs`, `crates/nexus-sinks/src/lib.rs` | the registered sinks, swapped as a whole | sinks_for, get, replace |
| Clip recorder | `crates/nexus-pipeline/src/recorder.rs`, `gst_clip_recorder.rs` | open clips, the in-flight files, the panic flag | open, close (discard, or rename, quarantine if damaged, update the row), shutdown |
| Alert clips | `crates/nexus-store/src/alert_clip.rs`, `crates/nexus-pipeline/src/alert_clip.rs` | building / ready / failed rows | arm, join, finish, evict |
| Storage safety | `crates/nexus-engine/src/storage_safety.rs` | watermark level, panic flag, reclaim batch | sample, observe, publish, reclaim ladder, re-probe |
| Retention | `crates/nexus-engine/src/retention.rs` | none of its own | delete old clips with their events; prune settled outbox rows; reap files no row names |
| Bus | `crates/nexus-bus/src/lib.rs` | one broadcast channel per topic, bounded backlog | publish, subscribe |
| Cloud tunnel | `crates/nexus-engine/src/cloud_tunnel.rs`, `crates/nexus-cloud-client` | one connection and its pumps; the enrollment material it was started with | wait for an enrollment, connect, pump storage levels, RPC, apply the cloud's answers to announcements |
| Cold replicator | `crates/nexus-engine/src/cold_replicator.rs`, `crates/nexus-storage*` | the batch of a tick; attempts, backoff and quarantine columns; URL, envelope id, owner and backoff of an announcement | size guard, exists, read, put, stamp, mark, announce, record a failure; re-announce what is not answered |
| Enrollment | `crates/nexus-store/src/cloud.rs`, `crates/nexus-engine/src/admin_cloud.rs` | one row: core id, enrolled_at, upload floor | enroll, re-enroll, detach |
| Cold-read cache | `crates/nexus-engine/src/cold_read_cache.rs` | jobs in flight, semaphore, partial files | rehydrate: permit, row, download, partial, rename, repopulate; cancel under pressure |
| Reconciler and shutdown | `crates/nexus-engine/src/reconciler.rs`, `main.rs` | the map of running supervisors, the ingesters and substream sessions | reconcile pass; start, stop (20 s, then abort), restart; retry sessions; abort and drain at shutdown |
| Software update | `crates/nexus-engine/src/cloud_update.rs`, `cloud_liveness.rs`, `deploy/nexus-apply-release` | one persisted row, the release trees, the `current` link, the staged tarball | assignment, apply, rollback, boot-time finalisation, crash-loop guard, prune, go-dark watchdog |
| API, auth, discovery, media, inference, configuration | the other crates | request- or frame-scoped | see `PROJECT.json`, `components` |

### How they interact

* Frame handler and dispatcher share only the store and the file system. The
  handler writes the snapshot, then commits the rows, then links the clips; the
  dispatcher may see the alert between any two of these steps.
* The dispatcher runs one task per sink in a tick, and joins them all before the
  next tick. The tasks share the alert's snapshot file.
* Storage safety and retention delete clips, events (and, by the foreign keys,
  outbox rows) and snapshots while the dispatcher holds copies of those rows.
* Recorder, replicator, eviction, retention and cache each read a clip's row,
  work on its file or object, and write the row back several awaits later.
* The safety loop talks to the recorder through a flag and to the cloud pump
  through a shared level and a lossy broadcast. The frame handler reads the
  flag before an open, the recorder reads it again inside, and the handler reads
  it a third time after a refusal.
* The reconciler owns supervisors through join handles and a stop signal; the
  shutdown in `main.rs` takes the map over from it. Supervisors and the recorder
  share the recorder's map of open clips.
* The update tasks (inbound handler, apply tasks, finaliser, watchdog) share one
  row without a lock and hand the disk to a separate process, the applier, which
  ends by restarting the engine.
* Replicator, tunnel and enrollment share the clip rows, the enrollment row and a
  tunnel handle. The stamp takes the core from the enrollment row, while tunnel
  and blob backend keep the core they were started with until the engine restarts.
* A crash loses every task; the release profile aborts on panic
  (`Cargo.toml`, `panic = "abort"`), so a panicking sink is a crash too.

### What is hard, and what makes each component correct

* Dispatcher: concurrent sinks, marks that fail after a delivery that worked,
  rows deleted under a task, clip waits that must not cost attempts. Correct:
  every row settles once, is sent only if its sink took it, costs a bounded
  number of deliveries, is never dead-lettered early, never held for ever, and
  its snapshot outlives it.
* Frame handler: the rows are visible before the clip is linked. Correct: no
  alarm leaves bare while its clip is being linked.
* Storage safety: the level changes at two places, the disk moves at any time,
  the pump races with the loop. Correct: flag and cloud follow the level;
  recovery clears both; a full disk is noticed.
* Storage tiers (recorder, replicator, eviction, retention, cold-read cache):
  five tasks, one row, its files and its object, and no lock. Correct: no last
  copy dropped before another exists, no cold pointer without an object, no hot
  pointer without a file, no row deleted under the recorder, no file leaked for
  ever, no clip stuck in the upload queue, no rehydrate under pressure.
* Announcement: put, stamp, mark, send and answer are five steps of three parties,
  any of which may be lost, and the enrollment may change between any two. Correct:
  no cold clip drops out of sight of the cloud, the cloud lists no clip it cannot
  play, and no clip starves behind clips that are never answered.
* Motion lifecycle: an open can be refused for panic, or fail, and the flag can
  move between any two awaits; rotation, resize and failed detections cut frames
  short. Correct: the demand for a clip is neither lost nor outlived, a backoff
  never delays the next event, the post-roll is kept in full.
* Reconciler and shutdown: a pass takes minutes of awaits on rows read at its
  start, an abort of a task that is being polled is only a request. Correct: at
  most one supervisor per camera, none out of the shutdown's reach, no clip
  abandoned by a restart, every camera ends up running what its row asks for.
* Software update: the row is read and written back whole around awaits, the
  process dies in the middle by design, and a release may boot and never reach
  the cloud. Correct: never bless what has not been answered, never prune what
  may have to be gone back to, never leave a site dark.

`PROJECT.json` lists the hazards one by one, each at its line, with the
properties that would catch it.

## 2. Modules

| Module | Models | Kind |
|---|---|---|
| `AlertDelivery` | what alert delivery promises for an (alert, sink) pair | abstract specification |
| `AlertOutbox` | frame handler's alert path, outbox, dispatcher, and the loops that delete under them | specification |
| `AlertOutboxProofs` | theorems about `AlertOutbox` | proofs |
| `StorageWatermark` | safety loop, recorder flag, bus and cloud pump | specification |
| `StorageWatermarkProofs` | theorems about `StorageWatermark` | proofs |
| `ClipFootage` | what the storage tiers promise about recorded footage | abstract specification |
| `ClipTiers` | recorder, cold replicator, eviction ladder, retention and cold-read cache on the clip rows they share | specification |
| `MCClipTiers` | one camera, for TLC | model |
| `ClipTiersProofs` | theorems about `ClipTiers` | proofs |
| `ClipFootageProofs` | `ClipTiers` implements `ClipFootage`; rows and files agree without failures | proofs |
| `ClipAnnounce` | enrollment, tunnel, replicator and cloud on the announcement of replicated clips | specification |
| `ClipAnnounceProofs` | theorems about `ClipAnnounce` | proofs |
| `ClipSession` | what recorder and supervisor promise each other about a clip id | abstract specification |
| `CameraRuntime` | reconciler, supervisors, open map and ingesters, shutdown | specification |
| `CameraRuntimeProofs` | theorems about `CameraRuntime` | proofs |
| `MotionClip` | the motion lifecycle of one supervisor against the recorder's answers | specification |
| `MotionClipProofs` | theorems about `MotionClip` | proofs |
| `ReleaseUpdate` | update row, release trees, applier, finaliser and watchdog over restarts | specification |
| `ReleaseUpdateProofs` | theorems about `ReleaseUpdate` | proofs |

How they fit together: `MotionClip` is the frame of one supervisor, which
`CameraRuntime` leaves free to open and close a clip at will; both are shown to
implement `ClipSession`, so what one relies on at `recorder.open` and
`recorder.close` is what the other gives. `ClipTiers` takes a
clip from its open on; `ClipAnnounce` takes the one step of its replicator that
uploads a clip apart and leaves the rest of its life out; `AlertOutbox` sees clips only as states of an alert;
`StorageWatermark` drives the panic flag `MotionClip` reads and the level
`ClipTiers` reads, both of which move freely there. `ReleaseUpdate` shares
nothing with the others but the process.

### AlertOutbox

State, by owner: `phase`, `age`, `snap`, `aclip`, `mclip` are what the store and
the disk hold about an alert (`phase` is also the frame handler's program
counter); `st`, `att`, `wait`, `id` are the outbox row's status, attempts,
next_attempt_at and id; `pc`, `cur`, `todo`, `clip`, `slow` are the sink tasks;
`sweep` is the list the pressure sweep has in hand; `calls`, `accepted`,
`condemned`, `firstSaid`, `deadSaid` record what happened, for the properties.

The actions carry the names of the functions where one function is one action;
`process_row` is cut at its awaits:

| Action | Code |
|---|---|
| `WriteSnapshot`, `record_event_and_enqueue`, `RecordFails`, `ArmAlertClip`, `LinkMotionClip` | the frame handler, in this order |
| `Tick` | `outbox_pending` and grouping by sink |
| `NextRow`, `GroupEnds` | the loop over a group, with its time budget |
| `Hydrate` | steps (1) to (3): event, policy verdict, sink lookup |
| `ResolveAlertClip`, `ResolveMotionLink`, `GetClip` | step (3.5) |
| `Deliver` | step (4), under the timeout |
| `MarkSent`, `schedule_retry`, `schedule_clip_wait`, `mark_dead`, `MarkSuppressed` | the marks |
| `Reclaim` | `reclaim_snapshot_if_drained` |
| `FinishAlertClip`, `CloseMotionClip`, `CloseFails` | recorder and builder |
| `SoftEvict`, `CascadeDelete`, `PruneTerminal`, `SweepList`, `SweepUnlink` | eviction, retention, snapshot sweep |
| `Reconfigure` | replacement of the sink registry |
| `Elapse`, `Crash` | the clock; an unclean stop and the next boot |

Abstractions. Time is relative (`age` counts up and saturates at the longest
grace window, `wait` counts down). A policy verdict, a snapshot write, an arm and
a link may each go either way. A delivery that fails transiently may have been
taken by the peer. Every store access made for a row may fail, `MaxFaults` times
in all. The clip of an alert has one state for its row and its file: `orphan` is
a row nobody will close, `nohot` a closed clip whose pointer or file is gone. An
alert clip that is ready may have lost its file (`ResolveAlertClip` then attaches
nothing). The eviction of alert clips waits for the alert's deliveries to drain,
so it cannot touch a pending row and is left to the clip lifecycle.

Bounds: `MaxFaults`, `MaxCrashes`, `MaxEdits`; one alert, one or two sinks, a
budget of two attempts. Two sinks are what the shared snapshot and the limit of
a batch need; a row's retry history repeats after the second attempt. In
`outbox_live` the batch takes both rows, so that the two sink tasks are at work at
the same time; `outbox_clips` tells the two grace windows apart. Two alerts share
nothing but the batch; with one, the time budget of a group (`slow`) never leaves a
row behind, which is covered by the proofs and by the instance with two alerts.

### StorageWatermark

`free` moves arbitrarily, `level`, `flag`, `pc`, `step` are the loop, `conn`,
`snapshot`, `queue` the pump, `cloud` what the tunnel last accepted. `silent`
records that the last change of level was made by a re-probe that publishes
nothing. `Sample`, `Publish`, `ReclaimStep`, `Reprobe` are the loop between its
awaits; `Subscribe`, `ReadLevel`, `SendSnapshot`, `Forward`, `Disconnect` the
pump. A failed probe leaves everything as it was. What a reclaim step deletes is
part of the disk's movement. The cfgs use a disk of 5 units with low 2, panic 1
and hysteresis 2, so that all three levels, the gap between low and the recovery
floor, and both sides of each threshold occur, batches of 3 steps with a re-probe
after every second, and a backlog of 2 so that lag happens.

### ClipTiers

`row`, `hot`, `cold`, `hashed`, `big`, `quar`, `att`, `next` are the columns of a
`motion_clips` row, `target` whether a tick finds a cold target it may write to
(configured, in the registry, neither read-only nor unreachable), `disk` the files under `clips_dir` (`young` those inside the
orphan scan's grace), `object` the clips the cold backend holds complete. `rec`
and `fin` are the recorder, `rep...` the replicator with its batch as it was
read, `ev...` the eviction step with its candidate as it was read, `sw...`,
`known`, `cand` the retention sweep, `job` the cache jobs. `pressed` remembers
which jobs had yet to download when the disk last came under pressure.

| Action | Code |
|---|---|
| `OpenFile`, `open_clip` | `GstClipRecorder::open`: the file, then the row |
| `CloseDiscards`, `discard_clip_metadata` | `close` of an empty or short clip |
| `CloseRenames`, `QuarantineDamaged`, `close_clip` | `close` of the others, in this order |
| `RepTick`, `RepNext` | the replicator's `tick`: its early returns, batch, size guard |
| `RepExists`, `RepRead`, `RepPut`, `mark_cold_replicated`, `record_cold_upload_failure` | `upload_one` and its failure path |
| `EvictFind`, `HardDelete`, `HardUnlink` | tier 3, and the hard pass of `evict_one` |
| `SoftUnlink`, `clear_hot_pointer` | the soft pass of `evict_one` |
| `SweepList`, `SweepUnlink`, `SweepDelete` | `sweep_once`, the horizon |
| `ScanKnown`, `ScanWalk`, `ScanReap` | `sweep_once`, the orphan scan |
| `Spawn` ... `repopulate_hot_pointer` | a cache job, cut at its awaits |
| `SetTarget` | `write_cold_replica`, the registry and the backend's health |
| `AgeClip`, `AgeFile`, `BackoffEnds`, `SetLevel`, `Crash` | clock, watermark, unclean stop |

Abstractions. A path is one of four names, as the recorder's in-flight and final
names, the cold path the cache writes to and its partial all differ. `age` tells
three things apart: fresh, past the abandoned-clip grace, past the horizon; a
recorder lets go of a clip before the first of these, as the comment on
`ABANDONED_CLIP_GRACE_MS` argues. `close` reads the head of the file, renames it
and hashes it in one step, since nobody else knows the file's name by then; any
of these may go wrong for a clip in `Defective`. Which of several candidates is
the oldest or the largest is an arbitrary choice, and so is the camera the round
robin reaches. Tiers 1 and 2 of the ladder only delay the others. The panic flag
does not keep a clip from being opened. A row's announcement is written with its
mark. A put that is reported as failed may have stored the object; an object
under a clip's path has the clip's hash. The walk of a scan is taken to end
within `ORPHAN_MIN_AGE` of the query before it. The batch limit of a retention
sweep is left out, and so are metadata-only marks such as `mark_clip_degraded`.

`ClipFootage` has four actions on closed clips: `Keep`, `Copy`, `Drop` (only while
a cold copy remains, or past the horizon) and `Delete`.

Bounds: one clip with one failure and one crash, a budget of two uploads. The
tasks relate two clips only through the batch, the job limit and the choice of a
candidate; the theorems hold for any number of them. One failure and one crash
are enough for every partial outcome of a step followed by every continuation.

### ClipAnnounce

`started`, `cold`, `url`, `owner`, `answer`, `att`, `due` are the columns of a clip's
row (either table); `enr` is the enrollment row, `tun` the core tunnel and blob
backend run with, `conn` whether a tunnel handle is installed; `msgs` and `acks` are
envelopes and answers under way, `blobs` and `listed` what containers and clip index
of the cloud hold; `pc`, `mode`, `lane`, `floor`, `todo`, `cur` are the replicator task.
`mixed` records that the box was enrolled as another core under a running tunnel.

| Action | Code |
|---|---|
| `Recorded` | a finished, hashed clip enters the pending set |
| `set_cloud_enrollment`, `clear_cloud_enrollment` | enrollment and detachment |
| `wait_for_enrollment`, `Connect`, `Disconnect`, `Restart` | the tunnel's supervisor; the engine |
| `Tick`, `UploadQuery`, `UploadNext` | `tick`, motion clips and then alert clips |
| `Put`, `UploadStamp`, `mark_cold_replicated` | `upload_one` and its twin for alert clips, on the arm with a URL |
| `SendOk`, `SendFails`, `record_clip_announce_sent` | `send_announce`, and the record of a send |
| `Backstop`, `ReBegin`, `ReQuery`, `ReNext`, `ReStamp`, `LaneEnds` | the polling arm of `run` and `reannounce` |
| `record_clip_announce_ack` | the tunnel applies an answer |
| `CloudStores`, `CloudRejects`, `Lost` | the cloud and the network (external) |
| `Elapse` | the clock |

Abstractions. An envelope id is fresh for every stamp, so an envelope only knows
whether its id is still on the row (`live`), and answers to others, which match no
row, are dropped. Time is relative; of the times that are past only the order is
kept, because the query sorts by it. Instants of recording and enrollment are
counted in enrollments (`era`). A transient failure that the cloud does not answer
and an answer the store cannot write are losses. Which clips upload backoff and
quarantine keep back is arbitrary. Only backends that yield a URL are modelled, the
others announce nothing. Deletion of clips is left to `ClipTiers`.

Bounds: `MaxEnroll`, `MaxDetach`, `MaxCrashes`, `MaxFaults`, and `MaxLate` overdue
times kept apart. Clips meet only in the batch: safety needs one clip, two cores,
two enrollments, a detachment, a restart and a failure; starvation needs two clips,
one of them never answered, and a batch of one.

### CameraRuntime

`rows` are the enabled camera rows; `rec` is the reconciler task with the rows it
read at the start of its pass; `handles`, `ing`, `sub` are the map of running
cameras, the recorder's main ingesters and the substream sessions; `sup` are the
supervisor tasks, `clips` the motion clips they hold; `main` and `drain` the
shutdown. `forced` records that some supervisor was aborted or panicked. The
initial states are those after boot: one supervisor per enabled row, whose main
ingester and substream session may each have failed to register
(`register_boot_sessions`) and are then left to `retry_sessions`.

| Action | Code |
|---|---|
| `FrameBegin` ... `CloseEnd` | a supervisor inside a frame: `recorder.open` (before the row, after its INSERT, in the open map) and `recorder.close` |
| `StopSeen`, `SourceEnds`, `Panic`, `AbortLands` | how a supervisor ends |
| `Edit` | whoever writes camera rows (API, fleet apply) |
| `PassBegin`, `PassEnd` | `reconcile` |
| `StopCamera`, `Stopped`, `StopTimeout` | `stop_camera` before its wait, after it, and after 20 s |
| `StartCamera`, `Register`, `Spawn` | `start_camera`: codec probe, `add_camera_ingester`, `start_sessions` with the spawn |
| `RetrySessions`, `SubstreamDrops` | `retry_sessions`; the fallback that ends a substream session |
| `JoinReconciler`, `AbortSupervisors`, `Snapshot`, `DrainClose`, `Exit` | the shutdown of `main.rs` and `recorder.shutdown` |

A step is one poll of a tokio task. `abort` drops a parked task where it is and
lets a task that is being polled run to its next await: which of the two happens
is a free choice. What an `EntryKey` compares is one value. A supervisor that
waits for a frame reacts to its stop within the 20 s, one inside a frame may not.

Bounds: one camera with two configurations, one of which has a substream, two
supervisor slots, two clips, two edits, one supervisor that ends by itself, one
refusal. Cameras share only the order of a pass.

`ClipSession` is this seen through the clip ids: for each supervisor (`Holder`)
whether it is asking for a clip, holds one or is giving it back (`step`), the clip
in its hand (`hand`), and the recorder's open map (`open`). A holder asks with
empty hands and gets a clip nobody else names; a clip leaves the open map through
its holder's close or the drain; a task may be dropped anywhere, and what its last
poll did to the open map stays. `StepOf` and `HandOf` are the refinement mapping.
A clip id is fresh (`AUTOINCREMENT`): `OpenRow` takes one that no supervisor names,
even one whose clip has already left the open map.

### MotionClip

`pc` is where the supervisor is in a frame; `clip`, `age`, `pending`, `retry`,
`delay`, `refused` are `current_clip`, the time since it was opened, and the state
of a pending open; `closing` is the post-roll; `panic` the recorder's flag.
`wanted` and `quiet` record the demand and the time since the last motion.
`Frame`, `Rotated`, `FrameCut`, `Resized`, `Tracked`, `Decide` are one frame in the
order of the code, `Opened`, `OpenRefused`, `OpenFailed`, `Backoff`, `Closed` the
recorder's answers, `Tick` the time between frames, `SetPanic` the watchdog.
Instants are kept relative to the next frame, so that no clock grows. Tracks are
one bit: one is alive, or none is. Bounds: a post-roll of 2, a cap of 3, delays
1 to 4 (two doublings), three failed opens, two panic episodes.

### ReleaseUpdate

`row` is the persisted `UpdateState`; `trees`, `link`, `staged` the release
directories, `current` and the staging area; `restart` a scheduled restart;
`running`, `proven`, `latched` the process; `task` its workers, each with the copy
of the row it read. `good` remembers the releases that have been answered.

| Action | Code |
|---|---|
| `Assignment`, `Acknowledge` | `handle_assignment`, around its write |
| `Rollback`, `RollbackWrite`, `RollbackFlip`, `RollbackFailed` | `handle_rollback` |
| `ApplyRead` ... `ApplyStage`, `ApplyUndo` | `apply_assignment` between its awaits |
| `ApplierExtract`, `ApplierExtracted`, `ApplierFlip` | the applier: `do_apply`, `flip_and_restart` |
| `ReflipRead`, `ReflipWrite`, `ReflipFlip` | `reflip_to` with `do_reflip` |
| `FinalStart` ... `FinalGuard` | `finalize_pending_update` |
| `PruneScan`, `PruneDelete` | `do_prune` |
| `WatchdogFires` | `run_cloud_liveness_watchdog` |
| `TunnelProof`, `Restart`, `Crash`, `Boot` | heartbeat answer, restart unit, death, systemd |

Releases in `Dark` boot and never reach the cloud. Any check of an assignment may
fail before the disk is touched. A read of the row may yield the empty row, a
write may be lost, the applier may stop at each of its steps, and a request may
meet an attempt in flight; each costs one `MaxMishaps`, so that `Undisturbed` can
say of a behaviour that none of it happened. The watchdog checks for no attempt in
flight either and may meet one in the same way. Left out, because no property
depends on them: progress reports, the applier's dependency installation, and its
refresh of the appliers and of the systemd unit (`refresh_appliers`,
`refresh_systemd_unit`, and `restore_systemd_unit` on the way back), which on any
failure warn and go on. A unit that keeps a release from starting is an engine death
to the model.

Bounds: three releases (the factory's, one that works, one that is dark), two
assignments, one rollback, one mishap, one outage of a healthy release, three
deaths (the crash-loop guard acts on the third mismatch).

## 3. Runs

| Run | Instance | States | Checks | Shows |
|---|---|---|---|---|
| `outbox_clips` | 1 alert, 1 clip sink, clips, eviction, sweep, edit, crash, failure | 1,500,788 | `TypeOK`, `AttemptBudget`, `OutcomesTrue`, `BareOnlyAfterGrace`, `Contract` | delivery refines `AlertDelivery`; deliveries per row are bounded and the budget is spent in full before a row dies; a failure that is retried is announced, and once, and `Dead` only of rows given up with reason; no bare alarm while the link is being made |
| `outbox_live` | 1 alert, 2 sinks in one batch, clips, no crash or failure, fair | 556,571 | `SnapshotOutlivesPending`, `EveryAlertSettles` | concurrent sinks never reclaim a snapshot still needed; no alert is held for ever |
| `outbox_crash_hold` | 1 alert, 1 clip sink, 1 crash, fair | | `EveryAlertSettles` | violated: finding 1 |
| `watermark` | 5 units, fair | 35,754 | `TypeOK`, `FlagFollowsLevel`, `CloudConverged`, `LevelTracksDisk`, `CloudLearnsRecovery` | flag and cloud follow every published transition; recovery and panic are eventually seen |
| `tiers_safety` | 1 clip that may be defective, 1 failure, 1 crash | 728,198 | `TypeOK`, `FootageSurvives`, `RecorderKeepsRow`, `RowsMatchFiles`, `KeepsFootage` | the five tasks refine `ClipFootage`, never drop the last copy or claim a cold one that is not there, never delete a row under the recorder, and without a failure leave neither a dangling pointer nor a stray file |
| `tiers_live` | 1 clip, 2 attempts, 1 crash, a cold target that comes and goes, fair | 139,644 | `QueueDrains`, `OrphansReaped` | while ticks find a writable target every closed clip leaves the upload queue; every leaked file is deleted |
| `announce` | 1 clip, 2 cores, 2 enrollments, 1 detachment, 1 restart, 1 failure | 2,549,270 | `TypeOK`, `ColdIsAnnounceable`, `ListedPlays` | whatever fails between put, stamp, mark and send, a cold clip can be announced; the cloud lists no clip of a container it does not hold, and lists every clip whose row says it was stored, unless the box is re-enrolled under a running tunnel |
| `announce_live` | 2 clips, 1 never answered, batch of 1, fair | 77,574 | `NeverStarved` | order and backoff of the re-announcement let every clip that can be answered through |
| `cameras` | 1 camera, 2 configurations, 2 slots, 2 clips, fair | 274,710 | `TypeOK`, `SweepReachesAll`, `ClipsOwned`, `IngesterOutlives`, `SessionKept`, `Converges` | restarts, refusals, aborts and a shutdown at any point never double, lose or starve a supervisor, and abandon no clip without an abort; tasks and open map refine `ClipSession` |
| `cameras_late_open` | 1 camera, shutdown | | `NoLateOpen` | violated: finding 2 |
| `motion_clip` | post-roll 2, cap 3, 3 failures, 2 panics, fair | 20,903 | `TypeOK`, `DemandKept`, `ClosesAfterGrace`, `SessionKept`, `EventuallyOpens` | no order of refusals, failures, rotations and panic loses wanted footage or delays the next event; the supervisor refines `ClipSession` |
| `update` | 3 releases, 2 assignments, 1 rollback, 1 mishap, 3 deaths, fair | 1,254,317 | `TypeOK`, `SafetyNet`, `UnprovenIsJudged`, `SettledMatches`, `BlessedIsGood`, `GoDarkRecovers` | an unanswered release is never blessed; undisturbed it is always judged and replaced, and pruning spares what may be gone back to |

The cfgs of outbox, tiers, cameras and update switch deadlock checking off: once
every alert is settled, every clip deleted, the engine shut down or every request
answered, and the bounds are used up, the model may stop. Watermark,
announcement and motion clip keep it on.

Larger instances were checked while the modules were written and are not kept as
runs because of their time: two alerts of one sink in one batch, with a store
failure and a crash and without clips (10 million states); earlier forms of the
modules with two clips of one camera and with two cameras.

The definitions named `Bug_...` or commented as mutants are mutated forms of the
definitions that follow them (a dropped guard, an off-by-one, a missing reset);
for each property, `PROJECT.json` names the one that breaks it.

### Fairness

* Outbox: weak fairness of `Elapse` (the clock), `Tick` (the dispatcher's
  interval), each sink's `TaskStep` (a delivery ends at its ceiling, store calls
  return) and each `CloseMotionClip` (a camera task that lives closes its clip at
  the rotation bound at the latest). Nothing is assumed of the alert-clip builder,
  the evictors, the frame handler or the operator.
* Watermark: weak fairness of the loop and of the pump. Disk, disconnections and
  restarts are free. The first half of `LevelTracksDisk` speaks of disks that can reach
  `LowPct + Hysteresis`; the administration API accepts a `low_pct` for which no
  disk can.
* Tiers: weak fairness of the replicator and of the sweeper (timer-driven loops
  that live as long as the engine), of each cache job (backends time out) and of
  each backoff (the clock). A tick without a writable target does nothing, so
  `QueueDrains` speaks of behaviours in which the target is there from some point
  on, whichever of its calls fail; strong fairness of the ageing of each file, because
  the model lets no file age during a scan's walk while the clock goes on.
  Nothing is assumed of the recorder, the evictor, the disk or the success of a
  call to the backend.
* Announcement: weak fairness of the replicator and of the wait for an enrollment;
  strong fairness of the backstop (the select of `run` is biased and polls the
  interval before the bus) and of the clock; for each clip, of infinitely many
  sends, of envelopes that reach the cloud and of answers that reach the tunnel some
  go through. `NeverStarved` speaks of behaviours in which the tunnel stays up in
  the end; nothing is assumed of uploads or of the operator.
* Cameras: weak fairness of the reconciler (a 30 s tick, and every wait of a pass
  has a time limit), of a supervisor that waits for a frame and has been told to
  stop (the select is biased to the stop), and of an abort landing. Nothing is
  assumed of a supervisor inside a frame or a recorder call, of the shutdown, or
  of the rows. A pass that cannot read the rows ends at once and changes nothing;
  fairness asks that some later pass reads them. `Converges` speaks of behaviours that are not shut down; the
  bounds on edits, exits and refusals make "the rows stay put" true in the end.
* Motion clip: strong fairness of time, of frames and of frames that get as far as
  the tracker, because each is switched off while the other steps of a frame are
  under way; weak fairness of the recorder's answers and of the end of a panic
  episode (`LevelTracksDisk` of the watermark, for a disk that eviction can relieve).
  Without frames nothing is recorded, and the code promises nothing then.
* Update: weak fairness of every task, of systemd (restart and boot), of the
  answer to a heartbeat of a release that can reach the cloud, and of the
  watchdog's window on one that cannot. The last is asked for only while nothing of
  an attempt is left but a download (`Waiting`): the watchdog's grace of fifteen
  minutes and its window of hours outlast every other wait of the process, of which
  the finaliser's ten minutes is the longest, but not the download, which has no time
  limit. It is an assumption on time, not a guard: the step itself may come at any
  time. Requests, faults and outages are free.

## 4. Findings

1. A clip linked to an alert and left open, by a crash or by a close that failed
   at its last write, is awaited without any grace window: the alert is never
   delivered (`dispatcher.rs:871`; its docs say every clip wait is bounded).
2. The shutdown aborts supervisors without joining them; one that is being polled
   can still enter a clip into the open map after the recorder has taken its
   snapshot of it, and nobody closes that clip (`main.rs:2241`).

`PROJECT.json` quotes the texts these contradict. The second list: further
divergences that are stated as properties in the modules and have no run of their
own. Each is violated when it is made the only property of the cfg named here
(as `INVARIANT` or `PROPERTY`):

* `SnapshotNeverSwept` (`OutboxClips.cfg`, invariant): the pressure sweep can delete
  a snapshot written moments before its event row (`storage_safety.rs:706`).
* `DeadIsFinal` (`OutboxClips.cfg`, property): a `Dead` outcome is published even if
  the row could not be marked dead, and the alert may be delivered later
  (`dispatcher.rs:1150`). Without a store failure or a crash it is final
  (`DeadIsFinalUnlessMishap`, proved).
* `FirstFailureAlwaysSaid` (`OutboxClips.cfg`, invariant): `FirstFailure` is published
  "iff this `deliver()` call was the row's first" (`dispatcher.rs:1061-1063`); a store
  failure before the delivery schedules a retry, which bumps the attempts without an
  announcement, and the sink's first failure then goes unannounced. Without a mishap
  it is announced (`OutcomesTrue`, proved).
* `PanicRefuses` (`Watermark.cfg`, property): a move from Low to Panic found by a
  re-probe never raises the recorder's flag (`storage_safety.rs:537`).
* `HysteresisOnWayDown` (`Watermark.cfg`, property): Panic goes to Low without the
  documented hysteresis (`storage_safety.rs:357`).
* `CloudFollowsLevel` (`Watermark.cfg`, invariant): a move between Low and Panic
  found by a re-probe is not published to the cloud (`storage_safety.rs:537`).
* `HardEvictSparesCold` (`TiersSafety.cfg`, property): hard eviction decides on a row
  and deletes it by id two awaits later; a clip replicated in between is deleted
  and its cold object orphaned (`storage_safety.rs:861`).
* `CancelledUnderPressure` (`TiersSafety.cfg`, property): a rehydrate job that has
  its permit and has not yet polled its `select!` misses the pressure notification
  and writes to the full disk (`cold_read_cache.rs:344`).
* `ScanSparesClips` (`TiersSafety.cfg`, property): a crash between the rename and
  `close_clip` leaves a finished recording under a name its row does not know; the
  orphan scan deletes it (`gst_clip_recorder.rs:1292`). It takes a crash or a failed
  access (`ScanSparesClipsUnlessFault`, proved).
* `PlaysAfterPressure` (`TiersSafety.cfg`, invariant): a soft eviction that fails to
  clear the pointer after the unlink is repaired only by a later pressure episode;
  until then playback answers 404 although the cold copy is there
  (`storage_safety.rs:833`).
* `RollbackTargetOnDisk` (`Update.cfg`, invariant): `previous_good` is taken from the
  row, which names the target of the attempt before; if the engine died between that
  write and the flip, the next assignment records a release that was never unpacked
  as the one to go back to (`cloud_update.rs:413`).
* `PriorNeverResent` (`Announce.cfg`, invariant): `reannounce` says that "Only clips
  uploaded under the current enrollment's core ... are re-sent — a prior
  enrollment's never" (`cold_replicator.rs:721-723`). The stamp takes its core from
  the enrollment row (`motion.rs:1137`), while backend and tunnel keep the material
  of the enrollment before until the restart `admin_cloud.rs:282-286` asks for. A
  clip uploaded in between lies in the old core's container, is stamped as the new
  core's, and is announced to the new core after the restart.
* `InFlightNeverEvicted` (`TiersSafety.cfg`, invariant): `close` quarantines a damaged
  clip before it closes the row, and tier 3 deletes quarantined rows whether open
  or not (`motion.rs:1420`).

Smaller observations, made while modelling and not stated as properties:

* The watchdog's reflip and a requested rollback keep `previous_good` as it is, so
  after one of them it names the release that runs. An outage then makes the
  watchdog "go back" to the running release and restart it once per boot, for as
  long as the outage lasts (`cloud_liveness.rs:36-44` argues that one reflip per
  boot means "we stay there").
* `install_release` says "A non-zero exit means the version did NOT take effect"
  (`cloud_update.rs:747`); the applier can also fail after its `ln -sfn`, and the
  next boot then runs the release the row calls failed. This is why the update
  properties other than `BlessedIsGood` speak of undisturbed behaviours.
* The crash-loop guard counts boots on another release than the row's, not boots
  of a new release that crashes (`docs/INSTALL.md:1360` says "counts the failed
  boots").
* An assignment that fails while the finaliser waits for its proof writes phase
  `failed` over `restarting`; a restart in that window leaves the unproven release
  unjudged, but for the watchdog.
* A comment in `stop_camera` says that `main.rs` "aborts the reconciler without
  joining it" (`reconciler.rs:683`); it joins it (`main.rs:2228-2233`).

## 5. Proofs

The proofs hold for any sets of alerts and sinks, any grace windows, thresholds,
batch sizes, capacities, backoffs and fault budgets that satisfy the modules'
assumptions (`ConstantsAssumption`: subsets and naturals, and a link grace no
longer than the build grace; `WatermarkAssumption`: naturals, and panic no higher
than low; `TiersAssumption`: any clips and cameras, positive batch, job and
attempt limits, any number of failures and crashes; `ConfigAssumption` and
`VersionAssumption`: the null values are not configurations, clips or releases,
the factory release is not dark; `DelayAssumption`: positive delays in order;
`AnnounceAssumption`: null values apart, a positive batch; all budgets naturals).

`AlertOutboxProofs`:

* `TypeCorrect`. `TypeOK` is not inductive: a mark is applied to the row of a
  task's current event, which must be an event. `TypeInv` adds `RowInHand`: a
  task inside `process_row` holds an event.
* `SnapshotSafe` and `ImplementsContract` rest on `DeliveryInv`: the rows a task
  holds or has still to take were enqueued and are pending or deleted, because
  nobody but the sink's own task settles them and none is taken twice in a tick;
  a row at the mark `sent` was accepted; an event without an events row has no
  outbox rows; a reclaimed snapshot has no pending row. `ImplementsContract` is
  the refinement itself: `st` and `accepted` map to themselves, the enqueue to
  `Publish`, a delivery to `Accept`, the marks to `Settle`, the deletions to
  `Delete`, everything else to a stutter.
* `BoundedDeliveries` and the `FirstFailure` half of `OutcomesHonest` rest on
  `BudgetInv`, which ties the attempts column to the history: it lags the `deliver()` calls of
  an open row, and exceeds them, only by as much as store failures and crashes
  explain, with one call more while a delivery is not yet marked; a row that can
  still be delivered has attempts left.
* `OutcomesHonest` (`OutcomesTrue`) and `DeadStaysDead` rest on `DeadInv`: a row
  `Dead` was said of is hopeless (condemned, out of budget, or without its event)
  and was enqueued; without mishaps it is settled and in nobody's work, neither in
  a batch nor in a task's hands, which is why no later step can deliver it. A row
  in work that is no longer there has lost its event.
* `NotBareInGrace` (`BareOnlyAfterGrace`) rests on `GraceInv`: an alert has no alert
  clip before it is armed and no motion clip before the frame handler is done with
  it, so a task that is about to read a linked clip knows the handler is done, even
  if the clip is discarded or deleted before it reads.

`StorageWatermarkProofs`: `WatermarkInv` joins the types, `FlagFollowsLevel` and
`PumpInv`. `PumpInv` says which level the cloud will show when the pump
has consumed what it already holds: the last message of the backlog if there is
one, otherwise the snapshot it read or the level it sent; that level is the
box's unless a publication is due or the last change was silent.
`RecorderHysteresis` (`ChangesAtTheBand`) is what `observe` and its callers keep of
the hysteresis the doc comment of `WatermarkController` promises: the recorder's flag
is raised only by a reading at or below the panic threshold and cleared only by one
at the recovery floor or by a restart, and Ok is left only at the low threshold and
regained only at the floor. Low and Panic have no band between them
(`storage_safety.rs:357`), so the level the cloud shows may go back and forth
between these two (`HysteresisOnWayDown`, section 4).

`ClipTiersProofs`: `TiersInv` is proved inductive with one lemma per task
(`RecorderStep`, `ReplicatorStep`, `EvictorStep`, `SweeperStep`, `CacheStep`,
`EnvironmentStep`). None of the properties is inductive alone, because every task
acts on what it read earlier. `TiersInv` adds to the types:

* `RowInv`: a clip the recorder holds has an open row and no cold copy, a damaged
  one apart; a cold pointer is backed by an object and excludes quarantine.
* `TaskInv`: what a task may still believe of the row it holds. A clip of the
  replicator's batch was closed, hashed and not quarantined, and nobody but the
  replicator changes that until it is deleted; a soft candidate keeps its cold
  copy or is deleted; a clip the sweep has listed is past the horizon.
* `FilesInv`: a closed clip inside the horizon without a cold copy has the file
  its row names, and no scan under way has that file on its list: either it was
  in the known paths or it is too young. This is the argument that makes
  `FootageKept` true against a scan that works on two listings of different age.

`ClipFootageProofs` builds on `TiersInv`:

* `ImplementsFootage`: `Spec => KeepsFootage`. Each step is shown to change what
  `ClipFootage` sees of at most one clip (`SameBut`, `ElseUntouched`) and is then
  mapped: the recorder's close to `Keep`, the replicator's mark, a rename onto a
  named cache path and a repopulated pointer to `Copy`, an unlink or a cleared
  pointer to `Drop`, a deleted row to `Delete`, a clip reaching the horizon to
  `Expire`, everything else to a stutter. `LastCopy`, from `FilesInv`, is what makes
  the unlinks legal.
* `RowsAndFilesAgree` (`RowsMatchFiles`), both directions as long as every failure
  and crash is still to come. For the rows, `CleanInv` says that a cache job works
  only for a clip that is cold alone (`JobInv`), that what the evictor read of its
  soft candidate still holds and its file stays away once unlinked (`SoftInv`), that
  neither the file a closed row names nor the one a job is about to register can be
  on the scan's list (`NamedInv`, `CacheInv`), and that a pointer dangles only
  between the evictor's unlink and its clear (`PlayInv`). For the files, `LooseInv`
  says of every clip that is not deleted that each of its files is held by a task
  or named by the row, is young while it is held, is known or young while the scan
  walks, and is on no list of orphans; and that recorder and cache job have one
  file at a time, without which a rename could leave its source behind. One failure
  is enough to lose either (`PlaysAfterPressure`, `ScanSparesClips`, section 4).
* `ScanSparesRows` (`ScanSparesClipsUnlessFault`): an action property from the same
  invariant. What the scan unlinks was on its list, and the clip of such a file is
  deleted; a deleted row does not come back.

`ClipAnnounceProofs`: `IInv` joins the types with

* `TaskInv`: where in its loop the replicator holds clips, and that it does so only
  with a backend;
* `UrlInv`: a URL on a row is that of a blob, and a cold row has one. The second
  half is `ColdAlwaysAnnounceable`; it needs `HandInv`, because the mark comes a step
  after the stamp and the stamp a step after the put;
* `HandInv`: what holds of the clip in hand and of the batch read before it, above
  all that a clip about to be sent lies in the container of the tunnel's core;
* `CoreInv`: as long as the box was not re-enrolled under a running tunnel, tunnel and
  enrollment agree, a row's owner is the core of its container, and every envelope
  under way speaks of a blob. `ListedAlwaysPlays` is a part of it and is not inductive
  alone, because a clip is listed long after it was read, stamped and sent.

`AnswerInv` is proved inductive on top of `IInv`: the clips in the replicator's
hands are cold exactly where its loop says so (`ColdHand`), an envelope whose id is
still on its row carries the row's URL, answers are those of cold rows (`ColdMail`,
which is what keeps a late answer from settling a row that was stamped again), and
under one core every envelope names its own container and every stored answer a
listed clip (`StoredInv`). The second half of `ListedPlays` follows, and
`PriorStaysPrior`: without a re-enrollment under a running tunnel `PriorNeverResent`
(section 4) holds.

`CameraRuntimeProofs`: `IInv` joins the types with

* `RecInv`: what the reconciler knows at each step of a pass, above all that the
  camera it starts has no supervisor left that nobody has told to die, and that
  the one it stops is the one in the entry;
* `PendingInv`: an entry waits for its main ingester only while there is none,
  which is what lets `retry_sessions` register one without replacing another;
* `SweepReachesAll` itself, by which a camera never has two supervisors that nobody
  has told to die (they would share its entry);
* `OwnInv`: without an abort or a panic, every unfinished clip is held by exactly
  one live supervisor whose `pc` matches the clip's state.

`IngestersOutlive` is an action property proved from the same invariant: an
ingester changes only in `Remove`, after the supervisor has ended or was aborted,
and in the two registrations, which find none.

`SessionIsKept` is the refinement of `ClipSession`. It needs `HoldInv`: at every
`pc` of a supervisor the clip it names is in the state `recorder.open` and
`recorder.close` have left it in, and no two supervisors name one clip. The second
half holds only because a new id is unlike every id a supervisor still names. A
step of the reconciler or of the shutdown maps to `Drop` or a stutter, a poll that
an abort lets finish to `DropGranted` or `DropReturning`.

`MotionClipProofs`: `IInv` joins the types with `BornIsLive`, `DemandInv` and
`RetryInv` (the two halves of `DemandKept` extended to every point inside a frame, where the
clip is half open or half closed and the frame's own motion is not yet counted)
and `GraceInv` (what is left of the post-roll and the quiet time make up at least
the whole window), from which `ClosesOnlyAfterGrace` follows. `SessionIsKept` maps
the one supervisor and its clip to a `ClipSession` with one holder: by `IInv` an
open is asked for only without a clip, and a close only with one.

`ReleaseUpdateProofs`: `IInv` is `Basic` and `SerialInv`. `Basic` holds whatever goes
wrong: types, `TargetInv`, and `BlessInv`, by which no copy of the row in any task's
hands calls an unproven release a success, so that no stale write can
(`NeverBlessedUnproven`). `SerialInv` says that while nothing has disturbed the
update path it is `Calm`: one worker at a time; `NetInv`, `current` and the rollback
target are whole, the target has been answered, and an unproven `current` has a
target and a row under judgement; `RowInv`, the row names `current` unless somebody
is about to flip; and `StepInv`, what each `pc` knows of row and disk. `NetIsWhole`,
`UnprovenAlwaysJudged` and `SettledRowMatches` are its consequences, and so is the
action property `NeverFromBadToBad` (`BackToGoodOnly`): the link moves in three
steps only (`LinkMoves`), and `StepInv` says of each where it may lead.

Only model-checked: liveness (`EveryAlertSettles`, `LevelTracksDisk`,
`CloudLearnsRecovery`, `QueueDrains`, `OrphansReaped`, `Converges`,
`EventuallyOpens`, `GoDarkRecovers`, `NeverStarved`), which is outside the
prover's reach. Every invariant, action property and refinement of a passing run
is proved. `DeadIsFinalUnlessMishap`, `ChangesAtTheBand`,
`ScanSparesClipsUnlessFault` and `BackToGoodOnly` are proved and in no cfg; TLC
confirms them when they are added as `PROPERTY` to `OutboxClips.cfg`,
`Watermark.cfg`, `TiersSafety.cfg` and `Update.cfg`.

## 6. Not modelled, and the plan

Not modelled, and why:

* The largest part of the repository by lines is request handling (`api.rs` and
  the administration runtime), media graphs, inference, tracking, rule evaluation,
  configuration types and the web UI. Request handlers read or write the store
  once per request and have no protocol of their own; their effect on the modelled
  parts is an edit of a row, which the models make at any time. Media graphs and
  inference live in external libraries and numerical code, where the order of
  events is not what makes the result right: an alert simply fires, motion simply
  appears, a close simply fails.
* Authentication, discovery, device control, live view and remote shell: sessions
  with external peers.
* The contents of alerts; clocks that step backwards; the delivery statistics
  (`outbox_counts_since`); the verdict of the delivery policy (any verdict may be
  given); the signatures of releases (any check may fail).

Order of work, most important first:

1. *Done.* `AlertDelivery`, `AlertOutbox`, `StorageWatermark` and their proofs.
2. *Done.* `ClipFootage`, `ClipTiers` and its invariant.
3. *Done.* `CameraRuntime`, `MotionClip`, `ReleaseUpdate` and their proofs.
4. *Done.* `ClipAnnounce` and its proofs.
5. Alert clips: the builder's window, joins, finish and the byte-budget eviction
   that waits for deliveries to drain.
6. *Done.* `ClipFootageProofs`, the proof of `BareOnlyAfterGrace`, `ClipSession` and
   its two refinements, and the proofs of what holds of the second list of section 4
   while nothing fails.
