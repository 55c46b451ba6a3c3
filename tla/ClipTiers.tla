----------------------------- MODULE ClipTiers -----------------------------
(***************************************************************************)
(* The life of a motion clip across its two storage tiers.  Five tasks     *)
(* work on one motion_clips row, its files under clips_dir and its object  *)
(* on the cold backend, and share no lock:                                 *)
(*   - the recorder opens, renames and closes the clip                     *)
(*     (nexus-pipeline/src/gst_clip_recorder.rs);                          *)
(*   - the cold replicator uploads it (nexus-engine/src/cold_replicator.rs)*)
(*   - the pressure ladder drops its hot copy or deletes it                *)
(*     (nexus-engine/src/storage_safety.rs);                               *)
(*   - retention deletes it at the horizon and then reaps files that no    *)
(*     row names (nexus-engine/src/retention.rs);                          *)
(*   - the cold-read cache brings the hot copy back                        *)
(*     (nexus-engine/src/cold_read_cache.rs).                              *)
(*                                                                         *)
(* One action is what a task does up to its next access to a row, a file   *)
(* or an object that others use.  A store call may fail, and the engine    *)
(* may crash, as often as the bounds allow.                                *)
(***************************************************************************)
EXTENDS Integers, FiniteSets

CONSTANTS
    Clip,               \* clips; an id is never reused (AUTOINCREMENT)
    NoClip,
    Camera,             \* camera of a clip, a function on Clip
    Eligible,           \* clips not older than the enrollment floor
    Defective,          \* clips whose file close() may find wanting
    Announces,          \* the backend returns a cloud URL to announce
    Batch,              \* BATCH_SIZE
    MaxColdAttempts,    \* MAX_COLD_ATTEMPTS
    MaxInflight,        \* CACHE_MAX_INFLIGHT
    MaxFaults,          \* bound: store or file operations that fail
    MaxCrashes          \* bound: engine crashes

ASSUME TiersAssumption ==
    /\ NoClip \notin Clip
    /\ Eligible \subseteq Clip /\ Defective \subseteq Clip
    /\ Announces \in BOOLEAN
    /\ Batch \in Nat \ {0} /\ MaxInflight \in Nat \ {0}
    /\ MaxColdAttempts \in Nat \ {0}
    /\ MaxFaults \in Nat /\ MaxCrashes \in Nat

VARIABLES
    row,        \* motion_clips row: absent, recording, ended_at set, deleted
    hot,        \* hot_path: which file the row names
    cold,       \* cold_handle IS NOT NULL
    hashed,     \* sha256 IS NOT NULL
    big,        \* size_bytes > max_cold_upload_bytes
    quar,       \* cold_quarantined
    att,        \* cold_attempts
    next,       \* cold_next_attempt_at: NULL, in the future, in the past
    age,        \* 0, 1 past ABANDONED_CLIP_GRACE_MS, 2 past the horizon
    disk,       \* files under clips_dir
    young,      \* those younger than ORPHAN_MIN_AGE
    object,     \* clips the cold backend holds complete
    rec,        \* where the recorder stands with a clip
    fin,        \* what close() found: the file, its hash, size and layout
    repPc, repCur, repTodo, repPath,    \* replicator: batch as it was read
    evPc, evClip, evPath,               \* eviction step: candidate as read
    swPc, swCur, swTodo, swPath,        \* retention sweep: rows as read
    known, cand,                        \* orphan scan: known paths, orphans
    job,        \* where the cache job of a clip stands
    pressed,    \* jobs yet to download when the disk last came under pressure
    level,      \* WatermarkSignal
    target,     \* the replicator's tick finds a cold backend it may write to
    faultsLeft, crashesLeft

rowVars  == <<row, hot, cold, hashed, big, quar, att, next>>
fileVars == <<disk, young>>
recVars  == <<rec, fin>>
repVars  == <<repPc, repCur, repTodo, repPath>>
evVars   == <<evPc, evClip, evPath>>
swVars   == <<swPc, swCur, swTodo, swPath, known, cand>>
jobVars  == <<job, pressed>>
vars == <<rowVars, fileVars, recVars, repVars, evVars, swVars, jobVars,
          object, age, level, target, faultsLeft, crashesLeft>>

Path == {"null", "inflight", "final", "cache"}

(* The cache's canonical path is the cold path, <dir>/<id>.mp4, and its    *)
(* partial lies next to it: both differ from the names the recorder uses.  *)
File == Clip \X {"inflight", "final", "cache", "partial"}

Exists(c) == row[c] \in {"open", "closed"}

TypeOK ==
    /\ row \in [Clip -> {"none", "open", "closed", "gone"}]
    /\ hot \in [Clip -> Path]
    /\ cold \in [Clip -> BOOLEAN]
    /\ hashed \in [Clip -> BOOLEAN]
    /\ big \in [Clip -> BOOLEAN]
    /\ quar \in [Clip -> BOOLEAN]
    /\ att \in [Clip -> 0..MaxColdAttempts]
    /\ next \in [Clip -> {"null", "future", "past"}]
    /\ age \in [Clip -> 0..2]
    /\ disk \in SUBSET File
    /\ young \in SUBSET disk
    /\ object \in SUBSET Clip
    /\ rec \in [Clip -> {"idle", "opening", "recording", "discard", "damaged", "close"}]
    /\ fin \in [Clip -> [path : Path, hash : BOOLEAN, big : BOOLEAN, bad : BOOLEAN]]
    /\ repPc \in {"idle", "next", "exists", "read", "put", "mark", "fail"}
    /\ repCur \in Clip \cup {NoClip}
    /\ repTodo \in SUBSET Clip
    /\ repPath \in [Clip -> Path]
    /\ evPc \in {"idle", "unlink", "clear", "delete", "reap"}
    /\ evClip \in Clip \cup {NoClip}
    /\ evPath \in Path
    /\ swPc \in {"idle", "clips", "delete", "known", "walk", "reap"}
    /\ swCur \in Clip \cup {NoClip}
    /\ swTodo \in SUBSET Clip
    /\ swPath \in [Clip -> Path]
    /\ known \in SUBSET File
    /\ cand \in SUBSET File
    /\ job \in [Clip -> {"none", "queued", "permit", "found", "loading",
                         "verified", "partial", "renamed"}]
    /\ pressed \in SUBSET Clip
    /\ level \in {"Ok", "Low", "Panic"}
    /\ target \in BOOLEAN
    /\ faultsLeft \in Nat
    /\ crashesLeft \in Nat

NoFin == [path |-> "null", hash |-> FALSE, big |-> FALSE, bad |-> FALSE]

Init ==
    /\ row = [c \in Clip |-> "none"]
    /\ hot = [c \in Clip |-> "null"]
    /\ cold = [c \in Clip |-> FALSE]
    /\ hashed = [c \in Clip |-> FALSE]
    /\ big = [c \in Clip |-> FALSE]
    /\ quar = [c \in Clip |-> FALSE]
    /\ att = [c \in Clip |-> 0]
    /\ next = [c \in Clip |-> "null"]
    /\ age = [c \in Clip |-> 0]
    /\ disk = {} /\ young = {} /\ object = {}
    /\ rec = [c \in Clip |-> "idle"]
    /\ fin = [c \in Clip |-> NoFin]
    /\ repPc = "idle" /\ repCur = NoClip /\ repTodo = {}
    /\ repPath = [c \in Clip |-> "null"]
    /\ evPc = "idle" /\ evClip = NoClip /\ evPath = "null"
    /\ swPc = "idle" /\ swCur = NoClip /\ swTodo = {}
    /\ swPath = [c \in Clip |-> "null"]
    /\ known = {} /\ cand = {}
    /\ job = [c \in Clip |-> "none"]
    /\ pressed = {}
    /\ level = "Ok"
    /\ target \in BOOLEAN
    /\ faultsLeft = MaxFaults
    /\ crashesLeft = MaxCrashes

Fault == faultsLeft > 0 /\ faultsLeft' = faultsLeft - 1
NoFault == UNCHANGED faultsLeft

Write(f) == disk' = disk \cup {f} /\ young' = young \cup {f}
Unlink(f) == disk' = disk \ {f} /\ young' = young \ {f}
Rename(f, g) ==
    /\ disk' = (disk \ {f}) \cup {g}
    /\ young' = (young \ {f}) \cup {g}

(* cascade_delete_clip_metadata, discard_clip_metadata: the row goes, and  *)
(* with it every column.  Its size is kept here for the batches that read  *)
(* it: no step changes size_bytes once the clip is closed.                 *)
DropRow(c) ==
    /\ row' = [row EXCEPT ![c] = "gone"]
    /\ hot' = [hot EXCEPT ![c] = "null"]
    /\ cold' = [cold EXCEPT ![c] = FALSE]
    /\ hashed' = [hashed EXCEPT ![c] = FALSE]
    /\ UNCHANGED big
    /\ quar' = [quar EXCEPT ![c] = FALSE]
    /\ att' = [att EXCEPT ![c] = 0]
    /\ next' = [next EXCEPT ![c] = "null"]

-----------------------------------------------------------------------------
(* The recorder.                                                           *)

RecFrame == UNCHANGED <<repVars, evVars, swVars, jobVars, object, age, level, target,
                      crashesLeft>>

(* open(): the pipeline creates the in-flight file, then the row follows.  *)
OpenFile(c) ==
    /\ row[c] = "none" /\ rec[c] = "idle" /\ <<c, "inflight">> \notin disk
    /\ rec' = [rec EXCEPT ![c] = "opening"]
    /\ Write(<<c, "inflight">>)
    /\ NoFault
    /\ UNCHANGED <<rowVars, fin>>
    /\ RecFrame

open_clip(c) ==
    /\ rec[c] = "opening"
    /\ \/ /\ NoFault
          /\ row' = [row EXCEPT ![c] = "open"]
          /\ hot' = [hot EXCEPT ![c] = "inflight"]
          /\ rec' = [rec EXCEPT ![c] = "recording"]
          /\ UNCHANGED fileVars
       \/ /\ Fault
          /\ rec' = [rec EXCEPT ![c] = "idle"]
          /\ Unlink(<<c, "inflight">>)
          /\ UNCHANGED <<row, hot>>
    /\ UNCHANGED <<cold, hashed, big, quar, att, next, fin>>
    /\ RecFrame

(* close() of an empty or too short clip: the file, then the row.  A file  *)
(* that cannot be unlinked is left to the orphan scan.                     *)
CloseDiscards(c) ==
    /\ rec[c] = "recording"
    /\ rec' = [rec EXCEPT ![c] = "discard"]
    /\ \/ Fault /\ UNCHANGED fileVars
       \/ NoFault /\ Unlink(<<c, "inflight">>)
    /\ UNCHANGED <<rowVars, fin>>
    /\ RecFrame

discard_clip_metadata(c) ==
    /\ rec[c] = "discard"
    /\ rec' = [rec EXCEPT ![c] = "idle"]
    /\ \/ Fault /\ UNCHANGED rowVars
       \/ NoFault /\ DropRow(c)
    /\ UNCHANGED <<fileVars, fin>>
    /\ RecFrame

(* close() of a clip worth keeping: rename to the final name (the row will *)
(* keep the in-flight path if that fails), hash, inspect the layout.  A    *)
(* rename or a hash may fail, the layout be torn, the file be oversized.   *)
CloseRenames(c) ==
    /\ rec[c] = "recording"
    /\ \E renamed, hash, damaged, balloon \in BOOLEAN :
          /\ c \in Defective \/ (renamed /\ hash /\ ~damaged /\ ~balloon)
          /\ fin' = [fin EXCEPT ![c] =
                        [path |-> IF renamed THEN "final" ELSE "inflight",
                         hash |-> hash, big |-> balloon, bad |-> damaged]]
          /\ IF renamed THEN Rename(<<c, "inflight">>, <<c, "final">>)
                        ELSE UNCHANGED fileVars
          /\ rec' = [rec EXCEPT ![c] = IF damaged THEN "damaged" ELSE "close"]
    /\ NoFault
    /\ UNCHANGED rowVars
    /\ RecFrame

QuarantineDamaged(c) ==
    /\ rec[c] = "damaged"
    /\ rec' = [rec EXCEPT ![c] = "close"]
    /\ \/ Fault /\ UNCHANGED quar
       \/ NoFault /\ quar' = [quar EXCEPT ![c] = Exists(c)]
    /\ UNCHANGED <<row, hot, cold, hashed, big, att, next, fileVars, fin>>
    /\ RecFrame

close_clip(c) ==
    /\ rec[c] = "close"
    /\ rec' = [rec EXCEPT ![c] = "idle"]
    /\ fin' = [fin EXCEPT ![c] = NoFin]
    /\ \/ /\ Fault \/ (NoFault /\ ~Exists(c))
          /\ UNCHANGED rowVars
       \/ /\ NoFault
          /\ Exists(c)
          /\ row' = [row EXCEPT ![c] = "closed"]
          /\ hot' = [hot EXCEPT ![c] = fin[c].path]
          /\ hashed' = [hashed EXCEPT ![c] = fin[c].hash]
          /\ big' = [big EXCEPT ![c] = fin[c].big]
          /\ UNCHANGED <<cold, quar, att, next>>
    /\ UNCHANGED fileVars
    /\ RecFrame

-----------------------------------------------------------------------------
(* The cold replicator: one task, one batch at a time.                     *)

RepFrame == UNCHANGED <<fileVars, recVars, evVars, swVars, jobVars, age, level, target,
                      crashesLeft>>

Bug_PendingNeverRetried(c) ==
    /\ row[c] = "closed" /\ ~cold[c] /\ hashed[c] /\ hot[c] # "null"
    /\ ~quar[c] /\ next[c] = "null"
    /\ c \in Eligible

(* clips_pending_cold_upload, WHERE.                                       *)
PendingUpload(c) ==
    /\ row[c] = "closed" /\ ~cold[c] /\ hashed[c] /\ hot[c] # "null"
    /\ ~quar[c] /\ next[c] # "future"
    /\ c \in Eligible

(* tick(): no target, one the registry does not hold, or one that is read- *)
(* only or unreachable ends it; else up to Batch pending rows, as read now.*)
RepTick ==
    LET P == {c \in Clip : PendingUpload(c)} IN
    /\ repPc = "idle"
    /\ target
    /\ P # {}
    /\ \E S \in SUBSET P :
          /\ Cardinality(S) = Batch \/ (S = P /\ Cardinality(P) < Batch)
          /\ repTodo' = S
          /\ repPath' = [c \in Clip |-> IF c \in S THEN hot[c] ELSE "null"]
    /\ repPc' = "next"
    /\ UNCHANGED <<repCur, rowVars, object, faultsLeft>>
    /\ RepFrame

(* The loop over the batch.  A clip above the ceiling is quarantined at    *)
(* first sight; the others go through upload_one.                          *)
RepNext ==
    /\ repPc = "next"
    /\ \/ /\ repTodo = {}
          /\ repPc' = "idle"
          /\ repPath' = [c \in Clip |-> "null"]
          /\ UNCHANGED <<repCur, repTodo, quar>>
          /\ NoFault
       \/ \E c \in repTodo :
             /\ repTodo' = repTodo \ {c}
             /\ \/ /\ big[c]
                   /\ \/ Fault /\ UNCHANGED quar
                      \/ NoFault /\ quar' = [quar EXCEPT ![c] = Exists(c)]
                   /\ UNCHANGED <<repPc, repCur, repPath>>
                \/ /\ ~big[c]
                   /\ repCur' = c
                   /\ repPc' = "exists"
                   /\ NoFault
                   /\ UNCHANGED <<quar, repPath>>
    /\ UNCHANGED <<row, hot, cold, hashed, big, att, next, object>>
    /\ RepFrame

RepGoto(l) == repPc' = l /\ UNCHANGED <<repCur, repTodo, repPath>>

Bug_TrustsPath(c) == TRUE

(* ColdBackend::exists: a complete copy, checked by hash.                  *)
Complete(c) == c \in object

(* A complete copy is only marked, unless the announcement needs the URL   *)
(* of a put.  The backend may fail.                                        *)
RepExists ==
    /\ repPc = "exists"
    /\ \/ Complete(repCur) /\ ~Announces /\ RepGoto("mark")
       \/ ~Complete(repCur) /\ RepGoto("read")
       \/ Announces /\ RepGoto("read")
       \/ RepGoto("fail")
    /\ UNCHANGED <<rowVars, object, faultsLeft>>
    /\ RepFrame

RepRead ==
    /\ repPc = "read"
    /\ RepGoto(IF <<repCur, repPath[repCur]>> \in disk THEN "put" ELSE "fail")
    /\ UNCHANGED <<rowVars, object, faultsLeft>>
    /\ RepFrame

(* put() of the bytes read; a put reported as failed may have been stored. *)
RepPut ==
    /\ repPc = "put"
    /\ \/ RepGoto("mark") /\ object' = object \cup {repCur}
       \/ RepGoto("fail") /\ object' \in {object, object \cup {repCur}}
    /\ UNCHANGED <<rowVars, faultsLeft>>
    /\ RepFrame

mark_cold_replicated ==
    /\ repPc = "mark"
    /\ \/ /\ Fault \/ (NoFault /\ ~Exists(repCur))
          /\ RepGoto("fail")
          /\ UNCHANGED cold
       \/ /\ NoFault /\ Exists(repCur)
          /\ RepGoto("next")
          /\ cold' = [cold EXCEPT ![repCur] = TRUE]
    /\ UNCHANGED <<row, hot, hashed, big, quar, att, next, object>>
    /\ RepFrame

Bug_OneMoreColdAttempt(n) == n > MaxColdAttempts

(* cold_backoff_schedule.                                                  *)
ColdExhausted(n) == n >= MaxColdAttempts

record_cold_upload_failure ==
    LET n == att[repCur] + 1 IN
    /\ repPc = "fail"
    /\ RepGoto("next")
    /\ \/ /\ Fault \/ (NoFault /\ ~Exists(repCur))
          /\ UNCHANGED <<att, next, quar>>
       \/ /\ NoFault /\ Exists(repCur)
          /\ att' = [att EXCEPT ![repCur] = n]
          /\ quar' = [quar EXCEPT ![repCur] = ColdExhausted(n)]
          /\ next' = [next EXCEPT ![repCur] = IF ColdExhausted(n) THEN "null" ELSE "future"]
    /\ UNCHANGED <<row, hot, cold, hashed, big, object>>
    /\ RepFrame

RepStep ==
    \/ RepTick \/ RepNext \/ RepExists \/ RepRead \/ RepPut
    \/ mark_cold_replicated \/ record_cold_upload_failure

-----------------------------------------------------------------------------
(* The pressure ladder, tiers 3 and 4: one reclaim step of the safety loop.*)

EvFrame == UNCHANGED <<recVars, repVars, swVars, jobVars, object, age, level, target,
                      crashesLeft>>

(* find_largest_quarantined_hot_clip *)
QuarantinedHot(c) == quar[c] /\ hot[c] # "null"

(* find_soft_evict_candidate *)
SoftCandidate(c) == Exists(c) /\ hot[c] # "null" /\ cold[c]

Bug_EvictsOpen(c) == Exists(c) /\ ~cold[c]

(* find_hard_evict_candidate *)
HardCandidate(c) == Exists(c) /\ ~cold[c] /\ (row[c] = "closed" \/ age[c] > 0)

(* The candidate as the query returns it.  The round robin decides which   *)
(* camera comes first; within it a soft candidate goes before a hard one.  *)
EvictFind ==
    /\ evPc = "idle"
    /\ level # "Ok"
    /\ \E c \in Clip :
          /\ \/ /\ QuarantinedHot(c)
                /\ evPc' = "delete"
             \/ /\ \A d \in Clip : ~QuarantinedHot(d)
                /\ SoftCandidate(c)
                /\ evPc' = "unlink"
             \/ /\ \A d \in Clip : ~QuarantinedHot(d)
                /\ \A d \in Clip : Camera[d] = Camera[c] => ~SoftCandidate(d)
                /\ HardCandidate(c)
                /\ evPc' = "delete"
          /\ evClip' = c
          /\ evPath' = hot[c]
    /\ UNCHANGED <<rowVars, fileVars, faultsLeft>>
    /\ EvFrame

EvGoto(l) == evPc' = l /\ UNCHANGED <<evClip, evPath>>
EvDone == evPc' = "idle" /\ evClip' = NoClip /\ evPath' = "null"

(* Soft: the file first.  An unlink that fails ends the round.             *)
SoftUnlink ==
    /\ evPc = "unlink"
    /\ \/ NoFault /\ Unlink(<<evClip, evPath>>) /\ EvGoto("clear")
       \/ Fault /\ UNCHANGED fileVars /\ EvDone
    /\ UNCHANGED rowVars
    /\ EvFrame

clear_hot_pointer ==
    /\ evPc = "clear"
    /\ EvDone
    /\ \/ /\ Fault \/ (NoFault /\ ~cold[evClip])
          /\ UNCHANGED hot
       \/ /\ NoFault /\ cold[evClip]
          /\ hot' = [hot EXCEPT ![evClip] = "null"]
    /\ UNCHANGED <<row, cold, hashed, big, quar, att, next, fileVars>>
    /\ EvFrame

(* Hard: the row first; an error, a row that is gone included, ends it.    *)
HardDelete ==
    /\ evPc = "delete"
    /\ \/ /\ Fault \/ (NoFault /\ ~Exists(evClip))
          /\ EvDone
          /\ UNCHANGED rowVars
       \/ /\ NoFault /\ Exists(evClip)
          /\ EvGoto("reap")
          /\ DropRow(evClip)
    /\ UNCHANGED fileVars
    /\ EvFrame

HardUnlink ==
    /\ evPc = "reap"
    /\ EvDone
    /\ \/ Fault /\ UNCHANGED fileVars
       \/ NoFault /\ Unlink(<<evClip, evPath>>)
    /\ UNCHANGED rowVars
    /\ EvFrame

EvictStep == EvictFind \/ SoftUnlink \/ clear_hot_pointer \/ HardDelete \/ HardUnlink

-----------------------------------------------------------------------------
(* Retention: sweep_once.                                                  *)

SwFrame == UNCHANGED <<recVars, repVars, evVars, jobVars, object, age, level, target,
                      crashesLeft>>

SwEnds ==
    /\ swPc' = "idle" /\ swCur' = NoClip /\ swTodo' = {}
    /\ swPath' = [c \in Clip |-> "null"]
    /\ known' = {} /\ cand' = {}

(* clips_older_than *)
SweepList ==
    LET S == {c \in Clip : Exists(c) /\ age[c] = 2} IN
    /\ swPc = "idle"
    /\ swPc' = "clips"
    /\ swTodo' = S
    /\ swPath' = [c \in Clip |-> IF c \in S THEN hot[c] ELSE "null"]
    /\ UNCHANGED <<swCur, known, cand, rowVars, fileVars, faultsLeft>>
    /\ SwFrame

SweepUnlink ==
    /\ swPc = "clips"
    /\ \/ /\ swTodo = {}
          /\ swPc' = "known"
          /\ UNCHANGED <<swTodo, swCur, fileVars>>
          /\ NoFault
       \/ \E c \in swTodo :
             /\ swTodo' = swTodo \ {c}
             /\ swCur' = c
             /\ swPc' = "delete"
             /\ \/ Fault /\ UNCHANGED fileVars
                \/ NoFault /\ Unlink(<<c, swPath[c]>>)
    /\ UNCHANGED <<swPath, known, cand, rowVars>>
    /\ SwFrame

(* An error ends the whole sweep, the orphan scan included.                *)
SweepDelete ==
    /\ swPc = "delete"
    /\ \/ /\ Fault \/ (NoFault /\ ~Exists(swCur))
          /\ SwEnds
          /\ UNCHANGED rowVars
       \/ /\ NoFault /\ Exists(swCur)
          /\ swPc' = "clips"
          /\ DropRow(swCur)
          /\ UNCHANGED <<swCur, swTodo, swPath, known, cand>>
    /\ UNCHANGED fileVars
    /\ SwFrame

(* known_clip_paths *)
ScanKnown ==
    /\ swPc = "known"
    /\ \/ Fault /\ SwEnds
       \/ /\ NoFault
          /\ swPc' = "walk"
          /\ known' = {<<c, hot[c]>> : c \in {d \in Clip : Exists(d) /\ hot[d] # "null"}}
          /\ UNCHANGED <<swCur, swTodo, swPath, cand>>
    /\ UNCHANGED <<rowVars, fileVars>>
    /\ SwFrame

Bug_NoGrace(f) == FALSE
Bug_AlwaysYoung(f) == TRUE

(* is_younger_than *)
Spared(f) == f \in young

ScanWalk ==
    /\ swPc = "walk"
    /\ swPc' = "reap"
    /\ cand' = {f \in disk \ known : ~Spared(f)}
    /\ UNCHANGED <<swCur, swTodo, swPath, known, rowVars, fileVars, faultsLeft>>
    /\ SwFrame

(* The modification time is read again just before the unlink.             *)
ScanReap ==
    /\ swPc = "reap"
    /\ \/ cand = {} /\ SwEnds /\ UNCHANGED fileVars /\ NoFault
       \/ \E f \in cand :
             /\ cand' = cand \ {f}
             /\ \/ (Spared(f) \/ f \notin disk) /\ NoFault /\ UNCHANGED fileVars
                \/ ~Spared(f) /\ f \in disk /\ Fault /\ UNCHANGED fileVars
                \/ ~Spared(f) /\ f \in disk /\ NoFault /\ Unlink(f)
             /\ UNCHANGED <<swPc, swCur, swTodo, swPath, known>>
    /\ UNCHANGED rowVars
    /\ SwFrame

SweepStep == SweepList \/ SweepUnlink \/ SweepDelete \/ ScanKnown \/ ScanWalk \/ ScanReap

-----------------------------------------------------------------------------
(* The cold-read cache: one job per clip, at most MaxInflight at work.     *)

JobFrame == UNCHANGED <<recVars, repVars, evVars, swVars, object, age, level, target,
                      crashesLeft>>

AtWork == {"permit", "found", "loading", "verified", "partial", "renamed"}

JobGoto(c, l) == job' = [job EXCEPT ![c] = l]

(* A full read of a clip that is only cold starts a job, once.             *)
Spawn(c) ==
    /\ Exists(c) /\ hot[c] = "null" /\ cold[c]
    /\ level = "Ok"
    /\ job[c] = "none"
    /\ JobGoto(c, "queued")
    /\ UNCHANGED <<pressed, rowVars, fileVars, faultsLeft>>
    /\ JobFrame

Permit(c) ==
    /\ job[c] = "queued"
    /\ Cardinality({d \in Clip : job[d] \in AtWork}) < MaxInflight
    /\ JobGoto(c, IF level = "Ok" THEN "permit" ELSE "none")
    /\ pressed' = pressed \ {c}
    /\ UNCHANGED <<rowVars, fileVars, faultsLeft>>
    /\ JobFrame

ReadRow(c) ==
    /\ job[c] = "permit"
    /\ \/ JobGoto(c, "none") /\ Fault
       \/ /\ NoFault
          /\ JobGoto(c, IF Exists(c) /\ hot[c] = "null" /\ cold[c] /\ hashed[c]
                        THEN "found" ELSE "none")
    /\ UNCHANGED <<pressed, rowVars, fileVars>>
    /\ JobFrame

(* The select! is polled: from here a pressure notification ends the job.  *)
Listen(c) ==
    /\ job[c] = "found"
    /\ JobGoto(c, "loading")
    /\ UNCHANGED <<pressed, rowVars, fileVars, faultsLeft>>
    /\ JobFrame

(* The bytes arrive and match the hash, or the backend fails.              *)
Download(c) ==
    /\ job[c] = "loading"
    /\ \/ c \in object /\ JobGoto(c, "verified")
       \/ JobGoto(c, "none")
    /\ UNCHANGED <<pressed, rowVars, fileVars, faultsLeft>>
    /\ JobFrame

(* The partial file; a write that fails leaves it behind.                  *)
WritePartial(c) ==
    /\ job[c] = "verified"
    /\ Write(<<c, "partial">>)
    /\ \/ NoFault /\ JobGoto(c, "partial")
       \/ Fault /\ JobGoto(c, "none")
    /\ UNCHANGED <<pressed, rowVars>>
    /\ JobFrame

RenamePartial(c) ==
    /\ job[c] = "partial"
    /\ \/ NoFault /\ JobGoto(c, "renamed") /\ Rename(<<c, "partial">>, <<c, "cache">>)
       \/ Fault /\ JobGoto(c, "none") /\ UNCHANGED fileVars
    /\ UNCHANGED <<pressed, rowVars>>
    /\ JobFrame

repopulate_hot_pointer(c) ==
    /\ job[c] = "renamed"
    /\ JobGoto(c, "none")
    /\ \/ /\ Fault \/ (NoFault /\ ~(Exists(c) /\ hot[c] = "null"))
          /\ UNCHANGED hot
       \/ /\ NoFault /\ Exists(c) /\ hot[c] = "null"
          /\ hot' = [hot EXCEPT ![c] = "cache"]
    /\ UNCHANGED <<pressed, row, cold, hashed, big, quar, att, next, fileVars>>
    /\ JobFrame

JobStep(c) ==
    \/ Spawn(c) \/ Permit(c) \/ ReadRow(c) \/ Listen(c) \/ Download(c)
    \/ WritePartial(c) \/ RenamePartial(c) \/ repopulate_hot_pointer(c)

-----------------------------------------------------------------------------
(* What the clock, the disk and a crash do.                                *)

(* A recorder lets go of its clip long before the abandoned grace, which   *)
(* is twice the rotation bound, and before the retention horizon.          *)
AgeClip(c) ==
    /\ Exists(c) /\ age[c] < 2 /\ rec[c] = "idle"
    /\ age' = [age EXCEPT ![c] = @ + 1]
    /\ UNCHANGED <<rowVars, fileVars, recVars, repVars, evVars, swVars, jobVars,
                   object, level, target, faultsLeft, crashesLeft>>

(* The task that is writing a file registers it within ORPHAN_MIN_AGE.     *)
Held(f) ==
    \/ f[2] \in {"inflight", "final"} /\ rec[f[1]] # "idle"
    \/ f[2] \in {"partial", "cache"} /\ job[f[1]] \in {"partial", "renamed"}

(* ORPHAN_MIN_AGE passes.  The cutoff of a scan is taken when its walk     *)
(* ends, much less than ORPHAN_MIN_AGE after the known paths were read.    *)
AgeFile(f) ==
    /\ f \in young /\ ~Held(f) /\ swPc # "walk"
    /\ young' = young \ {f}
    /\ UNCHANGED <<rowVars, disk, recVars, repVars, evVars, swVars, jobVars,
                   object, age, level, target, faultsLeft, crashesLeft>>

(* cold_next_attempt_at is reached.                                        *)
BackoffEnds(c) ==
    /\ next[c] = "future"
    /\ next' = [next EXCEPT ![c] = "past"]
    /\ UNCHANGED <<row, hot, cold, hashed, big, quar, att, fileVars, recVars, repVars,
                   evVars, swVars, jobVars, object, age, level, target, faultsLeft,
                   crashesLeft>>

(* The operator sets or clears the cold target, the registry takes it up   *)
(* or drops it, and the share behind it goes read-only, away or comes back;*)
(* a policy that cannot be read is none for that tick.                     *)
SetTarget ==
    /\ target' = ~target
    /\ UNCHANGED <<rowVars, fileVars, recVars, repVars, evVars, swVars, jobVars,
                   object, age, level, faultsLeft, crashesLeft>>

(* WatermarkSignal::set, called by the safety loop between reclaim steps.  *)
(* Entering Low or Panic ends the jobs that listen; only those.            *)
SetLevel(l) ==
    LET wakes == l # "Ok" IN
    /\ evPc = "idle"
    /\ l # level
    /\ level' = l
    /\ job' = [c \in Clip |-> IF wakes /\ job[c] = "loading" THEN "none" ELSE job[c]]
    /\ pressed' = IF wakes THEN {c \in Clip : job'[c] \in {"permit", "found"}} ELSE pressed
    /\ UNCHANGED <<rowVars, fileVars, recVars, repVars, evVars, swVars,
                   object, age, target, faultsLeft, crashesLeft>>

(* The engine dies and starts again: every task is lost, every row, file   *)
(* and object stays, and the signal reads Ok until the first sample.       *)
Crash ==
    /\ crashesLeft > 0
    /\ crashesLeft' = crashesLeft - 1
    /\ rec' = [c \in Clip |-> "idle"]
    /\ fin' = [c \in Clip |-> NoFin]
    /\ repPc' = "idle" /\ repCur' = NoClip /\ repTodo' = {}
    /\ repPath' = [c \in Clip |-> "null"]
    /\ EvDone
    /\ SwEnds
    /\ job' = [c \in Clip |-> "none"]
    /\ pressed' = {}
    /\ level' = "Ok"
    /\ UNCHANGED <<rowVars, fileVars, object, age, target, faultsLeft>>

RecStep(c) ==
    \/ OpenFile(c) \/ open_clip(c) \/ CloseDiscards(c) \/ discard_clip_metadata(c)
    \/ CloseRenames(c) \/ QuarantineDamaged(c) \/ close_clip(c)

Next ==
    \/ \E c \in Clip : RecStep(c) \/ JobStep(c) \/ AgeClip(c) \/ BackoffEnds(c)
    \/ RepStep
    \/ EvictStep
    \/ SweepStep
    \/ \E f \in File : AgeFile(f)
    \/ \E l \in {"Ok", "Low", "Panic"} : SetLevel(l)
    \/ SetTarget
    \/ Crash

Spec == Init /\ [][Next]_vars

(* The replicator and the sweeper are timer-driven loops; jobs end, by the *)
(* backend's own timeouts; time passes, whatever a scan does.              *)
Fairness ==
    /\ WF_vars(RepStep)
    /\ WF_vars(SweepStep)
    /\ \A c \in Clip : WF_vars(BackoffEnds(c)) /\ WF_vars(JobStep(c))
    /\ \A f \in File : SF_vars(AgeFile(f))

FairSpec == Spec /\ Fairness

-----------------------------------------------------------------------------
(* Properties.                                                             *)

HotCopy(c) == <<c, hot[c]>> \in disk
ColdCopy(c) == cold[c] /\ c \in object

(* A row that claims a cold copy has one: soft eviction and playback trust *)
(* the pointer without asking the backend.  Nor is it quarantined: tier 3  *)
(* deletes those clips without asking either.                              *)
ColdIsReal == \A c \in Clip : cold[c] => c \in object /\ ~quar[c]

(* A closed clip inside the retention horizon always has a readable copy:  *)
(* no eviction, upload, scan or rehydrate, in any order and with any of    *)
(* them cut short, drops the last one.  What stands for a cold copy is     *)
(* real (ColdIsReal), whatever failed while it was made.                   *)
FootageSurvives ==
    /\ ColdIsReal
    /\ \A c \in Clip : row[c] = "closed" /\ age[c] < 2 => HotCopy(c) \/ ColdCopy(c)

(* The footage a reader can get at: closed rows, and the tiers that hold a *)
(* copy their row leads to.                                                *)
Footage == INSTANCE ClipFootage WITH
    kept <- {c \in Clip : row[c] = "closed"},
    deleted <- {c \in Clip : row[c] = "gone"},
    copies <- [c \in Clip |-> IF row[c] = "closed"
                  THEN {t \in {"hot", "cold"} : IF t = "hot" THEN HotCopy(c) ELSE ColdCopy(c)}
                  ELSE {}],
    expired <- {c \in Clip : age[c] = 2}

(* Every step of the five tasks keeps the contract of ClipFootage: a copy  *)
(* goes only while another remains or past the horizon, and a deleted clip *)
(* does not come back.                                                     *)
KeepsFootage == Footage!FSpec

Holding(c) == rec[c] \in {"recording", "discard", "damaged", "close"}

(* The row of a clip the recorder holds is not deleted under it (BUG-170), *)
(* save for a damaged clip, which is quarantined before it is closed.      *)
RecorderKeepsRow ==
    \A c \in Clip : Holding(c) /\ ~fin[c].bad => row[c] = "open"

(* storage_safety.rs: "In-flight clips are never hard-evicted".            *)
InFlightNeverEvicted ==
    \A c \in Clip : Holding(c) => row[c] = "open"

(* Once a pressure episode is over, a clip with a cold copy can be played: *)
(* its row names no hot file (then the API streams from cold) or one that  *)
(* exists.                                                                 *)
PlaysAfterPressure ==
    \A c \in Clip :
        level = "Ok" /\ row[c] = "closed" /\ cold[c] /\ age[c] < 2 =>
            hot[c] = "null" \/ HotCopy(c)

(* No call has failed and the engine has not died.                         *)
Clean == faultsLeft = MaxFaults /\ crashesLeft = MaxCrashes

(* The same, as long as no call has failed and the engine has not died:    *)
(* the steps of recorder, replicator, evictor, sweep and rehydrate job     *)
(* alone, in any order, never leave a row that names a missing file.       *)
PlaysUnlessFault ==
    Clean => PlaysAfterPressure

(* While ticks find a backend to write to, whichever of its calls fail, a  *)
(* closed, hashed clip leaves the upload queue: it is replicated, given up *)
(* as quarantined, or deleted.                                             *)
QueueDrains ==
    <>[]target =>
        \A c \in Eligible :
            row[c] = "closed" /\ hashed[c] ~> row[c] = "gone" \/ cold[c] \/ quar[c]

Referenced(f) == Exists(f[1]) /\ hot[f[1]] = f[2]

(* A file nobody writes and no row names is eventually deleted.            *)
OrphansReaped ==
    \A f \in File :
        f \in disk /\ ~Referenced(f) /\ ~Held(f) ~> f \notin disk \/ Referenced(f) \/ Held(f)

(* storage_safety.rs on evict_one: "once a clip lives on cold, only the    *)
(* soft path can touch it from the safety floor".                          *)
HardEvictSparesCold ==
    [][evPc = "delete" /\ evPc' = "reap" => ~cold[evClip]]_vars

(* cold_read_cache.rs, property 3: an in-flight job is cancelled on the    *)
(* next transition into pressure; here, one that has not downloaded yet.   *)
CancelledUnderPressure ==
    [][\A c \in pressed : ~(job[c] = "partial" /\ job'[c] = "renamed")]_vars

(* retention.rs: the orphan scan deletes files "with no DB row", leaked by *)
(* an open that never inserted its row or an eviction that removed it.     *)
ScanSparesClips ==
    [][\A c \in Clip :
          swPc = "reap" /\ swPc' = "reap" /\ <<c, "final">> \in disk \ disk'
          /\ evPc = evPc' => ~Exists(c)]_vars

(* What of it the scan does keep: until a call fails or the engine dies,   *)
(* every file it reaps is of a clip whose row was deleted, whatever the    *)
(* recorder, the evictor and the cache jobs rename and register between    *)
(* its query, its walk and its unlink.                                     *)
ScanSparesClipsUnlessFault ==
    [][Clean /\ ScanReap => \A f \in disk \ disk' : row[f[1]] = "gone"]_vars

(* And the tasks leak nothing: until then every file belongs to the task   *)
(* that is writing it, is the one its row names, or is of a deleted clip.  *)
NoLeakUnlessFault ==
    Clean => \A f \in disk : Held(f) \/ Referenced(f) \/ row[f[1]] = "gone"

(* Rows and files agree, both ways, as long as nothing fails: five tasks   *)
(* that share no lock leave neither a dangling pointer nor a stray file.   *)
RowsMatchFiles == PlaysUnlessFault /\ NoLeakUnlessFault
=============================================================================
