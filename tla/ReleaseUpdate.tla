--------------------------- MODULE ReleaseUpdate ---------------------------
(***************************************************************************)
(* Over-the-air update of the engine: crates/nexus-engine/src/             *)
(* cloud_update.rs (assignment, apply, rollback, boot-time finalisation),  *)
(* cloud_liveness.rs (the go-dark watchdog) and deploy/nexus-apply-release *)
(* (the root-owned applier that extracts, flips `current` and restarts).   *)
(*                                                                         *)
(* What survives a restart is the UpdateState row and the release trees    *)
(* with the `current` symlink; the engine process, with everything its     *)
(* tasks remember, does not.  Every task reads the whole row, awaits, and  *)
(* writes the whole row back, so each read and each write is a step.       *)
(* Progress envelopes, the channel, the timestamps and the result text are *)
(* reporting only and are left out.                                        *)
(***************************************************************************)
EXTENDS Naturals, FiniteSets

CONSTANTS
    Version,         \* releases that exist
    Factory,         \* the release the appliance was installed with
    Dark,            \* releases that can never re-establish the tunnel
    NoVersion,
    Slot,            \* apply tasks that can be alive at once
    MaxAssignments,  \* bound on update_assignment envelopes
    MaxRollbacks,    \* bound on update_rollback envelopes
    MaxCrashes,      \* bound on engine deaths that no update asked for
    MaxMishaps,      \* bound on failures of the applier and of reads and writes of
                     \* the row, and on requests that meet an attempt in flight
    MaxOutages       \* bound on dark windows a healthy release sits through

ASSUME VersionAssumption ==
    /\ Factory \in Version /\ Factory \notin Dark /\ Dark \subseteq Version
    /\ NoVersion \notin Version
    /\ Slot \cap {"inbound", "final", "dog"} = {}

ASSUME BoundAssumption ==
    {MaxAssignments, MaxRollbacks, MaxCrashes, MaxMishaps, MaxOutages} \subseteq Nat

VARIABLES
    row,        \* the persisted UpdateState
    trees,      \* /opt/nexus/releases/<version>: absent, half or whole
    link,       \* what /opt/nexus/current points at
    staged,     \* the release whose tarball lies in /opt/nexus/staging
    restart,    \* the transient unit will restart the engine
    running,    \* the release the engine process runs, NoVersion when it is down
    proven,     \* heartbeat_since_boot: this process has been answered
    latched,    \* TunnelLiveness::reflipped: the watchdog has spent its reflip
    task,       \* the tasks of the process, see Worker
    good,       \* releases that have once proved the tunnel (history)
    budget      \* what is left of the bounds above

vars == <<row, trees, link, staged, restart, running, proven, latched, task, good, budget>>

-----------------------------------------------------------------------------
(* State                                                                   *)

MaxCrashCount == 3    \* the crash-loop threshold; counts above it act alike

Phase == {"none", "verifying", "restarting", "success", "failed"}

UpdateState ==
    [current: Version \cup {NoVersion}, previous: Version \cup {NoVersion},
     phase: Phase, crashes: 0 .. MaxCrashCount]

NoState == [current |-> NoVersion, previous |-> NoVersion, phase |-> "none", crashes |-> 0]

(* The apply tasks, the tunnel's inbound loop (which awaits its handlers   *)
(* one at a time), the boot finaliser and the watchdog.                    *)
Worker == Slot \cup {"inbound", "final", "dog"}

Pc == {"idle", "ack", "read", "mark", "fetch", "commit", "stage", "extract", "extracting",
       "flip", "undo", "rollback", "rbflip", "rbfailed", "reread", "rewrite", "reflip",
       "start", "await", "dark", "mismatch", "guard", "prune", "pruning"}

Task == [pc: Pc, st: UpdateState, v: Version \cup {NoVersion}, doomed: SUBSET Version]

Idle == [pc |-> "idle", st |-> NoState, v |-> NoVersion, doomed |-> {}]

Bounds == {"assign", "rollback", "crash", "mishap", "outage"}

TypeOK ==
    /\ row \in UpdateState
    /\ trees \in [Version -> {"absent", "half", "whole"}]
    /\ link \in Version
    /\ staged \in Version \cup {NoVersion}
    /\ restart \in BOOLEAN
    /\ running \in Version \cup {NoVersion}
    /\ proven \in BOOLEAN
    /\ latched \in BOOLEAN
    /\ task \in [Worker -> Task]
    /\ good \subseteq Version
    /\ budget \in [Bounds -> Nat]

Init ==
    /\ row = NoState
    /\ trees = [v \in Version |-> IF v = Factory THEN "whole" ELSE "absent"]
    /\ link = Factory
    /\ staged = NoVersion
    /\ restart = FALSE
    /\ running = Factory
    /\ proven = FALSE
    /\ latched = FALSE
    /\ task = [w \in Worker |-> IF w = "final" THEN [Idle EXCEPT !.pc = "start"] ELSE Idle]
    /\ good = {Factory}
    /\ budget = [b \in Bounds |-> CASE b = "assign"   -> MaxAssignments
                                    [] b = "rollback" -> MaxRollbacks
                                    [] b = "crash"    -> MaxCrashes
                                    [] b = "mishap"   -> MaxMishaps
                                    [] b = "outage"   -> MaxOutages]

Spend(B) ==
    /\ \A b \in B : budget[b] > 0
    /\ budget' = [b \in Bounds |-> IF b \in B THEN budget[b] - 1 ELSE budget[b]]

At(w, pc) == running # NoVersion /\ task[w].pc = pc

Goto(w, pc) == task' = [task EXCEPT ![w].pc = pc]

End(w) == task' = [task EXCEPT ![w] = Idle]

(* The worker keeps the snapshot st and goes to pc.                        *)
Keep(w, st, pc) ==
    task' = [task EXCEPT ![w] = IF pc = "idle" THEN Idle ELSE [@ EXCEPT !.st = st, !.pc = pc]]

(* write_state: a failed write is logged and the caller goes on.           *)
WriteState(st) ==
    \/ row' = st /\ UNCHANGED budget
    \/ Spend({"mishap"}) /\ UNCHANGED row

(* read_state: a row that cannot be read is taken for the empty one.       *)
Misread(st) == IF st = row THEN {} ELSE {"mishap"}

disk == <<trees, link, staged, restart>>

process == <<running, proven, latched, good>>

Quiet == ~restart /\ \A w \in Worker : task[w].pc = "idle"

(* Nothing in the engine refuses a request while another is in flight.     *)
Overlap == IF Quiet THEN {} ELSE {"mishap"}

-----------------------------------------------------------------------------
(* Inbound envelopes                                                       *)

(* handle_assignment, first read.  The signature and actor-token checks    *)
(* only decide which targets get here; a re-delivery is one more           *)
(* assignment.  The tunnel has to be up.                                   *)
Assignment(v) ==
    /\ At("inbound", "idle")
    /\ running \notin Dark
    /\ \E st \in {row, NoState} :
          /\ Spend({"assign"} \cup Overlap \cup Misread(st))
          /\ task' = [task EXCEPT !["inbound"] = [Idle EXCEPT !.pc = "ack", !.st = st, !.v = v]]
    /\ UNCHANGED <<row, disk, process>>

(* handle_assignment, write-back and spawn: a release that already runs is *)
(* acknowledged, any other gets an apply task.                             *)
Acknowledge ==
    /\ At("inbound", "ack")
    /\ WriteState(task["inbound"].st)
    /\ IF task["inbound"].v = running
       THEN End("inbound")
       ELSE \E s \in Slot :
                /\ task[s].pc = "idle"
                /\ task' = [task EXCEPT !["inbound"] = Idle,
                                        ![s] = [Idle EXCEPT !.pc = "read",
                                                            !.v = task["inbound"].v]]
    /\ UNCHANGED <<disk, process>>

(* handle_rollback, read: without a previous_good there is nothing to do.  *)
RollbackTo(w, st) ==
    task' = [task EXCEPT ![w] = IF st.previous = NoVersion THEN Idle
                                ELSE [Idle EXCEPT !.pc = "rollback", !.st = st, !.v = st.previous]]

Rollback ==
    /\ At("inbound", "idle")
    /\ running \notin Dark
    /\ \E st \in {row, NoState} :
          Spend({"rollback"} \cup Overlap \cup Misread(st)) /\ RollbackTo("inbound", st)
    /\ UNCHANGED <<row, disk, process>>

(* Mutant: the result text lands in the phase.                             *)
RolledBackPhase(st, v) == [st EXCEPT !.current = v, !.phase = "rolled_back"]

(* Mutant: the persisted version is not moved with the link.               *)
RolledBackStale(st, v) == [st EXCEPT !.phase = "restarting"]

RolledBack(st, v) == [st EXCEPT !.current = v, !.phase = "restarting"]

(* handle_rollback and reflip_to persist the target before the flip, which *)
(* ends the process.                                                       *)
RollbackWrite(w) ==
    /\ At(w, "rollback")
    /\ LET st == RolledBack(task[w].st, task[w].v)
       IN  WriteState(st) /\ Keep(w, st, "rbflip")
    /\ UNCHANGED <<disk, process>>

-----------------------------------------------------------------------------
(* The apply task                                                          *)

(* fail(): the attempt is over and the snapshot is written back.           *)
Fail(w, st) == WriteState([st EXCEPT !.phase = "failed"]) /\ End(w)

ApplyRead(w) ==
    /\ At(w, "read")
    /\ \E st \in {row, NoState} :
          Spend(Misread(st)) /\ Keep(w, [st EXCEPT !.phase = "verifying"], "mark")
    /\ UNCHANGED <<row, disk, process>>

ApplyMark(w) ==
    /\ At(w, "mark")
    /\ WriteState(task[w].st)
    /\ Goto(w, "fetch")
    /\ UNCHANGED <<disk, process>>

(* Signature, preflight, download and digest: any of them ends the attempt *)
(* before the disk is touched.                                             *)
ApplyFetch(w) ==
    /\ At(w, "fetch")
    /\ \/ Goto(w, "commit") /\ UNCHANGED <<row, budget>>
       \/ Fail(w, task[w].st)
    /\ UNCHANGED <<disk, process>>

(* Mutant: the target overwrites current before previous_good is read.     *)
CommittedLate(st, v) == [st EXCEPT !.previous = v, !.current = v, !.phase = "restarting"]

(* Mutant: the attempt is not marked as ending in a restart.               *)
CommittedSilently(st, v) ==
    [st EXCEPT !.previous = IF st.current = NoVersion THEN running ELSE st.current,
               !.current = v]

(* The rollback target is the release the ROW calls current, the running   *)
(* one only when the row names none.                                       *)
Committed(st, v) ==
    [st EXCEPT !.previous = IF st.current = NoVersion THEN running ELSE st.current,
               !.current = v,
               !.phase = "restarting"]

ApplyCommit(w) ==
    /\ At(w, "commit")
    /\ LET st == Committed(task[w].st, task[w].v)
       IN  WriteState(st) /\ Keep(w, st, "stage")
    /\ UNCHANGED <<disk, process>>

(* stage_tarball: unlink, write aside, rename.                             *)
ApplyStage(w) ==
    /\ At(w, "stage")
    /\ \/ staged' = task[w].v /\ Goto(w, "extract") /\ UNCHANGED budget
       \/ staged' = NoVersion /\ Goto(w, "undo") /\ Spend({"mishap"})
    /\ UNCHANGED <<row, trees, link, restart, process>>

(* do_apply: tar unpacks whatever is staged, then the release directory    *)
(* asked for has to exist.                                                 *)
ApplierExtract(w) ==
    /\ At(w, "extract")
    /\ IF staged = NoVersion
       THEN Goto(w, "undo") /\ UNCHANGED trees
       ELSE Goto(w, "extracting") /\ trees' = [trees EXCEPT ![staged] = "half"]
    /\ UNCHANGED <<row, link, staged, restart, budget, process>>

ApplierExtracted(w) ==
    /\ At(w, "extracting")
    /\ \/ /\ staged # NoVersion
          /\ trees' = [trees EXCEPT ![staged] = "whole"]
          /\ Goto(w, IF task[w].v = staged \/ trees[task[w].v] # "absent" THEN "flip" ELSE "undo")
          /\ UNCHANGED budget
       \/ Spend({"mishap"}) /\ Goto(w, "undo") /\ UNCHANGED trees
    /\ UNCHANGED <<row, link, staged, restart, process>>

(* flip_and_restart of the applier: ln -sfn, then the restart is scheduled *)
(* in a transient unit.  It can fail before the flip or after it; an       *)
(* applier killed by a signal once `current` names v counts as applied.    *)
FlipAndRestart(w, v, failed) ==
    /\ \/ link' = v /\ restart' = TRUE /\ End(w) /\ UNCHANGED budget
       \/ link' = v /\ UNCHANGED restart /\ End(w) /\ Spend({"mishap"})
       \/ link' \in {link, v} /\ UNCHANGED restart /\ Goto(w, failed) /\ Spend({"mishap"})
    /\ UNCHANGED <<row, trees, staged, process>>

ApplierFlip(w) == At(w, "flip") /\ FlipAndRestart(w, task[w].v, "undo")

(* install_release failed: the persisted version goes back to what this    *)
(* attempt recorded as previous_good and the tarball is discarded.         *)
ApplyUndo(w) ==
    /\ At(w, "undo")
    /\ staged' = NoVersion
    /\ Fail(w, [task[w].st EXCEPT !.current = task[w].st.previous])
    /\ UNCHANGED <<trees, link, restart, process>>

-----------------------------------------------------------------------------
(* Going back to a release already on disk                                 *)

(* do_reflip: the target only has to be a directory.                       *)
Reflip(w, failed) ==
    IF trees[task[w].v] = "absent"
    THEN Goto(w, failed) /\ UNCHANGED <<row, disk, process, budget>>
    ELSE FlipAndRestart(w, task[w].v, failed)

RollbackFlip(w) == At(w, "rbflip") /\ Reflip(w, "rbfailed")

(* handle_rollback writes its snapshot once more when the reflip failed.   *)
RollbackFailed(w) ==
    /\ At(w, "rbfailed")
    /\ WriteState(task[w].st)
    /\ End(w)
    /\ UNCHANGED <<disk, process>>

(* reflip_to: read the row again, persist the target, flip; a failed flip  *)
(* is only logged.                                                         *)
ReflipRead(w) ==
    /\ At(w, "reread")
    /\ \E st \in {row, NoState} : Spend(Misread(st)) /\ Keep(w, st, "rewrite")
    /\ UNCHANGED <<row, disk, process>>

ReflipWrite(w) ==
    /\ At(w, "rewrite")
    /\ WriteState(RolledBack(task[w].st, task[w].v))
    /\ Goto(w, "reflip")
    /\ UNCHANGED <<disk, process>>

ReflipFlip(w) == At(w, "reflip") /\ Reflip(w, "idle")

-----------------------------------------------------------------------------
(* finalize_pending_update, once per boot                                  *)

(* Nothing to do unless the last attempt ended in a restart.  The tarball  *)
(* is dead weight from here on.                                            *)
FinalStart ==
    /\ At("final", "start")
    /\ \E st \in {row, NoState} :
          /\ Spend(Misread(st))
          /\ IF st.phase # "restarting"
             THEN End("final") /\ UNCHANGED staged
             ELSE /\ staged' = NoVersion
                  /\ Keep("final", st, IF st.current = running THEN "await" ELSE "mismatch")
    /\ UNCHANGED <<row, trees, link, restart, process>>

(* Mutant: a release that merely runs is blessed.                          *)
FinalBlessRunning ==
    /\ At("final", "await")
    /\ LET st == [task["final"].st EXCEPT !.phase = "success", !.crashes = 0]
       IN  /\ WriteState(st)
           /\ Keep("final", st, IF st.previous = NoVersion THEN "idle" ELSE "prune")
    /\ UNCHANGED <<disk, process>>

(* await_tunnel_proof answered: success is persisted, then stale trees go. *)
FinalBless ==
    /\ At("final", "await")
    /\ proven
    /\ LET st == [task["final"].st EXCEPT !.phase = "success", !.crashes = 0]
       IN  /\ WriteState(st)
           /\ Keep("final", st, IF st.previous = NoVersion THEN "idle" ELSE "prune")
    /\ UNCHANGED <<disk, process>>

(* A dark window: a release that cannot reach the cloud sits in one for    *)
(* good, any other when the uplink is down that long.                      *)
DarkWindow == IF running \in Dark THEN {} ELSE {"outage"}

FinalTimeout ==
    /\ At("final", "await")
    /\ ~proven
    /\ Spend(DarkWindow)
    /\ Goto("final", "dark")
    /\ UNCHANGED <<row, disk, process>>

(* The release never came back: roll back, or give up without a target.    *)
FinalDark ==
    /\ At("final", "dark")
    /\ LET st == task["final"].st
       IN  IF st.previous = NoVersion
           THEN Fail("final", st)
           ELSE /\ WriteState([st EXCEPT !.crashes = 0])
                /\ task' = [task EXCEPT !["final"] = [Idle EXCEPT !.pc = "reread",
                                                                  !.v = st.previous]]
    /\ UNCHANGED <<disk, process>>

(* The engine came up on another release than the row asks for: the        *)
(* crash-loop guard counts it, and the third one rolls back.               *)
FinalMismatch ==
    /\ At("final", "mismatch")
    /\ LET n  == task["final"].st.crashes + 1
           st == [task["final"].st EXCEPT !.crashes = IF n > MaxCrashCount THEN MaxCrashCount ELSE n]
       IN  /\ WriteState(st)
           /\ Keep("final", st, IF n >= MaxCrashCount /\ st.previous # NoVersion
                                THEN "guard" ELSE "idle")
    /\ UNCHANGED <<disk, process>>

FinalGuard ==
    /\ At("final", "guard")
    /\ \E st \in {row, NoState} : Spend(Misread(st)) /\ RollbackTo("final", st)
    /\ UNCHANGED <<row, disk, process>>

OnDisk == {v \in Version : trees[v] # "absent"}

(* Mutant: the rollback target is not kept.                                *)
DoomedButLink(previous) == OnDisk \ {link}

(* do_prune: every tree but the target of `current` and previous_good, and *)
(* none at all when neither of the two is there.                           *)
Doomed(previous) == IF OnDisk \cap {link, previous} = {} THEN {} ELSE OnDisk \ {link, previous}

PruneScan ==
    /\ At("final", "prune")
    /\ task' = [task EXCEPT !["final"].pc = "pruning",
                            !["final"].doomed = Doomed(task["final"].st.previous)]
    /\ UNCHANGED <<row, disk, process, budget>>

PruneDelete ==
    /\ At("final", "pruning")
    /\ trees' = [v \in Version |-> IF v \in task["final"].doomed THEN "absent" ELSE trees[v]]
    /\ End("final")
    /\ UNCHANGED <<row, link, staged, restart, process, budget>>

-----------------------------------------------------------------------------
(* run_cloud_liveness_watchdog: at most one reflip per boot.  Like a       *)
(* request it may meet an attempt in flight, which nothing in it checks.   *)
WatchdogFires ==
    /\ At("dog", "idle")
    /\ ~latched
    /\ latched' = TRUE
    /\ \E st \in {row, NoState} :
          /\ Spend(DarkWindow \cup Overlap \cup Misread(st))
          /\ IF st.previous = NoVersion
             THEN UNCHANGED task
             ELSE task' = [task EXCEPT !["dog"] = [Idle EXCEPT !.pc = "reread", !.v = st.previous]]
    /\ UNCHANGED <<row, disk, running, proven, good>>

-----------------------------------------------------------------------------
(* The process                                                             *)

(* mark_authenticated and mark_ack: the cloud answered a heartbeat.        *)
TunnelProof ==
    /\ running \in Version \ Dark
    /\ ~proven
    /\ proven' = TRUE
    /\ good' = good \cup {running}
    /\ UNCHANGED <<row, disk, running, latched, task, budget>>

Down ==
    /\ running # NoVersion
    /\ running' = NoVersion
    /\ proven' = FALSE
    /\ latched' = FALSE
    /\ task' = [w \in Worker |-> Idle]
    /\ UNCHANGED <<row, trees, link, staged, good>>

(* The transient unit restarts the engine.                                 *)
Restart == restart /\ restart' = FALSE /\ Down /\ UNCHANGED budget

(* A crash, a kill or a power cut; only the last also loses the restart.   *)
Crash == Spend({"crash"}) /\ restart' \in {restart, FALSE} /\ Down

(* systemd starts what `current` points at; main spawns the finaliser.     *)
Boot ==
    /\ running = NoVersion
    /\ trees[link] = "whole"
    /\ running' = link
    /\ task' = [task EXCEPT !["final"].pc = "start"]
    /\ UNCHANGED <<row, disk, proven, latched, good, budget>>

-----------------------------------------------------------------------------
(* Specification                                                           *)

Apply(w) ==
    \/ ApplyRead(w) \/ ApplyMark(w) \/ ApplyFetch(w) \/ ApplyCommit(w) \/ ApplyStage(w)
    \/ ApplierExtract(w) \/ ApplierExtracted(w) \/ ApplierFlip(w) \/ ApplyUndo(w)

GoBack(w) ==
    \/ RollbackWrite(w) \/ RollbackFlip(w) \/ RollbackFailed(w)
    \/ ReflipRead(w) \/ ReflipWrite(w) \/ ReflipFlip(w)

Finalise ==
    \/ FinalStart \/ FinalBless \/ FinalTimeout \/ FinalDark
    \/ FinalMismatch \/ FinalGuard \/ PruneScan \/ PruneDelete

Next ==
    \/ \E v \in Version : Assignment(v)
    \/ Acknowledge
    \/ Rollback
    \/ \E s \in Slot : Apply(s)
    \/ \E w \in {"inbound", "final", "dog"} : GoBack(w)
    \/ Finalise
    \/ WatchdogFires
    \/ TunnelProof
    \/ Restart
    \/ Crash
    \/ Boot

Spec == Init /\ [][Next]_vars

(* Nothing left of the attempt but the download, the one wait without a    *)
(* time limit: the watchdog's grace of fifteen minutes and its window of   *)
(* hours outlast the others, the finaliser's ten minutes among them.       *)
Waiting == ~restart /\ \A w \in Worker : task[w].pc \in {"idle", "fetch"}

(* Tasks run, systemd restarts, a reachable release is answered, and a     *)
(* dark one that is Waiting has its window elapse.                         *)
FairSpec ==
    /\ Spec
    /\ WF_vars(Acknowledge)
    /\ \A s \in Slot : WF_vars(Apply(s))
    /\ \A w \in {"inbound", "final", "dog"} : WF_vars(GoBack(w))
    /\ WF_vars(Finalise)
    /\ WF_vars(running \in Dark /\ Waiting /\ WatchdogFires)
    /\ WF_vars(TunnelProof)
    /\ WF_vars(Restart)
    /\ WF_vars(Boot)

-----------------------------------------------------------------------------
(* Properties                                                              *)

(* No engine death, no fault of the applier or of the row, and no request  *)
(* that met an attempt in flight.  Each of the three alone breaks          *)
(* SafetyNet, UnprovenIsJudged and SettledMatches.                         *)
Undisturbed ==
    /\ budget["crash"] = MaxCrashes
    /\ budget["mishap"] = MaxMishaps

(* handle_rollback: "the locally-cached previous_good release (already on  *)
(* disk ...)".  The release to go back to is an unpacked tree.             *)
RollbackTargetOnDisk == row.previous # NoVersion => trees[row.previous] = "whole"

(* Applying, rolling back, judging and pruning never leave `current` or    *)
(* the rollback target without a complete release tree, and never take     *)
(* away the last release that is known to reach the cloud.                 *)
SafetyNet ==
    Undisturbed =>
        /\ trees[link] = "whole"
        /\ RollbackTargetOnDisk
        /\ \E v \in good : trees[v] = "whole"

(* A release that has not proved the tunnel is never `current` without the *)
(* row that makes the next boot's finalize_pending_update judge it.        *)
UnprovenIsJudged == Undisturbed /\ link \notin good => row.phase = "restarting"

(* `current` never goes from one unproven release to another: it leaves a  *)
(* release the cloud has not heard from only for the previous_good the row *)
(* names, which has proved itself, and whatever it moves to is unpacked.   *)
BackToGoodOnly ==
    [][Undisturbed /\ link' # link =>
          /\ trees[link'] = "whole"
          /\ link \notin good => link' = row.previous /\ link' \in good]_vars

(* With nothing in flight, the version the heartbeat reports from the row  *)
(* is the version that runs.                                               *)
SettledMatches ==
    Undisturbed /\ Quiet /\ running # NoVersion /\ row.current # NoVersion => row.current = running

(* finalize_pending_update: success is never recorded for a release that   *)
(* has not had a heartbeat answered, whatever overlaps, fails or dies: "the*)
(* release we must never bless".                                           *)
BlessedIsGood == row.phase = "success" => row.current \in good

(* A release that cannot re-establish the tunnel is eventually replaced by *)
(* one that can, without anybody at the site.                              *)
GoDarkRecovers ==
    (Undisturbed /\ running \in Dark) ~> (~Undisturbed \/ running \in Version \ Dark)
=============================================================================
