-------------------------- MODULE StorageWatermark --------------------------
(***************************************************************************)
(* The storage safety floor: the loop that samples free space, keeps the   *)
(* watermark level, raises and clears the recorder's panic flag and drains *)
(* the reclaim ladder (nexus-engine/src/storage_safety.rs), and the cloud  *)
(* tunnel's pump that mirrors the level to the cloud over the broadcast    *)
(* bus (nexus-engine/src/cloud_tunnel.rs, nexus-bus/src/lib.rs).           *)
(*                                                                         *)
(* The loop and the pump are separate tasks: the pump runs between any two *)
(* awaits of the loop, so the level it reads may be one the loop has set   *)
(* and not yet published.  What a reclaim step frees is part of the disk's *)
(* own movement; here only its outcome counts.                             *)
(***************************************************************************)
EXTENDS Integers, Sequences

CONSTANTS
    MaxPct,         \* free space of an empty disk
    LowPct,         \* low_watermark_pct
    PanicPct,       \* panic_watermark_pct
    Hysteresis,     \* HYSTERESIS_PCT
    MaxSteps,       \* MAX_RECLAIM_STEPS_PER_TICK
    ReprobeEvery,   \* RECLAIM_REPROBE_EVERY
    BusCapacity     \* bound: messages a bus subscriber may fall behind

ASSUME WatermarkAssumption ==
    /\ MaxPct \in Nat /\ LowPct \in Nat /\ PanicPct \in Nat /\ Hysteresis \in Nat
    /\ PanicPct <= LowPct
    /\ MaxSteps \in Nat \ {0}
    /\ ReprobeEvery \in Nat \ {0}
    /\ BusCapacity \in Nat \ {0}

VARIABLES
    free,       \* percentage of the clips volume that is free
    level,      \* WatermarkController.level, mirrored into WatermarkSignal
    flag,       \* the recorder's panic flag: open() is refused
    pc,         \* where the safety loop stands
    step,       \* index of the reclaim step within the tick's batch
    silent,     \* history: the last change of level was not published
    conn,       \* how far pump_storage_events got on this connection
    snapshot,   \* the level the pump read on entry
    queue,      \* storage.panic messages not yet taken by the pump
    cloud       \* the level of the last envelope the tunnel accepted

loopVars == <<level, flag, pc, step, silent>>
pumpVars == <<conn, snapshot, queue, cloud>>
vars == <<free, loopVars, pumpVars>>

Level == {"ok", "low", "panic"}

TypeOK ==
    /\ free \in 0..MaxPct
    /\ level \in Level
    /\ flag \in BOOLEAN
    /\ pc \in {"idle", "publish", "reclaim", "reprobe"}
    /\ step \in 0..(MaxSteps - 1)
    /\ silent \in BOOLEAN
    /\ conn \in {"down", "subscribed", "read", "pumping"}
    /\ snapshot \in Level
    /\ queue \in Seq(Level)
    /\ Len(queue) <= BusCapacity
    /\ cloud \in Level

(* WatermarkController::new and WatermarkSignal::new start at Ok whatever  *)
(* the disk holds; the cloud starts from the state of a healthy box.       *)
Init ==
    /\ free \in 0..MaxPct
    /\ level = "ok"
    /\ flag = FALSE
    /\ pc = "idle"
    /\ step = 0
    /\ silent = FALSE
    /\ conn = "down"
    /\ snapshot = "ok"
    /\ queue = <<>>
    /\ cloud = "ok"

-----------------------------------------------------------------------------
(* The environment: recordings, other programs and the ladder itself.      *)

DiskMoves(f) ==
    /\ free' = f
    /\ UNCHANGED <<loopVars, pumpVars>>

-----------------------------------------------------------------------------
(* The safety loop.                                                        *)

RecoveryFloor == LowPct + Hysteresis

Bug_StrictFloor(l, f) ==
    IF f <= PanicPct THEN "panic"
    ELSE IF (l = "ok" /\ f > LowPct) \/ (l # "ok" /\ f > RecoveryFloor) THEN "ok"
    ELSE "low"

Bug_StrictPanic(l, f) ==
    IF l # "ok" /\ f >= RecoveryFloor THEN "ok"
    ELSE IF f < PanicPct THEN "panic"
    ELSE IF l = "ok" /\ f > LowPct THEN "ok"
    ELSE "low"

(* WatermarkController::observe.  From Ok the level worsens at the         *)
(* thresholds; from Low and Panic it clears at the recovery floor; from    *)
(* Low the panic threshold is looked at before the floor.                  *)
observe(l, f) ==
    CASE l = "ok" -> IF f <= PanicPct THEN "panic"
                     ELSE IF f <= LowPct THEN "low" ELSE "ok"
      [] l = "low" -> IF f <= PanicPct THEN "panic"
                      ELSE IF f >= RecoveryFloor THEN "ok" ELSE "low"
      [] l = "panic" -> IF f >= RecoveryFloor THEN "ok"
                        ELSE IF f > PanicPct THEN "low" ELSE "panic"

(* What a sample does to the recorder's flag: entering Panic raises it,    *)
(* reaching Ok clears it, every other transition leaves it alone.          *)
FlagAfterSample(l) ==
    IF l # level /\ l = "panic" THEN TRUE
    ELSE IF l # level /\ l = "ok" THEN FALSE
    ELSE flag

(* Where the loop goes once the tick's transition has been dealt with: to  *)
(* the ladder while under pressure, else to the next tick.                 *)
Proceed(l) == IF l = "ok" THEN "idle" ELSE "reclaim"

(* One tick: probe, observe, mirror the level, move the flag.  A change of *)
(* level is published before anything else.  A failed probe skips the tick *)
(* and changes nothing.                                                    *)
Sample ==
    /\ pc = "idle"
    /\ LET l == observe(level, free) IN
       /\ level' = l
       /\ flag' = FlagAfterSample(l)
       /\ pc' = IF l # level THEN "publish" ELSE Proceed(l)
       /\ silent' = (silent /\ l = level)
    /\ step' = 0
    /\ UNCHANGED <<free, pumpVars>>

Bug_SubscribeLast == conn = "pumping"

(* A message reaches a subscriber from the moment it subscribed.           *)
Listening == conn # "down"

(* publish_storage_event over a broadcast channel: nobody listening loses  *)
(* it, a full backlog loses its oldest message.                            *)
Publish ==
    /\ pc = "publish"
    /\ queue' = IF ~Listening THEN queue
                ELSE IF Len(queue) < BusCapacity THEN Append(queue, level)
                ELSE Append(Tail(queue), level)
    /\ pc' = Proceed(level)
    /\ UNCHANGED <<free, level, flag, step, silent, conn, snapshot, cloud>>

Bug_StepPastCap ==
    IF step + 1 <= MaxSteps
    THEN step' = step + 1 /\ pc' = "reclaim"
    ELSE step' = 0 /\ pc' = "idle"

(* The batch ends after MaxSteps steps; the next tick starts at step 0.    *)
NextStep ==
    IF step + 1 < MaxSteps
    THEN step' = step + 1 /\ pc' = "reclaim"
    ELSE step' = 0 /\ pc' = "idle"

(* pressure_reclaim: Ok(true) lets the batch go on, with a re-probe after  *)
(* every ReprobeEvery steps; Ok(false) and an error end it.                *)
ReclaimStep ==
    /\ pc = "reclaim"
    /\ \/ /\ step % ReprobeEvery = ReprobeEvery - 1
          /\ pc' = "reprobe"
          /\ UNCHANGED step
       \/ /\ step % ReprobeEvery # ReprobeEvery - 1
          /\ NextStep
       \/ /\ pc' = "idle"
          /\ step' = 0
    /\ UNCHANGED <<free, level, flag, silent, pumpVars>>

Bug_KeepFlag(l) == flag

(* The re-probe acts on the recorder only when the level reached Ok.       *)
FlagAfterReprobe(l) == IF l = "ok" THEN FALSE ELSE flag

Bug_RecoverQuietly == pc' = "idle"

(* The recovery found by a re-probe is published and ends the batch.       *)
RecoveryFound == pc' = "publish"

(* The re-probe in the middle of a batch.  A move between Low and Panic is *)
(* mirrored into the level and goes no further; a failed probe is skipped. *)
Reprobe ==
    /\ pc = "reprobe"
    /\ \/ LET l == observe(level, free) IN
          /\ level' = l
          /\ flag' = FlagAfterReprobe(l)
          /\ silent' = (IF l = level THEN silent ELSE l # "ok")
          /\ IF l = "ok" THEN RecoveryFound /\ step' = 0 ELSE NextStep
       \/ /\ NextStep
          /\ UNCHANGED <<level, flag, silent>>
    /\ UNCHANGED <<free, pumpVars>>

(* The engine restarts: level, flag and subscription are in memory.        *)
Restart ==
    /\ level' = "ok"
    /\ flag' = FALSE
    /\ pc' = "idle"
    /\ step' = 0
    /\ silent' = FALSE
    /\ conn' = "down"
    /\ queue' = <<>>
    /\ UNCHANGED <<free, snapshot, cloud>>

-----------------------------------------------------------------------------
(* The tunnel's pump.                                                      *)

Subscribe ==
    /\ conn = "down"
    /\ conn' = "subscribed"
    /\ UNCHANGED <<free, loopVars, snapshot, queue, cloud>>

ReadLevel ==
    /\ conn = "subscribed"
    /\ conn' = "read"
    /\ snapshot' = level
    /\ UNCHANGED <<free, loopVars, queue, cloud>>

SendSnapshot ==
    /\ conn = "read"
    /\ conn' = "pumping"
    /\ cloud' = snapshot
    /\ UNCHANGED <<free, loopVars, snapshot, queue>>

Forward ==
    /\ conn = "pumping"
    /\ queue # <<>>
    /\ cloud' = Head(queue)
    /\ queue' = Tail(queue)
    /\ UNCHANGED <<free, loopVars, conn, snapshot>>

(* A send fails or another pump of the connection ends: the subscription   *)
(* and its backlog are dropped.                                            *)
Disconnect ==
    /\ conn # "down"
    /\ conn' = "down"
    /\ queue' = <<>>
    /\ UNCHANGED <<free, loopVars, snapshot, cloud>>

Loop == Sample \/ Publish \/ ReclaimStep \/ Reprobe

Pump == Subscribe \/ ReadLevel \/ SendSnapshot \/ Forward

Next ==
    \/ \E f \in 0..MaxPct : DiskMoves(f)
    \/ Loop
    \/ Pump
    \/ Disconnect
    \/ Restart

Spec == Init /\ [][Next]_vars

(* The loop and the pump are tokio tasks that are polled whenever they can *)
(* move; the disk, disconnections and restarts are not obliged to happen.  *)
Fairness == WF_vars(Loop) /\ WF_vars(Pump)

FairSpec == Spec /\ Fairness

-----------------------------------------------------------------------------
(* The recorder never refuses clips on a disk the controller holds to be   *)
(* healthy: the flag is cleared on both paths back to Ok, the sampled one  *)
(* and the one found in the middle of a reclaim batch.  At Panic it does,  *)
(* unless Panic was reached by a re-probe that told nobody.                *)
FlagFollowsLevel ==
    /\ flag => level # "ok"
    /\ level = "panic" /\ ~flag => silent

(* Once the pump has caught up with the bus and the loop has nothing left  *)
(* to publish, the cloud shows the level of the box, whatever transitions  *)
(* raced with the connection's subscribe, read and first send; only a      *)
(* level changed by a silent re-probe is missing.                          *)
CloudConverged ==
    conn = "pumping" /\ queue = <<>> /\ pc # "publish" /\ ~silent => cloud = level

(* The level tracks the disk at both ends.  Free space that stays above    *)
(* the recovery floor brings the level back to Ok and lets the recorder    *)
(* work again, for good; a disk that stays at or under the panic threshold *)
(* is seen to be in Panic again and again (a restart forgets the level).   *)
LevelTracksDisk ==
    /\ <>[](free >= RecoveryFloor) => <>[](level = "ok" /\ ~flag)
    /\ <>[](free <= PanicPct) => []<>(level = "panic")

(* On a connection that stays up, a disk that stays recovered is           *)
(* eventually reported as Ok, the silent re-probes notwithstanding.        *)
CloudLearnsRecovery ==
    <>[](free >= RecoveryFloor /\ conn = "pumping") => <>[](cloud = "ok")

(* storage_safety.rs on hysteresis: the controller "never re-enters a      *)
(* less-severe level just because free pct nudged a hair above the         *)
(* threshold".  That is so of Ok and of the recorder: the recorder stops   *)
(* at the panic threshold and starts again at the recovery floor, Ok is    *)
(* left at the low threshold and regained at the floor; only a restart     *)
(* forgets either.  Low and Panic have no band between them.               *)
ChangesAtTheBand ==
    [][/\ level = "ok" /\ level' # "ok" => free <= LowPct
       /\ level # "ok" /\ level' = "ok" => Restart \/ free >= RecoveryFloor
       /\ ~flag /\ flag' => free <= PanicPct
       /\ flag /\ ~flag' => Restart \/ free >= RecoveryFloor]_vars

(* "Panic -> Low only when free >= low_pct + HYSTERESIS_PCT", as the doc   *)
(* comment of WatermarkController has it.                                  *)
HysteresisOnWayDown ==
    [][level = "panic" /\ level' = "low" => free >= RecoveryFloor]_vars

(* "Below this percentage the recorder refuses to open new clips", as the  *)
(* configuration documents panic_watermark_pct: on a disk that stays at or *)
(* under it the flag is raised.                                            *)
PanicRefuses ==
    <>[](free <= PanicPct) => []<>flag

(* The pump "forwards every subsequent transition for the life of this     *)
(* connection": caught up, the cloud shows the level of the box.           *)
CloudFollowsLevel ==
    conn = "pumping" /\ queue = <<>> /\ pc # "publish" => cloud = level
=============================================================================
