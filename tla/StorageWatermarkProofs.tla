----------------------- MODULE StorageWatermarkProofs -----------------------
(***************************************************************************)
(* Proofs about the storage safety floor, for every pair of thresholds,    *)
(* every hysteresis, batch length, re-probe period and bus capacity.       *)
(***************************************************************************)
EXTENDS StorageWatermark, TLAPS

(* The level the cloud will show once the pump has sent all it holds.      *)
Heard ==
    IF queue # <<>> THEN queue[Len(queue)]
    ELSE IF conn = "read" THEN snapshot ELSE cloud

(* What the pump holds is current from the moment it has read the level or *)
(* received a message, except between a change and its publication and     *)
(* after a silent change; without a subscription there is no backlog.      *)
PumpInv ==
    /\ conn = "down" => queue = <<>>
    /\ \/ conn \in {"read", "pumping"}
       \/ conn = "subscribed" /\ queue # <<>>
       => (pc # "publish" /\ ~silent => Heard = level)

WatermarkInv == TypeOK /\ FlagFollowsLevel /\ PumpInv

-----------------------------------------------------------------------------
(* What the bus does to a backlog, as facts about sequences of levels.     *)

(* A sequence has no element exactly when it is empty.                     *)
LEMMA EmptyBacklog ==
    ASSUME NEW q \in Seq(Level)
    PROVE  (q = <<>>) <=> (Len(q) = 0)
OBVIOUS

(* Appending to a backlog that has room.                                   *)
LEMMA AppendBacklog ==
    ASSUME NEW q \in Seq(Level), NEW l \in Level
    PROVE  LET r == Append(q, l) IN
           /\ r \in Seq(Level)
           /\ r # <<>>
           /\ Len(r) = Len(q) + 1
           /\ r[Len(r)] = l
<1> DEFINE r == Append(q, l)
<1>1. r \in Seq(Level) /\ Len(r) = Len(q) + 1 /\ r[Len(r)] = l
  OBVIOUS
<1>2. Len(r) # 0
  BY <1>1
<1> QED
  BY <1>1, <1>2, EmptyBacklog

(* Taking the oldest message keeps the newest one, unless it was the same. *)
LEMMA TailBacklog ==
    ASSUME NEW q \in Seq(Level), q # <<>>
    PROVE  /\ Head(q) \in Level
           /\ Tail(q) \in Seq(Level)
           /\ Len(Tail(q)) = Len(q) - 1
           /\ Len(Tail(q)) \in Nat
           /\ Tail(q) # <<>> => Tail(q)[Len(Tail(q))] = q[Len(q)]
           /\ Tail(q) = <<>> => Head(q) = q[Len(q)]
<1>1. Len(q) \in Nat /\ Len(q) # 0
  BY EmptyBacklog
<1>2. Head(q) = q[1] /\ q[1] \in Level
  BY <1>1
<1>3. Tail(q) \in Seq(Level) /\ Len(Tail(q)) = Len(q) - 1
  BY <1>1
<1>4. Tail(q) = <<>> => Len(q) = 1
  BY <1>1, <1>3, EmptyBacklog
<1>5. ASSUME Tail(q) # <<>> PROVE Tail(q)[Len(Tail(q))] = q[Len(q)]
  <2>1. Len(q) - 1 \in 1..Len(Tail(q))
    BY <1>1, <1>3, <1>5, EmptyBacklog
  <2> QED
    BY <1>1, <1>3, <2>1
<1> QED
  BY <1>1, <1>2, <1>3, <1>4, <1>5

(* observe always yields a level.                                          *)
LEMMA ObserveLevel ==
    ASSUME NEW l \in Level, NEW f \in Int
    PROVE  observe(l, f) \in Level
BY DEF observe, Level

(* Where the readings lie at which observe worsens the level or clears it. *)
LEMMA ObserveBand ==
    ASSUME NEW l \in Level, NEW f \in Int
    PROVE  /\ l = "ok" /\ observe(l, f) # "ok" => f <= LowPct
           /\ l # "ok" /\ observe(l, f) = "ok" => f >= RecoveryFloor
           /\ l # "panic" /\ observe(l, f) = "panic" => f <= PanicPct
<1>1. LowPct \in Int /\ PanicPct \in Int /\ PanicPct <= LowPct
  BY WatermarkAssumption
<1>2. CASE l = "ok"
  BY <1>1, <1>2 DEF observe
<1>3. CASE l = "low"
  BY <1>1, <1>3 DEF observe
<1>4. CASE l = "panic"
  BY <1>1, <1>4 DEF observe
<1> QED  BY <1>2, <1>3, <1>4 DEF Level

-----------------------------------------------------------------------------
(* Every step of the specification preserves the type invariant.           *)
LEMMA TypeStep == TypeOK /\ [Next]_vars => TypeOK'
<1> SUFFICES ASSUME TypeOK, [Next]_vars PROVE TypeOK'
  OBVIOUS
<1> USE WatermarkAssumption
<1>0. MaxSteps - 1 \in Nat /\ 0 \in 0..(MaxSteps - 1)
  OBVIOUS
<1>1. ASSUME NEW f \in 0..MaxPct, DiskMoves(f) PROVE TypeOK'
  BY <1>1 DEF DiskMoves, TypeOK, loopVars, pumpVars
<1>2. CASE Sample
  <2>1. level' \in Level
    BY <1>2, ObserveLevel DEF Sample, TypeOK
  <2>2. flag' \in BOOLEAN /\ silent' \in BOOLEAN
    BY <1>2 DEF Sample, FlagAfterSample, TypeOK
  <2>3. pc' \in {"publish", "idle", "reclaim"} /\ step' = 0
    BY <1>2 DEF Sample, Proceed
  <2> QED
    BY <1>0, <1>2, <2>1, <2>2, <2>3 DEF Sample, TypeOK, pumpVars
<1>3. CASE Publish
  <2>1. queue' \in Seq(Level) /\ Len(queue') <= BusCapacity
    <3>1. CASE ~Listening
      BY <1>3, <3>1 DEF Publish, TypeOK
    <3>2. CASE Listening /\ Len(queue) < BusCapacity
      <4>1. queue' = Append(queue, level)
        BY <1>3, <3>2 DEF Publish
      <4>2. Len(queue) \in Nat
        BY DEF TypeOK
      <4> QED
        BY <3>2, <4>1, <4>2, AppendBacklog DEF TypeOK
    <3>3. CASE Listening /\ ~(Len(queue) < BusCapacity)
      <4>1. queue' = Append(Tail(queue), level)
        BY <1>3, <3>3 DEF Publish
      <4>2. Len(queue) \in Nat /\ Len(queue) # 0 /\ Len(queue) <= BusCapacity
        BY <3>3 DEF TypeOK
      <4>3. queue # <<>> /\ queue \in Seq(Level) /\ level \in Level
        BY <4>2, EmptyBacklog DEF TypeOK
      <4>4. /\ Tail(queue) \in Seq(Level)
            /\ Len(Tail(queue)) = Len(queue) - 1
            /\ Len(Tail(queue)) \in Nat
        BY <4>3, TailBacklog
      <4>5. queue' \in Seq(Level) /\ Len(queue') = Len(Tail(queue)) + 1
        BY <4>1, <4>3, <4>4, AppendBacklog
      <4> QED
        BY <4>2, <4>4, <4>5
    <3> QED
      BY <3>1, <3>2, <3>3
  <2>2. pc' \in {"idle", "reclaim"}
    BY <1>3 DEF Publish, Proceed
  <2> QED
    BY <1>3, <2>1, <2>2 DEF Publish, TypeOK
<1>4. NextStep => pc' \in {"idle", "reclaim"} /\ step' \in 0..(MaxSteps - 1)
  BY <1>0 DEF NextStep, TypeOK
<1>5. CASE ReclaimStep
  <2>1. pc' \in {"idle", "reclaim", "reprobe"} /\ step' \in 0..(MaxSteps - 1)
    BY <1>0, <1>4, <1>5 DEF ReclaimStep, TypeOK
  <2> QED
    BY <1>5, <2>1 DEF ReclaimStep, TypeOK, pumpVars
<1>6. CASE Reprobe
  <2>1. level' \in Level
    BY <1>6, ObserveLevel DEF Reprobe, TypeOK
  <2>2. flag' \in BOOLEAN /\ silent' \in BOOLEAN
    BY <1>6 DEF Reprobe, FlagAfterReprobe, TypeOK
  <2>3. pc' \in {"idle", "reclaim", "publish"} /\ step' \in 0..(MaxSteps - 1)
    BY <1>0, <1>4, <1>6 DEF Reprobe, RecoveryFound
  <2> QED
    BY <1>6, <2>1, <2>2, <2>3 DEF Reprobe, TypeOK, pumpVars
<1>7. <<>> \in Seq(Level) /\ Len(<<>>) <= BusCapacity
  OBVIOUS
<1>8. CASE Restart
  BY <1>0, <1>7, <1>8 DEF Restart, TypeOK, Level
<1>9. CASE Subscribe
  BY <1>9 DEF Subscribe, TypeOK, loopVars
<1>10. CASE ReadLevel
  BY <1>10 DEF ReadLevel, TypeOK, loopVars
<1>11. CASE SendSnapshot
  BY <1>11 DEF SendSnapshot, TypeOK, loopVars
<1>12. CASE Forward
  <2>1. queue \in Seq(Level) /\ queue # <<>> /\ Len(queue) \in Nat /\ Len(queue) <= BusCapacity
    BY <1>12 DEF Forward, TypeOK
  <2>2. /\ Head(queue) \in Level
        /\ Tail(queue) \in Seq(Level)
        /\ Len(Tail(queue)) = Len(queue) - 1
    BY <2>1, TailBacklog
  <2>3. Len(Tail(queue)) <= BusCapacity
    BY <2>1, <2>2
  <2> QED
    BY <1>12, <2>2, <2>3 DEF Forward, TypeOK, loopVars
<1>13. CASE Disconnect
  BY <1>7, <1>13 DEF Disconnect, TypeOK, loopVars
<1>14. CASE UNCHANGED vars
  BY <1>14 DEF vars, loopVars, pumpVars, TypeOK
<1> QED
  BY <1>1, <1>2, <1>3, <1>5, <1>6, <1>8, <1>9, <1>10, <1>11, <1>12, <1>13, <1>14
  DEF Next, Loop, Pump

(* Every step keeps the flag consistent with the level.                    *)
LEMMA FlagStep ==
    TypeOK /\ FlagFollowsLevel /\ [Next]_vars
    => FlagFollowsLevel'
<1> SUFFICES ASSUME TypeOK, FlagFollowsLevel, [Next]_vars
             PROVE  FlagFollowsLevel'
  OBVIOUS
<1> USE DEF FlagFollowsLevel
<1>1. CASE UNCHANGED <<level, flag, silent>>
  BY <1>1
<1>2. CASE Sample
  BY <1>2 DEF Sample, FlagAfterSample, TypeOK
<1>3. CASE Reprobe
  BY <1>1, <1>3 DEF Reprobe, FlagAfterReprobe, TypeOK
<1>4. CASE Restart
  BY <1>4 DEF Restart
<1>5. ASSUME NEW f \in 0..MaxPct, DiskMoves(f) PROVE UNCHANGED <<level, flag, silent>>
  BY <1>5 DEF DiskMoves, loopVars
<1>6. Publish \/ ReclaimStep => UNCHANGED <<level, flag, silent>>
  BY DEF Publish, ReclaimStep
<1>7. Pump \/ Disconnect => UNCHANGED <<level, flag, silent>>
  BY DEF Pump, Subscribe, ReadLevel, SendSnapshot, Forward, Disconnect, loopVars
<1>8. UNCHANGED vars => UNCHANGED <<level, flag, silent>>
  BY DEF vars, loopVars
<1> QED
  BY <1>1, <1>2, <1>3, <1>4, <1>5, <1>6, <1>7, <1>8 DEF Next, Loop

(* Every step keeps what the pump holds current.                           *)
LEMMA PumpStep == TypeOK /\ PumpInv /\ [Next]_vars => PumpInv'
<1> SUFFICES ASSUME TypeOK, PumpInv, [Next]_vars PROVE PumpInv'
  OBVIOUS
<1>1. ASSUME UNCHANGED pumpVars,
             pc' # "publish" /\ ~silent' => level' = level /\ pc # "publish" /\ ~silent
      PROVE  PumpInv'
  BY <1>1 DEF PumpInv, Heard, pumpVars
<1>2. ASSUME NEW f \in 0..MaxPct, DiskMoves(f) PROVE PumpInv'
  BY <1>1, <1>2 DEF DiskMoves, loopVars
<1>3. CASE Sample
  BY <1>1, <1>3 DEF Sample, TypeOK
<1>4. CASE Publish
  <2>1. CASE ~Listening
    BY <1>4, <2>1 DEF Publish, Listening, PumpInv
  <2>2. CASE Listening
    <3>0. queue \in Seq(Level) /\ level \in Level
      BY DEF TypeOK
    <3>1. queue' # <<>> /\ queue'[Len(queue')] = level
      <4>1. CASE Len(queue) < BusCapacity
        <5>1. queue' = Append(queue, level)
          BY <1>4, <2>2, <4>1 DEF Publish
        <5> QED
          BY <3>0, <5>1, AppendBacklog
      <4>2. CASE ~(Len(queue) < BusCapacity)
        <5>1. queue' = Append(Tail(queue), level)
          BY <1>4, <2>2, <4>2 DEF Publish
        <5>2. Len(queue) # 0
          BY <3>0, <4>2, WatermarkAssumption
        <5>3. Tail(queue) \in Seq(Level)
          BY <3>0, <5>2, EmptyBacklog, TailBacklog
        <5> QED
          BY <3>0, <5>1, <5>3, AppendBacklog
      <4> QED
        BY <4>1, <4>2
    <3>2. Heard' = level'
      BY <1>4, <3>1 DEF Heard, Publish
    <3> QED
      BY <1>4, <2>2, <3>2 DEF PumpInv, Publish, Listening
  <2> QED
    BY <2>1, <2>2
<1>5. CASE ReclaimStep
  BY <1>1, <1>5 DEF ReclaimStep
<1>6. CASE Reprobe
  BY <1>1, <1>6 DEF Reprobe, RecoveryFound, TypeOK
<1>7. CASE Restart \/ Disconnect
  BY <1>7 DEF Restart, Disconnect, PumpInv
<1>8. CASE Subscribe
  BY <1>8 DEF Subscribe, PumpInv
<1>9. CASE ReadLevel
  BY <1>9 DEF ReadLevel, PumpInv, Heard, loopVars
<1>10. CASE SendSnapshot
  BY <1>10 DEF SendSnapshot, PumpInv, Heard, loopVars
<1>11. CASE Forward
  <2>1. queue \in Seq(Level) /\ queue # <<>>
    BY <1>11 DEF Forward, TypeOK
  <2>2. Heard' = Heard
    BY <1>11, <2>1, TailBacklog DEF Forward, Heard
  <2> QED
    BY <1>11, <2>2 DEF Forward, PumpInv, loopVars
<1>12. CASE UNCHANGED vars
  BY <1>1, <1>12 DEF vars, loopVars
<1> QED
  BY <1>2, <1>3, <1>4, <1>5, <1>6, <1>7, <1>8, <1>9, <1>10, <1>11, <1>12
  DEF Next, Loop, Pump

-----------------------------------------------------------------------------
(* The inductive invariant of the safety loop and the pump holds for ever. *)
THEOREM WatermarkInvariant == Spec => []WatermarkInv
<1>1. Init => WatermarkInv
  <2> SUFFICES ASSUME Init PROVE WatermarkInv
    OBVIOUS
  <2>1. step \in 0..(MaxSteps - 1)
    BY WatermarkAssumption DEF Init
  <2>2. queue \in Seq(Level) /\ Len(queue) <= BusCapacity
    BY WatermarkAssumption DEF Init
  <2>3. TypeOK
    BY <2>1, <2>2 DEF Init, TypeOK, Level
  <2> QED
    BY <2>3 DEF Init, WatermarkInv, FlagFollowsLevel, PumpInv
<1>2. WatermarkInv /\ [Next]_vars => WatermarkInv'
  BY TypeStep, FlagStep, PumpStep DEF WatermarkInv
<1> QED
  BY <1>1, <1>2, PTL DEF Spec

(* The states of the safety loop and of the pump keep their types; the     *)
(* step index stays inside the batch and the backlog inside its capacity.  *)
THEOREM WatermarkTypes == Spec => []TypeOK
<1>1. WatermarkInv => TypeOK
  BY DEF WatermarkInv
<1> QED
  BY <1>1, WatermarkInvariant, PTL

(* The recorder never refuses clips while the level is Ok, and refuses     *)
(* them at Panic, save after a silent re-probe.                            *)
THEOREM FlagKeepsUp == Spec => []FlagFollowsLevel
<1>1. WatermarkInv => FlagFollowsLevel
  BY DEF WatermarkInv
<1> QED
  BY <1>1, WatermarkInvariant, PTL

(* A pump that has caught up shows the cloud the level of the box, save    *)
(* after a silent re-probe.                                                *)
THEOREM PumpConverges == Spec => []CloudConverged
<1>1. WatermarkInv => CloudConverged
  BY DEF WatermarkInv, PumpInv, Heard, CloudConverged
<1> QED
  BY <1>1, WatermarkInvariant, PTL

-----------------------------------------------------------------------------
(* The steps that move the level or the flag do so at the two ends of the  *)
(* hysteresis only; the flag's own end needs FlagFollowsLevel, for a       *)
(* re-probe clears the flag at Ok without looking at what it was.          *)
LEMMA BandStep ==
    ASSUME TypeOK, FlagFollowsLevel, [Next]_vars
    PROVE  /\ level = "ok" /\ level' # "ok" => free <= LowPct
           /\ level # "ok" /\ level' = "ok" => Restart \/ free >= RecoveryFloor
           /\ ~flag /\ flag' => free <= PanicPct
           /\ flag /\ ~flag' => Restart \/ free >= RecoveryFloor
<1>a. level \in Level /\ free \in Int /\ flag \in BOOLEAN
  BY WatermarkAssumption DEF TypeOK
<1>1. CASE UNCHANGED <<level, flag>>
  BY <1>1
<1>2. CASE Sample
  BY <1>a, <1>2, ObserveBand DEF Sample, FlagAfterSample
<1>3. CASE Reprobe
  BY <1>a, <1>1, <1>3, ObserveBand DEF Reprobe, FlagAfterReprobe, FlagFollowsLevel
<1>4. CASE Restart
  BY <1>4 DEF Restart
<1>5. ASSUME NEW f \in 0..MaxPct, DiskMoves(f) PROVE UNCHANGED <<level, flag>>
  BY <1>5 DEF DiskMoves, loopVars
<1>6. Publish \/ ReclaimStep => UNCHANGED <<level, flag>>
  BY DEF Publish, ReclaimStep
<1>7. Pump \/ Disconnect => UNCHANGED <<level, flag>>
  BY DEF Pump, Subscribe, ReadLevel, SendSnapshot, Forward, Disconnect, loopVars
<1>8. UNCHANGED vars => UNCHANGED <<level, flag>>
  BY DEF vars, loopVars
<1> QED
  BY <1>1, <1>2, <1>3, <1>4, <1>5, <1>6, <1>7, <1>8 DEF Next, Loop

(* The band of ChangesAtTheBand holds of every step: the recorder stops at *)
(* the panic threshold and starts again at the recovery floor, Ok is left  *)
(* at the low threshold and regained at the floor, and only a restart      *)
(* forgets either.                                                         *)
THEOREM RecorderHysteresis == Spec => ChangesAtTheBand
<1>1. WatermarkInv /\ [Next]_vars =>
         [/\ level = "ok" /\ level' # "ok" => free <= LowPct
          /\ level # "ok" /\ level' = "ok" => Restart \/ free >= RecoveryFloor
          /\ ~flag /\ flag' => free <= PanicPct
          /\ flag /\ ~flag' => Restart \/ free >= RecoveryFloor]_vars
  BY BandStep DEF WatermarkInv
<1> QED  BY <1>1, WatermarkInvariant, PTL DEF Spec, ChangesAtTheBand
=============================================================================
