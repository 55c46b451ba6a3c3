------------------------- MODULE AlertOutboxProofs -------------------------
(***************************************************************************)
(* Proofs about AlertOutbox for any events, sinks, budgets and windows.    *)
(***************************************************************************)
EXTENDS AlertOutbox, TLAPS

-----------------------------------------------------------------------------
(* backoff_for_with always yields a delay, whatever the attempt number.    *)
LEMMA DelayType == \A n : Delay(n) \in Nat
<1> TAKE n
<1> DEFINE d == Base * 2^(n - 1)
<1>1. Delay(n) = IF d \in 0..Cap THEN d ELSE Cap
  BY DEF Delay
<1> HIDE DEF d
<1> QED  BY <1>1, ConstantsAssumption DEF ConstantsAssumption

(* What the five UPDATEs of the outbox write stays within the columns.      *)
LEMMA MarkType ==
    ASSUME TypeOK, NEW r \in Row
    PROVE  /\ \A v \in {"pending"} \cup Terminal :
                 SetStatus(r, v) => st' \in [Row -> {"none", "pending"} \cup Terminal]
           /\ BumpAttempts(r) => att' \in [Row -> Nat]
           /\ \A d \in Nat : SetWait(r, d) => wait' \in [Row -> Nat]
<1>1. ASSUME NEW v \in {"pending"} \cup Terminal, SetStatus(r, v)
      PROVE  st' \in [Row -> {"none", "pending"} \cup Terminal]
  BY <1>1 DEF TypeOK, SetStatus
<1>2. ASSUME BumpAttempts(r) PROVE att' \in [Row -> Nat]
  BY <1>2 DEF TypeOK, BumpAttempts
<1>3. ASSUME NEW d \in Nat, SetWait(r, d) PROVE wait' \in [Row -> Nat]
  BY <1>3 DEF TypeOK, SetWait
<1> QED  BY <1>1, <1>2, <1>3

-----------------------------------------------------------------------------
(* A task past NextRow has taken a row off its group and holds it until it *)
(* asks for the next one.                                                  *)
Holding(s) == pc[s] \notin {"idle", "next"}

RowInHand == \A s \in Sink : Holding(s) => cur[s] \in Event

TypeInv == TypeOK /\ RowInHand

(* The labels at which the row in hand is still to be settled.             *)
Processing == {"hydrate", "alertclip", "motionlink", "getclip", "deliver", "suppress",
               "wait", "retry", "sent", "dead"}

Enqueued(e) == phase[e] \notin {"new", "snapped"}

Unsettled(r) == st[r] \in {"pending", "none"}

(* What a task relies on across its awaits: nobody but itself settles a    *)
(* row of its group, and no row of it is handled twice in a tick.          *)
TaskInv(s) ==
    /\ pc[s] = "idle" => todo[s] = {}
    /\ Holding(s) => cur[s] \in Event \ todo[s] /\ Enqueued(cur[s])
    /\ \A e \in todo[s] : Enqueued(e) /\ Unsettled(<<e, s>>)
    /\ pc[s] \in Processing => Unsettled(CurRow(s))
    /\ pc[s] = "sent" => CurRow(s) \in accepted

(* An event without an events row has no outbox rows; its snapshot is not  *)
(* reclaimed before it has had some, nor while one of them is pending.     *)
EventInv(e) ==
    /\ ~Live(e) => \A s \in Sink : st[<<e, s>>] = "none"
    /\ snap[e] = "reclaimed" =>
          Enqueued(e) /\ \A s \in Sink : st[<<e, s>>] # "pending"

DeliveryInv ==
    /\ \A s \in Sink : TaskInv(s)
    /\ \A e \in Event : EventInv(e)

(* The row's attempt is over and not yet written to the attempts column.   *)
Post(r) == cur[r[2]] = r[1] /\ pc[r[2]] \in {"sent", "retry", "dead"}

(* The row may still be handed to its sink.                                *)
Open(r) ==
    \/ st[r] = "pending"
    \/ r[1] \in todo[r[2]]
    \/ cur[r[2]] = r[1] /\ pc[r[2]] \in Processing

(* The attempts column against what happened: it lags the deliver() calls  *)
(* and exceeds them only by as much as store failures and crashes explain. *)
RowInv(r) ==
    /\ calls[r] <= MaxAttempts + Mishaps
    /\ firstSaid[r] <= 1 + Mishaps
    /\ ~Enqueued(r[1]) => att[r] = 0 /\ calls[r] = 0 /\ firstSaid[r] = 0
    /\ st[r] = "dead" => r \in condemned \/ calls[r] + Mishaps >= MaxAttempts
    /\ Open(r) => /\ att[r] < MaxAttempts
                  /\ calls[r] <= att[r] + Mishaps + 1
                  /\ st[r] # "none" => att[r] <= calls[r] + Mishaps
                  /\ st[r] # "none" /\ att[r] > 0 => firstSaid[r] + Mishaps > 0
    /\ Open(r) /\ ~Post(r) => /\ calls[r] <= att[r] + Mishaps
                              /\ att[r] = 0 => firstSaid[r] <= Mishaps
    /\ Post(r) /\ pc[r[2]] # "dead" /\ st[r] # "none" => att[r] + 1 <= calls[r] + Mishaps
    /\ Post(r) /\ pc[r[2]] = "retry" /\ st[r] # "none" => firstSaid[r] + Mishaps > 0
    /\ Post(r) /\ pc[r[2]] = "dead" /\ st[r] # "none" =>
          r \in condemned \/ calls[r] + Mishaps >= MaxAttempts

MishapInv ==
    /\ faultsLeft <= MaxFaults
    /\ crashesLeft <= MaxCrashes

BudgetInv == MishapInv /\ \A r \in Row : RowInv(r)

(* Every step of the path keeps TypeInv; RowInHand is what makes the rows  *)
(* that marks and outcomes name rows of the table.                         *)
THEOREM TypeInvariant == Spec => []TypeInv
<1>1. Init => TypeInv
  BY ConstantsAssumption DEF Init, TypeInv, TypeOK, RowInHand, Holding, Labels, Terminal, Row
<1>2. TypeInv /\ [Next]_vars => TypeInv'
  <2> SUFFICES ASSUME TypeInv, [Next]_vars PROVE TypeInv'
    OBVIOUS
  <2> USE ConstantsAssumption
  <2> USE DEF TypeInv, TypeOK, RowInHand, Holding, eventVars, tableVars, taskVars, histVars, runVars
  <2>1. ASSUME NEW e \in Event, WriteSnapshot(e) PROVE TypeInv'
    BY <2>1 DEF WriteSnapshot
  <2>2. ASSUME NEW e \in Event, NEW D \in SUBSET Sink, record_event_and_enqueue(e, D)
        PROVE  TypeInv'
    BY <2>2 DEF record_event_and_enqueue
  <2>3. ASSUME NEW e \in Event, RecordFails(e) PROVE TypeInv'
    BY <2>3 DEF RecordFails, Fault
  <2>4. ASSUME NEW e \in Event, ArmAlertClip(e) PROVE TypeInv'
    BY <2>4 DEF ArmAlertClip
  <2>5. ASSUME NEW e \in Event, LinkMotionClip(e) PROVE TypeInv'
    BY <2>5 DEF LinkMotionClip
  <2>6. ASSUME NEW e \in Event, FinishAlertClip(e) PROVE TypeInv'
    BY <2>6 DEF FinishAlertClip
  <2>7. ASSUME NEW e \in Event, CloseMotionClip(e) \/ CloseFails(e) PROVE TypeInv'
    BY <2>7 DEF CloseMotionClip, CloseFails, Fault
  <2>8. ASSUME NEW e \in Event, SoftEvict(e) PROVE TypeInv'
    BY <2>8 DEF SoftEvict
  <2>9. ASSUME NEW e \in Event, CascadeDelete(e) PROVE TypeInv'
    BY <2>9 DEF CascadeDelete
  <2>10. ASSUME NEW e \in Event, SweepUnlink(e) PROVE TypeInv'
    BY <2>10 DEF SweepUnlink
  <2>11. ASSUME NEW r \in Row, PruneTerminal(r) PROVE TypeInv'
    BY <2>11 DEF PruneTerminal
  <2>12. CASE SweepList
    BY <2>12 DEF SweepList
  <2>13. ASSUME NEW S \in SUBSET Sink, Reconfigure(S) PROVE TypeInv'
    BY <2>13 DEF Reconfigure
  <2>14. CASE Elapse
    BY <2>14 DEF Elapse, Countdown
  <2>15. CASE Tick
    BY <2>15 DEF Tick, Labels
  <2>16. ASSUME NEW s \in Sink, TaskStep(s) PROVE TypeInv'
    <3> USE DEF Goto, NoFault, Fault, Labels
    <3>b. Holding(s) => CurRow(s) \in Row
      BY DEF CurRow, Row
    <3>1. CASE NextRow(s)
      BY <3>1 DEF NextRow
    <3>2. CASE GroupEnds(s)
      BY <3>2 DEF GroupEnds
    <3>3. CASE Hydrate(s)
      BY <3>3, <3>b DEF Hydrate, Condemn
    <3>4. CASE ResolveAlertClip(s)
      BY <3>4 DEF ResolveAlertClip
    <3>5. CASE ResolveMotionLink(s)
      BY <3>5 DEF ResolveMotionLink
    <3>6. CASE GetClip(s)
      BY <3>6 DEF GetClip
    <3>7. CASE Deliver(s)
      BY <3>7, <3>b DEF Deliver, Condemn, report_first_failure
    <3>8. CASE MarkSent(s)
      <4> USE <3>8 DEF MarkSent
      <4>1. /\ st' \in [Row -> {"none", "pending"} \cup Terminal]
            /\ att' \in [Row -> Nat]
            /\ wait' \in [Row -> Nat]
        BY <3>b, MarkType DEF outbox_mark_sent, MarkFails, Terminal
      <4> QED  BY <4>1 DEF MarkFails
    <3>9. CASE schedule_retry(s)
      <4> USE <3>9 DEF schedule_retry
      <4>1. /\ st' \in [Row -> {"none", "pending"} \cup Terminal]
            /\ att' \in [Row -> Nat]
            /\ wait' \in [Row -> Nat]
        BY <3>b, MarkType, DelayType DEF outbox_mark_failed, MarkFails, Terminal
      <4> QED  BY <4>1 DEF MarkFails
    <3>10. CASE schedule_clip_wait(s)
      <4> USE <3>10 DEF schedule_clip_wait
      <4>1. /\ st' \in [Row -> {"none", "pending"} \cup Terminal]
            /\ att' \in [Row -> Nat]
            /\ wait' \in [Row -> Nat]
        BY <3>b, MarkType DEF outbox_mark_waiting, MarkFails, Terminal
      <4> QED  BY <4>1 DEF MarkFails
    <3>11. CASE mark_dead(s)
      <4> USE <3>11 DEF mark_dead
      <4>1. /\ st' \in [Row -> {"none", "pending"} \cup Terminal]
            /\ att' \in [Row -> Nat]
            /\ wait' \in [Row -> Nat]
        BY <3>b, MarkType DEF outbox_mark_dead, MarkFails, Terminal
      <4> QED  BY <3>b, <4>1 DEF MarkFails
    <3>12. CASE MarkSuppressed(s)
      <4> USE <3>12 DEF MarkSuppressed
      <4>1. /\ st' \in [Row -> {"none", "pending"} \cup Terminal]
            /\ att' \in [Row -> Nat]
            /\ wait' \in [Row -> Nat]
        BY <3>b, MarkType DEF outbox_mark_suppressed, MarkFails, Terminal
      <4> QED  BY <4>1 DEF MarkFails
    <3>13. CASE Reclaim(s)
      BY <3>13 DEF Reclaim
    <3> QED  BY <2>16, <3>1, <3>2, <3>3, <3>4, <3>5, <3>6, <3>7, <3>8, <3>9, <3>10,
               <3>11, <3>12, <3>13 DEF TaskStep
  <2>17. CASE Crash
    BY <2>17 DEF Crash, Labels
  <2>18. CASE UNCHANGED vars
    BY <2>18 DEF vars
  <2> QED  BY <2>1, <2>2, <2>3, <2>4, <2>5, <2>6, <2>7, <2>8, <2>9, <2>10, <2>11, <2>12,
             <2>13, <2>14, <2>15, <2>16, <2>17, <2>18 DEF Next
<1> QED  BY <1>1, <1>2, PTL DEF Spec

(* Every store access, wait and counter of the delivery path keeps its     *)
(* type: attempts and waits stay natural numbers, a task's row is an event *)
(* of the table, a status is one of the five the schema knows.             *)
THEOREM TypeCorrect == Spec => []TypeOK
<1>1. TypeInv => TypeOK
  BY DEF TypeInv
<1> QED  BY <1>1, TypeInvariant, PTL

-----------------------------------------------------------------------------
(* A step that leaves a task where it is, settles none of its rows and     *)
(* takes back neither an enqueue nor an acceptance keeps the task's facts. *)
LEMMA TaskFrame ==
    ASSUME NEW t \in Sink, TaskInv(t), TypeInv,
           pc'[t] = pc[t], cur'[t] = cur[t], todo'[t] = todo[t],
           \A e \in Event : Unsettled(<<e, t>>) => Unsettled(<<e, t>>)',
           \A e \in Event : Enqueued(e) => Enqueued(e)',
           accepted \subseteq accepted'
    PROVE  TaskInv(t)'
BY DEF TaskInv, TypeInv, TypeOK, RowInHand, Holding, CurRow, Processing

(* A mark changes the status of its own row only, and revives no row.      *)
LEMMA MarkFrame ==
    ASSUME TypeOK, NEW r \in Row, NEW v \in {"pending"} \cup Terminal, SetStatus(r, v)
    PROVE  /\ \A q \in Row : q # r => st'[q] = st[q]
           /\ \A q \in Row : st[q] = "none" => st'[q] = "none"
           /\ st'[r] = IF st[r] = "none" THEN "none" ELSE v
BY DEF TypeOK, SetStatus, Row

(* A task that moves on within process_row without writing the row.        *)
LEMMA LookStep ==
    ASSUME TypeInv, DeliveryInv, NEW s \in Sink, pc[s] \in Processing,
           NEW l \in Processing, pc' = [pc EXCEPT ![s] = l],
           UNCHANGED <<phase, st, snap, cur, todo>>, accepted \subseteq accepted',
           l = "sent" => CurRow(s) \in accepted'
    PROVE  DeliveryInv'
<1>1. ASSUME NEW t \in Sink PROVE TaskInv(t)'
  <2>1. CASE t = s
    BY <2>1 DEF DeliveryInv, TaskInv, Holding, Unsettled, Enqueued, CurRow, Processing, TypeInv,
                TypeOK
  <2>2. CASE t # s
    BY <2>2, TaskFrame DEF DeliveryInv, Unsettled, Enqueued, TypeInv, TypeOK
  <2> QED  BY <2>1, <2>2
<1>2. ASSUME NEW f \in Event PROVE EventInv(f)'
  BY DEF DeliveryInv, EventInv, Live, Enqueued
<1> QED  BY <1>1, <1>2 DEF DeliveryInv

(* A task that writes the row in hand, or fails to, and lets go of it.     *)
LEMMA MarkStep ==
    ASSUME TypeInv, DeliveryInv, NEW s \in Sink, pc[s] \in Processing,
           NEW l \in {"next", "reclaim"}, pc' = [pc EXCEPT ![s] = l],
           NEW v \in {"pending"} \cup Terminal,
           UNCHANGED st \/ SetStatus(CurRow(s), v),
           v = "pending" \/ l = "reclaim",
           UNCHANGED <<phase, snap, cur, todo, accepted>>
    PROVE  DeliveryInv'
<1>1. cur[s] \in Event /\ cur[s] \notin todo[s] /\ CurRow(s) \in Row
  BY DEF DeliveryInv, TaskInv, Holding, Processing, CurRow, Row
<1>2. Unsettled(CurRow(s))
  BY DEF DeliveryInv, TaskInv
<1>3. /\ \A q \in Row : q # CurRow(s) => st'[q] = st[q]
      /\ \A q \in Row : st[q] = "none" => st'[q] = "none"
      /\ \A q \in Row : st'[q] = "pending" => st[q] = "pending"
  BY <1>1, <1>2, MarkFrame DEF TypeInv, Unsettled
<1>4. ASSUME NEW t \in Sink PROVE TaskInv(t)'
  <2>1. CASE t = s
    <3>1. \A e \in todo[s] : <<e, s>> \in Row /\ <<e, s>> # CurRow(s)
      BY <1>1 DEF CurRow, Row, TypeInv, TypeOK
    <3> QED  BY <2>1, <1>1, <1>3, <3>1
             DEF DeliveryInv, TaskInv, Holding, Unsettled, Enqueued, Processing, TypeInv, TypeOK
  <2>2. CASE t # s
    <3>1. \A e \in Event : <<e, t>> \in Row /\ <<e, t>> # CurRow(s)
      BY <2>2 DEF CurRow, Row
    <3> QED  BY <2>2, <1>3, <3>1, TaskFrame DEF DeliveryInv, Unsettled, Enqueued, TypeInv, TypeOK
  <2> QED  BY <2>1, <2>2
<1>5. ASSUME NEW f \in Event PROVE EventInv(f)'
  <2>1. \A t \in Sink : <<f, t>> \in Row
    BY DEF Row
  <2> QED  BY <1>3, <2>1 DEF DeliveryInv, EventInv, Live, Enqueued
<1> QED  BY <1>4, <1>5 DEF DeliveryInv

(* What every step does to the tasks, the events and the snapshots.        *)
LEMMA DeliveryStep ==
    ASSUME TypeInv, TypeInv', DeliveryInv, [Next]_vars
    PROVE  DeliveryInv'
<1> USE ConstantsAssumption
<1>a. TypeOK /\ TypeOK'
  BY DEF TypeInv
<1>b. \A e \in Event, s \in Sink : <<e, s>> \in Row
  BY DEF Row
<1> DEFINE Quiet == UNCHANGED <<phase, snap, st, taskVars, accepted>>
<1>0. ASSUME Quiet PROVE DeliveryInv'
  BY <1>0 DEF DeliveryInv, TaskInv, EventInv, Holding,
              Unsettled, Enqueued, Live, CurRow, taskVars
<1> USE DEF eventVars, tableVars, histVars, runVars
<1>1. ASSUME NEW e \in Event, WriteSnapshot(e) PROVE DeliveryInv'
  <2> USE <1>1 DEF WriteSnapshot
  <2>1. ASSUME NEW t \in Sink PROVE TaskInv(t)'
    BY <1>a, TaskFrame DEF DeliveryInv, Unsettled, Enqueued, taskVars, TypeOK
  <2>2. ASSUME NEW f \in Event PROVE EventInv(f)'
    BY <1>a DEF DeliveryInv, EventInv, Live, Enqueued, TypeOK
  <2> QED  BY <2>1, <2>2 DEF DeliveryInv
<1>2. ASSUME NEW e \in Event, NEW D \in SUBSET Sink, record_event_and_enqueue(e, D)
      PROVE  DeliveryInv'
  <2> USE <1>2 DEF record_event_and_enqueue
  <2>0. /\ ~Enqueued(e) /\ snap[e] # "reclaimed"
        /\ \A f \in Event : Enqueued(f) => f # e /\ Enqueued(f)'
        /\ \A f \in Event, s \in Sink : f # e => st'[<<f, s>>] = st[<<f, s>>]
    BY <1>a, <1>b DEF DeliveryInv, EventInv, Enqueued, TypeOK
  <2>1. ASSUME NEW t \in Sink PROVE TaskInv(t)'
    BY <1>a, <2>0 DEF DeliveryInv, TaskInv, Holding, Unsettled, CurRow, taskVars, TypeOK,
                      Processing
  <2>2. ASSUME NEW f \in Event PROVE EventInv(f)'
    BY <1>a, <2>0 DEF DeliveryInv, EventInv, Live, Enqueued, TypeOK
  <2> QED  BY <2>1, <2>2 DEF DeliveryInv
<1>3. ASSUME NEW e \in Event, RecordFails(e) PROVE DeliveryInv'
  <2> USE <1>3 DEF RecordFails
  <2>1. ASSUME NEW t \in Sink PROVE TaskInv(t)'
    BY <1>a, TaskFrame DEF DeliveryInv, Unsettled, Enqueued, taskVars, TypeOK
  <2>2. ASSUME NEW f \in Event PROVE EventInv(f)'
    BY <1>a DEF DeliveryInv, EventInv, Live, Enqueued, TypeOK
  <2> QED  BY <2>1, <2>2 DEF DeliveryInv
<1>4. ASSUME NEW e \in Event, ArmAlertClip(e) \/ LinkMotionClip(e) PROVE DeliveryInv'
  <2> USE <1>4 DEF ArmAlertClip, LinkMotionClip
  <2>1. ASSUME NEW t \in Sink PROVE TaskInv(t)'
    BY <1>a, TaskFrame DEF DeliveryInv, Unsettled, Enqueued, taskVars, TypeOK
  <2>2. ASSUME NEW f \in Event PROVE EventInv(f)'
    BY <1>a DEF DeliveryInv, EventInv, Live, Enqueued, TypeOK
  <2> QED  BY <2>1, <2>2 DEF DeliveryInv
<1>5. ASSUME NEW e \in Event, CascadeDelete(e) PROVE DeliveryInv'
  <2>0. \A f \in Event, s \in Sink :
           st'[<<f, s>>] = IF f = e THEN "none" ELSE st[<<f, s>>]
    BY <1>5, <1>a, <1>b DEF CascadeDelete
  <2>c. phase' = [phase EXCEPT ![e] = "gone"] /\ UNCHANGED <<snap, taskVars, accepted>>
    BY <1>5 DEF CascadeDelete
  <2>1. ASSUME NEW t \in Sink PROVE TaskInv(t)'
    BY <1>a, <2>0, <2>c, TaskFrame DEF DeliveryInv, Unsettled, Enqueued, taskVars, TypeOK
  <2>2. ASSUME NEW f \in Event PROVE EventInv(f)'
    BY <1>a, <2>0, <2>c DEF DeliveryInv, EventInv, Live, Enqueued, TypeOK
  <2> QED  BY <2>1, <2>2 DEF DeliveryInv
<1>6. ASSUME NEW r \in Row, PruneTerminal(r) PROVE DeliveryInv'
  <2> USE <1>6 DEF PruneTerminal
  <2>0. \A q \in Row : st'[q] = IF q = r THEN "none" ELSE st[q]
    BY <1>a DEF TypeOK
  <2>1. ASSUME NEW t \in Sink PROVE TaskInv(t)'
    BY <1>a, <1>b, <2>0, TaskFrame DEF DeliveryInv, Unsettled, Enqueued, taskVars
  <2>2. ASSUME NEW f \in Event PROVE EventInv(f)'
    BY <1>b, <2>0 DEF DeliveryInv, EventInv, Live, Enqueued
  <2> QED  BY <2>1, <2>2 DEF DeliveryInv
<1>7. ASSUME NEW e \in Event, SweepUnlink(e) PROVE DeliveryInv'
  <2> USE <1>7 DEF SweepUnlink
  <2>1. ASSUME NEW t \in Sink PROVE TaskInv(t)'
    BY <1>a, TaskFrame DEF DeliveryInv, Unsettled, Enqueued, taskVars
  <2>2. ASSUME NEW f \in Event PROVE EventInv(f)'
    BY <1>a DEF DeliveryInv, EventInv, Live, Enqueued, TypeOK
  <2> QED  BY <2>1, <2>2 DEF DeliveryInv
<1>8. CASE Tick
  <2> USE <1>8
  <2>1. ASSUME NEW t \in Sink PROVE TaskInv(t)'
    <3>1. PICK B \in SUBSET Due :
             /\ todo' = [s \in Sink |-> {e \in Event : <<e, s>> \in B}]
             /\ pc' = [s \in Sink |-> IF \E e \in Event : <<e, s>> \in B
                                        THEN "next" ELSE "idle"]
      BY DEF Tick
    <3>2. \A e \in todo'[t] : e \in Event /\ st[<<e, t>>] = "pending"
      BY <3>1 DEF Due
    <3>3. \A e \in todo'[t] : Enqueued(e)
      BY <3>2 DEF DeliveryInv, EventInv, Enqueued, Live
    <3>4. pc'[t] \in {"idle", "next"} /\ (pc'[t] = "idle" => todo'[t] = {})
      BY <3>1
    <3>5. UNCHANGED <<st, phase>>
      BY DEF Tick
    <3> QED  BY <3>2, <3>3, <3>4, <3>5 DEF TaskInv, Holding, Unsettled, Enqueued, Processing
  <2>2. ASSUME NEW f \in Event PROVE EventInv(f)'
    BY DEF Tick, DeliveryInv, EventInv, Live, Enqueued
  <2> QED  BY <2>1, <2>2 DEF DeliveryInv
<1>9. CASE Crash
  <2> USE <1>9 DEF Crash
  <2>1. ASSUME NEW t \in Sink PROVE TaskInv(t)'
    BY DEF TaskInv, Holding, Processing
  <2>2. ASSUME NEW f \in Event PROVE EventInv(f)'
    BY <1>a DEF DeliveryInv, EventInv, Live, Enqueued, TypeOK
  <2> QED  BY <2>1, <2>2 DEF DeliveryInv
<1>10. CASE \/ \E e \in Event : FinishAlertClip(e) \/ CloseMotionClip(e) \/ CloseFails(e) \/ SoftEvict(e)
           \/ SweepList \/ Elapse \/ (\E S \in SUBSET Sink : Reconfigure(S))
           \/ UNCHANGED vars
  BY <1>10, <1>0 DEF FinishAlertClip, CloseMotionClip, CloseFails, SoftEvict, SweepList, Elapse,
                     Reconfigure, vars
<1>11. ASSUME NEW s \in Sink, TaskStep(s) PROVE DeliveryInv'
  <2> USE DEF Goto, Processing
  <2>1. CASE NextRow(s)
    <3> USE <2>1 DEF NextRow
    <3>1. ASSUME NEW t \in Sink PROVE TaskInv(t)'
      <4>1. CASE t = s
        <5>1. PICK e \in todo[s] : cur'[s] = e /\ todo'[s] = todo[s] \ {e}
          BY <1>a DEF TypeOK
        <5>2. pc'[s] = "hydrate" /\ UNCHANGED <<st, phase>>
          BY <1>a DEF TypeOK
        <5>3. TaskInv(s) /\ todo[s] \subseteq Event
          BY <1>a DEF DeliveryInv, TypeOK
        <5> HIDE <2>1
        <5> QED  BY <4>1, <5>1, <5>2, <5>3 DEF TaskInv, Holding, Unsettled, Enqueued, CurRow
      <4>2. CASE t # s
        BY <4>2, <1>a, TaskFrame DEF DeliveryInv, Unsettled, Enqueued, TypeOK
      <4> QED  BY <4>1, <4>2
    <3>2. ASSUME NEW f \in Event PROVE EventInv(f)'
      BY DEF DeliveryInv, EventInv, Live, Enqueued
    <3> QED  BY <3>1, <3>2 DEF DeliveryInv
  <2>2. CASE GroupEnds(s)
    <3> USE <2>2 DEF GroupEnds
    <3>1. ASSUME NEW t \in Sink PROVE TaskInv(t)'
      <4>1. CASE t = s
        BY <4>1, <1>a DEF TaskInv, Holding, TypeOK
      <4>2. CASE t # s
        BY <4>2, <1>a, TaskFrame DEF DeliveryInv, Unsettled, Enqueued, TypeOK
      <4> QED  BY <4>1, <4>2
    <3>2. ASSUME NEW f \in Event PROVE EventInv(f)'
      BY DEF DeliveryInv, EventInv, Live, Enqueued
    <3> QED  BY <3>1, <3>2 DEF DeliveryInv
  <2>3. CASE Hydrate(s)
    BY <2>3, LookStep DEF Hydrate
  <2>4. CASE ResolveAlertClip(s)
    BY <2>4, LookStep DEF ResolveAlertClip
  <2>5. CASE ResolveMotionLink(s)
    BY <2>5, LookStep DEF ResolveMotionLink
  <2>6. CASE GetClip(s)
    BY <2>6, LookStep DEF GetClip
  <2>7. CASE Deliver(s)
    BY <2>7, LookStep DEF Deliver
  <2> USE DEF Terminal
  <2>8. CASE MarkSent(s)
    BY <2>8, MarkStep DEF MarkSent, MarkFails, outbox_mark_sent
  <2>9. CASE schedule_retry(s)
    BY <2>9, MarkStep, LookStep DEF schedule_retry, MarkFails, outbox_mark_failed
  <2>10. CASE schedule_clip_wait(s)
    BY <2>10, MarkStep DEF schedule_clip_wait, MarkFails, outbox_mark_waiting
  <2>11. CASE mark_dead(s)
    BY <2>11, MarkStep DEF mark_dead, MarkFails, outbox_mark_dead
  <2>12. CASE MarkSuppressed(s)
    BY <2>12, MarkStep DEF MarkSuppressed, MarkFails, outbox_mark_suppressed
  <2>13. CASE Reclaim(s)
    <3> USE <2>13 DEF Reclaim
    <3>1. ASSUME NEW t \in Sink PROVE TaskInv(t)'
      <4>1. CASE t = s
        <5>1. pc'[s] = "next" /\ UNCHANGED <<st, phase, cur, todo>>
          BY <1>a DEF TypeOK
        <5>2. TaskInv(s)
          BY DEF DeliveryInv
        <5> HIDE <2>13
        <5> QED  BY <4>1, <5>1, <5>2 DEF TaskInv, Holding, Unsettled, Enqueued
      <4>2. CASE t # s
        BY <4>2, <1>a, TaskFrame DEF DeliveryInv, Unsettled, Enqueued, TypeOK
      <4> QED  BY <4>1, <4>2
    <3>2. cur[s] \in Event /\ Enqueued(cur[s])
      BY DEF DeliveryInv, TaskInv, Holding
    <3>3. ASSUME NEW f \in Event PROVE EventInv(f)'
      <4>1. CASE snap'[f] = snap[f]
        BY <4>1 DEF DeliveryInv, EventInv, Live, Enqueued
      <4>2. CASE snap'[f] # snap[f]
        <5>1. f = cur[s] /\ Drained(f)
          BY <4>2, <1>a DEF TypeOK
        <5>2. \A t \in Sink : st[<<f, t>>] # "pending"
          BY <5>1 DEF Drained, Pending
        <5> QED  BY <5>1, <5>2, <3>2 DEF DeliveryInv, EventInv, Live, Enqueued
      <4> QED  BY <4>1, <4>2
    <3> QED  BY <3>1, <3>3 DEF DeliveryInv
  <2> QED  BY <1>11, <2>1, <2>2, <2>3, <2>4, <2>5, <2>6, <2>7, <2>8, <2>9, <2>10, <2>11,
             <2>12, <2>13 DEF TaskStep
<1> QED  BY <1>1, <1>2, <1>3, <1>4, <1>5, <1>6, <1>7, <1>8, <1>9, <1>10, <1>11 DEF Next

(* The facts the tasks rely on hold in every reachable state.              *)
THEOREM DeliveryInvariant == Spec => [](TypeInv /\ DeliveryInv)
<1>1. Init => DeliveryInv
  BY DEF Init, DeliveryInv, TaskInv, EventInv, Holding, Enqueued, Live, Processing, Row
<1>2. TypeInv /\ TypeInv' /\ DeliveryInv /\ [Next]_vars => DeliveryInv'
  BY DeliveryStep
<1> QED  BY <1>1, <1>2, TypeInvariant, PTL DEF Spec

(* reclaim_snapshot_if_drained never unlinks a snapshot that a sink of the *)
(* alert still has to deliver, however the sinks' tasks, enqueues, faults  *)
(* and crashes interleave.                                                 *)
THEOREM SnapshotSafe == Spec => []SnapshotOutlivesPending
<1>1. DeliveryInv => SnapshotOutlivesPending
  BY DEF DeliveryInv, EventInv, SnapshotOutlivesPending, Pending
<1> QED  BY <1>1, DeliveryInvariant, PTL

-----------------------------------------------------------------------------
(* A mark on an unsettled row settles it once or leaves it as it was.      *)
LEMMA MarkRefines ==
    ASSUME TypeInv, DeliveryInv, NEW s \in Sink, pc[s] \in Processing,
           NEW v \in {"pending"} \cup Terminal,
           UNCHANGED st \/ SetStatus(CurRow(s), v),
           v = "sent" => CurRow(s) \in accepted,
           UNCHANGED accepted
    PROVE  [Delivery!DNext]_(Delivery!dvars)
<1>1. CurRow(s) \in Row /\ st[CurRow(s)] \in {"pending", "none"}
  BY DEF DeliveryInv, TaskInv, Holding, Processing, CurRow, Row, Unsettled
<1>2. CASE UNCHANGED st
  BY <1>2 DEF Delivery!dvars
<1>3. CASE st' = [st EXCEPT ![CurRow(s)] = v] /\ st[CurRow(s)] = "pending"
  <2>1. CASE v = "pending"
    <3>1. st' = st
      BY <1>3, <2>1, <1>1 DEF TypeInv, TypeOK
    <3> QED  BY <3>1 DEF Delivery!dvars
  <2>2. CASE v # "pending"
    <3>1. v \in Delivery!Settled /\ Delivery!Settle(CurRow(s), v)
      BY <1>3, <2>2 DEF Delivery!Settle, Delivery!Settled, Terminal
    <3> QED  BY <1>1, <3>1 DEF Delivery!DNext, Delivery!Row, Row
  <2> QED  BY <2>1, <2>2
<1> QED  BY <1>1, <1>2, <1>3 DEF SetStatus

(* Every step of the outbox is a step of the delivery contract or none.    *)
LEMMA ContractStep ==
    ASSUME TypeInv, DeliveryInv, [Next]_vars
    PROVE  [Delivery!DNext]_(Delivery!dvars)
<1> USE DEF tableVars, histVars, Delivery!dvars
<1>1. ASSUME NEW e \in Event, NEW D \in SUBSET Sink, record_event_and_enqueue(e, D)
      PROVE  [Delivery!DNext]_(Delivery!dvars)
  <2>1. \A s \in Sink : st[<<e, s>>] = "none"
    BY <1>1 DEF record_event_and_enqueue, DeliveryInv, EventInv, Live
  <2>2. Delivery!Publish(e, D)
    BY <1>1, <2>1 DEF record_event_and_enqueue, Delivery!Publish, Delivery!Row, Row
  <2> QED  BY <2>2 DEF Delivery!DNext
<1>2. ASSUME NEW e \in Event, CascadeDelete(e) PROVE [Delivery!DNext]_(Delivery!dvars)
  <2> DEFINE R == {r \in Row : r[1] = e}
  <2>1. Delivery!Delete(R)
    BY <1>2 DEF CascadeDelete, Delivery!Delete, Delivery!Row, Row
  <2>2. R \in SUBSET Delivery!Row
    BY DEF Delivery!Row, Row
  <2> QED  BY <2>1, <2>2 DEF Delivery!DNext
<1>3. ASSUME NEW r \in Row, PruneTerminal(r) PROVE [Delivery!DNext]_(Delivery!dvars)
  <2>1. Delivery!Delete({r})
    BY <1>3 DEF PruneTerminal, Delivery!Delete, Delivery!Row, Row, TypeInv, TypeOK
  <2>2. {r} \in SUBSET Delivery!Row
    BY DEF Delivery!Row, Row
  <2> QED  BY <2>1, <2>2 DEF Delivery!DNext
<1>4. ASSUME NEW s \in Sink, TaskStep(s) PROVE [Delivery!DNext]_(Delivery!dvars)
  <2>1. CASE Deliver(s)
    <3>1. CurRow(s) \in Row /\ st[CurRow(s)] \in {"pending", "none"}
      BY <2>1 DEF Deliver, DeliveryInv, TaskInv, Holding, Processing, CurRow, Row, Unsettled
    <3>2. UNCHANGED st /\ (UNCHANGED accepted \/ accepted' = accepted \cup {CurRow(s)})
      BY <2>1 DEF Deliver
    <3>3. Delivery!Accept(CurRow(s)) \/ UNCHANGED <<st, accepted>>
      BY <3>1, <3>2 DEF Delivery!Accept
    <3> QED  BY <3>1, <3>3 DEF Delivery!DNext, Delivery!Row, Row
  <2> USE DEF Processing, Terminal
  <2>2. CASE MarkSent(s)
    <3>1. CurRow(s) \in accepted
      BY <2>2 DEF MarkSent, DeliveryInv, TaskInv
    <3> QED  BY <2>2, <3>1, MarkRefines DEF MarkSent, MarkFails, outbox_mark_sent
  <2>3. CASE schedule_retry(s)
    BY <2>3, MarkRefines DEF schedule_retry, MarkFails, outbox_mark_failed
  <2>4. CASE schedule_clip_wait(s)
    BY <2>4, MarkRefines DEF schedule_clip_wait, MarkFails, outbox_mark_waiting
  <2>5. CASE mark_dead(s)
    BY <2>5, MarkRefines DEF mark_dead, MarkFails, outbox_mark_dead
  <2>6. CASE MarkSuppressed(s)
    BY <2>6, MarkRefines DEF MarkSuppressed, MarkFails, outbox_mark_suppressed
  <2>7. CASE \/ NextRow(s) \/ GroupEnds(s) \/ Hydrate(s) \/ ResolveAlertClip(s)
            \/ ResolveMotionLink(s) \/ GetClip(s) \/ Reclaim(s)
    BY <2>7 DEF NextRow, GroupEnds, Hydrate, ResolveAlertClip, ResolveMotionLink, GetClip,
               Reclaim
  <2> QED  BY <1>4, <2>1, <2>2, <2>3, <2>4, <2>5, <2>6, <2>7 DEF TaskStep
<1>5. CASE \/ \E e \in Event : \/ WriteSnapshot(e) \/ RecordFails(e) \/ ArmAlertClip(e)
                              \/ LinkMotionClip(e) \/ FinishAlertClip(e)
                              \/ CloseMotionClip(e) \/ CloseFails(e) \/ SoftEvict(e) \/ SweepUnlink(e)
          \/ SweepList \/ (\E S \in SUBSET Sink : Reconfigure(S)) \/ Elapse \/ Tick
          \/ Crash \/ UNCHANGED vars
  BY <1>5 DEF WriteSnapshot, RecordFails, ArmAlertClip, LinkMotionClip, FinishAlertClip,
              CloseMotionClip, CloseFails, SoftEvict, SweepUnlink, SweepList, Reconfigure, Elapse,
              Tick, Crash, vars
<1> QED  BY <1>1, <1>2, <1>3, <1>4, <1>5 DEF Next

(* The outbox, its dispatcher and the loops that delete under them         *)
(* implement the delivery contract: only pending alerts reach a sink, each *)
(* settles once, and none is marked sent that its sink did not take.       *)
THEOREM ImplementsContract == Spec => Contract
<1>1. Init => Delivery!DInit
  BY DEF Init, Delivery!DInit, Delivery!Row, Row
<1>2. TypeInv /\ DeliveryInv /\ [Next]_vars => [Delivery!DNext]_(Delivery!dvars)
  BY ContractStep
<1> QED  BY <1>1, <1>2, DeliveryInvariant, PTL DEF Spec, Contract, Delivery!DSpec

-----------------------------------------------------------------------------
(* The budget of a row.                                                    *)

(* A row is the pair of its event and its sink.                            *)
LEMMA RowParts ==
    ASSUME NEW r \in Row
    PROVE  r[1] \in Event /\ r[2] \in Sink /\ r = <<r[1], r[2]>>
BY DEF Row

(* A row keeps its budget when nothing is counted for it and it does not   *)
(* become deliverable again; an attempt left uncounted costs a mishap.     *)
LEMMA RowFrame ==
    ASSUME TypeOK, TypeOK', NEW r \in Row, RowInv(r),
           Mishaps <= Mishaps',
           att'[r] = att[r], calls'[r] = calls[r], firstSaid'[r] = firstSaid[r],
           st'[r] \in {st[r], "none", "sent", "suppressed"},
           Open(r)' => Open(r) /\ st'[r] \in {st[r], "none"},
           condemned \subseteq condemned',
           Enqueued(r[1]) => Enqueued(r[1])',
           Post(r)' => Post(r) /\ pc'[r[2]] = pc[r[2]],
           Post(r) /\ Open(r)' => Post(r)' \/ Mishaps + 1 <= Mishaps'
    PROVE  RowInv(r)'
<1>1. Mishaps \in Int /\ Mishaps' \in Int /\ MaxAttempts \in Nat
  BY ConstantsAssumption DEF ConstantsAssumption, Mishaps, TypeOK
<1>2. att[r] \in Nat /\ calls[r] \in Nat /\ firstSaid[r] \in Nat
  BY DEF TypeOK
<1>3. Post(r)' => Open(r)'
  BY DEF Post, Open, Processing
<1>4. /\ calls'[r] <= MaxAttempts + Mishaps'
      /\ firstSaid'[r] <= 1 + Mishaps'
      /\ ~Enqueued(r[1])' => att'[r] = 0 /\ calls'[r] = 0 /\ firstSaid'[r] = 0
  BY <1>1, <1>2 DEF RowInv
<1>5. st'[r] = "dead" => r \in condemned' \/ calls'[r] + Mishaps' >= MaxAttempts
  BY <1>1, <1>2 DEF RowInv
<1>6. ASSUME Open(r)'
      PROVE  /\ att'[r] < MaxAttempts
             /\ calls'[r] <= att'[r] + Mishaps' + 1
             /\ st'[r] # "none" => att'[r] <= calls'[r] + Mishaps'
             /\ st'[r] # "none" /\ att'[r] > 0 => firstSaid'[r] + Mishaps' > 0
  BY <1>1, <1>2, <1>6 DEF RowInv
<1>7. ASSUME Open(r)', ~Post(r)'
      PROVE  calls'[r] <= att'[r] + Mishaps' /\ (att'[r] = 0 => firstSaid'[r] <= Mishaps')
  <2>1. CASE Post(r)
    BY <1>1, <1>2, <1>7, <2>1 DEF RowInv
  <2>2. CASE ~Post(r)
    BY <1>1, <1>2, <1>7, <2>2 DEF RowInv
  <2> QED  BY <2>1, <2>2
<1>8. ASSUME Post(r)', st'[r] # "none"
      PROVE  /\ pc'[r[2]] # "dead" => att'[r] + 1 <= calls'[r] + Mishaps'
             /\ pc'[r[2]] = "retry" => firstSaid'[r] + Mishaps' > 0
             /\ pc'[r[2]] = "dead" =>
                   r \in condemned' \/ calls'[r] + Mishaps' >= MaxAttempts
  BY <1>1, <1>2, <1>3, <1>8 DEF RowInv
<1> QED  BY <1>4, <1>5, <1>6, <1>7, <1>8 DEF RowInv

(* A row that is no longer deliverable needs its history only.             *)
LEMMA RowClosed ==
    ASSUME TypeOK, TypeOK', NEW r \in Row, RowInv(r),
           Mishaps <= Mishaps', ~Open(r)', Enqueued(r[1])',
           calls'[r] = calls[r], firstSaid'[r] = firstSaid[r],
           condemned \subseteq condemned',
           st'[r] = "dead" => r \in condemned \/ calls[r] + Mishaps >= MaxAttempts
    PROVE  RowInv(r)'
<1>1. Mishaps \in Int /\ Mishaps' \in Int /\ MaxAttempts \in Nat
  BY ConstantsAssumption DEF ConstantsAssumption, Mishaps, TypeOK
<1>2. calls[r] \in Nat /\ firstSaid[r] \in Nat
  BY DEF TypeOK
<1>3. ~Post(r)'
  BY DEF Post, Open, Processing
<1> QED  BY <1>1, <1>2, <1>3 DEF RowInv

(* Store failures and crashes are counted and never taken back.            *)
LEMMA MishapStep ==
    ASSUME TypeOK, TypeOK', [Next]_vars
    PROVE  /\ faultsLeft' <= faultsLeft /\ crashesLeft' <= crashesLeft
           /\ Mishaps <= Mishaps'
<1> DEFINE Spent == /\ faultsLeft' \in {faultsLeft, faultsLeft - 1}
                    /\ crashesLeft' \in {crashesLeft, crashesLeft - 1}
<1>0. Spent => /\ faultsLeft' <= faultsLeft /\ crashesLeft' <= crashesLeft
               /\ Mishaps <= Mishaps'
  <2>1. /\ faultsLeft \in Nat /\ crashesLeft \in Nat
        /\ faultsLeft' \in Nat /\ crashesLeft' \in Nat
        /\ MaxFaults \in Nat /\ MaxCrashes \in Nat
    BY ConstantsAssumption DEF TypeOK, ConstantsAssumption
  <2>4. Spent => faultsLeft' <= faultsLeft /\ crashesLeft' <= crashesLeft
    BY <2>1
  <2>5. ASSUME faultsLeft' <= faultsLeft, crashesLeft' <= crashesLeft
        PROVE  Mishaps <= Mishaps'
    <3>1. \A a, b, x, y, u, v \in Int :
             x <= u /\ y <= v => (a - u) + (b - v) <= (a - x) + (b - y)
      OBVIOUS
    <3>2. /\ faultsLeft \in Int /\ crashesLeft \in Int
          /\ faultsLeft' \in Int /\ crashesLeft' \in Int
          /\ MaxFaults \in Int /\ MaxCrashes \in Int
      BY <2>1
    <3> QED  BY <2>5, <3>1, <3>2 DEF Mishaps
  <2> QED  BY <2>4, <2>5
<1>1. CASE \/ \E e \in Event : \/ WriteSnapshot(e)
                              \/ \E D \in SUBSET Sink : record_event_and_enqueue(e, D)
                              \/ RecordFails(e) \/ ArmAlertClip(e) \/ LinkMotionClip(e)
                              \/ FinishAlertClip(e) \/ CloseMotionClip(e) \/ CloseFails(e)
                              \/ SoftEvict(e) \/ CascadeDelete(e) \/ SweepUnlink(e)
          \/ (\E r \in Row : PruneTerminal(r))
  <2>1. Spent
    BY <1>1 DEF runVars, Fault, WriteSnapshot, record_event_and_enqueue, RecordFails,
                ArmAlertClip, LinkMotionClip, FinishAlertClip, CloseMotionClip, CloseFails, SoftEvict,
                CascadeDelete, SweepUnlink, PruneTerminal
  <2> QED  BY <2>1, <1>0
<1>2. CASE \/ SweepList \/ (\E S \in SUBSET Sink : Reconfigure(S)) \/ Elapse \/ Tick
          \/ Crash \/ UNCHANGED vars
  <2>1. Spent
    BY <1>2 DEF runVars, SweepList, Reconfigure, Elapse, Tick, Crash, vars
  <2> QED  BY <2>1, <1>0
<1>3. ASSUME NEW s \in Sink, TaskStep(s)
      PROVE  /\ faultsLeft' <= faultsLeft /\ crashesLeft' <= crashesLeft
             /\ Mishaps <= Mishaps'
  <2>1. Spent
    BY <1>3 DEF TaskStep, runVars, Fault, NoFault, MarkFails, NextRow, GroupEnds, Hydrate,
                ResolveAlertClip, ResolveMotionLink, GetClip, Deliver, MarkSent,
                schedule_retry, schedule_clip_wait, mark_dead, MarkSuppressed, Reclaim
  <2> QED  BY <2>1, <1>0
<1> QED  BY <1>1, <1>2, <1>3 DEF Next

(* A task's step on the row in hand leaves every other row alone.          *)
LEMMA OtherRows ==
    ASSUME TypeInv, TypeOK', NEW s \in Sink, Holding(s),
           NEW r \in Row, r # CurRow(s), RowInv(r), Mishaps <= Mishaps',
           NEW l, pc' = [pc EXCEPT ![s] = l], UNCHANGED <<phase, cur, todo>>,
           st'[r] = st[r], att'[r] = att[r], calls'[r] = calls[r],
           firstSaid'[r] = firstSaid[r], condemned \subseteq condemned'
    PROVE  RowInv(r)'
<1>1. r[2] # s \/ r[1] # cur[s]
  BY RowParts DEF CurRow
<1>2. r[2] # s => pc'[r[2]] = pc[r[2]]
  BY RowParts DEF TypeInv, TypeOK
<1>3. Open(r)' => Open(r)
  BY <1>1, <1>2 DEF Open
<1>4. (Post(r)' <=> Post(r)) /\ (Post(r)' => pc'[r[2]] = pc[r[2]])
  BY <1>1, <1>2 DEF Post
<1> QED  BY <1>3, <1>4, RowFrame DEF TypeInv, Enqueued

(* The row in hand stays in hand.                                          *)
LEMMA InHand ==
    ASSUME TypeInv, DeliveryInv, NEW s \in Sink, Holding(s)
    PROVE  /\ CurRow(s) \in Row /\ CurRow(s)[1] = cur[s] /\ CurRow(s)[2] = s
           /\ Enqueued(cur[s]) /\ cur[s] \notin todo[s]
BY DEF DeliveryInv, TaskInv, CurRow, Row

(* An attempt that ends without a word to the sink: the row in hand goes   *)
(* to retry by a store failure or because it was deleted, or is condemned. *)
LEMMA LookBudget ==
    ASSUME TypeInv, TypeOK', DeliveryInv, NEW s \in Sink,
           pc[s] \in Processing \ {"sent", "retry", "dead"},
           NEW l \in Processing \ {"sent"}, pc' = [pc EXCEPT ![s] = l],
           UNCHANGED <<phase, st, att, cur, todo, calls, firstSaid>>,
           condemned \subseteq condemned', 0 <= Mishaps, Mishaps <= Mishaps',
           l = "retry" => st[CurRow(s)] = "none" \/ Mishaps + 1 <= Mishaps',
           l = "dead" => CurRow(s) \in condemned',
           NEW r \in Row, RowInv(r)
    PROVE  RowInv(r)'
<1>0. Holding(s)
  BY DEF Holding, Processing
<1>1. CASE r # CurRow(s)
  BY <1>0, <1>1, OtherRows
<1>2. CASE r = CurRow(s)
  <2>1. /\ Mishaps \in Int /\ Mishaps' \in Int /\ MaxAttempts \in Nat
        /\ att[r] \in Nat /\ calls[r] \in Nat /\ firstSaid[r] \in Nat
    BY ConstantsAssumption DEF ConstantsAssumption, Mishaps, TypeInv, TypeOK
  <2>2. r[1] = cur[s] /\ r[2] = s /\ pc'[s] = l
    BY <1>0, <1>2, InHand DEF TypeInv, TypeOK
  <2>3. Open(r) /\ ~Post(r)
    BY <2>2 DEF Open, Post
  <2>4. Post(r)' => l \in {"retry", "dead"}
    BY <2>2 DEF Post, Processing
  <2>5. Enqueued(r[1])' <=> Enqueued(r[1])
    BY DEF Enqueued
  <2>6. st[r] # "none" => att[r] + 1 <= calls[r] + Mishaps + 1
    BY <2>1, <2>3 DEF RowInv
  <2>7. l = "retry" /\ st[r] # "none" => firstSaid[r] + Mishaps' > 0
    BY <1>2, <2>1
  <2> QED  BY <1>2, <2>1, <2>2, <2>3, <2>4, <2>5, <2>6, <2>7 DEF RowInv
<1> QED  BY <1>1, <1>2

(* A task lets go of its row: with nothing written, with the row settled   *)
(* or found deleted, or with the attempt counted.                          *)
LEMMA LetGoBudget ==
    ASSUME TypeInv, TypeOK', DeliveryInv, NEW s \in Sink, pc[s] \in Processing,
           NEW l \in {"next", "reclaim"}, pc' = [pc EXCEPT ![s] = l],
           UNCHANGED <<phase, cur, todo, calls, firstSaid, condemned>>,
           \A q \in Row : q # CurRow(s) => st'[q] = st[q] /\ att'[q] = att[q],
           Mishaps <= Mishaps',
           \/ /\ UNCHANGED <<st, att>>
              /\ pc[s] \in {"sent", "retry", "dead"} => Mishaps + 1 <= Mishaps'
           \/ /\ st'[CurRow(s)] # "pending"
              /\ st'[CurRow(s)] = "dead" => pc[s] = "dead" /\ st[CurRow(s)] # "none"
           \/ /\ st'[CurRow(s)] = st[CurRow(s)] /\ st[CurRow(s)] # "none" /\ pc[s] = "retry"
              /\ att'[CurRow(s)] = att[CurRow(s)] + 1 /\ att[CurRow(s)] + 1 < MaxAttempts,
           NEW r \in Row, RowInv(r)
    PROVE  RowInv(r)'
<1>0. Holding(s)
  BY DEF Holding, Processing
<1>1. CASE r # CurRow(s)
  BY <1>0, <1>1, OtherRows
<1>2. CASE r = CurRow(s)
  <2>1. /\ Mishaps \in Int /\ Mishaps' \in Int /\ MaxAttempts \in Nat
        /\ att[r] \in Nat /\ calls[r] \in Nat /\ firstSaid[r] \in Nat
    BY ConstantsAssumption DEF ConstantsAssumption, Mishaps, TypeInv, TypeOK
  <2>2. r[1] = cur[s] /\ r[2] = s /\ pc'[s] = l /\ cur[s] \notin todo[s]
    BY <1>0, <1>2, InHand DEF TypeInv, TypeOK
  <2>3. Open(r) /\ (Post(r) <=> pc[s] \in {"sent", "retry", "dead"})
    BY <2>2 DEF Open, Post
  <2>4. ~Post(r)' /\ (Open(r)' <=> st'[r] = "pending")
    BY <2>2 DEF Open, Post, Processing
  <2>5. Enqueued(r[1]) /\ Enqueued(r[1])'
    BY <1>0, <2>2, InHand DEF Enqueued
  <2>6. CASE UNCHANGED <<st, att>> /\ (Post(r) => Mishaps + 1 <= Mishaps')
    BY <2>3, <2>4, <2>5, <2>6, RowFrame DEF TypeInv
  <2>7. CASE st'[r] # "pending" /\ (st'[r] = "dead" => pc[s] = "dead" /\ st[r] # "none")
    <3>1. st'[r] = "dead" => r \in condemned \/ calls[r] + Mishaps >= MaxAttempts
      BY <2>2, <2>3, <2>7 DEF RowInv
    <3> QED  BY <2>4, <2>5, <2>7, <3>1, RowClosed DEF TypeInv
  <2>8. CASE /\ st'[r] = st[r] /\ st[r] # "none" /\ pc[s] = "retry"
             /\ att'[r] = att[r] + 1 /\ att[r] + 1 < MaxAttempts
    <3>1. Post(r)
      BY <2>3, <2>8
    <3>2. /\ calls[r] <= att[r] + Mishaps + 1 /\ att[r] + 1 <= calls[r] + Mishaps
          /\ calls[r] <= MaxAttempts + Mishaps /\ firstSaid[r] <= 1 + Mishaps
          /\ firstSaid[r] + Mishaps > 0
      BY <2>2, <2>3, <2>8, <3>1 DEF RowInv
    <3>3. /\ calls[r] <= att[r] + 1 + Mishaps' /\ att[r] + 1 <= calls[r] + Mishaps'
          /\ calls[r] <= MaxAttempts + Mishaps' /\ firstSaid[r] <= 1 + Mishaps'
          /\ att[r] + 1 # 0 /\ firstSaid[r] + Mishaps' > 0
      BY <2>1, <3>2
    <3>4. st'[r] = "dead" => r \in condemned' \/ calls[r] + Mishaps' >= MaxAttempts
      BY <2>1, <2>8 DEF RowInv
    <3> QED  BY <2>1, <2>4, <2>5, <2>8, <3>3, <3>4 DEF RowInv
  <2> QED  BY <1>2, <2>3, <2>6, <2>7, <2>8
<1> QED  BY <1>1, <1>2

(* deliver(): the call is counted here and in the attempts column only     *)
(* once the mark is written.                                               *)
LEMMA DeliverBudget ==
    ASSUME TypeInv, TypeOK', DeliveryInv, NEW s \in Sink, Deliver(s), 0 <= Mishaps,
           NEW r \in Row, RowInv(r)
    PROVE  RowInv(r)'
<1> USE DEF Goto, Condemn
<1>0. Holding(s) /\ pc[s] = "deliver"
  BY DEF Deliver, Holding
<1>a. PICK l \in {"sent", "retry", "dead"} : pc' = [pc EXCEPT ![s] = l]
  BY DEF Deliver
<1>b. /\ condemned \subseteq condemned'
      /\ UNCHANGED <<phase, st, att, cur, todo, faultsLeft, crashesLeft>>
  BY DEF Deliver, eventVars, tableVars, runVars
<1>c. Mishaps' = Mishaps /\ Mishaps \in Int /\ MaxAttempts \in Nat
  BY <1>b, ConstantsAssumption DEF ConstantsAssumption, Mishaps, TypeInv, TypeOK
<1>1. CASE r # CurRow(s)
  <2>1. calls'[r] = calls[r] /\ firstSaid'[r] = firstSaid[r]
    BY <1>1 DEF Deliver, report_first_failure, TypeInv, TypeOK
  <2>2. Mishaps <= Mishaps'
    BY <1>c
  <2> QED  BY <1>0, <1>1, <1>a, <1>b, <2>1, <2>2, OtherRows
<1>2. CASE r = CurRow(s)
  <2>1. att[r] \in Nat /\ calls[r] \in Nat /\ firstSaid[r] \in Nat
    BY DEF TypeInv, TypeOK
  <2>2. r[1] = cur[s] /\ r[2] = s /\ pc'[s] = l
    BY <1>0, <1>2, <1>a, InHand DEF TypeInv, TypeOK
  <2>3. Open(r) /\ ~Post(r) /\ Post(r)' /\ Enqueued(r[1])'
    BY <1>0, <1>a, <1>b, <2>2, InHand DEF Open, Post, Processing, Enqueued
  <2>4. calls'[r] = calls[r] + 1
    BY <1>2 DEF Deliver, TypeInv, TypeOK
  <2>5. firstSaid'[r] <= 1 + Mishaps
    <3>1. firstSaid'[r] = firstSaid[r] \/ (att[r] = 0 /\ firstSaid'[r] = firstSaid[r] + 1)
      BY <1>2 DEF Deliver, report_first_failure, TypeInv, TypeOK
    <3> QED  BY <1>c, <2>1, <2>3, <3>1 DEF RowInv
  <2>9. st[r] # "none" /\ (l = "retry" \/ att[r] > 0) => firstSaid'[r] + Mishaps > 0
    <3>1. l = "retry" /\ att[r] = 0 => firstSaid'[r] = firstSaid[r] + 1
      BY <1>2, <2>2 DEF Deliver, report_first_failure, TypeInv, TypeOK
    <3>2. att[r] # 0 => firstSaid'[r] = firstSaid[r]
      BY <1>2 DEF Deliver, report_first_failure, TypeInv, TypeOK
    <3>3. st[r] # "none" /\ att[r] > 0 => firstSaid[r] + Mishaps > 0
      BY <2>3 DEF RowInv
    <3>4. Mishaps >= 0
      OBVIOUS
    <3> QED  BY <1>c, <2>1, <3>1, <3>2, <3>3, <3>4
  <2>6. l = "dead" => r \in condemned'
    BY <1>2, <2>2 DEF Deliver, TypeInv, TypeOK
  <2>7. /\ att[r] < MaxAttempts /\ calls[r] <= att[r] + Mishaps
        /\ st[r] # "none" => att[r] <= calls[r] + Mishaps
        /\ st[r] = "dead" => r \in condemned \/ calls[r] + Mishaps >= MaxAttempts
    BY <2>3 DEF RowInv
  <2>8. /\ calls[r] + 1 <= MaxAttempts + Mishaps
        /\ calls[r] + 1 <= att[r] + Mishaps + 1
        /\ st[r] # "none" => att[r] <= calls[r] + 1 + Mishaps /\ att[r] + 1 <= calls[r] + 1 + Mishaps
        /\ st[r] = "dead" => r \in condemned' \/ calls[r] + 1 + Mishaps >= MaxAttempts
    BY <1>b, <1>c, <2>1, <2>7
  <2> QED  BY <1>b, <1>c, <2>1, <2>2, <2>3, <2>4, <2>5, <2>6, <2>7, <2>8, <2>9 DEF RowInv
<1> QED  BY <1>1, <1>2

(* Every step keeps every row within its budget.                           *)
LEMMA BudgetStep ==
    ASSUME TypeInv, TypeInv', DeliveryInv, BudgetInv, [Next]_vars
    PROVE  BudgetInv'
<1>a. TypeOK /\ TypeOK'
  BY DEF TypeInv
<1>b. Mishaps <= Mishaps'
  BY <1>a, MishapStep
<1>c. Mishaps \in Int /\ Mishaps' \in Int /\ MaxAttempts \in Nat \ {0}
  BY <1>a, ConstantsAssumption DEF ConstantsAssumption, Mishaps, TypeOK
<1>d. MishapInv'
  <2>1. /\ faultsLeft' <= faultsLeft /\ crashesLeft' <= crashesLeft
        /\ faultsLeft <= MaxFaults /\ crashesLeft <= MaxCrashes
    BY <1>a, MishapStep DEF BudgetInv, MishapInv
  <2>2. /\ faultsLeft \in Int /\ crashesLeft \in Int /\ MaxFaults \in Int
        /\ faultsLeft' \in Int /\ crashesLeft' \in Int /\ MaxCrashes \in Int
    BY <1>a, ConstantsAssumption DEF ConstantsAssumption, TypeOK
  <2>3. \A x, y, z \in Int : x <= y /\ y <= z => x <= z
    OBVIOUS
  <2> QED  BY <2>1, <2>2, <2>3 DEF MishapInv
<1>m. 0 <= Mishaps
  <2>1. /\ faultsLeft \in Int /\ crashesLeft \in Int
        /\ MaxFaults \in Int /\ MaxCrashes \in Int
    BY <1>a, ConstantsAssumption DEF ConstantsAssumption, TypeOK
  <2>2. \A a, b, x, y \in Int : x <= a /\ y <= b => 0 <= (a - x) + (b - y)
    OBVIOUS
  <2> QED  BY <2>1, <2>2 DEF BudgetInv, MishapInv, Mishaps
<1>e. SUFFICES ASSUME NEW r \in Row, RowInv(r) PROVE RowInv(r)'
  BY <1>d DEF BudgetInv
<1> USE DEF eventVars, tableVars, histVars, taskVars
<1>1. ASSUME NEW e \in Event, NEW D \in SUBSET Sink, record_event_and_enqueue(e, D)
      PROVE  RowInv(r)'
  <2>1. CASE r[1] = e
    <3>1. ~Enqueued(e) /\ UNCHANGED <<att, calls, firstSaid, pc, cur, condemned>>
      BY <1>1 DEF record_event_and_enqueue, Enqueued
    <3>2. att'[r] = 0 /\ calls'[r] = 0 /\ firstSaid'[r] = 0
      BY <1>e, <2>1, <3>1 DEF RowInv
    <3>3. cur[r[2]] = e => ~Holding(r[2])
      BY <3>1, RowParts DEF DeliveryInv, TaskInv
    <3>4. ~Post(r)'
      BY <2>1, <3>1, <3>3 DEF Post, Holding
    <3>5. st'[r] # "dead"
      BY <1>1, <1>a, <2>1, RowParts DEF record_event_and_enqueue, DeliveryInv, EventInv, Live
    <3>6. 0 <= Mishaps'
      <4>1. /\ faultsLeft' \in Int /\ crashesLeft' \in Int
            /\ MaxFaults \in Int /\ MaxCrashes \in Int
        BY <1>a, ConstantsAssumption DEF ConstantsAssumption, TypeOK
      <4>2. \A a, b, x, y \in Int : x <= a /\ y <= b => 0 <= (a - x) + (b - y)
        OBVIOUS
      <4> QED  BY <1>d, <4>1, <4>2 DEF MishapInv, Mishaps
    <3>7. /\ 0 < MaxAttempts /\ 0 <= MaxAttempts + Mishaps' /\ 0 <= 1 + Mishaps'
          /\ 0 <= 0 + Mishaps' + 1 /\ 0 <= 0 + Mishaps'
      <4>1. \A k \in Nat \ {0}, m \in Int :
               0 <= m => 0 < k /\ 0 <= k + m /\ 0 <= 1 + m /\ 0 <= 0 + m + 1 /\ 0 <= 0 + m
        OBVIOUS
      <4> QED  BY <1>c, <3>6, <4>1
    <3> QED  BY <3>2, <3>4, <3>5, <3>6, <3>7 DEF RowInv
  <2>2. CASE r[1] # e
    <3>1. UNCHANGED <<att, calls, firstSaid, pc, cur, todo, condemned>> /\ st'[r] = st[r]
      BY <1>1, <2>2 DEF record_event_and_enqueue
    <3>2. Enqueued(r[1])' <=> Enqueued(r[1])
      BY <1>1, <1>a, <2>2, RowParts DEF record_event_and_enqueue, Enqueued, TypeOK
    <3>3. (Open(r)' => Open(r)) /\ (Post(r)' <=> Post(r))
      BY <3>1 DEF Open, Post
    <3> QED  BY <1>a, <1>b, <1>e, <3>1, <3>2, <3>3, RowFrame
  <2> QED  BY <2>1, <2>2
<1>2. CASE \/ \E e \in Event : \/ WriteSnapshot(e) \/ RecordFails(e) \/ ArmAlertClip(e)
                              \/ LinkMotionClip(e) \/ FinishAlertClip(e)
                              \/ CloseMotionClip(e) \/ CloseFails(e) \/ SoftEvict(e) \/ CascadeDelete(e)
                              \/ SweepUnlink(e)
          \/ (\E q \in Row : PruneTerminal(q)) \/ SweepList \/ Elapse
          \/ (\E S \in SUBSET Sink : Reconfigure(S)) \/ UNCHANGED vars
  <2>1. UNCHANGED <<att, pc, cur, todo, calls, firstSaid, condemned>>
    BY <1>2 DEF WriteSnapshot, RecordFails, ArmAlertClip, LinkMotionClip, FinishAlertClip,
                CloseMotionClip, CloseFails, SoftEvict, CascadeDelete, SweepUnlink, PruneTerminal,
                SweepList, Elapse, Reconfigure, vars
  <2>2. st'[r] \in {st[r], "none"}
    BY <1>2, <1>a DEF WriteSnapshot, RecordFails, ArmAlertClip, LinkMotionClip,
                FinishAlertClip, CloseMotionClip, CloseFails, SoftEvict, CascadeDelete, SweepUnlink,
                PruneTerminal, SweepList, Elapse, Reconfigure, vars, TypeOK
  <2>3. Enqueued(r[1]) => Enqueued(r[1])'
    BY <1>2, <1>a, RowParts DEF WriteSnapshot, RecordFails, ArmAlertClip, LinkMotionClip,
                FinishAlertClip, CloseMotionClip, CloseFails, SoftEvict, CascadeDelete, SweepUnlink,
                PruneTerminal, SweepList, Elapse, Reconfigure, vars, TypeOK, Enqueued
  <2>4. (Open(r)' => Open(r)) /\ (Post(r)' <=> Post(r))
    BY <2>1, <2>2 DEF Open, Post
  <2>5. /\ att'[r] = att[r] /\ calls'[r] = calls[r] /\ firstSaid'[r] = firstSaid[r]
        /\ condemned \subseteq condemned' /\ pc'[r[2]] = pc[r[2]]
    BY <2>1
  <2> QED  BY <1>a, <1>b, <1>e, <2>2, <2>3, <2>4, <2>5, RowFrame
<1>3. CASE Tick
  <2>1. UNCHANGED <<att, calls, firstSaid, condemned, st, phase>> /\ GroupsJoined
    BY <1>3 DEF Tick
  <2>2. PICK B \in SUBSET Due :
           /\ todo' = [s \in Sink |-> {e \in Event : <<e, s>> \in B}]
           /\ pc' = [s \in Sink |-> IF \E e \in Event : <<e, s>> \in B
                                      THEN "next" ELSE "idle"]
    BY <1>3 DEF Tick
  <2>3. pc[r[2]] = "idle" /\ pc'[r[2]] \in {"idle", "next"}
    BY <2>1, <2>2, RowParts DEF GroupsJoined
  <2>4. r[1] \in todo'[r[2]] => st[r] = "pending"
    BY <2>2, RowParts DEF Due
  <2>5. ~Post(r) /\ ~Post(r)' /\ (Open(r)' => Open(r))
    BY <2>1, <2>3, <2>4 DEF Post, Open, Processing
  <2> QED  BY <1>a, <1>b, <1>e, <2>1, <2>5, RowFrame DEF Enqueued
<1>4. CASE Crash
  <2>1. UNCHANGED <<att, calls, firstSaid, condemned, st>>
    BY <1>4 DEF Crash
  <2>2. ~Post(r)' /\ (Open(r)' => Open(r))
    BY <1>4, RowParts DEF Crash, Post, Open, Processing
  <2>3. Enqueued(r[1]) => Enqueued(r[1])'
    BY <1>4, <1>a, RowParts DEF Crash, Enqueued, TypeOK
  <2>4. Mishaps + 1 <= Mishaps'
    <3>1. /\ crashesLeft' = crashesLeft - 1 /\ faultsLeft' = faultsLeft
          /\ faultsLeft \in Int /\ crashesLeft \in Int
          /\ MaxFaults \in Int /\ MaxCrashes \in Int
      BY <1>4, <1>a, ConstantsAssumption DEF Crash, ConstantsAssumption, TypeOK
    <3>2. \A a, b, x, y \in Int : ((a - x) + (b - y)) + 1 <= (a - x) + (b - (y - 1))
      OBVIOUS
    <3> QED  BY <3>1, <3>2 DEF Mishaps
  <2> QED  BY <1>a, <1>b, <1>e, <2>1, <2>2, <2>3, <2>4, RowFrame
<1>5. ASSUME NEW s \in Sink, TaskStep(s) PROVE RowInv(r)'
  <2> USE DEF Goto, Processing
  <2>f. Fault => Mishaps + 1 <= Mishaps'
    <3>1. ASSUME Fault PROVE Mishaps + 1 <= Mishaps'
      <4>1. /\ faultsLeft' = faultsLeft - 1 /\ crashesLeft' <= crashesLeft
            /\ faultsLeft \in Int /\ crashesLeft \in Int /\ crashesLeft' \in Int
            /\ MaxFaults \in Int /\ MaxCrashes \in Int
        BY <3>1, <1>a, MishapStep, ConstantsAssumption DEF Fault, ConstantsAssumption, TypeOK
      <4>2. \A a, b, x, y, z \in Int :
               z <= y => ((a - x) + (b - y)) + 1 <= (a - (x - 1)) + (b - z)
        OBVIOUS
      <4> QED  BY <4>1, <4>2 DEF Mishaps
    <3> QED  BY <3>1
  <2>r. Holding(s) => CurRow(s) \in Row
    BY InHand
  <2>1. CASE NextRow(s)
    <3>1. UNCHANGED <<att, calls, firstSaid, condemned, st, phase>>
      BY <2>1 DEF NextRow
    <3>2. /\ Open(r)' => Open(r)
          /\ Post(r) <=> Post(r)'
          /\ Post(r)' => pc'[r[2]] = pc[r[2]]
      <4>1. r[2] # s => /\ pc'[r[2]] = pc[r[2]] /\ cur'[r[2]] = cur[r[2]]
                        /\ todo'[r[2]] = todo[r[2]]
        BY <2>1, <1>a, RowParts DEF NextRow, TypeOK
      <4>2. pc[s] = "next" /\ pc'[s] = "hydrate" /\ todo'[s] \cup {cur'[s]} \subseteq todo[s]
        BY <2>1, <1>a DEF NextRow, TypeOK
      <4> QED  BY <3>1, <4>1, <4>2 DEF Post, Open
    <3> QED  BY <1>a, <1>b, <1>e, <3>1, <3>2, RowFrame DEF Enqueued
  <2>2. CASE GroupEnds(s)
    <3>1. UNCHANGED <<att, calls, firstSaid, condemned, st, phase>>
      BY <2>2 DEF GroupEnds
    <3>2. /\ Open(r)' => Open(r)
          /\ Post(r) <=> Post(r)'
          /\ Post(r)' => pc'[r[2]] = pc[r[2]]
      <4>1. r[2] # s => /\ pc'[r[2]] = pc[r[2]] /\ cur'[r[2]] = cur[r[2]]
                        /\ todo'[r[2]] = todo[r[2]]
        BY <2>2, <1>a, RowParts DEF GroupEnds, TypeOK
      <4>2. pc[s] = "next" /\ pc'[s] = "idle" /\ todo'[s] = {}
        BY <2>2, <1>a DEF GroupEnds, TypeOK
      <4> QED  BY <3>1, <4>1, <4>2 DEF Post, Open
    <3> QED  BY <1>a, <1>b, <1>e, <3>1, <3>2, RowFrame DEF Enqueued
  <2>3. CASE Hydrate(s)
    BY <2>3, <1>a, <1>b, <1>e, <1>m, <2>f, LookBudget DEF Hydrate, Condemn
  <2>4. CASE ResolveAlertClip(s)
    BY <2>4, <1>a, <1>b, <1>e, <1>m, <2>f, LookBudget DEF ResolveAlertClip
  <2>5. CASE ResolveMotionLink(s)
    <3>1. ~Live(cur[s]) => st[CurRow(s)] = "none"
      BY <2>5 DEF ResolveMotionLink, DeliveryInv, EventInv, TaskInv, Holding, CurRow
    <3> QED  BY <2>5, <1>a, <1>b, <1>e, <1>m, <2>f, <3>1, LookBudget DEF ResolveMotionLink
  <2>6. CASE GetClip(s)
    BY <2>6, <1>a, <1>b, <1>e, <1>m, <2>f, LookBudget DEF GetClip
  <2>7. CASE Deliver(s)
    BY <2>7, <1>a, <1>e, <1>m, DeliverBudget
  <2>8. CASE MarkSent(s)
    <3>1. /\ pc[s] = "sent" /\ pc' = [pc EXCEPT ![s] = "reclaim"]
          /\ UNCHANGED <<phase, cur, todo, calls, firstSaid, condemned>>
      BY <2>8 DEF MarkSent
    <3>2. CASE MarkFails
      BY <1>a, <1>b, <1>e, <2>f, <3>1, <3>2, LetGoBudget DEF MarkFails
    <3>3. CASE outbox_mark_sent(CurRow(s))
      <4>1. CurRow(s) \in Row
        BY <2>r, <3>1 DEF Holding
      <4>2. /\ \A q \in Row : q # CurRow(s) => st'[q] = st[q] /\ att'[q] = att[q]
            /\ st'[CurRow(s)] = IF st[CurRow(s)] = "none" THEN "none" ELSE "sent"
        BY <1>a, <3>3, <4>1 DEF outbox_mark_sent, SetStatus, BumpAttempts, TypeOK
      <4> QED  BY <1>a, <1>b, <1>e, <3>1, <4>2, LetGoBudget
    <3> QED  BY <2>8, <3>2, <3>3 DEF MarkSent
  <2>9. CASE schedule_retry(s)
    <3>1. /\ pc[s] = "retry"
          /\ UNCHANGED <<phase, cur, todo, calls, firstSaid, condemned>>
      BY <2>9 DEF schedule_retry
    <3>2. CurRow(s) \in Row
      BY <2>r, <3>1 DEF Holding
    <3>3. CASE Exhausted(att[CurRow(s)] + 1)
      <4>1. pc' = [pc EXCEPT ![s] = "dead"] /\ UNCHANGED <<st, att>>
        BY <2>9, <3>3 DEF schedule_retry
      <4>2. CASE r # CurRow(s)
        <5>1. Holding(s)
          BY <3>1 DEF Holding
        <5> QED  BY <1>a, <1>b, <1>e, <3>1, <4>1, <4>2, <5>1, OtherRows
      <4>3. CASE r = CurRow(s)
        <5>1. r[1] = cur[s] /\ r[2] = s /\ pc'[s] = "dead"
          BY <1>a, <3>1, <4>1, <4>3, InHand DEF Holding, TypeOK
        <5>2. Open(r) /\ Post(r) /\ Post(r)'
          BY <3>1, <5>1 DEF Open, Post
        <5>3. /\ att[r] \in Nat /\ calls[r] \in Nat /\ firstSaid[r] \in Nat
              /\ MaxAttempts \in Nat
          BY <1>a, <1>c DEF TypeOK
        <5>4. st[r] # "none" => calls[r] + Mishaps >= MaxAttempts
          <6>1. st[r] # "none" => att[r] + 1 <= calls[r] + Mishaps
            BY <1>e, <3>1, <5>1, <5>2 DEF RowInv
          <6>2. att[r] + 1 >= MaxAttempts
            BY <3>3, <4>3 DEF Exhausted
          <6> QED  BY <1>c, <5>3, <6>1, <6>2
        <5>5. st[r] # "none" => calls[r] + Mishaps' >= MaxAttempts
          BY <1>b, <1>c, <5>3, <5>4
        <5>6. Enqueued(r[1])' <=> Enqueued(r[1])
          BY <3>1 DEF Enqueued
        <5> QED  BY <1>b, <1>c, <1>e, <3>1, <4>1, <5>1, <5>2, <5>3, <5>5, <5>6 DEF RowInv
      <4> QED  BY <4>2, <4>3
    <3>4. CASE ~Exhausted(att[CurRow(s)] + 1)
      <4>1. pc' = [pc EXCEPT ![s] = "next"]
        BY <2>9, <3>4 DEF schedule_retry
      <4>2. CASE MarkFails
        BY <1>a, <1>b, <1>e, <2>f, <3>1, <4>1, <4>2, LetGoBudget DEF MarkFails
      <4>3. CASE outbox_mark_failed(CurRow(s), Delay(att[CurRow(s)] + 1))
        <5>1. \A q \in Row : q # CurRow(s) => st'[q] = st[q] /\ att'[q] = att[q]
          BY <1>a, <3>2, <4>3 DEF outbox_mark_failed, SetStatus, BumpAttempts, TypeOK
        <5>2. CASE st[CurRow(s)] = "none"
          <6>1. st'[CurRow(s)] = "none"
            BY <4>3, <5>2 DEF outbox_mark_failed, SetStatus
          <6> QED  BY <1>a, <1>b, <1>e, <3>1, <4>1, <5>1, <6>1, LetGoBudget
        <5>3. CASE st[CurRow(s)] # "none"
          <6>1. st[CurRow(s)] = "pending"
            BY <3>1, <5>3 DEF DeliveryInv, TaskInv, Unsettled
          <6>2. st'[CurRow(s)] = "pending" /\ att'[CurRow(s)] = att[CurRow(s)] + 1
            BY <1>a, <3>2, <4>3, <5>3
               DEF outbox_mark_failed, SetStatus, BumpAttempts, TypeOK
          <6>3. att[CurRow(s)] + 1 < MaxAttempts
            BY <1>a, <1>c, <3>2, <3>4 DEF Exhausted, TypeOK
          <6> QED  BY <1>a, <1>b, <1>e, <3>1, <4>1, <5>1, <6>1, <6>2, <6>3, LetGoBudget
        <5> QED  BY <5>2, <5>3
      <4> QED  BY <2>9, <3>4, <4>2, <4>3 DEF schedule_retry
    <3> QED  BY <3>3, <3>4
  <2>10. CASE schedule_clip_wait(s)
    <3>1. /\ pc[s] = "wait" /\ pc' = [pc EXCEPT ![s] = "next"]
          /\ UNCHANGED <<phase, cur, todo, calls, firstSaid, condemned>>
      BY <2>10 DEF schedule_clip_wait
    <3>2. CASE MarkFails
      BY <1>a, <1>b, <1>e, <2>f, <3>1, <3>2, LetGoBudget DEF MarkFails
    <3>3. CASE outbox_mark_waiting(CurRow(s))
      <4>1. CurRow(s) \in Row
        BY <2>r, <3>1 DEF Holding
      <4>2. /\ \A q \in Row : q # CurRow(s) => st'[q] = st[q] /\ att'[q] = att[q]
            /\ st'[CurRow(s)] = IF st[CurRow(s)] = "none" THEN "none" ELSE "pending"
        BY <1>a, <3>3, <4>1 DEF outbox_mark_waiting, SetStatus, TypeOK
      <4>3. st[CurRow(s)] \in {"pending", "none"}
        BY <3>1 DEF DeliveryInv, TaskInv, Unsettled
      <4>4. UNCHANGED <<st, att>>
        BY <1>a, <3>3, <4>1, <4>3 DEF outbox_mark_waiting, SetStatus, TypeOK
      <4> QED  BY <1>a, <1>b, <1>e, <3>1, <4>2, <4>4, LetGoBudget
    <3> QED  BY <2>10, <3>2, <3>3 DEF schedule_clip_wait
  <2>11. CASE mark_dead(s)
    <3>1. /\ pc[s] = "dead" /\ pc' = [pc EXCEPT ![s] = "reclaim"]
          /\ UNCHANGED <<phase, cur, todo, calls, firstSaid, condemned>>
      BY <2>11 DEF mark_dead
    <3>2. CASE MarkFails
      BY <1>a, <1>b, <1>e, <2>f, <3>1, <3>2, LetGoBudget DEF MarkFails
    <3>3. CASE outbox_mark_dead(CurRow(s))
      <4>1. CurRow(s) \in Row
        BY <2>r, <3>1 DEF Holding
      <4>2. /\ \A q \in Row : q # CurRow(s) => st'[q] = st[q] /\ att'[q] = att[q]
            /\ st'[CurRow(s)] = IF st[CurRow(s)] = "none" THEN "none" ELSE "dead"
        BY <1>a, <3>3, <4>1 DEF outbox_mark_dead, SetStatus, BumpAttempts, TypeOK
      <4> QED  BY <1>a, <1>b, <1>e, <3>1, <4>2, LetGoBudget
    <3> QED  BY <2>11, <3>2, <3>3 DEF mark_dead
  <2>12. CASE MarkSuppressed(s)
    <3>1. /\ pc[s] = "suppress" /\ pc' = [pc EXCEPT ![s] = "reclaim"]
          /\ UNCHANGED <<phase, cur, todo, calls, firstSaid, condemned>>
      BY <2>12 DEF MarkSuppressed
    <3>2. CASE MarkFails
      BY <1>a, <1>b, <1>e, <2>f, <3>1, <3>2, LetGoBudget DEF MarkFails
    <3>3. CASE outbox_mark_suppressed(CurRow(s))
      <4>1. CurRow(s) \in Row
        BY <2>r, <3>1 DEF Holding
      <4>2. /\ \A q \in Row : q # CurRow(s) => st'[q] = st[q] /\ att'[q] = att[q]
            /\ st'[CurRow(s)] = IF st[CurRow(s)] = "none" THEN "none" ELSE "suppressed"
        BY <1>a, <3>3, <4>1 DEF outbox_mark_suppressed, SetStatus, TypeOK
      <4> QED  BY <1>a, <1>b, <1>e, <3>1, <4>2, LetGoBudget
    <3> QED  BY <2>12, <3>2, <3>3 DEF MarkSuppressed
  <2>13. CASE Reclaim(s)
    <3>1. UNCHANGED <<att, calls, firstSaid, condemned, st, phase, cur, todo>>
      BY <2>13 DEF Reclaim
    <3>2. /\ Open(r)' => Open(r)
          /\ Post(r) <=> Post(r)'
          /\ Post(r)' => pc'[r[2]] = pc[r[2]]
      <4>1. r[2] # s => pc'[r[2]] = pc[r[2]]
        BY <2>13, <1>a, RowParts DEF Reclaim, TypeOK
      <4>2. pc[s] = "reclaim" /\ pc'[s] = "next"
        BY <2>13, <1>a DEF Reclaim, TypeOK
      <4> QED  BY <3>1, <4>1, <4>2 DEF Post, Open
    <3> QED  BY <1>a, <1>b, <1>e, <3>1, <3>2, RowFrame DEF Enqueued
  <2> QED  BY <1>5, <2>1, <2>2, <2>3, <2>4, <2>5, <2>6, <2>7, <2>8, <2>9, <2>10, <2>11,
             <2>12, <2>13 DEF TaskStep
<1> QED  BY <1>1, <1>2, <1>3, <1>4, <1>5 DEF Next

(* The budget facts hold in every reachable state.                         *)
THEOREM BudgetInvariant == Spec => []BudgetInv
<1>1. Init => BudgetInv
  <2> SUFFICES ASSUME Init PROVE BudgetInv
    OBVIOUS
  <2>1. MishapInv /\ Mishaps = 0 /\ MaxAttempts \in Nat
    BY ConstantsAssumption DEF Init, MishapInv, Mishaps, ConstantsAssumption
  <2>2. ASSUME NEW r \in Row PROVE RowInv(r)
    <3>1. ~Open(r) /\ ~Post(r)
      BY RowParts DEF Init, Open, Post, Processing
    <3> QED  BY <2>1, <3>1 DEF Init, RowInv
  <2> QED  BY <2>1, <2>2 DEF BudgetInv
<1>2. /\ TypeInv /\ DeliveryInv /\ BudgetInv /\ [Next]_vars /\ (TypeInv /\ DeliveryInv)'
      => BudgetInv'
  BY BudgetStep
<1> QED  BY <1>1, <1>2, DeliveryInvariant, PTL DEF Spec

(* backoff.rs bounds the deliver() calls of a row: whatever waits, edits,  *)
(* deletions and restarts come between, a call beyond MAX_ATTEMPTS is      *)
(* paid for by a store failure or a crash.  And mark_dead never gives an   *)
(* alert up early: a dead row was undeliverable, or its whole budget went  *)
(* into deliver() calls and mishaps.                                       *)
THEOREM BoundedDeliveries == Spec => []AttemptBudget
<1>1. BudgetInv => AttemptBudget
  BY DEF BudgetInv, RowInv, AttemptBudget
<1> QED  BY <1>1, BudgetInvariant, PTL

-----------------------------------------------------------------------------
(* What a Dead outcome is worth.  It is published after the mark, so while *)
(* no mark failed and no restart came between, the row it names is dead or *)
(* deleted and no task has it in work or will take it up again.            *)

InWork(r) ==
    \/ r[1] \in todo[r[2]]
    \/ cur[r[2]] = r[1] /\ pc[r[2]] \in Processing

(* Why a row may be given up.                                              *)
Hopeless(r) ==
    \/ r \in condemned
    \/ calls[r] + Mishaps >= MaxAttempts
    \/ phase[r[1]] = "gone"

DeadRow(r) ==
    /\ InWork(r) /\ st[r] = "none" => phase[r[1]] = "gone"
    /\ r \in deadSaid => Hopeless(r) /\ Enqueued(r[1])
    /\ r \in deadSaid /\ Mishaps = 0 => st[r] \in {"dead", "none"} /\ ~InWork(r)

DeadInv == \A r \in Row : DeadRow(r)

(* A row Dead was said of stays as it was unless a task has it in work,    *)
(* and only a pending row is taken into work.                              *)
LEMMA DeadFrame ==
    ASSUME TypeOK, TypeOK', NEW r \in Row, DeadRow(r),
           0 <= Mishaps, Mishaps <= Mishaps', calls[r] <= calls'[r],
           condemned \subseteq condemned',
           phase[r[1]] = "gone" => phase'[r[1]] = "gone",
           Enqueued(r[1]) => Enqueued(r[1])',
           r \in deadSaid' => r \in deadSaid,
           InWork(r)' => InWork(r) \/ st[r] = "pending",
           st'[r] = "none" => st[r] = "none" \/ phase'[r[1]] = "gone" \/ ~InWork(r)',
           st'[r] \in {st[r], "none"} \/ InWork(r) \/ r \notin deadSaid
    PROVE  DeadRow(r)'
<1>1. /\ Mishaps \in Int /\ Mishaps' \in Int /\ MaxAttempts \in Nat
      /\ calls[r] \in Nat /\ calls'[r] \in Nat
  BY ConstantsAssumption DEF ConstantsAssumption, Mishaps, TypeOK
<1>2. InWork(r)' /\ st'[r] = "none" => phase'[r[1]] = "gone"
  BY DEF DeadRow
<1>3. Hopeless(r) => Hopeless(r)'
  BY <1>1 DEF Hopeless
<1>4. Mishaps' = 0 => Mishaps = 0
  BY <1>1
<1>5. r \in deadSaid' => Hopeless(r)' /\ Enqueued(r[1])'
  BY <1>3 DEF DeadRow
<1>6. r \in deadSaid' /\ Mishaps' = 0 => st'[r] \in {"dead", "none"} /\ ~InWork(r)'
  BY <1>4 DEF DeadRow
<1> QED  BY <1>2, <1>5, <1>6 DEF DeadRow

(* A step of a task on the row in hand takes no row up, and what it writes *)
(* to a row that is there does not delete it.                              *)
LEMMA DeadTask ==
    ASSUME TypeInv, TypeOK', DeliveryInv, NEW s \in Sink, pc[s] \in Processing,
           NEW l, pc' = [pc EXCEPT ![s] = l], UNCHANGED <<phase, cur, todo>>,
           NEW r \in Row, DeadRow(r),
           0 <= Mishaps, Mishaps <= Mishaps', calls[r] <= calls'[r],
           condemned \subseteq condemned', r \in deadSaid' => r \in deadSaid,
           st'[r] = st[r] \/ (r = CurRow(s) /\ (st'[r] = "none" => st[r] = "none"))
    PROVE  DeadRow(r)'
<1>1. r[2] # s => pc'[r[2]] = pc[r[2]]
  BY RowParts DEF TypeInv, TypeOK
<1>2. Holding(s)
  BY DEF Holding, Processing
<1>3. r = CurRow(s) => InWork(r)
  BY <1>2, InHand DEF InWork
<1>4. InWork(r)' => InWork(r)
  BY <1>1 DEF InWork
<1>5. st'[r] = "none" => st[r] = "none"
  OBVIOUS
<1>6. st'[r] \in {st[r], "none"} \/ InWork(r)
  BY <1>3
<1> QED  BY <1>4, <1>5, <1>6, DeadFrame DEF TypeInv, Enqueued

LEMMA DeadStep ==
    ASSUME TypeInv, TypeInv', DeliveryInv, BudgetInv, BudgetInv', DeadInv, [Next]_vars
    PROVE  DeadInv'
<1>a. TypeOK /\ TypeOK'
  BY DEF TypeInv
<1>b. Mishaps <= Mishaps'
  BY <1>a, MishapStep
<1>c. Mishaps \in Int /\ Mishaps' \in Int /\ 0 <= Mishaps
  <2>1. /\ faultsLeft \in Int /\ crashesLeft \in Int
        /\ MaxFaults \in Int /\ MaxCrashes \in Int
        /\ faultsLeft' \in Int /\ crashesLeft' \in Int
    BY <1>a, ConstantsAssumption DEF ConstantsAssumption, TypeOK
  <2>2. \A a, b, x, y \in Int : x <= a /\ y <= b => 0 <= (a - x) + (b - y)
    OBVIOUS
  <2> QED  BY <2>1, <2>2 DEF BudgetInv, MishapInv, Mishaps
<1>d. SUFFICES ASSUME NEW r \in Row, DeadRow(r), RowInv(r) PROVE DeadRow(r)'
  BY DEF DeadInv, BudgetInv
<1>e. calls[r] \in Nat
  BY <1>a DEF TypeOK
<1> USE DEF eventVars, tableVars, histVars, taskVars
<1>1. ASSUME NEW e \in Event, NEW D \in SUBSET Sink, record_event_and_enqueue(e, D)
      PROVE  DeadRow(r)'
  <2>1. /\ UNCHANGED <<calls, condemned, deadSaid, pc, cur, todo>>
        /\ phase' = [phase EXCEPT ![e] = "recorded"] /\ phase[e] = "snapped"
    BY <1>1 DEF record_event_and_enqueue
  <2>2. InWork(r)' <=> InWork(r)
    BY <2>1 DEF InWork
  <2>3. CASE r[1] = e
    <3>1. ~InWork(r)
      BY <2>1, <2>3, RowParts DEF InWork, DeliveryInv, TaskInv, Enqueued, Holding, Processing
    <3>2. r \notin deadSaid
      BY <1>d, <2>1, <2>3 DEF DeadRow, Enqueued
    <3> QED  BY <2>1, <2>2, <3>1, <3>2 DEF DeadRow
  <2>4. CASE r[1] # e
    <3>1. st'[r] = st[r]
      BY <1>1, <2>4 DEF record_event_and_enqueue
    <3>2. phase'[r[1]] = phase[r[1]]
      BY <1>a, <2>1, <2>4, RowParts DEF TypeOK
    <3> QED  BY <1>a, <1>b, <1>c, <1>d, <1>e, <2>1, <2>2, <3>1, <3>2, DeadFrame DEF Enqueued
  <2> QED  BY <2>3, <2>4
<1>2. CASE \/ \E e \in Event : \/ WriteSnapshot(e) \/ RecordFails(e) \/ ArmAlertClip(e)
                              \/ LinkMotionClip(e) \/ FinishAlertClip(e)
                              \/ CloseMotionClip(e) \/ CloseFails(e) \/ SoftEvict(e)
                              \/ CascadeDelete(e) \/ SweepUnlink(e)
          \/ (\E q \in Row : PruneTerminal(q)) \/ SweepList \/ Elapse
          \/ (\E S \in SUBSET Sink : Reconfigure(S)) \/ UNCHANGED vars
  <2>1. UNCHANGED <<pc, cur, todo, calls, deadSaid, condemned>>
    BY <1>2 DEF WriteSnapshot, RecordFails, ArmAlertClip, LinkMotionClip, FinishAlertClip,
                CloseMotionClip, CloseFails, SoftEvict, CascadeDelete, SweepUnlink, PruneTerminal,
                SweepList, Elapse, Reconfigure, vars
  <2>2. InWork(r)' <=> InWork(r)
    BY <2>1 DEF InWork
  <2>3. /\ Enqueued(r[1]) => Enqueued(r[1])'
        /\ phase[r[1]] = "gone" => phase'[r[1]] = "gone"
    BY <1>2, <1>a, RowParts DEF WriteSnapshot, RecordFails, ArmAlertClip, LinkMotionClip,
                FinishAlertClip, CloseMotionClip, CloseFails, SoftEvict, CascadeDelete, SweepUnlink,
                PruneTerminal, SweepList, Elapse, Reconfigure, vars, TypeOK, Enqueued
  <2>4. InWork(r) => Unsettled(r)
    <3>1. r[2] \in Sink /\ r = <<r[1], r[2]>>
      BY RowParts
    <3>2. TaskInv(r[2])
      BY <3>1 DEF DeliveryInv
    <3>3. r[1] \in todo[r[2]] => Unsettled(<<r[1], r[2]>>)
      BY <3>2 DEF TaskInv
    <3>4. pc[r[2]] \in Processing => Unsettled(<<cur[r[2]], r[2]>>)
      BY <3>2 DEF TaskInv, CurRow
    <3> QED  BY <3>1, <3>3, <3>4 DEF InWork
  <2>5. st'[r] = st[r] \/ (st'[r] = "none" /\ (phase'[r[1]] = "gone" \/ st[r] \in Terminal))
    <3>1. ASSUME NEW e \in Event, CascadeDelete(e)
          PROVE  st'[r] = st[r] \/ (st'[r] = "none" /\ phase'[r[1]] = "gone")
      BY <3>1, <1>a, RowParts DEF CascadeDelete, TypeOK
    <3>2. ASSUME NEW q \in Row, PruneTerminal(q)
          PROVE  st'[r] = st[r] \/ (st'[r] = "none" /\ st[r] \in Terminal)
      BY <3>2, <1>a DEF PruneTerminal, TypeOK
    <3> QED  BY <1>2, <3>1, <3>2 DEF WriteSnapshot, RecordFails, ArmAlertClip, LinkMotionClip,
                FinishAlertClip, CloseMotionClip, CloseFails, SoftEvict, SweepUnlink,
                SweepList, Elapse, Reconfigure, vars
  <2>6. st'[r] = "none" => st[r] = "none" \/ phase'[r[1]] = "gone" \/ ~InWork(r)'
    BY <2>2, <2>4, <2>5 DEF Unsettled, Terminal
  <2> QED  BY <1>a, <1>b, <1>c, <1>d, <1>e, <2>1, <2>2, <2>3, <2>5, <2>6, DeadFrame
<1>3. CASE Tick
  <2>1. UNCHANGED <<calls, deadSaid, condemned, st, phase>> /\ GroupsJoined
    BY <1>3 DEF Tick
  <2>2. PICK B \in SUBSET Due :
           /\ todo' = [s \in Sink |-> {e \in Event : <<e, s>> \in B}]
           /\ pc' = [s \in Sink |-> IF \E e \in Event : <<e, s>> \in B
                                      THEN "next" ELSE "idle"]
    BY <1>3 DEF Tick
  <2>3. InWork(r)' => st[r] = "pending"
    BY <2>2, RowParts DEF InWork, Due, Processing
  <2> QED  BY <1>a, <1>b, <1>c, <1>d, <1>e, <2>1, <2>3, DeadFrame DEF Enqueued
<1>4. CASE Crash
  <2>1. UNCHANGED <<calls, deadSaid, condemned, st>>
    BY <1>4 DEF Crash
  <2>2. ~InWork(r)'
    BY <1>4, RowParts DEF Crash, InWork, Processing
  <2>3. /\ Enqueued(r[1]) => Enqueued(r[1])'
        /\ phase[r[1]] = "gone" => phase'[r[1]] = "gone"
    BY <1>4, <1>a, RowParts DEF Crash, Enqueued, TypeOK
  <2> QED  BY <1>a, <1>b, <1>c, <1>d, <1>e, <2>1, <2>2, <2>3, DeadFrame
<1>5. ASSUME NEW s \in Sink, TaskStep(s) PROVE DeadRow(r)'
  <2> USE DEF Goto
  <2>0. UNCHANGED phase /\ condemned \subseteq condemned'
    BY <1>5 DEF TaskStep, NextRow, GroupEnds, Hydrate, ResolveAlertClip, ResolveMotionLink,
                GetClip, Deliver, MarkSent, schedule_retry, schedule_clip_wait, mark_dead,
                MarkSuppressed, Reclaim, Condemn
  <2>1. CASE NextRow(s) \/ GroupEnds(s) \/ Reclaim(s)
    <3>1. UNCHANGED <<calls, deadSaid, st>>
      BY <2>1 DEF NextRow, GroupEnds, Reclaim
    <3>2. r[2] # s => /\ pc'[r[2]] = pc[r[2]] /\ cur'[r[2]] = cur[r[2]]
                      /\ todo'[r[2]] = todo[r[2]]
      BY <2>1, <1>a, RowParts DEF NextRow, GroupEnds, Reclaim, TypeOK
    <3>3. \/ pc'[s] = "hydrate" /\ todo'[s] \cup {cur'[s]} \subseteq todo[s]
          \/ pc'[s] \in {"idle", "next"} /\ todo'[s] \subseteq todo[s]
      BY <2>1, <1>a DEF NextRow, GroupEnds, Reclaim, TypeOK
    <3>4. InWork(r)' => InWork(r)
      BY <3>2, <3>3 DEF InWork, Processing
    <3> QED  BY <1>a, <1>b, <1>c, <1>d, <1>e, <2>0, <3>1, <3>4, DeadFrame DEF Enqueued
  <2>2. CASE Hydrate(s) \/ ResolveAlertClip(s) \/ ResolveMotionLink(s) \/ GetClip(s)
    <3>1. /\ pc[s] \in Processing /\ UNCHANGED <<cur, todo, calls, deadSaid, st>>
          /\ \E l \in Labels : pc' = [pc EXCEPT ![s] = l]
      BY <2>2 DEF Hydrate, ResolveAlertClip, ResolveMotionLink, GetClip, Processing, Labels
    <3>2. calls[r] <= calls'[r]
      BY <1>e, <3>1
    <3> QED  BY <1>a, <1>b, <1>c, <1>d, <2>0, <3>1, <3>2, DeadTask
  <2>3. CASE Deliver(s)
    <3>1. /\ pc[s] \in Processing /\ UNCHANGED <<cur, todo, deadSaid, st>>
          /\ \E l \in Labels : pc' = [pc EXCEPT ![s] = l]
          /\ calls' = [calls EXCEPT ![CurRow(s)] = @ + 1]
      BY <2>3 DEF Deliver, Processing, Labels
    <3>2. calls[r] <= calls'[r]
      BY <1>a, <1>e, <3>1 DEF TypeOK
    <3> QED  BY <1>b, <1>c, <1>d, <1>a, <2>0, <3>1, <3>2, DeadTask
  <2>4. CASE MarkSent(s) \/ schedule_retry(s) \/ schedule_clip_wait(s) \/ MarkSuppressed(s)
    <3>1. /\ pc[s] \in Processing /\ UNCHANGED <<cur, todo, calls, deadSaid>>
          /\ \E l \in Labels : pc' = [pc EXCEPT ![s] = l]
      BY <2>4 DEF MarkSent, schedule_retry, schedule_clip_wait, MarkSuppressed, Processing, Labels
    <3>2. UNCHANGED st \/ \E v \in {"pending"} \cup Terminal : SetStatus(CurRow(s), v)
      BY <2>4 DEF MarkSent, schedule_retry, schedule_clip_wait, MarkSuppressed, MarkFails,
                  outbox_mark_sent, outbox_mark_failed, outbox_mark_waiting,
                  outbox_mark_suppressed, Terminal
    <3>3. st'[r] = st[r] \/ (r = CurRow(s) /\ (st'[r] = "none" => st[r] = "none"))
      BY <1>a, <3>2 DEF SetStatus, TypeOK, Terminal
    <3>4. calls[r] <= calls'[r]
      BY <1>e, <3>1
    <3> QED  BY <1>a, <1>b, <1>c, <1>d, <2>0, <3>1, <3>3, <3>4, DeadTask
  <2>5. CASE mark_dead(s)
    <3>1. /\ pc[s] = "dead" /\ pc' = [pc EXCEPT ![s] = "reclaim"]
          /\ UNCHANGED <<cur, todo, calls, condemned>>
          /\ deadSaid' = deadSaid \cup {CurRow(s)}
          /\ (Fault /\ UNCHANGED st) \/ SetStatus(CurRow(s), "dead")
      BY <2>5 DEF mark_dead, MarkFails, outbox_mark_dead
    <3>2. /\ CurRow(s) \in Row /\ CurRow(s)[1] = cur[s] /\ CurRow(s)[2] = s
          /\ Enqueued(cur[s]) /\ cur[s] \notin todo[s]
      BY <3>1, InHand DEF Holding
    <3>3. st'[r] = st[r] \/ (r = CurRow(s) /\ (st'[r] = "none" => st[r] = "none"))
      BY <1>a, <3>1 DEF SetStatus, TypeOK
    <3>4. CASE r # CurRow(s)
      <4>1. calls[r] <= calls'[r] /\ pc[s] \in Processing /\ (r \in deadSaid' => r \in deadSaid)
        BY <1>e, <3>1, <3>4 DEF Processing
      <4> QED  BY <1>a, <1>b, <1>c, <1>d, <2>0, <3>1, <3>3, <4>1, DeadTask
    <3>5. CASE r = CurRow(s)
      <4>1. Post(r) /\ InWork(r) /\ r[2] = s /\ r[1] = cur[s]
        BY <3>1, <3>2, <3>5 DEF Post, InWork, Processing
      <4>2. Hopeless(r)
        BY <1>d, <3>1, <4>1 DEF RowInv, DeadRow, Hopeless
      <4>3. Hopeless(r)'
        <5>1. MaxAttempts \in Nat
          BY ConstantsAssumption DEF ConstantsAssumption
        <5> QED  BY <1>b, <1>c, <1>e, <2>0, <3>1, <4>2, <5>1 DEF Hopeless
      <4>4. ~InWork(r)'
        BY <1>a, <3>1, <3>2, <4>1 DEF InWork, Processing, TypeOK
      <4>5. Mishaps' = 0 => st'[r] \in {"dead", "none"}
        <5>1. CASE Fault
          <6>1. /\ faultsLeft' = faultsLeft - 1 /\ crashesLeft' <= crashesLeft
                /\ faultsLeft \in Int /\ crashesLeft \in Int /\ crashesLeft' \in Int
                /\ MaxFaults \in Int /\ MaxCrashes \in Int
            BY <5>1, <1>a, MishapStep, ConstantsAssumption DEF Fault, ConstantsAssumption, TypeOK
          <6>2. \A a, b, x, y, z \in Int :
                   z <= y => ((a - x) + (b - y)) + 1 <= (a - (x - 1)) + (b - z)
            OBVIOUS
          <6>3. Mishaps + 1 <= Mishaps'
            BY <6>1, <6>2 DEF Mishaps
          <6> QED  BY <1>c, <6>3
        <5>2. CASE SetStatus(CurRow(s), "dead")
          BY <1>a, <3>5, <5>2 DEF SetStatus, TypeOK
        <5> QED  BY <3>1, <5>1, <5>2
      <4>6. Enqueued(r[1])'
        BY <2>0, <3>2, <4>1 DEF Enqueued
      <4> QED  BY <4>3, <4>4, <4>5, <4>6 DEF DeadRow
    <3> QED  BY <3>4, <3>5
  <2> QED  BY <1>5, <2>1, <2>2, <2>3, <2>4, <2>5 DEF TaskStep
<1> QED  BY <1>1, <1>2, <1>3, <1>4, <1>5 DEF Next

LEMMA DeadInvariance == Spec => [](TypeInv /\ DeliveryInv /\ BudgetInv /\ DeadInv)
<1>1. Init => DeadInv
  BY RowParts DEF Init, DeadInv, DeadRow, InWork, Processing
<1>2. /\ TypeInv /\ DeliveryInv /\ BudgetInv /\ DeadInv /\ [Next]_vars
      /\ (TypeInv /\ DeliveryInv)' /\ BudgetInv'
      => DeadInv'
  BY DeadStep
<1> QED  BY <1>1, <1>2, DeliveryInvariant, BudgetInvariant, PTL DEF Spec

(* The outcome bus tells the truth: one FirstFailure per outage plus one   *)
(* per mishap, Dead only for an alert that was given up with reason, and   *)
(* without mishaps only after the row has left the pending ones.           *)
THEOREM OutcomesHonest == Spec => []OutcomesTrue
<1>1. BudgetInv /\ DeadInv => OutcomesTrue
  BY DEF BudgetInv, RowInv, Open, DeadInv, DeadRow, Hopeless, OutcomesTrue
<1> QED  BY <1>1, DeadInvariance, PTL

(* dispatcher.rs says of a Dead alert that it "will never be delivered":   *)
(* without store failures and crashes no later step, of whatever task,     *)
(* brings it to its sink.                                                  *)
THEOREM DeadStaysDead == Spec => DeadIsFinalUnlessMishap
<1>1. ASSUME TypeInv, DeliveryInv, DeadInv, [Next]_vars,
             NEW r \in Row, r \in deadSaid, Mishaps = 0, r \in accepted'
      PROVE  r \in accepted
  <2>1. CASE \E s \in Sink : Deliver(s)
    <3>1. PICK s \in Sink : Deliver(s)
      BY <2>1
    <3>2. pc[s] = "deliver" /\ accepted' \subseteq accepted \cup {CurRow(s)}
      BY <3>1 DEF Deliver
    <3>3. InWork(CurRow(s)) /\ CurRow(s) \in Row
      BY <1>1, <3>2, InHand DEF Holding, InWork, Processing
    <3> QED  BY <1>1, <3>2, <3>3 DEF DeadInv, DeadRow
  <2>2. CASE ~ \E s \in Sink : Deliver(s)
    <3>1. UNCHANGED accepted
      BY <1>1, <2>2 DEF Next, TaskStep, histVars, vars, WriteSnapshot, record_event_and_enqueue,
             RecordFails, ArmAlertClip, LinkMotionClip, FinishAlertClip, CloseMotionClip,
             CloseFails, SoftEvict, CascadeDelete, SweepUnlink, PruneTerminal, SweepList,
             Reconfigure, Elapse, Tick, NextRow, GroupEnds, Hydrate, ResolveAlertClip,
             ResolveMotionLink, GetClip, MarkSent, schedule_retry, schedule_clip_wait,
             mark_dead, MarkSuppressed, Reclaim, Crash
    <3> QED  BY <1>1, <3>1
  <2> QED  BY <2>1, <2>2
<1>2. TypeInv /\ DeliveryInv /\ DeadInv /\ [Next]_vars =>
         [\A r \in Row : r \in deadSaid /\ Mishaps = 0 =>
             (r \in accepted' => r \in accepted)]_vars
  BY <1>1
<1> QED  BY <1>2, DeadInvariance, PTL DEF Spec, DeadIsFinalUnlessMishap

-----------------------------------------------------------------------------
(* A clip-attaching sink is not handed the alarm before its clip could be  *)
(* linked.  An alert has no clip before its step of the frame handler, so  *)
(* a task that has seen a motion link has seen the handler finish, even if *)
(* the clip is discarded before the task asks for it.                      *)

LinkInv(e) ==
    /\ aclip[e] # "none" => phase[e] \in {"armed", "done"}
    /\ mclip[e] # "none" => phase[e] = "done"

Handled(e) == phase[e] \in {"done", "gone"}

BareInv(s) ==
    /\ pc[s] = "getclip" => Handled(cur[s])
    /\ s \in ClipSink /\ pc[s] = "deliver" /\ clip[s] = "none" /\ age[cur[s]] < LinkGrace =>
          aclip[cur[s]] \in {"failed", "ready"} \/ Handled(cur[s])

GraceInv ==
    /\ \A e \in Event : LinkInv(e)
    /\ \A s \in Sink : BareInv(s)

(* A step that leaves a task where it is keeps BareInv if it neither       *)
(* undoes what the frame handler did nor makes the alert younger.          *)
LEMMA BareFrame ==
    ASSUME TypeInv, TypeInv', NEW t \in Sink, BareInv(t),
           pc'[t] = pc[t], cur'[t] = cur[t], clip'[t] = clip[t],
           \A e \in Event : Handled(e) => Handled(e)',
           \A e \in Event : aclip[e] \in {"failed", "ready"} => aclip'[e] = aclip[e] \/ Handled(e)',
           \A e \in Event : age'[e] >= age[e]
    PROVE  BareInv(t)'
<1>1. pc[t] \in {"getclip", "deliver"} => cur[t] \in Event
  BY DEF TypeInv, RowInHand, Holding
<1>2. cur[t] \in Event => age[cur[t]] \in Int /\ age'[cur[t]] \in Int /\ LinkGrace \in Int
  BY ConstantsAssumption DEF TypeInv, TypeOK, ConstantsAssumption
<1> QED  BY <1>1, <1>2 DEF BareInv

LEMMA GraceStep ==
    ASSUME TypeInv, TypeInv', GraceInv, [Next]_vars
    PROVE  GraceInv'
<1> USE DEF eventVars, tableVars, taskVars, histVars, runVars
<1>a. TypeOK /\ \A e \in Event : LinkInv(e)
  BY DEF TypeInv, GraceInv
<1>b. \A e \in Event : age[e] \in 0..BuildGrace /\ BuildGrace \in Nat /\ LinkGrace \in Nat
                       /\ LinkGrace <= BuildGrace
  BY <1>a, ConstantsAssumption DEF TypeOK, ConstantsAssumption
(* The frame handler, the recorder and the storage loops.                  *)
<1>1. ASSUME UNCHANGED <<pc, cur, clip>>,
             \A e \in Event : LinkInv(e)' /\ (Handled(e) => Handled(e)'),
             \A e \in Event : aclip[e] \in {"failed", "ready"} => aclip'[e] = aclip[e] \/ Handled(e)',
             \A e \in Event : age'[e] >= age[e]
      PROVE  GraceInv'
  BY <1>1, BareFrame DEF GraceInv
<1>2. ASSUME NEW e \in Event,
             WriteSnapshot(e) \/ (\E D \in SUBSET Sink : record_event_and_enqueue(e, D))
             \/ RecordFails(e) \/ ArmAlertClip(e) \/ LinkMotionClip(e)
             \/ FinishAlertClip(e) \/ CloseMotionClip(e) \/ CloseFails(e)
             \/ SoftEvict(e) \/ CascadeDelete(e) \/ SweepUnlink(e)
      PROVE  GraceInv'
  <2>1. UNCHANGED <<pc, cur, clip, age>>
    BY <1>2 DEF WriteSnapshot, record_event_and_enqueue, RecordFails, ArmAlertClip,
       LinkMotionClip, FinishAlertClip, CloseMotionClip, CloseFails, SoftEvict, CascadeDelete,
       SweepUnlink
  <2>2. \A d \in Event \ {e} : phase'[d] = phase[d] /\ aclip'[d] = aclip[d] /\ mclip'[d] = mclip[d]
    BY <1>a, <1>2 DEF WriteSnapshot, record_event_and_enqueue, RecordFails, ArmAlertClip,
       LinkMotionClip, FinishAlertClip, CloseMotionClip, CloseFails, SoftEvict, CascadeDelete,
       SweepUnlink, TypeOK
  <2>3. LinkInv(e)' /\ (Handled(e) => Handled(e)')
        /\ (aclip[e] \in {"failed", "ready"} => aclip'[e] = aclip[e] \/ Handled(e)')
    BY <1>a, <1>2 DEF WriteSnapshot, record_event_and_enqueue, RecordFails, ArmAlertClip,
       LinkMotionClip, FinishAlertClip, CloseMotionClip, CloseFails, SoftEvict, CascadeDelete,
       SweepUnlink, TypeOK, LinkInv, Handled
  <2>4. \A d \in Event : LinkInv(d)' /\ (Handled(d) => Handled(d)')
    BY <1>a, <2>2, <2>3 DEF LinkInv, Handled
  <2> QED  BY <1>1, <1>b, <2>1, <2>2, <2>3, <2>4
<1>3. CASE Elapse
  <2>1. UNCHANGED <<pc, cur, clip, phase, aclip, mclip>> /\ \A e \in Event : age'[e] >= age[e]
    BY <1>b, <1>3 DEF Elapse
  <2> QED  BY <1>1, <1>a, <2>1 DEF LinkInv, Handled
<1>4. ASSUME UNCHANGED <<pc, cur, clip, phase, aclip, mclip, age>> PROVE GraceInv'
  BY <1>1, <1>a, <1>b, <1>4 DEF LinkInv, Handled
<1>5. CASE (\E r \in Row : PruneTerminal(r)) \/ SweepList
           \/ (\E S \in SUBSET Sink : Reconfigure(S)) \/ UNCHANGED vars
  BY <1>4, <1>5 DEF PruneTerminal, SweepList, Reconfigure, vars
<1>6. CASE Crash
  <2>1. \A s \in Sink : pc'[s] = "idle"
    BY <1>6 DEF Crash
  <2>2. \A e \in Event : LinkInv(e)'
    BY <1>a, <1>6 DEF Crash, LinkInv, TypeOK
  <2> QED  BY <2>1, <2>2 DEF GraceInv, BareInv
<1>7. CASE Tick
  <2>1. \A s \in Sink : pc'[s] \in {"next", "idle"}
    BY <1>7 DEF Tick
  <2>2. \A e \in Event : LinkInv(e)'
    BY <1>a, <1>7 DEF Tick, LinkInv
  <2> QED  BY <2>1, <2>2 DEF GraceInv, BareInv
(* The dispatcher: a lookup decides on the link and the age it reads.      *)
<1>8. ASSUME NEW s \in Sink, TaskStep(s) PROVE GraceInv'
  <2>1. UNCHANGED <<phase, aclip, mclip, age>>
        /\ \A t \in Sink \ {s} : pc'[t] = pc[t] /\ cur'[t] = cur[t] /\ clip'[t] = clip[t]
    BY <1>a, <1>8 DEF TypeOK, TaskStep, NextRow, GroupEnds, Hydrate, ResolveAlertClip,
       ResolveMotionLink, GetClip, Deliver, MarkSent, schedule_retry, schedule_clip_wait,
       mark_dead, MarkSuppressed, Reclaim, Goto
  <2>2. \A e \in Event : LinkInv(e)'
    BY <1>a, <2>1 DEF LinkInv
  <2>3. ASSUME NEW t \in Sink \ {s} PROVE BareInv(t)'
    BY <1>b, <2>1, BareFrame DEF GraceInv, Handled
  <2>4. BareInv(s)'
    <3>1. CASE Hydrate(s)
      <4>1. pc'[s] \notin {"getclip"} /\ (pc'[s] = "deliver" => s \notin ClipSink)
        BY <1>a, <3>1 DEF Hydrate, Goto, TypeOK
      <4> QED  BY <4>1 DEF BareInv
    <3>2. CASE ResolveAlertClip(s)
      <4>1. cur' = cur /\ pc'[s] # "getclip" /\ cur[s] \in Event
        BY <1>a, <3>2 DEF ResolveAlertClip, Goto, TypeOK, TypeInv, RowInHand, Holding
      <4>2. pc'[s] = "deliver" =>
               aclip[cur[s]] \in {"failed", "ready"} \/ ~(age[cur[s]] < BuildGrace)
        BY <1>a, <3>2 DEF ResolveAlertClip, Goto, TypeOK, within_alert_clip_grace
      <4> QED  BY <1>b, <2>1, <4>1, <4>2 DEF BareInv
    <3>3. CASE ResolveMotionLink(s)
      <4>1. cur' = cur /\ cur[s] \in Event
        BY <1>a, <3>3 DEF ResolveMotionLink, TypeInv, RowInHand, Holding
      <4>2. /\ pc'[s] = "getclip" => mclip[cur[s]] # "none"
            /\ pc'[s] = "deliver" => ~(age[cur[s]] < LinkGrace)
        BY <1>a, <3>3 DEF ResolveMotionLink, Goto, TypeOK, within_clip_grace
      <4> QED  BY <1>a, <2>1, <4>1, <4>2 DEF BareInv, LinkInv, Handled
    <3>4. CASE GetClip(s)
      <4>1. cur' = cur /\ Handled(cur[s]) /\ pc'[s] # "getclip"
        BY <1>a, <3>4 DEF GetClip, Goto, TypeOK, GraceInv, BareInv
      <4> QED  BY <2>1, <4>1 DEF BareInv, Handled
    <3>5. CASE pc'[s] \notin {"getclip", "deliver"}
      BY <3>5 DEF BareInv
    <3> QED
      BY <1>a, <1>8, <3>1, <3>2, <3>3, <3>4, <3>5 DEF TypeOK, TaskStep, NextRow, GroupEnds, Deliver,
         MarkSent, schedule_retry, schedule_clip_wait, mark_dead, MarkSuppressed, Reclaim, Goto
  <2> QED  BY <2>2, <2>3, <2>4 DEF GraceInv
<1> QED  BY <1>2, <1>3, <1>5, <1>6, <1>7, <1>8 DEF Next

(* process_row hands a clip-attaching sink the alarm without a clip inside *)
(* the link grace window only if the alert clip is settled or the frame    *)
(* handler has finished with the alert.                                    *)
THEOREM NotBareInGrace == Spec => []BareOnlyAfterGrace
<1>1. Init => GraceInv
  BY DEF Init, GraceInv, LinkInv, BareInv
<1>2. TypeInv /\ TypeInv' /\ GraceInv /\ [Next]_vars => GraceInv'
  BY GraceStep
<1>3. GraceInv => BareOnlyAfterGrace
  BY ConstantsAssumption DEF ConstantsAssumption, GraceInv, BareInv, Handled, BareOnlyAfterGrace
<1> QED  BY <1>1, <1>2, <1>3, TypeInvariant, PTL DEF Spec
=============================================================================
