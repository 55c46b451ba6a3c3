---------------------------- MODULE AlertOutbox ----------------------------
(***************************************************************************)
(* The alert delivery path of the edge engine:                             *)
(*   - the per-camera supervisor writes the alert's snapshot, records the  *)
(*     event with one outbox row per sink in a single transaction, then    *)
(*     arms an alert clip and links the motion clip                        *)
(*     (nexus-pipeline/src/supervisor.rs, nexus-store/src/lib.rs);         *)
(*   - the dispatcher drains the outbox, one concurrent task per sink,     *)
(*     rows of a sink in id order (nexus-sinks/src/dispatcher.rs);         *)
(*   - the recorder closes clips, the storage loops evict clips, delete    *)
(*     rows with their event and sweep snapshots.                          *)
(*                                                                         *)
(* Every store or file-system await of the dispatcher is an action of its  *)
(* own, so the other actors interleave at the places where they really do. *)
(* Any store access made for a row may fail; the failures are budgeted.    *)
(*                                                                         *)
(* Time is relative: age[e] counts up from the insertion of e's rows and   *)
(* saturates at the longest grace window, wait[r] counts down to           *)
(* next_attempt_at.  Elapse passes one unit; nothing else bounds time.     *)
(***************************************************************************)
EXTENDS Integers, FiniteSets

CONSTANTS
    Event,          \* alerts that may fire
    Sink,           \* sink ids
    ClipSink,       \* sinks whose wants_clip() is true
    Reserved,       \* subsystem-owned sinks (cloud:console)
    NoEvent,        \* a sink task without a current row
    MaxAttempts,    \* backoff.rs MAX_ATTEMPTS
    Base,           \* backoff.rs BASE, in units of time
    Cap,            \* backoff.rs CAP
    LinkGrace,      \* CLIP_LINK_GRACE_SECS
    BuildGrace,     \* ALERT_CLIP_BUILD_GRACE_SECS
    PollWait,       \* CLIP_WAIT_POLL_SECS
    BatchSize,      \* BATCH_SIZE
    MaxFaults,      \* bound: store accesses that fail
    MaxCrashes,     \* bound: engine crashes
    MaxEdits,       \* bound: edits of the sink configuration
    AlertClips,     \* clips.alert_clips.enabled
    MotionClips,    \* whether motion clips are recorded
    Pressure        \* whether the disk-pressure ladder may run

ASSUME ConstantsAssumption ==
    /\ ClipSink \subseteq Sink
    /\ Reserved \subseteq Sink
    /\ NoEvent \notin Event
    /\ MaxAttempts \in Nat \ {0}
    /\ Base \in Nat /\ Cap \in Nat /\ PollWait \in Nat
    /\ LinkGrace \in Nat /\ BuildGrace \in Nat
    /\ LinkGrace <= BuildGrace
    /\ BatchSize \in Nat \ {0}
    /\ MaxFaults \in Nat /\ MaxCrashes \in Nat /\ MaxEdits \in Nat
    /\ AlertClips \in BOOLEAN /\ MotionClips \in BOOLEAN /\ Pressure \in BOOLEAN

VARIABLES
    phase,      \* how far the supervisor's frame handler got with event e
    age,        \* time since e's rows were inserted (created_at)
    snap,       \* e's shared snapshot file
    aclip,      \* the alert clip linked to e
    mclip,      \* the motion clip linked to e
    st,         \* outbox status of row <<e, s>>, "none" when absent
    att,        \* outbox attempts column (kept as read when a row is deleted)
    wait,       \* time until next_attempt_at
    id,         \* insertion order of e's rows
    nextId,
    registry,   \* sink ids currently registered
    pc,         \* where the task of sink s stands in process_row
    cur,        \* the event whose row it processes
    todo,       \* the rows of its group still to process
    clip,       \* the clip stamped on event.artifacts.clip
    slow,       \* whether the group's time budget is used up
    sweep,      \* snapshots the pressure sweep has found to be orphans
    calls,      \* deliver() calls made for row r
    accepted,   \* rows whose sink took the alert at least once
    condemned,  \* rows found undeliverable: rejected, sink or event gone
    firstSaid,  \* FirstFailure outcomes published for row r
    deadSaid,   \* rows a Dead outcome was published for
    faultsLeft,
    crashesLeft,
    editsLeft

eventVars == <<phase, age, snap, aclip, mclip>>
tableVars == <<st, att, wait, id, nextId>>
taskVars  == <<pc, cur, todo, clip, slow>>
histVars  == <<calls, accepted, condemned, firstSaid, deadSaid>>
runVars == <<crashesLeft, editsLeft>>
vars == <<eventVars, tableVars, registry, taskVars, sweep, histVars, faultsLeft, runVars>>

Row == Event \X Sink

Terminal == {"sent", "dead", "suppressed"}

(* The events row exists from the commit of the enqueue transaction until  *)
(* a clip deletion cascades to it.                                         *)
Live(e) == phase[e] \in {"recorded", "armed", "done"}

Pending(e) == {s \in Sink : st[<<e, s>>] = "pending"}

Labels == {"idle", "next", "hydrate", "alertclip", "motionlink", "getclip",
           "deliver", "suppress", "wait", "retry", "sent", "dead", "reclaim"}

TypeOK ==
    /\ phase \in [Event -> {"new", "snapped", "recorded", "armed", "done", "gone"}]
    /\ age \in [Event -> 0..BuildGrace]
    /\ snap \in [Event -> {"none", "disk", "failed", "reclaimed", "swept"}]
    /\ aclip \in [Event -> {"none", "building", "stuck", "ready", "failed"}]
    /\ mclip \in [Event -> {"none", "recording", "orphan", "hot", "nohot"}]
    /\ st \in [Row -> {"none", "pending"} \cup Terminal]
    /\ att \in [Row -> Nat]
    /\ wait \in [Row -> Nat]
    /\ id \in [Event -> Nat]
    /\ nextId \in Nat
    /\ registry \in SUBSET Sink
    /\ pc \in [Sink -> Labels]
    /\ cur \in [Sink -> Event \cup {NoEvent}]
    /\ todo \in [Sink -> SUBSET Event]
    /\ clip \in [Sink -> {"none", "alert", "motion"}]
    /\ slow \in [Sink -> BOOLEAN]
    /\ sweep \in SUBSET Event
    /\ calls \in [Row -> Nat]
    /\ accepted \in SUBSET Row
    /\ condemned \in SUBSET Row
    /\ firstSaid \in [Row -> Nat]
    /\ deadSaid \in SUBSET Row
    /\ faultsLeft \in Nat
    /\ crashesLeft \in Nat
    /\ editsLeft \in Nat

Init ==
    /\ phase = [e \in Event |-> "new"]
    /\ age = [e \in Event |-> 0]
    /\ snap = [e \in Event |-> "none"]
    /\ aclip = [e \in Event |-> "none"]
    /\ mclip = [e \in Event |-> "none"]
    /\ st = [r \in Row |-> "none"]
    /\ att = [r \in Row |-> 0]
    /\ wait = [r \in Row |-> 0]
    /\ id = [e \in Event |-> 0]
    /\ nextId = 1
    /\ registry = Sink
    /\ pc = [s \in Sink |-> "idle"]
    /\ cur = [s \in Sink |-> NoEvent]
    /\ todo = [s \in Sink |-> {}]
    /\ clip = [s \in Sink |-> "none"]
    /\ slow = [s \in Sink |-> FALSE]
    /\ sweep = {}
    /\ calls = [r \in Row |-> 0]
    /\ accepted = {}
    /\ condemned = {}
    /\ firstSaid = [r \in Row |-> 0]
    /\ deadSaid = {}
    /\ faultsLeft = MaxFaults
    /\ crashesLeft = MaxCrashes
    /\ editsLeft = MaxEdits

-----------------------------------------------------------------------------
(* A store access succeeds or fails.                                       *)

NoFault == UNCHANGED faultsLeft

Fault ==
    /\ faultsLeft > 0
    /\ faultsLeft' = faultsLeft - 1

(* Store failures and crashes so far.                                      *)
Mishaps == (MaxFaults - faultsLeft) + (MaxCrashes - crashesLeft)

-----------------------------------------------------------------------------
(* The supervisor's frame handler, for one alert of the frame.             *)

(* Best-effort: a snapshot that cannot be written never blocks the alert.  *)
WriteSnapshot(e) ==
    /\ phase[e] = "new"
    /\ phase' = [phase EXCEPT ![e] = "snapped"]
    /\ \E out \in {"disk", "failed"} : snap' = [snap EXCEPT ![e] = out]
    /\ UNCHANGED <<age, aclip, mclip, tableVars, registry, taskVars, sweep,
                   histVars, faultsLeft, runVars>>

(* The sinks an alert is routed to: the rule's allow-list cut down to the  *)
(* configured sinks (all of them when it is empty), and every reserved one.*)
sinks_for(D) == Reserved \subseteq D /\ D \subseteq registry

record_event_and_enqueue(e, D) ==
    /\ phase[e] = "snapped"
    /\ sinks_for(D)
    /\ phase' = [phase EXCEPT ![e] = "recorded"]
    /\ st' = [r \in Row |-> IF r[1] = e /\ r[2] \in D THEN "pending" ELSE st[r]]
    /\ id' = [id EXCEPT ![e] = nextId]
    /\ nextId' = nextId + 1
    /\ UNCHANGED <<age, snap, aclip, mclip, att, wait, registry, taskVars, sweep,
                   histVars, faultsLeft, runVars>>

(* The transaction fails: the alert is logged and lost, its snapshot stays.*)
RecordFails(e) ==
    /\ phase[e] = "snapped"
    /\ Fault
    /\ phase' = [phase EXCEPT ![e] = "gone"]
    /\ UNCHANGED <<age, snap, aclip, mclip, tableVars, registry, taskVars, sweep,
                   histVars, runVars>>

(* arm_alert_clip starts or joins a build, or declines; the link may fail. *)
ArmAlertClip(e) ==
    /\ phase[e] = "recorded"
    /\ phase' = [phase EXCEPT ![e] = "armed"]
    /\ \E c \in {"none"} \cup {x \in {"building"} : AlertClips} : aclip' = [aclip EXCEPT ![e] = c]
    /\ UNCHANGED <<age, snap, mclip, tableVars, registry, taskVars, sweep,
                   histVars, faultsLeft, runVars>>

(* The motion lifecycle of the frame has run; the alert is linked to the   *)
(* clip that is open now, if there is one and the link is written.         *)
LinkMotionClip(e) ==
    /\ phase[e] = "armed"
    /\ phase' = [phase EXCEPT ![e] = "done"]
    /\ \E c \in {"none"} \cup {x \in {"recording"} : MotionClips} : mclip' = [mclip EXCEPT ![e] = c]
    /\ UNCHANGED <<age, snap, aclip, tableVars, registry, taskVars, sweep,
                   histVars, faultsLeft, runVars>>

-----------------------------------------------------------------------------
(* The recorder, the storage loops and the operator.                       *)

(* The builder marks the alert clip ready or failed.                       *)
FinishAlertClip(e) ==
    /\ aclip[e] = "building"
    /\ \E c \in {"ready", "failed"} : aclip' = [aclip EXCEPT ![e] = c]
    /\ UNCHANGED <<phase, age, snap, mclip, tableVars, registry, taskVars, sweep,
                   histVars, faultsLeft, runVars>>

(* recorder.close: the clip is finalised on disk, or it is too short and   *)
(* discarded, its events detached.                                         *)
CloseMotionClip(e) ==
    /\ mclip[e] = "recording"
    /\ \E c \in {"hot", "none"} : mclip' = [mclip EXCEPT ![e] = c]
    /\ UNCHANGED <<phase, age, snap, aclip, tableVars, registry, taskVars, sweep,
                   histVars, faultsLeft, runVars>>

(* The close fails at its last write: the file is finished, the handle is  *)
(* gone and the row stays open.                                            *)
CloseFails(e) ==
    /\ mclip[e] = "recording"
    /\ Fault
    /\ mclip' = [mclip EXCEPT ![e] = "orphan"]
    /\ UNCHANGED <<phase, age, snap, aclip, tableVars, registry, taskVars, sweep,
                   histVars, runVars>>

(* Soft eviction drops the hot copy and keeps the row.                     *)
SoftEvict(e) ==
    /\ mclip[e] = "hot"
    /\ mclip' = [mclip EXCEPT ![e] = "nohot"]
    /\ UNCHANGED <<phase, age, snap, aclip, tableVars, registry, taskVars, sweep,
                   histVars, faultsLeft, runVars>>

(* Hard eviction or retention deletes the clip row; the foreign keys take  *)
(* the event and its outbox rows with it.                                  *)
CascadeDelete(e) ==
    /\ phase[e] = "done"
    /\ mclip[e] # "none"
    /\ phase' = [phase EXCEPT ![e] = "gone"]
    /\ mclip' = [mclip EXCEPT ![e] = "none"]
    /\ aclip' = [aclip EXCEPT ![e] = "none"]
    /\ st' = [r \in Row |-> IF r[1] = e THEN "none" ELSE st[r]]
    /\ UNCHANGED <<age, snap, att, wait, id, nextId, registry, taskVars, sweep,
                   histVars, faultsLeft, runVars>>

(* The outbox retention sweep deletes settled rows only.                   *)
PruneTerminal(r) ==
    /\ st[r] \in Terminal
    /\ st' = [st EXCEPT ![r] = "none"]
    /\ UNCHANGED <<eventVars, att, wait, id, nextId, registry, taskVars, sweep,
                   histVars, faultsLeft, runVars>>

(* sweep_orphan_snapshots, first half: list the snapshot directory, then   *)
(* ask the store which of those events exist.                              *)
SweepList ==
    /\ Pressure
    /\ sweep = {}
    /\ sweep' = {e \in Event : snap[e] = "disk" /\ ~Live(e)}
    /\ sweep' # {}
    /\ UNCHANGED <<eventVars, tableVars, registry, taskVars, histVars, faultsLeft,
                   runVars>>

(* Second half: unlink what the store did not know when it was asked.      *)
SweepUnlink(e) ==
    /\ e \in sweep
    /\ sweep' = sweep \ {e}
    /\ snap' = [snap EXCEPT ![e] = IF @ = "disk" THEN "swept" ELSE @]
    /\ UNCHANGED <<phase, age, aclip, mclip, tableVars, registry, taskVars,
                   histVars, faultsLeft, runVars>>

(* SinkRegistry::replace swaps the configured set; reserved sinks survive. *)
Reconfigure(S) ==
    /\ editsLeft > 0
    /\ editsLeft' = editsLeft - 1
    /\ Reserved \subseteq S
    /\ registry' = S
    /\ UNCHANGED <<eventVars, tableVars, taskVars, sweep, histVars, faultsLeft,
                   crashesLeft>>

(* A wait ends at zero: the row is due and stays due.                      *)
Countdown(n) == IF n > 0 THEN n - 1 ELSE n

Elapse ==
    /\ age' = [e \in Event |-> IF Live(e) /\ age[e] < BuildGrace
                                 THEN age[e] + 1 ELSE age[e]]
    /\ wait' = [r \in Row |-> Countdown(wait[r])]
    /\ UNCHANGED <<phase, snap, aclip, mclip, st, att, id, nextId, registry,
                   taskVars, sweep, histVars, faultsLeft, runVars>>

-----------------------------------------------------------------------------
(* The dispatcher's tick.                                                  *)

Bug_DeadIsDue == {r \in Row : st[r] \in {"pending", "dead"} /\ wait[r] = 0}

Due == {r \in Row : st[r] = "pending" /\ wait[r] = 0}

(* ORDER BY id LIMIT BatchSize.                                            *)
outbox_pending(B) ==
    /\ B \subseteq Due
    /\ B = Due \/ Cardinality(B) = BatchSize
    /\ Cardinality(B) <= BatchSize
    /\ \A r \in B, q \in Due \ B : id[r[1]] <= id[q[1]]

(* A tick starts only when the previous one has joined all of its groups.  *)
GroupsJoined == \A s \in Sink : pc[s] = "idle"

(* Group the batch by sink.                                                *)
Tick ==
    /\ GroupsJoined
    /\ \E B \in SUBSET Due :
          /\ B # {}
          /\ outbox_pending(B)
          /\ todo' = [s \in Sink |-> {e \in Event : <<e, s>> \in B}]
          /\ pc' = [s \in Sink |-> IF \E e \in Event : <<e, s>> \in B
                                     THEN "next" ELSE "idle"]
    /\ UNCHANGED <<eventVars, tableVars, registry, cur, clip, slow, sweep, histVars,
                   faultsLeft, runVars>>

(* Rows in a group run one after the other in id order.                    *)
NextRow(s) ==
    /\ pc[s] = "next"
    /\ ~slow[s]
    /\ \E e \in todo[s] :
          /\ \A f \in todo[s] : id[e] <= id[f]
          /\ cur' = [cur EXCEPT ![s] = e]
          /\ todo' = [todo EXCEPT ![s] = @ \ {e}]
    /\ pc' = [pc EXCEPT ![s] = "hydrate"]
    /\ clip' = [clip EXCEPT ![s] = "none"]
    /\ UNCHANGED <<eventVars, tableVars, registry, slow, sweep, histVars, faultsLeft,
                   runVars>>

(* The group is done, or out of its tick budget; rows left behind stay     *)
(* pending for the next tick.                                              *)
GroupEnds(s) ==
    /\ pc[s] = "next"
    /\ todo[s] = {} \/ slow[s]
    /\ pc' = [pc EXCEPT ![s] = "idle"]
    /\ cur' = [cur EXCEPT ![s] = NoEvent]
    /\ todo' = [todo EXCEPT ![s] = {}]
    /\ clip' = [clip EXCEPT ![s] = "none"]
    /\ slow' = [slow EXCEPT ![s] = FALSE]
    /\ UNCHANGED <<eventVars, tableVars, registry, sweep, histVars, faultsLeft,
                   runVars>>

-----------------------------------------------------------------------------
(* process_row, one action per await.                                      *)

CurRow(s) == <<cur[s], s>>

Goto(s, label) == pc' = [pc EXCEPT ![s] = label]

Condemn(s) == condemned' = condemned \cup {CurRow(s)}

(* (1) event, (2) policy, (3) sink.  The verdict depends on schedules and  *)
(* cached settings, so any verdict is possible.                            *)
Hydrate(s) ==
    /\ pc[s] = "hydrate"
    /\ \/ /\ Fault
          /\ Goto(s, "retry")
          /\ UNCHANGED condemned
       \/ /\ NoFault
          /\ ~Live(cur[s])
          /\ Goto(s, "dead")
          /\ Condemn(s)
       \/ /\ NoFault
          /\ Live(cur[s])
          /\ Goto(s, "suppress")
          /\ UNCHANGED condemned
       \/ /\ NoFault
          /\ Live(cur[s])
          /\ s \notin registry
          /\ Goto(s, "dead")
          /\ Condemn(s)
       \/ /\ NoFault
          /\ Live(cur[s])
          /\ s \in registry
          /\ Goto(s, IF s \in ClipSink THEN "alertclip" ELSE "deliver")
          /\ UNCHANGED condemned
    /\ UNCHANGED <<eventVars, tableVars, registry, cur, todo, clip, slow, sweep,
                   calls, accepted, firstSaid, deadSaid, runVars>>

Bug_NoLinkGrace(e) == FALSE

within_clip_grace(e) == age[e] < LinkGrace

Bug_GraceNeverEnds(e) == age[e] <= BuildGrace

within_alert_clip_grace(e) == age[e] < BuildGrace

(* (3.5a) A linked alert clip is attached when it is ready and its file is *)
(* there, and awaited while it builds; it rules the motion clip out.       *)
ResolveAlertClip(s) ==
    LET e == cur[s] IN
    /\ pc[s] = "alertclip"
    /\ \/ /\ Fault
          /\ Goto(s, "retry")
          /\ UNCHANGED clip
       \/ /\ NoFault
          /\ aclip[e] = "none"
          /\ Goto(s, "motionlink")
          /\ UNCHANGED clip
       \/ /\ NoFault
          /\ aclip[e] = "ready"
          /\ Goto(s, "deliver")
          /\ \E c \in {"alert", "none"} : clip' = [clip EXCEPT ![s] = c]
       \/ /\ NoFault
          /\ aclip[e] = "failed"
          /\ Goto(s, "deliver")
          /\ UNCHANGED clip
       \/ /\ NoFault
          /\ aclip[e] \in {"building", "stuck"}
          /\ Goto(s, IF within_alert_clip_grace(e) THEN "wait" ELSE "deliver")
          /\ UNCHANGED clip
    /\ UNCHANGED <<eventVars, tableVars, registry, cur, todo, slow, sweep, histVars,
                   runVars>>

(* (3.5b) get_event_clip_id: no link yet is awaited inside the grace       *)
(* window; a missing event row is an error of the lookup.                  *)
ResolveMotionLink(s) ==
    LET e == cur[s] IN
    /\ pc[s] = "motionlink"
    /\ \/ /\ Fault
          /\ Goto(s, "retry")
       \/ /\ NoFault
          /\ ~Live(e)
          /\ Goto(s, "retry")
       \/ /\ NoFault
          /\ Live(e)
          /\ mclip[e] = "none"
          /\ Goto(s, IF within_clip_grace(e) THEN "wait" ELSE "deliver")
       \/ /\ NoFault
          /\ mclip[e] # "none"
          /\ Goto(s, "getclip")
    /\ UNCHANGED <<eventVars, tableVars, registry, cur, todo, clip, slow, sweep,
                   histVars, runVars>>

(* get_clip: a clip still recording is awaited, whatever the alert's age;  *)
(* a closed one is attached if its hot copy is there ("nohot": pointer or  *)
(* file gone), else awaited inside the grace window.                       *)
GetClip(s) ==
    LET e == cur[s] IN
    /\ pc[s] = "getclip"
    /\ \/ /\ Fault
          /\ Goto(s, "retry")
          /\ UNCHANGED clip
       \/ /\ NoFault
          /\ mclip[e] = "none"
          /\ Goto(s, "deliver")
          /\ UNCHANGED clip
       \/ /\ NoFault
          /\ mclip[e] \in {"recording", "orphan"}
          /\ Goto(s, "wait")
          /\ UNCHANGED clip
       \/ /\ NoFault
          /\ mclip[e] = "hot"
          /\ Goto(s, "deliver")
          /\ clip' = [clip EXCEPT ![s] = "motion"]
       \/ /\ NoFault
          /\ mclip[e] = "nohot"
          /\ Goto(s, IF within_clip_grace(e) THEN "wait" ELSE "deliver")
          /\ UNCHANGED clip
    /\ UNCHANGED <<eventVars, tableVars, registry, cur, todo, slow, sweep, histVars,
                   runVars>>

(* FirstFailure is published iff the row was read with attempts = 0.       *)
Bug_ReportEveryFailure(r) == firstSaid' = [firstSaid EXCEPT ![r] = @ + 1]

report_first_failure(r) ==
    firstSaid' = IF att[r] = 0 THEN [firstSaid EXCEPT ![r] = @ + 1] ELSE firstSaid

(* (4) deliver() under its ceiling.  A delivery that times out, or whose   *)
(* answer is lost, may have been taken by the peer; it counts as transient.*)
(* A call can use up the tick budget of the rows left in the group.        *)
Deliver(s) ==
    LET r == CurRow(s) IN
    /\ pc[s] = "deliver"
    /\ calls' = [calls EXCEPT ![r] = @ + 1]
    /\ \/ /\ accepted' = accepted \cup {r}
          /\ Goto(s, "sent")
          /\ UNCHANGED <<firstSaid, condemned>>
       \/ /\ accepted' \in {accepted, accepted \cup {r}}
          /\ report_first_failure(r)
          /\ Goto(s, "retry")
          /\ UNCHANGED condemned
       \/ /\ report_first_failure(r)
          /\ Condemn(s)
          /\ Goto(s, "dead")
          /\ UNCHANGED accepted
    /\ \E b \in BOOLEAN : slow' = [slow EXCEPT ![s] = @ \/ (b /\ todo[s] # {})]
    /\ UNCHANGED <<eventVars, tableVars, registry, cur, todo, clip, sweep, deadSaid,
                   faultsLeft, runVars>>

-----------------------------------------------------------------------------
(* The marks.  Each UPDATE names the row by id alone: it overwrites any    *)
(* status, and finds nothing when the row has been deleted.                *)

SetStatus(r, status) ==
    st' = IF st[r] = "none" THEN st ELSE [st EXCEPT ![r] = status]

BumpAttempts(r) ==
    att' = IF st[r] = "none" THEN att ELSE [att EXCEPT ![r] = @ + 1]

SetWait(r, d) ==
    wait' = IF st[r] = "none" THEN wait ELSE [wait EXCEPT ![r] = d]

outbox_mark_sent(r) ==
    SetStatus(r, "sent") /\ BumpAttempts(r) /\ UNCHANGED wait

outbox_mark_failed(r, delay) ==
    SetStatus(r, "pending") /\ BumpAttempts(r) /\ SetWait(r, delay)

(* A wait is not a delivery attempt, and the row stays one that the query  *)
(* of pending rows finds: it has no status of its own.                     *)
Bug_StatusOfItsOwn(r) ==
    SetStatus(r, "waiting") /\ SetWait(r, PollWait) /\ UNCHANGED att

outbox_mark_waiting(r) ==
    SetStatus(r, "pending") /\ SetWait(r, PollWait) /\ UNCHANGED att

outbox_mark_dead(r) ==
    SetStatus(r, "dead") /\ BumpAttempts(r) /\ SetWait(r, 0)

outbox_mark_suppressed(r) ==
    SetStatus(r, "suppressed") /\ SetWait(r, 0) /\ UNCHANGED att

(* A mark that fails is logged and changes nothing.                        *)
MarkFails == Fault /\ UNCHANGED <<st, att, wait>>

(* backoff_for: None once n attempts exhaust the budget, otherwise         *)
(* min(BASE * 2^(n-1), CAP).                                               *)
Bug_OneMoreAttempt(n) == n > MaxAttempts

Exhausted(n) == n >= MaxAttempts

Delay(n) == LET d == Base * 2^(n - 1) IN IF d \in 0..Cap THEN d ELSE Cap

(* A delivery whose mark is lost leaves the row pending: it goes out again.*)
MarkSent(s) ==
    /\ pc[s] = "sent"
    /\ MarkFails \/ (NoFault /\ outbox_mark_sent(CurRow(s)))
    /\ Goto(s, "reclaim")
    /\ UNCHANGED <<eventVars, id, nextId, registry, cur, todo, clip, slow,
                   sweep, histVars, runVars>>

(* schedule_retry: back to pending with a backoff, or on to mark_dead when *)
(* this failure was the last one allowed.                                  *)
schedule_retry(s) ==
    LET r == CurRow(s)
        n == att[r] + 1
    IN
    /\ pc[s] = "retry"
    /\ \/ /\ Exhausted(n)
          /\ Goto(s, "dead")
          /\ NoFault
          /\ UNCHANGED <<st, att, wait>>
       \/ /\ ~Exhausted(n)
          /\ Goto(s, "next")
          /\ MarkFails \/ (NoFault /\ outbox_mark_failed(r, Delay(n)))
    /\ UNCHANGED <<eventVars, id, nextId, registry, cur, todo, clip, slow, sweep,
                   histVars, runVars>>

(* schedule_clip_wait: polls again without spending an attempt.            *)
schedule_clip_wait(s) ==
    /\ pc[s] = "wait"
    /\ MarkFails \/ (NoFault /\ outbox_mark_waiting(CurRow(s)))
    /\ Goto(s, "next")
    /\ UNCHANGED <<eventVars, id, nextId, registry, cur, todo, clip, slow, sweep,
                   histVars, runVars>>

(* mark_dead: the Dead outcome is published whether or not the write took. *)
mark_dead(s) ==
    LET r == CurRow(s) IN
    /\ pc[s] = "dead"
    /\ MarkFails \/ (NoFault /\ outbox_mark_dead(r))
    /\ deadSaid' = deadSaid \cup {r}
    /\ Goto(s, "reclaim")
    /\ UNCHANGED <<eventVars, id, nextId, registry, cur, todo, clip, slow, sweep,
                   calls, accepted, condemned, firstSaid, runVars>>

MarkSuppressed(s) ==
    /\ pc[s] = "suppress"
    /\ MarkFails \/ (NoFault /\ outbox_mark_suppressed(CurRow(s)))
    /\ Goto(s, "reclaim")
    /\ UNCHANGED <<eventVars, id, nextId, registry, cur, todo, clip, slow,
                   sweep, histVars, runVars>>

Bug_ReclaimAfterFirst(e) == Pending(e) # Sink

Drained(e) == Pending(e) = {}

(* reclaim_snapshot_if_drained: unlink the shared snapshot once no sink of *)
(* the event is pending; a failed lookup leaves it.                        *)
Reclaim(s) ==
    LET e == cur[s] IN
    /\ pc[s] = "reclaim"
    /\ \/ /\ Fault
          /\ UNCHANGED snap
       \/ /\ NoFault
          /\ ~Drained(e)
          /\ UNCHANGED snap
       \/ /\ NoFault
          /\ Drained(e)
          /\ snap' = [snap EXCEPT ![e] = IF @ = "disk" THEN "reclaimed" ELSE @]
    /\ Goto(s, "next")
    /\ UNCHANGED <<phase, age, aclip, mclip, tableVars, registry, cur, todo, clip,
                   slow, sweep, histVars, runVars>>

TaskStep(s) ==
    \/ NextRow(s) \/ GroupEnds(s)
    \/ Hydrate(s) \/ ResolveAlertClip(s) \/ ResolveMotionLink(s) \/ GetClip(s)
    \/ Deliver(s)
    \/ MarkSent(s) \/ schedule_retry(s) \/ schedule_clip_wait(s)
    \/ mark_dead(s) \/ MarkSuppressed(s) \/ Reclaim(s)

-----------------------------------------------------------------------------
(* The engine dies and starts again.  Memory is lost: the tick in flight,  *)
(* the frame being handled, the builds and the open recordings, whose rows *)
(* nothing ever finishes.                                                  *)
Crash ==
    /\ crashesLeft > 0
    /\ crashesLeft' = crashesLeft - 1
    /\ phase' = [e \in Event |-> CASE phase[e] = "snapped" -> "gone"
                                   [] phase[e] \in {"recorded", "armed"} -> "done"
                                   [] OTHER -> phase[e]]
    /\ aclip' = [e \in Event |-> IF aclip[e] = "building" THEN "stuck" ELSE aclip[e]]
    /\ mclip' = [e \in Event |-> IF mclip[e] = "recording" THEN "orphan" ELSE mclip[e]]
    /\ pc' = [s \in Sink |-> "idle"]
    /\ cur' = [s \in Sink |-> NoEvent]
    /\ todo' = [s \in Sink |-> {}]
    /\ clip' = [s \in Sink |-> "none"]
    /\ slow' = [s \in Sink |-> FALSE]
    /\ sweep' = {}
    /\ UNCHANGED <<age, snap, tableVars, registry, histVars, faultsLeft, editsLeft>>

Next ==
    \/ \E e \in Event :
          \/ WriteSnapshot(e)
          \/ \E D \in SUBSET Sink : record_event_and_enqueue(e, D)
          \/ RecordFails(e)
          \/ ArmAlertClip(e) \/ LinkMotionClip(e)
          \/ FinishAlertClip(e) \/ CloseMotionClip(e) \/ CloseFails(e)
          \/ SoftEvict(e) \/ CascadeDelete(e)
          \/ SweepUnlink(e)
    \/ \E r \in Row : PruneTerminal(r)
    \/ SweepList
    \/ \E S \in SUBSET Sink : Reconfigure(S)
    \/ Elapse
    \/ Tick
    \/ \E s \in Sink : TaskStep(s)
    \/ Crash

Spec == Init /\ [][Next]_vars

(* The dispatcher loop ticks every second and every deliver() is bounded   *)
(* by the ceiling, so tick and tasks make progress; time passes; a camera  *)
(* task that lives closes its clip after the rotation bound at the latest. *)
Fairness ==
    /\ WF_vars(Elapse)
    /\ WF_vars(Tick)
    /\ \A s \in Sink : WF_vars(TaskStep(s))
    /\ \A e \in Event : WF_vars(CloseMotionClip(e))

FairSpec == Spec /\ Fairness

-----------------------------------------------------------------------------
(* Properties.                                                             *)

(* A row costs its sink at most MAX_ATTEMPTS deliver() calls, plus one for *)
(* every store failure or crash that kept a call from being counted        *)
(* (backoff.rs: "at most 8 deliver() calls per outbox row"), and no less:  *)
(* it is dead-lettered only when its alert cannot be delivered at all, or  *)
(* after the whole budget went into calls and store failures.  Waiting for *)
(* a clip never spends any of it.                                          *)
AttemptBudget ==
    \A r \in Row :
        /\ calls[r] <= MaxAttempts + Mishaps
        /\ st[r] = "dead" => r \in condemned \/ calls[r] + Mishaps >= MaxAttempts

(* The dispatcher never deletes the shared snapshot of an alert that some  *)
(* sink has still to deliver (reclaim_snapshot_if_drained).                *)
SnapshotOutlivesPending ==
    \A e \in Event : Pending(e) # {} => snap[e] # "reclaimed"

(* What the outcome bus says of a row is so.  One outage is announced as   *)
(* FirstFailure once, plus once per mishap that lost the bumped counter;   *)
(* and a row that waits for a retry has been announced, unless a mishap    *)
(* (a lookup the store refused) counted as its first attempt.              *)
(* Dead is said only of an alert that cannot be delivered, that has used   *)
(* up its budget, or whose event was deleted under the task; and as long   *)
(* as there was no mishap the row it is said of is not pending any more.   *)
OutcomesTrue ==
    \A r \in Row :
        /\ firstSaid[r] <= 1 + Mishaps
        /\ st[r] = "pending" /\ att[r] > 0 => firstSaid[r] + Mishaps > 0
        /\ r \in deadSaid =>
              \/ r \in condemned
              \/ calls[r] + Mishaps >= MaxAttempts
              \/ phase[r[1]] = "gone"
        /\ r \in deadSaid /\ Mishaps = 0 => st[r] \in {"dead", "none"}

(* A clip-attaching sink never gets the alarm bare inside the link grace   *)
(* window while the supervisor may still be about to link the clip, save   *)
(* when its alert clip is settled: failed, or ready and lost from disk.    *)
BareOnlyAfterGrace ==
    \A s \in ClipSink :
        pc[s] = "deliver" /\ clip[s] = "none" /\ age[cur[s]] < LinkGrace =>
            aclip[cur[s]] \in {"failed", "ready"} \/ phase[cur[s]] \in {"done", "gone"}

(* The outbox and its dispatcher implement the delivery contract.          *)
Delivery == INSTANCE AlertDelivery
Contract == Delivery!DSpec

(* Every alert handed to the outbox is settled: delivered, dead-lettered   *)
(* or suppressed, or deleted with its clip; it is never held forever.      *)
EveryAlertSettles ==
    \A r \in Row : st[r] = "pending" ~> st[r] # "pending"

(* supervisor.rs: the snapshot is on disk before any outbox row, "so the   *)
(* cloud-console sink (if enrolled) always finds the file"; the pressure   *)
(* sweep never touches the snapshot of a live event.                       *)
SnapshotNeverSwept ==
    \A e \in Event : Pending(e) # {} => snap[e] # "swept"

(* report_first_failure: FirstFailure is published "iff this deliver()     *)
(* call was the row's first", so every row that has failed was announced.  *)
FirstFailureAlwaysSaid ==
    \A r \in Row : st[r] = "pending" /\ att[r] > 0 => firstSaid[r] > 0

(* dispatcher.rs on the Dead outcome: "The alert will never be delivered". *)
DeadIsFinal ==
    [][\A r \in Row : r \in deadSaid => (r \in accepted' => r \in accepted)]_vars

(* What of it the dispatcher does keep: only a store failure or a crash    *)
(* can bring a dead alert to its sink after all.                           *)
DeadIsFinalUnlessMishap ==
    [][\A r \in Row : r \in deadSaid /\ Mishaps = 0 =>
          (r \in accepted' => r \in accepted)]_vars
=============================================================================
