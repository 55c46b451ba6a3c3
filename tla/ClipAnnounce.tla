---------------------------- MODULE ClipAnnounce ----------------------------
(***************************************************************************)
(* How the cloud learns of a replicated clip:                              *)
(*   - the cold replicator puts the clip into the container of the core    *)
(*     its backend was built for, stamps blob URL, envelope id and the     *)
(*     enrolled core on the row, marks the row cold and sends              *)
(*     clip_replicated; the polling backstop re-sends whatever is not      *)
(*     answered (nexus-engine/src/cold_replicator.rs);                     *)
(*   - the tunnel applies the answers (nexus-engine/src/cloud_tunnel.rs);  *)
(*   - an administrator enrolls, re-enrolls or detaches the box at any     *)
(*     time, while tunnel and backend keep the material they were started  *)
(*     with until the engine restarts (admin_cloud.rs).                    *)
(*                                                                         *)
(* An envelope id is fresh for every stamp, so an answer either names the  *)
(* id that is on the row or matches nothing.  Envelopes therefore carry    *)
(* whether their id is still the one stamped, and only answers to such     *)
(* envelopes are kept.                                                     *)
(*                                                                         *)
(* Time is relative: due[c] counts down to cloud_announce_next_at in units *)
(* of the polling interval.  Of the times that are past only the order     *)
(* counts, because the pending query sorts by it: they are 0, -1, ...      *)
(***************************************************************************)
EXTENDS Integers, FiniteSets

CONSTANTS
    Clip,           \* clips that may be recorded
    AlertClip,      \* those of the alert_clips table, the others are motion clips
    Core,           \* core ids an enrollment may bring
    NoCore,         \* the NULL core id
    NoClip,         \* the replicator has no clip in hand
    Stuck,          \* clips the cloud never answers (camera not in its roster)
    Batch,          \* ANNOUNCE_BATCH
    Base,           \* ANNOUNCE_BACKOFF_BASE
    Cap,            \* ANNOUNCE_BACKOFF_CAP
    MaxShift,       \* the clamp of the backoff's exponent
    MaxLate,        \* bound: overdue times kept apart
    MaxEnroll,      \* bound: enrollments
    MaxDetach,      \* bound: enrollments cleared
    MaxCrashes,     \* bound: engine restarts
    MaxFaults       \* bound: store accesses that fail

ASSUME AnnounceAssumption ==
    /\ AlertClip \subseteq Clip
    /\ Stuck \subseteq Clip
    /\ NoCore \notin Core
    /\ NoClip \notin Clip
    /\ Batch \in Nat \ {0}
    /\ Base \in Nat /\ Cap \in Nat /\ MaxShift \in Nat /\ MaxLate \in Nat
    /\ MaxEnroll \in Nat /\ MaxDetach \in Nat /\ MaxCrashes \in Nat /\ MaxFaults \in Nat

VARIABLES
    started,    \* the enrollment era a clip was recorded in, Unborn before that
    cold,       \* cold_uploaded_at is set
    url,        \* core whose container cloud_blob_url points into
    owner,      \* cloud_announce_core_id
    answer,     \* cloud_announced_at with cloud_announce_error
    att,        \* cloud_announce_attempts, as far as the backoff tells apart
    due,        \* cloud_announce_next_at, relative to now
    era,        \* enrollments so far: the clock of started_at and enrolled_at
    enr,        \* the cloud_enrollment row: core id and upload floor
    tun,        \* core whose material tunnel and blob backend run with
    mixed,      \* history: the box was enrolled as another core than tun
    blobs,      \* <<core, clip>>: what lies in the cores' containers
    conn,       \* a tunnel handle is installed
    msgs,       \* clip_replicated envelopes under way
    acks,       \* answers under way
    listed,     \* <<core, clip>>: rows of the cloud's clip index
    pc, mode, lane, floor, todo, cur,   \* the replicator task
    detaches, faults, crashes           \* what is left of the budgets

rowVars == <<started, cold, url, owner, answer, att, due>>
boxVars == <<era, enr, tun, mixed, blobs>>
netVars == <<conn, msgs, acks, listed>>
repVars == <<pc, mode, lane, floor, todo, cur>>
budgets == <<detaches, faults, crashes>>
vars == <<rowVars, boxVars, netVars, repVars, budgets>>

Unborn == -1
Null == -MaxLate - 1    \* next_at NULL: sorts before every time, and is due

Answer == [clip : Clip, status : {"stored", "rejected"}]
Envelope == [clip : Clip, core : Core, url : Core \cup {NoCore}, live : BOOLEAN]

Init ==
    /\ started = [c \in Clip |-> Unborn]
    /\ cold = [c \in Clip |-> FALSE]
    /\ url = [c \in Clip |-> NoCore]
    /\ owner = [c \in Clip |-> NoCore]
    /\ answer = [c \in Clip |-> "no"]
    /\ att = [c \in Clip |-> 0]
    /\ due = [c \in Clip |-> Null]
    /\ era = 0
    /\ enr = [core |-> NoCore, floor |-> 0]
    /\ tun = NoCore
    /\ mixed = FALSE
    /\ blobs = {}
    /\ conn = FALSE
    /\ msgs = {}
    /\ acks = {}
    /\ listed = {}
    /\ pc = "idle" /\ mode = "up" /\ lane = "motion"
    /\ floor = 0 /\ todo = {} /\ cur = NoClip
    /\ detaches = MaxDetach /\ faults = MaxFaults /\ crashes = MaxCrashes

-----------------------------------------------------------------------------
(* A store access goes through, or fails at the cost of one fault.         *)
NoFault == UNCHANGED faults
Fault == faults > 0 /\ faults' = faults - 1

(* The recorder or the alert-clip builder finishes a hashed clip.          *)
Recorded(c) ==
    /\ started[c] = Unborn
    /\ started' = [started EXCEPT ![c] = era]
    /\ UNCHANGED <<cold, url, owner, answer, att, due, boxVars, netVars, repVars, budgets>>

-----------------------------------------------------------------------------
(* Enrollment, tunnel and engine                                           *)

(* An enrollment replaces the row; keep is --keep-history.  A tunnel that  *)
(* runs keeps the core it was started with.                                *)
set_cloud_enrollment(k, keep) ==
    /\ era < MaxEnroll
    /\ era' = era + 1
    /\ enr' = [core |-> k, floor |-> IF keep THEN 0 ELSE era + 1]
    /\ mixed' = (mixed \/ tun \notin {NoCore, k})
    /\ UNCHANGED <<tun, blobs, rowVars, netVars, repVars, budgets>>

clear_cloud_enrollment ==
    /\ enr.core # NoCore
    /\ detaches > 0
    /\ detaches' = detaches - 1
    /\ enr' = [core |-> NoCore, floor |-> 0]
    /\ UNCHANGED <<era, tun, mixed, blobs, rowVars, netVars, repVars, faults, crashes>>

(* The supervisor finds an enrollment: it builds the blob backend and the  *)
(* tunnel client with its material.                                        *)
wait_for_enrollment ==
    /\ tun = NoCore
    /\ enr.core # NoCore
    /\ tun' = enr.core
    /\ UNCHANGED <<era, enr, mixed, blobs, rowVars, netVars, repVars, budgets>>

Connect ==
    /\ tun # NoCore /\ ~conn
    /\ conn' = TRUE
    /\ UNCHANGED <<msgs, acks, listed, rowVars, boxVars, repVars, budgets>>

Disconnect ==
    /\ conn
    /\ conn' = FALSE
    /\ acks' = {}
    /\ UNCHANGED <<msgs, listed, rowVars, boxVars, repVars, budgets>>

ToIdle ==
    /\ pc' = "idle" /\ mode' = "up" /\ lane' = "motion"
    /\ floor' = 0 /\ todo' = {} /\ cur' = NoClip

(* The engine stops, cleanly or not, and starts again.                     *)
Restart ==
    /\ crashes > 0
    /\ crashes' = crashes - 1
    /\ tun' = NoCore
    /\ conn' = FALSE
    /\ acks' = {}
    /\ ToIdle
    /\ UNCHANGED <<era, enr, mixed, blobs, msgs, listed, rowVars, detaches, faults>>

-----------------------------------------------------------------------------
(* The cloud (external): it stores a clip or rejects it for good.          *)
(* Envelopes and answers get lost, and a transient failure of the cloud,   *)
(* which it does not answer, is such a loss.                               *)

Answered(m, s) ==
    /\ m \in msgs
    /\ msgs' = msgs \ {m}
    /\ acks' = IF m.live THEN acks \cup {[clip |-> m.clip, status |-> s]} ELSE acks

CloudStores(m) ==
    /\ Answered(m, "stored")
    /\ listed' = listed \cup {<<m.core, m.clip>>}
    /\ UNCHANGED <<conn, rowVars, boxVars, repVars, budgets>>

CloudRejects(m) ==
    /\ Answered(m, "rejected")
    /\ UNCHANGED <<conn, listed, rowVars, boxVars, repVars, budgets>>

Lost ==
    /\ \/ \E m \in msgs : msgs' = msgs \ {m} /\ UNCHANGED acks
       \/ \E a \in acks : acks' = acks \ {a} /\ UNCHANGED msgs
    /\ UNCHANGED <<conn, listed, rowVars, boxVars, repVars, budgets>>

(* The tunnel applies an answer to the clip that carries its id; the first *)
(* one stays.                                                              *)
record_clip_announce_ack(a) ==
    /\ conn
    /\ a \in acks
    /\ acks' = acks \ {a}
    /\ answer' = [answer EXCEPT ![a.clip] = IF @ = "no" THEN a.status ELSE @]
    /\ UNCHANGED <<started, cold, url, owner, att, due, conn, msgs, listed, boxVars, repVars,
                   budgets>>

-----------------------------------------------------------------------------
(* The replicator                                                          *)

Goto(l) == pc' = l /\ UNCHANGED <<mode, lane, floor, todo, cur>>
ToNext == pc' = "next" /\ cur' = NoClip /\ UNCHANGED <<mode, lane, floor, todo>>

LaneClips == IF lane = "alert" THEN AlertClip ELSE Clip \ AlertClip

(* tick, with a backend that is healthy: the upload floor is read first.   *)
Tick ==
    /\ pc = "idle"
    /\ tun # NoCore
    /\ \/ NoFault /\ floor' = enr.floor
       \/ Fault /\ floor' = 0
    /\ pc' = "query"
    /\ UNCHANGED <<mode, lane, todo, cur, rowVars, boxVars, netVars, detaches, crashes>>

(* What follows a tick shows who asked for it: the polling backstop goes   *)
(* on to reannounce, also after a tick that returned early.                *)
Backstop ==
    /\ mode = "up"
    /\ \/ pc = "idle"
       \/ pc = "next" /\ todo = {} /\ lane = "alert"
    /\ pc' = "begin" /\ lane' = "motion" /\ floor' = 0
    /\ UNCHANGED <<mode, todo, cur, rowVars, boxVars, netVars, budgets>>

(* Backoff and quarantine of failed uploads keep any of them back.         *)
clips_pending_cold_upload == {c \in LaneClips : started[c] >= floor /\ ~cold[c]}

UploadQuery ==
    /\ pc = "query" /\ mode = "up"
    /\ todo' \in SUBSET clips_pending_cold_upload
    /\ Cardinality(todo') <= Batch
    /\ pc' = "next"
    /\ UNCHANGED <<mode, lane, floor, cur, rowVars, boxVars, netVars, budgets>>

UploadNext(c) ==
    /\ pc = "next" /\ mode = "up"
    /\ c \in todo
    /\ todo' = todo \ {c}
    /\ cur' = c
    /\ pc' = "put"
    /\ UNCHANGED <<mode, lane, floor, rowVars, boxVars, netVars, budgets>>

(* Mutant: a copy found in the container is only pointed at.               *)
PutOrPoint ==
    /\ pc = "put"
    /\ \/ /\ <<tun, cur>> \in blobs
          /\ Goto("mark")
          /\ UNCHANGED blobs
       \/ /\ <<tun, cur>> \notin blobs
          /\ blobs' = blobs \cup {<<tun, cur>>}
          /\ Goto("stamp")
    /\ UNCHANGED <<era, enr, tun, mixed, rowVars, netVars, budgets>>

(* The clip is put even if a copy is already there, because only a put     *)
(* yields the URL.  A put reported as failed may have gone through.        *)
Put ==
    /\ pc = "put"
    /\ \/ blobs' = blobs \cup {<<tun, cur>>} /\ (Goto("stamp") \/ ToNext)
       \/ UNCHANGED blobs /\ ToNext
    /\ UNCHANGED <<era, enr, tun, mixed, rowVars, netVars, budgets>>

(* URL, a fresh envelope id and the enrolled core go on the row; what was  *)
(* under way for the clip answers an id that is no longer there.           *)
stamp_clip_announce(u) ==
    /\ url' = [url EXCEPT ![cur] = u]
    /\ owner' = [owner EXCEPT ![cur] = enr.core]
    /\ msgs' = {[m EXCEPT !.live = m.live /\ m.clip # cur] : m \in msgs}
    /\ acks' = {a \in acks : a.clip # cur}
    /\ UNCHANGED <<started, cold, answer, att, due, conn, listed>>

UploadStamp ==
    /\ pc = "stamp" /\ mode = "up"
    /\ \/ NoFault /\ stamp_clip_announce(tun) /\ Goto("mark")
       \/ Fault /\ ToNext /\ UNCHANGED <<rowVars, netVars>>
    /\ UNCHANGED <<boxVars, detaches, crashes>>

mark_cold_replicated ==
    /\ pc = "mark"
    /\ \/ NoFault /\ cold' = [cold EXCEPT ![cur] = TRUE] /\ Goto("send")
       \/ Fault /\ ToNext /\ UNCHANGED cold
    /\ UNCHANGED <<started, url, owner, answer, att, due, boxVars, netVars, detaches, crashes>>

(* The envelope leaves through the tunnel that is up; one of a stuck clip  *)
(* has no effect.  A send that fails ends a pass of re-announcements, and  *)
(* changes nothing on the row.                                             *)
SendOk(c) ==
    /\ pc = "send" /\ cur = c
    /\ conn
    /\ msgs' = msgs \cup {m \in {[clip |-> cur, core |-> tun, url |-> url[cur], live |-> TRUE]} :
                            m.clip \notin Stuck}
    /\ Goto("record")
    /\ UNCHANGED <<conn, acks, listed, rowVars, boxVars, budgets>>

SendFails ==
    /\ pc = "send"
    /\ IF mode = "re" THEN ToIdle ELSE ToNext
    /\ UNCHANGED <<rowVars, boxVars, netVars, budgets>>

(* Mutant: the backoff keeps doubling.                                     *)
DelayUncapped(n) == Base * 2 ^ (n + 1)

announce_next_at(n) == LET d == Base * 2 ^ n IN IF d \in 0 .. Cap THEN d ELSE Cap

(* Only a send that went out counts, and holds the clip back.              *)
record_clip_announce_sent ==
    /\ pc = "record"
    /\ \/ /\ NoFault
          /\ att' = [att EXCEPT ![cur] = IF @ < MaxShift THEN @ + 1 ELSE @]
          /\ due' = [due EXCEPT ![cur] = announce_next_at(IF mode = "re" THEN att[cur] ELSE 0)]
       \/ Fault /\ UNCHANGED <<att, due>>
    /\ ToNext
    /\ UNCHANGED <<started, cold, url, owner, answer, boxVars, netVars, detaches, crashes>>

(* Motion clips, then alert clips.                                         *)
LaneEnds ==
    /\ pc = "next" /\ todo = {}
    /\ \/ /\ lane = "motion"
          /\ lane' = "alert" /\ pc' = "query"
          /\ UNCHANGED <<mode, floor, todo, cur>>
       \/ lane = "alert" /\ ToIdle
    /\ UNCHANGED <<rowVars, boxVars, netVars, budgets>>

-----------------------------------------------------------------------------
(* reannounce: not without a tunnel; the floor is that of the enrollment.  *)
ReBegin ==
    /\ pc = "begin"
    /\ \/ ~conn /\ ToIdle /\ NoFault
       \/ /\ conn
          /\ \/ NoFault /\ floor' = enr.floor
             \/ Fault /\ floor' = 0
          /\ pc' = "query" /\ mode' = "re"
          /\ UNCHANGED <<lane, todo, cur>>
    /\ UNCHANGED <<rowVars, boxVars, netVars, detaches, crashes>>

(* Mutant: whoever is enrolled, every clip that waits is taken.            *)
PendingOfAnyone ==
    {c \in LaneClips : /\ url[c] # NoCore /\ answer[c] = "no" /\ cold[c]
                       /\ started[c] >= floor /\ due[c] <= 0}

clips_pending_cloud_announce ==
    {c \in LaneClips :
        /\ url[c] # NoCore
        /\ answer[c] = "no"
        /\ cold[c]
        /\ enr.core # NoCore /\ owner[c] = enr.core
        /\ started[c] >= floor
        /\ due[c] <= 0}

Smaller(m, n) == IF m < n THEN m ELSE n

(* Mutant: the order of the rows is left to the database.                  *)
AnyOf(P) == {S \in SUBSET P : Cardinality(S) = Smaller(Batch, Cardinality(P))}

(* ORDER BY cloud_announce_next_at LIMIT ANNOUNCE_BATCH.                   *)
EarliestOf(P) ==
    {S \in SUBSET P : /\ Cardinality(S) = Smaller(Batch, Cardinality(P))
                      /\ \A c \in S, d \in P \ S : due[c] <= due[d]}

ReQuery ==
    /\ pc = "query" /\ mode = "re"
    /\ \/ NoFault /\ todo' \in EarliestOf(clips_pending_cloud_announce)
       \/ Fault /\ todo' = {}
    /\ pc' = "next"
    /\ UNCHANGED <<mode, lane, floor, cur, rowVars, boxVars, netVars, detaches, crashes>>

ReNext(c) ==
    /\ pc = "next" /\ mode = "re"
    /\ c \in todo
    /\ \A d \in todo : due[c] <= due[d]
    /\ todo' = todo \ {c}
    /\ cur' = c
    /\ pc' = "stamp"
    /\ UNCHANGED <<mode, lane, floor, rowVars, boxVars, netVars, budgets>>

ReStamp ==
    /\ pc = "stamp" /\ mode = "re"
    /\ \/ NoFault /\ stamp_clip_announce(url[cur]) /\ Goto("send")
       \/ Fault /\ ToNext /\ UNCHANGED <<rowVars, netVars>>
    /\ UNCHANGED <<boxVars, detaches, crashes>>

-----------------------------------------------------------------------------
Arrives == \E c \in Clip : due[c] = 1

(* A clip that becomes due takes its place behind the overdue ones.        *)
Later(n) ==
    IF n > 0 THEN n - 1 ELSE IF Arrives /\ n > -MaxLate THEN n - 1 ELSE n

Elapse ==
    /\ due' = [c \in Clip |-> Later(due[c])]
    /\ due' # due
    /\ UNCHANGED <<started, cold, url, owner, answer, att, boxVars, netVars, repVars, budgets>>

Replicator ==
    \/ Tick \/ Backstop
    \/ UploadQuery \/ Put \/ UploadStamp \/ mark_cold_replicated
    \/ \E c \in Clip : UploadNext(c) \/ SendOk(c) \/ ReNext(c)
    \/ SendFails \/ record_clip_announce_sent \/ LaneEnds
    \/ ReBegin \/ ReQuery \/ ReStamp

Cloud ==
    \/ \E m \in msgs : CloudStores(m) \/ CloudRejects(m)
    \/ Lost

Box ==
    \/ \E c \in Clip : Recorded(c)
    \/ \E k \in Core, keep \in BOOLEAN : set_cloud_enrollment(k, keep)
    \/ clear_cloud_enrollment
    \/ wait_for_enrollment
    \/ Connect
    \/ Disconnect
    \/ Restart
    \/ \E a \in acks : record_clip_announce_ack(a)
    \/ Elapse

Next == Replicator \/ Cloud \/ Box

Spec == Init /\ [][Next]_vars

(* The task and the clock go on; the interval's arm is polled first, so    *)
(* the backstop comes round; of infinitely many sends, receptions and      *)
(* answers some go through.                                                *)
Fairness ==
    /\ WF_vars(Replicator)
    /\ SF_vars(Backstop)
    /\ SF_vars(Elapse)
    /\ WF_vars(wait_for_enrollment)
    /\ \A c \in Clip :
        /\ SF_vars(SendOk(c))
        /\ SF_vars(\E m \in msgs : m.clip = c /\ m.live
                                   /\ (CloudStores(m) \/ CloudRejects(m)))
        /\ SF_vars(\E a \in acks : a.clip = c /\ record_clip_announce_ack(a))

FairSpec == Spec /\ Fairness

-----------------------------------------------------------------------------
(* Rows, tunnel, envelopes and replicator hold values of their types.      *)
TypeOK ==
    /\ started \in [Clip -> {Unborn} \cup 0 .. MaxEnroll]
    /\ cold \in [Clip -> BOOLEAN]
    /\ url \in [Clip -> Core \cup {NoCore}]
    /\ owner \in [Clip -> Core \cup {NoCore}]
    /\ answer \in [Clip -> {"no", "stored", "rejected"}]
    /\ att \in [Clip -> 0 .. MaxShift]
    /\ due \in [Clip -> Null .. Cap]
    /\ era \in 0 .. MaxEnroll
    /\ enr \in [core : Core \cup {NoCore}, floor : 0 .. MaxEnroll]
    /\ tun \in Core \cup {NoCore}
    /\ mixed \in BOOLEAN
    /\ blobs \subseteq Core \X Clip
    /\ conn \in BOOLEAN
    /\ msgs \subseteq Envelope
    /\ acks \subseteq Answer
    /\ listed \subseteq Core \X Clip
    /\ pc \in {"idle", "query", "next", "put", "stamp", "mark", "send", "record", "begin"}
    /\ mode \in {"up", "re"}
    /\ lane \in {"motion", "alert"}
    /\ floor \in 0 .. MaxEnroll
    /\ todo \subseteq Clip
    /\ cur \in Clip \cup {NoClip}
    /\ detaches \in 0 .. MaxDetach
    /\ faults \in 0 .. MaxFaults
    /\ crashes \in 0 .. MaxCrashes

(* No cold clip is lost to the cloud: its row carries the URL of a blob    *)
(* that is in the container the URL names, whatever failed or died between *)
(* put, stamp and mark (#759: a blob with no cloud row).                   *)
ColdIsAnnounceable ==
    \A c \in Clip : cold[c] => url[c] # NoCore /\ <<url[c], c>> \in blobs

(* The cloud plays a clip from the container of the core it is listed      *)
(* under.  As long as nobody enrolls the box as another core under a       *)
(* running tunnel, every listed clip is there, and a clip whose row says   *)
(* it was stored, and which is therefore never announced again, is listed  *)
(* where its URL points: no restart, late envelope, late answer or         *)
(* re-announcement of an earlier backlog leaves one that cannot be played. *)
ListedPlays ==
    ~mixed =>
        /\ listed \subseteq blobs
        /\ \A c \in Clip : answer[c] = "stored" => <<url[c], c>> \in listed

(* reannounce: "Only clips uploaded under the current enrollment's core    *)
(* are re-sent, a prior enrollment's never": no envelope carries a URL of  *)
(* another core's container.                                               *)
PriorNeverResent == \A m \in msgs : m.url = m.core

(* A clip that waits for an answer of the core the tunnel runs for does    *)
(* not wait for ever, even behind clips the cloud never answers and with a *)
(* batch they could fill.                                                  *)
Waits(c) ==
    /\ cold[c] /\ url[c] # NoCore /\ answer[c] = "no"
    /\ tun # NoCore /\ tun = enr.core /\ owner[c] = enr.core
    /\ started[c] >= enr.floor

NeverStarved == \A c \in Clip \ Stuck : <>[]conn => []<>~Waits(c)
=============================================================================
