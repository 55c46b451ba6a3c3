------------------------- MODULE ClipAnnounceProofs -------------------------
(***************************************************************************)
(* Proofs about ClipAnnounce, for all clips, cores, batch sizes, backoffs  *)
(* and bounds.                                                             *)
(***************************************************************************)
EXTENDS ClipAnnounce, TLAPS

(* The parts of TypeOK.                                                    *)
RowsOK ==
    /\ started \in [Clip -> {Unborn} \cup 0 .. MaxEnroll]
    /\ cold \in [Clip -> BOOLEAN]
    /\ url \in [Clip -> Core \cup {NoCore}]
    /\ owner \in [Clip -> Core \cup {NoCore}]
    /\ answer \in [Clip -> {"no", "stored", "rejected"}]
    /\ att \in [Clip -> 0 .. MaxShift]
    /\ due \in [Clip -> Null .. Cap]

BoxOK ==
    /\ era \in 0 .. MaxEnroll
    /\ enr \in [core : Core \cup {NoCore}, floor : 0 .. MaxEnroll]
    /\ tun \in Core \cup {NoCore}
    /\ mixed \in BOOLEAN
    /\ blobs \subseteq Core \X Clip

NetOK ==
    /\ conn \in BOOLEAN
    /\ msgs \subseteq Envelope
    /\ acks \subseteq Answer
    /\ listed \subseteq Core \X Clip

RepOK ==
    /\ pc \in {"idle", "query", "next", "put", "stamp", "mark", "send", "record", "begin"}
    /\ mode \in {"up", "re"}
    /\ lane \in {"motion", "alert"}
    /\ floor \in 0 .. MaxEnroll
    /\ todo \subseteq Clip
    /\ cur \in Clip \cup {NoClip}

BudgetsOK ==
    /\ detaches \in 0 .. MaxDetach
    /\ faults \in 0 .. MaxFaults
    /\ crashes \in 0 .. MaxCrashes

(* Where the replicator holds clips, and that it works only with a backend.*)
TaskInv ==
    /\ pc \in {"idle", "begin", "query"} => todo = {}
    /\ pc \in {"idle", "begin", "query", "next"} <=> cur = NoClip
    /\ pc \in {"idle", "begin", "put", "mark"} => mode = "up"
    /\ pc \notin {"idle", "begin"} => tun # NoCore
    /\ conn => tun # NoCore

(* A URL on a row is that of a blob, and a cold row has one.               *)
UrlInv ==
    /\ \A c \in Clip : url[c] # NoCore => <<url[c], c>> \in blobs
    /\ \A c \in Clip : cold[c] => url[c] # NoCore

(* A clip about to be announced lies in the container of the tunnel's      *)
(* core, unless the box was enrolled as another core meanwhile.            *)
Sendable(c) == url[c] # NoCore /\ (~mixed => url[c] = tun)

HandInv ==
    /\ pc = "stamp" /\ mode = "up" => <<tun, cur>> \in blobs
    /\ pc = "mark" => url[cur] = tun
    /\ pc = "send" => Sendable(cur)
    /\ mode = "re" => \A c \in Clip : c \in todo \/ c = cur => Sendable(c)

(* Without such an enrollment the tunnel runs for the enrolled core, a     *)
(* row's owner is the core of its container, and what the cloud is told of *)
(* or has listed is a blob.                                                *)
CoreInv ==
    ~mixed =>
      /\ enr.core # NoCore /\ tun # NoCore => tun = enr.core
      /\ \A c \in Clip : owner[c] # NoCore => url[c] = owner[c]
      /\ \A m \in msgs : <<m.core, m.clip>> \in blobs
      /\ listed \subseteq blobs

Types == RowsOK /\ BoxOK /\ NetOK /\ RepOK /\ BudgetsOK
IInv == Types /\ TaskInv /\ UrlInv /\ HandInv /\ CoreInv

LEMMA Constants ==
    /\ NoCore \notin Core /\ NoClip \notin Clip /\ AlertClip \subseteq Clip
    /\ Base \in Nat /\ Cap \in Nat /\ MaxShift \in Nat /\ MaxLate \in Nat
    /\ MaxEnroll \in Nat /\ MaxDetach \in Nat /\ MaxCrashes \in Nat /\ MaxFaults \in Nat
  BY AnnounceAssumption

LEMMA InitIInv == Init => IInv
  <1> SUFFICES ASSUME Init PROVE IInv
    OBVIOUS
  <1> USE Constants DEF Init
  <1>1. RowsOK
    BY DEF RowsOK, Unborn, Null
  <1>2. BoxOK /\ NetOK
    <2>1. 0 \in 0 .. MaxEnroll
      OBVIOUS
    <2>2. enr \in [core : Core \cup {NoCore}, floor : 0 .. MaxEnroll]
      BY <2>1
    <2> QED
      BY <2>1, <2>2 DEF BoxOK, NetOK
  <1>3. RepOK /\ BudgetsOK
    BY DEF RepOK, BudgetsOK
  <1>4. TaskInv /\ UrlInv /\ HandInv /\ CoreInv
    BY DEF TaskInv, UrlInv, HandInv, CoreInv
  <1> QED
    BY <1>1, <1>2, <1>3, <1>4 DEF IInv, Types

(* A stamp changes no more of the envelopes under way than whether their   *)
(* ids are still on the row.                                               *)
LEMMA Restamped ==
  ASSUME msgs \subseteq Envelope, msgs' = {[m EXCEPT !.live = m.live /\ m.clip # cur] : m \in msgs}
  PROVE  /\ msgs' \subseteq Envelope
         /\ \A n \in msgs' : \E m \in msgs : n.core = m.core /\ n.clip = m.clip
  <1>1. ASSUME NEW m \in Envelope
        PROVE  LET n == [m EXCEPT !.live = m.live /\ m.clip # cur]
               IN  n \in Envelope /\ n.core = m.core /\ n.clip = m.clip
    BY DEF Envelope
  <1>2. ASSUME NEW n \in msgs'
        PROVE  n \in Envelope /\ \E m \in msgs : n.core = m.core /\ n.clip = m.clip
    <2>1. PICK m \in msgs : n = [m EXCEPT !.live = m.live /\ m.clip # cur]
      OBVIOUS
    <2>2. m \in Envelope
      OBVIOUS
    <2> QED
      BY <1>1, <2>1, <2>2
  <1> QED
    BY <1>2

-----------------------------------------------------------------------------
(* Enrollment, tunnel, engine and cloud.                                   *)

LEMMA RecordedStep == ASSUME IInv, NEW c \in Clip, Recorded(c) PROVE IInv'
  <1> USE Constants DEF Recorded, Unborn, rowVars, boxVars, netVars, repVars, budgets
  <1>1. Types'
    BY DEF IInv, Types, RowsOK, BoxOK, NetOK, RepOK, BudgetsOK
  <1>2. TaskInv' /\ UrlInv' /\ HandInv' /\ CoreInv'
    BY DEF IInv, TaskInv, UrlInv, HandInv, Sendable, CoreInv
  <1> QED
    BY <1>1, <1>2 DEF IInv, Types

LEMMA SetCloudEnrollmentStep ==
  ASSUME IInv, NEW k \in Core, NEW keep \in BOOLEAN, set_cloud_enrollment(k, keep)
  PROVE  IInv'
  <1> USE Constants DEF set_cloud_enrollment, rowVars, boxVars, netVars, repVars, budgets
  <1>1. Types'
    BY DEF IInv, Types, RowsOK, BoxOK, NetOK, RepOK, BudgetsOK
  <1>2. HandInv'
    BY DEF IInv, HandInv, Sendable
  <1>3. CoreInv'
    BY DEF IInv, CoreInv
  <1>4. TaskInv' /\ UrlInv'
    BY DEF IInv, TaskInv, UrlInv
  <1> QED
    BY <1>1, <1>2, <1>3, <1>4 DEF IInv, Types

LEMMA ClearCloudEnrollmentStep == ASSUME IInv, clear_cloud_enrollment PROVE IInv'
  <1> USE Constants DEF clear_cloud_enrollment, rowVars, boxVars, netVars, repVars, budgets
  <1>1. Types'
    BY DEF IInv, Types, RowsOK, BoxOK, NetOK, RepOK, BudgetsOK
  <1>2. CoreInv'
    BY DEF IInv, CoreInv
  <1>3. TaskInv' /\ UrlInv' /\ HandInv'
    BY DEF IInv, TaskInv, UrlInv, HandInv, Sendable
  <1> QED
    BY <1>1, <1>2, <1>3 DEF IInv, Types

LEMMA WaitForEnrollmentStep == ASSUME IInv, wait_for_enrollment PROVE IInv'
  <1> USE Constants DEF wait_for_enrollment, rowVars, boxVars, netVars, repVars, budgets
  <1>1. Types'
    BY DEF IInv, Types, RowsOK, BoxOK, NetOK, RepOK, BudgetsOK
  <1>2. HandInv'
    BY DEF IInv, HandInv, TaskInv
  <1>3. CoreInv'
    BY DEF IInv, CoreInv
  <1>4. TaskInv' /\ UrlInv'
    BY DEF IInv, TaskInv, UrlInv
  <1> QED
    BY <1>1, <1>2, <1>3, <1>4 DEF IInv, Types

LEMMA ConnectStep == ASSUME IInv, Connect PROVE IInv'
  <1> USE Constants DEF Connect, rowVars, boxVars, netVars, repVars, budgets
  <1>1. Types'
    BY DEF IInv, Types, RowsOK, BoxOK, NetOK, RepOK, BudgetsOK
  <1>2. TaskInv'
    BY DEF IInv, TaskInv
  <1>3. UrlInv' /\ HandInv' /\ CoreInv'
    BY DEF IInv, UrlInv, HandInv, Sendable, CoreInv
  <1> QED
    BY <1>1, <1>2, <1>3 DEF IInv, Types

LEMMA DisconnectStep == ASSUME IInv, Disconnect PROVE IInv'
  <1> USE Constants DEF Disconnect, rowVars, boxVars, netVars, repVars, budgets
  <1>1. Types'
    BY DEF IInv, Types, RowsOK, BoxOK, NetOK, RepOK, BudgetsOK
  <1>2. TaskInv' /\ UrlInv' /\ HandInv' /\ CoreInv'
    BY DEF IInv, TaskInv, UrlInv, HandInv, Sendable, CoreInv
  <1> QED
    BY <1>1, <1>2 DEF IInv, Types

LEMMA RestartStep == ASSUME IInv, Restart PROVE IInv'
  <1> USE Constants DEF Restart, ToIdle, rowVars, boxVars, netVars, repVars, budgets
  <1>1. RowsOK' /\ BoxOK' /\ NetOK'
    BY DEF IInv, Types, RowsOK, BoxOK, NetOK
  <1>2. RepOK' /\ BudgetsOK'
    BY DEF IInv, Types, RepOK, BudgetsOK
  <1>3. TaskInv'
    BY DEF IInv, TaskInv
  <1>4. HandInv'
    BY DEF IInv, HandInv
  <1>5. CoreInv'
    BY DEF IInv, CoreInv
  <1>6. UrlInv'
    BY DEF IInv, UrlInv
  <1> QED
    BY <1>1, <1>2, <1>3, <1>4, <1>5, <1>6 DEF IInv, Types

LEMMA CloudStoresStep == ASSUME IInv, NEW m \in msgs, CloudStores(m) PROVE IInv'
  <1> USE Constants DEF CloudStores, Answered, Envelope, Answer, rowVars, boxVars, netVars,
          repVars, budgets
  <1>1. Types'
    BY DEF IInv, Types, RowsOK, BoxOK, NetOK, RepOK, BudgetsOK
  <1>2. CoreInv'
    BY DEF IInv, CoreInv
  <1>3. TaskInv' /\ UrlInv' /\ HandInv'
    BY DEF IInv, TaskInv, UrlInv, HandInv, Sendable
  <1> QED
    BY <1>1, <1>2, <1>3 DEF IInv, Types

LEMMA CloudRejectsStep == ASSUME IInv, NEW m \in msgs, CloudRejects(m) PROVE IInv'
  <1> USE Constants DEF CloudRejects, Answered, Envelope, Answer, rowVars, boxVars, netVars,
          repVars, budgets
  <1>1. Types'
    BY DEF IInv, Types, RowsOK, BoxOK, NetOK, RepOK, BudgetsOK
  <1>2. CoreInv'
    BY DEF IInv, CoreInv
  <1>3. TaskInv' /\ UrlInv' /\ HandInv'
    BY DEF IInv, TaskInv, UrlInv, HandInv, Sendable
  <1> QED
    BY <1>1, <1>2, <1>3 DEF IInv, Types

LEMMA LostStep == ASSUME IInv, Lost PROVE IInv'
  <1> USE Constants DEF Lost, rowVars, boxVars, netVars, repVars, budgets
  <1>1. Types'
    BY DEF IInv, Types, RowsOK, BoxOK, NetOK, RepOK, BudgetsOK
  <1>2. CoreInv'
    BY DEF IInv, CoreInv
  <1>3. TaskInv' /\ UrlInv' /\ HandInv'
    BY DEF IInv, TaskInv, UrlInv, HandInv, Sendable
  <1> QED
    BY <1>1, <1>2, <1>3 DEF IInv, Types

LEMMA AckStep == ASSUME IInv, NEW a \in acks, record_clip_announce_ack(a) PROVE IInv'
  <1> USE Constants DEF record_clip_announce_ack, Answer, rowVars, boxVars, netVars, repVars,
          budgets
  <1>1. Types'
    BY DEF IInv, Types, RowsOK, NetOK, BoxOK, RepOK, BudgetsOK
  <1>2. TaskInv' /\ UrlInv' /\ HandInv' /\ CoreInv'
    BY DEF IInv, TaskInv, UrlInv, HandInv, Sendable, CoreInv
  <1> QED
    BY <1>1, <1>2 DEF IInv, Types

-----------------------------------------------------------------------------
(* The replicator.                                                         *)

LEMMA TickStep == ASSUME IInv, Tick PROVE IInv'
  <1> USE Constants DEF Tick, NoFault, Fault, rowVars, boxVars, netVars, repVars, budgets
  <1>1. Types'
    BY DEF IInv, Types, RowsOK, BoxOK, NetOK, RepOK, BudgetsOK
  <1>2. TaskInv'
    BY DEF IInv, TaskInv
  <1>3. UrlInv' /\ HandInv' /\ CoreInv'
    BY DEF IInv, UrlInv, TaskInv, HandInv, CoreInv
  <1> QED
    BY <1>1, <1>2, <1>3 DEF IInv, Types

LEMMA BackstopStep == ASSUME IInv, Backstop PROVE IInv'
  <1> USE Constants DEF Backstop, rowVars, boxVars, netVars, repVars, budgets
  <1>1. Types'
    BY DEF IInv, Types, RowsOK, BoxOK, NetOK, RepOK, BudgetsOK
  <1>2. TaskInv'
    BY DEF IInv, TaskInv
  <1>3. UrlInv' /\ HandInv' /\ CoreInv'
    BY DEF IInv, UrlInv, HandInv, CoreInv
  <1> QED
    BY <1>1, <1>2, <1>3 DEF IInv, Types

LEMMA UploadQueryStep == ASSUME IInv, UploadQuery PROVE IInv'
  <1> USE Constants DEF UploadQuery, clips_pending_cold_upload, LaneClips, rowVars, boxVars,
          netVars, repVars, budgets
  <1>1. Types'
    BY DEF IInv, Types, RowsOK, BoxOK, NetOK, RepOK, BudgetsOK
  <1>2. TaskInv'
    BY DEF IInv, TaskInv
  <1>3. UrlInv' /\ HandInv' /\ CoreInv'
    BY DEF IInv, UrlInv, HandInv, CoreInv
  <1> QED
    BY <1>1, <1>2, <1>3 DEF IInv, Types

LEMMA UploadNextStep == ASSUME IInv, NEW c \in Clip, UploadNext(c) PROVE IInv'
  <1> USE Constants DEF UploadNext, rowVars, boxVars, netVars, repVars, budgets
  <1>1. Types'
    BY DEF IInv, Types, RowsOK, BoxOK, NetOK, RepOK, BudgetsOK
  <1>2. TaskInv'
    BY DEF IInv, TaskInv
  <1>3. HandInv'
    BY DEF IInv, HandInv
  <1>4. UrlInv' /\ CoreInv'
    BY DEF IInv, UrlInv, CoreInv
  <1> QED
    BY <1>1, <1>2, <1>3, <1>4 DEF IInv, Types

LEMMA PutStep == ASSUME IInv, Put PROVE IInv'
  <1> USE Constants DEF Put, Goto, ToNext, rowVars, boxVars, netVars, repVars, budgets
  <1>1. Types'
    BY DEF IInv, Types, RowsOK, BoxOK, RepOK, TaskInv, NetOK, BudgetsOK
  <1>2. TaskInv'
    BY DEF IInv, TaskInv
  <1>3. UrlInv'
    BY DEF IInv, UrlInv
  <1>4. HandInv'
    BY DEF IInv, HandInv, TaskInv
  <1>5. CoreInv'
    BY DEF IInv, CoreInv
  <1> QED
    BY <1>1, <1>2, <1>3, <1>4, <1>5 DEF IInv, Types

LEMMA UploadStampStep == ASSUME IInv, UploadStamp PROVE IInv'
  <1> USE Constants DEF UploadStamp, NoFault, Fault, Goto, ToNext, stamp_clip_announce, rowVars,
          boxVars, netVars, repVars, budgets
  <1>1. Types'
    BY Restamped DEF IInv, Types, RowsOK, BoxOK, RepOK, NetOK, BudgetsOK
  <1>2. TaskInv'
    BY DEF IInv, TaskInv
  <1>3. UrlInv'
    BY DEF IInv, Types, UrlInv, HandInv, RowsOK, BoxOK
  <1>4. HandInv'
    BY DEF IInv, Types, HandInv, RowsOK, BoxOK
  <1>5. CoreInv'
    <2>1. CASE UNCHANGED <<rowVars, netVars>>
      BY <2>1 DEF IInv, CoreInv
    <2>2. CASE stamp_clip_announce(tun)
      <3>1. \A n \in msgs' : \E m \in msgs : n.core = m.core /\ n.clip = m.clip
        BY <2>2, Restamped DEF IInv, Types, NetOK
      <3>2. ~mixed => \A c \in Clip : owner'[c] # NoCore => url'[c] = owner'[c]
        BY <2>2 DEF IInv, Types, RowsOK, BoxOK, RepOK, TaskInv, CoreInv, HandInv, Sendable
      <3> QED
        BY <2>2, <3>1, <3>2 DEF IInv, CoreInv
    <2> QED
      BY <2>1, <2>2
  <1> QED
    BY <1>1, <1>2, <1>3, <1>4, <1>5 DEF IInv, Types

LEMMA MarkStep == ASSUME IInv, mark_cold_replicated PROVE IInv'
  <1> USE Constants DEF mark_cold_replicated, NoFault, Fault, Goto, ToNext, rowVars, boxVars,
          netVars, repVars, budgets
  <1>1. RowsOK'
    BY DEF IInv, Types, RowsOK
  <1>2. BoxOK' /\ NetOK' /\ RepOK' /\ BudgetsOK'
    BY DEF IInv, Types, BoxOK, NetOK, RepOK, BudgetsOK
  <1>3. TaskInv'
    BY DEF IInv, TaskInv
  <1>4. UrlInv'
    BY DEF IInv, Types, UrlInv, TaskInv, HandInv, RowsOK
  <1>5. HandInv'
    BY DEF IInv, HandInv, Sendable, TaskInv
  <1>6. CoreInv'
    BY DEF IInv, CoreInv
  <1> QED
    BY <1>1, <1>2, <1>3, <1>4, <1>5, <1>6 DEF IInv, Types

LEMMA SendOkStep == ASSUME IInv, NEW c \in Clip, SendOk(c) PROVE IInv'
  <1> USE Constants DEF SendOk, Goto, Envelope, rowVars, boxVars, netVars, repVars, budgets
  <1>1. RowsOK' /\ BoxOK' /\ RepOK' /\ BudgetsOK'
    BY DEF IInv, Types, RowsOK, BoxOK, RepOK, BudgetsOK
  <1>2. NetOK'
    <2>1. cur \in Clip /\ tun \in Core /\ url[cur] \in Core \cup {NoCore}
      BY DEF IInv, Types, BoxOK, RowsOK, RepOK, TaskInv
    <2>2. [clip |-> cur, core |-> tun, url |-> url[cur], live |-> TRUE] \in Envelope
      BY <2>1 DEF Envelope
    <2> QED
      BY <2>2 DEF IInv, Types, NetOK
  <1>3. TaskInv'
    BY DEF IInv, TaskInv
  <1>4. HandInv'
    BY DEF IInv, HandInv, Sendable
  <1>5. CoreInv'
    BY DEF IInv, CoreInv, HandInv, Sendable, UrlInv
  <1>6. UrlInv'
    BY DEF IInv, UrlInv
  <1> QED
    BY <1>1, <1>2, <1>3, <1>4, <1>5, <1>6 DEF IInv, Types

LEMMA SendFailsStep == ASSUME IInv, SendFails PROVE IInv'
  <1> USE Constants DEF SendFails, ToIdle, ToNext, rowVars, boxVars, netVars, repVars, budgets
  <1>1. Types'
    BY DEF IInv, Types, RowsOK, BoxOK, NetOK, RepOK, BudgetsOK
  <1>2. TaskInv'
    BY DEF IInv, TaskInv
  <1>3. HandInv'
    BY DEF IInv, HandInv
  <1>4. UrlInv' /\ CoreInv'
    BY DEF IInv, UrlInv, CoreInv
  <1> QED
    BY <1>1, <1>2, <1>3, <1>4 DEF IInv, Types

LEMMA SentStep == ASSUME IInv, record_clip_announce_sent PROVE IInv'
  <1> USE Constants DEF record_clip_announce_sent, NoFault, Fault, ToNext, rowVars, boxVars,
          netVars, repVars, budgets
  <1>1. RowsOK'
    <2>1. cur \in Clip
      BY DEF IInv, Types, RepOK, TaskInv
    <2>2. \A n : announce_next_at(n) \in Null .. Cap
      <3>1. \A d : (IF d \in 0 .. Cap THEN d ELSE Cap) \in Null .. Cap
        BY DEF Null
      <3> QED
        BY <3>1 DEF announce_next_at
    <2>3. \A n \in 0 .. MaxShift : (IF n < MaxShift THEN n + 1 ELSE n) \in 0 .. MaxShift
      OBVIOUS
    <2>4. att' \in [Clip -> 0 .. MaxShift]
      BY <2>1, <2>3 DEF IInv, Types, RowsOK
    <2>5. due' \in [Clip -> Null .. Cap]
      BY <2>1, <2>2 DEF IInv, Types, RowsOK
    <2> QED
      BY <2>4, <2>5 DEF IInv, Types, RowsOK
  <1>2. BoxOK' /\ NetOK' /\ RepOK' /\ BudgetsOK'
    BY DEF IInv, Types, BoxOK, NetOK, RepOK, BudgetsOK
  <1>3. TaskInv'
    BY DEF IInv, TaskInv
  <1>4. HandInv'
    BY DEF IInv, HandInv, Sendable
  <1>5. UrlInv' /\ CoreInv'
    BY DEF IInv, UrlInv, CoreInv
  <1> QED
    BY <1>1, <1>2, <1>3, <1>4, <1>5 DEF IInv, Types

LEMMA LaneEndsStep == ASSUME IInv, LaneEnds PROVE IInv'
  <1> USE Constants DEF LaneEnds, ToIdle, rowVars, boxVars, netVars, repVars, budgets
  <1>1. Types'
    BY DEF IInv, Types, RowsOK, BoxOK, NetOK, RepOK, BudgetsOK
  <1>2. TaskInv'
    BY DEF IInv, TaskInv
  <1>3. HandInv'
    BY DEF IInv, HandInv, TaskInv
  <1>4. UrlInv' /\ CoreInv'
    BY DEF IInv, UrlInv, CoreInv
  <1> QED
    BY <1>1, <1>2, <1>3, <1>4 DEF IInv, Types

-----------------------------------------------------------------------------
(* Re-announcements.                                                       *)

LEMMA ReBeginStep == ASSUME IInv, ReBegin PROVE IInv'
  <1> USE Constants DEF ReBegin, NoFault, Fault, ToIdle, rowVars, boxVars, netVars, repVars, budgets
  <1>1. Types'
    BY DEF IInv, Types, RowsOK, BoxOK, NetOK, RepOK, BudgetsOK
  <1>2. TaskInv'
    BY DEF IInv, TaskInv
  <1>3. HandInv'
    BY DEF IInv, HandInv, TaskInv
  <1>4. UrlInv' /\ CoreInv'
    BY DEF IInv, UrlInv, CoreInv
  <1> QED
    BY <1>1, <1>2, <1>3, <1>4 DEF IInv, Types

LEMMA ReQueryStep == ASSUME IInv, ReQuery PROVE IInv'
  <1> USE Constants DEF ReQuery, NoFault, Fault, EarliestOf, clips_pending_cloud_announce,
          LaneClips, rowVars, boxVars, netVars, repVars, budgets
  <1>1. Types'
    BY DEF IInv, Types, RowsOK, BoxOK, NetOK, RepOK, BudgetsOK
  <1>2. TaskInv'
    BY DEF IInv, TaskInv
  <1>3. HandInv'
    BY DEF IInv, HandInv, Sendable, TaskInv, CoreInv
  <1>4. UrlInv' /\ CoreInv'
    BY DEF IInv, UrlInv, CoreInv
  <1> QED
    BY <1>1, <1>2, <1>3, <1>4 DEF IInv, Types

LEMMA ReNextStep == ASSUME IInv, NEW c \in Clip, ReNext(c) PROVE IInv'
  <1> USE Constants DEF ReNext, rowVars, boxVars, netVars, repVars, budgets
  <1>1. Types'
    BY DEF IInv, Types, RowsOK, BoxOK, NetOK, RepOK, BudgetsOK
  <1>2. TaskInv'
    BY DEF IInv, TaskInv
  <1>3. HandInv'
    BY DEF IInv, HandInv, Sendable
  <1>4. UrlInv' /\ CoreInv'
    BY DEF IInv, UrlInv, CoreInv
  <1> QED
    BY <1>1, <1>2, <1>3, <1>4 DEF IInv, Types

LEMMA ReStampStep == ASSUME IInv, ReStamp PROVE IInv'
  <1> USE Constants DEF ReStamp, NoFault, Fault, Goto, ToNext, stamp_clip_announce, rowVars,
          boxVars, netVars, repVars, budgets
  <1>1. Types'
    BY Restamped DEF IInv, Types, RowsOK, BoxOK, RepOK, NetOK, BudgetsOK
  <1>2. TaskInv'
    BY DEF IInv, TaskInv
  <1>3. UrlInv'
    BY DEF IInv, Types, UrlInv, RowsOK
  <1>4. HandInv'
    BY DEF IInv, Types, HandInv, Sendable, TaskInv, RepOK, RowsOK
  <1>5. CoreInv'
    <2>1. CASE UNCHANGED <<rowVars, netVars>>
      BY <2>1 DEF IInv, CoreInv
    <2>2. CASE stamp_clip_announce(url[cur])
      <3>1. \A n \in msgs' : \E m \in msgs : n.core = m.core /\ n.clip = m.clip
        BY <2>2, Restamped DEF IInv, Types, NetOK
      <3>2. ~mixed => \A c \in Clip : owner'[c] # NoCore => url'[c] = owner'[c]
        BY <2>2 DEF IInv, Types, RowsOK, BoxOK, RepOK, TaskInv, CoreInv, HandInv, Sendable
      <3> QED
        BY <2>2, <3>1, <3>2 DEF IInv, CoreInv
    <2> QED
      BY <2>1, <2>2
  <1> QED
    BY <1>1, <1>2, <1>3, <1>4, <1>5 DEF IInv, Types

LEMMA ElapseStep == ASSUME IInv, Elapse PROVE IInv'
  <1> USE Constants DEF Elapse, Later, Null, Unborn, rowVars, boxVars, netVars, repVars, budgets
  <1>1. Types'
    BY DEF IInv, Types, RowsOK, BoxOK, NetOK, RepOK, BudgetsOK
  <1>2. TaskInv' /\ UrlInv' /\ HandInv' /\ CoreInv'
    BY DEF IInv, TaskInv, UrlInv, HandInv, Sendable, CoreInv
  <1> QED
    BY <1>1, <1>2 DEF IInv, Types

-----------------------------------------------------------------------------
LEMMA NextIInv == IInv /\ [Next]_vars => IInv'
  <1> SUFFICES ASSUME IInv, [Next]_vars PROVE IInv'
    OBVIOUS
  <1>1. CASE Replicator
    BY <1>1, TickStep, BackstopStep, UploadQueryStep, UploadNextStep, PutStep, UploadStampStep,
       MarkStep, SendOkStep, SendFailsStep, SentStep, LaneEndsStep, ReBeginStep, ReQueryStep,
       ReNextStep, ReStampStep DEF Replicator
  <1>2. CASE Cloud
    BY <1>2, CloudStoresStep, CloudRejectsStep, LostStep DEF Cloud
  <1>3. CASE Box
    BY <1>3, RecordedStep, SetCloudEnrollmentStep, ClearCloudEnrollmentStep, WaitForEnrollmentStep,
       ConnectStep, DisconnectStep, RestartStep, AckStep, ElapseStep DEF Box
  <1>4. CASE UNCHANGED vars
    <2>1. UNCHANGED <<rowVars, boxVars, netVars, repVars, budgets>>
      BY <1>4 DEF vars
    <2>2. Types'
       BY <2>1 DEF IInv, Types, RowsOK, BoxOK, NetOK, RepOK, BudgetsOK, rowVars, boxVars, netVars,
              repVars,
             budgets
    <2>3. TaskInv' /\ UrlInv' /\ HandInv' /\ CoreInv'
       BY <2>1 DEF IInv, TaskInv, UrlInv, HandInv, Sendable, CoreInv, rowVars, boxVars, netVars,
              repVars
    <2> QED
      BY <2>2, <2>3 DEF IInv
  <1> QED
    BY <1>1, <1>2, <1>3, <1>4 DEF Next

LEMMA IInvariance == Spec => []IInv
  BY InitIInv, NextIInv, PTL DEF Spec

-----------------------------------------------------------------------------
(* What an answer is worth.  A clip is stamped with another URL only while *)
(* it is not cold and announced only once it is, so the URL an envelope    *)
(* carries is still the row's when the answer to it is applied.            *)

(* The replicator uploads clips that are not cold and sends cold ones.     *)
ColdHand ==
    /\ mode = "up" => cur \notin todo /\ \A c \in todo : ~cold[c]
    /\ mode = "up" /\ pc \in {"put", "stamp", "mark"} => ~cold[cur]
    /\ mode = "re" => \A c \in Clip : c \in todo \/ c = cur => cold[c]
    /\ pc \in {"send", "record"} => cold[cur]

(* Envelopes whose id is on the row, and answers, are those of cold rows.  *)
ColdMail ==
    /\ \A c \in Clip : answer[c] # "no" => cold[c]
    /\ \A m \in msgs : m.live => cold[m.clip] /\ m.url = url[m.clip]
    /\ \A a \in acks : cold[a.clip]

(* Under one core an envelope names its own container, and what the cloud  *)
(* says it stored is listed there.                                         *)
StoredInv ==
    ~mixed =>
      /\ \A m \in msgs : m.url = m.core
      /\ \A a \in acks : a.status = "stored" => <<url[a.clip], a.clip>> \in listed
      /\ \A c \in Clip : answer[c] = "stored" => <<url[c], c>> \in listed

AnswerInv == ColdHand /\ ColdMail /\ StoredInv

(* A step that touches neither rows nor mail.                              *)
LEMMA MailFrame ==
  ASSUME AnswerInv, UNCHANGED <<cold, url, answer, msgs, acks, listed>>, mixed => mixed', ColdHand'
  PROVE  AnswerInv'
  BY DEF AnswerInv, ColdMail, StoredInv

(* The box and the cloud.                                                  *)
LEMMA BoxAnswers == ASSUME IInv, IInv', AnswerInv, Box \/ Cloud PROVE AnswerInv'
  <1> USE DEF rowVars, boxVars, netVars, repVars, budgets
  <1>1. CASE \/ \E c \in Clip : Recorded(c)
             \/ \E k \in Core, keep \in BOOLEAN : set_cloud_enrollment(k, keep)
             \/ clear_cloud_enrollment \/ wait_for_enrollment \/ Connect \/ Elapse
    <2>1. UNCHANGED <<cold, url, answer, msgs, acks, listed, repVars>>
      BY <1>1 DEF Recorded, set_cloud_enrollment, clear_cloud_enrollment, wait_for_enrollment,
                  Connect, Elapse
    <2>0. mixed => mixed'
      BY <1>1 DEF Recorded, set_cloud_enrollment, clear_cloud_enrollment, wait_for_enrollment,
                  Connect, Elapse
    <2>2. ColdHand'
      BY <2>1 DEF AnswerInv, ColdHand
    <2> QED
      BY <2>0, <2>1, <2>2, MailFrame
  <1>2. CASE Disconnect \/ Restart \/ Lost
    <2>1. /\ UNCHANGED <<cold, url, answer, listed, mixed>>
          /\ msgs' \subseteq msgs /\ acks' \subseteq acks
      BY <1>2 DEF Disconnect, Restart, Lost
    <2>2. ColdHand'
      BY <1>2, Constants DEF AnswerInv, ColdHand, Disconnect, Restart, Lost, ToIdle
    <2> QED
      BY <2>1, <2>2 DEF AnswerInv, ColdMail, StoredInv
  <1>3. ASSUME NEW m \in msgs, CloudStores(m) \/ CloudRejects(m) PROVE AnswerInv'
    <2>1. /\ UNCHANGED <<cold, url, answer, mixed, repVars>>
          /\ msgs' = msgs \ {m}
          /\ \A a \in acks' :
               \/ a \in acks
               \/ /\ m.live /\ a.clip = m.clip
                  /\ a.status = "stored" => CloudStores(m)
          /\ listed \subseteq listed'
      BY <1>3 DEF CloudStores, CloudRejects, Answered
    <2>2. ColdHand'
      BY <2>1 DEF AnswerInv, ColdHand
    <2>3. ColdMail'
      BY <2>1 DEF AnswerInv, ColdMail
    <2>4. StoredInv'
      <3>1. CloudStores(m) => <<m.core, m.clip>> \in listed'
        BY DEF CloudStores
      <3>2. ~mixed /\ m.live => m.core = url[m.clip]
        BY DEF AnswerInv, ColdMail, StoredInv
      <3> QED
        BY <2>1, <3>1, <3>2 DEF AnswerInv, StoredInv
    <2> QED
      BY <2>2, <2>3, <2>4 DEF AnswerInv
  <1>4. ASSUME NEW a \in acks, record_clip_announce_ack(a) PROVE AnswerInv'
    <2>1. /\ UNCHANGED <<cold, url, mixed, repVars, msgs, listed>>
          /\ acks' = acks \ {a}
          /\ answer' = [answer EXCEPT ![a.clip] = IF @ = "no" THEN a.status ELSE @]
      BY <1>4 DEF record_clip_announce_ack
    <2>2. a.clip \in Clip /\ answer \in [Clip -> {"no", "stored", "rejected"}]
      BY DEF IInv, Types, NetOK, Answer, RowsOK
    <2>3. ColdHand'
      BY <2>1 DEF AnswerInv, ColdHand
    <2>4. \A c \in Clip : answer'[c] = answer[c] \/ (c = a.clip /\ answer'[c] = a.status)
      BY <2>1, <2>2
    <2>5. ColdMail' /\ StoredInv'
      BY <2>1, <2>4 DEF AnswerInv, ColdMail, StoredInv
    <2> QED
      BY <2>3, <2>5 DEF AnswerInv
  <1> QED
    BY <1>1, <1>2, <1>3, <1>4 DEF Box, Cloud

(* A stamp: the clip in hand keeps its URL or is not cold.                 *)
LEMMA StampAnswers ==
  ASSUME IInv, AnswerInv, NEW u, stamp_clip_announce(u), cur \in Clip,
         cold[cur] => u = url[cur], UNCHANGED mixed, ColdHand'
  PROVE  AnswerInv'
  <1>1. /\ UNCHANGED <<cold, answer, listed>>
        /\ url' = [url EXCEPT ![cur] = u]
        /\ msgs' = {[m EXCEPT !.live = m.live /\ m.clip # cur] : m \in msgs}
        /\ acks' \subseteq acks
    BY DEF stamp_clip_announce
  <1>2. \A n \in msgs' : \E m \in msgs : /\ n.core = m.core /\ n.clip = m.clip /\ n.url = m.url
                                         /\ n.live => m.live
    <2>1. ASSUME NEW m \in Envelope
          PROVE  LET n == [m EXCEPT !.live = m.live /\ m.clip # cur]
                 IN  n.core = m.core /\ n.clip = m.clip /\ n.url = m.url /\ (n.live => m.live)
      BY DEF Envelope
    <2>2. ASSUME NEW n \in msgs'
          PROVE  \E m \in msgs : /\ n.core = m.core /\ n.clip = m.clip /\ n.url = m.url
                                 /\ n.live => m.live
      <3>1. PICK m \in msgs : n = [m EXCEPT !.live = m.live /\ m.clip # cur]
        BY <1>1
      <3>2. m \in Envelope
        BY DEF IInv, Types, NetOK
      <3> QED
        BY <2>1, <3>1, <3>2
    <2> QED
      BY <2>2
  <1>3. \A c \in Clip : cold[c] => url'[c] = url[c]
    BY <1>1 DEF IInv, Types, RowsOK
  <1>4. /\ \A m \in msgs : m.clip \in Clip
        /\ \A a \in acks : a.clip \in Clip
    BY DEF IInv, Types, NetOK, Envelope, Answer
  <1>5. ColdMail'
    BY <1>1, <1>2, <1>3, <1>4 DEF AnswerInv, ColdMail
  <1>6. StoredInv'
    <2>1. \A c \in Clip : answer[c] = "stored" => cold[c]
      BY DEF AnswerInv, ColdMail
    <2> QED
      BY <1>1, <1>2, <1>3, <1>4, <2>1 DEF AnswerInv, ColdMail, StoredInv
  <1> QED
    BY <1>5, <1>6 DEF AnswerInv

(* The replicator.                                                         *)
LEMMA ReplicatorAnswers == ASSUME IInv, IInv', AnswerInv, Replicator PROVE AnswerInv'
  <1> USE Constants DEF rowVars, boxVars, netVars, repVars, budgets, Goto, ToNext, ToIdle
  <1>1. CASE \/ Tick \/ Backstop \/ UploadQuery \/ Put \/ SendFails \/ record_clip_announce_sent
             \/ LaneEnds \/ ReBegin \/ ReQuery \/ \E c \in Clip : UploadNext(c) \/ ReNext(c)
    <2>1. UNCHANGED <<cold, url, answer, msgs, acks, listed, mixed>>
      BY <1>1 DEF Tick, Backstop, UploadQuery, Put, SendFails, record_clip_announce_sent,
                  LaneEnds, ReBegin, ReQuery, UploadNext, ReNext
    <2>2. CASE Tick \/ Backstop \/ LaneEnds \/ ReBegin
      <3>1. ColdHand'
        BY <2>2 DEF IInv, TaskInv, AnswerInv, ColdHand, Tick, Backstop, LaneEnds, ReBegin
      <3> QED
        BY <2>1, <3>1, MailFrame
    <2>3. CASE UploadQuery
      <3>1. ColdHand'
        BY <2>3 DEF IInv, Types, RepOK, TaskInv, AnswerInv, ColdHand, UploadQuery,
                    clips_pending_cold_upload, LaneClips
      <3> QED
        BY <2>1, <3>1, MailFrame
    <2>4. CASE Put \/ SendFails \/ record_clip_announce_sent
      <3>1. ColdHand'
        BY <2>4 DEF IInv, Types, RepOK, TaskInv, AnswerInv, ColdHand, Put, SendFails,
                    record_clip_announce_sent
      <3> QED
        BY <2>1, <3>1, MailFrame
    <2>5. CASE ReQuery
      <3>1. todo' \subseteq {c \in Clip : cold[c]} /\ mode' = "re" /\ pc' = "next" /\ cur' = NoClip
        BY <2>5 DEF IInv, TaskInv, ReQuery, EarliestOf, clips_pending_cloud_announce, LaneClips
      <3>2. ColdHand'
        BY <2>1, <3>1 DEF ColdHand
      <3> QED
        BY <2>1, <3>2, MailFrame
    <2>6. CASE \E c \in Clip : UploadNext(c) \/ ReNext(c)
      <3>1. ColdHand'
        BY <2>6 DEF AnswerInv, ColdHand, UploadNext, ReNext
      <3> QED
        BY <2>1, <3>1, MailFrame
    <2> QED
      BY <1>1, <2>2, <2>3, <2>4, <2>5, <2>6
  <1>2. CASE UploadStamp \/ ReStamp
    <2>1. cur \in Clip /\ UNCHANGED mixed
      BY <1>2 DEF IInv, Types, RepOK, TaskInv, UploadStamp, ReStamp
    <2>2. ColdHand'
      BY <1>2, <2>1 DEF IInv, Types, RepOK, TaskInv, AnswerInv, ColdHand, UploadStamp, ReStamp,
                        stamp_clip_announce
    <2>3. CASE UNCHANGED <<rowVars, netVars>>
      BY <2>1, <2>2, <2>3, MailFrame
    <2>4. CASE UploadStamp /\ stamp_clip_announce(tun)
      <3>1. ~cold[cur]
        BY <2>4 DEF UploadStamp, AnswerInv, ColdHand
      <3> QED
        BY <2>1, <2>2, <2>4, <3>1, StampAnswers
    <2>5. CASE ReStamp /\ stamp_clip_announce(url[cur])
      BY <2>1, <2>2, <2>5, StampAnswers
    <2> QED
      BY <1>2, <2>3, <2>4, <2>5 DEF UploadStamp, ReStamp
  <1>3. CASE mark_cold_replicated
    <2>1. /\ UNCHANGED <<url, answer, msgs, acks, listed, mixed>> /\ cur \in Clip
          /\ mode = "up" /\ UNCHANGED <<mode, todo>>
          /\ \/ cold' = [cold EXCEPT ![cur] = TRUE] /\ pc' = "send" /\ cur' = cur
             \/ UNCHANGED cold /\ pc' = "next" /\ cur' = NoClip
      BY <1>3 DEF mark_cold_replicated, IInv, Types, RepOK, TaskInv
    <2>2. \A c \in Clip : cold[c] => cold'[c]
      BY <2>1 DEF IInv, Types, RowsOK
    <2>3. \A c \in Clip : cold'[c] => cold[c] \/ c = cur
      BY <2>1 DEF IInv, Types, RowsOK
    <2>4. cur \notin todo
      BY <2>1 DEF AnswerInv, ColdHand
    <2>5. ColdHand'
      BY <2>1, <2>2, <2>3, <2>4 DEF AnswerInv, ColdHand, IInv, Types, RepOK, RowsOK
    <2>6. (\A m \in msgs : m.clip \in Clip) /\ (\A a \in acks : a.clip \in Clip)
      BY DEF IInv, Types, NetOK, Envelope, Answer
    <2>7. ColdMail' /\ StoredInv'
      BY <2>1, <2>2, <2>6 DEF AnswerInv, ColdMail, StoredInv
    <2> QED
      BY <2>5, <2>7 DEF AnswerInv
  <1>4. ASSUME NEW c \in Clip, SendOk(c) PROVE AnswerInv'
    <2>1. /\ pc = "send" /\ pc' = "record" /\ cur = c
          /\ UNCHANGED <<cold, url, answer, acks, listed, mixed, mode, todo, cur>>
          /\ msgs' \subseteq
               msgs \cup {[clip |-> cur, core |-> tun, url |-> url[cur], live |-> TRUE]}
      BY <1>4 DEF SendOk
    <2>2. cold[c] /\ (~mixed => url[c] = tun)
      BY <2>1 DEF AnswerInv, ColdHand, IInv, HandInv, Sendable
    <2>3. ColdHand'
      BY <2>1 DEF AnswerInv, ColdHand
    <2>4. ColdMail' /\ StoredInv'
      BY <2>1, <2>2 DEF AnswerInv, ColdMail, StoredInv
    <2> QED
      BY <2>3, <2>4 DEF AnswerInv
  <1> QED
    BY <1>1, <1>2, <1>3, <1>4 DEF Replicator

LEMMA AnswerInvariance == Spec => [](IInv /\ AnswerInv)
  <1>1. Init => AnswerInv
    BY Constants DEF Init, AnswerInv, ColdHand, ColdMail, StoredInv
  <1>2. IInv /\ IInv' /\ AnswerInv /\ [Next]_vars => AnswerInv'
    <2>1. ASSUME AnswerInv, UNCHANGED vars PROVE AnswerInv'
      BY <2>1 DEF vars, rowVars, boxVars, netVars, repVars, AnswerInv, ColdHand, ColdMail,
                  StoredInv
    <2> QED
      BY <2>1, BoxAnswers, ReplicatorAnswers DEF Next
  <1> QED
    BY <1>1, <1>2, IInvariance, PTL DEF Spec

(* Rows, tunnel, envelopes and replicator keep their types; in particular  *)
(* the wait for the next re-send never exceeds its cap.                    *)
THEOREM TypeCorrect == Spec => []TypeOK
  <1>1. IInv => TypeOK
    BY DEF IInv, Types, RowsOK, BoxOK, NetOK, RepOK, BudgetsOK, TypeOK
  <1> QED
    BY <1>1, IInvariance, PTL

(* Every cold clip carries the URL of a blob that is there, whatever fails *)
(* or dies between put, stamp and mark.                                    *)
THEOREM ColdAlwaysAnnounceable == Spec => []ColdIsAnnounceable
  <1>1. IInv => ColdIsAnnounceable
    BY DEF IInv, UrlInv, ColdIsAnnounceable
  <1> QED
    BY <1>1, IInvariance, PTL

(* A clip listed under a core can be played from that core's container,    *)
(* and a clip the row holds to be stored is listed where its URL points,   *)
(* as long as nobody re-enrolls the box under a running tunnel.            *)
THEOREM ListedAlwaysPlays == Spec => []ListedPlays
  <1>1. IInv /\ AnswerInv => ListedPlays
    BY DEF IInv, CoreInv, AnswerInv, StoredInv, ListedPlays
  <1> QED
    BY <1>1, AnswerInvariance, PTL

(* reannounce promises that a prior enrollment's clips are never re-sent.  *)
(* It keeps the promise as long as nobody re-enrolls the box as another    *)
(* core under a running tunnel: detaching, restarting and enrolling anew   *)
(* before the tunnel starts do no harm.                                    *)
THEOREM PriorStaysPrior == Spec => [](~mixed => PriorNeverResent)
  <1>1. AnswerInv => (~mixed => PriorNeverResent)
    BY DEF AnswerInv, StoredInv, PriorNeverResent
  <1> QED
    BY <1>1, AnswerInvariance, PTL
=============================================================================
