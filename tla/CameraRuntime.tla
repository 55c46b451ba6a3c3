--------------------------- MODULE CameraRuntime ---------------------------
(***************************************************************************)
(* Which camera supervisors run, and what happens to their motion clips:   *)
(* crates/nexus-engine/src/reconciler.rs (the reconcile pass, stop_camera, *)
(* start_camera, retry_sessions), the life of one supervisor in            *)
(* crates/nexus-pipeline/src/supervisor.rs, the open map of                *)
(* crates/nexus-pipeline/src/gst_clip_recorder.rs and the shutdown         *)
(* sequence of crates/nexus-engine/src/main.rs.                            *)
(*                                                                         *)
(* Every task is a tokio task: it runs from one await to the next without  *)
(* being cancelled, so a step below is one poll.  JoinHandle::abort on a   *)
(* parked task drops it where it is parked; on a task that another worker  *)
(* is polling it only asks, and that poll still runs to its next await.    *)
(***************************************************************************)
EXTENDS Naturals, FiniteSets

CONSTANTS
    Camera,
    Config,         \* what an EntryKey compares, as one value
    Substream,      \* the configurations with an analysis_url
    NoConfig,       \* row absent, disabled or unreadable; nothing registered
    Slot,           \* supervisors of one camera that can be alive at once
    Clip,           \* motion clips that can be unfinished at once
    NoClip,
    MaxEdits,       \* bound on changes of the camera rows
    MaxExits,       \* bound on supervisors that end or panic on their own
    MaxRefusals     \* bound on refused registrations and dropped substreams

ASSUME ConfigAssumption ==
    /\ NoConfig \notin Config /\ Substream \subseteq Config
    /\ NoClip \notin Clip

ASSUME BoundAssumption == {MaxEdits, MaxExits, MaxRefusals} \subseteq Nat

VARIABLES
    rows,      \* the enabled camera rows of the store
    rec,       \* the reconciler task
    handles,   \* HandleMap: the entry of each camera
    ing,       \* recorder.ingesters: what each main ingester was built for
    sub,       \* cameras whose analysis session runs
    sup,       \* the supervisor tasks
    clips,     \* the motion clips, see ClipState
    main,      \* how far main's shutdown has come
    drain,     \* recorder.shutdown: clips of its snapshot not yet closed
    forced,    \* some supervisor was aborted or panicked (history)
    budget     \* what is left of the bounds

vars == <<rows, rec, handles, ing, sub, sup, clips, main, drain, forced, budget>>

-----------------------------------------------------------------------------
(* State                                                                   *)

Sup == Camera \X Slot

(* wait: in next_frame_or_stop; frame: inside a frame, no recorder call;   *)
(* opening: in recorder.open before the row exists; row: its INSERT has    *)
(* committed; closing: in recorder.close, the clip has left the open map;  *)
(* ending: the same for the close after the frame loop.                    *)
SupPc == {"gone", "wait", "frame", "opening", "row", "closing", "ending"}

SupState == [pc: SupPc, stop: BOOLEAN, aborted: BOOLEAN, clip: Clip \cup {NoClip}]

Gone == [pc |-> "gone", stop |-> FALSE, aborted |-> FALSE, clip |-> NoClip]

Fresh == [Gone EXCEPT !.pc = "wait"]

(* free: not in use, or closed and stamped; row: inserted, not yet in the  *)
(* recorder's open map; open: in it; closing: taken out by a close; lost:  *)
(* unfinished and out of everybody's reach.                                *)
ClipState == {"free", "row", "open", "closing", "lost"}

(* RunningCameraEntry: the supervisor, its EntryKey and its Sessions:      *)
(* main_pending, and whether a substream session is on record.             *)
Entry == [slot: Slot, key: Config, pending: BOOLEAN, analysis: BOOLEAN]

NoEntry == [key |-> NoConfig]

Rows == [Camera -> Config \cup {NoConfig}]

RecPc == {"idle", "pass", "stopping", "probing", "starting", "ended"}

MainPc == {"up", "joined", "swept", "draining", "exited"}

TypeOK ==
    /\ rows \in Rows
    /\ rec \in [pc: RecPc, live: Rows, left: SUBSET Camera, cam: SUBSET Camera,
               task: SUBSET Sup]
    /\ handles \in [Camera -> Entry \cup {NoEntry}]
    /\ ing \in Rows
    /\ sub \subseteq Camera
    /\ sup \in [Sup -> SupState]
    /\ clips \in [Clip -> ClipState]
    /\ main \in MainPc
    /\ drain \subseteq Clip
    /\ forced \in BOOLEAN
    /\ budget \in [{"edit", "exit", "refusal"} -> Nat]

Asleep == [pc |-> "idle", live |-> [c \in Camera |-> NoConfig], left |-> {}, cam |-> {},
           task |-> {}]

(* Boot spawned a supervisor for every enabled row and seeded the map with *)
(* their entries.  A main ingester or a substream session it failed to     *)
(* register is left for a pass to retry, as start_camera leaves it.        *)
Init ==
    /\ rows \in Rows
    /\ rec = Asleep
    /\ ing \in {i \in Rows : \A c \in Camera : i[c] \in {rows[c], NoConfig}}
    /\ sub \in SUBSET {c \in Camera : ing[c] \in Substream}
    /\ \E s \in Slot :
          /\ handles = [c \in Camera |->
                IF rows[c] = NoConfig THEN NoEntry
                ELSE [slot |-> s, key |-> rows[c], pending |-> ing[c] = NoConfig,
                      analysis |-> ing[c] \in Substream]]
          /\ sup = [t \in Sup |-> IF rows[t[1]] # NoConfig /\ t[2] = s THEN Fresh ELSE Gone]
    /\ clips = [k \in Clip |-> "free"]
    /\ main = "up"
    /\ drain = {}
    /\ forced = FALSE
    /\ budget = [b \in {"edit", "exit", "refusal"} |->
                    CASE b = "edit" -> MaxEdits [] b = "exit" -> MaxExits
                      [] b = "refusal" -> MaxRefusals]

Spend(b) == budget[b] > 0 /\ budget' = [budget EXCEPT ![b] = @ - 1]

HasEntry(c) == handles[c] # NoEntry

SupOf(c) == <<c, handles[c].slot>>

Finished(s) == sup[s].pc = "gone"

-----------------------------------------------------------------------------
(* The supervisor                                                          *)

(* The clip k of a supervisor that stops existing while its clip is m[k]:  *)
(* a clip in the open map is still the recorder's; one outside it is not   *)
(* anybody's.                                                              *)
Orphan(m, k) ==
    [j \in Clip |-> IF j = k /\ m[j] \in {"row", "closing"} THEN "lost" ELSE m[j]]

(* One poll takes s to pc, holding clip k, with the clips in state m.  An  *)
(* aborted supervisor is dropped at the await this poll reached.           *)
Poll(s, pc, k, m) ==
    IF sup[s].aborted \/ pc = "gone"
    THEN /\ sup' = [sup EXCEPT ![s] = Gone]
         /\ clips' = Orphan(m, k)
    ELSE /\ sup' = [sup EXCEPT ![s].pc = pc, ![s].clip = k]
         /\ clips' = m

Running == main # "exited"

supOnly == <<rows, rec, handles, ing, sub, main, drain>>

(* next_frame_or_stop is biased: a stop wins over a frame.                 *)
FrameBegin(s) ==
    /\ Running /\ sup[s].pc = "wait" /\ ~sup[s].stop
    /\ Poll(s, "frame", sup[s].clip, clips)
    /\ UNCHANGED <<supOnly, forced, budget>>

FrameEnd(s) ==
    /\ Running /\ sup[s].pc = "frame"
    /\ Poll(s, "wait", sup[s].clip, clips)
    /\ UNCHANGED <<supOnly, forced, budget>>

(* recorder.open is refused without a main ingester.                       *)
OpenBegin(s) ==
    /\ Running /\ sup[s].pc = "frame" /\ sup[s].clip = NoClip
    /\ ing[s[1]] # NoConfig
    /\ Poll(s, "opening", NoClip, clips)
    /\ UNCHANGED <<supOnly, forced, budget>>

OpenFail(s) ==
    /\ Running /\ sup[s].pc = "opening"
    /\ Poll(s, "frame", NoClip, clips)
    /\ UNCHANGED <<supOnly, forced, budget>>

(* store.open_clip has committed; the supervisor still awaits its answer.  *)
(* The id is new: a clip that was drained, but that its holder still       *)
(* names, does not come back.                                              *)
OpenRow(s) ==
    /\ Running /\ sup[s].pc = "opening"
    /\ \E k \in Clip :
          /\ clips[k] = "free" /\ \A t \in Sup : sup[t].clip # k
          /\ clips' = [clips EXCEPT ![k] = "row"]
          /\ sup' = [sup EXCEPT ![s].pc = "row", ![s].clip = k]
    /\ UNCHANGED <<supOnly, forced, budget>>

OpenInsert(s) ==
    /\ Running /\ sup[s].pc = "row"
    /\ Poll(s, "frame", sup[s].clip, [clips EXCEPT ![sup[s].clip] = "open"])
    /\ UNCHANGED <<supOnly, forced, budget>>

(* Mutant: the clip leaves the open map when the close is done.            *)
CloseToLate(s, busy, done) ==
    IF clips[sup[s].clip] = "open" THEN Poll(s, busy, sup[s].clip, clips)
    ELSE Poll(s, done, NoClip, clips)

(* recorder.close takes the clip out of the open map first; a clip that    *)
(* the shutdown drain took before is UnknownClip.                          *)
CloseTo(s, busy, done) ==
    LET k == sup[s].clip
    IN  IF clips[k] = "open"
        THEN Poll(s, busy, k, [clips EXCEPT ![k] = "closing"])
        ELSE Poll(s, done, NoClip, clips)

(* Rotation, or the end of the post-roll.                                  *)
CloseBegin(s) ==
    /\ Running /\ sup[s].pc = "frame" /\ sup[s].clip # NoClip
    /\ CloseTo(s, "closing", "frame")
    /\ UNCHANGED <<supOnly, forced, budget>>

CloseEnd(s) ==
    /\ Running /\ sup[s].pc \in {"closing", "ending"}
    /\ Poll(s, IF sup[s].pc = "ending" THEN "gone" ELSE "frame", NoClip,
            [clips EXCEPT ![sup[s].clip] = "free"])
    /\ UNCHANGED <<supOnly, forced, budget>>

(* Mutant: the loop ends without the final close.                          *)
EndLoopOpen(s) == Poll(s, "gone", NoClip, clips)

(* The frame loop ended: the clip still open is closed.                    *)
EndLoop(s) ==
    IF sup[s].clip = NoClip THEN Poll(s, "gone", NoClip, clips) ELSE CloseTo(s, "ending", "gone")

StopSeen(s) ==
    /\ Running /\ sup[s].pc = "wait" /\ sup[s].stop
    /\ EndLoop(s)
    /\ UNCHANGED <<supOnly, forced, budget>>

SourceEnds(s) ==
    /\ Running /\ sup[s].pc = "wait"
    /\ Spend("exit")
    /\ EndLoop(s)
    /\ UNCHANGED <<supOnly, forced>>

(* A panic drops the task wherever it is.                                  *)
Panic(s) ==
    /\ Running /\ sup[s].pc \in SupPc \ {"gone", "wait"}
    /\ Spend("exit")
    /\ sup' = [sup EXCEPT ![s] = Gone]
    /\ clips' = Orphan(clips, sup[s].clip)
    /\ forced' = TRUE
    /\ UNCHANGED supOnly

(* The poll an abort had to wait for reaches its await.                    *)
AbortLands(s) ==
    /\ Running /\ sup[s].aborted
    /\ sup' = [sup EXCEPT ![s] = Gone]
    /\ clips' = Orphan(clips, sup[s].clip)
    /\ UNCHANGED <<supOnly, forced, budget>>

(* JoinHandle::abort of the supervisors in S: those in P are being polled, *)
(* the others are parked.                                                  *)
Abort(S, P) ==
    /\ sup' = [s \in Sup |-> IF s \notin S \/ Finished(s) THEN sup[s]
                             ELSE IF s \in P THEN [sup[s] EXCEPT !.aborted = TRUE]
                             ELSE Gone]
    /\ clips' = [k \in Clip |->
                    IF /\ clips[k] \in {"row", "closing"}
                       /\ \E s \in S \ P : sup[s].clip = k
                    THEN "lost" ELSE clips[k]]

-----------------------------------------------------------------------------
(* The reconciler                                                          *)

Edit(c) ==
    /\ main = "up"
    /\ Spend("edit")
    /\ \E k \in (Config \cup {NoConfig}) \ {rows[c]} : rows' = [rows EXCEPT ![c] = k]
    /\ UNCHANGED <<rec, handles, ing, sub, sup, clips, main, drain, forced>>

(* reconcile, on config.changed or the 30 s tick: the rows are read once.  *)
(* A read that fails ends the pass there, which changes nothing; the next  *)
(* tick reads again.                                                       *)
PassBegin ==
    /\ rec.pc = "idle"
    /\ rec' = [Asleep EXCEPT !.pc = "pass", !.live = rows,
                             !.left = {c \in Camera : HasEntry(c) \/ rows[c] # NoConfig}]
    /\ UNCHANGED <<rows, handles, ing, sub, sup, clips, main, drain, forced, budget>>

PassEnd ==
    /\ rec.pc = "pass" /\ rec.left = {}
    /\ rec' = Asleep
    /\ UNCHANGED <<rows, handles, ing, sub, sup, clips, main, drain, forced, budget>>

(* The cameras that are gone are stopped before any is started.            *)
Due(c) ==
    /\ rec.pc = "pass" /\ c \in rec.left
    /\ \/ rec.live[c] = NoConfig
       \/ \A d \in rec.left : rec.live[d] # NoConfig

(* Mutant: a finished supervisor passes for a running one.                 *)
UnchangedKey(c) == HasEntry(c) /\ handles[c].key = rec.live[c]

(* The no-change guard.                                                    *)
Unchanged(c) == HasEntry(c) /\ handles[c].key = rec.live[c] /\ ~Finished(SupOf(c))

(* Mutant: the ingester goes first.                                        *)
StopCameraIngester(c) ==
    /\ Due(c) /\ HasEntry(c) /\ ~Unchanged(c)
    /\ sup' = [sup EXCEPT ![SupOf(c)].stop = ~Finished(SupOf(c))]
    /\ rec' = [rec EXCEPT !.pc = "stopping", !.cam = {c}, !.task = {SupOf(c)}]
    /\ ing' = [ing EXCEPT ![c] = NoConfig]
    /\ UNCHANGED <<rows, handles, sub, clips, main, drain, forced, budget>>

(* Mutant: the entry leaves the map before the supervisor has ended.       *)
StopCameraForgets(c) ==
    /\ Due(c) /\ HasEntry(c) /\ ~Unchanged(c)
    /\ sup' = [sup EXCEPT ![SupOf(c)].stop = ~Finished(SupOf(c))]
    /\ rec' = [rec EXCEPT !.pc = "stopping", !.cam = {c}, !.task = {SupOf(c)}]
    /\ handles' = [handles EXCEPT ![c] = NoEntry]
    /\ UNCHANGED <<rows, ing, sub, clips, main, drain, forced, budget>>

(* stop_camera: the entry stays in the map while the supervisor stops.     *)
StopCamera(c) ==
    /\ Due(c) /\ HasEntry(c) /\ ~Unchanged(c)
    /\ sup' = [sup EXCEPT ![SupOf(c)].stop = ~Finished(SupOf(c))]
    /\ rec' = [rec EXCEPT !.pc = "stopping", !.cam = {c}, !.task = {SupOf(c)}]
    /\ UNCHANGED <<rows, handles, ing, sub, clips, main, drain, forced, budget>>

(* Mutant: the entry is cleared, not removed.                              *)
RemoveKey(c) ==
    /\ handles' = [handles EXCEPT ![c].key = NoConfig]
    /\ ing' = [ing EXCEPT ![c] = NoConfig]
    /\ sub' = sub \ {c}
    /\ rec' = IF rec.live[c] = NoConfig
              THEN [rec EXCEPT !.pc = "pass", !.left = @ \ {c}, !.cam = {}, !.task = {}]
              ELSE [rec EXCEPT !.pc = "probing", !.task = {}]

(* The rest of stop_camera, and on to start_camera if the row is enabled.  *)
Remove(c) ==
    /\ handles' = [handles EXCEPT ![c] = NoEntry]
    /\ ing' = [ing EXCEPT ![c] = NoConfig]
    /\ sub' = sub \ {c}
    /\ rec' = IF rec.live[c] = NoConfig
              THEN [rec EXCEPT !.pc = "pass", !.left = @ \ {c}, !.cam = {}, !.task = {}]
              ELSE [rec EXCEPT !.pc = "probing", !.task = {}]

Stopped(c) ==
    /\ rec.pc = "stopping" /\ c \in rec.cam
    /\ \A s \in rec.task : Finished(s)
    /\ Remove(c)
    /\ UNCHANGED <<rows, sup, clips, main, drain, forced, budget>>

(* SUPERVISOR_STOP_TIMEOUT: a supervisor in next_frame_or_stop reacts at   *)
(* once, one inside a frame or a recorder call may not.                    *)
StopTimeout(c) ==
    /\ rec.pc = "stopping" /\ c \in rec.cam
    /\ \A s \in rec.task : sup[s].pc \notin {"gone", "wait"}
    /\ \E P \in SUBSET rec.task : Abort(rec.task, P)
    /\ forced' = TRUE
    /\ Remove(c)
    /\ UNCHANGED <<rows, main, drain, budget>>

StartCamera(c) ==
    /\ Due(c) /\ rec.live[c] # NoConfig /\ ~HasEntry(c)
    /\ rec' = [rec EXCEPT !.pc = "probing", !.cam = {c}]
    /\ UNCHANGED <<rows, handles, ing, sub, sup, clips, main, drain, forced, budget>>

(* start_camera after the codec probe: add_camera_ingester.                *)
Register(c) ==
    /\ rec.pc = "probing" /\ c \in rec.cam
    /\ \/ ing' = [ing EXCEPT ![c] = rec.live[c]] /\ UNCHANGED budget
       \/ Spend("refusal") /\ UNCHANGED ing
    /\ rec' = [rec EXCEPT !.pc = "starting"]
    /\ UNCHANGED <<rows, handles, sub, sup, clips, main, drain, forced>>

(* start_sessions registers a substream only beside a main ingester; the   *)
(* spawn and the insert share a poll.                                      *)
Spawn(c) ==
    /\ rec.pc = "starting" /\ c \in rec.cam
    /\ LET analysis == ing[c] # NoConfig /\ rec.live[c] \in Substream
       IN  /\ \/ sub' = (IF analysis THEN sub \cup {c} ELSE sub \ {c}) /\ UNCHANGED budget
              \/ analysis /\ Spend("refusal") /\ UNCHANGED sub
           /\ \E s \in Slot :
                 /\ Finished(<<c, s>>)
                 /\ sup' = [sup EXCEPT ![<<c, s>>] = Fresh]
                 /\ handles' = [handles EXCEPT ![c] =
                       [slot |-> s, key |-> rec.live[c], pending |-> ing[c] = NoConfig,
                        analysis |-> analysis]]
    /\ rec' = [rec EXCEPT !.pc = "pass", !.left = @ \ {c}, !.cam = {}]
    /\ UNCHANGED <<rows, ing, clips, main, drain, forced>>

(* A registration of retry_sessions may be refused again.                  *)
RetrySessions(c) ==
    /\ Due(c) /\ Unchanged(c)
    /\ \E refused \in SUBSET {"main", "sub"} :
          LET pending == handles[c].pending /\ "main" \in refused
          IN  /\ IF refused = {} THEN UNCHANGED budget ELSE Spend("refusal")
              /\ ing' = IF handles[c].pending /\ ~pending
                        THEN [ing EXCEPT ![c] = handles[c].key] ELSE ing
              /\ sub' = IF handles[c].analysis /\ "sub" \notin refused THEN sub \cup {c} ELSE sub
              /\ handles' = [handles EXCEPT ![c].pending = pending]
    /\ rec' = [rec EXCEPT !.left = @ \ {c}]
    /\ UNCHANGED <<rows, sup, clips, main, drain, forced>>

(* The SPEC-069 fallback shuts a substream session down.                   *)
SubstreamDrops(c) ==
    /\ c \in sub
    /\ Spend("refusal")
    /\ sub' = sub \ {c}
    /\ UNCHANGED <<rows, rec, handles, ing, sup, clips, main, drain, forced>>

-----------------------------------------------------------------------------
(* Shutdown                                                                *)

(* The reconciler is aborted and joined.                                   *)
JoinReconciler ==
    /\ main = "up"
    /\ main' = "joined"
    /\ rec' = [Asleep EXCEPT !.pc = "ended"]
    /\ UNCHANGED <<rows, handles, ing, sub, sup, clips, drain, forced, budget>>

(* Every supervisor in the map is aborted, none is joined.                 *)
AbortSupervisors ==
    /\ main = "joined"
    /\ main' = "swept"
    /\ LET S == {SupOf(c) : c \in {d \in Camera : HasEntry(d)}}
       IN  \E P \in SUBSET S : Abort(S, P)
    /\ handles' = [c \in Camera |-> NoEntry]
    /\ forced' = TRUE
    /\ UNCHANGED <<rows, rec, ing, sub, drain, budget>>

OpenClips == {k \in Clip : clips[k] = "open"}

(* recorder.shutdown snapshots the open map, then closes clip by clip.     *)
Snapshot ==
    /\ main = "swept"
    /\ main' = "draining"
    /\ drain' = OpenClips
    /\ UNCHANGED <<rows, rec, handles, ing, sub, sup, clips, forced, budget>>

DrainClose(k) ==
    /\ main = "draining" /\ k \in drain
    /\ drain' = drain \ {k}
    /\ clips' = [clips EXCEPT ![k] = IF @ = "open" THEN "free" ELSE @]
    /\ UNCHANGED <<rows, rec, handles, ing, sub, sup, main, forced, budget>>

(* The drain ended, or its 15 s are over; the process ends.                *)
Exit ==
    /\ main = "draining"
    /\ main' = "exited"
    /\ sup' = [s \in Sup |-> Gone]
    /\ clips' = [k \in Clip |-> IF clips[k] = "free" THEN "free" ELSE "lost"]
    /\ UNCHANGED <<rows, rec, handles, ing, sub, drain, forced, budget>>

-----------------------------------------------------------------------------
(* Specification                                                           *)

Supervise(s) ==
    \/ FrameBegin(s) \/ FrameEnd(s)
    \/ OpenBegin(s) \/ OpenFail(s) \/ OpenRow(s) \/ OpenInsert(s)
    \/ CloseBegin(s) \/ CloseEnd(s)
    \/ StopSeen(s) \/ AbortLands(s)

Reconcile ==
    \/ PassBegin \/ PassEnd
    \/ \E c \in Camera :
          \/ StopCamera(c) \/ Stopped(c) \/ StopTimeout(c)
          \/ StartCamera(c) \/ Register(c) \/ Spawn(c) \/ RetrySessions(c)

Shutdown ==
    \/ JoinReconciler \/ AbortSupervisors \/ Snapshot \/ Exit
    \/ \E k \in Clip : DrainClose(k)

Next ==
    \/ \E s \in Sup : Supervise(s) \/ SourceEnds(s) \/ Panic(s)
    \/ \E c \in Camera : Edit(c) \/ SubstreamDrops(c)
    \/ Reconcile
    \/ Shutdown

Spec == Init /\ [][Next]_vars

(* The reconciler ticks every 30 s and aborts a supervisor that does not   *)
(* stop; a supervisor waiting for a frame sees its stop; an abort lands.   *)
(* Nothing is assumed of a supervisor inside a frame or a recorder call.   *)
FairSpec ==
    /\ Spec
    /\ WF_vars(Reconcile)
    /\ \A s \in Sup : WF_vars(StopSeen(s)) /\ WF_vars(AbortLands(s))

-----------------------------------------------------------------------------
(* Properties                                                              *)

Alive(s) == ~Finished(s) /\ ~sup[s].aborted

(* Every supervisor that nobody has told to die is the one in its camera's *)
(* entry, also while the reconciler is stopping it, so that main's sweep   *)
(* of the map reaches all of them and none survives it (BUG-285).  So a    *)
(* camera never has two: a restart begins only once the old supervisor has *)
(* ended or was aborted.                                                   *)
SweepReachesAll ==
    \A s \in Sup : Alive(s) => main \in {"up", "joined"} /\ HasEntry(s[1]) /\ SupOf(s[1]) = s

(* As long as no supervisor was aborted or panicked, every unfinished clip *)
(* belongs to a supervisor that will close it: reconfiguring, disabling or *)
(* losing a camera abandons nothing.                                       *)
ClipsOwned ==
    ~forced => \A k \in Clip : clips[k] # "free" => \E s \in Sup : Alive(s) /\ sup[s].clip = k

(* Where a supervisor in state r is in its session with the recorder, and  *)
(* the clip it was given.                                                  *)
StepOf(r) ==
    IF r.pc = "gone" THEN "gone"
    ELSE IF r.pc \in {"opening", "row"} THEN "asking"
    ELSE IF r.pc \in {"closing", "ending"} THEN "closing"
    ELSE IF r.clip = NoClip THEN "none" ELSE "held"

HandOf(r) == IF r.pc = "row" THEN NoClip ELSE r.clip

SessionStep == [s \in Sup |-> StepOf(sup[s])]

SessionHand == [s \in Sup |-> HandOf(sup[s])]

Session == INSTANCE ClipSession
    WITH Holder <- Sup, step <- SessionStep, hand <- SessionHand, open <- OpenClips

(* Supervisors, aborts, panics and the drain share the open map as the     *)
(* contract says: no open overwrites a clip in hand, no two supervisors    *)
(* are given the same clip, none closes the clip of another, and a living  *)
(* one lets go of a clip only by closing it or when the drain has.         *)
SessionKept == Session!SSpec

(* stop_camera: "Only now that the supervisor is done: its clip closes on  *)
(* this ingester".  The reconciler never takes an ingester away from a     *)
(* supervisor that has neither ended nor been aborted; one that a stop     *)
(* timeout aborts in the middle of a poll may lose it before its next      *)
(* await.  (A supervisor's own tap resize swaps the ingester for one of    *)
(* the same configuration.)                                                *)
IngesterOutlives ==
    [][\A c \in Camera : ing[c] # NoConfig /\ ing'[c] # ing[c]
          => \A s \in Slot : ~Alive(<<c, s>>)']_vars

(* main's shutdown: "every supervisor [is] stopped (no new clip opens can  *)
(* race)" the recorder's snapshot of its open map.                         *)
NoLateOpen == main = "draining" => OpenClips \subseteq drain

(* The camera runs what its row asks for, with what its start registered.  *)
Settled(c) ==
    IF rows[c] = NoConfig
    THEN ~HasEntry(c) /\ ing[c] = NoConfig /\ c \notin sub /\ \A s \in Slot : ~Alive(<<c, s>>)
    ELSE /\ HasEntry(c) /\ handles[c].key = rows[c] /\ Alive(SupOf(c)) /\ ~sup[SupOf(c)].stop
         /\ ing[c] = rows[c]
         /\ handles[c].analysis => c \in sub

(* Once the rows stay put, every camera settles, whichever supervisors     *)
(* ended, hung or panicked and whichever registrations were refused.       *)
Converges == <>[](main # "up" \/ \A c \in Camera : Settled(c))
=============================================================================
