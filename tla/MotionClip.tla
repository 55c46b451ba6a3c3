----------------------------- MODULE MotionClip -----------------------------
(***************************************************************************)
(* When a camera's supervisor opens, rotates and closes its motion clip:   *)
(* the per-frame part of crates/nexus-pipeline/src/supervisor.rs and       *)
(* crates/nexus-pipeline/src/post_roll.rs, against a recorder that may     *)
(* refuse or fail an open, and whose panic flag another task sets and      *)
(* clears while the supervisor awaits it.                                  *)
(*                                                                         *)
(* Instants are kept as the time left (or passed) seen from the next       *)
(* frame's captured_mono, so that no clock is needed.  One frame is        *)
(* Frame, then Rotated if the clip has to be changed, Tracked, Decide, and *)
(* the recorder's answer; a failed detector or a resized tap cuts it short.*)
(***************************************************************************)
EXTENDS Integers

CONSTANTS
    Grace,           \* clips.post_roll_secs
    Cap,             \* MAX_CLIP_DURATION_MS
    FirstDelay,      \* the first retry delay of a failed open (500 ms)
    MaxDelay,        \* its ceiling (30 s)
    RecordOnAlert,   \* clips.record_motion_clip_on_alert
    MaxFailures,     \* bound on opens that fail while the recorder is not in panic
    MaxPanics        \* bound on panic episodes of the storage watchdog

ASSUME DelayAssumption ==
    /\ {Grace, Cap, FirstDelay, MaxDelay} \subseteq Nat
    /\ FirstDelay > 0 /\ FirstDelay <= MaxDelay /\ Cap > 0
    /\ RecordOnAlert \in BOOLEAN
    /\ {MaxFailures, MaxPanics} \subseteq Nat

VARIABLES
    pc,         \* where the supervisor is in the frame
    seen,       \* what this frame brought: a track born, an alert
    live,       \* live_track_count > 0
    clip,       \* current_clip is some clip
    age,        \* time since clip_opened_at, up to Cap
    pending,    \* pending_open
    retry,      \* open_retry_at, Never when unset
    delay,      \* open_retry_delay
    refused,    \* open_panic_refused
    closing,    \* pending_close_at of the post-roll, Never when unset
    panic,      \* the recorder's panic flag
    wanted,     \* motion or an alert asked for a clip and the post-roll
                \* has not elapsed since (history)
    quiet,      \* time since the last frame with motion, up to Grace (history)
    failures,   \* what is left of MaxFailures
    panics      \* what is left of MaxPanics

demand == <<pending, retry, delay, refused>>

vars == <<pc, seen, live, clip, age, demand, closing, panic, wanted, quiet, failures, panics>>

-----------------------------------------------------------------------------
(* State                                                                   *)

Never == -1

Seen == [born: BOOLEAN, alert: BOOLEAN]

Nothing == [born |-> FALSE, alert |-> FALSE]

TypeOK ==
    /\ pc \in {"idle", "rotating", "detect", "resizing", "decide", "opening", "refused", "failed",
             "closing"}
    /\ seen \in Seen
    /\ live \in BOOLEAN
    /\ clip \in BOOLEAN
    /\ age \in 0 .. Cap
    /\ pending \in BOOLEAN
    /\ retry \in {Never} \cup 0 .. MaxDelay
    /\ delay \in FirstDelay .. MaxDelay
    /\ refused \in BOOLEAN
    /\ closing \in {Never} \cup 0 .. Grace
    /\ panic \in BOOLEAN
    /\ wanted \in BOOLEAN
    /\ quiet \in 0 .. Grace
    /\ failures \in 0 .. MaxFailures
    /\ panics \in 0 .. MaxPanics

Init ==
    /\ pc = "idle"
    /\ seen = Nothing
    /\ live = FALSE
    /\ clip = FALSE
    /\ age = 0
    /\ pending = FALSE
    /\ retry = Never
    /\ delay = FirstDelay
    /\ refused = FALSE
    /\ closing = Never
    /\ panic = FALSE
    /\ wanted = FALSE
    /\ quiet = 0
    /\ failures = MaxFailures
    /\ panics = MaxPanics

Upto(n, m) == IF n < m THEN n ELSE m

Less(t) == IF t > 0 THEN t - 1 ELSE t

(* Time passes between frames; frames the gate drops do nothing else.      *)
Tick ==
    /\ pc = "idle"
    /\ age' = IF clip THEN Upto(age + 1, Cap) ELSE 0
    /\ retry' = Less(retry)
    /\ closing' = Less(closing)
    /\ quiet' = Upto(quiet + 1, Grace)
    /\ UNCHANGED <<pc, seen, live, clip, pending, delay, refused, panic, wanted, failures, panics>>

SetPanic ==
    /\ IF panic THEN UNCHANGED panics ELSE panics > 0 /\ panics' = panics - 1
    /\ panic' = ~panic
    /\ UNCHANGED <<pc, seen, live, clip, age, demand, closing, wanted, quiet, failures>>

-----------------------------------------------------------------------------
(* One frame                                                               *)

(* A clip is rotated at the duration cap, or for its size or a new stream  *)
(* epoch, which can come at any frame.                                     *)
Frame ==
    /\ pc = "idle"
    /\ pc' \in IF ~clip THEN {"detect"}
               ELSE IF age >= Cap THEN {"rotating"} ELSE {"rotating", "detect"}
    /\ seen' = Nothing
    /\ UNCHANGED <<live, clip, age, demand, closing, panic, wanted, quiet, failures, panics>>

(* Mutant: the demand is not carried over to the next file.                *)
RotatedDone ==
    /\ pc = "rotating"
    /\ clip' = FALSE
    /\ age' = 0
    /\ pc' = "detect"
    /\ UNCHANGED <<seen, live, demand, closing, panic, wanted, quiet, failures, panics>>

(* The rotation's close returned, with or without an error.                *)
Rotated ==
    /\ pc = "rotating"
    /\ clip' = FALSE
    /\ age' = 0
    /\ pending' = TRUE
    /\ pc' = "detect"
    /\ UNCHANGED <<seen, live, retry, delay, refused, closing, panic, wanted, quiet, failures, panics>>

(* The frame ends before its motion is looked at: the detector failed, or  *)
(* the crowd policy resized the RGB tap, which closes an open clip first.  *)
FrameCut ==
    /\ pc = "detect"
    /\ pc' \in IF clip THEN {"idle", "resizing"} ELSE {"idle"}
    /\ UNCHANGED <<seen, live, clip, age, demand, closing, panic, wanted, quiet, failures, panics>>

Resized ==
    /\ pc = "resizing"
    /\ clip' = FALSE
    /\ age' = 0
    /\ pending' = TRUE
    /\ pc' = "idle"
    /\ UNCHANGED <<seen, live, retry, delay, refused, closing, panic, wanted, quiet, failures, panics>>

(* Tracker and rules have run, and the emitter has ticked: a born track is *)
(* live, any live one may be lost.                                         *)
Tracked(born, alert) ==
    /\ pc = "detect"
    /\ seen' = [born |-> born, alert |-> alert]
    /\ live' \in IF born THEN {TRUE} ELSE {live, FALSE}
    /\ pc' = "decide"
    /\ UNCHANGED <<clip, age, demand, closing, panic, wanted, quiet, failures, panics>>

AlertKeptAlive == RecordOnAlert /\ seen.alert

Motion == live \/ AlertKeptAlive

(* PostRoll::tick                                                          *)
CloseNow == ~Motion /\ (Grace = 0 \/ closing = 0)

(* Mutant: motion does not cancel the pending close.                       *)
PostRollRuns ==
    IF CloseNow THEN Never ELSE IF closing = Never THEN Grace ELSE closing

PostRoll ==
    IF Motion \/ Grace = 0 \/ CloseNow THEN Never
    ELSE IF closing = Never THEN Grace ELSE closing

(* The end of the post-roll also ends an open that is still being retried. *)
AfterCloseNow ==
    IF CloseNow THEN [pending |-> FALSE, retry |-> Never, delay |-> FirstDelay, refused |-> FALSE]
    ELSE [pending |-> pending, retry |-> retry, delay |-> delay, refused |-> refused]

(* Mutant: a refusal by panic is never taken back.                         *)
ShouldOpenOnce(d) ==
    /\ ~clip
    /\ ~d.refused
    /\ d.retry <= 0
    /\ d.pending \/ AlertKeptAlive \/ seen.born

(* Mutant: a clip in hand does not keep the supervisor from opening.       *)
ShouldOpenAgain(d) ==
    /\ ~d.refused \/ ~panic
    /\ d.refused \/ d.retry <= 0
    /\ d.pending \/ AlertKeptAlive \/ seen.born

(* The backoff does not hold up an open refused for panic: that one waits  *)
(* for the flag to clear.                                                  *)
ShouldOpen(d) ==
    /\ ~clip
    /\ ~d.refused \/ ~panic
    /\ d.refused \/ d.retry <= 0
    /\ d.pending \/ AlertKeptAlive \/ seen.born

Decide ==
    /\ pc = "decide"
    /\ LET d    == AfterCloseNow
           open == ShouldOpen(d)
       IN  /\ pc' = IF open THEN "opening" ELSE IF CloseNow /\ clip THEN "closing" ELSE "idle"
           /\ pending' = d.pending
           /\ retry' = d.retry
           /\ refused' = (d.refused /\ ~open)
           /\ delay' = IF d.refused /\ open THEN FirstDelay ELSE d.delay
    /\ closing' = PostRoll
    /\ wanted' = IF seen.born \/ AlertKeptAlive THEN TRUE ELSE wanted /\ ~CloseNow
    /\ quiet' = IF Motion THEN 0 ELSE quiet
    /\ UNCHANGED <<seen, live, clip, age, panic, failures, panics>>

(* recorder.open reads the panic flag, and may fail for other reasons: no  *)
(* ingester (refused as well), the file, the pipeline or the store.        *)
Opened ==
    /\ pc = "opening" /\ ~panic
    /\ clip' = TRUE
    /\ age' = 0
    /\ pending' = FALSE
    /\ retry' = Never
    /\ delay' = FirstDelay
    /\ pc' = "idle"
    /\ UNCHANGED <<seen, live, refused, closing, panic, wanted, quiet, failures, panics>>

OpenRefused ==
    /\ pc = "opening"
    /\ IF panic THEN UNCHANGED failures ELSE failures > 0 /\ failures' = failures - 1
    /\ pc' = "refused"
    /\ UNCHANGED <<seen, live, clip, age, demand, closing, panic, wanted, quiet, panics>>

OpenFailed ==
    /\ pc = "opening" /\ ~panic
    /\ failures > 0 /\ failures' = failures - 1
    /\ pc' = "failed"
    /\ UNCHANGED <<seen, live, clip, age, demand, closing, panic, wanted, quiet, panics>>

(* Mutant: the delay has no ceiling.                                       *)
BackoffDoubles ==
    /\ pc \in {"refused", "failed"}
    /\ refused' = IF pc = "refused" THEN panic ELSE refused
    /\ pending' = TRUE
    /\ retry' = delay
    /\ delay' = 2 * delay
    /\ pc' = "idle"
    /\ UNCHANGED <<seen, live, clip, age, closing, panic, wanted, quiet, failures, panics>>

(* The flag is read again only after the refusal.                          *)
Backoff ==
    /\ pc \in {"refused", "failed"}
    /\ refused' = IF pc = "refused" THEN panic ELSE refused
    /\ pending' = TRUE
    /\ retry' = delay
    /\ delay' = Upto(2 * delay, MaxDelay)
    /\ pc' = "idle"
    /\ UNCHANGED <<seen, live, clip, age, closing, panic, wanted, quiet, failures, panics>>

Closed ==
    /\ pc = "closing"
    /\ clip' = FALSE
    /\ age' = 0
    /\ pc' = "idle"
    /\ UNCHANGED <<seen, live, demand, closing, panic, wanted, quiet, failures, panics>>

-----------------------------------------------------------------------------
(* Specification                                                           *)

Answer == Rotated \/ Resized \/ Decide \/ Opened \/ OpenRefused \/ OpenFailed \/ Backoff \/ Closed

Next ==
    \/ Tick
    \/ SetPanic
    \/ Frame
    \/ FrameCut
    \/ \E born, alert \in BOOLEAN : Tracked(born, alert)
    \/ Answer

Spec == Init /\ [][Next]_vars

(* Time passes, frames come that the gate lets through and the detector    *)
(* does not fail for ever, the recorder answers, and eviction gets the     *)
(* disk out of panic.                                                      *)
FairSpec ==
    /\ Spec
    /\ SF_vars(Tick)
    /\ SF_vars(Frame)
    /\ SF_vars(\E born, alert \in BOOLEAN : Tracked(born, alert))
    /\ WF_vars(Answer)
    /\ WF_vars(panic /\ SetPanic)

-----------------------------------------------------------------------------
(* Properties                                                              *)

(* Between frames the supervisor holds or is trying to get a clip exactly  *)
(* while motion or an alert asked for one and the post-roll has not run    *)
(* out: no refusal, failure, rotation, resize or panic loses the demand,   *)
(* and none outlives it.  A backoff is armed only for an open that is      *)
(* still wanted, so it never delays the first clip of the next event.      *)
DemandKept ==
    pc = "idle" =>
        /\ clip \/ pending <=> wanted
        /\ retry # Never => pending /\ ~clip

(* A clip ends for lack of motion only after the whole post-roll without   *)
(* any: bursts inside the window share one clip.                           *)
ClosesAfterGrace == [][pc = "decide" /\ pc' = "closing" => quiet >= Grace]_vars

(* The supervisor's session with the recorder: one holder and, as far as   *)
(* it can tell, one clip.                                                  *)
Returning == pc \in {"rotating", "resizing", "closing"}

SessionStep ==
    IF pc = "opening" THEN "asking"
    ELSE IF Returning THEN "closing"
    ELSE IF clip THEN "held" ELSE "none"

Session == INSTANCE ClipSession
    WITH Holder <- {"supervisor"}, Clip <- {"clip"}, NoClip <- "none",
         step <- [h \in {"supervisor"} |-> SessionStep],
         hand <- [h \in {"supervisor"} |-> IF clip THEN "clip" ELSE "none"],
         open <- IF clip /\ ~Returning THEN {"clip"} ELSE {}

(* The supervisor keeps its side of the contract: whatever frames,         *)
(* failures, refusals and panics come, it asks only with empty hands,      *)
(* opens the next clip only after the close of the last has returned, and  *)
(* never forgets a clip that is open.                                      *)
SessionKept == Session!SSpec

(* Wanted footage is eventually recorded once the recorder works again,    *)
(* whatever order the panic flag and the refusals came in.                 *)
EventuallyOpens == wanted ~> (clip \/ ~wanted)
=============================================================================
