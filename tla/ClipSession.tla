---------------------------- MODULE ClipSession ----------------------------
(***************************************************************************)
(* How a supervisor and the clip recorder share a clip: what               *)
(* recorder.open and recorder.close of                                     *)
(* crates/nexus-pipeline/src/gst_clip_recorder.rs promise to the holder of *)
(* a clip id, and what the holder promises in return.                      *)
(*   - a holder asks only with empty hands, and is given a clip that       *)
(*     nobody else names;                                                  *)
(*   - a clip in the recorder's open map leaves it through its holder's    *)
(*     close, or the drain at shutdown; a living holder lets go of its     *)
(*     clip only by closing it, or when the recorder no longer knows it;   *)
(*   - a holder's task may be dropped anywhere; what is in the open map    *)
(*     stays there.                                                        *)
(* MotionClip implements this for the decisions of one supervisor,         *)
(* CameraRuntime for the tasks of all of them: it is the contract by which *)
(* the two models fit together.                                            *)
(***************************************************************************)
CONSTANTS
    Holder,     \* the supervisor tasks
    Clip,       \* clip ids
    NoClip

VARIABLES
    step,       \* where each holder is in its session
    hand,       \* the clip each holder was given and has not let go of
    open        \* the recorder's open map

svars == <<step, hand, open>>

SInit ==
    /\ step \in [Holder -> {"gone", "none"}]
    /\ hand = [h \in Holder |-> NoClip]
    /\ open = {}

(* The session of h moves on to step p with clip k in its hand.            *)
To(h, p, k) ==
    /\ step' = [step EXCEPT ![h] = p]
    /\ hand' = [hand EXCEPT ![h] = k]

Unnamed(k) == k \notin open /\ \A h \in Holder : hand[h] # k

Start(h) == step[h] = "gone" /\ To(h, "none", NoClip) /\ UNCHANGED open

Ask(h) == step[h] = "none" /\ To(h, "asking", NoClip) /\ UNCHANGED open

Deny(h) == step[h] = "asking" /\ To(h, "none", NoClip) /\ UNCHANGED open

Grant(h, k) ==
    /\ step[h] = "asking" /\ Unnamed(k)
    /\ To(h, "held", k)
    /\ open' = open \cup {k}

(* A close takes the clip out of the open map before anything else.        *)
Return(h) ==
    /\ step[h] = "held" /\ hand[h] \in open
    /\ To(h, "closing", hand[h])
    /\ open' = open \ {hand[h]}

Returned(h) == step[h] = "closing" /\ To(h, "none", NoClip) /\ UNCHANGED open

UnknownClip(h) ==
    /\ step[h] = "held" /\ hand[h] \notin open
    /\ To(h, "none", NoClip)
    /\ UNCHANGED open

DrainOne(k) == open' = open \ {k} /\ UNCHANGED <<step, hand>>

(* The tasks of H end.                                                     *)
Drop(H) ==
    /\ step' = [h \in Holder |-> IF h \in H THEN "gone" ELSE step[h]]
    /\ hand' = [h \in Holder |-> IF h \in H THEN NoClip ELSE hand[h]]
    /\ UNCHANGED open

(* A task that was told to end finishes the poll it is in: its open or its *)
(* close takes effect in the open map, and nobody awaits the answer.       *)
DropGranted(h, k) ==
    /\ step[h] = "asking" /\ Unnamed(k)
    /\ To(h, "gone", NoClip)
    /\ open' = open \cup {k}

DropReturning(h) ==
    /\ step[h] = "held" /\ hand[h] \in open
    /\ To(h, "gone", NoClip)
    /\ open' = open \ {hand[h]}

(* The process ends.                                                       *)
End ==
    /\ step' = [h \in Holder |-> "gone"]
    /\ hand' = [h \in Holder |-> NoClip]
    /\ open' = {}

SNext ==
    \/ \E h \in Holder :
          \/ Start(h) \/ Ask(h) \/ Deny(h) \/ Return(h) \/ Returned(h) \/ UnknownClip(h)
          \/ DropReturning(h)
          \/ \E k \in Clip : Grant(h, k) \/ DropGranted(h, k)
    \/ \E k \in Clip : DrainOne(k)
    \/ \E H \in SUBSET Holder : Drop(H)
    \/ End

SSpec == SInit /\ [][SNext]_svars
=============================================================================
