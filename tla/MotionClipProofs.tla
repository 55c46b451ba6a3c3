-------------------------- MODULE MotionClipProofs --------------------------
(***************************************************************************)
(* Proofs about MotionClip, for every grace, cap, delay and bound.         *)
(***************************************************************************)
EXTENDS MotionClip, TLAPS

(* The two halves of TypeOK.                                               *)
FlagsOK ==
    /\ seen \in Seen
    /\ live \in BOOLEAN
    /\ clip \in BOOLEAN
    /\ pending \in BOOLEAN
    /\ refused \in BOOLEAN
    /\ panic \in BOOLEAN
    /\ wanted \in BOOLEAN

TimesOK ==
    /\ pc \in {"idle", "rotating", "detect", "resizing", "decide", "opening", "refused", "failed",
             "closing"}
    /\ age \in 0 .. Cap
    /\ retry \in {Never} \cup 0 .. MaxDelay
    /\ delay \in FirstDelay .. MaxDelay
    /\ closing \in {Never} \cup 0 .. Grace
    /\ quiet \in 0 .. Grace
    /\ failures \in 0 .. MaxFailures
    /\ panics \in 0 .. MaxPanics

(* A born track counts as live in the frame that brought it.               *)
BornIsLive == pc = "decide" /\ seen.born => live

(* The demand of DemandKept, carried through the awaits of a frame.        *)
DemandInv ==
    /\ pc \in {"idle", "detect", "decide"} => (clip \/ pending <=> wanted)
    /\ pc \in {"rotating", "resizing"} => clip /\ wanted
    /\ pc \in {"opening", "refused", "failed"} => ~clip /\ wanted
    /\ pc = "closing" => clip /\ ~pending /\ ~wanted

(* Its backoff, likewise, and the same for a refusal by panic.             *)
RetryInv ==
    IF pc \in {"opening", "refused", "failed"} THEN ~refused
    ELSE refused \/ retry # Never => pending /\ ~clip

(* What is left of the post-roll and the quiet already seen make up the    *)
(* whole window.                                                           *)
GraceInv == closing # Never => closing + quiet >= Grace

IInv == FlagsOK /\ TimesOK /\ BornIsLive /\ DemandInv /\ RetryInv /\ GraceInv

LEMMA Delays ==
    /\ Grace \in Nat /\ Cap \in Nat /\ FirstDelay \in Nat /\ MaxDelay \in Nat
    /\ MaxFailures \in Nat /\ MaxPanics \in Nat
    /\ Cap > 0 /\ FirstDelay > 0 /\ FirstDelay <= MaxDelay
  BY DelayAssumption

LEMMA InitIInv == Init => IInv
  <1> SUFFICES ASSUME Init PROVE IInv
    OBVIOUS
  <1> USE DEF Init
  <1>1. FlagsOK
    BY DEF FlagsOK, Seen, Nothing
  <1>2. TimesOK /\ GraceInv
    BY Delays DEF TimesOK, GraceInv, Never
  <1>3. BornIsLive /\ DemandInv /\ RetryInv
    BY DEF BornIsLive, DemandInv, RetryInv
  <1> QED
    BY <1>1, <1>2, <1>3 DEF IInv

LEMMA TickStep == IInv /\ Tick => IInv'
  <1> SUFFICES ASSUME IInv, Tick PROVE IInv'
    OBVIOUS
  <1> USE Delays DEF IInv, Tick, Never
  <1>1a. FlagsOK'
    BY DEF FlagsOK, Seen
  <1>1b. TimesOK'
    BY DEF TimesOK, Upto, Less
  <1>2. BornIsLive' /\ DemandInv'
    BY DEF BornIsLive, DemandInv
  <1>3. RetryInv'
    BY DEF RetryInv, TimesOK, Less
  <1>4. GraceInv'
    BY DEF GraceInv, TimesOK, Upto, Less
  <1> QED
    BY <1>1a, <1>1b, <1>2, <1>3, <1>4

LEMMA PanicStep == IInv /\ SetPanic => IInv'
  <1> SUFFICES ASSUME IInv, SetPanic PROVE IInv'
    OBVIOUS
  <1> USE Delays DEF IInv, SetPanic, demand
  <1>1a. FlagsOK'
    BY DEF FlagsOK
  <1>1b. TimesOK'
    BY DEF TimesOK
  <1>2. BornIsLive' /\ DemandInv' /\ RetryInv' /\ GraceInv'
    BY DEF BornIsLive, DemandInv, RetryInv, GraceInv
  <1> QED
    BY <1>1a, <1>1b, <1>2

LEMMA FrameStep == IInv /\ Frame => IInv'
  <1> SUFFICES ASSUME IInv, Frame PROVE IInv'
    OBVIOUS
  <1> USE Delays DEF IInv, Frame, demand
  <1>1a. FlagsOK'
    BY DEF FlagsOK, Seen, Nothing
  <1>1b. TimesOK'
    BY DEF TimesOK
  <1>2. BornIsLive' /\ DemandInv' /\ RetryInv' /\ GraceInv'
    BY DEF BornIsLive, DemandInv, RetryInv, GraceInv
  <1> QED
    BY <1>1a, <1>1b, <1>2

LEMMA FrameCutStep == IInv /\ FrameCut => IInv'
  <1> SUFFICES ASSUME IInv, FrameCut PROVE IInv'
    OBVIOUS
  <1> USE Delays DEF IInv, FrameCut, demand
  <1>1a. FlagsOK'
    BY DEF FlagsOK
  <1>1b. TimesOK'
    BY DEF TimesOK
  <1>2. BornIsLive' /\ DemandInv' /\ RetryInv' /\ GraceInv'
    BY DEF BornIsLive, DemandInv, RetryInv, GraceInv
  <1> QED
    BY <1>1a, <1>1b, <1>2

LEMMA RotatedStep == IInv /\ Rotated => IInv'
  <1> SUFFICES ASSUME IInv, Rotated PROVE IInv'
    OBVIOUS
  <1> USE Delays DEF IInv, Rotated, demand
  <1>1a. FlagsOK'
    BY DEF FlagsOK
  <1>1b. TimesOK'
    BY DEF TimesOK
  <1>2. BornIsLive' /\ DemandInv' /\ RetryInv' /\ GraceInv'
    BY DEF BornIsLive, DemandInv, RetryInv, GraceInv
  <1> QED
    BY <1>1a, <1>1b, <1>2

LEMMA ResizedStep == IInv /\ Resized => IInv'
  <1> SUFFICES ASSUME IInv, Resized PROVE IInv'
    OBVIOUS
  <1> USE Delays DEF IInv, Resized, demand
  <1>1a. FlagsOK'
    BY DEF FlagsOK
  <1>1b. TimesOK'
    BY DEF TimesOK
  <1>2. BornIsLive' /\ DemandInv' /\ RetryInv' /\ GraceInv'
    BY DEF BornIsLive, DemandInv, RetryInv, GraceInv
  <1> QED
    BY <1>1a, <1>1b, <1>2

LEMMA TrackedStep == ASSUME NEW born \in BOOLEAN, NEW alert \in BOOLEAN, IInv, Tracked(born, alert)
                     PROVE  IInv'
  <1> USE Delays DEF IInv, Tracked, demand
  <1>1a. FlagsOK'
    BY DEF FlagsOK, Seen
  <1>1b. TimesOK'
    BY DEF TimesOK
  <1>2. BornIsLive'
    BY DEF BornIsLive
  <1>3. DemandInv' /\ RetryInv' /\ GraceInv'
    BY DEF DemandInv, RetryInv, GraceInv
  <1> QED
    BY <1>1a, <1>1b, <1>2, <1>3

LEMMA DecideStep == IInv /\ Decide => IInv'
  <1> SUFFICES ASSUME IInv, Decide PROVE IInv'
    OBVIOUS
  <1> USE Delays DEF IInv, Decide, Never
  <1>1. CloseNow => ~seen.born /\ ~AlertKeptAlive
    BY DEF CloseNow, Motion, BornIsLive
  <1>2a. FlagsOK'
    BY DEF FlagsOK, AfterCloseNow
  <1>2b. TimesOK'
    BY DEF TimesOK, AfterCloseNow, PostRoll
  <1>3. BornIsLive'
    BY DEF BornIsLive
  <1>4. DemandInv'
    BY <1>1 DEF DemandInv, RetryInv, FlagsOK, TimesOK, AfterCloseNow, ShouldOpen
  <1>5. RetryInv'
    BY DEF RetryInv, DemandInv, FlagsOK, TimesOK, AfterCloseNow, ShouldOpen
  <1>6. GraceInv'
    BY DEF GraceInv, TimesOK, PostRoll, CloseNow
  <1> QED
    BY <1>2a, <1>2b, <1>3, <1>4, <1>5, <1>6

LEMMA AnswerStep ==
    IInv /\ (Opened \/ OpenRefused \/ OpenFailed \/ Backoff \/ Closed) => IInv'
  <1> SUFFICES ASSUME IInv, Opened \/ OpenRefused \/ OpenFailed \/ Backoff \/ Closed PROVE IInv'
    OBVIOUS
  <1> USE Delays DEF IInv, demand
  <1>1. CASE Opened
    <2>1a. FlagsOK'
      BY <1>1 DEF FlagsOK, Opened
    <2>1b. TimesOK'
      BY <1>1 DEF TimesOK, Opened, Never
    <2>2. BornIsLive' /\ DemandInv' /\ RetryInv' /\ GraceInv'
      BY <1>1 DEF Opened, BornIsLive, DemandInv, RetryInv, GraceInv
    <2> QED
      BY <2>1a, <2>1b, <2>2
  <1>2. CASE OpenRefused
    <2>1a. FlagsOK'
      BY <1>2 DEF FlagsOK, OpenRefused
    <2>1b. TimesOK'
      BY <1>2 DEF TimesOK, OpenRefused
    <2>2. BornIsLive' /\ DemandInv' /\ RetryInv' /\ GraceInv'
      BY <1>2 DEF OpenRefused, BornIsLive, DemandInv, RetryInv, GraceInv
    <2> QED
      BY <2>1a, <2>1b, <2>2
  <1>3. CASE OpenFailed
    <2>1a. FlagsOK'
      BY <1>3 DEF FlagsOK, OpenFailed
    <2>1b. TimesOK'
      BY <1>3 DEF TimesOK, OpenFailed
    <2>2. BornIsLive' /\ DemandInv' /\ RetryInv' /\ GraceInv'
      BY <1>3 DEF OpenFailed, BornIsLive, DemandInv, RetryInv, GraceInv
    <2> QED
      BY <2>1a, <2>1b, <2>2
  <1>4. CASE Backoff
    <2>1a. FlagsOK'
      BY <1>4 DEF FlagsOK, Backoff
    <2>1b. TimesOK'
      BY <1>4 DEF TimesOK, Backoff, Upto
    <2>2. BornIsLive' /\ DemandInv' /\ RetryInv' /\ GraceInv'
      BY <1>4 DEF Backoff, BornIsLive, DemandInv, RetryInv, GraceInv
    <2> QED
      BY <2>1a, <2>1b, <2>2
  <1>5. CASE Closed
    <2>1a. FlagsOK'
      BY <1>5 DEF FlagsOK, Closed
    <2>1b. TimesOK'
      BY <1>5 DEF TimesOK, Closed
    <2>2. BornIsLive' /\ DemandInv' /\ RetryInv' /\ GraceInv'
      BY <1>5 DEF Closed, BornIsLive, DemandInv, RetryInv, GraceInv
    <2> QED
      BY <2>1a, <2>1b, <2>2
  <1> QED
    BY <1>1, <1>2, <1>3, <1>4, <1>5

LEMMA NextIInv == IInv /\ [Next]_vars => IInv'
  <1> SUFFICES ASSUME IInv, [Next]_vars PROVE IInv'
    OBVIOUS
  <1>1. CASE Next
    BY <1>1, TickStep, PanicStep, FrameStep, FrameCutStep, TrackedStep, RotatedStep, ResizedStep,
       DecideStep, AnswerStep DEF Next, Answer
  <1>2. CASE UNCHANGED vars
    BY <1>2 DEF vars, demand, IInv, FlagsOK, TimesOK, BornIsLive, DemandInv, RetryInv, GraceInv
  <1> QED
    BY <1>1, <1>2

LEMMA IInvariance == Spec => []IInv
  BY InitIInv, NextIInv, PTL DEF Spec

(* The supervisor's state stays in its type; in particular the retry delay *)
(* never leaves its bounds however often opens fail.                       *)
THEOREM TypeCorrect == Spec => []TypeOK
  <1>1. IInv => TypeOK
    BY DEF IInv, FlagsOK, TimesOK, TypeOK
  <1> QED
    BY <1>1, IInvariance, PTL

(* No refusal, failure, rotation, resize or panic loses a demand for       *)
(* footage, no demand outlives the post-roll, and no backoff its event.    *)
THEOREM DemandIsKept == Spec => []DemandKept
  <1>1. IInv => DemandKept
    BY DEF IInv, DemandInv, RetryInv, DemandKept
  <1> QED
    BY <1>1, IInvariance, PTL

(* A clip is closed for lack of motion only after the whole post-roll      *)
(* without any.                                                            *)
THEOREM ClosesOnlyAfterGrace == Spec => ClosesAfterGrace
  <1>1. IInv /\ [Next]_vars => [pc = "decide" /\ pc' = "closing" => quiet >= Grace]_vars
    <2> SUFFICES ASSUME IInv, Next, pc = "decide", pc' = "closing"
                 PROVE  quiet >= Grace
      OBVIOUS
    <2>1. Decide
      BY DEF Next, Answer, Tick, SetPanic, Frame, FrameCut, Tracked, Rotated, Resized, Opened,
             OpenRefused, OpenFailed, Backoff, Closed
    <2>2. CloseNow
      BY <2>1 DEF Decide
    <2>3. closing = 0 => quiet >= Grace
      BY Delays DEF IInv, TimesOK, GraceInv, Never
    <2> QED
      BY <2>2, <2>3, Delays DEF CloseNow, IInv, TimesOK
  <1> QED
    BY <1>1, IInvariance, PTL DEF Spec, ClosesAfterGrace
-----------------------------------------------------------------------------
(* The session with the recorder                                           *)

Hand == IF clip THEN "clip" ELSE "none"

(* Two functions on the one supervisor.                                    *)
LEMMA OneHolder ==
  ASSUME NEW x, NEW y
  PROVE  [h \in {"supervisor"} |-> y] = [[h \in {"supervisor"} |-> x] EXCEPT !["supervisor"] = y]
  OBVIOUS

LEMMA SessionTo == Session!To("supervisor", SessionStep', Hand')
  BY OneHolder DEF Session!To, Hand

LEMMA SessionStutters ==
  ASSUME SessionStep' = SessionStep, clip' = clip, (Returning' <=> Returning)
  PROVE  [Session!SNext]_(Session!svars)
  BY DEF Session!svars

LEMMA SessionMoves ==
  ASSUME IInv, Next
  PROVE  [Session!SNext]_(Session!svars)
  <1>0. /\ DemandInv /\ clip \in BOOLEAN
        /\ pc \in {"rotating", "resizing", "closing"} => clip
        /\ pc \in {"opening", "refused", "failed"} => ~clip
    BY DEF IInv, DemandInv, FlagsOK
  <1>1. CASE Tick \/ SetPanic \/ Backoff \/ \E born, alert \in BOOLEAN : Tracked(born, alert)
    <2>1. /\ clip' = clip
          /\ \/ pc' = pc
             \/ /\ pc \notin {"opening", "rotating", "resizing", "closing"}
                /\ pc' \notin {"opening", "rotating", "resizing", "closing"}
      BY <1>1 DEF Tick, SetPanic, Backoff, Tracked
    <2>2. SessionStep' = SessionStep
      BY <2>1 DEF SessionStep, Returning
    <2>3. (Returning' <=> Returning)
      BY <2>1 DEF Returning
    <2> QED
      BY <2>1, <2>2, <2>3, SessionStutters
  <1>2. CASE Frame \/ FrameCut \/ Decide
    <2>1. clip' = clip
      BY <1>2 DEF Frame, FrameCut, Decide
    <2>2. CASE SessionStep' = SessionStep /\ (Returning' <=> Returning)
      BY <2>1, <2>2, SessionStutters
    <2>3. CASE ~clip /\ SessionStep = "none" /\ SessionStep' = "asking"
      <3>1. Session!Ask("supervisor")
        BY <2>1, <2>3, SessionTo DEF Session!Ask, Hand
      <3> QED
        BY <3>1 DEF Session!SNext
    <2>4. CASE clip /\ SessionStep = "held" /\ SessionStep' = "closing" /\ ~Returning /\ Returning'
      <3>1. Session!Return("supervisor")
        BY <2>1, <2>4, SessionTo DEF Session!Return, Hand
      <3> QED
        BY <3>1 DEF Session!SNext
    <2>5. CASE Decide
      BY <2>5, <2>2, <2>3, <2>4, <1>0 DEF Decide, SessionStep, Returning, ShouldOpen, AfterCloseNow
    <2>6. CASE Frame \/ FrameCut
      BY <2>6, <2>2, <2>4, <1>0 DEF Frame, FrameCut, SessionStep, Returning
    <2> QED
      BY <1>2, <2>5, <2>6
  <1>3. CASE Rotated \/ Resized \/ Closed
    <2>1. SessionStep = "closing" /\ SessionStep' = "none" /\ Returning /\ ~clip' /\ ~Returning'
      BY <1>3 DEF Rotated, Resized, Closed, SessionStep, Returning
    <2>2. Session!Returned("supervisor")
      BY <2>1, SessionTo DEF Session!Returned, Hand
    <2> QED
      BY <2>2 DEF Session!SNext
  <1>4. CASE Opened
    <2>1. SessionStep = "asking" /\ SessionStep' = "held" /\ ~clip /\ clip' /\ ~Returning'
      BY <1>4, <1>0 DEF Opened, SessionStep, Returning
    <2>2. Session!Grant("supervisor", "clip")
      BY <2>1, SessionTo DEF Session!Grant, Session!Unnamed, Hand
    <2> QED
      BY <2>2 DEF Session!SNext
  <1>5. CASE OpenRefused \/ OpenFailed
    <2>1. SessionStep = "asking" /\ SessionStep' = "none" /\ ~clip /\ ~clip'
      BY <1>5, <1>0 DEF OpenRefused, OpenFailed, SessionStep, Returning
    <2>2. Session!Deny("supervisor")
      BY <2>1, SessionTo DEF Session!Deny, Hand
    <2> QED
      BY <2>2 DEF Session!SNext
  <1> QED
    BY <1>1, <1>2, <1>3, <1>4, <1>5 DEF Next, Answer

(* One supervisor keeps the contract it has with the recorder.             *)
THEOREM SessionIsKept == Spec => SessionKept
  <1>1. Init => Session!SInit
    BY DEF Init, Session!SInit, SessionStep, Returning
  <1>2. IInv /\ [Next]_vars => [Session!SNext]_(Session!svars)
    <2> SUFFICES ASSUME IInv, UNCHANGED vars PROVE [Session!SNext]_(Session!svars)
      BY SessionMoves
    <2>1. SessionStep' = SessionStep /\ clip' = clip /\ (Returning' <=> Returning)
      BY DEF vars, SessionStep, Returning
    <2> QED
      BY <2>1, SessionStutters
  <1> QED
    BY <1>1, <1>2, IInvariance, PTL DEF Spec, SessionKept, Session!SSpec
=============================================================================
