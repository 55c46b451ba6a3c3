------------------------ MODULE CameraRuntimeProofs ------------------------
(***************************************************************************)
(* Proofs about CameraRuntime, for every set of cameras, configurations,   *)
(* supervisors and clips and every bound.                                  *)
(***************************************************************************)
EXTENDS CameraRuntime, TLAPS

-----------------------------------------------------------------------------
(* The inductive invariant                                                 *)

(* Where the reconciler is in a pass, and what that says of the map: the   *)
(* camera it is stopping still has its entry, the one it is starting does  *)
(* not have one yet.  Once main has joined it, it does nothing.            *)
RecInv ==
    /\ \A c, d \in rec.cam : c = d
    /\ main # "up" => rec.pc = "ended"
    /\ rec.pc = "stopping" =>
          \A c \in rec.cam : HasEntry(c) /\ rec.task = {SupOf(c)}
    /\ rec.pc \in {"probing", "starting"} =>
          \A c \in rec.cam : ~HasEntry(c) /\ rec.live[c] # NoConfig

(* A main ingester on the retry list is not registered.                    *)
PendingInv == \A c \in Camera : HasEntry(c) /\ handles[c].pending => ing[c] = NoConfig

(* What the clip of a supervisor in state r has to be in m.                *)
Holds(r, m) ==
    /\ r.pc \in {"gone", "opening"} => r.clip = NoClip
    /\ r.pc \in {"row", "closing", "ending"} => r.clip # NoClip
    /\ r.clip # NoClip =>
          m[r.clip] = IF r.pc = "row" THEN "row"
                      ELSE IF r.pc \in {"closing", "ending"} THEN "closing" ELSE "open"

(* Until something is forced, each unfinished clip has exactly one         *)
(* supervisor, and that one knows in which state it is.                    *)
OwnInv ==
    ~forced =>
       /\ main \in {"up", "joined"}
       /\ \A s \in Sup : ~sup[s].aborted /\ Holds(sup[s], clips)
       /\ \A s, t \in Sup : sup[s].clip = sup[t].clip /\ sup[s].clip # NoClip => s = t
       /\ \A k \in Clip : clips[k] # "free" => \E s \in Sup : sup[s].clip = k

(* Whatever was forced, a supervisor names a clip exactly while it has     *)
(* one, nobody else names it, and nobody else moves it: only the drain may *)
(* have closed a clip that its holder takes for open.                      *)
Names(r, m) ==
    /\ r.pc \in {"gone", "opening"} => r.clip = NoClip
    /\ r.pc \in {"row", "closing", "ending"} => r.clip # NoClip
    /\ r.clip # NoClip =>
          m[r.clip] \in IF r.pc = "row" THEN {"row"}
                        ELSE IF r.pc \in {"closing", "ending"} THEN {"closing"}
                        ELSE {"open", "free"}

HoldInv ==
    /\ \A s \in Sup : Names(sup[s], clips)
    /\ \A s, t \in Sup : sup[s].clip = sup[t].clip /\ sup[s].clip # NoClip => s = t

IInv == TypeOK /\ RecInv /\ PendingInv /\ SweepReachesAll /\ OwnInv

LEMMA SupIsPair == \A s \in Sup : s[1] \in Camera /\ s[2] \in Slot /\ s = <<s[1], s[2]>>
  BY DEF Sup

LEMMA GoneIsSupState == Gone \in SupState /\ Fresh \in SupState /\ Fresh.pc = "wait" /\ ~Fresh.aborted
                        /\ Fresh.clip = NoClip /\ Gone.pc = "gone" /\ ~Gone.aborted /\ Gone.clip = NoClip
  BY DEF Gone, Fresh, SupState, SupPc

(* An entry built for a configuration is an entry.                         *)
LEMMA EntryIsEntry ==
  ASSUME NEW s \in Slot, NEW k \in Config, NEW p \in BOOLEAN, NEW a \in BOOLEAN,
         NEW e, e = [slot |-> s, key |-> k, pending |-> p, analysis |-> a]
  PROVE  e \in Entry /\ e # NoEntry /\ e.slot = s /\ e.pending = p
  <1>1. e.key = k
    OBVIOUS
  <1>2. NoEntry.key = NoConfig
    BY DEF NoEntry
  <1>3. e # NoEntry
    BY <1>1, <1>2, ConfigAssumption
  <1> QED
    BY <1>3 DEF Entry

LEMMA EntryFields ==
  ASSUME TypeOK, NEW c \in Camera, HasEntry(c)
  PROVE  handles[c] \in Entry /\ handles[c].slot \in Slot /\ SupOf(c) \in Sup /\ SupOf(c)[1] = c
  BY DEF TypeOK, HasEntry, Entry, SupOf, Sup

-----------------------------------------------------------------------------
(* Steps of a supervisor                                                   *)

LEMMA OrphanType ==
  ASSUME NEW m \in [Clip -> ClipState], NEW k
  PROVE  Orphan(m, k) \in [Clip -> ClipState]
  BY DEF Orphan, ClipState

LEMMA MoveType ==
  ASSUME TypeOK, NEW s \in Sup, NEW p \in SupPc, NEW k \in Clip \cup {NoClip}
  PROVE  [sup EXCEPT ![s].pc = p, ![s].clip = k] \in [Sup -> SupState]
  BY DEF TypeOK, SupState

LEMMA PollStep ==
  ASSUME TypeOK, NEW s \in Sup, sup[s].pc # "gone", NEW p \in SupPc, NEW k \in Clip \cup {NoClip},
         NEW m \in [Clip -> ClipState], Poll(s, p, k, m)
  PROVE  /\ sup' \in [Sup -> SupState]
         /\ clips' \in [Clip -> ClipState]
         /\ \A t \in Sup : Alive(t)' => Alive(t)
  <1>1. CASE sup[s].aborted \/ p = "gone"
    <2>1. sup' = [sup EXCEPT ![s] = Gone] /\ clips' = Orphan(m, k)
      BY <1>1 DEF Poll
    <2>2. \A t \in Sup : Alive(t)' => Alive(t)
      BY <2>1, GoneIsSupState DEF TypeOK, Alive, Finished
    <2> QED
      BY <2>1, <2>2, OrphanType, GoneIsSupState DEF TypeOK
  <1>2. CASE ~(sup[s].aborted \/ p = "gone")
    <2>1. sup' = [sup EXCEPT ![s].pc = p, ![s].clip = k] /\ clips' = m
      BY <1>2 DEF Poll
    <2>2. sup' \in [Sup -> SupState]
      BY <2>1, MoveType
    <2>3. \A t \in Sup : Alive(t)' => Alive(t)
      BY <2>1, <1>2 DEF TypeOK, Alive, Finished, SupState
    <2> QED
      BY <2>1, <2>2, <2>3
  <1> QED
    BY <1>1, <1>2

LEMMA SpendType ==
  ASSUME TypeOK, NEW b \in {"edit", "exit", "refusal"}, Spend(b)
  PROVE  budget' \in [{"edit", "exit", "refusal"} -> Nat]
  BY DEF TypeOK, Spend

(* What a step of a supervisor may do: it leaves everybody else's state    *)
(* alone and brings no supervisor to life.                                 *)
LEMMA SuperviseShape ==
  ASSUME TypeOK, NEW s \in Sup, Supervise(s) \/ SourceEnds(s) \/ Panic(s)
  PROVE  /\ UNCHANGED supOnly
         /\ sup' \in [Sup -> SupState]
         /\ clips' \in [Clip -> ClipState]
         /\ forced' \in BOOLEAN
         /\ budget' \in [{"edit", "exit", "refusal"} -> Nat]
         /\ \A t \in Sup : Alive(t)' => Alive(t)
  <1>0. /\ sup[s].clip \in Clip \cup {NoClip} /\ clips \in [Clip -> ClipState]
        /\ forced \in BOOLEAN /\ budget \in [{"edit", "exit", "refusal"} -> Nat]
        /\ {"wait", "frame", "opening", "row", "closing", "ending", "gone"} \subseteq SupPc
        /\ {"open", "closing", "free", "row"} \subseteq ClipState
        /\ \A k : \A z \in ClipState : [clips EXCEPT ![k] = z] \in [Clip -> ClipState]
    BY DEF TypeOK, SupState, SupPc, ClipState
  <1> DEFINE Polled == \E p \in SupPc, k \in Clip \cup {NoClip}, m \in [Clip -> ClipState] : Poll(s, p, k, m)
  <1>1. sup[s].pc # "gone" /\ Polled
           => /\ sup' \in [Sup -> SupState]
              /\ clips' \in [Clip -> ClipState]
              /\ \A t \in Sup : Alive(t)' => Alive(t)
    BY PollStep
  <1>2. ASSUME NEW p \in SupPc, NEW q \in SupPc, CloseTo(s, p, q) PROVE Polled
    BY <1>2, <1>0 DEF CloseTo
  <1>3. ASSUME EndLoop(s) PROVE Polled
    <2>1. CASE sup[s].clip = NoClip
      BY <2>1, <1>3, <1>0 DEF EndLoop
    <2>2. CASE sup[s].clip # NoClip
      BY <2>2, <1>3, <1>2, <1>0 DEF EndLoop
    <2> QED
      BY <2>1, <2>2
  <1> HIDE DEF Polled
  <1> USE <1>0, <1>1
  <1>a. CASE FrameBegin(s)
    BY <1>a DEF FrameBegin, Polled
  <1>b. CASE FrameEnd(s)
    BY <1>b DEF FrameEnd, Polled
  <1>c. CASE OpenBegin(s)
    BY <1>c DEF OpenBegin, Polled
  <1>d. CASE OpenFail(s)
    BY <1>d DEF OpenFail, Polled
  <1>e. CASE OpenRow(s)
    <2>1. PICK k \in Clip : /\ clips' = [clips EXCEPT ![k] = "row"]
                            /\ sup' = [sup EXCEPT ![s].pc = "row", ![s].clip = k]
      BY <1>e DEF OpenRow
    <2>2. sup' \in [Sup -> SupState]
      BY <2>1, MoveType
    <2>3. \A t \in Sup : Alive(t)' => Alive(t)
      BY <2>1, <1>e DEF OpenRow, TypeOK, Alive, Finished, SupState
    <2> QED
      BY <2>1, <2>2, <2>3, <1>e DEF OpenRow
  <1>f. CASE OpenInsert(s)
    BY <1>f DEF OpenInsert, Polled
  <1>g. CASE CloseBegin(s)
    BY <1>g, <1>2 DEF CloseBegin
  <1>h. CASE CloseEnd(s)
    BY <1>h DEF CloseEnd, Polled
  <1>i. CASE StopSeen(s)
    BY <1>i, <1>3 DEF StopSeen
  <1>j. CASE AbortLands(s) \/ Panic(s)
    <2>1. sup' = [sup EXCEPT ![s] = Gone] /\ clips' = Orphan(clips, sup[s].clip)
      BY <1>j DEF AbortLands, Panic
    <2>2. \A t \in Sup : Alive(t)' => Alive(t)
      BY <2>1, GoneIsSupState DEF TypeOK, Alive, Finished
    <2>3. sup' \in [Sup -> SupState] /\ clips' \in [Clip -> ClipState]
      BY <2>1, OrphanType, GoneIsSupState DEF TypeOK
    <2>4. UNCHANGED supOnly /\ forced' \in BOOLEAN
      BY <1>j DEF AbortLands, Panic
    <2>5. budget' \in [{"edit", "exit", "refusal"} -> Nat]
      BY <1>j, SpendType DEF AbortLands, Panic
    <2> QED
      BY <2>2, <2>3, <2>4, <2>5
  <1>k. CASE SourceEnds(s)
    BY <1>k, <1>3, SpendType DEF SourceEnds
  <1> QED
    BY <1>a, <1>b, <1>c, <1>d, <1>e, <1>f, <1>g, <1>h, <1>i, <1>j, <1>k DEF Supervise

(* A step that leaves everything but the supervisors and the clips alone   *)
(* and brings no supervisor to life keeps the map's part of the invariant. *)
LEMMA SuperviseKeepsMap ==
  ASSUME IInv, NEW s \in Sup, Supervise(s) \/ SourceEnds(s) \/ Panic(s)
  PROVE  TypeOK' /\ RecInv' /\ PendingInv' /\ SweepReachesAll'
  <1>1. TypeOK /\ UNCHANGED supOnly
    BY SuperviseShape DEF IInv
  <1>2. TypeOK'
    BY SuperviseShape, <1>1 DEF TypeOK, supOnly
  <1>3. RecInv' /\ PendingInv'
    BY <1>1 DEF IInv, RecInv, PendingInv, supOnly, HasEntry, SupOf
  <1>4. SweepReachesAll'
    <2> SUFFICES ASSUME NEW t \in Sup, Alive(t)'
                 PROVE  main' \in {"up", "joined"} /\ HasEntry(t[1])' /\ SupOf(t[1])' = t
      BY DEF SweepReachesAll
    <2>1. Alive(t)
      BY SuperviseShape, <1>1
    <2> QED
      BY <2>1, <1>1 DEF IInv, SweepReachesAll, supOnly, HasEntry, SupOf
  <1> QED
    BY <1>2, <1>3, <1>4

(* Only supervisor s moves: what has to hold of its new state and of the   *)
(* clips for the ownership of the clips to survive.                        *)
LEMMA OwnStep ==
  ASSUME TypeOK, OwnInv, ~forced, UNCHANGED main,
         sup' \in [Sup -> SupState], NEW s \in Sup,
         \A t \in Sup : t # s => sup'[t] = sup[t],
         ~sup'[s].aborted, Holds(sup'[s], clips'),
         sup'[s].clip \in {NoClip, sup[s].clip} \/ clips[sup'[s].clip] = "free",
         \A j \in Clip : j \notin {sup[s].clip, sup'[s].clip} => clips'[j] = clips[j],
         sup[s].clip \notin {NoClip, sup'[s].clip} => clips'[sup[s].clip] = "free"
  PROVE  OwnInv'
  <1>0. /\ main \in {"up", "joined"}
        /\ \A t \in Sup : ~sup[t].aborted /\ Holds(sup[t], clips) /\ sup[t].clip \in Clip \cup {NoClip}
        /\ \A t, u \in Sup : sup[t].clip = sup[u].clip /\ sup[t].clip # NoClip => t = u
        /\ \A k \in Clip : clips[k] # "free" => \E t \in Sup : sup[t].clip = k
    BY DEF OwnInv, TypeOK, SupState
  <1>2. ASSUME NEW t \in Sup, t # s, sup[t].clip # NoClip
        PROVE  sup[t].clip \notin {sup[s].clip, sup'[s].clip}
    <2>1. sup[t].clip # sup[s].clip
      BY <1>0, <1>2
    <2>2. clips[sup[t].clip] # "free"
      BY <1>0, <1>2 DEF Holds
    <2> QED
      BY <2>1, <2>2, <1>2
  <1>3. ASSUME NEW t \in Sup PROVE ~sup'[t].aborted /\ Holds(sup'[t], clips')
    <2>1. CASE t = s
      BY <2>1
    <2>2. CASE t # s
      <3>1. sup[t].clip # NoClip => clips'[sup[t].clip] = clips[sup[t].clip]
        BY <2>2, <1>2, <1>0
      <3> QED
        BY <3>1, <2>2, <1>0 DEF Holds
    <2> QED
      BY <2>1, <2>2
  <1>4. ASSUME NEW t \in Sup, NEW u \in Sup, sup'[t].clip = sup'[u].clip, sup'[t].clip # NoClip
        PROVE  t = u
    BY <1>4, <1>2, <1>0
  <1>5. ASSUME NEW k \in Clip, clips'[k] # "free" PROVE \E t \in Sup : sup'[t].clip = k
    <2>1. CASE k = sup'[s].clip
      BY <2>1
    <2>2. CASE k # sup'[s].clip
      <3>1. k # sup[s].clip
        BY <2>2, <1>5, ConfigAssumption
      <3>2. PICK t \in Sup : sup[t].clip = k
        BY <3>1, <2>2, <1>5, <1>0
      <3> QED
        BY <3>1, <3>2
    <2> QED
      BY <2>1, <2>2
  <1> QED
    BY <1>0, <1>3, <1>4, <1>5 DEF OwnInv

LEMMA PollMoves ==
  ASSUME NEW s, ~sup[s].aborted, NEW p, p # "gone", NEW k, NEW m, Poll(s, p, k, m)
  PROVE  sup' = [sup EXCEPT ![s].pc = p, ![s].clip = k] /\ clips' = m
  BY DEF Poll

LEMMA PollEnds ==
  ASSUME NEW s, NEW m \in [Clip -> ClipState], Poll(s, "gone", NoClip, m)
  PROVE  sup' = [sup EXCEPT ![s] = Gone] /\ clips' = m
  <1>1. sup' = [sup EXCEPT ![s] = Gone] /\ clips' = Orphan(m, NoClip)
    BY DEF Poll
  <1> QED
    BY <1>1, ConfigAssumption DEF Orphan
LEMMA OwnMove ==
  ASSUME TypeOK, OwnInv, ~forced, UNCHANGED main,
         NEW s \in Sup, NEW p \in SupPc \ {"gone"}, NEW k \in Clip \cup {NoClip},
         NEW m \in [Clip -> ClipState], Poll(s, p, k, m),
         p = "opening" => k = NoClip,
         p \in {"row", "closing", "ending"} => k # NoClip,
         k # NoClip => m[k] = IF p = "row" THEN "row"
                              ELSE IF p \in {"closing", "ending"} THEN "closing" ELSE "open",
         k \in {NoClip, sup[s].clip} \/ clips[k] = "free",
         \A j \in Clip : j \notin {sup[s].clip, k} => m[j] = clips[j],
         sup[s].clip \notin {NoClip, k} => m[sup[s].clip] = "free"
  PROVE  OwnInv'
  <1>1. ~sup[s].aborted /\ sup[s] \in SupState
    BY DEF OwnInv, TypeOK
  <1>2. sup' = [sup EXCEPT ![s].pc = p, ![s].clip = k] /\ clips' = m
    BY <1>1, PollMoves
  <1>3. sup' \in [Sup -> SupState]
    BY <1>2, MoveType
  <1>4. /\ \A t \in Sup : t # s => sup'[t] = sup[t]
        /\ sup'[s].pc = p /\ sup'[s].clip = k /\ ~sup'[s].aborted
    BY <1>1, <1>2 DEF TypeOK, SupState
  <1>5. Holds(sup'[s], clips')
    BY <1>2, <1>4 DEF Holds
  <1> QED
    BY <1>2, <1>3, <1>4, <1>5, OwnStep

LEMMA OwnEnd ==
  ASSUME TypeOK, OwnInv, ~forced, UNCHANGED main,
         NEW s \in Sup, NEW m \in [Clip -> ClipState], Poll(s, "gone", NoClip, m),
         \A j \in Clip : j # sup[s].clip => m[j] = clips[j],
         sup[s].clip # NoClip => m[sup[s].clip] = "free"
  PROVE  OwnInv'
  <1>1. sup' = [sup EXCEPT ![s] = Gone] /\ clips' = m
    BY PollEnds
  <1>2. /\ sup' \in [Sup -> SupState]
        /\ sup'[s] = Gone /\ \A t \in Sup : t # s => sup'[t] = sup[t]
    BY <1>1, GoneIsSupState DEF TypeOK
  <1>3. Holds(sup'[s], clips')
    BY <1>2, GoneIsSupState DEF Holds
  <1>4. ~sup'[s].aborted /\ sup'[s].clip = NoClip
    BY <1>2, GoneIsSupState
  <1> QED
    BY <1>1, <1>2, <1>3, <1>4, OwnStep

LEMMA OwnEndLoop ==
  ASSUME TypeOK, OwnInv, ~forced, UNCHANGED main,
         NEW s \in Sup, sup[s].pc = "wait", EndLoop(s)
  PROVE  OwnInv'
  <1>0. sup[s].clip \in Clip \cup {NoClip} /\ clips \in [Clip -> ClipState] /\ Holds(sup[s], clips)
    BY DEF OwnInv, TypeOK, SupState
  <1>1. CASE sup[s].clip = NoClip
    <2>1. Poll(s, "gone", NoClip, clips)
      BY <1>1 DEF EndLoop
    <2> QED
      BY <1>0, <1>1, <2>1, OwnEnd
  <1>2. CASE sup[s].clip # NoClip
    <2>1. clips[sup[s].clip] = "open" /\ sup[s].clip \in Clip
      BY <1>0, <1>2 DEF Holds
    <2> DEFINE m == [clips EXCEPT ![sup[s].clip] = "closing"]
    <2>2. Poll(s, "ending", sup[s].clip, m)
      BY <1>2, <2>1 DEF EndLoop, CloseTo
    <2>3. m \in [Clip -> ClipState] /\ m[sup[s].clip] = "closing"
          /\ \A j \in Clip : j # sup[s].clip => m[j] = clips[j]
      BY <1>0, <2>1 DEF ClipState
    <2>4. "ending" \in SupPc \ {"gone"}
      BY DEF SupPc
    <2> HIDE DEF m
    <2> QED
      BY <1>2, <2>1, <2>2, <2>3, <2>4, OwnMove
  <1> QED
    BY <1>1, <1>2

LEMMA SuperviseKeepsOwn ==
  ASSUME IInv, NEW s \in Sup, Supervise(s) \/ SourceEnds(s) \/ Panic(s)
  PROVE  OwnInv'
  <1> SUFFICES ASSUME ~forced' PROVE OwnInv'
    BY DEF OwnInv
  <1>0. TypeOK /\ OwnInv /\ UNCHANGED main /\ ~Panic(s) /\ ~forced
    BY SuperviseShape DEF IInv, supOnly, Panic, Supervise, SourceEnds, FrameBegin, FrameEnd, OpenBegin,
       OpenFail, OpenRow, OpenInsert, CloseBegin, CloseEnd, StopSeen, AbortLands
  <1>1. /\ ~sup[s].aborted /\ Holds(sup[s], clips)
        /\ sup[s].clip \in Clip \cup {NoClip} /\ clips \in [Clip -> ClipState]
        /\ {"wait", "frame", "opening", "row", "closing", "ending"} \subseteq SupPc \ {"gone"}
    BY <1>0 DEF OwnInv, TypeOK, SupState, SupPc
  <1>2. \A k \in Clip, z \in ClipState :
           LET m == [clips EXCEPT ![k] = z]
           IN  m \in [Clip -> ClipState] /\ m[k] = z /\ \A j \in Clip : j # k => m[j] = clips[j]
    BY <1>1
  <1>3. {"row", "open", "closing", "free"} \subseteq ClipState
    BY DEF ClipState
  <1>a. CASE FrameBegin(s)
    <2>1. Poll(s, "frame", sup[s].clip, clips) /\ sup[s].pc = "wait"
      BY <1>a DEF FrameBegin
    <2> QED
      BY <2>1, <1>0, <1>1, OwnMove DEF Holds
  <1>b. CASE FrameEnd(s)
    <2>1. Poll(s, "wait", sup[s].clip, clips) /\ sup[s].pc = "frame"
      BY <1>b DEF FrameEnd
    <2> QED
      BY <2>1, <1>0, <1>1, OwnMove DEF Holds
  <1>c. CASE OpenBegin(s)
    <2>1. Poll(s, "opening", NoClip, clips) /\ sup[s].clip = NoClip
      BY <1>c DEF OpenBegin
    <2> QED
      BY <2>1, <1>0, <1>1, OwnMove
  <1>d. CASE OpenFail(s)
    <2>1. Poll(s, "frame", NoClip, clips) /\ sup[s].clip = NoClip
      BY <1>d, <1>1 DEF OpenFail, Holds
    <2> QED
      BY <2>1, <1>0, <1>1, OwnMove
  <1>e. CASE OpenRow(s)
    <2>1. PICK k \in Clip : /\ clips[k] = "free"
                            /\ clips' = [clips EXCEPT ![k] = "row"]
                            /\ sup' = [sup EXCEPT ![s].pc = "row", ![s].clip = k]
      BY <1>e DEF OpenRow
    <2> DEFINE m == [clips EXCEPT ![k] = "row"]
    <2>3. sup[s].clip = NoClip
      BY <1>e, <1>1 DEF OpenRow, Holds
    <2>4. Poll(s, "row", k, m)
      BY <2>1, <1>1 DEF Poll
    <2>5. m \in [Clip -> ClipState] /\ m[k] = "row" /\ \A j \in Clip : j # k => m[j] = clips[j]
      BY <1>2, <1>3
    <2> HIDE DEF m
    <2> QED
      BY <2>1, <2>4, <2>3, <2>5, <1>0, <1>1, OwnMove, ConfigAssumption
  <1>f. CASE OpenInsert(s)
    <2> DEFINE m == [clips EXCEPT ![sup[s].clip] = "open"]
    <2>1. sup[s].clip \in Clip /\ Poll(s, "frame", sup[s].clip, m)
      BY <1>f, <1>1 DEF OpenInsert, Holds
    <2>2. m \in [Clip -> ClipState] /\ m[sup[s].clip] = "open"
          /\ \A j \in Clip : j # sup[s].clip => m[j] = clips[j]
      BY <2>1, <1>2, <1>3
    <2> HIDE DEF m
    <2> QED
      BY <2>1, <2>2, <1>0, <1>1, OwnMove
  <1>g. CASE CloseBegin(s)
    <2>1. sup[s].clip \in Clip /\ clips[sup[s].clip] = "open"
      BY <1>g, <1>1 DEF CloseBegin, Holds
    <2> DEFINE m == [clips EXCEPT ![sup[s].clip] = "closing"]
    <2>2. Poll(s, "closing", sup[s].clip, m)
      BY <1>g, <2>1 DEF CloseBegin, CloseTo
    <2>3. m \in [Clip -> ClipState] /\ m[sup[s].clip] = "closing"
          /\ \A j \in Clip : j # sup[s].clip => m[j] = clips[j]
      BY <2>1, <1>2, <1>3
    <2> HIDE DEF m
    <2> QED
      BY <2>1, <2>2, <2>3, <1>0, <1>1, OwnMove, ConfigAssumption
  <1>h. CASE CloseEnd(s)
    <2> DEFINE m == [clips EXCEPT ![sup[s].clip] = "free"]
    <2>1. sup[s].clip \in Clip
      BY <1>h, <1>1 DEF CloseEnd, Holds
    <2>2. m \in [Clip -> ClipState] /\ m[sup[s].clip] = "free"
          /\ \A j \in Clip : j # sup[s].clip => m[j] = clips[j]
      BY <2>1, <1>2, <1>3
    <2>3. Poll(s, "gone", NoClip, m) \/ Poll(s, "frame", NoClip, m)
      BY <1>h DEF CloseEnd
    <2> HIDE DEF m
    <2>4. CASE Poll(s, "gone", NoClip, m)
      BY <2>1, <2>2, <2>4, <1>0, OwnEnd
    <2>5. CASE Poll(s, "frame", NoClip, m)
      BY <2>1, <2>2, <2>5, <1>0, <1>1, OwnMove
    <2> QED
      BY <2>3, <2>4, <2>5
  <1>i. CASE StopSeen(s)
    BY <1>i, <1>0, OwnEndLoop DEF StopSeen
  <1>j. CASE AbortLands(s)
    BY <1>j, <1>1 DEF AbortLands
  <1>k. CASE SourceEnds(s)
    BY <1>k, <1>0, OwnEndLoop DEF SourceEnds
  <1> QED
    BY <1>0, <1>a, <1>b, <1>c, <1>d, <1>e, <1>f, <1>g, <1>h, <1>i, <1>j, <1>k DEF Supervise
-----------------------------------------------------------------------------
(* Steps of the reconciler                                                 *)

LEMMA EntryIsNotNoEntry == \A e \in Entry : e # NoEntry
  <1>1. \A e \in Entry : e.key \in Config
    BY DEF Entry
  <1>2. NoEntry.key = NoConfig
    BY DEF NoEntry
  <1> QED
    BY <1>1, <1>2, ConfigAssumption

RecType == [pc: RecPc, live: Rows, left: SUBSET Camera, cam: SUBSET Camera, task: SUBSET Sup]

LEMMA AsleepType ==
  /\ Asleep \in RecType /\ Asleep.cam = {} /\ Asleep.task = {} /\ Asleep.pc = "idle"
  BY DEF Asleep, RecType, RecPc, Rows

(* Steps that change neither the map nor the supervisors nor the clips.    *)
LEMMA OutsideStep ==
  ASSUME IInv, (\E c \in Camera : Edit(c) \/ SubstreamDrops(c)) \/ PassBegin \/ PassEnd \/ JoinReconciler
               \/ (\E c \in Camera : StartCamera(c))
  PROVE  IInv'
  <1>1. UNCHANGED <<handles, ing, sup, clips, forced, drain>>
    BY DEF Edit, SubstreamDrops, PassBegin, PassEnd, JoinReconciler, StartCamera
  <1>2. main' = main \/ (main = "up" /\ main' = "joined")
    BY DEF Edit, SubstreamDrops, PassBegin, PassEnd, JoinReconciler, StartCamera
  <1>3. TypeOK'
    <2>1. rows' \in Rows
      BY DEF IInv, TypeOK, Rows, Edit, SubstreamDrops, PassBegin, PassEnd, JoinReconciler, StartCamera
    <2>2. rec' \in RecType
      <3>1. CASE PassBegin
        <4>1. {c \in Camera : HasEntry(c) \/ rows[c] # NoConfig} \in SUBSET Camera /\ rows \in Rows
          BY DEF IInv, TypeOK
        <4> QED
          BY <4>1, <3>1, AsleepType DEF PassBegin, RecType, RecPc
      <3>2. CASE PassEnd \/ JoinReconciler
        BY <3>2, AsleepType DEF PassEnd, JoinReconciler, RecType, RecPc
      <3>3. CASE \E c \in Camera : StartCamera(c)
        <4>1. PICK c \in Camera : rec' = [rec EXCEPT !.pc = "probing", !.cam = {c}]
          BY <3>3 DEF StartCamera
        <4>2. rec \in RecType
          BY DEF IInv, TypeOK, RecType
        <4> QED
          BY <4>1, <4>2 DEF RecType, RecPc
      <3>4. CASE \E c \in Camera : Edit(c) \/ SubstreamDrops(c)
        BY <3>4 DEF Edit, SubstreamDrops, IInv, TypeOK, RecType
      <3> QED
        BY <3>1, <3>2, <3>3, <3>4
    <2>3. budget' \in [{"edit", "exit", "refusal"} -> Nat] /\ sub' \subseteq Camera
      BY SpendType DEF IInv, TypeOK, Edit, SubstreamDrops, PassBegin, PassEnd, JoinReconciler, StartCamera
    <2>4. main' \in MainPc
      BY <1>2 DEF IInv, TypeOK, MainPc
    <2> QED
      BY <1>1, <2>1, <2>2, <2>3, <2>4 DEF IInv, TypeOK, RecType
  <1>4. RecInv'
    <2>1. CASE PassBegin \/ PassEnd
      <3>1. rec'.cam = {} /\ rec'.pc \in {"pass", "idle"} /\ main' = main /\ main = "up"
        BY <2>1, AsleepType DEF PassBegin, PassEnd, IInv, RecInv, RecType
      <3> QED
        BY <3>1 DEF RecInv
    <2>2. CASE JoinReconciler
      <3>1. rec'.cam = {} /\ rec'.pc = "ended"
        BY <2>2, AsleepType DEF JoinReconciler, RecType
      <3> QED
        BY <3>1 DEF RecInv
    <2>3. CASE \E c \in Camera : StartCamera(c)
      <3>1. PICK c \in Camera : StartCamera(c)
        BY <2>3
      <3>2. /\ rec'.cam = {c} /\ rec'.pc = "probing" /\ rec'.live = rec.live /\ main' = main
            /\ rec.pc = "pass" /\ rec.live[c] # NoConfig /\ ~HasEntry(c)
        BY <3>1 DEF StartCamera, Due, IInv, TypeOK
      <3> QED
        BY <3>2, <1>1 DEF RecInv, IInv, HasEntry
    <2>4. CASE \E c \in Camera : Edit(c) \/ SubstreamDrops(c)
      BY <2>4, <1>1 DEF Edit, SubstreamDrops, IInv, RecInv, HasEntry, SupOf
    <2> QED
      BY <2>1, <2>2, <2>3, <2>4
  <1>5. PendingInv' /\ SweepReachesAll'
    BY <1>1, <1>2 DEF IInv, PendingInv, SweepReachesAll, HasEntry, SupOf, Alive, Finished
  <1>6. OwnInv'
    BY <1>1, <1>2 DEF IInv, OwnInv
  <1> QED
    BY <1>3, <1>4, <1>5, <1>6 DEF IInv

LEMMA StopCameraStep ==
  ASSUME IInv, NEW c \in Camera, StopCamera(c)
  PROVE  IInv'
  <1>1. /\ UNCHANGED <<rows, handles, ing, sub, clips, main, drain, forced, budget>>
        /\ HasEntry(c) /\ rec.pc = "pass" /\ TypeOK /\ OwnInv
    BY DEF StopCamera, Due, IInv
  <1>2. SupOf(c) \in Sup
    BY <1>1, EntryFields
  <1>3. /\ sup' \in [Sup -> SupState]
        /\ \A t \in Sup : t # SupOf(c) => sup'[t] = sup[t]
        /\ sup'[SupOf(c)].pc = sup[SupOf(c)].pc /\ sup'[SupOf(c)].clip = sup[SupOf(c)].clip
        /\ sup'[SupOf(c)].aborted = sup[SupOf(c)].aborted
    BY <1>1, <1>2 DEF StopCamera, TypeOK, SupState, Finished
  <1>4. /\ rec' \in RecType /\ rec'.cam = {c} /\ rec'.task = {SupOf(c)} /\ rec'.pc = "stopping"
    BY <1>1, <1>2 DEF StopCamera, TypeOK, RecType, RecPc
  <1>5. TypeOK'
    BY <1>1, <1>3, <1>4 DEF TypeOK, RecType
  <1>6. RecInv' /\ PendingInv'
    BY <1>1, <1>4 DEF IInv, RecInv, PendingInv, HasEntry, SupOf
  <1>7. SweepReachesAll'
    BY <1>1, <1>3 DEF IInv, SweepReachesAll, HasEntry, SupOf, Alive, Finished
  <1>8. OwnInv'
    <2>1. CASE forced
      BY <2>1, <1>1 DEF OwnInv
    <2>2. CASE ~forced
      <3>1. Holds(sup'[SupOf(c)], clips') /\ ~sup'[SupOf(c)].aborted
        BY <1>1, <1>2, <1>3, <2>2 DEF OwnInv, Holds
      <3> QED
        BY <1>1, <1>2, <1>3, <2>2, <3>1, OwnStep
    <2> QED
      BY <2>1, <2>2
  <1> QED
    BY <1>5, <1>6, <1>7, <1>8 DEF IInv
(* What abort does to the supervisors in S: none of them stays alive.      *)
LEMMA AbortShape ==
  ASSUME TypeOK, NEW S \in SUBSET Sup, NEW P, Abort(S, P)
  PROVE  /\ sup' \in [Sup -> SupState]
         /\ clips' \in [Clip -> ClipState]
         /\ \A t \in Sup : Alive(t)' => Alive(t) /\ t \notin S
  <1>1. \A t \in Sup : sup'[t] = IF t \notin S \/ Finished(t) THEN sup[t]
                                 ELSE IF t \in P THEN [sup[t] EXCEPT !.aborted = TRUE] ELSE Gone
    BY DEF Abort
  <1>2. \A t \in Sup : sup[t] \in SupState /\ [sup[t] EXCEPT !.aborted = TRUE] \in SupState
                       /\ [sup[t] EXCEPT !.aborted = TRUE].aborted
    BY DEF TypeOK, SupState
  <1>3. sup' \in [Sup -> SupState]
    <2>1. \A t \in Sup : sup'[t] \in SupState
      BY <1>1, <1>2, GoneIsSupState
    <2>2. sup' = [t \in Sup |-> sup'[t]]
      BY DEF Abort
    <2> QED
      BY <2>1, <2>2
  <1>4. clips' \in [Clip -> ClipState]
    BY DEF Abort, TypeOK, ClipState
  <1>5. ASSUME NEW t \in Sup, Alive(t)' PROVE Alive(t) /\ t \notin S
    <2>1. t \notin S
      BY <1>1, <1>2, <1>5, GoneIsSupState DEF Alive, Finished
    <2> QED
      BY <2>1, <1>1, <1>5 DEF Alive, Finished
  <1> QED
    BY <1>3, <1>4, <1>5

(* The rest of stop_camera, once no supervisor of the camera is alive.     *)
LEMMA RemoveStep ==
  ASSUME IInv, NEW c \in Camera, rec.pc = "stopping", c \in rec.cam, Remove(c),
         UNCHANGED <<rows, main, drain, budget>>,
         sup' \in [Sup -> SupState], clips' \in [Clip -> ClipState], forced' \in BOOLEAN,
         \A t \in Sup : Alive(t)' => Alive(t) /\ t # SupOf(c)
  PROVE  TypeOK' /\ RecInv' /\ PendingInv' /\ SweepReachesAll' /\ ~HasEntry(c)'
  <1>0. TypeOK /\ rec \in RecType
    BY DEF IInv, TypeOK, RecType
  <1>1. /\ rec' \in RecType
        /\ \/ rec'.pc = "pass" /\ rec'.cam = {}
           \/ rec'.pc = "probing" /\ rec'.cam = rec.cam /\ rec'.live = rec.live /\ rec.live[c] # NoConfig
    BY <1>0 DEF Remove, RecType, RecPc
  <1>2. /\ handles' \in [Camera -> Entry \cup {NoEntry}]
        /\ ~HasEntry(c)'
        /\ \A d \in Camera : d # c => handles'[d] = handles[d]
    BY <1>0 DEF Remove, TypeOK, HasEntry
  <1>3. ing' \in Rows /\ ing'[c] = NoConfig /\ (\A d \in Camera : d # c => ing'[d] = ing[d]) /\ sub' \subseteq Camera
    BY <1>0 DEF Remove, TypeOK, Rows
  <1>4. TypeOK'
    BY <1>0, <1>1, <1>2, <1>3 DEF TypeOK, RecType
  <1>5. RecInv'
    <2>1. main = "up" /\ \A d \in rec.cam : d = c
      BY DEF IInv, RecInv
    <2> QED
      BY <2>1, <1>1, <1>2 DEF RecInv
  <1>6. PendingInv'
    BY <1>2, <1>3 DEF IInv, PendingInv, HasEntry
  <1>7. SweepReachesAll'
    <2> SUFFICES ASSUME NEW t \in Sup, Alive(t)'
                 PROVE  main' \in {"up", "joined"} /\ HasEntry(t[1])' /\ SupOf(t[1])' = t
      BY DEF SweepReachesAll
    <2>1. main \in {"up", "joined"} /\ HasEntry(t[1]) /\ SupOf(t[1]) = t /\ t # SupOf(c)
      BY DEF IInv, SweepReachesAll
    <2>2. t[1] # c /\ t[1] \in Camera
      BY <2>1, SupIsPair
    <2> QED
      BY <2>1, <2>2, <1>2 DEF HasEntry, SupOf
  <1> QED
    BY <1>2, <1>4, <1>5, <1>6, <1>7

LEMMA StoppedStep ==
  ASSUME IInv, NEW c \in Camera, Stopped(c)
  PROVE  IInv' /\ ~HasEntry(c)'
  <1>1. /\ rec.pc = "stopping" /\ c \in rec.cam /\ Remove(c)
        /\ UNCHANGED <<rows, sup, clips, main, drain, forced, budget>> /\ TypeOK
    BY DEF Stopped, IInv
  <1>2. Finished(SupOf(c))
    BY <1>1 DEF Stopped, IInv, RecInv
  <1>3. \A t \in Sup : Alive(t)' => Alive(t) /\ t # SupOf(c)
    BY <1>1, <1>2 DEF Alive, Finished
  <1>4. sup' \in [Sup -> SupState] /\ clips' \in [Clip -> ClipState] /\ forced' \in BOOLEAN
    BY <1>1 DEF TypeOK
  <1>5. TypeOK' /\ RecInv' /\ PendingInv' /\ SweepReachesAll' /\ ~HasEntry(c)'
    BY <1>1, <1>3, <1>4, RemoveStep
  <1>6. OwnInv'
    BY <1>1 DEF IInv, OwnInv
  <1> QED
    BY <1>5, <1>6 DEF IInv

LEMMA StopTimeoutStep ==
  ASSUME IInv, NEW c \in Camera, StopTimeout(c)
  PROVE  IInv' /\ ~HasEntry(c)'
  <1>1. /\ rec.pc = "stopping" /\ c \in rec.cam /\ Remove(c)
        /\ UNCHANGED <<rows, main, drain, budget>> /\ forced' = TRUE /\ TypeOK
    BY DEF StopTimeout, IInv
  <1>2. rec.task = {SupOf(c)} /\ rec.task \in SUBSET Sup
    BY <1>1 DEF IInv, RecInv, TypeOK
  <1>3. PICK P \in SUBSET rec.task : Abort(rec.task, P)
    BY DEF StopTimeout
  <1>4. /\ sup' \in [Sup -> SupState] /\ clips' \in [Clip -> ClipState]
        /\ \A t \in Sup : Alive(t)' => Alive(t) /\ t # SupOf(c)
    BY <1>1, <1>2, <1>3, AbortShape
  <1>5. TypeOK' /\ RecInv' /\ PendingInv' /\ SweepReachesAll' /\ ~HasEntry(c)'
    BY <1>1, <1>4, RemoveStep
  <1>6. OwnInv'
    BY <1>1 DEF OwnInv
  <1> QED
    BY <1>5, <1>6 DEF IInv
LEMMA RegisterStep ==
  ASSUME IInv, NEW c \in Camera, Register(c)
  PROVE  IInv' /\ ~HasEntry(c)' /\ \A d \in Camera : d # c => ing'[d] = ing[d]
  <1>1. /\ UNCHANGED <<rows, handles, sub, sup, clips, main, drain, forced>> /\ TypeOK
        /\ rec.pc = "probing" /\ c \in rec.cam /\ rec \in RecType
    BY DEF Register, IInv, TypeOK, RecType
  <1>2. ~HasEntry(c) /\ rec.live[c] \in Config \cup {NoConfig}
    BY <1>1 DEF IInv, RecInv, RecType, Rows
  <1>3. ing' \in Rows /\ \A d \in Camera : d # c => ing'[d] = ing[d]
    BY <1>1, <1>2 DEF Register, TypeOK, Rows
  <1>4. budget' \in [{"edit", "exit", "refusal"} -> Nat]
    BY <1>1, SpendType DEF Register, TypeOK
  <1>5. rec' \in RecType /\ rec'.pc = "starting" /\ rec'.cam = rec.cam /\ rec'.live = rec.live
    BY <1>1 DEF Register, RecType, RecPc
  <1>6. TypeOK'
    BY <1>1, <1>3, <1>4, <1>5 DEF TypeOK, RecType
  <1>7. RecInv'
    BY <1>1, <1>5 DEF IInv, RecInv, HasEntry
  <1>8. PendingInv'
    BY <1>1, <1>2, <1>3 DEF IInv, PendingInv, HasEntry
  <1>9. SweepReachesAll' /\ OwnInv'
    BY <1>1 DEF IInv, SweepReachesAll, OwnInv, HasEntry, SupOf, Alive, Finished
  <1> QED
    BY <1>1, <1>2, <1>3, <1>6, <1>7, <1>8, <1>9 DEF IInv, HasEntry

LEMMA SpawnStep ==
  ASSUME IInv, NEW c \in Camera, Spawn(c)
  PROVE  IInv'
  <1> DEFINE analysis == ing[c] # NoConfig /\ rec.live[c] \in Substream
  <1>1. /\ UNCHANGED <<rows, ing, clips, main, drain, forced>> /\ TypeOK /\ OwnInv
        /\ rec.pc = "starting" /\ c \in rec.cam /\ rec \in RecType
    BY DEF Spawn, IInv, TypeOK, RecType
  <1>2. ~HasEntry(c) /\ rec.live[c] \in Config /\ main = "up"
    BY <1>1 DEF IInv, RecInv, RecType, Rows
  <1>3. PICK s \in Slot :
           /\ Finished(<<c, s>>)
           /\ sup' = [sup EXCEPT ![<<c, s>>] = Fresh]
           /\ handles' = [handles EXCEPT ![c] =
                 [slot |-> s, key |-> rec.live[c], pending |-> ing[c] = NoConfig,
                  analysis |-> analysis]]
    BY DEF Spawn
  <1>4. <<c, s>> \in Sup
    BY DEF Sup
  <1>5. /\ handles' \in [Camera -> Entry \cup {NoEntry}]
        /\ HasEntry(c)' /\ handles'[c].slot = s /\ handles'[c].pending = (ing[c] = NoConfig)
        /\ \A d \in Camera : d # c => handles'[d] = handles[d]
    <2>1. handles'[c] = [slot |-> s, key |-> rec.live[c], pending |-> ing[c] = NoConfig,
                         analysis |-> analysis]
      BY <1>1, <1>3 DEF TypeOK
    <2>0. PICK p \in BOOLEAN, a \in BOOLEAN : p = (ing[c] = NoConfig) /\ a = analysis
      OBVIOUS
    <2>2. handles'[c] \in Entry /\ handles'[c] # NoEntry /\ handles'[c].slot = s
          /\ handles'[c].pending = (ing[c] = NoConfig)
      <3>1. handles'[c] = [slot |-> s, key |-> rec.live[c], pending |-> p, analysis |-> a]
        BY <2>0, <2>1
      <3> HIDE DEF analysis
      <3>2. handles'[c] \in Entry /\ handles'[c] # NoEntry /\ handles'[c].slot = s /\ handles'[c].pending = p
        BY <3>1, <1>2, EntryIsEntry
      <3> QED
        BY <3>2, <2>0
    <2>3. \A d \in Camera : d # c => handles'[d] = handles[d]
      BY <1>1, <1>3 DEF TypeOK
    <2>4. handles' \in [Camera -> Entry \cup {NoEntry}]
      <3>1. \A d \in Camera : handles'[d] \in Entry \cup {NoEntry}
        BY <2>2, <2>3, <1>1 DEF TypeOK
      <3>2. handles' = [d \in Camera |-> handles'[d]]
        BY <1>1, <1>3 DEF TypeOK
      <3> QED
        BY <3>1, <3>2
    <2> QED
      BY <2>2, <2>3, <2>4 DEF HasEntry
  <1>6. /\ sup' \in [Sup -> SupState] /\ sup'[<<c, s>>] = Fresh
        /\ \A t \in Sup : t # <<c, s>> => sup'[t] = sup[t]
    BY <1>1, <1>3, <1>4, GoneIsSupState DEF TypeOK
  <1>7. budget' \in [{"edit", "exit", "refusal"} -> Nat] /\ sub' \subseteq Camera
    BY <1>1, SpendType DEF Spawn, TypeOK
  <1>8. rec' \in RecType /\ rec'.pc = "pass" /\ rec'.cam = {}
    BY <1>1 DEF Spawn, RecType, RecPc
  <1>9. TypeOK'
    BY <1>1, <1>5, <1>6, <1>7, <1>8 DEF TypeOK, RecType
  <1>10. RecInv'
    BY <1>1, <1>2, <1>8 DEF RecInv
  <1>11. PendingInv'
    BY <1>1, <1>5 DEF IInv, PendingInv, HasEntry
  <1>12. SweepReachesAll'
    <2> SUFFICES ASSUME NEW t \in Sup, Alive(t)'
                 PROVE  main' \in {"up", "joined"} /\ HasEntry(t[1])' /\ SupOf(t[1])' = t
      BY DEF SweepReachesAll
    <2>1. CASE t = <<c, s>>
      BY <2>1, <1>1, <1>2, <1>5 DEF SupOf
    <2>2. CASE t # <<c, s>>
      <3>1. HasEntry(t[1]) /\ SupOf(t[1]) = t
        BY <2>2, <1>6 DEF Alive, Finished, IInv, SweepReachesAll
      <3>2. t[1] # c /\ t[1] \in Camera
        BY <3>1, <1>2, SupIsPair
      <3> QED
        BY <3>1, <3>2, <1>1, <1>2, <1>5 DEF HasEntry, SupOf
    <2> QED
      BY <2>1, <2>2
  <1>13. OwnInv'
    <2>1. CASE forced
      BY <2>1, <1>1 DEF OwnInv
    <2>2. CASE ~forced
      <3>1. sup[<<c, s>>].clip = NoClip
        BY <1>1, <1>3, <1>4, <2>2 DEF OwnInv, Holds, Finished
      <3>2. Holds(sup'[<<c, s>>], clips') /\ ~sup'[<<c, s>>].aborted /\ sup'[<<c, s>>].clip = NoClip
        BY <1>6, GoneIsSupState DEF Holds
      <3> QED
        BY <1>1, <1>4, <1>6, <2>2, <3>1, <3>2, OwnStep
    <2> QED
      BY <2>1, <2>2
  <1> QED
    BY <1>9, <1>10, <1>11, <1>12, <1>13 DEF IInv

LEMMA RetryStep ==
  ASSUME IInv, NEW c \in Camera, RetrySessions(c)
  PROVE  IInv' /\ \A d \in Camera : ing'[d] # ing[d] => ing[d] = NoConfig
  <1>1. /\ UNCHANGED <<rows, sup, clips, main, drain, forced>> /\ TypeOK
        /\ rec.pc = "pass" /\ HasEntry(c) /\ rec \in RecType
    BY DEF RetrySessions, Due, Unchanged, IInv, TypeOK, RecType
  <1>2. handles[c] \in Entry
    BY <1>1, EntryFields
  <1>3. PICK refused \in SUBSET {"main", "sub"} :
           LET pending == handles[c].pending /\ "main" \in refused
           IN  /\ ing' = IF handles[c].pending /\ ~pending
                         THEN [ing EXCEPT ![c] = handles[c].key] ELSE ing
               /\ handles' = [handles EXCEPT ![c].pending = pending]
    BY DEF RetrySessions
  <1>4. budget' \in [{"edit", "exit", "refusal"} -> Nat] /\ sub' \subseteq Camera
    BY <1>1, SpendType DEF RetrySessions, TypeOK
  <1>5. rec' \in RecType /\ rec'.pc = "pass" /\ rec'.cam = rec.cam
    BY <1>1 DEF RetrySessions, RecType, RecPc
  <1>6. /\ handles' \in [Camera -> Entry \cup {NoEntry}]
        /\ handles'[c] \in Entry /\ handles'[c].slot = handles[c].slot
        /\ \A d \in Camera : d # c => handles'[d] = handles[d]
    <2>1. /\ handles'[c] = [handles[c] EXCEPT !.pending = handles[c].pending /\ "main" \in refused]
          /\ \A d \in Camera : d # c => handles'[d] = handles[d]
      BY <1>1, <1>3 DEF TypeOK
    <2>2. handles'[c] \in Entry /\ handles'[c].slot = handles[c].slot
      BY <2>1, <1>2 DEF Entry
    <2>3. \A d \in Camera : handles'[d] \in Entry \cup {NoEntry}
      BY <2>1, <2>2, <1>1 DEF TypeOK
    <2>4. handles' = [d \in Camera |-> handles'[d]]
      BY <1>1, <1>3 DEF TypeOK
    <2> QED
      BY <2>1, <2>2, <2>3, <2>4
  <1>7. HasEntry(c)' /\ \A d \in Camera : HasEntry(d)' <=> HasEntry(d)
    BY <1>1, <1>6, EntryIsNotNoEntry DEF HasEntry
  <1>8. /\ ing' \in Rows
        /\ \A d \in Camera : d # c => ing'[d] = ing[d]
        /\ handles'[c].pending => handles[c].pending /\ ing' = ing
        /\ ing' # ing => handles[c].pending
    BY <1>1, <1>2, <1>3 DEF TypeOK, Rows, Entry
  <1>9. TypeOK'
    BY <1>1, <1>4, <1>5, <1>6, <1>8 DEF TypeOK, RecType
  <1>10. RecInv'
    BY <1>1, <1>5 DEF IInv, RecInv
  <1>11. PendingInv'
    BY <1>6, <1>7, <1>8 DEF IInv, PendingInv
  <1>12. SweepReachesAll'
    <2> SUFFICES ASSUME NEW t \in Sup, Alive(t)'
                 PROVE  main' \in {"up", "joined"} /\ HasEntry(t[1])' /\ SupOf(t[1])' = t
      BY DEF SweepReachesAll
    <2>1. main \in {"up", "joined"} /\ HasEntry(t[1]) /\ SupOf(t[1]) = t /\ t[1] \in Camera
      BY <1>1, SupIsPair DEF Alive, Finished, IInv, SweepReachesAll
    <2> QED
      BY <2>1, <1>1, <1>6, <1>7 DEF SupOf
  <1>13. OwnInv'
    BY <1>1 DEF IInv, OwnInv
  <1>14. \A d \in Camera : ing'[d] # ing[d] => ing[d] = NoConfig
    BY <1>1, <1>8 DEF IInv, PendingInv
  <1> QED
    BY <1>9, <1>10, <1>11, <1>12, <1>13, <1>14 DEF IInv

-----------------------------------------------------------------------------
(* Steps of main's shutdown                                                *)

LEMMA ShutdownStep ==
  ASSUME IInv, AbortSupervisors \/ Snapshot \/ Exit \/ (\E k \in Clip : DrainClose(k))
  PROVE  IInv'
  <1>0. /\ TypeOK /\ UNCHANGED <<rows, rec, ing, sub, budget>>
        /\ main \in {"joined", "swept", "draining"} /\ main' \in {"swept", "draining", "exited"}
    BY DEF AbortSupervisors, Snapshot, Exit, DrainClose, IInv
  <1>1. rec.pc = "ended"
    BY <1>0 DEF IInv, RecInv
  <1>2. RecInv'
    BY <1>0, <1>1 DEF IInv, RecInv
  <1>3. /\ handles' \in [Camera -> Entry \cup {NoEntry}]
        /\ PendingInv'
    <2>1. CASE AbortSupervisors
      BY <2>1 DEF AbortSupervisors, PendingInv, HasEntry
    <2>2. CASE ~AbortSupervisors
      <3>1. UNCHANGED handles
        BY <2>2 DEF Snapshot, Exit, DrainClose
      <3> QED
        BY <3>1, <1>0 DEF IInv, TypeOK, PendingInv, HasEntry
    <2> QED
      BY <2>1, <2>2
  <1>4. /\ sup' \in [Sup -> SupState] /\ clips' \in [Clip -> ClipState]
        /\ \A t \in Sup : ~Alive(t)'
    <2>1. CASE AbortSupervisors
      <3> DEFINE S == {SupOf(c) : c \in {d \in Camera : HasEntry(d)}}
      <3>1. PICK P \in SUBSET S : Abort(S, P)
        BY <2>1 DEF AbortSupervisors
      <3>2. S \in SUBSET Sup
        BY <1>0, EntryFields
      <3>3. \A t \in Sup : Alive(t) => t \in S
        BY SupIsPair DEF IInv, SweepReachesAll
      <3> HIDE DEF S
      <3> QED
        BY <3>1, <3>2, <3>3, <1>0, AbortShape
    <2>2. CASE Exit
      BY <2>2, <1>0, GoneIsSupState DEF Exit, Alive, Finished, TypeOK, ClipState
    <2>3. CASE Snapshot \/ \E k \in Clip : DrainClose(k)
      <3>1. sup' = sup /\ clips' \in [Clip -> ClipState] /\ main \in {"swept", "draining"}
        BY <2>3, <1>0 DEF Snapshot, DrainClose, TypeOK, ClipState
      <3> QED
        BY <3>1, <1>0 DEF IInv, TypeOK, SweepReachesAll, Alive, Finished
    <2> QED
      BY <2>1, <2>2, <2>3
  <1>5. drain' \in SUBSET Clip /\ forced' \in BOOLEAN
    BY <1>0 DEF AbortSupervisors, Snapshot, Exit, DrainClose, TypeOK, OpenClips
  <1>6. TypeOK'
    BY <1>0, <1>3, <1>4, <1>5 DEF TypeOK, MainPc
  <1>7. SweepReachesAll'
    BY <1>4 DEF SweepReachesAll
  <1>8. OwnInv'
    <2>1. CASE AbortSupervisors
      BY <2>1 DEF AbortSupervisors, OwnInv
    <2>2. CASE ~AbortSupervisors
      BY <2>2, <1>0 DEF Snapshot, Exit, DrainClose, IInv, OwnInv
    <2> QED
      BY <2>1, <2>2
  <1> QED
    BY <1>2, <1>3, <1>6, <1>7, <1>8 DEF IInv
-----------------------------------------------------------------------------
(* The invariant and the theorems                                          *)

LEMMA BudgetInit ==
  ASSUME Init
  PROVE  budget \in [{"edit", "exit", "refusal"} -> Nat]
  <1>1. MaxEdits \in Nat /\ MaxExits \in Nat /\ MaxRefusals \in Nat
    BY BoundAssumption
  <1>2. \A b \in {"edit", "exit", "refusal"} :
           (CASE b = "edit" -> MaxEdits [] b = "exit" -> MaxExits
              [] b = "refusal" -> MaxRefusals) \in Nat
    BY <1>1
  <1> QED
    BY <1>2 DEF Init

LEMMA InitIInv == Init => IInv
  <1> SUFFICES ASSUME Init PROVE IInv
    OBVIOUS
  <1>1. PICK s \in Slot :
          /\ handles = [c \in Camera |->
                IF rows[c] = NoConfig THEN NoEntry
                ELSE [slot |-> s, key |-> rows[c], pending |-> ing[c] = NoConfig,
                      analysis |-> ing[c] \in Substream]]
          /\ sup = [t \in Sup |-> IF rows[t[1]] # NoConfig /\ t[2] = s THEN Fresh ELSE Gone]
    BY DEF Init
  <1>2. /\ rows \in Rows /\ rec = Asleep /\ ing \in Rows /\ sub \subseteq Camera
        /\ clips = [k \in Clip |-> "free"] /\ main = "up" /\ drain = {} /\ forced = FALSE
    BY DEF Init
  <1>3. \A c \in Camera : rows[c] \in Config \cup {NoConfig}
    BY <1>2 DEF Rows
  <1>4. \A c \in Camera : rows[c] # NoConfig =>
           /\ handles[c] \in Entry /\ handles[c] # NoEntry
           /\ handles[c].slot = s /\ (handles[c].pending => ing[c] = NoConfig)
    <2> SUFFICES ASSUME NEW c \in Camera, rows[c] # NoConfig
                 PROVE  /\ handles[c] \in Entry /\ handles[c] # NoEntry
                        /\ handles[c].slot = s /\ (handles[c].pending => ing[c] = NoConfig)
      OBVIOUS
    <2> DEFINE pending == ing[c] = NoConfig
               analysis == ing[c] \in Substream
    <2>1. handles[c] = [slot |-> s, key |-> rows[c], pending |-> pending,
                        analysis |-> analysis]
      BY <1>1
    <2>0. pending \in BOOLEAN /\ analysis \in BOOLEAN
      OBVIOUS
    <2>2. PICK p \in BOOLEAN, a \in BOOLEAN : p = pending /\ a = analysis
      <3> HIDE DEF pending, analysis
      <3> QED
        BY <2>0, Zenon
    <2>3. rows[c] \in Config
      BY <1>3
    <2>4. handles[c] = [slot |-> s, key |-> rows[c], pending |-> p, analysis |-> a]
      BY <2>1, <2>2
    <2> HIDE DEF pending, analysis
    <2>5. handles[c] \in Entry /\ handles[c] # NoEntry /\ handles[c].slot = s /\ handles[c].pending = p
      BY <2>3, <2>4, EntryIsEntry
    <2> QED
      BY <2>5, <2>2 DEF pending
  <1>5. \A c \in Camera : rows[c] = NoConfig => handles[c] = NoEntry
    BY <1>1
  <1>6. \A t \in Sup : /\ sup[t] \in {Fresh, Gone}
                       /\ sup[t] = Fresh => rows[t[1]] # NoConfig /\ t[2] = s
    BY <1>1, GoneIsSupState
  <1>7. TypeOK
    <2>1. handles \in [Camera -> Entry \cup {NoEntry}]
      <3>1. \A c \in Camera : handles[c] \in Entry \cup {NoEntry}
        BY <1>4, <1>5
      <3>2. handles = [c \in Camera |-> handles[c]]
        BY <1>1
      <3> QED
        BY <3>1, <3>2
    <2>2. sup \in [Sup -> SupState]
      BY <1>1, GoneIsSupState
    <2>3. clips \in [Clip -> ClipState] /\ main \in MainPc /\ drain \subseteq Clip /\ forced \in BOOLEAN
      BY <1>2 DEF ClipState, MainPc
    <2> QED
      BY <1>2, <2>1, <2>2, <2>3, AsleepType, BudgetInit DEF TypeOK, RecType
  <1>8. RecInv
    BY <1>2, AsleepType DEF RecInv
  <1>9. PendingInv
    BY <1>3, <1>4, <1>5 DEF PendingInv, HasEntry
  <1>10. SweepReachesAll
    <2> SUFFICES ASSUME NEW t \in Sup, Alive(t)
                 PROVE  HasEntry(t[1]) /\ SupOf(t[1]) = t
      BY <1>2 DEF SweepReachesAll
    <2>1. rows[t[1]] # NoConfig /\ t[2] = s
      BY <1>6, GoneIsSupState DEF Alive, Finished
    <2> QED
      BY <2>1, <1>4, SupIsPair DEF HasEntry, SupOf
  <1>11. OwnInv
    BY <1>2, <1>6, GoneIsSupState DEF OwnInv, Holds
  <1> QED
    BY <1>7, <1>8, <1>9, <1>10, <1>11 DEF IInv

LEMMA NextIInv == IInv /\ [Next]_vars => IInv'
  <1> SUFFICES ASSUME IInv, [Next]_vars PROVE IInv'
    OBVIOUS
  <1>1. CASE \E s \in Sup : Supervise(s) \/ SourceEnds(s) \/ Panic(s)
    BY <1>1, SuperviseKeepsMap, SuperviseKeepsOwn DEF IInv
  <1>2. CASE \E c \in Camera : Edit(c) \/ SubstreamDrops(c)
    BY <1>2, OutsideStep
  <1>3. CASE Reconcile
    BY <1>3, OutsideStep, StopCameraStep, StoppedStep, StopTimeoutStep, RegisterStep, SpawnStep, RetryStep
    DEF Reconcile
  <1>4. CASE Shutdown
    BY <1>4, OutsideStep, ShutdownStep DEF Shutdown
  <1>5. CASE UNCHANGED vars
    BY <1>5 DEF vars, IInv, TypeOK, RecInv, PendingInv, SweepReachesAll, OwnInv, HasEntry, SupOf, Alive,
       Finished
  <1> QED
    BY <1>1, <1>2, <1>3, <1>4, <1>5 DEF Next

LEMMA IInvariance == Spec => []IInv
  BY InitIInv, NextIInv, PTL DEF Spec

-----------------------------------------------------------------------------
(* The session of each supervisor with the recorder                        *)

LEMMA HoldInit == Init => HoldInv
  <1> SUFFICES ASSUME Init PROVE HoldInv
    OBVIOUS
  <1>1. \A t \in Sup : sup[t] \in {Fresh, Gone}
    BY DEF Init
  <1> QED
    BY <1>1, GoneIsSupState DEF HoldInv, Names

(* Only supervisor s moves, and it takes at most a clip nobody names.      *)
LEMMA HoldStep ==
  ASSUME TypeOK, HoldInv, NEW s \in Sup,
         \A t \in Sup : t # s => sup'[t] = sup[t],
         Names(sup'[s], clips'),
         sup'[s].clip \in {NoClip, sup[s].clip} \/ \A t \in Sup : sup[t].clip # sup'[s].clip,
         \A j \in Clip : j \notin {sup[s].clip, sup'[s].clip} => clips'[j] = clips[j]
  PROVE  HoldInv'
  <1>0. \A t \in Sup : Names(sup[t], clips) /\ sup[t].clip \in Clip \cup {NoClip}
    BY DEF HoldInv, TypeOK, SupState
  <1>1. \A t, u \in Sup : sup[t].clip = sup[u].clip /\ sup[t].clip # NoClip => t = u
    BY DEF HoldInv
  <1>2. ASSUME NEW t \in Sup, t # s, sup[t].clip # NoClip
        PROVE  sup[t].clip \notin {sup[s].clip, sup'[s].clip}
    BY <1>1, <1>2
  <1>3. ASSUME NEW t \in Sup PROVE Names(sup'[t], clips')
    <2>1. CASE t = s
      BY <2>1
    <2>2. CASE t # s
      <3>1. sup[t].clip # NoClip => clips'[sup[t].clip] = clips[sup[t].clip]
        BY <2>2, <1>2, <1>0
      <3> QED
        BY <3>1, <2>2, <1>0 DEF Names
    <2> QED
      BY <2>1, <2>2
  <1>4. ASSUME NEW t \in Sup, NEW u \in Sup, sup'[t].clip = sup'[u].clip, sup'[t].clip # NoClip
        PROVE  t = u
    BY <1>4, <1>1, <1>2
  <1> QED
    BY <1>3, <1>4 DEF HoldInv

(* A step in the terms of ClipSession.                                     *)
SessionNext == [Session!SNext]_(Session!svars)

(* The session of s after it moves to state r.                             *)
LEMMA MoveSession ==
  ASSUME NEW s \in Sup, NEW r, sup \in [Sup -> SupState], sup' = [sup EXCEPT ![s] = r]
  PROVE  Session!To(s, StepOf(r), HandOf(r))
  <1>1. SessionStep' = [SessionStep EXCEPT ![s] = StepOf(r)]
    BY DEF SessionStep
  <1>2. SessionHand' = [SessionHand EXCEPT ![s] = HandOf(r)]
    BY DEF SessionHand
  <1> QED
    BY <1>1, <1>2 DEF Session!To

LEMMA GoneSession == StepOf(Gone) = "gone" /\ HandOf(Gone) = NoClip /\ Names(Gone, clips')
  BY GoneIsSupState DEF StepOf, HandOf, Names

(* A session that ends without a change of the open map.                   *)
LEMMA GoneDrops ==
  ASSUME NEW s \in Sup, Session!To(s, "gone", NoClip), OpenClips' = OpenClips
  PROVE  SessionNext
  <1>1. /\ SessionStep' = [t \in Sup |-> IF t \in {s} THEN "gone" ELSE SessionStep[t]]
        /\ SessionHand' = [t \in Sup |-> IF t \in {s} THEN NoClip ELSE SessionHand[t]]
    BY DEF Session!To, SessionStep, SessionHand
  <1>2. Session!Drop({s})
    BY <1>1 DEF Session!Drop
  <1>3. {s} \in SUBSET Sup
    OBVIOUS
  <1>4. Session!SNext
    BY <1>2, <1>3 DEF Session!SNext
  <1> QED
    BY <1>4 DEF SessionNext

LEMMA OrphanOpen ==
  ASSUME NEW m, NEW k
  PROVE  {j \in Clip : Orphan(m, k)[j] = "open"} = {j \in Clip : m[j] = "open"}
  BY DEF Orphan

(* The supervisor s after a poll that goes on.                             *)
Moved(s, p, k) == [sup[s] EXCEPT !.pc = p, !.clip = k]

LEMMA MovedFields ==
  ASSUME TypeOK, NEW s \in Sup, NEW p, NEW k
  PROVE  Moved(s, p, k).pc = p /\ Moved(s, p, k).clip = k
  BY DEF TypeOK, SupState, Moved

(* What one poll does to the session, if it goes on or if it ends here.    *)
LEMMA PollSession ==
  ASSUME TypeOK, HoldInv, NEW s \in Sup, NEW p \in SupPc, NEW k \in {NoClip, sup[s].clip},
         NEW m \in [Clip -> ClipState], Poll(s, p, k, m),
         p # "gone" => Names(Moved(s, p, k), m),
         \A j \in Clip : j # sup[s].clip => m[j] = clips[j]
  PROVE  /\ HoldInv'
         /\ OpenClips' = {j \in Clip : m[j] = "open"}
         /\ IF sup[s].aborted \/ p = "gone" THEN Session!To(s, "gone", NoClip)
            ELSE Session!To(s, StepOf(Moved(s, p, k)), HandOf(Moved(s, p, k)))
  <1> DEFINE r == Moved(s, p, k)
  <1>0. sup \in [Sup -> SupState] /\ sup[s] \in SupState
    BY DEF TypeOK
  <1>1. CASE sup[s].aborted \/ p = "gone"
    <2>1. sup' = [sup EXCEPT ![s] = Gone] /\ clips' = Orphan(m, k)
      BY <1>1 DEF Poll
    <2>2. sup'[s] = Gone /\ \A t \in Sup : t # s => sup'[t] = sup[t]
      BY <2>1, <1>0
    <2>3. \A j \in Clip : j # sup[s].clip => clips'[j] = clips[j]
      BY <2>1, ConfigAssumption DEF Orphan
    <2>4. HoldInv'
      BY <2>2, <2>3, GoneSession, GoneIsSupState, HoldStep
    <2>5. OpenClips' = {j \in Clip : m[j] = "open"}
      BY <2>1, OrphanOpen DEF OpenClips
    <2>6. Session!To(s, "gone", NoClip)
      BY <2>1, <1>0, MoveSession, GoneSession
    <2> QED
      BY <1>1, <2>4, <2>5, <2>6
  <1>2. CASE ~(sup[s].aborted \/ p = "gone")
    <2>1. sup' = [sup EXCEPT ![s] = r] /\ clips' = m
      BY <1>2, <1>0 DEF Poll, Moved
    <2>2. sup'[s] = r /\ r.clip = k /\ \A t \in Sup : t # s => sup'[t] = sup[t]
      <3>1. r.clip = k
        BY MovedFields
      <3> HIDE DEF r
      <3> QED
        BY <3>1, <2>1, <1>0
    <2>3. HoldInv'
      BY <2>1, <2>2, <1>2, HoldStep
    <2>4. Session!To(s, StepOf(r), HandOf(r))
      BY <2>1, <1>0, MoveSession
    <2> QED
      BY <1>2, <2>1, <2>3, <2>4 DEF OpenClips
  <1> QED
    BY <1>1, <1>2

(* A poll that leaves the open map and the step of the session alone.      *)
LEMMA PollStutters ==
  ASSUME TypeOK, HoldInv, NEW s \in Sup, NEW p \in {"wait", "frame"}, sup[s].pc \in {"wait", "frame"},
         Poll(s, p, sup[s].clip, clips)
  PROVE  HoldInv' /\ SessionNext
  <1> DEFINE r == Moved(s, p, sup[s].clip)
  <1>0. sup[s] \in SupState /\ clips \in [Clip -> ClipState] /\ p \in SupPc
    BY DEF TypeOK, SupPc
  <1>1. r.pc = p /\ r.clip = sup[s].clip
    BY MovedFields
  <1>2. Names(sup[s], clips)
    BY DEF HoldInv
  <1>3. Names(r, clips) /\ StepOf(r) = StepOf(sup[s]) /\ HandOf(r) = HandOf(sup[s])
    BY <1>1, <1>2 DEF Names, StepOf, HandOf
  <1>4. /\ HoldInv' /\ OpenClips' = OpenClips
        /\ IF sup[s].aborted \/ p = "gone" THEN Session!To(s, "gone", NoClip)
           ELSE Session!To(s, StepOf(r), HandOf(r))
    BY <1>0, <1>3, PollSession DEF OpenClips
  <1>5. CASE Session!To(s, "gone", NoClip)
    BY <1>4, <1>5, GoneDrops
  <1>6. CASE Session!To(s, StepOf(r), HandOf(r))
    <2>1. SessionStep' = [SessionStep EXCEPT ![s] = SessionStep[s]]
          /\ SessionHand' = [SessionHand EXCEPT ![s] = SessionHand[s]]
      BY <1>6, <1>3 DEF Session!To, SessionStep, SessionHand
    <2>2. UNCHANGED <<SessionStep, SessionHand>>
      BY <2>1 DEF SessionStep, SessionHand
    <2> QED
      BY <2>2, <1>4 DEF SessionNext, Session!svars
  <1> QED
    BY <1>4, <1>5, <1>6

LEMMA OpenRowSession ==
  ASSUME TypeOK, HoldInv, NEW s \in Sup, OpenRow(s)
  PROVE  HoldInv' /\ SessionNext
  <1>1. PICK k \in Clip : /\ clips[k] = "free" /\ \A t \in Sup : sup[t].clip # k
                          /\ clips' = [clips EXCEPT ![k] = "row"]
                          /\ sup' = [sup EXCEPT ![s].pc = "row", ![s].clip = k]
    BY DEF OpenRow
  <1> DEFINE r == Moved(s, "row", k)
  <1>2. sup[s] \in SupState /\ sup \in [Sup -> SupState] /\ clips \in [Clip -> ClipState]
    BY DEF TypeOK
  <1>3. r.pc = "row" /\ r.clip = k
    BY MovedFields
  <1>4. sup' = [sup EXCEPT ![s] = r] /\ sup'[s] = r /\ \A t \in Sup : t # s => sup'[t] = sup[t]
    BY <1>1, <1>2 DEF Moved
  <1> HIDE DEF r
  <1>5. clips'[k] = "row" /\ \A j \in Clip : j # k => clips'[j] = clips[j]
    BY <1>1, <1>2
  <1>6. Names(r, clips')
    BY <1>3, <1>5, ConfigAssumption DEF Names
  <1>7. HoldInv'
    BY <1>1, <1>3, <1>4, <1>5, <1>6, HoldStep
  <1>8. sup[s].pc = "opening" /\ sup[s].clip = NoClip
    BY DEF OpenRow, HoldInv, Names
  <1>9. StepOf(r) = SessionStep[s] /\ HandOf(r) = SessionHand[s]
    BY <1>3, <1>8 DEF StepOf, HandOf, SessionStep, SessionHand
  <1>10. Session!To(s, StepOf(r), HandOf(r))
    BY <1>2, <1>4, MoveSession
  <1>11. UNCHANGED <<SessionStep, SessionHand>>
    BY <1>9, <1>10 DEF Session!To, SessionStep, SessionHand
  <1>12. OpenClips' = OpenClips
    BY <1>1, <1>5 DEF OpenClips
  <1> QED
    BY <1>7, <1>11, <1>12 DEF SessionNext, Session!svars

LEMMA OpenInsertSession ==
  ASSUME TypeOK, HoldInv, NEW s \in Sup, OpenInsert(s)
  PROVE  HoldInv' /\ SessionNext
  <1> DEFINE k == sup[s].clip
             m == [clips EXCEPT ![k] = "open"]
             r == Moved(s, "frame", k)
  <1>0. sup[s] \in SupState /\ clips \in [Clip -> ClipState] /\ "frame" \in SupPc
    BY DEF TypeOK, SupPc
  <1>1. sup[s].pc = "row" /\ k \in Clip /\ clips[k] = "row" /\ Poll(s, "frame", k, m)
    BY <1>0 DEF OpenInsert, HoldInv, Names, SupState
  <1>2. m \in [Clip -> ClipState] /\ m[k] = "open" /\ \A j \in Clip : j # k => m[j] = clips[j]
    BY <1>0, <1>1 DEF ClipState
  <1>3. r.pc = "frame" /\ r.clip = k
    BY <1>0, MovedFields
  <1>4. Names(r, m)
    BY <1>2, <1>3 DEF Names
  <1>5. {j \in Clip : m[j] = "open"} = OpenClips \cup {k}
    BY <1>1, <1>2 DEF OpenClips
  <1>6. StepOf(r) = "held" /\ HandOf(r) = k
    BY <1>1, <1>3, ConfigAssumption DEF StepOf, HandOf
  <1>7. Session!Unnamed(k) /\ SessionStep[s] = "asking"
    <2>1. \A t \in Sup : SessionHand[t] # k
      BY <1>1, ConfigAssumption DEF SessionHand, HandOf, HoldInv
    <2> QED
      BY <2>1, <1>1 DEF Session!Unnamed, OpenClips, SessionStep, StepOf
  <1> HIDE DEF m
  <1>8. /\ HoldInv' /\ OpenClips' = OpenClips \cup {k}
        /\ Session!To(s, "gone", NoClip) \/ Session!To(s, StepOf(r), HandOf(r))
    BY <1>0, <1>1, <1>2, <1>4, <1>5, PollSession
  <1>9. CASE Session!To(s, "gone", NoClip)
    <2>1. Session!DropGranted(s, k)
      BY <1>7, <1>8, <1>9 DEF Session!DropGranted
    <2> QED
      BY <2>1, <1>1, <1>8 DEF SessionNext, Session!SNext
  <1>10. CASE Session!To(s, StepOf(r), HandOf(r))
    <2>1. Session!Grant(s, k)
      BY <1>6, <1>7, <1>8, <1>10 DEF Session!Grant
    <2> QED
      BY <2>1, <1>1, <1>8 DEF SessionNext, Session!SNext
  <1> QED
    BY <1>8, <1>9, <1>10

(* recorder.close, of a clip in the open map and of one the drain took.    *)
LEMMA CloseSession ==
  ASSUME TypeOK, HoldInv, NEW s \in Sup, sup[s].pc \in {"wait", "frame"}, sup[s].clip # NoClip,
         NEW p \in {"closing", "ending"}, NEW q \in {"frame", "gone"}, CloseTo(s, p, q)
  PROVE  HoldInv' /\ SessionNext
  <1> DEFINE k == sup[s].clip
             m == [clips EXCEPT ![k] = "closing"]
             r == Moved(s, p, k)
             u == Moved(s, q, NoClip)
  <1>0. sup[s] \in SupState /\ clips \in [Clip -> ClipState] /\ p \in SupPc /\ q \in SupPc /\ k \in Clip
    BY DEF TypeOK, SupPc, SupState
  <1>1. r.pc = p /\ r.clip = k /\ u.pc = q /\ u.clip = NoClip
    BY <1>0, MovedFields
  <1>2. SessionStep[s] = "held" /\ SessionHand[s] = k
    BY DEF SessionStep, SessionHand, StepOf, HandOf
  <1>3. CASE clips[k] = "open"
    <2>1. Poll(s, p, k, m)
      BY <1>3 DEF CloseTo
    <2>2. m \in [Clip -> ClipState] /\ m[k] = "closing" /\ \A j \in Clip : j # k => m[j] = clips[j]
      BY <1>0 DEF ClipState
    <2>3. Names(r, m) /\ StepOf(r) = "closing" /\ HandOf(r) = k
      BY <1>1, <2>2 DEF Names, StepOf, HandOf
    <2>4. {j \in Clip : m[j] = "open"} = OpenClips \ {k}
      BY <2>2 DEF OpenClips
    <2>5. SessionHand[s] \in OpenClips
      BY <1>0, <1>2, <1>3 DEF OpenClips
    <2> HIDE DEF m
    <2>6. /\ HoldInv' /\ OpenClips' = OpenClips \ {k}
          /\ IF sup[s].aborted \/ p = "gone" THEN Session!To(s, "gone", NoClip)
             ELSE Session!To(s, StepOf(r), HandOf(r))
      BY <1>0, <2>1, <2>2, <2>3, <2>4, PollSession
    <2>7. CASE Session!To(s, "gone", NoClip)
      <3>1. Session!DropReturning(s)
        BY <1>2, <2>5, <2>6, <2>7 DEF Session!DropReturning
      <3> QED
        BY <3>1, <2>6 DEF SessionNext, Session!SNext
    <2>8. CASE Session!To(s, StepOf(r), HandOf(r))
      <3>1. Session!Return(s)
        BY <1>2, <2>3, <2>5, <2>6, <2>8 DEF Session!Return
      <3> QED
        BY <3>1, <2>6 DEF SessionNext, Session!SNext
    <2> QED
      BY <2>6, <2>7, <2>8
  <1>4. CASE clips[k] # "open"
    <2>1. Poll(s, q, NoClip, clips)
      BY <1>4 DEF CloseTo
    <2>2. q # "gone" => Names(u, clips) /\ StepOf(u) = "none" /\ HandOf(u) = NoClip
      BY <1>1 DEF Names, StepOf, HandOf
    <2>3. SessionHand[s] \notin OpenClips
      BY <1>2, <1>4 DEF OpenClips
    <2> HIDE DEF m
    <2>4. /\ HoldInv' /\ OpenClips' = OpenClips
          /\ \/ Session!To(s, "gone", NoClip)
             \/ q # "gone" /\ Session!To(s, StepOf(u), HandOf(u))
      <3>1. {j \in Clip : clips[j] = "open"} = OpenClips
        BY DEF OpenClips
      <3> QED
        BY <3>1, <1>0, <2>1, <2>2, PollSession
    <2>5. CASE Session!To(s, "gone", NoClip)
      BY <2>4, <2>5, GoneDrops
    <2>6. CASE q # "gone" /\ Session!To(s, StepOf(u), HandOf(u))
      <3>1. Session!UnknownClip(s)
        BY <1>2, <2>2, <2>3, <2>4, <2>6 DEF Session!UnknownClip
      <3> QED
        BY <3>1, <2>4 DEF SessionNext, Session!SNext
    <2> QED
      BY <2>4, <2>5, <2>6
  <1> QED
    BY <1>3, <1>4

LEMMA EndLoopSession ==
  ASSUME TypeOK, HoldInv, NEW s \in Sup, sup[s].pc = "wait", EndLoop(s)
  PROVE  HoldInv' /\ SessionNext
  <1>1. CASE sup[s].clip # NoClip
    BY <1>1, CloseSession DEF EndLoop
  <1>2. CASE sup[s].clip = NoClip
    <2>1. Poll(s, "gone", NoClip, clips) /\ clips \in [Clip -> ClipState] /\ "gone" \in SupPc
      BY <1>2 DEF EndLoop, TypeOK, SupPc
    <2>2. HoldInv' /\ OpenClips' = OpenClips /\ Session!To(s, "gone", NoClip)
      BY <2>1, PollSession DEF OpenClips
    <2> QED
      BY <2>2, GoneDrops
  <1> QED
    BY <1>1, <1>2

LEMMA CloseEndSession ==
  ASSUME TypeOK, HoldInv, NEW s \in Sup, CloseEnd(s)
  PROVE  HoldInv' /\ SessionNext
  <1> DEFINE k == sup[s].clip
             m == [clips EXCEPT ![k] = "free"]
             r == Moved(s, "frame", NoClip)
  <1>0. sup[s] \in SupState /\ clips \in [Clip -> ClipState] /\ {"frame", "gone"} \subseteq SupPc
    BY DEF TypeOK, SupPc
  <1>1. /\ sup[s].pc \in {"closing", "ending"} /\ k \in Clip /\ clips[k] = "closing"
        /\ Poll(s, "frame", NoClip, m) \/ Poll(s, "gone", NoClip, m)
    BY <1>0 DEF CloseEnd, HoldInv, Names, SupState
  <1>2. m \in [Clip -> ClipState] /\ m[k] = "free" /\ \A j \in Clip : j # k => m[j] = clips[j]
    BY <1>0, <1>1 DEF ClipState
  <1>3. r.pc = "frame" /\ r.clip = NoClip
    BY <1>0, MovedFields
  <1>4. Names(r, m) /\ StepOf(r) = "none" /\ HandOf(r) = NoClip
    BY <1>3 DEF Names, StepOf, HandOf
  <1>5. {j \in Clip : m[j] = "open"} = OpenClips
    BY <1>1, <1>2 DEF OpenClips
  <1>6. SessionStep[s] = "closing"
    BY <1>1 DEF SessionStep, StepOf
  <1> HIDE DEF m
  <1>7. /\ HoldInv' /\ OpenClips' = OpenClips
        /\ Session!To(s, "gone", NoClip) \/ Session!To(s, StepOf(r), HandOf(r))
    <2>1. CASE Poll(s, "frame", NoClip, m)
      BY <2>1, <1>0, <1>1, <1>2, <1>4, <1>5, PollSession
    <2>2. CASE Poll(s, "gone", NoClip, m)
      BY <2>2, <1>0, <1>1, <1>2, <1>5, PollSession
    <2> QED
      BY <1>1, <2>1, <2>2
  <1>8. CASE Session!To(s, "gone", NoClip)
    BY <1>7, <1>8, GoneDrops
  <1>9. CASE Session!To(s, StepOf(r), HandOf(r))
    <2>1. Session!Returned(s)
      BY <1>4, <1>6, <1>7, <1>9 DEF Session!Returned
    <2> QED
      BY <2>1, <1>7 DEF SessionNext, Session!SNext
  <1> QED
    BY <1>7, <1>8, <1>9

(* The begin of an open and its failure.                                   *)
LEMMA AskSession ==
  ASSUME TypeOK, HoldInv, NEW s \in Sup, OpenBegin(s) \/ OpenFail(s)
  PROVE  HoldInv' /\ SessionNext
  <1> DEFINE p == IF sup[s].pc = "frame" THEN "opening" ELSE "frame"
             r == Moved(s, p, NoClip)
  <1>0. sup[s] \in SupState /\ clips \in [Clip -> ClipState] /\ p \in SupPc \ {"gone"}
    BY DEF TypeOK, SupPc
  <1>1. Poll(s, p, NoClip, clips) /\ sup[s].clip = NoClip /\ sup[s].pc \in {"frame", "opening"}
    BY DEF OpenBegin, OpenFail, HoldInv, Names
  <1>2. r.pc = p /\ r.clip = NoClip
    BY <1>0, MovedFields
  <1>3. Names(r, clips) /\ HandOf(r) = NoClip
    BY <1>2 DEF Names, HandOf
  <1>4. \/ SessionStep[s] = "none" /\ StepOf(r) = "asking"
        \/ SessionStep[s] = "asking" /\ StepOf(r) = "none"
    BY <1>1, <1>2 DEF SessionStep, StepOf
  <1> HIDE DEF p
  <1>5. /\ HoldInv' /\ OpenClips' = OpenClips
        /\ Session!To(s, "gone", NoClip) \/ Session!To(s, StepOf(r), HandOf(r))
    <2>1. {j \in Clip : clips[j] = "open"} = OpenClips
      BY DEF OpenClips
    <2> QED
      BY <2>1, <1>0, <1>1, <1>3, PollSession
  <1>6. CASE Session!To(s, "gone", NoClip)
    BY <1>5, <1>6, GoneDrops
  <1>7. CASE Session!To(s, StepOf(r), HandOf(r))
    <2>1. Session!Ask(s) \/ Session!Deny(s)
      BY <1>3, <1>4, <1>5, <1>7 DEF Session!Ask, Session!Deny
    <2> QED
      BY <2>1, <1>5 DEF SessionNext, Session!SNext
  <1> QED
    BY <1>5, <1>6, <1>7

LEMMA SuperviseSession ==
  ASSUME TypeOK, HoldInv, NEW s \in Sup, Supervise(s) \/ SourceEnds(s) \/ Panic(s)
  PROVE  HoldInv' /\ SessionNext
  <1>1. CASE FrameBegin(s) \/ FrameEnd(s)
    BY <1>1, PollStutters DEF FrameBegin, FrameEnd
  <1>2. CASE OpenBegin(s) \/ OpenFail(s) \/ OpenRow(s) \/ OpenInsert(s)
    BY <1>2, AskSession, OpenRowSession, OpenInsertSession
  <1>3. CASE CloseBegin(s)
    BY <1>3, CloseSession DEF CloseBegin
  <1>4. CASE CloseEnd(s)
    BY <1>4, CloseEndSession
  <1>5. CASE StopSeen(s) \/ SourceEnds(s)
    BY <1>5, EndLoopSession DEF StopSeen, SourceEnds
  <1>6. CASE AbortLands(s) \/ Panic(s)
    <2>1. sup' = [sup EXCEPT ![s] = Gone] /\ clips' = Orphan(clips, sup[s].clip)
      BY <1>6 DEF AbortLands, Panic
    <2>2. sup \in [Sup -> SupState] /\ sup'[s] = Gone /\ \A t \in Sup : t # s => sup'[t] = sup[t]
      BY <2>1 DEF TypeOK
    <2>3. \A j \in Clip : j # sup[s].clip => clips'[j] = clips[j]
      BY <2>1 DEF Orphan
    <2>4. HoldInv'
      BY <2>2, <2>3, GoneSession, GoneIsSupState, HoldStep
    <2>5. OpenClips' = OpenClips
      BY <2>1, OrphanOpen DEF OpenClips
    <2>6. Session!To(s, "gone", NoClip)
      BY <2>1, <2>2, MoveSession, GoneSession
    <2> QED
      BY <2>4, <2>5, <2>6, GoneDrops
  <1> QED
    BY <1>1, <1>2, <1>3, <1>4, <1>5, <1>6 DEF Supervise

(* An abort ends the sessions of the supervisors that were parked.         *)
LEMMA AbortSession ==
  ASSUME TypeOK, HoldInv, NEW S \in SUBSET Sup, NEW P, Abort(S, P)
  PROVE  HoldInv' /\ SessionNext
  <1> DEFINE H == {s \in S \ P : ~Finished(s)}
  <1>1. \A t \in Sup : sup'[t] = IF t \notin S \/ Finished(t) THEN sup[t]
                                 ELSE IF t \in P THEN [sup[t] EXCEPT !.aborted = TRUE] ELSE Gone
    BY DEF Abort
  <1>2. \A t \in Sup : LET r == [sup[t] EXCEPT !.aborted = TRUE]
                       IN  r.pc = sup[t].pc /\ r.clip = sup[t].clip
    BY DEF TypeOK, SupState
  <1>3. \A t \in Sup : IF t \in H THEN sup'[t] = Gone
                       ELSE sup'[t].pc = sup[t].pc /\ sup'[t].clip = sup[t].clip
    BY <1>1, <1>2
  <1>4. \A k \in Clip : \/ clips'[k] = clips[k]
                        \/ clips[k] \in {"row", "closing"} /\ clips'[k] = "lost"
                           /\ \E s \in S \ P : sup[s].clip = k
    BY DEF Abort
  <1>5. HoldInv'
    <2>1. ASSUME NEW t \in Sup PROVE Names(sup'[t], clips')
      <3>0. Names(sup[t], clips) /\ sup[t].clip \in Clip \cup {NoClip}
        BY DEF HoldInv, TypeOK, SupState
      <3>1. CASE t \in H
        BY <3>1, <1>3, GoneSession
      <3>2. CASE t \notin H /\ sup[t].clip # NoClip
        <4>1. sup[t].clip \in Clip /\ ~Finished(t)
          BY <3>0, <3>2 DEF Names, Finished
        <4>2. clips'[sup[t].clip] = clips[sup[t].clip]
          <5>1. SUFFICES ASSUME NEW s \in S \ P, sup[s].clip = sup[t].clip PROVE FALSE
            BY <4>1, <1>4
          <5>2. s = t
            BY <5>1, <3>2 DEF HoldInv
          <5> QED
            BY <5>1, <5>2, <3>2, <4>1
        <4> QED
          BY <4>2, <3>0, <3>2, <1>3 DEF Names
      <3>3. CASE t \notin H /\ sup[t].clip = NoClip
        BY <3>0, <3>3, <1>3 DEF Names
      <3> QED
        BY <3>1, <3>2, <3>3
    <2>2. \A t \in Sup : sup'[t].clip \in {NoClip, sup[t].clip}
      BY <1>3, GoneIsSupState
    <2> QED
      BY <2>1, <2>2 DEF HoldInv
  <1>6. OpenClips' = OpenClips
    BY <1>4 DEF OpenClips
  <1>7. /\ SessionStep' = [t \in Sup |-> IF t \in H THEN "gone" ELSE SessionStep[t]]
        /\ SessionHand' = [t \in Sup |-> IF t \in H THEN NoClip ELSE SessionHand[t]]
    <2>1. \A t \in Sup : /\ StepOf(sup'[t]) = IF t \in H THEN "gone" ELSE StepOf(sup[t])
                         /\ HandOf(sup'[t]) = IF t \in H THEN NoClip ELSE HandOf(sup[t])
      BY <1>3, GoneSession DEF StepOf, HandOf
    <2> HIDE DEF H
    <2> QED
      BY <2>1 DEF SessionStep, SessionHand
  <1>8. H \in SUBSET Sup
    OBVIOUS
  <1> HIDE DEF H
  <1>9. Session!Drop(H)
    BY <1>6, <1>7 DEF Session!Drop
  <1> QED
    BY <1>5, <1>8, <1>9 DEF SessionNext, Session!SNext

(* A step that leaves the supervisors' sessions and the clips alone.       *)
LEMMA QuietSession ==
  ASSUME HoldInv, clips' = clips,
         \A t \in Sup : sup'[t].pc = sup[t].pc /\ sup'[t].clip = sup[t].clip
  PROVE  HoldInv' /\ SessionNext
  <1>1. HoldInv'
    BY DEF HoldInv, Names
  <1>2. \A t \in Sup : StepOf(sup'[t]) = StepOf(sup[t]) /\ HandOf(sup'[t]) = HandOf(sup[t])
    BY DEF StepOf, HandOf
  <1>3. UNCHANGED <<SessionStep, SessionHand, OpenClips>>
    BY <1>2 DEF SessionStep, SessionHand, OpenClips
  <1> QED
    BY <1>1, <1>3 DEF SessionNext, Session!svars

LEMMA SpawnSession ==
  ASSUME TypeOK, HoldInv, NEW c \in Camera, Spawn(c)
  PROVE  HoldInv' /\ SessionNext
  <1>1. PICK s \in Slot : Finished(<<c, s>>) /\ sup' = [sup EXCEPT ![<<c, s>>] = Fresh]
    BY DEF Spawn
  <1> DEFINE t == <<c, s>>
  <1>2. t \in Sup /\ sup \in [Sup -> SupState] /\ clips' = clips
    BY DEF Sup, TypeOK, Spawn
  <1> HIDE DEF t
  <1>3. sup' = [sup EXCEPT ![t] = Fresh] /\ sup[t].pc = "gone"
    BY <1>1 DEF t, Finished
  <1>4. sup'[t] = Fresh /\ \A u \in Sup : u # t => sup'[u] = sup[u]
    BY <1>2, <1>3
  <1>5. Names(Fresh, clips') /\ StepOf(Fresh) = "none" /\ HandOf(Fresh) = NoClip
    BY GoneIsSupState DEF Names, StepOf, HandOf
  <1>6. HoldInv'
    BY <1>2, <1>4, <1>5, GoneIsSupState, HoldStep
  <1>7. Session!To(t, "none", NoClip)
    BY <1>2, <1>3, <1>5, MoveSession
  <1>8. SessionStep[t] = "gone" /\ OpenClips' = OpenClips
    BY <1>2, <1>3 DEF SessionStep, StepOf, OpenClips
  <1>9. Session!Start(t)
    BY <1>7, <1>8 DEF Session!Start
  <1> QED
    BY <1>2, <1>6, <1>9 DEF SessionNext, Session!SNext

LEMMA ReconcileSession ==
  ASSUME IInv, HoldInv, Reconcile
  PROVE  HoldInv' /\ SessionNext
  <1>0. TypeOK
    BY DEF IInv
  <1>1. CASE \E c \in Camera : Spawn(c)
    BY <1>0, <1>1, SpawnSession
  <1>2. CASE \E c \in Camera : StopTimeout(c)
    <2>1. PICK P \in SUBSET rec.task : Abort(rec.task, P)
      BY <1>2 DEF StopTimeout
    <2>2. rec.task \in SUBSET Sup
      BY <1>0 DEF TypeOK
    <2> QED
      BY <2>1, <2>2, <1>0, AbortSession
  <1>3. CASE \E c \in Camera : StopCamera(c)
    <2>1. PICK c \in Camera : StopCamera(c)
      BY <1>3
    <2>2. SupOf(c) \in Sup /\ clips' = clips
      BY <2>1, <1>0, EntryFields DEF StopCamera
    <2>3. \A t \in Sup : sup'[t].pc = sup[t].pc /\ sup'[t].clip = sup[t].clip
      BY <2>1, <2>2, <1>0 DEF StopCamera, TypeOK, SupState
    <2> QED
      BY <2>2, <2>3, QuietSession
  <1>4. CASE \/ PassBegin \/ PassEnd
             \/ \E c \in Camera : Stopped(c) \/ StartCamera(c) \/ Register(c) \/ RetrySessions(c)
    <2>1. UNCHANGED <<sup, clips>>
      BY <1>4 DEF PassBegin, PassEnd, Stopped, StartCamera, Register, RetrySessions
    <2> QED
      BY <2>1, QuietSession
  <1> QED
    BY <1>1, <1>2, <1>3, <1>4 DEF Reconcile

LEMMA ShutdownSession ==
  ASSUME IInv, HoldInv, Shutdown
  PROVE  HoldInv' /\ SessionNext
  <1>0. TypeOK
    BY DEF IInv
  <1>1. CASE JoinReconciler \/ Snapshot
    <2>1. UNCHANGED <<sup, clips>>
      BY <1>1 DEF JoinReconciler, Snapshot
    <2> QED
      BY <2>1, QuietSession
  <1>2. CASE AbortSupervisors
    <2> DEFINE S == {SupOf(c) : c \in {d \in Camera : HasEntry(d)}}
    <2>1. PICK P \in SUBSET S : Abort(S, P)
      BY <1>2 DEF AbortSupervisors
    <2>2. S \in SUBSET Sup
      BY <1>0, EntryFields
    <2> HIDE DEF S
    <2> QED
      BY <2>1, <2>2, <1>0, AbortSession
  <1>3. CASE Exit
    <2>1. sup' = [s \in Sup |-> Gone] /\ \A k \in Clip : clips'[k] # "open"
      BY <1>3 DEF Exit
    <2>2. HoldInv'
      BY <2>1, GoneSession, GoneIsSupState DEF HoldInv
    <2>3. /\ SessionStep' = [s \in Sup |-> "gone"] /\ SessionHand' = [s \in Sup |-> NoClip]
          /\ OpenClips' = {}
      BY <2>1, GoneSession DEF SessionStep, SessionHand, OpenClips
    <2>4. Session!End
      BY <2>3 DEF Session!End
    <2> QED
      BY <2>2, <2>4 DEF SessionNext, Session!SNext
  <1>4. ASSUME NEW k \in Clip, DrainClose(k) PROVE HoldInv' /\ SessionNext
    <2>1. sup' = sup /\ clips' = [clips EXCEPT ![k] = IF @ = "open" THEN "free" ELSE @]
      BY <1>4 DEF DrainClose
    <2>2. \A j \in Clip : clips'[j] = IF j = k /\ clips[j] = "open" THEN "free" ELSE clips[j]
      BY <2>1, <1>0 DEF TypeOK
    <2>3. HoldInv'
      <3>1. ASSUME NEW t \in Sup PROVE Names(sup[t], clips')
        <4>1. Names(sup[t], clips) /\ sup[t].clip \in Clip \cup {NoClip}
          BY <1>0 DEF HoldInv, TypeOK, SupState
        <4> QED
          BY <4>1, <2>2 DEF Names
      <3> QED
        BY <3>1, <2>1 DEF HoldInv
    <2>4. UNCHANGED <<SessionStep, SessionHand>> /\ OpenClips' = OpenClips \ {k}
      BY <2>1, <2>2 DEF SessionStep, SessionHand, OpenClips
    <2>5. Session!DrainOne(k)
      BY <2>4 DEF Session!DrainOne
    <2> QED
      BY <2>3, <2>5 DEF SessionNext, Session!SNext
  <1> QED
    BY <1>1, <1>2, <1>3, <1>4 DEF Shutdown

LEMMA NextSession ==
  ASSUME IInv, HoldInv, [Next]_vars
  PROVE  HoldInv' /\ SessionNext
  <1>1. CASE \E s \in Sup : Supervise(s) \/ SourceEnds(s) \/ Panic(s)
    BY <1>1, SuperviseSession DEF IInv
  <1>2. CASE \/ \E c \in Camera : Edit(c) \/ SubstreamDrops(c)
             \/ UNCHANGED vars
    <2>1. UNCHANGED <<sup, clips>>
      BY <1>2 DEF Edit, SubstreamDrops, vars
    <2> QED
      BY <2>1, QuietSession
  <1>3. CASE Reconcile \/ Shutdown
    BY <1>3, ReconcileSession, ShutdownSession
  <1> QED
    BY <1>1, <1>2, <1>3 DEF Next

LEMMA HoldInvariance == Spec => []HoldInv
  <1>1. IInv /\ HoldInv /\ [Next]_vars => HoldInv'
    BY NextSession
  <1> QED
    BY <1>1, HoldInit, IInvariance, PTL DEF Spec

(* The supervisors, the aborts and panics that drop them and the drain at  *)
(* shutdown implement the contract of ClipSession.                         *)
THEOREM SessionIsKept == Spec => SessionKept
  <1>1. Init => Session!SInit
    <2> SUFFICES ASSUME Init PROVE Session!SInit
      OBVIOUS
    <2>1. \A t \in Sup : sup[t] \in {Fresh, Gone}
      BY DEF Init
    <2>2. \A t \in Sup : StepOf(sup[t]) \in {"gone", "none"} /\ HandOf(sup[t]) = NoClip
      BY <2>1, GoneIsSupState DEF StepOf, HandOf
    <2>3. OpenClips = {}
      BY DEF Init, OpenClips
    <2> QED
      BY <2>2, <2>3 DEF Session!SInit, SessionStep, SessionHand
  <1>2. IInv /\ HoldInv /\ [Next]_vars => [Session!SNext]_(Session!svars)
    BY NextSession DEF SessionNext
  <1> QED
    BY <1>1, <1>2, IInvariance, HoldInvariance, PTL DEF Spec, SessionKept, Session!SSpec


(* The reconciler, the supervisors, the recorder's open map and main stay  *)
(* within their types.                                                     *)
THEOREM TypeCorrect == Spec => []TypeOK
  BY IInvariance, PTL DEF IInv

(* Every supervisor that nobody has told to die is in the map, also while  *)
(* it is being stopped: main's sweep at shutdown reaches all of them, and  *)
(* no camera has two.                                                      *)
THEOREM SweepReaches == Spec => []SweepReachesAll
  BY IInvariance, PTL DEF IInv

(* Without aborts and panics every unfinished clip belongs to a supervisor *)
(* that will close it.                                                     *)
THEOREM ClipsAreOwned == Spec => []ClipsOwned
  <1>1. IInv => ClipsOwned
    <2> SUFFICES ASSUME IInv, ~forced, NEW k \in Clip, clips[k] # "free"
                 PROVE  \E s \in Sup : Alive(s) /\ sup[s].clip = k
      BY DEF ClipsOwned
    <2>1. PICK s \in Sup : sup[s].clip = k
      BY DEF IInv, OwnInv
    <2>2. ~sup[s].aborted /\ Holds(sup[s], clips)
      BY DEF IInv, OwnInv
    <2>3. sup[s].pc # "gone"
      BY <2>1, <2>2, ConfigAssumption DEF Holds
    <2> QED
      BY <2>1, <2>2, <2>3 DEF Alive, Finished
  <1> QED
    BY <1>1, IInvariance, PTL

(* An ingester is never taken from under a supervisor that may still be    *)
(* recording from it.                                                      *)
THEOREM IngestersOutlive == Spec => IngesterOutlives
  <1>1. IInv /\ IInv' /\ [Next]_vars
           => [\A c \in Camera : ing[c] # NoConfig /\ ing'[c] # ing[c]
                  => \A s \in Slot : ~Alive(<<c, s>>)']_vars
    <2> SUFFICES ASSUME IInv, IInv', Next, NEW c \in Camera, ing[c] # NoConfig, ing'[c] # ing[c],
                        NEW s \in Slot
                 PROVE  ~Alive(<<c, s>>)'
      OBVIOUS
    <2>1. ~HasEntry(c)'
      <3>1. PICK d \in Camera : Stopped(d) \/ StopTimeout(d) \/ Register(d) \/ RetrySessions(d)
        <4>1. \A t \in Sup : ~(Supervise(t) \/ SourceEnds(t) \/ Panic(t))
          BY SuperviseShape DEF IInv, supOnly
        <4> QED
          BY <4>1 DEF Next, Reconcile, Shutdown, Edit, SubstreamDrops, PassBegin, PassEnd, StopCamera,
             StartCamera, Spawn, JoinReconciler, AbortSupervisors, Snapshot, Exit, DrainClose
      <3>2. CASE Stopped(d) \/ StopTimeout(d)
        <4>1. d = c
          BY <3>2 DEF Stopped, StopTimeout, Remove, IInv, TypeOK, Rows
        <4> QED
          BY <4>1, <3>2, StoppedStep, StopTimeoutStep
      <3>3. CASE Register(d)
        BY <3>3, RegisterStep
      <3>4. CASE RetrySessions(d)
        BY <3>4, RetryStep
      <3> QED
        BY <3>1, <3>2, <3>3, <3>4
    <2>2. <<c, s>> \in Sup /\ <<c, s>>[1] = c
      BY DEF Sup
    <2> QED
      BY <2>1, <2>2 DEF IInv, SweepReachesAll
  <1> QED
    BY <1>1, IInvariance, PTL DEF Spec, IngesterOutlives
=============================================================================
