------------------------ MODULE ReleaseUpdateProofs ------------------------
(***************************************************************************)
(* Proofs about ReleaseUpdate, for every set of releases, every number of  *)
(* concurrent apply tasks and every bound on what goes wrong.              *)
(***************************************************************************)
EXTENDS ReleaseUpdate, TLAPS

-----------------------------------------------------------------------------
(* The inductive invariant                                                 *)

(* A snapshot that claims success names a release that proved itself.      *)
Honest(st) == st.phase = "success" => st.current \in good

(* The finaliser awaits the proof of the very release that runs, and a     *)
(* proof is one of the process that runs.                                  *)
BlessInv ==
    /\ Honest(row)
    /\ \A w \in Worker : Honest(task[w].st)
    /\ proven => running \in good
    /\ task["final"].pc = "await" => task["final"].st.current = running

(* A worker that works towards a release knows which.                      *)
TargetInv ==
    \A w \in Worker :
       task[w].pc \notin {"idle", "start", "await", "dark", "mismatch", "guard", "prune", "pruning"}
          => task[w].v \in Version

Active(w) == task[w].pc # "idle"

(* The row is already ahead of the link.                                   *)
Flipping == {"stage", "extract", "extracting", "flip", "rbflip", "reflip"}

(* What each pc knows of the row and of the disk while nothing disturbs    *)
(* the attempt it belongs to.                                              *)
StepInv(w) ==
    LET t == task[w]
    IN  /\ t.pc \notin {"undo", "rbfailed", "mismatch", "guard"}
        /\ t.pc = "ack" => t.st = row
        /\ t.pc \in {"read", "mark", "fetch", "commit"} =>
              t.v \in Version \ {link} /\ link \in good
        /\ t.pc \in {"mark", "fetch", "commit"} =>
              /\ t.st.current = row.current /\ t.st.previous = row.previous
              /\ t.st.phase = "verifying"
        /\ t.pc \in {"stage", "extract", "extracting", "flip"} =>
              /\ t.v \in Version \ {link} /\ link \in good
              /\ row.current = t.v /\ row.previous = link /\ row.phase = "restarting"
        /\ t.pc \in {"extract", "extracting"} => staged = t.v
        /\ t.pc = "flip" => trees[t.v] = "whole"
        /\ t.pc \in {"rollback", "rewrite"} => t.st = row
        /\ t.pc \in {"rollback", "reread", "rewrite", "rbflip", "reflip"} =>
              t.v = row.previous /\ t.v # NoVersion
        /\ t.pc \in {"rbflip", "reflip"} => row.current = t.v /\ row.phase = "restarting"
        /\ t.pc \in {"await", "dark"} =>
              t.st = row /\ row.current = link /\ row.phase = "restarting"
        /\ t.pc \in {"prune", "pruning"} => link \in good
        /\ t.pc = "prune" => t.st.previous = row.previous
        /\ t.pc = "pruning" => t.doomed \cap {link, row.previous} = {}

(* At most one worker acts, and none while the engine is down or about to  *)
(* be restarted.                                                           *)
OneAtATime ==
    /\ \A w, x \in Worker : Active(w) /\ Active(x) => w = x
    /\ restart \/ running = NoVersion => \A w \in Worker : ~Active(w)
    /\ running = NoVersion => ~restart
    /\ running # NoVersion /\ ~restart => running = link

(* `current` and previous_good are whole trees, previous_good has proved   *)
(* itself, and an unproven `current` has a row to be judged by.            *)
NetInv ==
    /\ trees[link] = "whole"
    /\ row.previous # NoVersion => row.previous \in good /\ trees[row.previous] = "whole"
    /\ link \notin good => row.phase = "restarting" /\ row.previous # NoVersion
    /\ running # NoVersion /\ ~restart /\ ~Active("final") => link \in good

(* Unless somebody is about to flip, the row names the link.               *)
RowInv ==
    (\A w \in Worker : task[w].pc \notin Flipping) =>
       /\ row.current \in {NoVersion, link}
       /\ row.phase = "restarting" => row.current = link

Calm == OneAtATime /\ NetInv /\ RowInv /\ \A w \in Worker : StepInv(w)

SerialInv == Undisturbed => Calm

(* Undisturbed can only be lost.                                           *)
BudgetInv == budget["crash"] <= MaxCrashes /\ budget["mishap"] <= MaxMishaps

Basic == TypeOK /\ TargetInv /\ BlessInv /\ BudgetInv

IInv == Basic /\ SerialInv

-----------------------------------------------------------------------------
(* The pieces the actions are made of                                      *)

LEMMA Bases ==
  /\ NoState \in UpdateState /\ NoState.phase = "none"
  /\ Idle \in Task /\ Idle.st = NoState /\ Idle.pc = "idle"
  /\ "inbound" \in Worker /\ "final" \in Worker /\ "dog" \in Worker
  /\ \A s \in Slot : s \in Worker /\ s # "inbound" /\ s # "final" /\ s # "dog"
  BY VersionAssumption DEF NoState, UpdateState, Idle, Task, Pc, Phase, MaxCrashCount, Worker

LEMMA TaskFields ==
  ASSUME TypeOK, NEW w \in Worker
  PROVE  /\ task[w] \in Task /\ task[w].st \in UpdateState /\ task[w].v \in Version \cup {NoVersion}
         /\ task[w].doomed \in SUBSET Version /\ task[w].pc \in Pc
  BY DEF TypeOK, Task

LEMMA SpendType ==
  ASSUME TypeOK, NEW B, Spend(B)
  PROVE  budget' \in [Bounds -> Nat]
  BY DEF TypeOK, Spend

(* Worker w becomes task t.                                                *)
LEMMA SetTask ==
  ASSUME TypeOK, NEW w \in Worker, NEW t \in Task, task' = [task EXCEPT ![w] = t]
  PROVE  task' \in [Worker -> Task] /\ \A x \in Worker : task'[x] = IF x = w THEN t ELSE task[x]
  BY DEF TypeOK

LEMMA GotoStep ==
  ASSUME TypeOK, NEW w \in Worker, NEW p \in Pc, Goto(w, p)
  PROVE  /\ task' \in [Worker -> Task]
         /\ \A x \in Worker : x # w => task'[x] = task[x]
         /\ task'[w].st = task[w].st /\ task'[w].pc = p /\ task'[w].v = task[w].v
  BY DEF TypeOK, Goto, Task

LEMMA EndStep ==
  ASSUME TypeOK, NEW w \in Worker, End(w)
  PROVE  /\ task' \in [Worker -> Task]
         /\ \A x \in Worker : x # w => task'[x] = task[x]
         /\ task'[w].st = NoState /\ task'[w].pc = "idle"
  BY Bases DEF TypeOK, End

LEMMA KeepStep ==
  ASSUME TypeOK, NEW w \in Worker, NEW st \in UpdateState, NEW p \in Pc, Keep(w, st, p)
  PROVE  /\ task' \in [Worker -> Task]
         /\ \A x \in Worker : x # w => task'[x] = task[x]
         /\ task'[w].pc = p
         /\ task'[w].st \in {st, NoState}
         /\ p # "idle" => task'[w].st = st
  <1>1. CASE p = "idle"
    BY <1>1, Bases DEF TypeOK, Keep
  <1>2. CASE p # "idle"
    BY <1>2 DEF TypeOK, Keep, Task
  <1> QED
    BY <1>1, <1>2

LEMMA RollbackToStep ==
  ASSUME TypeOK, NEW w \in Worker, NEW st \in UpdateState, RollbackTo(w, st)
  PROVE  /\ task' \in [Worker -> Task]
         /\ \A x \in Worker : x # w => task'[x] = task[x]
         /\ \/ task'[w] = Idle
            \/ /\ task'[w].pc = "rollback" /\ task'[w].st = st
               /\ task'[w].v = st.previous /\ st.previous # NoVersion
  <1>1. CASE st.previous = NoVersion
    BY <1>1, Bases DEF TypeOK, RollbackTo
  <1>2. CASE st.previous # NoVersion
    <2> DEFINE t == [Idle EXCEPT !.pc = "rollback", !.st = st, !.v = st.previous]
    <2>1. t \in Task /\ t.pc = "rollback" /\ t.st = st /\ t.v = st.previous
      BY Bases DEF Task, Pc, UpdateState
    <2>2. task' = [task EXCEPT ![w] = t]
      BY <1>2 DEF RollbackTo
    <2> HIDE DEF t
    <2> QED
      BY <1>2, <2>1, <2>2, SetTask
  <1> QED
    BY <1>1, <1>2

-----------------------------------------------------------------------------
(* The shapes of a step                                                    *)

(* What a task has to be for worker w.                                     *)
Fit(w, t) ==
    /\ t \in Task
    /\ Honest(t.st)
    /\ t.pc \notin {"idle", "start", "await", "dark", "mismatch", "guard", "prune", "pruning"}
          => t.v \in Version
    /\ w = "final" /\ t.pc = "await" => t.st.current = running

LEMMA IdleFits ==
  ASSUME NEW w
  PROVE  Fit(w, Idle)
  BY Bases DEF Fit, Honest

LEMMA BudgetStep ==
  ASSUME Basic, UNCHANGED budget \/ \E B \in SUBSET Bounds : Spend(B)
  PROVE  budget' \in [Bounds -> Nat] /\ BudgetInv' /\ (Undisturbed' => Undisturbed)
  <1>0. /\ budget \in [Bounds -> Nat] /\ budget["crash"] <= MaxCrashes /\ budget["mishap"] <= MaxMishaps
        /\ MaxCrashes \in Nat /\ MaxMishaps \in Nat /\ "crash" \in Bounds /\ "mishap" \in Bounds
    BY BoundAssumption DEF Basic, TypeOK, BudgetInv, Bounds
  <1>1. CASE UNCHANGED budget
    BY <1>0, <1>1 DEF BudgetInv, Undisturbed
  <1>2. ASSUME NEW B \in SUBSET Bounds, Spend(B)
        PROVE  budget' \in [Bounds -> Nat] /\ BudgetInv' /\ (Undisturbed' => Undisturbed)
    <2>1. \A b \in Bounds : budget'[b] \in Nat /\ budget'[b] <= budget[b]
      BY <1>0, <1>2 DEF Spend
    <2>2. budget' \in [Bounds -> Nat]
      BY <1>0, <1>2 DEF Spend
    <2> QED
      BY <1>0, <2>1, <2>2 DEF BudgetInv, Undisturbed
  <1> QED
    BY <1>1, <1>2

(* An undisturbed step spends neither of the two.                          *)
LEMMA NoMishap ==
  ASSUME Basic, NEW B \in SUBSET Bounds, Spend(B), Undisturbed'
  PROVE  "mishap" \notin B /\ "crash" \notin B
  <1>0. /\ budget \in [Bounds -> Nat] /\ budget["crash"] <= MaxCrashes /\ budget["mishap"] <= MaxMishaps
        /\ MaxCrashes \in Nat /\ MaxMishaps \in Nat /\ "crash" \in Bounds /\ "mishap" \in Bounds
    BY BoundAssumption DEF Basic, TypeOK, BudgetInv, Bounds
  <1> QED
    BY <1>0 DEF Spend, Undisturbed

LEMMA WriteStep ==
  ASSUME Basic, NEW st \in UpdateState, WriteState(st)
  PROVE  /\ row' \in UpdateState /\ row' \in {row, st}
         /\ budget' \in [Bounds -> Nat] /\ BudgetInv' /\ (Undisturbed' => Undisturbed)
         /\ Undisturbed' => row' = st
  <1>1. {"mishap"} \in SUBSET Bounds
    BY DEF Bounds
  <1> QED
    BY <1>1, BudgetStep, NoMishap DEF Basic, TypeOK, WriteState

LEMMA WriteHonest ==
  ASSUME Basic, NEW st \in UpdateState, Honest(st), WriteState(st)
  PROVE  /\ row' \in UpdateState /\ Honest(row')
         /\ budget' \in [Bounds -> Nat] /\ BudgetInv' /\ (Undisturbed' => Undisturbed)
         /\ Undisturbed' => row' = st
  <1>1. row' \in {row, st} /\ Honest(row)
    BY WriteStep DEF Basic, BlessInv
  <1> QED
    BY <1>1, WriteStep DEF Honest

(* A snapshot read from the row, or taken for empty.                       *)
LEMMA ReadStep ==
  ASSUME Basic, NEW r \in {row, NoState}, NEW B \in SUBSET Bounds, Misread(r) \subseteq B, Spend(B)
  PROVE  /\ r \in UpdateState /\ Honest(r)
         /\ budget' \in [Bounds -> Nat] /\ BudgetInv' /\ (Undisturbed' => Undisturbed)
         /\ Undisturbed' => r = row /\ "mishap" \notin B
  <1>1. r \in UpdateState /\ Honest(r)
    BY Bases DEF Basic, TypeOK, BlessInv, Honest
  <1>2. Undisturbed' => "mishap" \notin B
    BY NoMishap
  <1> QED
    BY <1>1, <1>2, BudgetStep DEF Misread

(* A step of some workers inside a running process.                        *)
LEMMA BasicStep ==
  ASSUME Basic,
         task' \in [Worker -> Task], \A x \in Worker : task'[x] = task[x] \/ Fit(x, task'[x]),
         row' \in UpdateState, Honest(row'),
         UNCHANGED <<running, proven, good>>, latched' \in BOOLEAN,
         trees' \in [Version -> {"absent", "half", "whole"}], link' \in Version,
         staged' \in Version \cup {NoVersion}, restart' \in BOOLEAN,
         budget' \in [Bounds -> Nat], BudgetInv'
  PROVE  Basic'
  <1>1. TypeOK'
    BY DEF Basic, TypeOK
  <1>2. TargetInv'
    BY DEF Basic, TargetInv, Fit
  <1>3. BlessInv'
    <2>1. \A x \in Worker : Honest(task'[x].st)
      BY DEF Basic, BlessInv, Fit
    <2>2. task'["final"].pc = "await" => task'["final"].st.current = running
      BY Bases DEF Basic, BlessInv, Fit
    <2> QED
      BY <2>1, <2>2 DEF Basic, BlessInv, Honest
  <1> QED
    BY <1>1, <1>2, <1>3 DEF Basic

(* What a worker at work, and a request that finds none, can rely on.       *)
LEMMA ActorFacts ==
  ASSUME Basic, Calm, NEW w \in Worker, running # NoVersion, Active(w)
  PROVE  /\ ~restart /\ running = link /\ NetInv /\ StepInv(w)
         /\ \A x \in Worker : x # w => task[x].pc = "idle"
         /\ task[w].pc \notin Flipping => /\ row.current \in {NoVersion, link}
                                          /\ row.phase = "restarting" => row.current = link
  BY DEF Calm, OneAtATime, RowInv, Active, Flipping

LEMMA QuietFacts ==
  ASSUME Basic, Calm, running # NoVersion, Quiet
  PROVE  /\ ~restart /\ running = link /\ NetInv /\ link \in good
         /\ \A x \in Worker : task[x].pc = "idle"
         /\ row.current \in {NoVersion, link}
         /\ row.phase = "restarting" => row.current = link
  BY Bases DEF Calm, OneAtATime, NetInv, RowInv, Active, Flipping, Quiet

(* A step after which only w may be at work.                               *)
LEMMA CalmStep ==
  ASSUME NEW w \in Worker, \A x \in Worker : x # w => task'[x].pc = "idle",
         StepInv(w)', NetInv', running' # NoVersion,
         restart' => task'[w].pc = "idle",
         ~restart' => running' = link',
         task'[w].pc \notin Flipping => /\ row'.current \in {NoVersion, link'}
                                        /\ row'.phase = "restarting" => row'.current = link'
  PROVE  Calm'
  <1>1. OneAtATime'
    BY DEF OneAtATime, Active
  <1>2. RowInv'
    BY DEF RowInv
  <1>3. ASSUME NEW x \in Worker, x # w PROVE StepInv(x)'
    BY <1>3 DEF StepInv
  <1> QED
    BY <1>1, <1>2, <1>3 DEF Calm

(* What the one worker at work may rely on, and has to leave behind.       *)
Local(w) ==
    /\ StepInv(w) /\ NetInv
    /\ restart => ~Active(w)
    /\ ~restart => running = link
    /\ task[w].pc \notin Flipping => /\ row.current \in {NoVersion, link}
                                     /\ row.phase = "restarting" => row.current = link

(* A step of worker w alone: what is to be shown of it.                    *)
LEMMA ActStep ==
  ASSUME IInv, NEW w \in Worker, running # NoVersion, Active(w),
         task' \in [Worker -> Task], \A x \in Worker : x # w => task'[x] = task[x], Fit(w, task'[w]),
         row' \in UpdateState, Honest(row'),
         UNCHANGED <<running, proven, latched, good>>,
         trees' \in [Version -> {"absent", "half", "whole"}], link' \in Version,
         staged' \in Version \cup {NoVersion}, restart' \in BOOLEAN,
         budget' \in [Bounds -> Nat], BudgetInv', Undisturbed' => Undisturbed,
         Undisturbed' /\ Local(w) /\ ~restart => Local(w)'
  PROVE  IInv'
  <1>1. Basic'
    BY BasicStep DEF IInv, Basic, TypeOK
  <1>2. ASSUME Undisturbed' PROVE Calm'
    <2>1. Calm /\ Basic
      BY <1>2 DEF IInv, SerialInv
    <2>2. Local(w) /\ ~restart /\ \A x \in Worker : x # w => task[x].pc = "idle"
      BY <2>1, ActorFacts DEF Local
    <2>3. Local(w)'
      BY <1>2, <2>2
    <2>4. running' # NoVersion /\ \A x \in Worker : x # w => task'[x].pc = "idle"
      BY <2>2
    <2> QED
      BY <2>3, <2>4, CalmStep DEF Local, Active
  <1> QED
    BY <1>1, <1>2 DEF IInv, SerialInv

-----------------------------------------------------------------------------
(* Inbound envelopes                                                       *)

LEMMA AssignmentStep ==
  ASSUME IInv, NEW v \in Version, Assignment(v)
  PROVE  IInv'
  <1>1. /\ running # NoVersion /\ Basic /\ TypeOK
        /\ UNCHANGED <<row, trees, link, staged, restart, running, proven, latched, good>>
    BY DEF Assignment, At, disk, process, IInv, Basic
  <1>0. PICK r \in {row, NoState} :
           /\ Spend({"assign"} \cup Overlap \cup Misread(r))
           /\ task' = [task EXCEPT !["inbound"] = [Idle EXCEPT !.pc = "ack", !.st = r, !.v = v]]
    BY DEF Assignment
  <1> DEFINE B == {"assign"} \cup Overlap \cup Misread(r)
  <1>4. B \in SUBSET Bounds /\ Misread(r) \subseteq B /\ Spend(B)
    BY <1>0 DEF Overlap, Bounds, Misread
  <1>7. /\ r \in UpdateState /\ Honest(r)
        /\ budget' \in [Bounds -> Nat] /\ BudgetInv' /\ (Undisturbed' => Undisturbed)
        /\ Undisturbed' => r = row /\ Quiet
    BY <1>1, <1>4, ReadStep DEF Overlap
  <1> HIDE DEF B
  <1>2. PICK t \in Task : /\ t.pc = "ack" /\ t.st = r /\ t.v = v
                          /\ task' = [task EXCEPT !["inbound"] = t]
    <2>1. r \in UpdateState /\ "ack" \in Pc
      BY <1>7 DEF Pc
    <2>2. PICK t : t = [Idle EXCEPT !.pc = "ack", !.st = r, !.v = v]
      OBVIOUS
    <2>3. t \in Task /\ t.pc = "ack" /\ t.st = r /\ t.v = v
      BY <2>1, <2>2, Bases DEF Task
    <2>4. task' = [task EXCEPT !["inbound"] = t]
      BY <1>0, <2>2
    <2> QED
      BY <2>3, <2>4
  <1>3. /\ task' \in [Worker -> Task] /\ task'["inbound"] = t
        /\ \A x \in Worker : x # "inbound" => task'[x] = task[x]
    BY <1>1, <1>2, SetTask, Bases
  <1>5. Basic'
    <2>1. Fit("inbound", t)
      BY <1>2, <1>7 DEF Fit
    <2>2. row' \in UpdateState /\ Honest(row')
      BY <1>1 DEF Basic, TypeOK, BlessInv, Honest
    <2> QED
      BY <1>1, <1>3, <1>7, <2>1, <2>2, BasicStep DEF TypeOK
  <1>6. ASSUME Undisturbed' PROVE Calm'
    <2>1. Undisturbed /\ Quiet /\ r = row
      BY <1>6, <1>7
    <2>2. Calm
      BY <2>1 DEF IInv, SerialInv
    <2>3. /\ ~restart /\ running = link /\ NetInv /\ link \in good
          /\ \A x \in Worker : task[x].pc = "idle"
          /\ row.current \in {NoVersion, link}
          /\ row.phase = "restarting" => row.current = link
      BY <1>1, <2>1, <2>2, QuietFacts
    <2>4. StepInv("inbound")'
      BY <1>1, <1>2, <1>3, <2>1 DEF StepInv
    <2>5. NetInv'
      BY <1>1, <2>3 DEF NetInv
    <2> QED
      BY <1>1, <1>3, <2>3, <2>4, <2>5, Bases, CalmStep
  <1> QED
    BY <1>5, <1>6 DEF IInv, SerialInv

LEMMA AcknowledgeStep ==
  ASSUME IInv, Acknowledge
  PROVE  IInv'
  <1> DEFINE st == task["inbound"].st
             v  == task["inbound"].v
  <1>1. /\ running # NoVersion /\ task["inbound"].pc = "ack" /\ WriteState(st) /\ Basic /\ TypeOK
        /\ UNCHANGED <<trees, link, staged, restart, running, proven, latched, good>>
    BY DEF Acknowledge, At, disk, process, IInv, Basic
  <1>2. st \in UpdateState /\ Honest(st) /\ v \in Version
    BY <1>1, Bases, TaskFields DEF Basic, BlessInv, TargetInv
  <1>3. /\ row' \in UpdateState /\ row' \in {row, st}
        /\ budget' \in [Bounds -> Nat] /\ BudgetInv' /\ (Undisturbed' => Undisturbed)
        /\ Undisturbed' => row' = st
    BY <1>1, <1>2, WriteStep
  <1>4. PICK w \in Worker \ {"final"} :
           /\ task' \in [Worker -> Task]
           /\ \A x \in Worker : task'[x] = task[x] \/ task'[x] = Idle \/ x = w
           /\ \/ task'[w] = Idle
              \/ task'[w].pc = "read" /\ task'[w].st = NoState /\ task'[w].v = v /\ v # running
           /\ task'["inbound"].pc = "idle"
    <2>1. CASE v = running
      BY <2>1, <1>1, EndStep, Bases DEF Acknowledge, End, TypeOK
    <2>2. CASE v # running
      <3>1. PICK s \in Slot :
               task' = [task EXCEPT !["inbound"] = Idle,
                                    ![s] = [Idle EXCEPT !.pc = "read", !.v = v]]
        BY <2>2 DEF Acknowledge
      <3>2. PICK t : t = [Idle EXCEPT !.pc = "read", !.v = v]
        OBVIOUS
      <3>6. t \in Task /\ t.pc = "read" /\ t.st = NoState /\ t.v = v
        BY <1>2, <3>2, Bases DEF Task, Pc
      <3>3. s \in Worker \ {"final"} /\ s # "inbound"
        BY Bases
      <3>4. task' = [task EXCEPT !["inbound"] = Idle, ![s] = t]
        BY <3>1, <3>2
      <3>5. /\ task' \in [Worker -> Task] /\ task'[s] = t /\ task'["inbound"] = Idle
            /\ \A x \in Worker : x \notin {s, "inbound"} => task'[x] = task[x]
        BY <3>3, <3>4, <3>6, <1>1, Bases DEF TypeOK
      <3> HIDE DEF v
      <3> QED
        BY <2>2, <3>3, <3>5, <3>6, Bases
    <2> QED
      BY <2>1, <2>2
  <1> HIDE DEF st, v
  <1>5. Basic'
    <2>1. Fit(w, task'[w])
      BY <1>2, <1>4, IdleFits, Bases DEF Fit, Honest
    <2>2. Honest(row')
      BY <1>1, <1>2, <1>3 DEF Basic, BlessInv, Honest
    <2>3. \A x \in Worker : task'[x] = task[x] \/ Fit(x, task'[x])
      BY <1>4, <2>1, IdleFits
    <2> QED
      BY <1>1, <1>3, <1>4, <2>2, <2>3, BasicStep DEF TypeOK
  <1>6. ASSUME Undisturbed' PROVE Calm'
    <2>1. Calm /\ row' = st
      BY <1>3, <1>6 DEF IInv, SerialInv
    <2>2. /\ ~restart /\ running = link /\ NetInv /\ StepInv("inbound")
          /\ \A x \in Worker : x # "inbound" => task[x].pc = "idle"
          /\ row.current \in {NoVersion, link}
          /\ row.phase = "restarting" => row.current = link
      BY <1>1, <2>1, Bases, ActorFacts DEF Active, Flipping
    <2>3. row' = row
      BY <1>1, <2>1, <2>2 DEF StepInv, st
    <2>4. link \in good
      BY <1>1, <2>2, Bases DEF NetInv, Active
    <2>5. \A x \in Worker : x # w => task'[x].pc = "idle"
      BY <1>4, <2>2, Bases
    <2>6. task'[w].pc \in {"idle", "read"}
      BY <1>4, Bases
    <2>7. StepInv(w)'
      BY <1>1, <1>2, <1>4, <2>2, <2>4, <2>6, Bases DEF StepInv
    <2>8. NetInv'
      BY <1>1, <2>2, <2>3, <2>4 DEF NetInv
    <2>9. task'[w].pc \notin Flipping
      BY <2>6 DEF Flipping
    <2> QED
      BY <1>1, <2>2, <2>3, <2>5, <2>7, <2>8, CalmStep
  <1> QED
    BY <1>5, <1>6 DEF IInv, SerialInv
LEMMA RollbackStep ==
  ASSUME IInv, Rollback
  PROVE  IInv'
  <1>1. /\ running # NoVersion /\ Basic /\ TypeOK
        /\ UNCHANGED <<row, trees, link, staged, restart, running, proven, latched, good>>
    BY DEF Rollback, At, disk, process, IInv, Basic
  <1>0. PICK r \in {row, NoState} :
           Spend({"rollback"} \cup Overlap \cup Misread(r)) /\ RollbackTo("inbound", r)
    BY DEF Rollback
  <1> DEFINE B == {"rollback"} \cup Overlap \cup Misread(r)
  <1>4. B \in SUBSET Bounds /\ Misread(r) \subseteq B /\ Spend(B)
    BY <1>0 DEF Overlap, Bounds, Misread
  <1>2. /\ r \in UpdateState /\ Honest(r)
        /\ budget' \in [Bounds -> Nat] /\ BudgetInv' /\ (Undisturbed' => Undisturbed)
        /\ Undisturbed' => r = row /\ Quiet
    BY <1>1, <1>4, ReadStep DEF Overlap
  <1> HIDE DEF B
  <1>3. /\ task' \in [Worker -> Task]
        /\ \A x \in Worker : x # "inbound" => task'[x] = task[x]
        /\ \/ task'["inbound"] = Idle
           \/ /\ task'["inbound"].pc = "rollback" /\ task'["inbound"].st = r
              /\ task'["inbound"].v = r.previous /\ r.previous # NoVersion
    BY <1>0, <1>1, <1>2, RollbackToStep, Bases
  <1>5. Basic'
    <2>1. Fit("inbound", task'["inbound"])
      BY <1>2, <1>3, IdleFits, Bases DEF Fit, UpdateState
    <2>2. row' \in UpdateState /\ Honest(row')
      BY <1>1 DEF TypeOK, Basic, BlessInv, Honest
    <2> QED
      BY <1>1, <1>2, <1>3, <2>1, <2>2, BasicStep DEF TypeOK
  <1>6. ASSUME Undisturbed' PROVE Calm'
    <2>1. Undisturbed /\ Quiet /\ r = row
      BY <1>2, <1>6
    <2>2. Calm
      BY <2>1 DEF IInv, SerialInv
    <2>3. /\ ~restart /\ running = link /\ NetInv /\ link \in good
          /\ \A x \in Worker : task[x].pc = "idle"
          /\ row.current \in {NoVersion, link}
          /\ row.phase = "restarting" => row.current = link
      BY <1>1, <2>1, <2>2, QuietFacts
    <2>4. StepInv("inbound")'
      BY <1>1, <1>3, <2>1, Bases DEF StepInv
    <2>5. NetInv'
      BY <1>1, <2>3 DEF NetInv
    <2> QED
      BY <1>1, <1>3, <2>3, <2>4, <2>5, Bases, CalmStep
  <1> QED
    BY <1>5, <1>6 DEF IInv, SerialInv

-----------------------------------------------------------------------------
(* Going back                                                              *)

LEMMA RolledBackState ==
  ASSUME NEW st \in UpdateState, NEW v \in Version
  PROVE  LET r == RolledBack(st, v)
         IN  /\ r \in UpdateState /\ r.current = v /\ r.previous = st.previous
             /\ r.phase = "restarting" /\ Honest(r)
  BY DEF RolledBack, UpdateState, Phase, Honest

LEMMA RollbackWriteStep ==
  ASSUME IInv, NEW w \in Worker, RollbackWrite(w)
  PROVE  IInv'
  <1>1. /\ running # NoVersion /\ task[w].pc = "rollback" /\ Active(w) /\ Basic /\ TypeOK
        /\ UNCHANGED <<trees, link, staged, restart, running, proven, latched, good>>
    BY DEF RollbackWrite, At, disk, process, IInv, Basic, Active
  <1>2. PICK st \in UpdateState : st = RolledBack(task[w].st, task[w].v)
    BY <1>1, TaskFields, RolledBackState DEF Basic, TargetInv
  <1>3. /\ st.current = task[w].v /\ st.previous = task[w].st.previous /\ st.phase = "restarting"
        /\ Honest(st) /\ task[w].v \in Version
    BY <1>1, <1>2, TaskFields, RolledBackState DEF Basic, TargetInv
  <1>4. WriteState(st) /\ Keep(w, st, "rbflip")
    BY <1>2 DEF RollbackWrite
  <1>5. /\ task' \in [Worker -> Task] /\ \A x \in Worker : x # w => task'[x] = task[x]
        /\ task'[w].pc = "rbflip" /\ task'[w].st = st /\ task'[w].v = task[w].v /\ task'[w] \in Task
    <2>1. "rbflip" \in Pc
      BY DEF Pc
    <2>2. task'[w].v = task[w].v
      BY <1>1, <1>4 DEF Keep, TypeOK, Task
    <2> QED
      BY <1>1, <1>4, <2>1, <2>2, KeepStep
  <1>6. Fit(w, task'[w])
    BY <1>3, <1>5 DEF Fit
  <1>7. ASSUME Undisturbed', Local(w), ~restart PROVE Local(w)'
    <2>1. row' = st
      BY <1>1, <1>3, <1>4, <1>7, WriteHonest
    <2>2. task[w].st = row /\ task[w].v = row.previous /\ task[w].v # NoVersion
      BY <1>1, <1>7 DEF Local, StepInv
    <2>3. StepInv(w)'
      BY <1>3, <1>5, <2>1, <2>2 DEF StepInv
    <2>4. NetInv'
      BY <1>1, <1>3, <1>5, <1>7, <2>1, <2>2, Bases DEF Local, NetInv, Active
    <2> QED
      BY <1>1, <1>5, <1>7, <2>3, <2>4 DEF Local, Active, Flipping
  <1> QED
    BY <1>1, <1>3, <1>4, <1>5, <1>6, <1>7, WriteHonest, ActStep DEF TypeOK

(* The applier's flip, from a failed one to a scheduled restart.           *)
LEMMA FlipFacts ==
  ASSUME Basic, NEW w \in Worker, NEW v \in Version, NEW f \in Pc, FlipAndRestart(w, v, f)
  PROVE  /\ task' \in [Worker -> Task] /\ \A x \in Worker : x # w => task'[x] = task[x]
         /\ task'[w] = Idle \/ (task'[w].st = task[w].st /\ task'[w].pc = f /\ task'[w].v = task[w].v)
         /\ link' \in Version /\ restart' \in BOOLEAN
         /\ budget' \in [Bounds -> Nat] /\ BudgetInv' /\ (Undisturbed' => Undisturbed)
         /\ Undisturbed' => link' = v /\ restart' /\ task'[w] = Idle
         /\ UNCHANGED <<row, trees, staged, running, proven, latched, good>>
  <1>0. TypeOK /\ {"mishap"} \in SUBSET Bounds
    BY DEF Basic, Bounds
  <1>1. UNCHANGED budget \/ Spend({"mishap"})
    BY DEF FlipAndRestart
  <1>2. /\ budget' \in [Bounds -> Nat] /\ BudgetInv' /\ (Undisturbed' => Undisturbed)
        /\ Undisturbed' => ~Spend({"mishap"})
    BY <1>0, <1>1, BudgetStep, NoMishap
  <1>3. CASE End(w)
    <2>1. task' \in [Worker -> Task] /\ (\A x \in Worker : x # w => task'[x] = task[x]) /\ task'[w] = Idle
      BY <1>0, <1>3, Bases DEF End, TypeOK
    <2> QED
      BY <1>0, <1>2, <2>1 DEF FlipAndRestart, TypeOK, process
  <1>4. CASE Goto(w, f) /\ Spend({"mishap"}) /\ link' \in {link, v} /\ UNCHANGED restart
    BY <1>0, <1>2, <1>4, GotoStep DEF FlipAndRestart, TypeOK, process
  <1> QED
    BY <1>3, <1>4 DEF FlipAndRestart

(* Flipping to previous_good.                                              *)
LEMMA ReflipStep ==
  ASSUME IInv, NEW w \in Worker, running # NoVersion,
         \/ task[w].pc = "rbflip" /\ Reflip(w, "rbfailed")
         \/ task[w].pc = "reflip" /\ Reflip(w, "idle")
  PROVE  IInv'
  <1>0. PICK f \in {"rbfailed", "idle"} : Reflip(w, f)
    OBVIOUS
  <1>1. /\ Active(w) /\ Basic /\ TypeOK /\ task[w].v \in Version /\ f \in Pc
        /\ task[w].pc \in {"rbflip", "reflip"}
    BY DEF IInv, Basic, Active, TargetInv, Pc
  <1>2. /\ task' \in [Worker -> Task] /\ \A x \in Worker : x # w => task'[x] = task[x]
        /\ task'[w] = Idle \/ (task'[w].st = task[w].st /\ task'[w].pc = f /\ task'[w].v = task[w].v)
        /\ link' \in Version /\ restart' \in BOOLEAN
        /\ budget' \in [Bounds -> Nat] /\ BudgetInv' /\ (Undisturbed' => Undisturbed)
        /\ Undisturbed' /\ trees[task[w].v] # "absent" => link' = task[w].v /\ restart' /\ task'[w] = Idle
        /\ UNCHANGED <<row, trees, staged, running, proven, latched, good>>
    <2>1. CASE trees[task[w].v] = "absent"
      BY <2>1, <1>0, <1>1, GotoStep, BudgetStep DEF Reflip, TypeOK, disk, process
    <2>2. CASE trees[task[w].v] # "absent"
      BY <2>2, <1>0, <1>1, FlipFacts DEF Reflip
    <2> QED
      BY <2>1, <2>2
  <1>3. Fit(w, task'[w])
    <2>1. Honest(task[w].st) /\ task'[w] \in Task
      BY <1>1, <1>2 DEF Basic, BlessInv
    <2> QED
      BY <1>1, <1>2, <2>1, IdleFits DEF Fit
  <1>4. row' \in UpdateState /\ Honest(row')
    BY <1>1, <1>2 DEF Basic, TypeOK, BlessInv, Honest
  <1>5. ASSUME Undisturbed', Local(w), ~restart PROVE Local(w)'
    <2>1. /\ task[w].v = row.previous /\ row.previous # NoVersion
          /\ row.current = row.previous /\ row.phase = "restarting" /\ NetInv
      BY <1>1, <1>5 DEF Local, StepInv
    <2>2. row.previous \in good /\ trees[row.previous] = "whole"
      BY <2>1 DEF NetInv
    <2>3. link' = row.previous /\ restart' /\ task'[w] = Idle
      BY <1>2, <1>5, <2>1, <2>2
    <2>4. StepInv(w)'
      BY <2>3, Bases DEF StepInv
    <2>5. NetInv'
      BY <1>2, <2>1, <2>2, <2>3 DEF NetInv
    <2> QED
      BY <1>2, <2>1, <2>3, <2>4, <2>5, Bases DEF Local, Active
  <1> QED
    BY <1>1, <1>2, <1>3, <1>4, <1>5, ActStep DEF TypeOK

LEMMA RollbackFailedStep ==
  ASSUME IInv, NEW w \in Worker, RollbackFailed(w)
  PROVE  IInv'
  <1>1. /\ running # NoVersion /\ task[w].pc = "rbfailed" /\ Active(w) /\ Basic /\ TypeOK
        /\ WriteState(task[w].st) /\ End(w)
        /\ UNCHANGED <<trees, link, staged, restart, running, proven, latched, good>>
    BY DEF RollbackFailed, At, disk, process, IInv, Basic, Active
  <1>2. task[w].st \in UpdateState /\ Honest(task[w].st)
    BY <1>1, TaskFields DEF Basic, BlessInv
  <1>3. task' \in [Worker -> Task] /\ (\A x \in Worker : x # w => task'[x] = task[x]) /\ Fit(w, task'[w])
    BY <1>1, IdleFits, Bases DEF End, TypeOK
  <1>4. ~Local(w)
    BY <1>1 DEF Local, StepInv
  <1> QED
    BY <1>1, <1>2, <1>3, <1>4, WriteHonest, ActStep DEF TypeOK

LEMMA ReflipReadStep ==
  ASSUME IInv, NEW w \in Worker, ReflipRead(w)
  PROVE  IInv'
  <1>1. /\ running # NoVersion /\ task[w].pc = "reread" /\ Active(w) /\ Basic /\ TypeOK
        /\ UNCHANGED <<row, trees, link, staged, restart, running, proven, latched, good>>
    BY DEF ReflipRead, At, disk, process, IInv, Basic, Active
  <1>0. PICK r \in {row, NoState} : Spend(Misread(r)) /\ Keep(w, r, "rewrite")
    BY DEF ReflipRead
  <1>6. /\ r \in UpdateState /\ Honest(r)
        /\ budget' \in [Bounds -> Nat] /\ BudgetInv' /\ (Undisturbed' => Undisturbed)
        /\ Undisturbed' => r = row
    <2>1. Misread(r) \in SUBSET Bounds
      BY DEF Misread, Bounds
    <2> QED
      BY <1>0, <1>1, <2>1, ReadStep
  <1>2. Honest(row') /\ row' \in UpdateState /\ task[w].v \in Version
    BY <1>1 DEF TypeOK, Basic, BlessInv, TargetInv, Honest
  <1>3. /\ task' \in [Worker -> Task] /\ (\A x \in Worker : x # w => task'[x] = task[x])
        /\ task'[w].pc = "rewrite" /\ task'[w].st = r /\ task'[w].v = task[w].v /\ task'[w] \in Task
    BY <1>0, <1>1, <1>6 DEF Keep, TypeOK, Task, Pc
  <1>4. Fit(w, task'[w])
    BY <1>2, <1>3, <1>6 DEF Fit
  <1>5. ASSUME Undisturbed', Local(w), ~restart PROVE Local(w)'
    <2>1. StepInv(w)'
      BY <1>1, <1>3, <1>5, <1>6 DEF Local, StepInv
    <2>2. NetInv'
      BY <1>1, <1>3, <1>5, Bases DEF Local, NetInv, Active
    <2> QED
      BY <1>1, <1>3, <1>5, <2>1, <2>2 DEF Local, Active, Flipping
  <1> QED
    BY <1>1, <1>2, <1>3, <1>4, <1>5, <1>6, ActStep DEF TypeOK

LEMMA ReflipWriteStep ==
  ASSUME IInv, NEW w \in Worker, ReflipWrite(w)
  PROVE  IInv'
  <1>1. /\ running # NoVersion /\ task[w].pc = "rewrite" /\ Active(w) /\ Basic /\ TypeOK
        /\ Goto(w, "reflip")
        /\ UNCHANGED <<trees, link, staged, restart, running, proven, latched, good>>
    BY DEF ReflipWrite, At, disk, process, IInv, Basic, Active
  <1>2. PICK st \in UpdateState : st = RolledBack(task[w].st, task[w].v)
    BY <1>1, TaskFields, RolledBackState DEF Basic, TargetInv
  <1>3. /\ st.current = task[w].v /\ st.previous = task[w].st.previous /\ st.phase = "restarting"
        /\ Honest(st) /\ task[w].v \in Version /\ WriteState(st)
    BY <1>1, <1>2, TaskFields, RolledBackState DEF Basic, TargetInv, ReflipWrite
  <1>4. /\ task' \in [Worker -> Task] /\ \A x \in Worker : x # w => task'[x] = task[x]
        /\ task'[w].pc = "reflip" /\ task'[w].st = task[w].st /\ task'[w].v = task[w].v /\ task'[w] \in Task
    <2>1. "reflip" \in Pc
      BY DEF Pc
    <2> QED
      BY <1>1, <2>1, GotoStep
  <1>5. Fit(w, task'[w])
    BY <1>1, <1>3, <1>4 DEF Fit, Basic, BlessInv
  <1>6. ASSUME Undisturbed', Local(w), ~restart PROVE Local(w)'
    <2>1. row' = st
      BY <1>1, <1>3, <1>6, WriteHonest
    <2>2. task[w].st = row /\ task[w].v = row.previous /\ task[w].v # NoVersion
      BY <1>1, <1>6 DEF Local, StepInv
    <2>3. StepInv(w)'
      BY <1>3, <1>4, <2>1, <2>2 DEF StepInv
    <2>4. NetInv'
      BY <1>1, <1>3, <1>4, <1>6, <2>1, <2>2, Bases DEF Local, NetInv, Active
    <2> QED
      BY <1>1, <1>4, <1>6, <2>3, <2>4 DEF Local, Active, Flipping
  <1> QED
    BY <1>1, <1>3, <1>4, <1>5, <1>6, WriteHonest, ActStep DEF TypeOK
-----------------------------------------------------------------------------
(* The apply task                                                          *)

LEMMA FailFacts ==
  ASSUME Basic, NEW w \in Worker, NEW st \in UpdateState, Fail(w, st)
  PROVE  /\ task' \in [Worker -> Task] /\ \A x \in Worker : x # w => task'[x] = task[x]
         /\ task'[w] = Idle /\ Fit(w, task'[w])
         /\ row' \in UpdateState /\ Honest(row')
         /\ budget' \in [Bounds -> Nat] /\ BudgetInv' /\ (Undisturbed' => Undisturbed)
         /\ Undisturbed' => /\ row'.phase = "failed"
                            /\ row'.current = st.current /\ row'.previous = st.previous
  <1>1. PICK f \in UpdateState : f = [st EXCEPT !.phase = "failed"]
    BY DEF UpdateState, Phase
  <1>2. f.phase = "failed" /\ f.current = st.current /\ f.previous = st.previous
    BY <1>1 DEF UpdateState
  <1>3. WriteState(f) /\ End(w) /\ Honest(f)
    BY <1>1, <1>2 DEF Fail, Honest
  <1>4. task' \in [Worker -> Task] /\ (\A x \in Worker : x # w => task'[x] = task[x]) /\ task'[w] = Idle
    BY <1>3, Bases DEF End, Basic, TypeOK
  <1> QED
    BY <1>2, <1>3, <1>4, WriteHonest, IdleFits

LEMMA ApplyReadStep ==
  ASSUME IInv, NEW w \in Worker, ApplyRead(w)
  PROVE  IInv'
  <1>1. /\ running # NoVersion /\ task[w].pc = "read" /\ Active(w) /\ Basic /\ TypeOK
        /\ UNCHANGED <<row, trees, link, staged, restart, running, proven, latched, good>>
    BY DEF ApplyRead, At, disk, process, IInv, Basic, Active
  <1>0. PICK r \in {row, NoState} : Spend(Misread(r)) /\ Keep(w, [r EXCEPT !.phase = "verifying"], "mark")
    BY DEF ApplyRead
  <1>7. /\ r \in UpdateState
        /\ budget' \in [Bounds -> Nat] /\ BudgetInv' /\ (Undisturbed' => Undisturbed)
        /\ Undisturbed' => r = row
    <2>1. Misread(r) \in SUBSET Bounds
      BY DEF Misread, Bounds
    <2> QED
      BY <1>0, <1>1, <2>1, ReadStep
  <1>2. PICK st : st = [r EXCEPT !.phase = "verifying"]
    OBVIOUS
  <1>3. /\ st \in UpdateState /\ st.phase = "verifying" /\ st.current = r.current /\ st.previous = r.previous
        /\ Honest(row') /\ row' \in UpdateState /\ task[w].v \in Version /\ Keep(w, st, "mark")
    <2>1. /\ st \in UpdateState /\ st.phase = "verifying" /\ st.current = r.current
          /\ st.previous = r.previous
      BY <1>2, <1>7 DEF UpdateState, Phase
    <2> QED
      BY <1>0, <1>1, <1>2, <2>1 DEF TypeOK, Basic, BlessInv, TargetInv, Honest
  <1>4. /\ task' \in [Worker -> Task] /\ (\A x \in Worker : x # w => task'[x] = task[x])
        /\ task'[w].pc = "mark" /\ task'[w].st = st /\ task'[w].v = task[w].v /\ task'[w] \in Task
    BY <1>1, <1>3 DEF Keep, TypeOK, Task, Pc
  <1>5. Fit(w, task'[w])
    BY <1>3, <1>4 DEF Fit, Honest
  <1>6. ASSUME Undisturbed', Local(w), ~restart PROVE Local(w)'
    <2>1. StepInv(w)'
      BY <1>1, <1>3, <1>4, <1>6, <1>7 DEF Local, StepInv
    <2>2. NetInv'
      BY <1>1, <1>4, <1>6, Bases DEF Local, NetInv, Active
    <2> QED
      BY <1>1, <1>4, <1>6, <2>1, <2>2 DEF Local, Active, Flipping
  <1> QED
    BY <1>1, <1>3, <1>4, <1>5, <1>6, <1>7, ActStep DEF TypeOK

LEMMA ApplyMarkStep ==
  ASSUME IInv, NEW w \in Worker, ApplyMark(w)
  PROVE  IInv'
  <1>1. /\ running # NoVersion /\ task[w].pc = "mark" /\ Active(w) /\ Basic /\ TypeOK
        /\ Goto(w, "fetch") /\ WriteState(task[w].st)
        /\ UNCHANGED <<trees, link, staged, restart, running, proven, latched, good>>
    BY DEF ApplyMark, At, disk, process, IInv, Basic, Active
  <1>2. task[w].st \in UpdateState /\ Honest(task[w].st) /\ task[w].v \in Version
    BY <1>1, TaskFields DEF Basic, BlessInv, TargetInv
  <1>3. /\ task' \in [Worker -> Task] /\ \A x \in Worker : x # w => task'[x] = task[x]
        /\ task'[w].pc = "fetch" /\ task'[w].st = task[w].st /\ task'[w].v = task[w].v /\ task'[w] \in Task
    <2>1. "fetch" \in Pc
      BY DEF Pc
    <2> QED
      BY <1>1, <2>1, GotoStep
  <1>4. Fit(w, task'[w])
    BY <1>2, <1>3 DEF Fit
  <1>5. ASSUME Undisturbed', Local(w), ~restart PROVE Local(w)'
    <2>1. row' = task[w].st
      BY <1>1, <1>2, <1>5, WriteHonest
    <2>2. /\ row'.current = row.current /\ row'.previous = row.previous
          /\ row'.phase = "verifying" /\ link \in good /\ task[w].v \in Version \ {link}
      BY <1>1, <1>5, <2>1 DEF Local, StepInv
    <2>3. StepInv(w)'
      BY <1>1, <1>3, <2>1, <2>2 DEF StepInv
    <2>4. NetInv'
      BY <1>1, <1>5, <2>2 DEF Local, NetInv
    <2>5. row.current \in {NoVersion, link}
      BY <1>1, <1>5 DEF Local, Flipping
    <2> QED
      BY <1>1, <1>3, <1>5, <2>2, <2>3, <2>4, <2>5 DEF Local, Active, Flipping
  <1> QED
    BY <1>1, <1>2, <1>3, <1>4, <1>5, WriteHonest, ActStep DEF TypeOK

LEMMA ApplyFetchStep ==
  ASSUME IInv, NEW w \in Worker, ApplyFetch(w)
  PROVE  IInv'
  <1>1. /\ running # NoVersion /\ task[w].pc = "fetch" /\ Active(w) /\ Basic /\ TypeOK
        /\ UNCHANGED <<trees, link, staged, restart, running, proven, latched, good>>
    BY DEF ApplyFetch, At, disk, process, IInv, Basic, Active
  <1>2. /\ task[w].st \in UpdateState /\ Honest(task[w].st) /\ task[w].v \in Version
        /\ row \in UpdateState /\ Honest(row)
    BY <1>1, TaskFields DEF Basic, BlessInv, TargetInv, TypeOK
  <1>3. CASE Goto(w, "commit") /\ UNCHANGED <<row, budget>>
    <2>1. /\ task' \in [Worker -> Task] /\ \A x \in Worker : x # w => task'[x] = task[x]
          /\ task'[w].pc = "commit" /\ task'[w].st = task[w].st /\ task'[w].v = task[w].v
          /\ task'[w] \in Task
      <3>1. "commit" \in Pc
        BY DEF Pc
      <3> QED
        BY <1>1, <1>3, <3>1, GotoStep
    <2>2. Fit(w, task'[w]) /\ row' \in UpdateState /\ Honest(row')
      BY <1>2, <1>3, <2>1 DEF Fit, Honest
    <2>3. ASSUME Local(w), ~restart PROVE Local(w)'
      <3>1. StepInv(w)'
        BY <1>1, <1>3, <2>1, <2>3 DEF Local, StepInv
      <3>2. NetInv'
        BY <1>1, <1>3, <2>1, <2>3, Bases DEF Local, NetInv, Active
      <3> QED
        BY <1>1, <1>3, <2>1, <2>3, <3>1, <3>2 DEF Local, Active, Flipping
    <2> QED
      BY <1>1, <1>3, <2>1, <2>2, <2>3, BudgetStep, ActStep DEF TypeOK
  <1>4. CASE Fail(w, task[w].st)
    <2>1. ASSUME Undisturbed', Local(w), ~restart PROVE Local(w)'
      <3>1. /\ row'.phase = "failed" /\ row'.current = row.current /\ row'.previous = row.previous
            /\ link \in good /\ task'[w] = Idle
        BY <1>1, <1>2, <1>4, <2>1, FailFacts DEF Local, StepInv
      <3>2. StepInv(w)'
        BY <3>1, Bases DEF StepInv
      <3>3. NetInv'
        BY <1>1, <2>1, <3>1 DEF Local, NetInv
      <3> QED
        BY <1>1, <2>1, <3>1, <3>2, <3>3, Bases DEF Local, Active, Flipping
    <2> QED
      BY <1>1, <1>2, <1>4, <2>1, FailFacts, ActStep DEF TypeOK
  <1> QED
    BY <1>3, <1>4 DEF ApplyFetch

LEMMA CommittedState ==
  ASSUME TypeOK, NEW st \in UpdateState, NEW v \in Version
  PROVE  LET r == Committed(st, v)
         IN  /\ r \in UpdateState /\ r.current = v /\ r.phase = "restarting" /\ Honest(r)
             /\ r.previous = IF st.current = NoVersion THEN running ELSE st.current
  BY DEF Committed, UpdateState, Phase, Honest, TypeOK

LEMMA ApplyCommitStep ==
  ASSUME IInv, NEW w \in Worker, ApplyCommit(w)
  PROVE  IInv'
  <1>1. /\ running # NoVersion /\ task[w].pc = "commit" /\ Active(w) /\ Basic /\ TypeOK
        /\ UNCHANGED <<trees, link, staged, restart, running, proven, latched, good>>
    BY DEF ApplyCommit, At, disk, process, IInv, Basic, Active
  <1>2. PICK st \in UpdateState : st = Committed(task[w].st, task[w].v)
    BY <1>1, TaskFields, CommittedState DEF Basic, TargetInv
  <1>3. /\ st.current = task[w].v /\ st.phase = "restarting" /\ Honest(st) /\ task[w].v \in Version
        /\ st.previous = IF task[w].st.current = NoVersion THEN running ELSE task[w].st.current
        /\ WriteState(st) /\ Keep(w, st, "stage")
    BY <1>1, <1>2, TaskFields, CommittedState DEF Basic, TargetInv, ApplyCommit
  <1>4. /\ task' \in [Worker -> Task] /\ (\A x \in Worker : x # w => task'[x] = task[x])
        /\ task'[w].pc = "stage" /\ task'[w].st = st /\ task'[w].v = task[w].v /\ task'[w] \in Task
    BY <1>1, <1>3 DEF Keep, TypeOK, Task, Pc
  <1>5. Fit(w, task'[w])
    BY <1>3, <1>4 DEF Fit
  <1>6. ASSUME Undisturbed', Local(w), ~restart PROVE Local(w)'
    <2>1. row' = st
      BY <1>1, <1>3, <1>6, WriteHonest
    <2>2. /\ task[w].st.current = row.current /\ link \in good /\ task[w].v \in Version \ {link}
          /\ running = link /\ row.current \in {NoVersion, link} /\ NetInv
      BY <1>1, <1>6 DEF Local, StepInv, Flipping
    <2>3. row'.previous = link /\ row'.current = task[w].v /\ row'.phase = "restarting"
      BY <1>3, <2>1, <2>2
    <2>4. StepInv(w)'
      BY <1>1, <1>4, <2>2, <2>3 DEF StepInv
    <2>5. NetInv'
      BY <1>1, <2>2, <2>3 DEF NetInv
    <2> QED
      BY <1>1, <1>4, <1>6, <2>4, <2>5 DEF Local, Active, Flipping
  <1> QED
    BY <1>1, <1>3, <1>4, <1>5, <1>6, WriteHonest, ActStep DEF TypeOK
LEMMA ApplyStageStep ==
  ASSUME IInv, NEW w \in Worker, ApplyStage(w)
  PROVE  IInv'
  <1>1. /\ running # NoVersion /\ task[w].pc = "stage" /\ Active(w) /\ Basic /\ TypeOK
        /\ {"mishap"} \in SUBSET Bounds /\ {"extract", "undo"} \subseteq Pc
        /\ UNCHANGED <<row, trees, link, restart, running, proven, latched, good>>
    BY DEF ApplyStage, At, process, IInv, Basic, Active, Bounds, Pc
  <1>2. task[w].v \in Version /\ Honest(task[w].st) /\ row' \in UpdateState /\ Honest(row')
    BY <1>1 DEF Basic, BlessInv, TargetInv, TypeOK, Honest
  <1>3. /\ budget' \in [Bounds -> Nat] /\ BudgetInv' /\ (Undisturbed' => Undisturbed)
        /\ staged' \in Version \cup {NoVersion}
        /\ \/ Goto(w, "extract") /\ staged' = task[w].v
           \/ Goto(w, "undo") /\ ~Undisturbed'
    BY <1>1, <1>2, BudgetStep, NoMishap DEF ApplyStage
  <1>4. /\ task' \in [Worker -> Task] /\ \A x \in Worker : x # w => task'[x] = task[x]
        /\ task'[w].pc \in {"extract", "undo"} /\ task'[w].st = task[w].st /\ task'[w].v = task[w].v
        /\ Undisturbed' => task'[w].pc = "extract" /\ staged' = task[w].v
    BY <1>1, <1>3, GotoStep
  <1>5. Fit(w, task'[w])
    BY <1>2, <1>4 DEF Fit
  <1>6. ASSUME Undisturbed', Local(w), ~restart PROVE Local(w)'
    <2>1. StepInv(w)'
      BY <1>1, <1>4, <1>6 DEF Local, StepInv
    <2>2. NetInv'
      BY <1>1, <1>4, <1>6, Bases DEF Local, NetInv, Active
    <2> QED
      BY <1>1, <1>4, <1>6, <2>1, <2>2 DEF Local, Active, Flipping
  <1> QED
    BY <1>1, <1>2, <1>3, <1>4, <1>5, <1>6, ActStep DEF TypeOK

LEMMA ApplierExtractStep ==
  ASSUME IInv, NEW w \in Worker, ApplierExtract(w)
  PROVE  IInv'
  <1>1. /\ running # NoVersion /\ task[w].pc = "extract" /\ Active(w) /\ Basic /\ TypeOK
        /\ {"extracting", "undo"} \subseteq Pc
        /\ UNCHANGED <<row, link, staged, restart, budget, running, proven, latched, good>>
    BY DEF ApplierExtract, At, process, IInv, Basic, Active, Pc
  <1>2. task[w].v \in Version /\ Honest(task[w].st) /\ row' \in UpdateState /\ Honest(row')
    BY <1>1 DEF Basic, BlessInv, TargetInv, TypeOK, Honest
  <1>3. /\ task' \in [Worker -> Task] /\ \A x \in Worker : x # w => task'[x] = task[x]
        /\ task'[w].pc \in {"extracting", "undo"} /\ task'[w].st = task[w].st /\ task'[w].v = task[w].v
        /\ staged # NoVersion => task'[w].pc = "extracting"
    BY <1>1, GotoStep DEF ApplierExtract
  <1>4. /\ trees' \in [Version -> {"absent", "half", "whole"}]
        /\ \A v \in Version : v # staged => trees'[v] = trees[v]
    BY <1>1 DEF ApplierExtract, TypeOK
  <1>5. Fit(w, task'[w])
    BY <1>2, <1>3 DEF Fit
  <1>6. ASSUME Undisturbed', Local(w), ~restart PROVE Local(w)'
    <2>1. /\ staged = task[w].v /\ task[w].v # link /\ link \in good /\ row.previous = link
          /\ NetInv /\ row.phase = "restarting" /\ row.current = task[w].v
      BY <1>1, <1>6 DEF Local, StepInv
    <2>2. task'[w].pc = "extracting" /\ trees'[link] = trees[link]
      BY <1>1, <1>2, <1>3, <1>4, <2>1, VersionAssumption DEF TypeOK
    <2>3. StepInv(w)'
      BY <1>1, <1>2, <1>3, <2>1, <2>2 DEF StepInv
    <2>4. NetInv'
      BY <1>1, <2>1, <2>2 DEF NetInv
    <2> QED
      BY <1>1, <1>6, <2>2, <2>3, <2>4 DEF Local, Active, Flipping
  <1> QED
    BY <1>1, <1>2, <1>3, <1>4, <1>5, <1>6, BudgetStep, ActStep DEF TypeOK

LEMMA ApplierExtractedStep ==
  ASSUME IInv, NEW w \in Worker, ApplierExtracted(w)
  PROVE  IInv'
  <1>1. /\ running # NoVersion /\ task[w].pc = "extracting" /\ Active(w) /\ Basic /\ TypeOK
        /\ {"mishap"} \in SUBSET Bounds /\ {"flip", "undo"} \subseteq Pc
        /\ UNCHANGED <<row, link, staged, restart, running, proven, latched, good>>
    BY DEF ApplierExtracted, At, process, IInv, Basic, Active, Bounds, Pc
  <1>2. task[w].v \in Version /\ Honest(task[w].st) /\ row' \in UpdateState /\ Honest(row')
    BY <1>1 DEF Basic, BlessInv, TargetInv, TypeOK, Honest
  <1>3. PICK p \in {"flip", "undo"} :
           /\ Goto(w, p)
           /\ Undisturbed' => /\ staged # NoVersion /\ trees' = [trees EXCEPT ![staged] = "whole"]
                              /\ task[w].v = staged => p = "flip"
    BY <1>1, NoMishap DEF ApplierExtracted
  <1>4. /\ trees' \in [Version -> {"absent", "half", "whole"}]
        /\ budget' \in [Bounds -> Nat] /\ BudgetInv' /\ (Undisturbed' => Undisturbed)
    BY <1>1, BudgetStep DEF ApplierExtracted, TypeOK
  <1>5. /\ task' \in [Worker -> Task] /\ \A x \in Worker : x # w => task'[x] = task[x]
        /\ task'[w].pc = p /\ task'[w].st = task[w].st /\ task'[w].v = task[w].v
    BY <1>1, <1>3, GotoStep
  <1>6. Fit(w, task'[w])
    BY <1>2, <1>5 DEF Fit
  <1>7. ASSUME Undisturbed', Local(w), ~restart PROVE Local(w)'
    <2>1. /\ staged = task[w].v /\ task[w].v # link /\ link \in good /\ row.previous = link
          /\ NetInv /\ row.phase = "restarting" /\ row.current = task[w].v
      BY <1>1, <1>7 DEF Local, StepInv
    <2>2. task'[w].pc = "flip" /\ trees'[link] = trees[link] /\ trees'[task[w].v] = "whole"
      BY <1>1, <1>2, <1>3, <1>5, <1>7, <2>1 DEF TypeOK
    <2>3. StepInv(w)'
      BY <1>1, <1>2, <1>5, <2>1, <2>2 DEF StepInv
    <2>4. NetInv'
      BY <1>1, <2>1, <2>2 DEF NetInv
    <2> QED
      BY <1>1, <1>7, <2>2, <2>3, <2>4 DEF Local, Active, Flipping
  <1> QED
    BY <1>1, <1>2, <1>4, <1>5, <1>6, <1>7, ActStep DEF TypeOK

LEMMA ApplierFlipStep ==
  ASSUME IInv, NEW w \in Worker, ApplierFlip(w)
  PROVE  IInv'
  <1>1. /\ running # NoVersion /\ task[w].pc = "flip" /\ Active(w) /\ Basic /\ TypeOK
        /\ "undo" \in Pc /\ task[w].v \in Version /\ FlipAndRestart(w, task[w].v, "undo")
    BY DEF ApplierFlip, At, IInv, Basic, Active, Pc, TargetInv
  <1>2. /\ task' \in [Worker -> Task] /\ \A x \in Worker : x # w => task'[x] = task[x]
        /\ task'[w] = Idle \/ (task'[w].st = task[w].st /\ task'[w].pc = "undo" /\ task'[w].v = task[w].v)
        /\ link' \in Version /\ restart' \in BOOLEAN
        /\ budget' \in [Bounds -> Nat] /\ BudgetInv' /\ (Undisturbed' => Undisturbed)
        /\ Undisturbed' => link' = task[w].v /\ restart' /\ task'[w] = Idle
        /\ UNCHANGED <<row, trees, staged, running, proven, latched, good>>
    BY <1>1, FlipFacts
  <1>3. Fit(w, task'[w]) /\ row' \in UpdateState /\ Honest(row')
    <2>1. Honest(task[w].st) /\ task'[w] \in Task
      BY <1>1, <1>2 DEF Basic, BlessInv
    <2> QED
      BY <1>1, <1>2, <2>1, IdleFits DEF Fit, Basic, BlessInv, TypeOK, Honest
  <1>4. ASSUME Undisturbed', Local(w), ~restart PROVE Local(w)'
    <2>1. /\ link \in good /\ row.previous = link /\ trees[task[w].v] = "whole"
          /\ NetInv /\ row.phase = "restarting" /\ row.current = task[w].v /\ running = link
      BY <1>1, <1>4 DEF Local, StepInv
    <2>2. row.previous # NoVersion
      BY <1>1, <2>1
    <2>3. link' = task[w].v /\ restart' /\ task'[w] = Idle
      BY <1>2, <1>4
    <2>4. StepInv(w)'
      BY <2>3, Bases DEF StepInv
    <2>5. NetInv'
      BY <1>2, <2>1, <2>2, <2>3 DEF NetInv
    <2> QED
      BY <1>2, <2>1, <2>3, <2>4, <2>5, Bases DEF Local, Active
  <1> QED
    BY <1>1, <1>2, <1>3, <1>4, ActStep DEF TypeOK

LEMMA ApplyUndoStep ==
  ASSUME IInv, NEW w \in Worker, ApplyUndo(w)
  PROVE  IInv'
  <1>1. /\ running # NoVersion /\ task[w].pc = "undo" /\ Active(w) /\ Basic /\ TypeOK
        /\ staged' = NoVersion
        /\ UNCHANGED <<trees, link, restart, running, proven, latched, good>>
    BY DEF ApplyUndo, At, process, IInv, Basic, Active
  <1>2. PICK st \in UpdateState : st = [task[w].st EXCEPT !.current = task[w].st.previous]
    BY <1>1, TaskFields DEF UpdateState
  <1>3. Fail(w, st)
    BY <1>2 DEF ApplyUndo
  <1>4. ~Local(w)
    BY <1>1 DEF Local, StepInv
  <1> QED
    BY <1>1, <1>3, <1>4, FailFacts, ActStep DEF TypeOK
-----------------------------------------------------------------------------
(* The boot finaliser                                                      *)

LEMMA FinalStartStep ==
  ASSUME IInv, FinalStart
  PROVE  IInv'
  <1> DEFINE w == "final"
  <1>1. /\ w \in Worker /\ running # NoVersion /\ task[w].pc = "start" /\ Active(w) /\ Basic /\ TypeOK
        /\ UNCHANGED <<row, trees, link, restart, running, proven, latched, good>>
    BY Bases DEF FinalStart, At, process, IInv, Basic, Active
  <1>0. PICK r \in {row, NoState} :
           /\ Spend(Misread(r))
           /\ IF r.phase # "restarting"
              THEN End(w) /\ UNCHANGED staged
              ELSE /\ staged' = NoVersion
                   /\ Keep(w, r, IF r.current = running THEN "await" ELSE "mismatch")
    BY DEF FinalStart
  <1>5. /\ r \in UpdateState /\ Honest(r)
        /\ budget' \in [Bounds -> Nat] /\ BudgetInv' /\ (Undisturbed' => Undisturbed)
        /\ Undisturbed' => r = row
    <2>1. Misread(r) \in SUBSET Bounds
      BY DEF Misread, Bounds
    <2> QED
      BY <1>0, <1>1, <2>1, ReadStep
  <1>2. row' \in UpdateState /\ Honest(row')
    BY <1>1 DEF Basic, BlessInv, TypeOK, Honest
  <1>3. CASE r.phase # "restarting"
    <2>1. /\ task' \in [Worker -> Task] /\ (\A x \in Worker : x # w => task'[x] = task[x])
          /\ task'[w] = Idle /\ staged' = staged
      BY <1>0, <1>1, <1>3, Bases DEF End, TypeOK
    <2>2. ASSUME Undisturbed', Local(w), ~restart PROVE Local(w)'
      <3>1. StepInv(w)'
        BY <2>1, Bases DEF StepInv
      <3>2. NetInv'
        BY <1>1, <1>3, <1>5, <2>2 DEF Local, NetInv
      <3> QED
        BY <1>1, <2>1, <2>2, <3>1, <3>2, Bases DEF Local, Active, Flipping
    <2> QED
      BY <1>1, <1>2, <1>5, <2>1, <2>2, IdleFits, ActStep DEF TypeOK
  <1>4. CASE r.phase = "restarting"
    <2>1. PICK p \in {"await", "mismatch"} :
             /\ Keep(w, r, p) /\ staged' = NoVersion
             /\ p = "await" <=> r.current = running
      BY <1>0, <1>4
    <2>2. p \in Pc /\ p # "idle"
      BY DEF Pc
    <2>3. /\ task' \in [Worker -> Task] /\ (\A x \in Worker : x # w => task'[x] = task[x])
          /\ task'[w].pc = p /\ task'[w].st = r /\ task'[w] \in Task
      BY <1>1, <1>5, <2>1, <2>2, KeepStep
    <2>4. Fit(w, task'[w])
      BY <1>5, <2>1, <2>3 DEF Fit
    <2>5. ASSUME Undisturbed', Local(w), ~restart PROVE Local(w)'
      <3>0. r = row
        BY <1>5, <2>5
      <3>1. running = link /\ row.current = link /\ p = "await"
        BY <1>1, <1>4, <2>1, <2>5, <3>0 DEF Local, Flipping
      <3>2. StepInv(w)'
        BY <1>1, <1>4, <2>3, <3>0, <3>1 DEF StepInv
      <3>3. NetInv'
        BY <1>1, <2>2, <2>3, <2>5 DEF Local, NetInv, Active
      <3> QED
        BY <1>1, <2>3, <2>5, <3>1, <3>2, <3>3 DEF Local, Active, Flipping
    <2> QED
      BY <1>1, <1>2, <1>5, <2>1, <2>3, <2>4, <2>5, ActStep DEF TypeOK
  <1> QED
    BY <1>3, <1>4

LEMMA FinalBlessStep ==
  ASSUME IInv, FinalBless
  PROVE  IInv'
  <1> DEFINE w == "final"
  <1>1. /\ w \in Worker /\ running # NoVersion /\ task[w].pc = "await" /\ Active(w) /\ Basic /\ TypeOK
        /\ proven
        /\ UNCHANGED <<trees, link, staged, restart, running, proven, latched, good>>
    BY Bases DEF FinalBless, At, process, disk, IInv, Basic, Active
  <1>2. PICK st : st = [task[w].st EXCEPT !.phase = "success", !.crashes = 0]
    OBVIOUS
  <1>3. /\ st \in UpdateState /\ st.current = running /\ running \in good
        /\ st.previous = task[w].st.previous /\ st.phase = "success"
    <2>1. task[w].st \in UpdateState /\ 0 \in 0 .. MaxCrashCount /\ "success" \in Phase
      BY <1>1, TaskFields DEF Phase, MaxCrashCount
    <2>2. st \in UpdateState /\ st.current = task[w].st.current
          /\ st.previous = task[w].st.previous /\ st.phase = "success"
      BY <1>2, <2>1 DEF UpdateState
    <2> QED
      BY <1>1, <2>2 DEF Basic, BlessInv
  <1>4. Honest(st) /\ WriteState(st)
    BY <1>2, <1>3 DEF FinalBless, Honest
  <1>5. PICK p \in {"idle", "prune"} : Keep(w, st, p)
    BY <1>2 DEF FinalBless
  <1>6. /\ task' \in [Worker -> Task] /\ (\A x \in Worker : x # w => task'[x] = task[x])
        /\ task'[w].pc = p /\ task'[w].st \in {st, NoState} /\ task'[w] \in Task
        /\ p # "idle" => task'[w].st = st
    <2>1. p \in Pc
      BY DEF Pc
    <2> QED
      BY <1>1, <1>3, <1>5, <2>1, KeepStep
  <1>7. Fit(w, task'[w])
    BY <1>4, <1>6, Bases DEF Fit, Honest
  <1>8. ASSUME Undisturbed', Local(w), ~restart PROVE Local(w)'
    <2>1. row' = st /\ task[w].st = row /\ running = link
      BY <1>1, <1>3, <1>4, <1>8, WriteHonest DEF Local, StepInv
    <2>2. StepInv(w)'
      BY <1>1, <1>3, <1>6, <2>1 DEF StepInv
    <2>3. NetInv'
      BY <1>1, <1>3, <1>8, <2>1 DEF Local, NetInv
    <2> QED
      BY <1>1, <1>3, <1>6, <1>8, <2>1, <2>2, <2>3 DEF Local, Active
  <1> QED
    BY <1>1, <1>3, <1>4, <1>6, <1>7, <1>8, WriteHonest, ActStep DEF TypeOK

LEMMA FinalTimeoutStep ==
  ASSUME IInv, FinalTimeout
  PROVE  IInv'
  <1> DEFINE w == "final"
  <1>1. /\ w \in Worker /\ running # NoVersion /\ task[w].pc = "await" /\ Active(w) /\ Basic /\ TypeOK
        /\ Spend(DarkWindow) /\ DarkWindow \in SUBSET Bounds /\ "dark" \in Pc /\ Goto(w, "dark")
        /\ UNCHANGED <<row, trees, link, staged, restart, running, proven, latched, good>>
    BY Bases DEF FinalTimeout, At, process, disk, IInv, Basic, Active, DarkWindow, Bounds, Pc
  <1>2. row' \in UpdateState /\ Honest(row') /\ Honest(task[w].st)
    BY <1>1 DEF Basic, BlessInv, TypeOK, Honest
  <1>3. /\ task' \in [Worker -> Task] /\ (\A x \in Worker : x # w => task'[x] = task[x])
        /\ task'[w].pc = "dark" /\ task'[w].st = task[w].st /\ task'[w] \in Task
    BY <1>1, GotoStep
  <1>4. Fit(w, task'[w])
    BY <1>2, <1>3 DEF Fit
  <1>5. ASSUME Local(w), ~restart PROVE Local(w)'
    <2>1. StepInv(w)'
      BY <1>1, <1>3, <1>5 DEF Local, StepInv
    <2>2. NetInv'
      BY <1>1, <1>3, <1>5 DEF Local, NetInv, Active
    <2> QED
      BY <1>1, <1>3, <1>5, <2>1, <2>2 DEF Local, Active, Flipping
  <1> QED
    BY <1>1, <1>2, <1>3, <1>4, <1>5, BudgetStep, ActStep DEF TypeOK

LEMMA FinalDarkStep ==
  ASSUME IInv, FinalDark
  PROVE  IInv'
  <1> DEFINE w == "final"
  <1>1. /\ w \in Worker /\ running # NoVersion /\ task[w].pc = "dark" /\ Active(w) /\ Basic /\ TypeOK
        /\ UNCHANGED <<trees, link, staged, restart, running, proven, latched, good>>
    BY Bases DEF FinalDark, At, process, disk, IInv, Basic, Active
  <1>2. task[w].st \in UpdateState /\ Honest(task[w].st)
    BY <1>1, TaskFields DEF Basic, BlessInv
  <1>3. CASE task[w].st.previous = NoVersion
    <2>1. Fail(w, task[w].st)
      BY <1>3 DEF FinalDark
    <2>2. ASSUME Undisturbed', Local(w), ~restart PROVE Local(w)'
      <3>1. /\ row'.phase = "failed" /\ row'.current = row.current /\ row'.previous = row.previous
            /\ row.current = link /\ row.previous = NoVersion /\ task'[w] = Idle
        BY <1>1, <1>2, <1>3, <2>1, <2>2, FailFacts DEF Local, StepInv
      <3>2. StepInv(w)'
        BY <3>1, Bases DEF StepInv
      <3>3. NetInv'
        BY <1>1, <2>2, <3>1 DEF Local, NetInv
      <3> QED
        BY <1>1, <2>2, <3>1, <3>2, <3>3, Bases DEF Local, Active
    <2> QED
      BY <1>1, <1>2, <2>1, <2>2, FailFacts, ActStep DEF TypeOK
  <1>4. CASE task[w].st.previous # NoVersion
    <2>1. PICK st : st = [task[w].st EXCEPT !.crashes = 0]
      OBVIOUS
    <2>2. /\ st.current = task[w].st.current /\ st.previous = task[w].st.previous
          /\ st.phase = task[w].st.phase /\ Honest(st) /\ st.previous \in Version
          /\ st \in UpdateState
      <3>1. 0 \in 0 .. MaxCrashCount
        BY DEF MaxCrashCount
      <3> QED
        BY <1>2, <1>4, <2>1, <3>1 DEF UpdateState, Honest
    <2>3. PICK t : t = [Idle EXCEPT !.pc = "reread", !.v = task[w].st.previous]
      OBVIOUS
    <2>4. t \in Task /\ t.pc = "reread" /\ t.v = task[w].st.previous /\ t.st = NoState
      BY <2>2, <2>3, Bases DEF Task, Pc
    <2>5. WriteState(st) /\ task' = [task EXCEPT ![w] = t]
      BY <1>4, <2>1, <2>3 DEF FinalDark
    <2>6. /\ task' \in [Worker -> Task] /\ (\A x \in Worker : x # w => task'[x] = task[x])
          /\ task'[w] = t
      BY <1>1, <2>4, <2>5 DEF TypeOK
    <2>7. Fit(w, task'[w])
      BY <2>2, <2>4, <2>6, Bases DEF Fit, Honest
    <2>8. ASSUME Undisturbed', Local(w), ~restart PROVE Local(w)'
      <3>1. row' = st /\ task[w].st = row /\ row.current = link
        BY <1>1, <2>2, <2>5, <2>8, WriteHonest DEF Local, StepInv
      <3>2. StepInv(w)'
        BY <1>1, <1>4, <2>2, <2>4, <2>6, <3>1 DEF StepInv
      <3>3. NetInv'
        BY <1>1, <2>2, <2>4, <2>6, <2>8, <3>1 DEF Local, NetInv, Active
      <3> QED
        BY <1>1, <2>2, <2>4, <2>6, <2>8, <3>1, <3>2, <3>3 DEF Local, Active
    <2> QED
      BY <1>1, <2>2, <2>5, <2>6, <2>7, <2>8, WriteHonest, ActStep DEF TypeOK
  <1> QED
    BY <1>3, <1>4

LEMMA FinalMismatchStep ==
  ASSUME IInv, FinalMismatch
  PROVE  IInv'
  <1> DEFINE w == "final"
             n == task[w].st.crashes + 1
  <1>1. /\ w \in Worker /\ running # NoVersion /\ task[w].pc = "mismatch" /\ Active(w) /\ Basic /\ TypeOK
        /\ UNCHANGED <<trees, link, staged, restart, running, proven, latched, good>>
    BY Bases DEF FinalMismatch, At, process, disk, IInv, Basic, Active
  <1>2. task[w].st \in UpdateState /\ Honest(task[w].st)
    BY <1>1, TaskFields DEF Basic, BlessInv
  <1>3. PICK m \in 0 .. MaxCrashCount : m = IF n > MaxCrashCount THEN MaxCrashCount ELSE n
    BY <1>2 DEF UpdateState, MaxCrashCount
  <1>4. PICK st : st = [task[w].st EXCEPT !.crashes = m]
    OBVIOUS
  <1>5. st \in UpdateState /\ st.phase = task[w].st.phase /\ st.current = task[w].st.current
    BY <1>2, <1>3, <1>4 DEF UpdateState
  <1>6. Honest(st)
    BY <1>2, <1>5 DEF Honest
  <1>7. WriteState(st) /\ \E p \in {"guard", "idle"} : Keep(w, st, p)
    BY <1>3, <1>4 DEF FinalMismatch
  <1>8. PICK p \in {"guard", "idle"} : Keep(w, st, p)
    BY <1>7
  <1>9. /\ task' \in [Worker -> Task] /\ (\A x \in Worker : x # w => task'[x] = task[x])
        /\ task'[w].pc = p /\ task'[w].st \in {st, NoState} /\ task'[w] \in Task
    <2>1. p \in Pc
      BY DEF Pc
    <2> QED
      BY <1>1, <1>5, <1>8, <2>1, KeepStep
  <1>10. Fit(w, task'[w])
    BY <1>6, <1>9, Bases DEF Fit, Honest
  <1>11. ~Local(w)
    BY <1>1 DEF Local, StepInv
  <1> QED
    BY <1>1, <1>5, <1>6, <1>7, <1>9, <1>10, <1>11, WriteHonest, ActStep DEF TypeOK

LEMMA FinalGuardStep ==
  ASSUME IInv, FinalGuard
  PROVE  IInv'
  <1> DEFINE w == "final"
  <1>1. /\ w \in Worker /\ running # NoVersion /\ task[w].pc = "guard" /\ Active(w) /\ Basic /\ TypeOK
        /\ UNCHANGED <<row, trees, link, staged, restart, running, proven, latched, good>>
    BY Bases DEF FinalGuard, At, process, disk, IInv, Basic, Active
  <1>0. PICK r \in {row, NoState} : Spend(Misread(r)) /\ RollbackTo(w, r)
    BY DEF FinalGuard
  <1>5. /\ r \in UpdateState /\ Honest(r)
        /\ budget' \in [Bounds -> Nat] /\ BudgetInv' /\ (Undisturbed' => Undisturbed)
    <2>1. Misread(r) \in SUBSET Bounds
      BY DEF Misread, Bounds
    <2> QED
      BY <1>0, <1>1, <2>1, ReadStep
  <1>2. row' \in UpdateState /\ Honest(row')
    BY <1>1 DEF Basic, BlessInv, TypeOK, Honest
  <1>3. task' \in [Worker -> Task] /\ (\A x \in Worker : x # w => task'[x] = task[x]) /\ Fit(w, task'[w])
    BY <1>0, <1>1, <1>5, RollbackToStep, IdleFits DEF Fit, UpdateState
  <1>4. ~Local(w)
    BY <1>1 DEF Local, StepInv
  <1> QED
    BY <1>1, <1>2, <1>3, <1>4, <1>5, ActStep DEF TypeOK

LEMMA PruneScanStep ==
  ASSUME IInv, PruneScan
  PROVE  IInv'
  <1> DEFINE w == "final"
             D == Doomed(task[w].st.previous)
  <1>1. /\ w \in Worker /\ running # NoVersion /\ task[w].pc = "prune" /\ Active(w) /\ Basic /\ TypeOK
        /\ task' = [task EXCEPT ![w].pc = "pruning", ![w].doomed = D]
        /\ UNCHANGED <<row, trees, link, staged, restart, running, proven, latched, good, budget>>
    BY Bases DEF PruneScan, At, process, disk, IInv, Basic, Active
  <1>2. row' \in UpdateState /\ Honest(row') /\ Honest(task[w].st)
    BY <1>1 DEF Basic, BlessInv, TypeOK, Honest
  <1>3. D \in SUBSET Version /\ D \cap {link, task[w].st.previous} = {}
    BY DEF Doomed, OnDisk
  <1> HIDE DEF D
  <1>4. /\ task' \in [Worker -> Task] /\ (\A x \in Worker : x # w => task'[x] = task[x])
        /\ task'[w].pc = "pruning" /\ task'[w].st = task[w].st /\ task'[w].doomed = D /\ task'[w] \in Task
    BY <1>1, <1>3 DEF TypeOK, Task, Pc
  <1>5. Fit(w, task'[w])
    BY <1>2, <1>4 DEF Fit
  <1>6. ASSUME Local(w), ~restart PROVE Local(w)'
    <2>1. StepInv(w)'
      BY <1>1, <1>3, <1>4, <1>6 DEF Local, StepInv
    <2>2. NetInv'
      BY <1>1, <1>4, <1>6 DEF Local, NetInv, Active
    <2> QED
      BY <1>1, <1>4, <1>6, <2>1, <2>2 DEF Local, Active, Flipping
  <1> QED
    BY <1>1, <1>2, <1>4, <1>5, <1>6, BudgetStep, ActStep DEF TypeOK

LEMMA PruneDeleteStep ==
  ASSUME IInv, PruneDelete
  PROVE  IInv'
  <1> DEFINE w == "final"
  <1>1. /\ w \in Worker /\ running # NoVersion /\ task[w].pc = "pruning" /\ Active(w) /\ Basic /\ TypeOK
        /\ End(w)
        /\ UNCHANGED <<row, link, staged, restart, running, proven, latched, good, budget>>
    BY Bases DEF PruneDelete, At, process, IInv, Basic, Active
  <1>2. row' \in UpdateState /\ Honest(row')
    BY <1>1 DEF Basic, BlessInv, TypeOK, Honest
  <1>3. /\ task' \in [Worker -> Task] /\ (\A x \in Worker : x # w => task'[x] = task[x])
        /\ task'[w] = Idle
    BY <1>1, Bases DEF End, TypeOK
  <1>4. /\ trees' \in [Version -> {"absent", "half", "whole"}]
        /\ \A v \in Version : v \notin task[w].doomed => trees'[v] = trees[v]
    BY <1>1 DEF PruneDelete, TypeOK
  <1>5. ASSUME Local(w), ~restart PROVE Local(w)'
    <2>1. /\ link \in good /\ link \notin task[w].doomed /\ row.previous \notin task[w].doomed /\ NetInv
      BY <1>1, <1>5 DEF Local, StepInv
    <2>2. row.previous \in Version \cup {NoVersion} /\ link \in Version
      BY <1>1 DEF TypeOK, UpdateState
    <2>3. trees'[link] = trees[link] /\ (row.previous # NoVersion => trees'[row.previous] = trees[row.previous])
      BY <1>4, <2>1, <2>2
    <2>4. StepInv(w)'
      BY <1>3, Bases DEF StepInv
    <2>5. NetInv'
      BY <1>1, <2>1, <2>3 DEF NetInv
    <2> QED
      BY <1>1, <1>3, <1>5, <2>4, <2>5, Bases DEF Local, Active, Flipping
  <1> QED
    BY <1>1, <1>2, <1>3, <1>4, <1>5, IdleFits, BudgetStep, ActStep DEF TypeOK

-----------------------------------------------------------------------------
(* The watchdog and the process                                            *)

LEMMA WatchdogStep ==
  ASSUME IInv, WatchdogFires
  PROVE  IInv'
  <1> DEFINE w == "dog"
  <1>1. /\ w \in Worker /\ running # NoVersion /\ Basic /\ TypeOK
        /\ latched' = TRUE
        /\ UNCHANGED <<row, trees, link, staged, restart, running, proven, good>>
    BY Bases DEF WatchdogFires, At, disk, IInv, Basic
  <1>0. PICK r \in {row, NoState} :
           /\ Spend(DarkWindow \cup Overlap \cup Misread(r))
           /\ IF r.previous = NoVersion
              THEN UNCHANGED task
              ELSE task' = [task EXCEPT ![w] = [Idle EXCEPT !.pc = "reread", !.v = r.previous]]
    BY DEF WatchdogFires
  <1> DEFINE B == DarkWindow \cup Overlap \cup Misread(r)
  <1>10. B \in SUBSET Bounds /\ Misread(r) \subseteq B /\ Spend(B)
    BY <1>0 DEF DarkWindow, Overlap, Bounds, Misread
  <1>9. /\ r \in UpdateState /\ Honest(r)
        /\ budget' \in [Bounds -> Nat] /\ BudgetInv' /\ (Undisturbed' => Undisturbed)
        /\ Undisturbed' => r = row /\ Quiet
    BY <1>1, <1>10, ReadStep DEF Overlap
  <1> HIDE DEF B
  <1>2. row' \in UpdateState /\ Honest(row')
    BY <1>1 DEF Basic, BlessInv, TypeOK, Honest
  <1>3. PICK t : t = [Idle EXCEPT !.pc = "reread", !.v = r.previous]
    OBVIOUS
  <1>4. t \in Task /\ t.pc = "reread" /\ t.v = r.previous /\ t.st = NoState
    <2>1. r.previous \in Version \cup {NoVersion} /\ "reread" \in Pc
      BY <1>9 DEF UpdateState, Pc
    <2> QED
      BY <1>3, <2>1, Bases DEF Task
  <1>5. /\ task' \in [Worker -> Task]
        /\ \/ task' = task
           \/ r.previous # NoVersion /\ task'[w] = t /\ \A x \in Worker : x # w => task'[x] = task[x]
    <2>1. CASE r.previous = NoVersion
      BY <1>0, <1>1, <2>1 DEF TypeOK
    <2>2. CASE r.previous # NoVersion
      <3>1. task' = [task EXCEPT ![w] = t]
        BY <1>0, <1>3, <2>2
      <3> QED
        BY <1>1, <1>4, <2>2, <3>1, SetTask
    <2> QED
      BY <2>1, <2>2
  <1>6. \A x \in Worker : task'[x] = task[x] \/ Fit(x, task'[x])
    <2>1. r.previous # NoVersion => Fit(w, t)
      BY <1>4, <1>9, Bases DEF Fit, Honest, UpdateState
    <2> QED
      BY <1>5, <2>1
  <1>7. Basic'
    BY <1>1, <1>2, <1>5, <1>6, <1>9, BasicStep DEF TypeOK
  <1>8. ASSUME Undisturbed' PROVE Calm'
    <2>1. Undisturbed /\ Quiet /\ r = row
      BY <1>8, <1>9
    <2>2. Calm
      BY <2>1 DEF IInv, SerialInv
    <2>3. /\ ~restart /\ running = link /\ NetInv /\ link \in good
          /\ \A x \in Worker : task[x].pc = "idle"
          /\ row.current \in {NoVersion, link}
          /\ row.phase = "restarting" => row.current = link
      BY <1>1, <2>1, <2>2, QuietFacts
    <2>4. /\ \A x \in Worker : x # w => task'[x].pc = "idle"
          /\ task'[w].pc = "idle" \/ (r.previous # NoVersion /\ task'[w] = t)
      BY <1>1, <1>5, <2>3
    <2>5. StepInv(w)'
      BY <1>1, <1>4, <2>1, <2>4 DEF StepInv
    <2>6. NetInv'
      BY <1>1, <2>3 DEF NetInv
    <2> QED
      BY <1>1, <2>3, <2>4, <2>5, <2>6, CalmStep
  <1> QED
    BY <1>7, <1>8 DEF IInv, SerialInv

LEMMA TunnelProofStep ==
  ASSUME IInv, TunnelProof
  PROVE  IInv'
  <1>1. /\ Basic /\ TypeOK /\ running \in Version /\ proven' = TRUE /\ good' = good \cup {running}
        /\ UNCHANGED <<row, trees, link, staged, restart, running, latched, task, budget>>
    BY DEF TunnelProof, disk, IInv, Basic
  <1>2. Basic'
    <2>1. TypeOK'
      BY <1>1 DEF TypeOK
    <2>2. TargetInv' /\ BudgetInv'
      BY <1>1 DEF Basic, TargetInv, BudgetInv
    <2>3. BlessInv'
      BY <1>1 DEF Basic, BlessInv, Honest
    <2> QED
      BY <2>1, <2>2, <2>3 DEF Basic
  <1>3. ASSUME Undisturbed' PROVE Calm'
    <2>1. Calm
      BY <1>1, <1>3 DEF IInv, SerialInv, Undisturbed
    <2>2. OneAtATime' /\ RowInv'
      BY <1>1, <2>1 DEF Calm, OneAtATime, Active, RowInv
    <2>3. NetInv'
      BY <1>1, <2>1 DEF Calm, NetInv, Active
    <2>4. ASSUME NEW w \in Worker PROVE StepInv(w)'
      BY <1>1, <2>1 DEF Calm, StepInv
    <2> QED
      BY <2>2, <2>3, <2>4 DEF Calm
  <1> QED
    BY <1>2, <1>3 DEF IInv, SerialInv

LEMMA DownBasic ==
  ASSUME Basic, Down, restart' \in BOOLEAN, budget' \in [Bounds -> Nat], BudgetInv'
  PROVE  Basic' /\ \A w \in Worker : task'[w] = Idle
  <1>1. \A w \in Worker : task'[w] = Idle
    BY DEF Down
  <1>2. TypeOK'
    BY Bases DEF Basic, TypeOK, Down
  <1>3. TargetInv'
    BY <1>1, Bases DEF TargetInv
  <1>4. BlessInv'
    BY <1>1, Bases DEF Basic, BlessInv, Honest, Down
  <1> QED
    BY <1>1, <1>2, <1>3, <1>4 DEF Basic

LEMMA RestartStep ==
  ASSUME IInv, Restart
  PROVE  IInv'
  <1>1. /\ Basic /\ restart /\ restart' = FALSE /\ running # NoVersion /\ running' = NoVersion
        /\ UNCHANGED <<row, trees, link, staged, good, budget>>
    BY DEF IInv, Restart, Down
  <1>2. Basic' /\ \A w \in Worker : task'[w] = Idle
    BY <1>1, BudgetStep, DownBasic DEF Restart
  <1>3. ASSUME Undisturbed' PROVE Calm'
    <2>1. Calm
      BY <1>1, <1>3 DEF IInv, SerialInv, Undisturbed
    <2>2. \A w \in Worker : task[w].pc = "idle"
      BY <1>1, <2>1 DEF Calm, OneAtATime, Active
    <2>3. OneAtATime'
      BY <1>1, <1>2, Bases DEF OneAtATime, Active
    <2>4. NetInv'
      BY <1>1, <2>1 DEF Calm, NetInv
    <2>5. RowInv'
      BY <1>1, <2>1, <2>2 DEF Calm, RowInv, Flipping
    <2>6. ASSUME NEW w \in Worker PROVE StepInv(w)'
      BY <1>2, Bases DEF StepInv
    <2> QED
      BY <2>3, <2>4, <2>5, <2>6 DEF Calm
  <1> QED
    BY <1>2, <1>3 DEF IInv, SerialInv

LEMMA CrashStep ==
  ASSUME IInv, Crash
  PROVE  IInv'
  <1>1. Basic /\ Spend({"crash"}) /\ {"crash"} \in SUBSET Bounds /\ restart' \in BOOLEAN /\ Down
    BY DEF IInv, Crash, Bounds, Basic, TypeOK
  <1>2. Basic'
    BY <1>1, BudgetStep, DownBasic
  <1>3. ~Undisturbed'
    BY <1>1, NoMishap
  <1> QED
    BY <1>2, <1>3 DEF IInv, SerialInv

LEMMA BootStep ==
  ASSUME IInv, Boot
  PROVE  IInv'
  <1> DEFINE w == "final"
  <1>1. /\ w \in Worker /\ Basic /\ TypeOK /\ running = NoVersion /\ running' = link /\ "start" \in Pc
        /\ Goto(w, "start") /\ UNCHANGED <<row, trees, link, staged, restart, proven, latched, good, budget>>
    BY Bases DEF IInv, Basic, Boot, disk, Goto, Pc
  <1>2. /\ task' \in [Worker -> Task] /\ (\A x \in Worker : x # w => task'[x] = task[x])
        /\ task'[w].pc = "start" /\ task'[w].st = task[w].st
    BY <1>1, GotoStep
  <1>3. Basic'
    <2>1. TypeOK'
      BY <1>1, <1>2 DEF TypeOK
    <2>2. TargetInv' /\ BudgetInv'
      BY <1>1, <1>2 DEF Basic, TargetInv, BudgetInv
    <2>3. ~proven
      BY <1>1, VersionAssumption DEF Basic, BlessInv, TypeOK
    <2>4. BlessInv'
      BY <1>1, <1>2, <2>3 DEF Basic, BlessInv, Honest
    <2> QED
      BY <2>1, <2>2, <2>4 DEF Basic
  <1>4. ASSUME Undisturbed' PROVE Calm'
    <2>1. Calm
      BY <1>1, <1>4 DEF IInv, SerialInv, Undisturbed
    <2>2. ~restart /\ (\A x \in Worker : task[x].pc = "idle") /\ NetInv
      BY <1>1, <2>1 DEF Calm, OneAtATime, Active
    <2>3. row.current \in {NoVersion, link} /\ (row.phase = "restarting" => row.current = link)
      BY <2>1, <2>2 DEF Calm, RowInv, Flipping
    <2>4. \A x \in Worker : x # w => task'[x].pc = "idle"
      BY <1>2, <2>2
    <2>5. StepInv(w)'
      BY <1>2 DEF StepInv
    <2>6. NetInv'
      BY <1>1, <1>2, <2>2 DEF NetInv, Active
    <2>7. link \in Version /\ running' # NoVersion
      BY <1>1, VersionAssumption DEF TypeOK
    <2> QED
      BY <1>1, <2>2, <2>3, <2>4, <2>5, <2>6, <2>7, CalmStep
  <1> QED
    BY <1>3, <1>4 DEF IInv, SerialInv

-----------------------------------------------------------------------------
(* Invariance                                                              *)

LEMMA InitIInv == Init => IInv
  <1> SUFFICES ASSUME Init PROVE IInv
    OBVIOUS
  <1>1. PICK t : t = [Idle EXCEPT !.pc = "start"]
    OBVIOUS
  <1>2. t \in Task /\ t.pc = "start" /\ t.st = NoState
    BY <1>1, Bases DEF Task, Pc
  <1>3. /\ task \in [Worker -> Task] /\ task["final"] = t
        /\ \A w \in Worker : w # "final" => task[w] = Idle
    BY <1>1, <1>2, Bases DEF Init
  <1>4. budget \in [Bounds -> Nat] /\ budget["crash"] = MaxCrashes /\ budget["mishap"] = MaxMishaps
    BY BoundAssumption DEF Init, Bounds
  <1>5. TypeOK
    BY <1>3, <1>4, Bases, VersionAssumption DEF TypeOK, Init
  <1>6. TargetInv /\ BudgetInv
    BY <1>2, <1>3, <1>4, Bases, BoundAssumption DEF TargetInv, BudgetInv
  <1>7. BlessInv
    BY <1>2, <1>3, Bases DEF BlessInv, Honest, Init
  <1>8. Calm
    <2>1. OneAtATime
      BY <1>2, <1>3, Bases, VersionAssumption DEF OneAtATime, Active, Init
    <2>2. NetInv
      BY <1>2, <1>3, VersionAssumption DEF NetInv, Active, Init, NoState
    <2>3. RowInv
      BY DEF RowInv, Init, NoState
    <2>4. ASSUME NEW w \in Worker PROVE StepInv(w)
      BY <1>2, <1>3, Bases DEF StepInv
    <2> QED
      BY <2>1, <2>2, <2>3, <2>4 DEF Calm
  <1> QED
    BY <1>5, <1>6, <1>7, <1>8 DEF IInv, Basic, SerialInv

LEMMA StutterIInv ==
  ASSUME IInv, UNCHANGED vars
  PROVE  IInv'
  <1>1. Basic'
    BY DEF IInv, vars, Basic, TypeOK, TargetInv, BlessInv, Honest, BudgetInv
  <1>2. SerialInv'
    BY DEF IInv, vars, SerialInv, Undisturbed, Calm, OneAtATime, Active, NetInv, RowInv, StepInv
  <1> QED
    BY <1>1, <1>2 DEF IInv

LEMMA NextIInv == IInv /\ [Next]_vars => IInv'
  <1> SUFFICES ASSUME IInv, [Next]_vars PROVE IInv'
    OBVIOUS
  <1>1. ASSUME NEW v \in Version, Assignment(v) PROVE IInv'
    BY <1>1, AssignmentStep
  <1>2. CASE Acknowledge
    BY <1>2, AcknowledgeStep
  <1>3. CASE Rollback
    BY <1>3, RollbackStep
  <1>4. ASSUME NEW s \in Slot, Apply(s) PROVE IInv'
    <2>1. s \in Worker
      BY Bases
    <2>2. CASE ApplyRead(s) \/ ApplyMark(s) \/ ApplyFetch(s) \/ ApplyCommit(s) \/ ApplyStage(s)
      BY <2>1, <2>2, ApplyReadStep, ApplyMarkStep, ApplyFetchStep, ApplyCommitStep, ApplyStageStep
    <2>3. CASE ApplierExtract(s) \/ ApplierExtracted(s) \/ ApplierFlip(s) \/ ApplyUndo(s)
      BY <2>1, <2>3, ApplierExtractStep, ApplierExtractedStep, ApplierFlipStep, ApplyUndoStep
    <2> QED
      BY <1>4, <2>2, <2>3 DEF Apply
  <1>5. ASSUME NEW w \in {"inbound", "final", "dog"}, GoBack(w) PROVE IInv'
    <2>1. w \in Worker
      BY Bases
    <2>2. CASE RollbackWrite(w) \/ RollbackFailed(w) \/ ReflipRead(w) \/ ReflipWrite(w)
      BY <2>1, <2>2, RollbackWriteStep, RollbackFailedStep, ReflipReadStep, ReflipWriteStep
    <2>3. CASE RollbackFlip(w) \/ ReflipFlip(w)
      BY <2>1, <2>3, ReflipStep DEF RollbackFlip, ReflipFlip, At
    <2> QED
      BY <1>5, <2>2, <2>3 DEF GoBack
  <1>6. CASE Finalise
    BY <1>6, FinalStartStep, FinalBlessStep, FinalTimeoutStep, FinalDarkStep, FinalMismatchStep,
       FinalGuardStep, PruneScanStep, PruneDeleteStep DEF Finalise
  <1>7. CASE WatchdogFires
    BY <1>7, WatchdogStep
  <1>8. CASE TunnelProof
    BY <1>8, TunnelProofStep
  <1>9. CASE Restart
    BY <1>9, RestartStep
  <1>10. CASE Crash
    BY <1>10, CrashStep
  <1>11. CASE Boot
    BY <1>11, BootStep
  <1>12. CASE UNCHANGED vars
    BY <1>12, StutterIInv
  <1> QED
    BY <1>1, <1>2, <1>3, <1>4, <1>5, <1>6, <1>7, <1>8, <1>9, <1>10, <1>11, <1>12 DEF Next

LEMMA IInvariance == Spec => []IInv
  BY InitIInv, NextIInv, PTL DEF Spec

-----------------------------------------------------------------------------
(* The theorems                                                            *)

(* The persisted row, the release trees and every task keep their types    *)
(* across any overlap of attempts, failures and deaths.                    *)
THEOREM TypeCorrect == Spec => []TypeOK
  <1>1. IInv => TypeOK
    BY DEF IInv, Basic
  <1> QED
    BY <1>1, IInvariance, PTL

(* finalize_pending_update blesses only what has had a heartbeat answered, *)
(* with any number of overlapping attempts, failures and deaths.           *)
THEOREM NeverBlessedUnproven == Spec => []BlessedIsGood
  <1>1. IInv => BlessedIsGood
    BY DEF IInv, Basic, BlessInv, Honest, BlessedIsGood
  <1> QED
    BY <1>1, IInvariance, PTL

(* An undisturbed appliance always has a complete tree under `current` and *)
(* under previous_good, and one of a release that once reached the cloud,  *)
(* whatever is assigned, rolled back, judged dark or pruned.               *)
THEOREM NetIsWhole == Spec => []SafetyNet
  <1>1. IInv => SafetyNet
    <2> SUFFICES ASSUME IInv, Undisturbed
                 PROVE  /\ trees[link] = "whole" /\ RollbackTargetOnDisk
                        /\ \E v \in good : trees[v] = "whole"
      BY DEF SafetyNet
    <2>1. NetInv
      BY DEF IInv, SerialInv, Calm
    <2>2. trees[link] = "whole" /\ RollbackTargetOnDisk
      BY <2>1 DEF NetInv, RollbackTargetOnDisk
    <2>3. CASE link \in good
      BY <2>2, <2>3
    <2>4. CASE link \notin good
      BY <2>1, <2>2, <2>4 DEF NetInv
    <2> QED
      BY <2>2, <2>3, <2>4
  <1> QED
    BY <1>1, IInvariance, PTL

(* And `current` never names an unproven release that the next boot would  *)
(* not judge.                                                              *)
THEOREM UnprovenAlwaysJudged == Spec => []UnprovenIsJudged
  <1>1. IInv => UnprovenIsJudged
    BY DEF IInv, SerialInv, Calm, NetInv, UnprovenIsJudged
  <1> QED
    BY <1>1, IInvariance, PTL

(* With nothing in flight, the row reports the release that runs.          *)
THEOREM SettledRowMatches == Spec => []SettledMatches
  <1>1. IInv => SettledMatches
    <2> SUFFICES ASSUME IInv, Undisturbed, Quiet, running # NoVersion, row.current # NoVersion
                 PROVE  row.current = running
      BY DEF SettledMatches
    <2>1. Basic /\ Calm
      BY DEF IInv, SerialInv
    <2> QED
      BY <2>1, QuietFacts
  <1> QED
    BY <1>1, IInvariance, PTL

(* `current` moves in the flips only.                                      *)
LEMMA LinkMoves ==
  ASSUME [Next]_vars, link' # link
  PROVE  \/ \E s \in Slot : ApplierFlip(s)
         \/ \E w \in {"inbound", "final", "dog"} : RollbackFlip(w) \/ ReflipFlip(w)
  <1> USE DEF disk, process
  <1>1. ASSUME NEW s \in Slot, Apply(s) PROVE ApplierFlip(s)
    BY <1>1 DEF Apply, ApplyRead, ApplyMark, ApplyFetch, ApplyCommit, ApplyStage, ApplierExtract,
                ApplierExtracted, ApplyUndo
  <1>2. ASSUME NEW w \in {"inbound", "final", "dog"}, GoBack(w)
        PROVE  RollbackFlip(w) \/ ReflipFlip(w)
    BY <1>2 DEF GoBack, RollbackWrite, RollbackFailed, ReflipRead, ReflipWrite
  <1>3. ~Finalise
    BY DEF Finalise, FinalStart, FinalBless, FinalTimeout, FinalDark, FinalMismatch, FinalGuard,
           PruneScan, PruneDelete
  <1>4. ~(\/ \E v \in Version : Assignment(v)
          \/ Acknowledge \/ Rollback \/ WatchdogFires \/ TunnelProof \/ Restart \/ Crash \/ Boot)
    BY DEF Assignment, Acknowledge, Rollback, WatchdogFires, TunnelProof, Restart, Crash, Down, Boot
  <1>5. ~UNCHANGED vars
    BY DEF vars
  <1> QED
    BY <1>1, <1>2, <1>3, <1>4, <1>5 DEF Next

(* The appliance is never moved from one unproven release to another.  An  *)
(* assignment is applied only from a release that has proved the tunnel,   *)
(* and the ways back - the operator's, the finaliser's, the watchdog's -   *)
(* all end at the row's previous_good, a whole tree that has proved it.    *)
THEOREM NeverFromBadToBad == Spec => BackToGoodOnly
  <1>1. ASSUME IInv, [Next]_vars, Undisturbed, link' # link
        PROVE  /\ trees[link'] = "whole"
               /\ link \notin good => link' = row.previous /\ link' \in good
    <2>0. Basic /\ TypeOK /\ NetInv /\ \A w \in Worker : StepInv(w)
      BY <1>1 DEF IInv, Basic, SerialInv, Calm
    <2>1. ASSUME NEW s \in Slot, ApplierFlip(s)
          PROVE  link' = task[s].v /\ trees[task[s].v] = "whole" /\ link \in good
      <3>1. task[s].pc = "flip" /\ s \in Worker
        BY <2>1, Bases DEF ApplierFlip, At
      <3>2. link' = task[s].v
        BY <1>1, <2>1 DEF ApplierFlip, FlipAndRestart
      <3> QED
        BY <2>0, <3>1, <3>2 DEF StepInv
    <2>2. ASSUME NEW w \in {"inbound", "final", "dog"}, RollbackFlip(w) \/ ReflipFlip(w)
          PROVE  link' = row.previous /\ link' \in good /\ trees[link'] = "whole"
      <3>1. task[w].pc \in {"rbflip", "reflip"} /\ w \in Worker
        BY <2>2, Bases DEF RollbackFlip, ReflipFlip, At
      <3>2. link' = task[w].v
        BY <1>1, <2>2 DEF RollbackFlip, ReflipFlip, Reflip, FlipAndRestart, disk
      <3>3. task[w].v = row.previous /\ row.previous # NoVersion
        BY <2>0, <3>1 DEF StepInv
      <3> QED
        BY <2>0, <3>2, <3>3 DEF NetInv
    <2> QED
      BY <1>1, <2>1, <2>2, LinkMoves
  <1>2. IInv /\ [Next]_vars =>
           [Undisturbed /\ link' # link =>
              /\ trees[link'] = "whole"
              /\ link \notin good => link' = row.previous /\ link' \in good]_vars
    BY <1>1
  <1> QED
    BY <1>2, IInvariance, PTL DEF Spec, BackToGoodOnly
=============================================================================
