-------------------------- MODULE ClipTiersProofs --------------------------
(***************************************************************************)
(* Proofs about ClipTiers for any set of clips, batch size, attempt budget *)
(* and number of failures and crashes.                                     *)
(***************************************************************************)
EXTENDS ClipTiers, TLAPS

-----------------------------------------------------------------------------
(* The inductive invariant, one part per task.                             *)

(* A clip in the recorder's hands is neither closed nor old, and is not    *)
(* quarantined unless close() has found it damaged.                        *)
RecorderInv(c) ==
    /\ rec[c] = "opening" => row[c] = "none"
    /\ rec[c] # "idle" => row[c] # "closed" /\ age[c] = 0
    /\ row[c] = "none" => age[c] = 0 /\ ~Holding(c)
    /\ Holding(c) /\ ~fin[c].bad => row[c] = "open" /\ ~quar[c]
    /\ fin[c].bad => rec[c] \in {"damaged", "close"}
    /\ rec[c] = "damaged" => fin[c].bad

ColdInv(c) ==
    /\ cold[c] => row[c] = "closed" /\ c \in object /\ ~quar[c]
    /\ quar[c] => Exists(c)
    /\ ~quar[c] => att[c] < MaxColdAttempts

(* What the replicator read of its batch still holds when it acts on it.   *)
InBatch(c) == row[c] \in {"closed", "gone"} /\ ~cold[c] /\ ~quar[c]

BatchInv ==
    /\ \A c \in repTodo : InBatch(c)
    /\ repPc \notin {"idle", "next"} =>
          repCur \in Clip \ repTodo /\ InBatch(repCur)
    /\ repPc = "mark" => repCur \in object

EvictInv ==
    /\ evPc # "idle" => evClip \in Clip
    /\ evPc \in {"unlink", "clear"} => cold[evClip] \/ row[evClip] = "gone"
    /\ evPc = "delete" =>
          row[evClip] # "none" /\ (rec[evClip] = "idle" \/ fin[evClip].bad)
    /\ evPc = "reap" => row[evClip] = "gone"

SweepInv ==
    /\ swPc = "delete" => swCur \in Clip /\ age[swCur] = 2
    /\ \A c \in swTodo : age[c] = 2

(* The recorder's files.  While it works on them they are too young for    *)
(* the orphan scan; the one a closed row names is then either among the    *)
(* paths the scan knows or still too young when the walk ends.             *)
FileInv(c) ==
    /\ rec[c] # "idle" =>
          \A p \in {"inflight", "final"} :
              <<c, p>> \notin cand /\ (<<c, p>> \in disk => <<c, p>> \in young)
    /\ row[c] = "none" => <<c, "final">> \notin disk \cup cand
    /\ row[c] = "none" /\ rec[c] = "idle" /\ <<c, "inflight">> \in cand =>
          <<c, "inflight">> \in disk
    /\ rec[c] \in {"opening", "recording"} => <<c, "inflight">> \in disk
    /\ rec[c] \in {"damaged", "close"} =>
          /\ fin[c].path \in {"inflight", "final"}
          /\ Exists(c) => <<c, fin[c].path>> \in disk
    /\ row[c] = "closed" /\ ~cold[c] /\ age[c] < 2 =>
          /\ hot[c] \in {"inflight", "final"}
          /\ <<c, hot[c]>> \in disk \ cand
          /\ swPc = "walk" => <<c, hot[c]>> \in known \cup young

RowInv == \A c \in Clip : RecorderInv(c) /\ ColdInv(c)
TaskInv == BatchInv /\ EvictInv /\ SweepInv
FilesInv == \A c \in Clip : FileInv(c)
TiersInv == TypeOK /\ RowInv /\ TaskInv /\ FilesInv

-----------------------------------------------------------------------------
(* What the helpers do to the types.                                       *)

(* A failing store or file access uses up one of the budgeted faults.      *)
LEMMA MishapType ==
    ASSUME TypeOK
    PROVE  /\ Fault => faultsLeft' \in Nat
           /\ NoFault => faultsLeft' \in Nat
BY DEF TypeOK, Fault, NoFault

(* Whether a row exists is a truth value, for the columns it is put into.  *)
LEMMA ExistsType == \A c : Exists(c) \in BOOLEAN
BY DEF Exists

(* Files come and go inside clips_dir; the young ones are on disk.         *)
LEMMA FileType ==
    ASSUME TypeOK
    PROVE  /\ \A f \in File : Write(f) => disk' \in SUBSET File /\ young' \in SUBSET disk'
           /\ \A f : Unlink(f) => disk' \in SUBSET File /\ young' \in SUBSET disk'
           /\ \A f : \A g \in File :
                 Rename(f, g) => disk' \in SUBSET File /\ young' \in SUBSET disk'
BY DEF TypeOK, Write, Unlink, Rename

(* A deleted row keeps the types of its columns.                           *)
LEMMA DropRowType ==
    ASSUME TypeOK, NEW c \in Clip, DropRow(c)
    PROVE  /\ row' \in [Clip -> {"none", "open", "closed", "gone"}]
           /\ hot' \in [Clip -> Path]
           /\ cold' \in [Clip -> BOOLEAN]
           /\ hashed' \in [Clip -> BOOLEAN]
           /\ big' \in [Clip -> BOOLEAN]
           /\ quar' \in [Clip -> BOOLEAN]
           /\ att' \in [Clip -> 0..MaxColdAttempts]
           /\ next' \in [Clip -> {"null", "future", "past"}]
BY TiersAssumption DEF TiersAssumption, TypeOK, DropRow, Path

(* So is whether the upload budget is used up.                             *)
LEMMA ExhaustedType == \A n : ColdExhausted(n) \in BOOLEAN
BY DEF ColdExhausted

(* A deleted row leaves the others as they were.                           *)
LEMMA DropRowEffect ==
    ASSUME TypeOK, NEW c \in Clip, DropRow(c)
    PROVE  /\ row'[c] = "gone" /\ ~cold'[c] /\ ~quar'[c] /\ att'[c] = 0
           /\ \A d \in Clip \ {c} :
                 /\ row'[d] = row[d] /\ hot'[d] = hot[d] /\ att'[d] = att[d]
                 /\ cold'[d] = cold[d] /\ quar'[d] = quar[d]
BY DEF TypeOK, DropRow

(* What FileInv says of a clip depends on its own row, recorder and files. *)
LEMMA FilesElsewhere ==
    ASSUME NEW d \in Clip, FileInv(d),
           row'[d] = row[d], hot'[d] = hot[d], cold'[d] = cold[d], age'[d] = age[d],
           rec'[d] = rec[d], fin'[d] = fin[d],
           swPc' = swPc, known' = known, cand' = cand,
           \A p : <<d, p>> \in disk' <=> <<d, p>> \in disk,
           \A p : <<d, p>> \in young' <=> <<d, p>> \in young
    PROVE  FileInv(d)'
BY DEF FileInv, Exists

-----------------------------------------------------------------------------
(* The recorder keeps the invariant: a clip it opens is new to every other *)
(* task, and the one it closes names a file the scan cannot have on its    *)
(* list.                                                                   *)
LEMMA RecorderStep ==
    ASSUME TiersInv, NEW c \in Clip, RecStep(c)
    PROVE  TiersInv'
<1> USE TiersAssumption DEF TiersAssumption
<1> USE DEF rowVars, fileVars, recVars, repVars, evVars, swVars, jobVars, RecFrame
<1>1. CASE OpenFile(c)
  <2>1. TypeOK'
    BY <1>1, MishapType, FileType DEF TiersInv, TypeOK, Path, File, OpenFile
  <2>2. RowInv'
    BY <1>1 DEF TiersInv, TypeOK, RowInv, RecorderInv, ColdInv, Holding, Exists,
       OpenFile, Write
  <2>3. TaskInv'
    BY <1>1 DEF TiersInv, TypeOK, TaskInv, BatchInv, InBatch, EvictInv, SweepInv,
       Exists, OpenFile, Write
  <2>4. FilesInv'
    <3> SUFFICES ASSUME NEW d \in Clip PROVE FileInv(d)'
      BY DEF FilesInv
    <3>1. CASE d = c
      BY <1>1, <3>1 DEF TiersInv, TypeOK, RowInv, RecorderInv, ColdInv, Holding,
         Exists, FilesInv, FileInv, OpenFile, Write
    <3>2. CASE d # c
      BY <1>1, <3>2, FilesElsewhere DEF TiersInv, TypeOK, FilesInv, OpenFile, Write
    <3> QED  BY <3>1, <3>2
  <2> QED  BY <2>1, <2>2, <2>3, <2>4 DEF TiersInv
<1>2. CASE open_clip(c)
  <2>1. TypeOK'
    <3>1. (row \in [Clip -> {"none", "open", "closed", "gone"}])'
      BY <1>2 DEF TiersInv, TypeOK, open_clip
    <3>2. (hot \in [Clip -> Path])'
      BY <1>2 DEF TiersInv, TypeOK, open_clip, Path
    <3>3. (rec \in [Clip -> {"idle", "opening", "recording", "discard", "damaged", "close"}])'
      BY <1>2 DEF TiersInv, TypeOK, open_clip
    <3>4. /\ (disk \in SUBSET File)'
          /\ (young \in SUBSET disk)'
      BY <1>2, MishapType, FileType DEF TiersInv, TypeOK, open_clip, File
    <3>5. (faultsLeft \in Nat)'
      BY <1>2, MishapType DEF TiersInv, TypeOK, open_clip
    <3> QED  BY <1>2, <3>1, <3>2, <3>3, <3>4, <3>5 DEF TiersInv, TypeOK, open_clip
  <2>2. RowInv'
    BY <1>2 DEF TiersInv, TypeOK, RowInv, RecorderInv, ColdInv, Holding, Exists,
       open_clip, Unlink
  <2>3. TaskInv'
    <3>1. BatchInv'
      BY <1>2 DEF TiersInv, TypeOK, RowInv, RecorderInv, ColdInv, Holding, Exists,
         TaskInv, BatchInv, InBatch, open_clip, Unlink
    <3>2. EvictInv'
      BY <1>2 DEF TiersInv, TypeOK, RowInv, RecorderInv, ColdInv, Holding, Exists,
         TaskInv, EvictInv, open_clip, Unlink
    <3>3. SweepInv'
      BY <1>2 DEF TiersInv, TypeOK, RowInv, RecorderInv, ColdInv, Holding, Exists,
         TaskInv, SweepInv, open_clip, Unlink
    <3> QED  BY <3>1, <3>2, <3>3 DEF TaskInv
  <2>4. FilesInv'
    <3> SUFFICES ASSUME NEW d \in Clip PROVE FileInv(d)'
      BY DEF FilesInv
    <3>1. CASE d = c
      <4>1. rec[c] = "opening" /\ row[c] = "none"
        BY <1>2 DEF TiersInv, RowInv, RecorderInv, open_clip
      <4>2. /\ <<c, "inflight">> \in disk \cap young
            /\ \A p \in {"inflight", "final"} : <<c, p>> \notin cand
            /\ <<c, "final">> \notin disk
        BY <4>1 DEF TiersInv, FilesInv, FileInv
      <4>3. UNCHANGED <<cand, known, swPc>>
        BY <1>2 DEF open_clip
      <4>4. \/ row'[c] = "open" /\ rec'[c] = "recording" /\ UNCHANGED <<disk, young>>
            \/ row'[c] = "none" /\ rec'[c] = "idle" /\ Unlink(<<c, "inflight">>)
        BY <1>2, <4>1 DEF TiersInv, TypeOK, open_clip
      <4>5. CASE row'[c] = "open" /\ rec'[c] = "recording" /\ UNCHANGED <<disk, young>>
        BY <3>1, <4>2, <4>3, <4>5 DEF FileInv
      <4>6. CASE row'[c] = "none" /\ rec'[c] = "idle" /\ Unlink(<<c, "inflight">>)
        BY <3>1, <4>2, <4>3, <4>6 DEF FileInv, Unlink
      <4> QED  BY <4>4, <4>5, <4>6
    <3>2. CASE d # c
      BY <1>2, <3>2, FilesElsewhere DEF TiersInv, TypeOK, FilesInv, open_clip, Unlink
    <3> QED  BY <3>1, <3>2
  <2> QED  BY <2>1, <2>2, <2>3, <2>4 DEF TiersInv
<1>3. CASE CloseDiscards(c)
  <2>1. TypeOK'
    BY <1>3, MishapType, FileType DEF TiersInv, TypeOK, Path, File, CloseDiscards
  <2>2. RowInv'
    BY <1>3 DEF TiersInv, TypeOK, RowInv, RecorderInv, ColdInv, Holding, Exists,
       CloseDiscards, Unlink
  <2>3. TaskInv'
    BY <1>3 DEF TiersInv, TypeOK, TaskInv, BatchInv, InBatch, EvictInv, SweepInv,
       Exists, CloseDiscards, Unlink
  <2>4. FilesInv'
    <3> SUFFICES ASSUME NEW d \in Clip PROVE FileInv(d)'
      BY DEF FilesInv
    <3> QED  BY <1>3 DEF TiersInv, TypeOK, FilesInv, FileInv, Exists, CloseDiscards,
       Unlink, RowInv, RecorderInv, ColdInv, Holding
  <2> QED  BY <2>1, <2>2, <2>3, <2>4 DEF TiersInv
<1>4. CASE discard_clip_metadata(c)
  <2>1. TypeOK'
    BY <1>4, MishapType, DropRowType DEF TiersInv, TypeOK, Path, File,
       discard_clip_metadata
  <2>2. RowInv'
    BY <1>4 DEF TiersInv, TypeOK, RowInv, RecorderInv, ColdInv, Holding, Exists,
       discard_clip_metadata, DropRow
  <2>3. TaskInv'
    <3>1. BatchInv'
      <4>1. CASE UNCHANGED rowVars
        BY <1>4, <4>1 DEF TiersInv, TypeOK, TaskInv, BatchInv, InBatch,
           discard_clip_metadata
      <4>2. CASE DropRow(c)
        BY <1>4, <4>2, DropRowEffect DEF TiersInv, TypeOK, TaskInv, BatchInv, InBatch,
           discard_clip_metadata
      <4> QED  BY <1>4, <4>1, <4>2 DEF discard_clip_metadata
    <3>2. EvictInv'
      BY <1>4 DEF TiersInv, TypeOK, RowInv, RecorderInv, ColdInv, Holding, Exists,
         TaskInv, EvictInv, discard_clip_metadata, DropRow
    <3>3. SweepInv'
      BY <1>4 DEF TiersInv, TypeOK, RowInv, RecorderInv, ColdInv, Holding, Exists,
         TaskInv, SweepInv, discard_clip_metadata, DropRow
    <3> QED  BY <3>1, <3>2, <3>3 DEF TaskInv
  <2>4. FilesInv'
    <3> SUFFICES ASSUME NEW d \in Clip PROVE FileInv(d)'
      BY DEF FilesInv
    <3>1. CASE d = c
      <4>1. rec[c] = "discard" /\ rec' = [rec EXCEPT ![c] = "idle"] /\ row[c] = "open"
        BY <1>4 DEF TiersInv, TypeOK, RowInv, RecorderInv, Holding, discard_clip_metadata
      <4>2. row'[c] \in {"open", "gone"}
        BY <1>4, <4>1, DropRowEffect DEF TiersInv, discard_clip_metadata
      <4> QED  BY <3>1, <4>1, <4>2 DEF TiersInv, TypeOK, FileInv
    <3>2. CASE d # c
      BY <1>4, <3>2, FilesElsewhere, DropRowEffect DEF TiersInv, TypeOK, FilesInv,
         discard_clip_metadata
    <3> QED  BY <3>1, <3>2
  <2> QED  BY <2>1, <2>2, <2>3, <2>4 DEF TiersInv
<1>5. CASE CloseRenames(c)
  <2>1. TypeOK'
    BY <1>5, MishapType, FileType DEF TiersInv, TypeOK, Path, File, CloseRenames
  <2>2. RowInv'
    BY <1>5 DEF TiersInv, TypeOK, RowInv, RecorderInv, ColdInv, Holding, Exists,
       CloseRenames, Rename
  <2>3. TaskInv'
    <3>1. BatchInv'
      BY <1>5 DEF TiersInv, TypeOK, RowInv, RecorderInv, ColdInv, Holding, Exists,
         TaskInv, BatchInv, InBatch, CloseRenames, Rename
    <3>2. EvictInv'
      BY <1>5 DEF TiersInv, TypeOK, RowInv, RecorderInv, ColdInv, Holding, Exists,
         TaskInv, EvictInv, CloseRenames, Rename
    <3>3. SweepInv'
      BY <1>5 DEF TiersInv, TypeOK, RowInv, RecorderInv, ColdInv, Holding, Exists,
         TaskInv, SweepInv, CloseRenames, Rename
    <3> QED  BY <3>1, <3>2, <3>3 DEF TaskInv
  <2>4. FilesInv'
    <3> SUFFICES ASSUME NEW d \in Clip PROVE FileInv(d)'
      BY DEF FilesInv
    <3>1. CASE d = c
      <4>1. PICK renamed, hash, damaged, balloon \in BOOLEAN :
               /\ fin' = [fin EXCEPT ![c] =
                            [path |-> IF renamed THEN "final" ELSE "inflight",
                             hash |-> hash, big |-> balloon, bad |-> damaged]]
               /\ IF renamed THEN Rename(<<c, "inflight">>, <<c, "final">>)
                             ELSE UNCHANGED fileVars
               /\ rec' = [rec EXCEPT ![c] = IF damaged THEN "damaged" ELSE "close"]
        BY <1>5 DEF CloseRenames
      <4>2. /\ rec'[c] \in {"damaged", "close"}
            /\ fin'[c].path = IF renamed THEN "final" ELSE "inflight"
        BY <4>1 DEF TiersInv, TypeOK
      <4>3. rec[c] = "recording" /\ row[c] = "open" /\ row' = row /\ cand' = cand
        BY <1>5 DEF TiersInv, TypeOK, RowInv, RecorderInv, Holding, CloseRenames
      <4>4. FileInv(c)
        BY DEF TiersInv, FilesInv
      <4> QED  BY <3>1, <4>1, <4>2, <4>3, <4>4 DEF FileInv, Rename
    <3>2. CASE d # c
      BY <1>5, <3>2, FilesElsewhere, SMTT(30)
         DEF TiersInv, TypeOK, FilesInv, CloseRenames, Rename
    <3> QED  BY <3>1, <3>2
  <2> QED  BY <2>1, <2>2, <2>3, <2>4 DEF TiersInv
<1>6. CASE QuarantineDamaged(c)
  <2>1. TypeOK'
    <3>1. (rec \in [Clip -> {"idle", "opening", "recording", "discard", "damaged", "close"}])'
      BY <1>6 DEF TiersInv, TypeOK, QuarantineDamaged
    <3>2. (quar \in [Clip -> BOOLEAN])'
      BY <1>6, ExistsType DEF TiersInv, TypeOK, QuarantineDamaged
    <3>3. (faultsLeft \in Nat)'
      BY <1>6, MishapType DEF TiersInv, TypeOK, QuarantineDamaged
    <3> QED  BY <1>6, <3>1, <3>2, <3>3 DEF TiersInv, TypeOK, QuarantineDamaged
  <2>2. RowInv'
    BY <1>6 DEF TiersInv, TypeOK, RowInv, RecorderInv, ColdInv, Holding, Exists,
       QuarantineDamaged
  <2>3. TaskInv'
    <3>0. \A d \in Clip : quar'[d] => quar[d] \/ (d = c /\ row[c] = "open")
      BY <1>6 DEF TiersInv, TypeOK, RowInv, RecorderInv, Exists, QuarantineDamaged
    <3>1. BatchInv'
      BY <1>6, <3>0 DEF TiersInv, TypeOK, TaskInv, BatchInv, InBatch, QuarantineDamaged
    <3>2. EvictInv'
      BY <1>6 DEF TiersInv, TypeOK, RowInv, RecorderInv, ColdInv, Holding, Exists,
         TaskInv, EvictInv, QuarantineDamaged
    <3>3. SweepInv'
      BY <1>6 DEF TiersInv, TypeOK, RowInv, RecorderInv, ColdInv, Holding, Exists,
         TaskInv, SweepInv, QuarantineDamaged
    <3> QED  BY <3>1, <3>2, <3>3 DEF TaskInv
  <2>4. FilesInv'
    <3> SUFFICES ASSUME NEW d \in Clip PROVE FileInv(d)'
      BY DEF FilesInv
    <3> QED  BY <1>6 DEF TiersInv, TypeOK, FilesInv, FileInv, Exists, QuarantineDamaged
  <2> QED  BY <2>1, <2>2, <2>3, <2>4 DEF TiersInv
<1>7. CASE close_clip(c)
  <2>1. TypeOK'
    <3>1. (row \in [Clip -> {"none", "open", "closed", "gone"}])'
      BY <1>7 DEF TiersInv, TypeOK, close_clip
    <3>2. (hot \in [Clip -> Path])'
      BY <1>7 DEF TiersInv, TypeOK, close_clip, Path
    <3>0. fin[c].hash \in BOOLEAN /\ fin[c].big \in BOOLEAN
      BY DEF TiersInv, TypeOK
    <3>3. (hashed \in [Clip -> BOOLEAN])'
      BY <1>7, <3>0 DEF TiersInv, TypeOK, close_clip
    <3>4. (big \in [Clip -> BOOLEAN])'
      BY <1>7, <3>0 DEF TiersInv, TypeOK, close_clip
    <3>5. (rec \in [Clip -> {"idle", "opening", "recording", "discard", "damaged", "close"}])'
      BY <1>7 DEF TiersInv, TypeOK, close_clip
    <3>6. (fin \in [Clip -> [path : Path, hash : BOOLEAN, big : BOOLEAN, bad : BOOLEAN]])'
      BY <1>7 DEF TiersInv, TypeOK, close_clip, Path, NoFin
    <3>7. (faultsLeft \in Nat)'
      BY <1>7, MishapType DEF TiersInv, TypeOK, close_clip
    <3> QED  BY <1>7, <3>1, <3>2, <3>3, <3>4, <3>5, <3>6, <3>7 DEF TiersInv, TypeOK,
       close_clip
  <2>2. RowInv'
    BY <1>7 DEF TiersInv, TypeOK, RowInv, RecorderInv, ColdInv, Holding, Exists,
       close_clip, NoFin
  <2>3. TaskInv'
    BY <1>7 DEF TiersInv, TypeOK, TaskInv, BatchInv, InBatch, EvictInv, SweepInv,
       Exists, close_clip, NoFin
  <2>4. FilesInv'
    <3> SUFFICES ASSUME NEW d \in Clip PROVE FileInv(d)'
      BY DEF FilesInv
    <3>1. CASE d = c
      <4>1. rec[c] = "close" /\ row[c] \notin {"none", "closed"}
        BY <1>7 DEF TiersInv, RowInv, RecorderInv, Holding, close_clip
      <4>2. /\ fin[c].path \in {"inflight", "final"}
            /\ <<c, fin[c].path>> \notin cand
            /\ Exists(c) => <<c, fin[c].path>> \in disk \cap young
        BY <4>1 DEF TiersInv, FilesInv, FileInv
      <4>3. rec'[c] = "idle" /\ UNCHANGED <<disk, young, cand, known, swPc>>
        BY <1>7 DEF TiersInv, TypeOK, close_clip, RecFrame, fileVars, swVars
      <4>4. \/ row'[c] = row[c]
            \/ row'[c] = "closed" /\ hot'[c] = fin[c].path /\ Exists(c)
        BY <1>7 DEF TiersInv, TypeOK, close_clip, rowVars
      <4>5. CASE row'[c] = row[c]
        BY <3>1, <4>1, <4>3, <4>5 DEF FileInv
      <4>6. CASE row'[c] = "closed" /\ hot'[c] = fin[c].path /\ Exists(c)
        BY <3>1, <4>2, <4>3, <4>6 DEF FileInv
      <4> QED  BY <4>4, <4>5, <4>6
    <3>2. CASE d # c
      BY <1>7, <3>2, FilesElsewhere DEF TiersInv, TypeOK, FilesInv, close_clip, NoFin
    <3> QED  BY <3>1, <3>2
  <2> QED  BY <2>1, <2>2, <2>3, <2>4 DEF TiersInv
<1> QED  BY <1>1, <1>2, <1>3, <1>4, <1>5, <1>6, <1>7 DEF RecStep

-----------------------------------------------------------------------------
(* The replicator keeps it: a clip of its batch gets a cold pointer only   *)
(* for a complete object, and is quarantined only while it has none.       *)
LEMMA ReplicatorStep ==
    ASSUME TiersInv, RepStep
    PROVE  TiersInv'
<1> USE TiersAssumption DEF TiersAssumption
<1> USE DEF rowVars, fileVars, recVars, repVars, evVars, swVars, jobVars, RepFrame
<1>1. CASE RepTick
  <2>1. TypeOK'
    BY <1>1 DEF TiersInv, TypeOK, Path, File, RepTick, PendingUpload
  <2>2. RowInv'
    BY <1>1 DEF TiersInv, TypeOK, RowInv, RecorderInv, ColdInv, Holding, Exists,
       RepTick, PendingUpload
  <2>3. TaskInv'
    BY <1>1 DEF TiersInv, TypeOK, TaskInv, BatchInv, InBatch, EvictInv, SweepInv,
       Exists, RepTick, PendingUpload
  <2>4. FilesInv'
    <3> SUFFICES ASSUME NEW d \in Clip PROVE FileInv(d)'
      BY DEF FilesInv
    <3> QED  BY <1>1 DEF TiersInv, TypeOK, FilesInv, FileInv, Exists, RepTick,
       PendingUpload
  <2> QED  BY <2>1, <2>2, <2>3, <2>4 DEF TiersInv
<1>2. CASE RepNext
  <2>1. TypeOK'
    <3>1. /\ (repPc \in {"idle", "next", "exists", "read", "put", "mark", "fail"})'
          /\ (repCur \in Clip \cup {NoClip})'
          /\ (repTodo \in SUBSET Clip)'
          /\ (repPath \in [Clip -> Path])'
      BY <1>2 DEF TiersInv, TypeOK, RepNext, Path
    <3>2. (quar \in [Clip -> BOOLEAN])'
      BY <1>2, ExistsType DEF TiersInv, TypeOK, RepNext
    <3>3. (faultsLeft \in Nat)'
      BY <1>2, MishapType DEF TiersInv, TypeOK, RepNext
    <3> QED  BY <1>2, <3>1, <3>2, <3>3 DEF TiersInv, TypeOK, RepNext
  <2>2. RowInv'
    <3> SUFFICES ASSUME NEW d \in Clip PROVE RecorderInv(d)' /\ ColdInv(d)'
      BY DEF RowInv
    <3>1. RecorderInv(d)'
      BY <1>2 DEF TiersInv, TypeOK, RowInv, RecorderInv, ColdInv, Holding, Exists,
         RepNext, TaskInv, BatchInv, InBatch
    <3>2. ColdInv(d)'
      BY <1>2 DEF TiersInv, TypeOK, RowInv, RecorderInv, ColdInv, Holding, Exists,
         RepNext, TaskInv, BatchInv, InBatch
    <3> QED  BY <3>1, <3>2
  <2>3. TaskInv'
    BY <1>2 DEF TiersInv, TypeOK, TaskInv, BatchInv, InBatch, EvictInv, SweepInv,
       Exists, RepNext
  <2>4. FilesInv'
    <3> SUFFICES ASSUME NEW d \in Clip PROVE FileInv(d)'
      BY DEF FilesInv
    <3> QED  BY <1>2 DEF TiersInv, TypeOK, FilesInv, FileInv, Exists, RepNext
  <2> QED  BY <2>1, <2>2, <2>3, <2>4 DEF TiersInv
<1>3. CASE RepExists
  <2>1. TypeOK'
    BY <1>3 DEF TiersInv, TypeOK, Path, File, RepExists, RepGoto, Complete
  <2>2. RowInv'
    BY <1>3 DEF TiersInv, TypeOK, RowInv, RecorderInv, ColdInv, Holding, Exists,
       RepExists, RepGoto, Complete
  <2>3. TaskInv'
    BY <1>3 DEF TiersInv, TypeOK, TaskInv, BatchInv, InBatch, EvictInv, SweepInv,
       Exists, RepExists, RepGoto, Complete
  <2>4. FilesInv'
    <3> SUFFICES ASSUME NEW d \in Clip PROVE FileInv(d)'
      BY DEF FilesInv
    <3> QED  BY <1>3 DEF TiersInv, TypeOK, FilesInv, FileInv, Exists, RepExists,
       RepGoto, Complete
  <2> QED  BY <2>1, <2>2, <2>3, <2>4 DEF TiersInv
<1>4. CASE RepRead
  <2>1. TypeOK'
    BY <1>4 DEF TiersInv, TypeOK, Path, File, RepRead, RepGoto
  <2>2. RowInv'
    BY <1>4 DEF TiersInv, TypeOK, RowInv, RecorderInv, ColdInv, Holding, Exists,
       RepRead, RepGoto
  <2>3. TaskInv'
    BY <1>4 DEF TiersInv, TypeOK, TaskInv, BatchInv, InBatch, EvictInv, SweepInv,
       Exists, RepRead, RepGoto
  <2>4. FilesInv'
    <3> SUFFICES ASSUME NEW d \in Clip PROVE FileInv(d)'
      BY DEF FilesInv
    <3> QED  BY <1>4 DEF TiersInv, TypeOK, FilesInv, FileInv, Exists, RepRead, RepGoto
  <2> QED  BY <2>1, <2>2, <2>3, <2>4 DEF TiersInv
<1>5. CASE RepPut
  <2>1. TypeOK'
    <3>1. /\ (repPc \in {"idle", "next", "exists", "read", "put", "mark", "fail"})'
          /\ (repCur \in Clip \cup {NoClip})'
          /\ (repTodo \in SUBSET Clip)'
          /\ (repPath \in [Clip -> Path])'
      BY <1>5 DEF TiersInv, TypeOK, RepPut, RepGoto
    <3>2. (object \in SUBSET Clip)'
      BY <1>5 DEF TiersInv, TypeOK, RepPut, TaskInv, BatchInv, RepGoto
    <3> QED  BY <1>5, <3>1, <3>2 DEF TiersInv, TypeOK, RepPut
  <2>2. RowInv'
    BY <1>5 DEF TiersInv, TypeOK, RowInv, RecorderInv, ColdInv, Holding, Exists,
       RepPut, RepGoto
  <2>3. TaskInv'
    BY <1>5 DEF TiersInv, TypeOK, TaskInv, BatchInv, InBatch, EvictInv, SweepInv,
       Exists, RepPut, RepGoto
  <2>4. FilesInv'
    <3> SUFFICES ASSUME NEW d \in Clip PROVE FileInv(d)'
      BY DEF FilesInv
    <3> QED  BY <1>5 DEF TiersInv, TypeOK, FilesInv, FileInv, Exists, RepPut, RepGoto
  <2> QED  BY <2>1, <2>2, <2>3, <2>4 DEF TiersInv
<1>6. CASE mark_cold_replicated
  <2>1. TypeOK'
    <3>1. /\ (repPc \in {"idle", "next", "exists", "read", "put", "mark", "fail"})'
          /\ (repCur \in Clip \cup {NoClip})'
          /\ (repTodo \in SUBSET Clip)'
          /\ (repPath \in [Clip -> Path])'
      BY <1>6 DEF TiersInv, TypeOK, mark_cold_replicated, RepGoto
    <3>2. (cold \in [Clip -> BOOLEAN])'
      BY <1>6 DEF TiersInv, TypeOK, mark_cold_replicated
    <3>3. (faultsLeft \in Nat)'
      BY <1>6, MishapType DEF TiersInv, TypeOK, mark_cold_replicated
    <3> QED  BY <1>6, <3>1, <3>2, <3>3 DEF TiersInv, TypeOK, mark_cold_replicated
  <2>2. RowInv'
    <3> SUFFICES ASSUME NEW d \in Clip PROVE RecorderInv(d)' /\ ColdInv(d)'
      BY DEF RowInv
    <3>1. RecorderInv(d)'
      BY <1>6 DEF TiersInv, TypeOK, RowInv, RecorderInv, ColdInv, Holding, Exists,
         mark_cold_replicated, RepGoto
    <3>2. repCur \in Clip /\ repCur \in object /\ InBatch(repCur)
      BY <1>6 DEF TiersInv, TaskInv, BatchInv, mark_cold_replicated
    <3>3. cold'[d] => cold[d] \/ (d = repCur /\ Exists(repCur))
      BY <1>6, <3>2 DEF TiersInv, TypeOK, mark_cold_replicated
    <3>4. ColdInv(d)'
      BY <1>6, <3>2, <3>3 DEF TiersInv, TypeOK, RowInv, RecorderInv, ColdInv, Holding,
         Exists, InBatch, mark_cold_replicated, RepGoto
    <3> QED  BY <3>1, <3>4
  <2>3. TaskInv'
    <3>1. BatchInv'
      BY <1>6, SMTT(30) DEF TiersInv, TypeOK, RowInv, RecorderInv, ColdInv, Holding, Exists,
         TaskInv, BatchInv, InBatch, mark_cold_replicated, RepGoto
    <3>2. EvictInv'
      BY <1>6, SMTT(30) DEF TiersInv, TypeOK, RowInv, RecorderInv, ColdInv, Holding, Exists,
         TaskInv, EvictInv, mark_cold_replicated, RepGoto
    <3>3. SweepInv'
      BY <1>6 DEF TiersInv, TypeOK, RowInv, RecorderInv, ColdInv, Holding, Exists,
         TaskInv, SweepInv, mark_cold_replicated, RepGoto
    <3> QED  BY <3>1, <3>2, <3>3 DEF TaskInv
  <2>4. FilesInv'
    <3> SUFFICES ASSUME NEW d \in Clip PROVE FileInv(d)'
      BY DEF FilesInv
    <3> QED  BY <1>6 DEF TiersInv, TypeOK, FilesInv, FileInv, Exists,
       mark_cold_replicated, RepGoto, TaskInv, BatchInv
  <2> QED  BY <2>1, <2>2, <2>3, <2>4 DEF TiersInv
<1>7. CASE record_cold_upload_failure
  <2>1. TypeOK'
    <3>1. /\ (repPc \in {"idle", "next", "exists", "read", "put", "mark", "fail"})'
          /\ (repCur \in Clip \cup {NoClip})'
          /\ (repTodo \in SUBSET Clip)'
          /\ (repPath \in [Clip -> Path])'
      BY <1>7 DEF TiersInv, TypeOK, record_cold_upload_failure, RepGoto
    <3>2. (att \in [Clip -> 0..MaxColdAttempts])'
      BY <1>7 DEF TiersInv, TypeOK, record_cold_upload_failure, RowInv, ColdInv,
         TaskInv, BatchInv, InBatch
    <3>3. (next \in [Clip -> {"null", "future", "past"}])'
      BY <1>7 DEF TiersInv, TypeOK, record_cold_upload_failure
    <3>4. (quar \in [Clip -> BOOLEAN])'
      BY <1>7, ExhaustedType DEF TiersInv, TypeOK, record_cold_upload_failure
    <3>5. (faultsLeft \in Nat)'
      BY <1>7, MishapType DEF TiersInv, TypeOK, record_cold_upload_failure
    <3> QED  BY <1>7, <3>1, <3>2, <3>3, <3>4, <3>5 DEF TiersInv, TypeOK,
       record_cold_upload_failure
  <2>2. RowInv'
    <3> SUFFICES ASSUME NEW d \in Clip PROVE RecorderInv(d)' /\ ColdInv(d)'
      BY DEF RowInv
    <3>1. repCur \in Clip /\ InBatch(repCur)
      BY <1>7 DEF TiersInv, TaskInv, BatchInv, record_cold_upload_failure
    <3>2. CASE UNCHANGED <<att, quar>>
      BY <1>7, <3>2 DEF TiersInv, TypeOK, RowInv, RecorderInv, ColdInv, Holding,
         Exists, record_cold_upload_failure
    <3>3. CASE /\ Exists(repCur)
               /\ att' = [att EXCEPT ![repCur] = att[repCur] + 1]
               /\ quar' = [quar EXCEPT ![repCur] = ColdExhausted(att[repCur] + 1)]
      <4>1. row[repCur] = "closed" /\ rec[repCur] = "idle" /\ ~cold[repCur]
        BY <3>1, <3>3 DEF TiersInv, TypeOK, RowInv, RecorderInv, ColdInv, Holding,
           Exists, InBatch
      <4>2. CASE d = repCur
        <5>1. att'[d] = att[d] + 1 /\ att[d] \in Nat
          BY <3>1, <3>3, <4>2 DEF TiersInv, TypeOK
        <5>2. quar'[d] <=> att[d] + 1 >= MaxColdAttempts
          BY <3>1, <3>3, <4>2 DEF TiersInv, TypeOK, ColdExhausted
        <5> QED  BY <1>7, <3>1, <4>1, <4>2, <5>1, <5>2 DEF TiersInv, TypeOK, RowInv, RecorderInv, ColdInv, Holding, Exists, record_cold_upload_failure
      <4>3. CASE d # repCur
        BY <1>7, <3>1, <3>3, <4>3 DEF TiersInv, TypeOK, RowInv, RecorderInv, ColdInv,
           Holding, Exists, record_cold_upload_failure
      <4> QED  BY <4>2, <4>3
    <3> QED  BY <1>7, <3>2, <3>3 DEF record_cold_upload_failure
  <2>3. TaskInv'
    BY <1>7 DEF TiersInv, TypeOK, TaskInv, BatchInv, InBatch, EvictInv, SweepInv,
       Exists, record_cold_upload_failure, RepGoto, ColdExhausted
  <2>4. FilesInv'
    <3> SUFFICES ASSUME NEW d \in Clip PROVE FileInv(d)'
      BY DEF FilesInv
    <3> QED  BY <1>7 DEF TiersInv, TypeOK, FilesInv, FileInv, Exists,
       record_cold_upload_failure, RepGoto, ColdExhausted
  <2> QED  BY <2>1, <2>2, <2>3, <2>4 DEF TiersInv
<1> QED  BY <1>1, <1>2, <1>3, <1>4, <1>5, <1>6, <1>7 DEF RepStep

-----------------------------------------------------------------------------
(* The pressure ladder keeps it: what it drops has a cold copy, what it    *)
(* deletes the recorder no longer holds, unless close() found it damaged.  *)
LEMMA EvictorStep ==
    ASSUME TiersInv, EvictStep
    PROVE  TiersInv'
<1> USE TiersAssumption DEF TiersAssumption
<1> USE DEF rowVars, fileVars, recVars, repVars, evVars, swVars, jobVars, EvFrame
<1>1. CASE EvictFind
  <2>1. TypeOK'
    BY <1>1 DEF TiersInv, TypeOK, Path, File, EvictFind, QuarantinedHot,
       SoftCandidate, HardCandidate
  <2>2. RowInv'
    BY <1>1 DEF TiersInv, TypeOK, RowInv, RecorderInv, ColdInv, Holding, Exists,
       EvictFind, QuarantinedHot, SoftCandidate, HardCandidate
  <2>3. TaskInv'
    <3>1. BatchInv'
      BY <1>1 DEF TiersInv, TypeOK, RowInv, RecorderInv, ColdInv, Holding, Exists,
         TaskInv, BatchInv, InBatch, EvictFind, QuarantinedHot, SoftCandidate,
         HardCandidate
    <3>2. EvictInv'
      BY <1>1 DEF TiersInv, TypeOK, RowInv, RecorderInv, ColdInv, Holding, Exists,
         TaskInv, EvictInv, EvictFind, QuarantinedHot, SoftCandidate, HardCandidate
    <3>3. SweepInv'
      BY <1>1 DEF TiersInv, TypeOK, RowInv, RecorderInv, ColdInv, Holding, Exists,
         TaskInv, SweepInv, EvictFind, QuarantinedHot, SoftCandidate, HardCandidate
    <3> QED  BY <3>1, <3>2, <3>3 DEF TaskInv
  <2>4. FilesInv'
    <3> SUFFICES ASSUME NEW d \in Clip PROVE FileInv(d)'
      BY DEF FilesInv
    <3> QED  BY <1>1 DEF TiersInv, TypeOK, FilesInv, FileInv, Exists, EvictFind,
       QuarantinedHot, SoftCandidate, HardCandidate
  <2> QED  BY <2>1, <2>2, <2>3, <2>4 DEF TiersInv
<1>2. CASE SoftUnlink
  <2>1. TypeOK'
    BY <1>2, MishapType, FileType DEF TiersInv, TypeOK, Path, File, SoftUnlink,
       EvGoto, EvDone
  <2>2. RowInv'
    BY <1>2 DEF TiersInv, TypeOK, RowInv, RecorderInv, ColdInv, Holding, Exists,
       SoftUnlink, Unlink, EvGoto, EvDone
  <2>3. TaskInv'
    BY <1>2 DEF TiersInv, TypeOK, TaskInv, BatchInv, InBatch, EvictInv, SweepInv,
       Exists, SoftUnlink, Unlink, EvGoto, EvDone
  <2>4. FilesInv'
    <3> SUFFICES ASSUME NEW d \in Clip PROVE FileInv(d)'
      BY DEF FilesInv
    <3> QED  BY <1>2 DEF TiersInv, TypeOK, FilesInv, FileInv, Exists, SoftUnlink,
       Unlink, EvGoto, EvDone, RowInv, RecorderInv, ColdInv, Holding, TaskInv, EvictInv
  <2> QED  BY <2>1, <2>2, <2>3, <2>4 DEF TiersInv
<1>3. CASE clear_hot_pointer
  <2>1. TypeOK'
    BY <1>3, MishapType, SMTT(30)
       DEF TiersInv, TypeOK, Path, File, clear_hot_pointer, EvDone
  <2>2. RowInv'
    BY <1>3 DEF TiersInv, TypeOK, RowInv, RecorderInv, ColdInv, Holding, Exists,
       clear_hot_pointer, EvDone
  <2>3. TaskInv'
    BY <1>3 DEF TiersInv, TypeOK, TaskInv, BatchInv, InBatch, EvictInv, SweepInv,
       Exists, clear_hot_pointer, EvDone
  <2>4. FilesInv'
    <3> SUFFICES ASSUME NEW d \in Clip PROVE FileInv(d)'
      BY DEF FilesInv
    <3> QED  BY <1>3 DEF TiersInv, TypeOK, FilesInv, FileInv, Exists,
       clear_hot_pointer, EvDone
  <2> QED  BY <2>1, <2>2, <2>3, <2>4 DEF TiersInv
<1>4. CASE HardDelete
  <2>1. TypeOK'
    <3>1. evClip \in Clip
      BY <1>4 DEF TiersInv, TaskInv, EvictInv, HardDelete
    <3>2. CASE DropRow(evClip) /\ NoFault /\ EvGoto("reap")
      BY <1>4, <3>1, <3>2, MishapType, DropRowType DEF TiersInv, TypeOK, HardDelete,
         EvGoto
    <3>3. CASE (Fault \/ NoFault) /\ UNCHANGED rowVars /\ EvDone
      BY <1>4, <3>3, MishapType DEF TiersInv, TypeOK, Path, HardDelete, EvDone
    <3> QED  BY <1>4, <3>2, <3>3 DEF HardDelete
  <2>2. RowInv'
    <3> SUFFICES ASSUME NEW d \in Clip PROVE RecorderInv(d)' /\ ColdInv(d)'
      BY DEF RowInv
    <3>0. evClip \in Clip
      BY <1>4 DEF TiersInv, TaskInv, EvictInv, HardDelete
    <3>1. CASE UNCHANGED rowVars
      BY <1>4, <3>1 DEF TiersInv, TypeOK, RowInv, RecorderInv, ColdInv, Holding,
         Exists, HardDelete
    <3>2. CASE DropRow(evClip) /\ d = evClip
      <4>1. row[evClip] # "none" /\ (rec[evClip] = "idle" \/ fin[evClip].bad)
        BY <1>4, <3>0, <3>2 DEF TiersInv, TypeOK, RowInv, RecorderInv, Exists,
           TaskInv, EvictInv, HardDelete
      <4>2. row'[d] = "gone" /\ ~cold'[d] /\ ~quar'[d] /\ att'[d] = 0
        BY <3>0, <3>2, DropRowEffect DEF TiersInv
      <4> QED  BY <1>4, <3>0, <3>2, <4>1, <4>2 DEF TiersInv, TypeOK, RowInv, RecorderInv, ColdInv, Holding, Exists, HardDelete
    <3>3. CASE DropRow(evClip) /\ d # evClip
      <4>1. /\ row'[d] = row[d] /\ hot'[d] = hot[d] /\ att'[d] = att[d]
            /\ cold'[d] = cold[d] /\ quar'[d] = quar[d]
        BY <3>0, <3>3, DropRowEffect DEF TiersInv
      <4> QED  BY <1>4, <4>1 DEF TiersInv, TypeOK, RowInv, RecorderInv, ColdInv, Holding, Exists, HardDelete
    <3> QED  BY <1>4, <3>1, <3>2, <3>3 DEF HardDelete
  <2>3. TaskInv'
    <3>1. BatchInv'
      BY <1>4, SMTT(30) DEF TiersInv, TypeOK, RowInv, RecorderInv, ColdInv, Holding, Exists,
         TaskInv, BatchInv, InBatch, HardDelete, EvGoto, EvDone, DropRow
    <3>2. EvictInv'
      BY <1>4, SMTT(30) DEF TiersInv, TypeOK, RowInv, RecorderInv, ColdInv, Holding, Exists,
         TaskInv, EvictInv, HardDelete, EvGoto, EvDone, DropRow
    <3>3. SweepInv'
      BY <1>4 DEF TiersInv, TypeOK, RowInv, RecorderInv, ColdInv, Holding, Exists,
         TaskInv, SweepInv, HardDelete, EvGoto, EvDone, DropRow
    <3> QED  BY <3>1, <3>2, <3>3 DEF TaskInv
  <2>4. FilesInv'
    <3> SUFFICES ASSUME NEW d \in Clip PROVE FileInv(d)'
      BY DEF FilesInv
    <3>0. evClip \in Clip
      BY <1>4 DEF TiersInv, TaskInv, EvictInv, HardDelete
    <3>1. CASE UNCHANGED rowVars
      BY <1>4, <3>1 DEF TiersInv, TypeOK, RowInv, RecorderInv, ColdInv, Holding,
         Exists, FilesInv, FileInv, HardDelete
    <3>2. CASE DropRow(evClip) /\ d = evClip
      <4>1. row[evClip] # "none" /\ (rec[evClip] = "idle" \/ fin[evClip].bad)
        BY <1>4, <3>0, <3>2 DEF TiersInv, TypeOK, RowInv, RecorderInv, Exists,
           TaskInv, EvictInv, HardDelete
      <4>2. row'[d] = "gone" /\ ~cold'[d] /\ ~quar'[d] /\ att'[d] = 0
        BY <3>0, <3>2, DropRowEffect DEF TiersInv
      <4> QED  BY <1>4, <3>0, <3>2, <4>1, <4>2 DEF TiersInv, TypeOK, RowInv, RecorderInv, ColdInv, Holding, Exists, FilesInv, FileInv, HardDelete
    <3>3. CASE DropRow(evClip) /\ d # evClip
      <4>1. /\ row'[d] = row[d] /\ hot'[d] = hot[d] /\ att'[d] = att[d]
            /\ cold'[d] = cold[d] /\ quar'[d] = quar[d]
        BY <3>0, <3>3, DropRowEffect DEF TiersInv
      <4> QED  BY <1>4, <4>1 DEF TiersInv, FilesInv, FileInv, Exists, HardDelete
    <3> QED  BY <1>4, <3>1, <3>2, <3>3 DEF HardDelete
  <2> QED  BY <2>1, <2>2, <2>3, <2>4 DEF TiersInv
<1>5. CASE HardUnlink
  <2>1. TypeOK'
    BY <1>5, MishapType, FileType DEF TiersInv, TypeOK, Path, File, HardUnlink, EvDone
  <2>2. RowInv'
    BY <1>5 DEF TiersInv, TypeOK, RowInv, RecorderInv, ColdInv, Holding, Exists,
       HardUnlink, Unlink, EvDone
  <2>3. TaskInv'
    BY <1>5 DEF TiersInv, TypeOK, TaskInv, BatchInv, InBatch, EvictInv, SweepInv,
       Exists, HardUnlink, Unlink, EvDone
  <2>4. FilesInv'
    <3> SUFFICES ASSUME NEW d \in Clip PROVE FileInv(d)'
      BY DEF FilesInv
    <3> QED  BY <1>5 DEF TiersInv, TypeOK, FilesInv, FileInv, Exists, HardUnlink,
       Unlink, EvDone, RowInv, RecorderInv, ColdInv, Holding, TaskInv, EvictInv
  <2> QED  BY <2>1, <2>2, <2>3, <2>4 DEF TiersInv
<1> QED  BY <1>1, <1>2, <1>3, <1>4, <1>5 DEF EvictStep

-----------------------------------------------------------------------------
(* Retention keeps it: it deletes past the horizon, and the scan unlinks   *)
(* no file that the row of a live clip without a cold copy names.          *)
LEMMA SweeperStep ==
    ASSUME TiersInv, SweepStep
    PROVE  TiersInv'
<1> USE TiersAssumption DEF TiersAssumption
<1> USE DEF rowVars, fileVars, recVars, repVars, evVars, swVars, jobVars, SwFrame
<1>1. CASE SweepList
  <2>1. TypeOK'
    BY <1>1 DEF TiersInv, TypeOK, Path, File, SweepList
  <2>2. RowInv'
    BY <1>1 DEF TiersInv, TypeOK, RowInv, RecorderInv, ColdInv, Holding, Exists, SweepList
  <2>3. TaskInv'
    BY <1>1 DEF TiersInv, TypeOK, TaskInv, BatchInv, InBatch, EvictInv, SweepInv,
       Exists, SweepList
  <2>4. FilesInv'
    <3> SUFFICES ASSUME NEW d \in Clip PROVE FileInv(d)'
      BY DEF FilesInv
    <3> QED  BY <1>1 DEF TiersInv, TypeOK, FilesInv, FileInv, Exists, SweepList
  <2> QED  BY <2>1, <2>2, <2>3, <2>4 DEF TiersInv
<1>2. CASE SweepUnlink
  <2>1. TypeOK'
    <3>1. /\ (swPc \in {"idle", "clips", "delete", "known", "walk", "reap"})'
          /\ (swCur \in Clip \cup {NoClip})'
          /\ (swTodo \in SUBSET Clip)'
          /\ (swPath \in [Clip -> Path])'
          /\ (known \in SUBSET File)'
          /\ (cand \in SUBSET File)'
      BY <1>2 DEF TiersInv, TypeOK, SweepUnlink
    <3>2. /\ (disk \in SUBSET File)'
          /\ (young \in SUBSET disk)'
      BY <1>2, MishapType, FileType DEF TiersInv, TypeOK, SweepUnlink, File
    <3>3. (faultsLeft \in Nat)'
      BY <1>2, MishapType DEF TiersInv, TypeOK, SweepUnlink
    <3> QED  BY <1>2, <3>1, <3>2, <3>3 DEF TiersInv, TypeOK, SweepUnlink
  <2>2. RowInv'
    BY <1>2 DEF TiersInv, TypeOK, RowInv, RecorderInv, ColdInv, Holding, Exists,
       SweepUnlink, Unlink
  <2>3. TaskInv'
    BY <1>2 DEF TiersInv, TypeOK, TaskInv, BatchInv, InBatch, EvictInv, SweepInv,
       Exists, SweepUnlink, Unlink
  <2>4. FilesInv'
    <3> SUFFICES ASSUME NEW d \in Clip PROVE FileInv(d)'
      BY DEF FilesInv
    <3>1. CASE UNCHANGED fileVars
      BY <1>2, <3>1 DEF TiersInv, TypeOK, RowInv, RecorderInv, ColdInv, Holding,
         Exists, FilesInv, FileInv, TaskInv, SweepInv, SweepUnlink
    <3>2. ASSUME NEW b \in swTodo, Unlink(<<b, swPath[b]>>), swPc' = "delete" PROVE FileInv(d)'
      <4>1. age[b] = 2 /\ rec[b] = "idle" /\ row[b] # "none" /\ b \in Clip
        BY <3>2 DEF TiersInv, TypeOK, RowInv, RecorderInv, TaskInv, SweepInv
      <4>2. CASE d = b
        BY <1>2, <3>2, <4>1, <4>2 DEF TiersInv, TypeOK, RowInv, RecorderInv, ColdInv,
           Holding, Exists, FilesInv, FileInv, SweepUnlink, Unlink
      <4>3. CASE d # b
        BY <1>2, <3>2, <4>1, <4>3 DEF TiersInv, TypeOK, RowInv, RecorderInv, ColdInv,
           Holding, Exists, FilesInv, FileInv, SweepUnlink, Unlink
      <4> QED  BY <4>2, <4>3
    <3> QED  BY <1>2, <3>1, <3>2 DEF SweepUnlink
  <2> QED  BY <2>1, <2>2, <2>3, <2>4 DEF TiersInv
<1>3. CASE SweepDelete
  <2>1. TypeOK'
    <3>1. swCur \in Clip
      BY <1>3 DEF TiersInv, TaskInv, SweepInv, SweepDelete
    <3>2. CASE DropRow(swCur) /\ NoFault /\ swPc' = "clips" /\ UNCHANGED <<swCur, swTodo, swPath, known, cand>>
      BY <1>3, <3>1, <3>2, MishapType, DropRowType DEF TiersInv, TypeOK, SweepDelete
    <3>3. CASE (Fault \/ NoFault) /\ UNCHANGED rowVars /\ SwEnds
      BY <1>3, <3>3, MishapType DEF TiersInv, TypeOK, Path, SweepDelete, SwEnds
    <3> QED  BY <1>3, <3>2, <3>3 DEF SweepDelete
  <2>2. RowInv'
    <3> SUFFICES ASSUME NEW d \in Clip PROVE RecorderInv(d)' /\ ColdInv(d)'
      BY DEF RowInv
    <3>0. swCur \in Clip
      BY <1>3 DEF TiersInv, TaskInv, SweepInv, SweepDelete
    <3>1. CASE UNCHANGED rowVars
      BY <1>3, <3>1 DEF TiersInv, TypeOK, RowInv, RecorderInv, ColdInv, Holding,
         Exists, SweepDelete, SwEnds
    <3>2. CASE DropRow(swCur) /\ d = swCur
      <4>1. row[swCur] # "none" /\ (rec[swCur] = "idle" \/ fin[swCur].bad)
        BY <1>3, <3>0, <3>2 DEF TiersInv, TypeOK, RowInv, RecorderInv, Exists,
           TaskInv, SweepInv, SweepDelete
      <4>2. row'[d] = "gone" /\ ~cold'[d] /\ ~quar'[d] /\ att'[d] = 0
        BY <3>0, <3>2, DropRowEffect DEF TiersInv
      <4> QED  BY <1>3, <3>0, <3>2, <4>1, <4>2 DEF TiersInv, TypeOK, RowInv, RecorderInv, ColdInv, Holding, Exists, SweepDelete, SwEnds
    <3>3. CASE DropRow(swCur) /\ d # swCur
      <4>1. /\ row'[d] = row[d] /\ hot'[d] = hot[d] /\ att'[d] = att[d]
            /\ cold'[d] = cold[d] /\ quar'[d] = quar[d]
        BY <3>0, <3>3, DropRowEffect DEF TiersInv
      <4> QED  BY <1>3, <4>1 DEF TiersInv, TypeOK, RowInv, RecorderInv, ColdInv, Holding, Exists, SweepDelete, SwEnds
    <3> QED  BY <1>3, <3>1, <3>2, <3>3 DEF SweepDelete
  <2>3. TaskInv'
    BY <1>3 DEF TiersInv, TypeOK, TaskInv, BatchInv, InBatch, EvictInv, SweepInv,
       Exists, SweepDelete, SwEnds, DropRow
  <2>4. FilesInv'
    <3> SUFFICES ASSUME NEW d \in Clip PROVE FileInv(d)'
      BY DEF FilesInv
    <3>0. swCur \in Clip
      BY <1>3 DEF TiersInv, TaskInv, SweepInv, SweepDelete
    <3>1. CASE UNCHANGED rowVars
      BY <1>3, <3>1 DEF TiersInv, TypeOK, RowInv, RecorderInv, ColdInv, Holding,
         Exists, FilesInv, FileInv, SweepDelete, SwEnds
    <3>2. CASE DropRow(swCur) /\ d = swCur
      <4>1. row[swCur] # "none" /\ (rec[swCur] = "idle" \/ fin[swCur].bad)
        BY <1>3, <3>0, <3>2 DEF TiersInv, TypeOK, RowInv, RecorderInv, Exists,
           TaskInv, SweepInv, SweepDelete
      <4>2. row'[d] = "gone" /\ ~cold'[d] /\ ~quar'[d] /\ att'[d] = 0
        BY <3>0, <3>2, DropRowEffect DEF TiersInv
      <4> QED  BY <1>3, <3>0, <3>2, <4>1, <4>2 DEF TiersInv, TypeOK, RowInv, RecorderInv, ColdInv, Holding, Exists, FilesInv, FileInv, SweepDelete, SwEnds
    <3>3. CASE DropRow(swCur) /\ d # swCur
      <4>1. /\ row'[d] = row[d] /\ hot'[d] = hot[d] /\ att'[d] = att[d]
            /\ cold'[d] = cold[d] /\ quar'[d] = quar[d]
        BY <3>0, <3>3, DropRowEffect DEF TiersInv
      <4> QED  BY <1>3, <4>1 DEF TiersInv, FilesInv, FileInv, Exists, SweepDelete, SwEnds
    <3> QED  BY <1>3, <3>1, <3>2, <3>3 DEF SweepDelete
  <2> QED  BY <2>1, <2>2, <2>3, <2>4 DEF TiersInv
<1>4. CASE ScanKnown
  <2>1. TypeOK'
    BY <1>4, MishapType DEF TiersInv, TypeOK, Path, File, ScanKnown, SwEnds
  <2>2. RowInv'
    BY <1>4 DEF TiersInv, TypeOK, RowInv, RecorderInv, ColdInv, Holding, Exists,
       ScanKnown, SwEnds
  <2>3. TaskInv'
    BY <1>4 DEF TiersInv, TypeOK, TaskInv, BatchInv, InBatch, EvictInv, SweepInv,
       Exists, ScanKnown, SwEnds
  <2>4. FilesInv'
    <3> SUFFICES ASSUME NEW d \in Clip PROVE FileInv(d)'
      BY DEF FilesInv
    <3> QED  BY <1>4 DEF TiersInv, TypeOK, FilesInv, FileInv, Exists, ScanKnown, SwEnds
  <2> QED  BY <2>1, <2>2, <2>3, <2>4 DEF TiersInv
<1>5. CASE ScanWalk
  <2>1. TypeOK'
    BY <1>5 DEF TiersInv, TypeOK, Path, File, ScanWalk, Spared
  <2>2. RowInv'
    BY <1>5 DEF TiersInv, TypeOK, RowInv, RecorderInv, ColdInv, Holding, Exists,
       ScanWalk, Spared
  <2>3. TaskInv'
    BY <1>5 DEF TiersInv, TypeOK, TaskInv, BatchInv, InBatch, EvictInv, SweepInv,
       Exists, ScanWalk, Spared
  <2>4. FilesInv'
    <3> SUFFICES ASSUME NEW d \in Clip PROVE FileInv(d)'
      BY DEF FilesInv
    <3> QED  BY <1>5 DEF TiersInv, TypeOK, FilesInv, FileInv, Exists, ScanWalk, Spared
  <2> QED  BY <2>1, <2>2, <2>3, <2>4 DEF TiersInv
<1>6. CASE ScanReap
  <2>1. TypeOK'
    BY <1>6, MishapType, FileType DEF TiersInv, TypeOK, Path, File, ScanReap, SwEnds,
       Spared
  <2>2. RowInv'
    BY <1>6 DEF TiersInv, TypeOK, RowInv, RecorderInv, ColdInv, Holding, Exists,
       ScanReap, SwEnds, Spared, Unlink
  <2>3. TaskInv'
    BY <1>6 DEF TiersInv, TypeOK, TaskInv, BatchInv, InBatch, EvictInv, SweepInv,
       Exists, ScanReap, SwEnds, Spared, Unlink
  <2>4. FilesInv'
    <3> SUFFICES ASSUME NEW d \in Clip PROVE FileInv(d)'
      BY DEF FilesInv
    <3>0. FileInv(d)
      BY DEF TiersInv, FilesInv
    <3>1. CASE cand' \subseteq cand /\ swPc' # "walk" /\ UNCHANGED fileVars
      BY <1>6, <3>0, <3>1 DEF FileInv, Exists, ScanReap
    <3>2. ASSUME NEW f \in cand, f \notin young, cand' = cand \ {f}, swPc' = swPc, Unlink(f)
          PROVE  FileInv(d)'
      BY <1>6, <3>0, <3>2 DEF FileInv, Exists, Unlink, ScanReap
    <3> QED  BY <1>6, <3>1, <3>2 DEF ScanReap, SwEnds, Spared
  <2> QED  BY <2>1, <2>2, <2>3, <2>4 DEF TiersInv
<1> QED  BY <1>1, <1>2, <1>3, <1>4, <1>5, <1>6 DEF SweepStep

-----------------------------------------------------------------------------
(* A rehydrate job keeps it: it touches only clips with a cold copy and    *)
(* files of its own.                                                       *)
LEMMA CacheStep ==
    ASSUME TiersInv, NEW c \in Clip, JobStep(c)
    PROVE  TiersInv'
<1> USE TiersAssumption DEF TiersAssumption
<1> USE DEF rowVars, fileVars, recVars, repVars, evVars, swVars, jobVars, JobFrame,
   JobGoto
<1>1. CASE Spawn(c)
  <2>1. TypeOK'
    BY <1>1 DEF TiersInv, TypeOK, Path, File, Spawn
  <2>2. RowInv'
    BY <1>1 DEF TiersInv, TypeOK, RowInv, RecorderInv, ColdInv, Holding, Exists, Spawn
  <2>3. TaskInv'
    BY <1>1 DEF TiersInv, TypeOK, TaskInv, BatchInv, InBatch, EvictInv, SweepInv,
       Exists, Spawn
  <2>4. FilesInv'
    <3> SUFFICES ASSUME NEW d \in Clip PROVE FileInv(d)'
      BY DEF FilesInv
    <3> QED  BY <1>1 DEF TiersInv, TypeOK, FilesInv, FileInv, Exists, Spawn
  <2> QED  BY <2>1, <2>2, <2>3, <2>4 DEF TiersInv
<1>2. CASE Permit(c)
  <2>1. TypeOK'
    BY <1>2 DEF TiersInv, TypeOK, Path, File, Permit
  <2>2. RowInv'
    BY <1>2 DEF TiersInv, TypeOK, RowInv, RecorderInv, ColdInv, Holding, Exists, Permit
  <2>3. TaskInv'
    BY <1>2 DEF TiersInv, TypeOK, TaskInv, BatchInv, InBatch, EvictInv, SweepInv,
       Exists, Permit
  <2>4. FilesInv'
    <3> SUFFICES ASSUME NEW d \in Clip PROVE FileInv(d)'
      BY DEF FilesInv
    <3> QED  BY <1>2 DEF TiersInv, TypeOK, FilesInv, FileInv, Exists, Permit
  <2> QED  BY <2>1, <2>2, <2>3, <2>4 DEF TiersInv
<1>3. CASE ReadRow(c)
  <2>1. TypeOK'
    <3>1. (job \in [Clip -> {"none", "queued", "permit", "found", "loading", "verified", "partial", "renamed"}])'
      BY <1>3 DEF TiersInv, TypeOK, ReadRow
    <3>2. (faultsLeft \in Nat)'
      BY <1>3, MishapType DEF TiersInv, TypeOK, ReadRow
    <3> QED  BY <1>3, <3>1, <3>2 DEF TiersInv, TypeOK, ReadRow
  <2>2. RowInv'
    BY <1>3 DEF TiersInv, TypeOK, RowInv, RecorderInv, ColdInv, Holding, Exists, ReadRow
  <2>3. TaskInv'
    BY <1>3 DEF TiersInv, TypeOK, TaskInv, BatchInv, InBatch, EvictInv, SweepInv,
       Exists, ReadRow
  <2>4. FilesInv'
    <3> SUFFICES ASSUME NEW d \in Clip PROVE FileInv(d)'
      BY DEF FilesInv
    <3> QED  BY <1>3 DEF TiersInv, TypeOK, FilesInv, FileInv, Exists, ReadRow
  <2> QED  BY <2>1, <2>2, <2>3, <2>4 DEF TiersInv
<1>4. CASE Listen(c)
  <2>1. TypeOK'
    BY <1>4 DEF TiersInv, TypeOK, Path, File, Listen
  <2>2. RowInv'
    BY <1>4 DEF TiersInv, TypeOK, RowInv, RecorderInv, ColdInv, Holding, Exists, Listen
  <2>3. TaskInv'
    BY <1>4 DEF TiersInv, TypeOK, TaskInv, BatchInv, InBatch, EvictInv, SweepInv,
       Exists, Listen
  <2>4. FilesInv'
    <3> SUFFICES ASSUME NEW d \in Clip PROVE FileInv(d)'
      BY DEF FilesInv
    <3> QED  BY <1>4 DEF TiersInv, TypeOK, FilesInv, FileInv, Exists, Listen
  <2> QED  BY <2>1, <2>2, <2>3, <2>4 DEF TiersInv
<1>5. CASE Download(c)
  <2>1. TypeOK'
    BY <1>5 DEF TiersInv, TypeOK, Path, File, Download
  <2>2. RowInv'
    BY <1>5 DEF TiersInv, TypeOK, RowInv, RecorderInv, ColdInv, Holding, Exists, Download
  <2>3. TaskInv'
    BY <1>5 DEF TiersInv, TypeOK, TaskInv, BatchInv, InBatch, EvictInv, SweepInv,
       Exists, Download
  <2>4. FilesInv'
    <3> SUFFICES ASSUME NEW d \in Clip PROVE FileInv(d)'
      BY DEF FilesInv
    <3> QED  BY <1>5 DEF TiersInv, TypeOK, FilesInv, FileInv, Exists, Download
  <2> QED  BY <2>1, <2>2, <2>3, <2>4 DEF TiersInv
<1>6. CASE WritePartial(c)
  <2>1. TypeOK'
    <3>1. (job \in [Clip -> {"none", "queued", "permit", "found", "loading", "verified", "partial", "renamed"}])'
      BY <1>6 DEF TiersInv, TypeOK, WritePartial
    <3>2. /\ (disk \in SUBSET File)'
          /\ (young \in SUBSET disk)'
      BY <1>6, MishapType, FileType DEF TiersInv, TypeOK, WritePartial, File
    <3>3. (faultsLeft \in Nat)'
      BY <1>6, MishapType DEF TiersInv, TypeOK, WritePartial
    <3> QED  BY <1>6, <3>1, <3>2, <3>3 DEF TiersInv, TypeOK, WritePartial
  <2>2. RowInv'
    BY <1>6 DEF TiersInv, TypeOK, RowInv, RecorderInv, ColdInv, Holding, Exists,
       WritePartial, Write
  <2>3. TaskInv'
    BY <1>6 DEF TiersInv, TypeOK, TaskInv, BatchInv, InBatch, EvictInv, SweepInv,
       Exists, WritePartial, Write
  <2>4. FilesInv'
    <3> SUFFICES ASSUME NEW d \in Clip PROVE FileInv(d)'
      BY DEF FilesInv
    <3> QED  BY <1>6 DEF TiersInv, TypeOK, FilesInv, FileInv, Exists, WritePartial, Write
  <2> QED  BY <2>1, <2>2, <2>3, <2>4 DEF TiersInv
<1>7. CASE RenamePartial(c)
  <2>1. TypeOK'
    <3>1. (job \in [Clip -> {"none", "queued", "permit", "found", "loading", "verified", "partial", "renamed"}])'
      BY <1>7 DEF TiersInv, TypeOK, RenamePartial
    <3>2. /\ (disk \in SUBSET File)'
          /\ (young \in SUBSET disk)'
      BY <1>7, MishapType, FileType DEF TiersInv, TypeOK, RenamePartial, File
    <3>3. (faultsLeft \in Nat)'
      BY <1>7, MishapType DEF TiersInv, TypeOK, RenamePartial
    <3> QED  BY <1>7, <3>1, <3>2, <3>3 DEF TiersInv, TypeOK, RenamePartial
  <2>2. RowInv'
    BY <1>7 DEF TiersInv, TypeOK, RowInv, RecorderInv, ColdInv, Holding, Exists,
       RenamePartial, Rename
  <2>3. TaskInv'
    BY <1>7 DEF TiersInv, TypeOK, TaskInv, BatchInv, InBatch, EvictInv, SweepInv,
       Exists, RenamePartial, Rename
  <2>4. FilesInv'
    <3> SUFFICES ASSUME NEW d \in Clip PROVE FileInv(d)'
      BY DEF FilesInv
    <3> QED  BY <1>7 DEF TiersInv, TypeOK, FilesInv, FileInv, Exists, RenamePartial,
       Rename, RowInv, RecorderInv, ColdInv, Holding
  <2> QED  BY <2>1, <2>2, <2>3, <2>4 DEF TiersInv
<1>8. CASE repopulate_hot_pointer(c)
  <2>1. TypeOK'
    <3>1. (job \in [Clip -> {"none", "queued", "permit", "found", "loading", "verified", "partial", "renamed"}])'
      BY <1>8 DEF TiersInv, TypeOK, repopulate_hot_pointer
    <3>0. hot' = hot \/ hot' = [hot EXCEPT ![c] = "cache"]
      BY <1>8 DEF repopulate_hot_pointer
    <3>2. (hot \in [Clip -> Path])'
      BY <3>0 DEF TiersInv, TypeOK, Path
    <3>3. (faultsLeft \in Nat)'
      BY <1>8, MishapType DEF TiersInv, TypeOK, repopulate_hot_pointer
    <3> QED  BY <1>8, <3>1, <3>2, <3>3 DEF TiersInv, TypeOK, repopulate_hot_pointer
  <2>2. RowInv'
    BY <1>8 DEF TiersInv, TypeOK, RowInv, RecorderInv, ColdInv, Holding, Exists,
       repopulate_hot_pointer
  <2>3. TaskInv'
    BY <1>8 DEF TiersInv, TypeOK, TaskInv, BatchInv, InBatch, EvictInv, SweepInv,
       Exists, repopulate_hot_pointer
  <2>4. FilesInv'
    <3> SUFFICES ASSUME NEW d \in Clip PROVE FileInv(d)'
      BY DEF FilesInv
    <3> QED  BY <1>8 DEF TiersInv, TypeOK, FilesInv, FileInv, Exists,
       repopulate_hot_pointer, RowInv, RecorderInv, ColdInv, Holding, File
  <2> QED  BY <2>1, <2>2, <2>3, <2>4 DEF TiersInv
<1> QED  BY <1>1, <1>2, <1>3, <1>4, <1>5, <1>6, <1>7, <1>8 DEF JobStep

-----------------------------------------------------------------------------
(* So do the clock, the disk and a crash.                                  *)
LEMMA EnvironmentStep ==
    ASSUME TiersInv,
           \/ \E c \in Clip : AgeClip(c) \/ BackoffEnds(c)
           \/ \E f \in File : AgeFile(f)
           \/ \E l \in {"Ok", "Low", "Panic"} : SetLevel(l)
           \/ SetTarget
           \/ Crash
    PROVE  TiersInv'
<1> USE TiersAssumption DEF TiersAssumption
<1> USE DEF rowVars, fileVars, recVars, repVars, evVars, swVars, jobVars
<1>1. ASSUME NEW c \in Clip, AgeClip(c) PROVE TiersInv'
  <2>1. TypeOK'
    BY <1>1, SMTT(30) DEF TiersInv, TypeOK, AgeClip
  <2>2. RowInv'
    BY <1>1 DEF TiersInv, TypeOK, RowInv, RecorderInv, ColdInv, Holding, Exists, AgeClip
  <2>3. TaskInv'
    BY <1>1 DEF TiersInv, TypeOK, TaskInv, BatchInv, InBatch, EvictInv, SweepInv, AgeClip
  <2>4. FilesInv'
    <3> SUFFICES ASSUME NEW d \in Clip PROVE FileInv(d)'
      BY DEF FilesInv
    <3> QED  BY <1>1 DEF TiersInv, TypeOK, FilesInv, FileInv, Exists, AgeClip
  <2> QED  BY <2>1, <2>2, <2>3, <2>4 DEF TiersInv
<1>2. ASSUME NEW c \in Clip, BackoffEnds(c) PROVE TiersInv'
  <2>1. TypeOK'
    BY <1>2 DEF TiersInv, TypeOK, BackoffEnds
  <2>2. RowInv' /\ TaskInv'
    BY <1>2 DEF TiersInv, RowInv, RecorderInv, ColdInv, Holding, Exists, TaskInv, BatchInv,
       InBatch, EvictInv, SweepInv, BackoffEnds
  <2>3. FilesInv'
    <3> SUFFICES ASSUME NEW d \in Clip PROVE FileInv(d)'
      BY DEF FilesInv
    <3> QED  BY <1>2, FilesElsewhere DEF TiersInv, FilesInv, BackoffEnds
  <2> QED  BY <2>1, <2>2, <2>3 DEF TiersInv
<1>3. ASSUME NEW f \in File, AgeFile(f) PROVE TiersInv'
  <2>1. TypeOK'
    BY <1>3 DEF TiersInv, TypeOK, AgeFile
  <2>2. RowInv' /\ TaskInv'
    BY <1>3 DEF TiersInv, RowInv, RecorderInv, ColdInv, Holding, Exists, TaskInv, BatchInv,
       InBatch, EvictInv, SweepInv, AgeFile
  <2>3. FilesInv'
    <3> SUFFICES ASSUME NEW d \in Clip PROVE FileInv(d)'
      BY DEF FilesInv
    <3>1. \A p \in {"inflight", "final"} : rec[d] # "idle" => f # <<d, p>>
      BY <1>3 DEF AgeFile, Held
    <3> QED  BY <1>3, <3>1 DEF TiersInv, FilesInv, FileInv, Exists, AgeFile
  <2> QED  BY <2>1, <2>2, <2>3 DEF TiersInv
<1>4. ASSUME NEW l \in {"Ok", "Low", "Panic"}, SetLevel(l) PROVE TiersInv'
  <2>1. TypeOK'
    BY <1>4 DEF TiersInv, TypeOK, SetLevel
  <2>2. RowInv' /\ TaskInv'
    BY <1>4 DEF TiersInv, RowInv, RecorderInv, ColdInv, Holding, Exists, TaskInv, BatchInv,
       InBatch, EvictInv, SweepInv, SetLevel
  <2>3. FilesInv'
    <3> SUFFICES ASSUME NEW d \in Clip PROVE FileInv(d)'
      BY DEF FilesInv
    <3> QED  BY <1>4, FilesElsewhere DEF TiersInv, FilesInv, SetLevel
  <2> QED  BY <2>1, <2>2, <2>3 DEF TiersInv
<1>5. CASE Crash
  <2>1. TypeOK'
    BY <1>5 DEF TiersInv, TypeOK, Crash, EvDone, SwEnds, NoFin, Path
  <2>2. RowInv'
    BY <1>5 DEF TiersInv, TypeOK, RowInv, RecorderInv, ColdInv, Holding, Exists, Crash, NoFin
  <2>3. TaskInv'
    BY <1>5 DEF TiersInv, TaskInv, BatchInv, EvictInv, SweepInv, Crash, EvDone, SwEnds
  <2>4. FilesInv'
    <3> SUFFICES ASSUME NEW d \in Clip PROVE FileInv(d)'
      BY DEF FilesInv
    <3>1. rec'[d] = "idle" /\ cand' = {} /\ swPc' = "idle"
      BY <1>5 DEF Crash, SwEnds
    <3> QED  BY <1>5, <3>1 DEF TiersInv, TypeOK, RowInv, RecorderInv, FilesInv, FileInv,
       Exists, Crash
  <2> QED  BY <2>1, <2>2, <2>3, <2>4 DEF TiersInv
<1>6. CASE SetTarget
  <2>1. TypeOK'
    BY <1>6 DEF TiersInv, TypeOK, SetTarget
  <2>2. RowInv' /\ TaskInv'
    BY <1>6 DEF TiersInv, RowInv, RecorderInv, ColdInv, Holding, Exists, TaskInv, BatchInv,
       InBatch, EvictInv, SweepInv, SetTarget
  <2>3. FilesInv'
    <3> SUFFICES ASSUME NEW d \in Clip PROVE FileInv(d)'
      BY DEF FilesInv
    <3> QED  BY <1>6, FilesElsewhere DEF TiersInv, FilesInv, SetTarget
  <2> QED  BY <2>1, <2>2, <2>3 DEF TiersInv
<1> QED  BY <1>1, <1>2, <1>3, <1>4, <1>5, <1>6

-----------------------------------------------------------------------------
(* The invariant holds in every reachable state, whatever the interleaving *)
(* of the five tasks and wherever they fail or die.                        *)
THEOREM TiersInvariant == Spec => []TiersInv
<1>1. Init => TiersInv
  <2> SUFFICES ASSUME Init PROVE TiersInv
    OBVIOUS
  <2>1. TypeOK
    BY TiersAssumption DEF TiersAssumption, Init, TypeOK, Path, NoFin
  <2>2. RowInv /\ TaskInv /\ FilesInv
    BY TiersAssumption DEF TiersAssumption, Init, NoFin, RowInv, RecorderInv, ColdInv,
       Holding, Exists, TaskInv, BatchInv, EvictInv, SweepInv, FilesInv, FileInv
  <2> QED  BY <2>1, <2>2 DEF TiersInv
<1>2. TiersInv /\ [Next]_vars => TiersInv'
  <2> SUFFICES ASSUME TiersInv, [Next]_vars PROVE TiersInv'
    OBVIOUS
  <2>1. CASE UNCHANGED vars
    <3>1. TypeOK' /\ RowInv' /\ TaskInv'
      BY <2>1 DEF TiersInv, TypeOK, RowInv, RecorderInv, ColdInv, Holding, Exists, TaskInv,
         BatchInv, InBatch, EvictInv, SweepInv, vars, rowVars, fileVars, recVars, repVars,
         evVars, swVars, jobVars
    <3>2. ASSUME NEW d \in Clip PROVE FileInv(d)'
      BY <2>1, FilesElsewhere DEF TiersInv, FilesInv, vars, rowVars, fileVars, recVars, swVars
    <3> QED  BY <3>1, <3>2 DEF TiersInv, FilesInv
  <2>2. CASE Next
    BY <2>2, RecorderStep, ReplicatorStep, EvictorStep, SweeperStep, CacheStep,
       EnvironmentStep DEF Next
  <2> QED  BY <2>1, <2>2
<1> QED  BY <1>1, <1>2, PTL DEF Spec

(* The five tasks keep their types: rows, files, batches and jobs stay in  *)
(* their ranges, and no clip costs more upload attempts than its budget.   *)
THEOREM TiersTypes == Spec => []TypeOK
<1>1. TiersInv => TypeOK
  BY DEF TiersInv
<1> QED  BY <1>1, TiersInvariant, PTL

(* No eviction, upload, scan or rehydrate drops the last copy of a closed  *)
(* clip inside the retention horizon; a cold pointer in a row is backed by *)
(* a complete object, and is never on a row tier 3 may delete unasked.     *)
THEOREM FootageKept == Spec => []FootageSurvives
<1>1. TiersInv => ColdIsReal
  BY DEF TiersInv, RowInv, ColdInv, ColdIsReal
<1>2. TiersInv => FootageSurvives
  BY <1>1 DEF TiersInv, TypeOK, RowInv, ColdInv, FilesInv, FileInv, FootageSurvives, HotCopy, ColdCopy
<1> QED  BY <1>2, TiersInvariant, PTL

(* The row of a clip in the recorder's hands is not deleted under it,      *)
(* unless close() has found the file damaged.                              *)
THEOREM RecorderOwnsRow == Spec => []RecorderKeepsRow
<1>1. TiersInv => RecorderKeepsRow
  BY DEF TiersInv, RowInv, RecorderInv, RecorderKeepsRow, Holding
<1> QED  BY <1>1, TiersInvariant, PTL
=============================================================================
