------------------------- MODULE ClipFootageProofs -------------------------
(***************************************************************************)
(* ClipTiers implements ClipFootage, for any set of clips and any number   *)
(* of failures and crashes; and, as long as there is none of either, rows  *)
(* and files agree: no row is left without its file, and no file without   *)
(* its row.                                                                *)
(***************************************************************************)
EXTENDS ClipTiersProofs

-----------------------------------------------------------------------------
(* The refinement mapping                                                  *)

Readable(c) ==
    IF row[c] = "closed"
    THEN {t \in {"hot", "cold"} : IF t = "hot" THEN HotCopy(c) ELSE ColdCopy(c)}
    ELSE {}

Kept == {c \in Clip : row[c] = "closed"}
Deleted == {c \in Clip : row[c] = "gone"}
Copies == [c \in Clip |-> Readable(c)]
Expired == {c \in Clip : age[c] = 2}

(* The step is invisible for clip d.                                       *)
Same(d) ==
    /\ row'[d] = "closed" <=> row[d] = "closed"
    /\ row'[d] = "gone" <=> row[d] = "gone"
    /\ age'[d] = 2 <=> age[d] = 2
    /\ row[d] = "closed" => (HotCopy(d)' <=> HotCopy(d)) /\ (ColdCopy(d)' <=> ColdCopy(d))

(* It is invisible for every clip but c.                                   *)
SameBut(c) == \A d \in Clip \ {c} : Same(d)

LEMMA SameReadable ==
    ASSUME NEW d \in Clip, Same(d)
    PROVE  Readable(d)' = Readable(d)
<1>1. CASE row[d] = "closed"
  <2>1. row'[d] = "closed" /\ (HotCopy(d)' <=> HotCopy(d)) /\ (ColdCopy(d)' <=> ColdCopy(d))
    BY <1>1 DEF Same
  <2> QED  BY <1>1, <2>1 DEF Readable, HotCopy, ColdCopy
<1>2. CASE row[d] # "closed"
  BY <1>2 DEF Readable, Same
<1> QED  BY <1>1, <1>2

(* The copies of one clip change to S.                                     *)
LEMMA CopiesBut ==
    ASSUME NEW c \in Clip, SameBut(c), NEW S, Readable(c)' = S
    PROVE  Copies' = [Copies EXCEPT ![c] = S]
<1>1. \A d \in Clip \ {c} : Readable(d)' = Readable(d)
  BY SameReadable DEF SameBut
<1> QED  BY <1>1 DEF Copies

LEMMA SetsBut ==
    ASSUME NEW c \in Clip, SameBut(c)
    PROVE  /\ Kept' \ {c} = Kept \ {c} /\ (c \in Kept' <=> row'[c] = "closed")
           /\ Deleted' \ {c} = Deleted \ {c} /\ (c \in Deleted' <=> row'[c] = "gone")
           /\ Expired' \ {c} = Expired \ {c} /\ (c \in Expired' <=> age'[c] = 2)
           /\ c \in Kept <=> row[c] = "closed"
           /\ c \in Deleted <=> row[c] = "gone"
           /\ c \in Expired <=> age[c] = 2
BY DEF SameBut, Same, Kept, Deleted, Expired

LEMMA MapStutter ==
    ASSUME \A d \in Clip : Same(d)
    PROVE  UNCHANGED Footage!fvars
<1>1. Kept' = Kept /\ Deleted' = Deleted /\ Expired' = Expired
  BY DEF Same, Kept, Deleted, Expired
<1>2. Copies' = Copies
  BY SameReadable DEF Copies
<1> QED  BY <1>1, <1>2 DEF Footage!fvars, Kept, Deleted, Expired, Copies, Readable

LEMMA MapKeep ==
    ASSUME NEW c \in Clip, SameBut(c),
           row[c] \notin {"closed", "gone"}, row'[c] = "closed", age'[c] = age[c],
           HotCopy(c)', ~ColdCopy(c)'
    PROVE  Footage!Keep(c)
<1>1. Copies' = [Copies EXCEPT ![c] = {"hot"}]
  <2>1. Readable(c)' = {"hot"}
    BY DEF Readable
  <2> QED  BY <2>1, CopiesBut
<1>2. c \notin Kept \cup Deleted /\ Kept' = Kept \cup {c} /\ Deleted' = Deleted /\ Expired' = Expired
  BY SetsBut
<1> QED  BY <1>1, <1>2 DEF Footage!Keep, Kept, Deleted, Expired, Copies, Readable

(* Only the copies of c change.                                            *)
OnlyCopies(c) ==
    SameBut(c) /\ row[c] = "closed" /\ row'[c] = "closed" /\ age'[c] = age[c]

LEMMA MapCopy ==
    ASSUME NEW c \in Clip, OnlyCopies(c), NEW t \in {"hot", "cold"},
           HotCopy(c) \/ ColdCopy(c) \/ age[c] = 2,
           HotCopy(c)' <=> (HotCopy(c) \/ t = "hot"),
           ColdCopy(c)' <=> (ColdCopy(c) \/ t = "cold")
    PROVE  Footage!Copy(c, t)
<1>1. Readable(c)' = Copies[c] \cup {t}
  BY DEF Readable, Copies, OnlyCopies, HotCopy, ColdCopy
<1>2. Copies' = [Copies EXCEPT ![c] = @ \cup {t}]
  BY <1>1, CopiesBut DEF OnlyCopies
<1>3. c \in Kept /\ UNCHANGED <<Kept, Deleted, Expired>>
  BY SetsBut DEF OnlyCopies
<1>4. Copies[c] # {} \/ c \in Expired
  BY DEF Readable, Copies, OnlyCopies, Expired, HotCopy, ColdCopy
<1> QED  BY <1>2, <1>3, <1>4 DEF Footage!Copy, Kept, Deleted, Expired, Copies, Readable

LEMMA MapDrop ==
    ASSUME NEW c \in Clip, OnlyCopies(c),
           ColdCopy(c) \/ age[c] = 2,
           ~HotCopy(c)', ColdCopy(c)' <=> ColdCopy(c)
    PROVE  Footage!Drop(c)
<1>1. Readable(c)' = Copies[c] \ {"hot"}
  BY DEF Readable, Copies, OnlyCopies, HotCopy, ColdCopy
<1>2. Copies' = [Copies EXCEPT ![c] = @ \ {"hot"}]
  BY <1>1, CopiesBut DEF OnlyCopies
<1>3. c \in Kept /\ UNCHANGED <<Kept, Deleted, Expired>>
  BY SetsBut DEF OnlyCopies
<1>4. "cold" \in Copies[c] \/ c \in Expired
  BY DEF Readable, Copies, OnlyCopies, Expired, ColdCopy
<1> QED  BY <1>2, <1>3, <1>4 DEF Footage!Drop, Kept, Deleted, Expired, Copies, Readable

LEMMA MapDelete ==
    ASSUME NEW c \in Clip, SameBut(c),
           row[c] # "gone", row'[c] = "gone", age'[c] = age[c]
    PROVE  Footage!Delete(c)
<1>1. Copies' = [Copies EXCEPT ![c] = {}]
  <2>1. Readable(c)' = {}
    BY DEF Readable
  <2> QED  BY <2>1, CopiesBut
<1>2. c \notin Deleted /\ Kept' = Kept \ {c} /\ Deleted' = Deleted \cup {c} /\ Expired' = Expired
  BY SetsBut
<1> QED  BY <1>1, <1>2 DEF Footage!Delete, Kept, Deleted, Expired, Copies, Readable

LEMMA MapExpire ==
    ASSUME NEW c \in Clip, SameBut(c),
           row'[c] = row[c], age'[c] = 2, HotCopy(c)' <=> HotCopy(c), ColdCopy(c)' <=> ColdCopy(c)
    PROVE  Footage!Expire(c)
<1>1. \A d \in Clip : Readable(d)' = Readable(d)
  <2>1. Readable(c)' = Readable(c)
    BY DEF Readable, HotCopy, ColdCopy
  <2> QED  BY <2>1, SameReadable DEF SameBut
<1>2. Copies' = Copies
  BY <1>1 DEF Copies
<1>3. Kept' = Kept /\ Deleted' = Deleted /\ Expired' = Expired \cup {c}
  BY SetsBut
<1> QED  BY <1>2, <1>3 DEF Footage!Expire, Kept, Deleted, Expired, Copies, Readable

-----------------------------------------------------------------------------
(* Every step maps to a step of ClipFootage                                *)

Mapped == Footage!FNext \/ UNCHANGED Footage!fvars

LEMMA MappedBy ==
    ASSUME NEW c \in Clip,
           \/ \A d \in Clip : Same(d)
           \/ Footage!Keep(c) \/ Footage!Drop(c) \/ Footage!Delete(c) \/ Footage!Expire(c)
           \/ \E t \in {"hot", "cold"} : Footage!Copy(c, t)
    PROVE  Mapped
BY MapStutter DEF Mapped, Footage!FNext

(* A clip is untouched when its row and the file it names are.             *)
LEMMA Untouched ==
    ASSUME NEW d \in Clip,
           row'[d] = row[d], age'[d] = age[d],
           row[d] = "closed" =>
              /\ hot'[d] = hot[d] /\ cold'[d] = cold[d]
              /\ <<d, hot[d]>> \in disk' <=> <<d, hot[d]>> \in disk
              /\ cold[d] => (d \in object' <=> d \in object)
    PROVE  Same(d)
BY DEF Same, HotCopy, ColdCopy

(* A step that works on the files of c does not touch the others.          *)
LEMMA ElseUntouched ==
    ASSUME NEW c \in Clip,
           \A d \in Clip \ {c} :
              /\ row'[d] = row[d] /\ age'[d] = age[d] /\ hot'[d] = hot[d] /\ cold'[d] = cold[d]
              /\ \A p : <<d, p>> \in disk' <=> <<d, p>> \in disk
              /\ cold[d] => (d \in object' <=> d \in object)
    PROVE  SameBut(c)
BY Untouched DEF SameBut

(* No file has the name of a pointer that is not set, nor does a row name  *)
(* a partial.                                                              *)
LEMMA NoSuchFile ==
    ASSUME TypeOK, NEW c \in Clip
    PROVE  <<c, "null">> \notin disk /\ hot[c] # "partial"
BY DEF TypeOK, File, Path

(* Inside the horizon a finished clip without a cold copy has the file its *)
(* row names, which no scan has on its list.                               *)
LEMMA LastCopy ==
    ASSUME TiersInv, NEW c \in Clip, row[c] = "closed", ~cold[c], age[c] # 2
    PROVE  hot[c] \in {"inflight", "final"} /\ <<c, hot[c]>> \in disk \ cand
<1>1. FileInv(c) /\ age[c] \in 0..2
  BY DEF TiersInv, FilesInv, TypeOK
<1> QED  BY <1>1 DEF FileInv

LEMMA RecorderMaps ==
    ASSUME TiersInv, NEW c \in Clip, RecStep(c)
    PROVE  Mapped
<1> USE DEF rowVars, fileVars, recVars, repVars, evVars, swVars, jobVars, RecFrame
<1>0. TypeOK /\ RecorderInv(c) /\ ColdInv(c) /\ FileInv(c)
  BY DEF TiersInv, RowInv, FilesInv
<1>1. CASE OpenFile(c)
  <2>1. SameBut(c)
    BY <1>1, ElseUntouched DEF OpenFile, Write
  <2>2. Same(c)
    BY <1>1, Untouched DEF OpenFile
  <2> QED  BY <2>1, <2>2, MappedBy DEF SameBut
<1>2. CASE open_clip(c)
  <2>1. SameBut(c)
    BY <1>0, <1>2, ElseUntouched DEF open_clip, Unlink, TypeOK
  <2>2. row[c] = "none" /\ row'[c] \in {"none", "open"} /\ age' = age
    BY <1>0, <1>2 DEF open_clip, RecorderInv, TypeOK
  <2>3. Same(c)
    BY <2>2 DEF Same
  <2> QED  BY <2>1, <2>3, MappedBy DEF SameBut
<1>3. CASE CloseDiscards(c)
  <2>1. SameBut(c)
    BY <1>3, ElseUntouched DEF CloseDiscards, Unlink
  <2>2. row[c] = "open" /\ row' = row /\ age' = age
    BY <1>0, <1>3 DEF CloseDiscards, RecorderInv, Holding
  <2>3. Same(c)
    BY <2>2 DEF Same
  <2> QED  BY <2>1, <2>3, MappedBy DEF SameBut
<1>4. CASE discard_clip_metadata(c)
  <2>1. SameBut(c)
    BY <1>0, <1>4, ElseUntouched, DropRowEffect DEF discard_clip_metadata
  <2>2. row[c] = "open" /\ age' = age
    BY <1>0, <1>4 DEF discard_clip_metadata, RecorderInv, Holding
  <2>3. CASE DropRow(c)
    BY <1>0, <2>1, <2>2, <2>3, DropRowEffect, MapDelete, MappedBy
  <2>4. CASE UNCHANGED rowVars
    <3>1. Same(c)
      BY <2>2, <2>4 DEF Same
    <3> QED  BY <2>1, <3>1, MappedBy DEF SameBut
  <2> QED  BY <1>4, <2>3, <2>4 DEF discard_clip_metadata
<1>5. CASE CloseRenames(c)
  <2>1. disk' \in {disk, (disk \ {<<c, "inflight">>}) \cup {<<c, "final">>}}
    BY <1>5 DEF CloseRenames, Rename
  <2>2. SameBut(c)
    BY <1>5, <2>1, ElseUntouched DEF CloseRenames
  <2>3. row[c] = "open" /\ row' = row /\ age' = age
    BY <1>0, <1>5 DEF CloseRenames, RecorderInv, Holding
  <2>4. Same(c)
    BY <2>3 DEF Same
  <2> QED  BY <2>2, <2>4, MappedBy DEF SameBut
<1>6. CASE QuarantineDamaged(c)
  <2>1. \A d \in Clip : Same(d)
    BY <1>6, Untouched DEF QuarantineDamaged
  <2> QED  BY <2>1, MappedBy
<1>7. CASE close_clip(c)
  <2>1. SameBut(c)
    BY <1>0, <1>7, ElseUntouched DEF close_clip, TypeOK
  <2>2. row[c] # "closed" /\ age' = age /\ ~cold[c]
    BY <1>0, <1>7 DEF close_clip, RecorderInv, ColdInv
  <2>3. CASE UNCHANGED rowVars
    <3>1. Same(c)
      BY <2>2, <2>3 DEF Same
    <3> QED  BY <2>1, <3>1, MappedBy DEF SameBut
  <2>4. CASE ~UNCHANGED rowVars
    <3>1. /\ Exists(c) /\ row'[c] = "closed" /\ hot'[c] = fin[c].path
          /\ cold' = cold /\ disk' = disk
      BY <1>0, <1>7, <2>4 DEF close_clip, TypeOK
    <3>2. row[c] = "open" /\ <<c, hot'[c]>> \in disk
      BY <1>0, <1>7, <2>2, <3>1 DEF close_clip, FileInv, Exists
    <3>3. HotCopy(c)' /\ ~ColdCopy(c)'
      BY <2>2, <3>1, <3>2 DEF HotCopy, ColdCopy
    <3> QED  BY <2>1, <2>2, <3>1, <3>2, <3>3, MapKeep, MappedBy
  <2> QED  BY <2>3, <2>4
<1> QED  BY <1>1, <1>2, <1>3, <1>4, <1>5, <1>6, <1>7 DEF RecStep

LEMMA ReplicatorMaps ==
    ASSUME TiersInv, RepStep
    PROVE  Mapped
<1> USE DEF rowVars, fileVars, recVars, repVars, evVars, swVars, jobVars, RepFrame, RepGoto
<1>0. TypeOK
  BY DEF TiersInv
<1>1. CASE RepTick \/ RepNext \/ RepExists \/ RepRead \/ record_cold_upload_failure
  <2>1. UNCHANGED <<row, hot, cold, age, disk, object>>
    BY <1>1 DEF RepTick, RepNext, RepExists, RepRead, record_cold_upload_failure
  <2>2. \A d \in Clip : Same(d)
    BY <2>1, Untouched
  <2> QED  BY <2>2, MapStutter DEF Mapped
<1>2. CASE RepPut
  <2>1. repCur \in Clip /\ ~cold[repCur]
    BY <1>2 DEF TiersInv, TaskInv, BatchInv, InBatch, RepPut
  <2>2. UNCHANGED <<row, hot, cold, age, disk>> /\ object' \in {object, object \cup {repCur}}
    BY <1>2 DEF RepPut
  <2>3. \A d \in Clip : Same(d)
    BY <2>1, <2>2, Untouched
  <2> QED  BY <2>3, MapStutter DEF Mapped
<1>3. CASE mark_cold_replicated
  <2>1. PICK c \in Clip : c = repCur
    BY <1>3 DEF TiersInv, TaskInv, BatchInv, mark_cold_replicated
  <2>2. c \in object /\ row[c] \in {"closed", "gone"} /\ ~cold[c]
    BY <1>3, <2>1 DEF TiersInv, TaskInv, BatchInv, InBatch, mark_cold_replicated
  <2>3. UNCHANGED <<row, hot, age, disk, object>>
    BY <1>3 DEF mark_cold_replicated
  <2>4. CASE UNCHANGED cold
    BY <2>3, <2>4, Untouched, MapStutter DEF Mapped
  <2>5. CASE Exists(c) /\ cold' = [cold EXCEPT ![c] = TRUE]
    <3>1. SameBut(c)
      BY <1>0, <2>3, <2>5, ElseUntouched DEF TypeOK
    <3>2. row[c] = "closed" /\ cold'[c]
      BY <1>0, <2>2, <2>5 DEF Exists, TypeOK
    <3>3. OnlyCopies(c)
      BY <2>3, <3>1, <3>2 DEF OnlyCopies
    <3>4. HotCopy(c) \/ age[c] = 2
      BY <1>0, <2>2, <3>2, LastCopy DEF HotCopy
    <3>5. (HotCopy(c)' <=> HotCopy(c)) /\ ColdCopy(c)'
      BY <2>2, <2>3, <3>2 DEF HotCopy, ColdCopy
    <3>6. Footage!Copy(c, "cold")
      BY <3>3, <3>4, <3>5, MapCopy
    <3> QED  BY <3>6, MappedBy
  <2> QED  BY <1>3, <2>1, <2>4, <2>5 DEF mark_cold_replicated
<1> QED  BY <1>1, <1>2, <1>3 DEF RepStep

(* A file of a clip that has a cold copy, or is past the horizon, may go.  *)
LEMMA UnlinkMaps ==
    ASSUME TiersInv, NEW c \in Clip, NEW p,
           row[c] = "closed" /\ <<c, p>> = <<c, hot[c]>> => cold[c] \/ age[c] = 2,
           disk' = disk \ {<<c, p>>}, UNCHANGED <<row, hot, cold, age, object>>
    PROVE  Mapped
<1>1. SameBut(c)
  BY ElseUntouched
<1>2. CASE row[c] = "closed" /\ p = hot[c]
  <2>1. OnlyCopies(c) /\ ~HotCopy(c)' /\ (ColdCopy(c)' <=> ColdCopy(c))
    BY <1>1, <1>2 DEF OnlyCopies, HotCopy, ColdCopy
  <2>2. ColdCopy(c) \/ age[c] = 2
    BY <1>2 DEF TiersInv, RowInv, ColdInv, ColdCopy
  <2> QED  BY <2>1, <2>2, MapDrop, MappedBy
<1>3. CASE row[c] # "closed" \/ p # hot[c]
  <2>1. Same(c)
    BY <1>3, Untouched
  <2> QED  BY <1>1, <2>1, MappedBy DEF SameBut
<1> QED  BY <1>2, <1>3

LEMMA DropRowMaps ==
    ASSUME TypeOK, NEW c \in Clip, Exists(c), DropRow(c), UNCHANGED <<age, disk, object>>
    PROVE  Mapped
<1>1. SameBut(c)
  BY DropRowEffect, ElseUntouched
<1>2. row[c] # "gone" /\ row'[c] = "gone"
  BY DropRowEffect DEF Exists
<1> QED  BY <1>1, <1>2, MapDelete, MappedBy

LEMMA EvictorMaps ==
    ASSUME TiersInv, EvictStep
    PROVE  Mapped
<1> USE DEF rowVars, fileVars, recVars, repVars, evVars, swVars, jobVars, EvFrame, EvGoto, EvDone
<1>0. TypeOK /\ EvictInv
  BY DEF TiersInv, TaskInv
<1>1. CASE UNCHANGED <<row, hot, cold, age, disk, object>>
  BY <1>1, Untouched, MapStutter DEF Mapped
<1>2. CASE SoftUnlink
  <2>1. evClip \in Clip /\ (cold[evClip] \/ row[evClip] = "gone")
    BY <1>0, <1>2 DEF EvictInv, SoftUnlink
  <2>2. UNCHANGED <<row, hot, cold, age, object>> /\ disk' \in {disk, disk \ {<<evClip, evPath>>}}
    BY <1>2 DEF SoftUnlink, Unlink
  <2> QED  BY <1>1, <2>1, <2>2, UnlinkMaps
<1>3. CASE clear_hot_pointer
  <2>1. PICK c \in Clip : c = evClip
    BY <1>0, <1>3 DEF EvictInv, clear_hot_pointer
  <2>2. UNCHANGED <<row, cold, age, disk, object>>
    BY <1>3 DEF clear_hot_pointer
  <2>3. CASE hot' = hot
    BY <1>1, <2>2, <2>3
  <2>4. CASE cold[c] /\ hot' = [hot EXCEPT ![c] = "null"]
    <3>1. SameBut(c)
      BY <1>0, <2>2, <2>4, ElseUntouched DEF TypeOK
    <3>2. row[c] = "closed" /\ ColdCopy(c)
      BY <2>4 DEF TiersInv, RowInv, ColdInv, ColdCopy
    <3>3. hot'[c] = "null"
      BY <1>0, <2>4 DEF TypeOK
    <3>4. ~HotCopy(c)' /\ (ColdCopy(c)' <=> ColdCopy(c))
      BY <1>0, <2>2, <3>3, NoSuchFile DEF HotCopy, ColdCopy
    <3>5. OnlyCopies(c)
      BY <2>2, <3>1, <3>2 DEF OnlyCopies
    <3> QED  BY <3>2, <3>4, <3>5, MapDrop, MappedBy
  <2> QED  BY <1>3, <2>1, <2>3, <2>4 DEF clear_hot_pointer
<1>4. CASE HardDelete
  <2>1. evClip \in Clip /\ UNCHANGED <<age, disk, object>>
    BY <1>0, <1>4 DEF EvictInv, HardDelete
  <2>2. UNCHANGED rowVars \/ (Exists(evClip) /\ DropRow(evClip))
    BY <1>4 DEF HardDelete
  <2>3. CASE UNCHANGED rowVars
    BY <1>1, <2>1, <2>3
  <2> QED  BY <1>0, <2>1, <2>2, <2>3, DropRowMaps
<1>5. CASE HardUnlink
  <2>1. evClip \in Clip /\ row[evClip] = "gone"
    BY <1>0, <1>5 DEF EvictInv, HardUnlink
  <2>2. UNCHANGED <<row, hot, cold, age, object>> /\ disk' \in {disk, disk \ {<<evClip, evPath>>}}
    BY <1>5 DEF HardUnlink, Unlink
  <2> QED  BY <1>1, <2>1, <2>2, UnlinkMaps
<1>6. CASE EvictFind
  BY <1>1, <1>6 DEF EvictFind
<1> QED  BY <1>2, <1>3, <1>4, <1>5, <1>6 DEF EvictStep

LEMMA SweeperMaps ==
    ASSUME TiersInv, SweepStep
    PROVE  Mapped
<1> USE DEF rowVars, fileVars, recVars, repVars, evVars, swVars, jobVars, SwFrame, SwEnds
<1>0. TypeOK /\ SweepInv
  BY DEF TiersInv, TaskInv
<1>1. CASE UNCHANGED <<row, hot, cold, age, disk, object>>
  BY <1>1, Untouched, MapStutter DEF Mapped
<1>2. CASE SweepUnlink
  <2>1. UNCHANGED <<row, hot, cold, age, object>>
    BY <1>2 DEF SweepUnlink
  <2>2. \/ disk' = disk
        \/ \E c \in swTodo : disk' = disk \ {<<c, swPath[c]>>}
    BY <1>2 DEF SweepUnlink, Unlink
  <2>3. \A c \in swTodo : c \in Clip /\ age[c] = 2
    BY <1>0 DEF SweepInv, TypeOK
  <2> QED  BY <1>1, <2>1, <2>2, <2>3, UnlinkMaps
<1>3. CASE SweepDelete
  <2>1. swCur \in Clip /\ UNCHANGED <<age, disk, object>>
    BY <1>0, <1>3 DEF SweepInv, SweepDelete
  <2>2. UNCHANGED rowVars \/ (Exists(swCur) /\ DropRow(swCur))
    BY <1>3 DEF SweepDelete
  <2>3. CASE UNCHANGED rowVars
    BY <1>1, <2>1, <2>3
  <2> QED  BY <1>0, <2>1, <2>2, <2>3, DropRowMaps
<1>4. CASE ScanReap
  <2>1. UNCHANGED <<row, hot, cold, age, object>>
    BY <1>4 DEF ScanReap
  <2>2. disk' = disk \/ \E f \in cand : disk' = disk \ {f}
    BY <1>4 DEF ScanReap, Unlink
  <2>3. ASSUME NEW f \in cand, disk' = disk \ {f} PROVE Mapped
    <3>1. PICK c \in Clip, p \in {"inflight", "final", "cache", "partial"} : f = <<c, p>>
      BY <1>0 DEF TypeOK, File
    <3>2. row[c] = "closed" /\ p = hot[c] => cold[c] \/ age[c] = 2
      BY <2>3, <3>1, LastCopy
    <3> QED  BY <2>1, <2>3, <3>1, <3>2, UnlinkMaps
  <2> QED  BY <1>1, <2>1, <2>2, <2>3
<1>5. CASE SweepList \/ ScanKnown \/ ScanWalk
  BY <1>1, <1>5 DEF SweepList, ScanKnown, ScanWalk
<1> QED  BY <1>2, <1>3, <1>4, <1>5 DEF SweepStep

LEMMA CacheMaps ==
    ASSUME TiersInv, NEW c \in Clip, JobStep(c)
    PROVE  Mapped
<1> USE DEF rowVars, fileVars, recVars, repVars, evVars, swVars, jobVars, JobFrame, JobGoto
<1>0. TypeOK /\ ColdInv(c) /\ FileInv(c)
  BY DEF TiersInv, RowInv, FilesInv
<1>1. CASE UNCHANGED <<row, hot, cold, age, disk, object>>
  BY <1>1, Untouched, MapStutter DEF Mapped
<1>2. CASE Spawn(c) \/ Permit(c) \/ ReadRow(c) \/ Listen(c) \/ Download(c)
  BY <1>1, <1>2 DEF Spawn, Permit, ReadRow, Listen, Download
<1>3. CASE WritePartial(c)
  <2>1. UNCHANGED <<row, hot, cold, age, object>> /\ disk' = disk \cup {<<c, "partial">>}
    BY <1>3 DEF WritePartial, Write
  <2>2. \A d \in Clip : Same(d)
    BY <1>0, <2>1, Untouched, NoSuchFile
  <2> QED  BY <2>2, MapStutter DEF Mapped
(* A clip whose pointer is unset or names the cache has a cold copy, or is *)
(* past the horizon.                                                       *)
<1>4. row[c] = "closed" /\ hot[c] \in {"null", "cache"} => ColdCopy(c) \/ age[c] = 2
  BY <1>0, LastCopy DEF ColdInv, ColdCopy
<1>5. CASE RenamePartial(c)
  <2>1. UNCHANGED <<row, hot, cold, age, object>>
    BY <1>5 DEF RenamePartial
  <2>2. CASE disk' = (disk \ {<<c, "partial">>}) \cup {<<c, "cache">>}
    <3>1. SameBut(c)
      BY <2>1, <2>2, ElseUntouched
    <3>2. CASE row[c] = "closed" /\ hot[c] = "cache"
      <4>1. OnlyCopies(c) /\ HotCopy(c)' /\ (ColdCopy(c)' <=> ColdCopy(c))
        BY <2>1, <2>2, <3>1, <3>2 DEF OnlyCopies, HotCopy, ColdCopy
      <4>2. Footage!Copy(c, "hot")
        BY <1>4, <3>2, <4>1, MapCopy
      <4> QED  BY <4>2, MappedBy
    <3>3. CASE row[c] # "closed" \/ hot[c] # "cache"
      <4>1. Same(c)
        BY <1>0, <2>1, <2>2, <3>3, Untouched, NoSuchFile
      <4> QED  BY <3>1, <4>1, MappedBy DEF SameBut
    <3> QED  BY <3>2, <3>3
  <2> QED  BY <1>1, <1>5, <2>1, <2>2 DEF RenamePartial, Rename
<1>6. CASE repopulate_hot_pointer(c)
  <2>1. UNCHANGED <<row, cold, age, disk, object>>
    BY <1>6 DEF repopulate_hot_pointer
  <2>2. CASE hot' = hot
    BY <1>1, <2>1, <2>2
  <2>3. CASE hot[c] = "null" /\ hot' = [hot EXCEPT ![c] = "cache"]
    <3>1. SameBut(c)
      BY <1>0, <2>1, <2>3, ElseUntouched DEF TypeOK
    <3>2. hot'[c] = "cache" /\ ~HotCopy(c)
      BY <1>0, <2>3, NoSuchFile DEF TypeOK, HotCopy
    <3>3. CASE row[c] = "closed" /\ <<c, "cache">> \in disk
      <4>1. OnlyCopies(c) /\ HotCopy(c)' /\ (ColdCopy(c)' <=> ColdCopy(c))
        BY <2>1, <3>1, <3>2, <3>3 DEF OnlyCopies, HotCopy, ColdCopy
      <4>2. Footage!Copy(c, "hot")
        BY <1>4, <2>3, <3>3, <4>1, MapCopy
      <4> QED  BY <4>2, MappedBy
    <3>4. CASE row[c] # "closed" \/ <<c, "cache">> \notin disk
      <4>1. Same(c)
        BY <2>1, <3>2, <3>4 DEF Same, HotCopy, ColdCopy
      <4> QED  BY <3>1, <4>1, MappedBy DEF SameBut
    <3> QED  BY <3>3, <3>4
  <2> QED  BY <1>6, <2>2, <2>3 DEF repopulate_hot_pointer
<1> QED  BY <1>2, <1>3, <1>5, <1>6 DEF JobStep

LEMMA NextMaps ==
    ASSUME TiersInv, [Next]_vars
    PROVE  [Footage!FNext]_(Footage!fvars)
<1> USE DEF rowVars, fileVars, recVars, repVars, evVars, swVars, jobVars
<1>0. TypeOK
  BY DEF TiersInv
<1>1. CASE UNCHANGED <<row, hot, cold, age, disk, object>>
  BY <1>1, Untouched, MapStutter DEF Mapped
<1>2. ASSUME NEW c \in Clip, AgeClip(c) PROVE Mapped
  <2>1. UNCHANGED <<row, hot, cold, disk, object>> /\ age' = [age EXCEPT ![c] = @ + 1] /\ age[c] < 2
    BY <1>2 DEF AgeClip
  <2>2. SameBut(c)
    BY <1>0, <2>1, ElseUntouched DEF TypeOK
  <2>3. (HotCopy(c)' <=> HotCopy(c)) /\ (ColdCopy(c)' <=> ColdCopy(c))
    BY <2>1 DEF HotCopy, ColdCopy
  <2>4. CASE age'[c] = 2
    BY <2>1, <2>2, <2>3, <2>4, MapExpire, MappedBy
  <2>5. CASE age'[c] # 2
    <3>1. Same(c)
      BY <1>0, <2>1, <2>3, <2>5 DEF Same, TypeOK
    <3> QED  BY <2>2, <3>1, MappedBy DEF SameBut
  <2> QED  BY <2>4, <2>5
<1>3. ASSUME NEW c \in Clip, BackoffEnds(c) PROVE Mapped
  BY <1>1, <1>3 DEF BackoffEnds, Mapped
<1>4. ASSUME NEW f \in File, AgeFile(f) PROVE Mapped
  BY <1>1, <1>4 DEF AgeFile, Mapped
<1>5. ASSUME NEW l \in {"Ok", "Low", "Panic"}, SetLevel(l) PROVE Mapped
  BY <1>1, <1>5 DEF SetLevel, Mapped
<1>6. CASE Crash
  BY <1>1, <1>6 DEF Crash
<1>8. CASE SetTarget
  BY <1>1, <1>8 DEF SetTarget
<1>7. CASE UNCHANGED vars
  BY <1>1, <1>7 DEF vars
<1> QED
  BY <1>2, <1>3, <1>4, <1>5, <1>6, <1>7, <1>8, RecorderMaps, ReplicatorMaps, EvictorMaps, SweeperMaps,
     CacheMaps DEF Next, Mapped

(* Recorder, replicator, evictor, sweep and cache implement ClipFootage: a *)
(* copy of a finished clip goes only while another remains or past the     *)
(* horizon, and a deleted clip does not come back.                         *)
THEOREM ImplementsFootage == Spec => KeepsFootage
<1>1. Init => Footage!FInit
  BY DEF Init, Footage!FInit
<1>2. TiersInv /\ [Next]_vars => [Footage!FNext]_(Footage!fvars)
  BY NextMaps
<1> QED  BY <1>1, <1>2, TiersInvariant, PTL DEF Spec, KeepsFootage, Footage!FSpec

-----------------------------------------------------------------------------
(* Playback after a pressure episode, while nothing has failed             *)

LeftInv == faultsLeft <= MaxFaults /\ crashesLeft <= MaxCrashes

(* A cache job works for a clip that is on the cold tier only.             *)
JobInv(c) ==
    /\ job[c] # "none" /\ row[c] # "gone" => row[c] = "closed" /\ hot[c] = "null" /\ cold[c]
    /\ hot[c] = "cache" => row[c] = "closed" /\ cold[c]

(* What the evictor read of its soft candidate still holds, and its file   *)
(* stays away once it is unlinked.                                         *)
SoftInv ==
    /\ evPc # "idle" => level # "Ok"
    /\ evPc \in {"unlink", "clear"} /\ row[evClip] # "gone" =>
          /\ row[evClip] = "closed" /\ hot[evClip] = evPath /\ evPath # "null"
          /\ evPc = "clear" => <<evClip, evPath>> \notin disk

(* The scan cannot take the file a closed row names for an orphan.         *)
NamedInv(c) ==
    row[c] = "closed" /\ HotCopy(c) =>
        /\ <<c, hot[c]>> \notin cand
        /\ swPc = "walk" => <<c, hot[c]>> \in known \cup young

(* Nor the file a cache job is about to register.                          *)
CacheInv(c) ==
    row[c] # "gone" =>
        /\ <<c, "cache">> \in disk => job[c] = "renamed" \/ hot[c] = "cache"
        /\ <<c, "cache">> \notin cand
        /\ job[c] = "renamed" =>
              /\ <<c, "cache">> \in disk => <<c, "cache">> \in young
              /\ age[c] < 2 => <<c, "cache">> \in disk

(* A pointer dangles only between the evictor's unlink and its clear.      *)
PlayInv(c) ==
    row[c] = "closed" /\ cold[c] /\ age[c] < 2 /\ hot[c] # "null" =>
        HotCopy(c) \/ (evPc = "clear" /\ evClip = c)

ClipInv(c) == JobInv(c) /\ NamedInv(c) /\ CacheInv(c) /\ PlayInv(c)

CleanInv == LeftInv /\ (Clean => SoftInv /\ \A c \in Clip : ClipInv(c))

(* A clean step is one no access of which fails.                           *)
LEMMA CleanStep ==
    ASSUME TypeOK, Clean, Clean'
    PROVE  ~Fault /\ ~Crash
BY TiersAssumption DEF TiersAssumption, TypeOK, Clean, Fault, Crash

LEMMA LeftStep ==
    ASSUME TypeOK, LeftInv, [Next]_vars
    PROVE  LeftInv' /\ (Clean' => Clean)
<1>1. \/ faultsLeft' = faultsLeft
      \/ faultsLeft > 0 /\ faultsLeft' = faultsLeft - 1
  BY DEF Next, vars, Fault, NoFault, RecStep, OpenFile, open_clip, CloseDiscards,
     discard_clip_metadata, CloseRenames, QuarantineDamaged, close_clip,
     RepStep, RepTick, RepNext, RepExists, RepRead, RepPut, mark_cold_replicated,
     record_cold_upload_failure, EvictStep, EvictFind, SoftUnlink, clear_hot_pointer,
     HardDelete, HardUnlink, SweepStep, SweepList, SweepUnlink, SweepDelete, ScanKnown,
     ScanWalk, ScanReap, JobStep, Spawn, Permit, ReadRow, Listen, Download, WritePartial,
     RenamePartial, repopulate_hot_pointer, AgeClip, AgeFile, BackoffEnds, SetLevel,
     SetTarget, Crash
<1>2. \/ crashesLeft' = crashesLeft
      \/ crashesLeft > 0 /\ crashesLeft' = crashesLeft - 1
  BY DEF Next, vars, RecFrame, RepFrame, EvFrame, SwFrame, JobFrame, RecStep, OpenFile, open_clip, CloseDiscards,
     discard_clip_metadata, CloseRenames, QuarantineDamaged, close_clip,
     RepStep, RepTick, RepNext, RepExists, RepRead, RepPut, mark_cold_replicated,
     record_cold_upload_failure, EvictStep, EvictFind, SoftUnlink, clear_hot_pointer,
     HardDelete, HardUnlink, SweepStep, SweepList, SweepUnlink, SweepDelete, ScanKnown,
     ScanWalk, ScanReap, JobStep, Spawn, Permit, ReadRow, Listen, Download, WritePartial,
     RenamePartial, repopulate_hot_pointer, AgeClip, AgeFile, BackoffEnds, SetLevel,
     SetTarget, Crash
<1> QED  BY <1>1, <1>2, TiersAssumption DEF TiersAssumption, TypeOK, LeftInv, Clean

(* The other tasks' view of a clip a step does not work on.                *)
Aside(d) ==
    /\ row'[d] = row[d] /\ hot'[d] = hot[d] /\ cold'[d] = cold[d] /\ age'[d] = age[d]
    /\ job'[d] = job[d]
    /\ \A p : <<d, p>> \in disk' <=> <<d, p>> \in disk
    /\ \A p : <<d, p>> \in young' <=> <<d, p>> \in young

ScanSame == swPc' = swPc /\ known' = known /\ cand' = cand

EvSame == evPc' = evPc /\ evClip' = evClip /\ evPath' = evPath /\ level' = level

LEMMA ClipAside ==
    ASSUME NEW d \in Clip, ClipInv(d), Aside(d),
           cand' \subseteq cand, swPc' = "walk" => swPc = "walk" /\ known' = known,
           evPc = "clear" /\ evClip = d => evPc' = "clear" /\ evClip' = d
    PROVE  ClipInv(d)'
BY DEF ClipInv, JobInv, NamedInv, CacheInv, PlayInv, HotCopy, Aside

LEMMA ClipGone ==
    ASSUME NEW d \in Clip, row'[d] = "gone", hot'[d] # "cache"
    PROVE  ClipInv(d)'
BY DEF ClipInv, JobInv, NamedInv, CacheInv, PlayInv

LEMMA SoftAside ==
    ASSUME SoftInv, EvSame,
           evPc \in {"unlink", "clear"} /\ row'[evClip] # "gone" =>
              /\ row'[evClip] = row[evClip]
              /\ row[evClip] = "closed" => hot'[evClip] = hot[evClip]
              /\ row[evClip] = "closed" /\ <<evClip, hot[evClip]>> \in disk'
                     => <<evClip, hot[evClip]>> \in disk
    PROVE  SoftInv'
BY DEF SoftInv, EvSame

PlaysInv == SoftInv /\ \A c \in Clip : ClipInv(c)

LEMMA RecorderPlays ==
    ASSUME TiersInv, PlaysInv, Clean, Clean', NEW c \in Clip, RecStep(c)
    PROVE  PlaysInv'
<1> USE DEF rowVars, fileVars, recVars, repVars, evVars, swVars, jobVars, RecFrame
<1>0. TypeOK /\ RecorderInv(c) /\ ColdInv(c) /\ FileInv(c) /\ EvictInv /\ ~Fault /\ SoftInv /\ ClipInv(c)
  BY CleanStep DEF TiersInv, RowInv, FilesInv, TaskInv, PlaysInv
<1>1. UNCHANGED <<age, cand, known, swPc, evPc, evClip, evPath, level, job>>
  BY DEF RecStep, OpenFile, open_clip, CloseDiscards, discard_clip_metadata, CloseRenames,
     QuarantineDamaged, close_clip
<1>2. row[c] # "closed" /\ ~cold[c] /\ hot[c] # "cache" /\ (job[c] = "none" \/ row[c] = "gone")
  <2>1. row[c] # "closed"
    BY <1>0 DEF RecStep, OpenFile, open_clip, CloseDiscards, discard_clip_metadata, CloseRenames,
       QuarantineDamaged, close_clip, RecorderInv
  <2> QED  BY <1>0, <2>1 DEF ColdInv, ClipInv, JobInv
(* The files the recorder works on are not the cache's.                    *)
<1>3. /\ \A f : f[2] \notin {"inflight", "final"} \/ f[1] # c =>
             (f \in disk' <=> f \in disk) /\ (f \in young' <=> f \in young)
      /\ disk' \cup disk \subseteq File
  <2>1. disk' \subseteq File /\ disk \subseteq File
    BY RecorderStep DEF TiersInv, TypeOK
  <2> QED  BY <1>0, <2>1 DEF RecStep, OpenFile, open_clip, CloseDiscards, discard_clip_metadata, CloseRenames,
       QuarantineDamaged, close_clip, Write, Unlink, Rename
<1>4. ASSUME NEW d \in Clip \ {c} PROVE Aside(d)
  <2>1. row'[d] = row[d] /\ hot'[d] = hot[d] /\ cold'[d] = cold[d]
    BY <1>0, <1>4, DropRowEffect DEF RecStep, OpenFile, open_clip, CloseDiscards, discard_clip_metadata, CloseRenames,
       QuarantineDamaged, close_clip, TypeOK
  <2> QED  BY <1>1, <1>3, <1>4, <2>1 DEF Aside
<1>5. ASSUME NEW d \in Clip \ {c} PROVE ClipInv(d)'
  BY <1>1, <1>4, ClipAside DEF PlaysInv
<1>6. SoftInv'
  <2>1. evPc \in {"unlink", "clear"} /\ row[evClip] # "gone" => evClip \in Clip \ {c}
    BY <1>0, <1>2 DEF EvictInv, SoftInv
  <2>2. evPc \in {"unlink", "clear"} /\ row[evClip] = "gone" => row'[evClip] = "gone"
    BY <1>0, DropRowEffect DEF EvictInv, RecStep, OpenFile, open_clip, CloseDiscards,
       discard_clip_metadata, CloseRenames, QuarantineDamaged, close_clip, TypeOK, Exists,
       RecorderInv
  <2> QED  BY <1>0, <1>1, <1>4, <2>1, <2>2, SoftAside DEF EvSame, Aside
<1>7. ClipInv(c)'
  <2>1. hot'[c] # "cache" /\ ~cold'[c]
    BY <1>0, <1>2, DropRowEffect DEF RecStep, OpenFile, open_clip, CloseDiscards,
       discard_clip_metadata, CloseRenames, QuarantineDamaged, close_clip, TypeOK, DropRow,
       FileInv
  <2>2. row[c] = "gone" => row'[c] = "gone"
    BY <1>0, DropRowEffect DEF RecStep, OpenFile, open_clip, CloseDiscards,
       discard_clip_metadata, CloseRenames, QuarantineDamaged, close_clip, TypeOK, Exists,
       RecorderInv
  <2>3. JobInv(c)'
    BY <1>1, <1>2, <2>1, <2>2 DEF JobInv
  <2>4. CacheInv(c)'
    <3>1. row'[c] # "gone" => job[c] = "none" /\ <<c, "cache">> \notin disk \cup cand
      BY <1>0, <1>2, <2>2 DEF ClipInv, CacheInv
    <3>2. <<c, "cache">> \in disk' <=> <<c, "cache">> \in disk
      BY <1>3
    <3> QED  BY <1>1, <3>1, <3>2 DEF CacheInv
  <2>5. NamedInv(c)'
    <3>1. ASSUME row'[c] = "closed"
          PROVE  /\ rec[c] = "close" /\ hot'[c] = fin[c].path /\ Exists(c)
                 /\ UNCHANGED <<disk, young>>
      BY <1>0, <1>2, <3>1, DropRowEffect DEF RecStep, OpenFile, open_clip, CloseDiscards,
         discard_clip_metadata, CloseRenames, QuarantineDamaged, close_clip, TypeOK
    <3>2. ASSUME row'[c] = "closed"
          PROVE  <<c, hot'[c]>> \notin cand /\ <<c, hot'[c]>> \in young
      BY <1>0, <3>1, <3>2 DEF FileInv
    <3> QED  BY <1>1, <3>1, <3>2 DEF NamedInv
  <2> QED  BY <2>1, <2>3, <2>4, <2>5 DEF ClipInv, PlayInv
<1> QED  BY <1>5, <1>6, <1>7 DEF PlaysInv

(* The replicator makes a clip one with a cold copy while its file is      *)
(* there.                                                                  *)
LEMMA ReplicatorPlays ==
    ASSUME TiersInv, PlaysInv, RepStep
    PROVE  PlaysInv'
<1> USE DEF rowVars, fileVars, recVars, repVars, evVars, swVars, jobVars, RepFrame, RepGoto
<1>0. TypeOK /\ BatchInv
  BY DEF TiersInv, TaskInv
<1>1. UNCHANGED <<row, hot, age, disk, young, job, swPc, known, cand, evPc, evClip, evPath, level>>
  BY DEF RepStep, RepTick, RepNext, RepExists, RepRead, RepPut, mark_cold_replicated,
     record_cold_upload_failure
<1>2. SoftInv'
  BY <1>1 DEF PlaysInv, SoftInv
<1>3. CASE cold' = cold
  <2>1. \A d \in Clip : Aside(d)
    BY <1>1, <1>3 DEF Aside
  <2> QED  BY <1>1, <1>2, <2>1, ClipAside DEF PlaysInv
<1>4. CASE mark_cold_replicated /\ Exists(repCur) /\ cold' = [cold EXCEPT ![repCur] = TRUE]
  <2>1. PICK c \in Clip : c = repCur
    BY <1>0, <1>4 DEF BatchInv, mark_cold_replicated
  <2>2. row[c] = "closed" /\ ~cold[c] /\ ClipInv(c)
    BY <1>0, <1>4, <2>1 DEF BatchInv, InBatch, mark_cold_replicated, Exists, PlaysInv
  <2>3. cold'[c] /\ \A d \in Clip \ {c} : cold'[d] = cold[d]
    BY <1>0, <1>4, <2>1 DEF TypeOK
  <2>4. \A d \in Clip \ {c} : ClipInv(d)'
    <3>1. \A d \in Clip \ {c} : Aside(d)
      BY <1>1, <2>3 DEF Aside
    <3> QED  BY <1>1, <3>1, ClipAside DEF PlaysInv
  <2>5. age[c] < 2 => HotCopy(c)
    BY <2>2, LastCopy DEF HotCopy
  <2>6. ClipInv(c)'
    BY <1>1, <2>2, <2>3, <2>5 DEF ClipInv, JobInv, NamedInv, CacheInv, PlayInv, HotCopy
  <2> QED  BY <1>2, <2>4, <2>6 DEF PlaysInv
<1> QED
  BY <1>3, <1>4 DEF RepStep, RepTick, RepNext, RepExists, RepRead, RepPut, mark_cold_replicated,
     record_cold_upload_failure

(* A clip whose row is deleted no longer concerns any of this.             *)
LEMMA DropRowPlays ==
    ASSUME TypeOK, PlaysInv, NEW c \in Clip, DropRow(c), UNCHANGED <<age, job, disk, young, swPc, known, cand>>,
           evPc' # "clear" \/ (evPc' = evPc /\ evClip' = evClip),
           evPc' # "clear" => evPc # "clear"
    PROVE  \A d \in Clip : ClipInv(d)'
<1>1. row'[c] = "gone" /\ hot'[c] = "null"
  BY DEF TypeOK, DropRow
<1>2. ClipInv(c)'
  BY <1>1, ClipGone
<1>3. \A d \in Clip \ {c} : Aside(d)
  BY DropRowEffect DEF Aside
<1>4. \A d \in Clip \ {c} : ClipInv(d)'
  BY <1>3, ClipAside DEF PlaysInv
<1> QED  BY <1>2, <1>4

(* The evictor leaves a pointer without its file only until it clears it.  *)
LEMMA EvictorPlays ==
    ASSUME TiersInv, PlaysInv, ~Fault, EvictStep
    PROVE  PlaysInv'
<1> USE DEF rowVars, fileVars, recVars, repVars, evVars, swVars, jobVars, EvFrame, EvGoto, EvDone
<1>0. TypeOK /\ EvictInv /\ SoftInv /\ \A d \in Clip : ClipInv(d) /\ ColdInv(d)
  BY DEF TiersInv, TaskInv, RowInv, PlaysInv
<1>1. UNCHANGED <<age, job, swPc, known, cand, level>>
  BY DEF EvictStep, EvictFind, SoftUnlink, clear_hot_pointer, HardDelete, HardUnlink
<1>2. CASE EvictFind
  <2>1. \A d \in Clip : Aside(d)
    BY <1>1, <1>2 DEF EvictFind, Aside
  <2>2. \A d \in Clip : ClipInv(d)'
    BY <1>0, <1>1, <1>2, <2>1, ClipAside DEF EvictFind
  <2>3. SoftInv'
    BY <1>0, <1>2 DEF EvictFind, SoftInv, SoftCandidate, ColdInv
  <2> QED  BY <2>2, <2>3 DEF PlaysInv
<1>3. CASE SoftUnlink
  <2>1. PICK c \in Clip : c = evClip
    BY <1>0, <1>3 DEF EvictInv, SoftUnlink
  <2>2. /\ UNCHANGED <<row, hot, cold>> /\ evPc = "unlink" /\ evPc' = "clear" /\ evClip' = c
        /\ evPath' = evPath
        /\ disk' = disk \ {<<c, evPath>>} /\ young' = young \ {<<c, evPath>>}
    BY <1>3, <2>1 DEF SoftUnlink, Unlink
  <2>3. \A d \in Clip \ {c} : ClipInv(d)'
    <3>1. \A d \in Clip \ {c} : Aside(d)
      BY <1>1, <2>2 DEF Aside
    <3> QED  BY <1>0, <1>1, <2>2, <3>1, ClipAside
  <2>4. ClipInv(c)'
    <3>1. CASE row[c] = "gone"
      BY <1>0, <2>2, <3>1, ClipGone DEF ClipInv, JobInv
    <3>2. CASE row[c] # "gone"
      <4>1. row[c] = "closed" /\ hot[c] = evPath /\ evPath # "null"
        BY <1>0, <2>1, <2>2, <3>2 DEF SoftInv
      <4>2. JobInv(c)' /\ PlayInv(c)'
        BY <1>0, <1>1, <2>2 DEF ClipInv, JobInv, PlayInv
      <4>3. NamedInv(c)'
        BY <2>2, <4>1 DEF NamedInv, HotCopy
      <4>4. CacheInv(c)'
        BY <1>0, <1>1, <2>2, <4>1 DEF ClipInv, JobInv, CacheInv
      <4> QED  BY <4>2, <4>3, <4>4 DEF ClipInv
    <3> QED  BY <3>1, <3>2
  <2>5. SoftInv'
    BY <1>0, <1>1, <2>1, <2>2 DEF SoftInv
  <2> QED  BY <2>3, <2>4, <2>5 DEF PlaysInv
<1>4. CASE clear_hot_pointer
  <2>1. PICK c \in Clip : c = evClip
    BY <1>0, <1>4 DEF EvictInv, clear_hot_pointer
  <2>2. UNCHANGED <<row, cold, disk, young>> /\ evPc = "clear" /\ evPc' = "idle"
    BY <1>4 DEF clear_hot_pointer
  <2>3. hot' = IF cold[c] THEN [hot EXCEPT ![c] = "null"] ELSE hot
    BY <1>4, <2>1 DEF clear_hot_pointer
  <2>4. \A d \in Clip \ {c} : ClipInv(d)'
    <3>1. \A d \in Clip \ {c} : Aside(d)
      BY <1>0, <1>1, <2>2, <2>3 DEF Aside, TypeOK
    <3> QED  BY <1>0, <1>1, <2>1, <2>2, <3>1, ClipAside
  <2>5. ClipInv(c)'
    <3>1. CASE row[c] = "gone"
      <4>1. hot'[c] # "cache"
        BY <1>0, <2>3, <3>1 DEF ColdInv, ClipInv, JobInv
      <4> QED  BY <2>2, <3>1, <4>1, ClipGone
    <3>2. CASE row[c] # "gone"
      <4>1. cold[c] /\ hot'[c] = "null" /\ <<c, "null">> \notin disk
        BY <1>0, <2>1, <2>2, <2>3, <3>2, NoSuchFile DEF EvictInv, TypeOK
      <4>2. row[c] = "closed" /\ <<c, hot[c]>> \notin disk
        BY <1>0, <2>1, <2>2, <3>2 DEF SoftInv
      <4> QED
        BY <1>0, <1>1, <2>2, <4>1, <4>2 DEF ClipInv, JobInv, NamedInv, CacheInv, PlayInv, HotCopy
    <3> QED  BY <3>1, <3>2
  <2>6. SoftInv'
    BY <2>2 DEF SoftInv
  <2> QED  BY <2>4, <2>5, <2>6 DEF PlaysInv
<1>5. CASE HardDelete
  <2>1. evClip \in Clip /\ evPc = "delete" /\ UNCHANGED <<disk, young>> /\ evPc' \in {"idle", "reap"}
    BY <1>0, <1>5 DEF EvictInv, HardDelete
  <2>2. SoftInv'
    BY <1>0, <1>1, <2>1 DEF SoftInv
  <2>3. CASE DropRow(evClip)
    BY <1>0, <1>1, <2>1, <2>2, <2>3, DropRowPlays DEF PlaysInv
  <2>4. CASE UNCHANGED rowVars
    <3>1. \A d \in Clip : Aside(d)
      BY <1>1, <2>1, <2>4 DEF Aside
    <3> QED  BY <1>0, <1>1, <2>1, <2>2, <3>1, ClipAside DEF PlaysInv
  <2> QED  BY <1>5, <2>3, <2>4 DEF HardDelete
<1>6. CASE HardUnlink
  <2>1. PICK c \in Clip : c = evClip
    BY <1>0, <1>6 DEF EvictInv, HardUnlink
  <2>2. /\ UNCHANGED <<row, hot, cold>> /\ evPc = "reap" /\ evPc' = "idle" /\ row[c] = "gone"
        /\ disk' = disk \ {<<c, evPath>>} /\ young' = young \ {<<c, evPath>>}
    BY <1>0, <1>6, <2>1 DEF HardUnlink, Unlink, EvictInv
  <2>3. \A d \in Clip \ {c} : ClipInv(d)'
    <3>1. \A d \in Clip \ {c} : Aside(d)
      BY <1>1, <2>2 DEF Aside
    <3> QED  BY <1>0, <1>1, <2>2, <3>1, ClipAside
  <2>4. ClipInv(c)'
    BY <1>0, <2>2, ClipGone DEF ClipInv, JobInv
  <2>5. SoftInv'
    BY <2>2 DEF SoftInv
  <2> QED  BY <2>3, <2>4, <2>5 DEF PlaysInv
<1> QED  BY <1>2, <1>3, <1>4, <1>5, <1>6 DEF EvictStep

(* The sweep deletes the files of expired clips, and of no other: the      *)
(* orphan scan never has the file of a row, or of a cache job, on its list.*)
LEMMA SweeperPlays ==
    ASSUME TiersInv, PlaysInv, ~Fault, SweepStep
    PROVE  PlaysInv'
<1> USE DEF rowVars, fileVars, recVars, repVars, evVars, swVars, jobVars, SwFrame, SwEnds
<1>0. TypeOK /\ SweepInv /\ SoftInv /\ \A d \in Clip : ClipInv(d)
  BY DEF TiersInv, TaskInv, PlaysInv
<1>1. UNCHANGED <<age, job, evPc, evClip, evPath, level>>
  BY DEF SweepStep, SweepList, SweepUnlink, SweepDelete, ScanKnown, ScanWalk, ScanReap
<1>2. EvSame
  BY <1>1 DEF EvSame
<1>3. row' = row /\ hot' = hot /\ disk' \subseteq disk => SoftInv'
  BY <1>0, <1>2, SoftAside
<1>4. CASE SweepList
  <2>1. \A d \in Clip : Aside(d)
    BY <1>1, <1>4 DEF SweepList, Aside
  <2>2. \A d \in Clip : ClipInv(d)'
    BY <1>0, <1>1, <1>4, <2>1, ClipAside DEF SweepList
  <2> QED  BY <1>3, <1>4, <2>2 DEF SweepList, PlaysInv
<1>5. CASE SweepUnlink
  <2>1. UNCHANGED <<row, hot, cold, cand>> /\ swPc' # "walk"
    BY <1>5 DEF SweepUnlink
  <2>2. \/ disk' = disk /\ young' = young
        \/ \E c \in swTodo : disk' = disk \ {<<c, swPath[c]>>} /\ young' = young \ {<<c, swPath[c]>>}
    BY <1>5 DEF SweepUnlink, Unlink
  <2>3. \A c \in swTodo : c \in Clip /\ age[c] = 2
    BY <1>0 DEF SweepInv, TypeOK
  <2>4. ASSUME NEW d \in Clip PROVE ClipInv(d)'
    <3>1. CASE age[d] # 2
      <4>1. Aside(d)
        BY <1>1, <2>1, <2>2, <2>3, <3>1 DEF Aside
      <4> QED  BY <1>0, <1>1, <2>1, <4>1, ClipAside
    <3>2. CASE age[d] = 2
      <4>1. disk' \subseteq disk /\ (<<d, "cache">> \in disk' /\ <<d, "cache">> \in young => <<d, "cache">> \in young')
        BY <2>2
      <4> QED
        BY <1>0, <1>1, <2>1, <3>2, <4>1 DEF ClipInv, JobInv, NamedInv, CacheInv, PlayInv, HotCopy
    <3> QED  BY <3>1, <3>2
  <2> QED  BY <1>3, <2>1, <2>2, <2>4 DEF PlaysInv
<1>6. CASE SweepDelete
  <2>1. swCur \in Clip /\ UNCHANGED <<disk, young>>
    BY <1>0, <1>6 DEF SweepInv, SweepDelete
  <2>2. CASE UNCHANGED rowVars
    <3>1. \A d \in Clip : Aside(d)
      BY <1>1, <2>1, <2>2 DEF Aside
    <3>2. cand' \subseteq cand /\ swPc' # "walk"
      BY <1>6 DEF SweepDelete
    <3>3. \A d \in Clip : ClipInv(d)'
      BY <1>0, <1>1, <3>1, <3>2, ClipAside
    <3> QED  BY <1>3, <2>1, <2>2, <3>3 DEF PlaysInv
  <2>3. CASE DropRow(swCur)
    <3>1. row'[swCur] = "gone" /\ hot'[swCur] = "null"
      BY <1>0, <2>1, <2>3 DEF TypeOK, DropRow
    <3>2. \A d \in Clip \ {swCur} : Aside(d)
      BY <1>0, <1>1, <2>1, <2>3, DropRowEffect DEF Aside
    <3>3. cand' \subseteq cand /\ swPc' # "walk"
      BY <1>6 DEF SweepDelete
    <3>4. ASSUME NEW d \in Clip PROVE ClipInv(d)'
      BY <1>0, <1>1, <3>1, <3>2, <3>3, ClipGone, ClipAside
    <3>5. SoftInv'
      <4>1. evPc \in {"unlink", "clear"} => evClip \in Clip
        BY DEF TiersInv, TaskInv, EvictInv
      <4>2. evPc \in {"unlink", "clear"} /\ row'[evClip] # "gone" => Aside(evClip)
        BY <3>1, <3>2, <4>1
      <4> QED  BY <1>0, <1>2, <4>2, SoftAside DEF Aside
    <3> QED  BY <3>4, <3>5 DEF PlaysInv
  <2> QED  BY <1>6, <2>2, <2>3 DEF SweepDelete
<1>7. CASE ScanKnown
  <2>1. UNCHANGED <<row, hot, cold, cand, disk, young>>
        /\ known' = {<<c, hot[c]>> : c \in {d \in Clip : Exists(d) /\ hot[d] # "null"}}
    BY <1>7 DEF ScanKnown
  <2>2. ASSUME NEW d \in Clip PROVE ClipInv(d)'
    <3>1. row[d] = "closed" /\ HotCopy(d) => <<d, hot[d]>> \in known'
      BY <1>0, <2>1, NoSuchFile DEF HotCopy, Exists
    <3> QED
      BY <1>0, <1>1, <2>1, <3>1 DEF ClipInv, JobInv, NamedInv, CacheInv, PlayInv, HotCopy
  <2> QED  BY <1>3, <2>1, <2>2 DEF PlaysInv
<1>8. CASE ScanWalk
  <2>1. /\ UNCHANGED <<row, hot, cold, known, disk, young>> /\ swPc = "walk" /\ swPc' = "reap"
        /\ cand' = {f \in disk \ known : f \notin young}
    BY <1>8 DEF ScanWalk, Spared
  <2>2. ASSUME NEW d \in Clip PROVE ClipInv(d)'
    <3>1. row[d] = "closed" /\ HotCopy(d) => <<d, hot[d]>> \notin cand'
      BY <1>0, <2>1 DEF ClipInv, NamedInv
    <3>2. row[d] # "gone" => <<d, "cache">> \notin cand'
      BY <1>0, <2>1, <3>1 DEF ClipInv, JobInv, CacheInv, HotCopy
    <3> QED
      BY <1>0, <1>1, <2>1, <3>1, <3>2 DEF ClipInv, JobInv, NamedInv, CacheInv, PlayInv, HotCopy
  <2> QED  BY <1>3, <2>1, <2>2 DEF PlaysInv
<1>9. CASE ScanReap
  <2>1. UNCHANGED <<row, hot, cold>> /\ cand' \subseteq cand /\ swPc' # "walk"
    BY <1>9 DEF ScanReap
  <2>2. \/ disk' = disk /\ young' = young
        \/ \E f \in cand : disk' = disk \ {f} /\ young' = young \ {f}
    BY <1>9 DEF ScanReap, Unlink
  <2>3. \A f : f \notin cand => (f \in disk' <=> f \in disk) /\ (f \in young' <=> f \in young)
    BY <2>2
  <2>4. disk' \subseteq disk
    BY <2>2
  <2>5. ASSUME NEW d \in Clip PROVE ClipInv(d)'
    <3>1. JobInv(d)' /\ NamedInv(d)'
      BY <1>0, <1>1, <2>1, <2>4 DEF ClipInv, JobInv, NamedInv, HotCopy
    <3>2. CacheInv(d)'
      BY <1>0, <1>1, <2>1, <2>3 DEF ClipInv, CacheInv
    <3>3. PlayInv(d)'
      BY <1>0, <1>1, <2>1, <2>3 DEF ClipInv, NamedInv, PlayInv, HotCopy
    <3> QED  BY <3>1, <3>2, <3>3 DEF ClipInv
  <2> QED  BY <1>3, <2>1, <2>4, <2>5 DEF PlaysInv
<1> QED  BY <1>4, <1>5, <1>6, <1>7, <1>8, <1>9 DEF SweepStep

(* A cache job registers the file it renamed before the scan can reap it.  *)
LEMMA CachePlays ==
    ASSUME TiersInv, PlaysInv, ~Fault, NEW c \in Clip, JobStep(c)
    PROVE  PlaysInv'
<1> USE DEF rowVars, fileVars, recVars, repVars, evVars, swVars, jobVars, JobFrame, JobGoto
<1>0. TypeOK /\ EvictInv /\ SoftInv /\ ColdInv(c) /\ \A d \in Clip : ClipInv(d)
  BY DEF TiersInv, TaskInv, RowInv, PlaysInv
<1>1. UNCHANGED <<row, cold, age, evPc, evClip, evPath, level, swPc, known, cand>>
  BY DEF JobStep, Spawn, Permit, ReadRow, Listen, Download, WritePartial, RenamePartial,
     repopulate_hot_pointer
<1>2. EvSame
  BY <1>1 DEF EvSame
<1>3. ASSUME NEW d \in Clip \ {c} PROVE Aside(d)
  BY <1>0, <1>1 DEF JobStep, Spawn, Permit, ReadRow, Listen, Download, WritePartial, RenamePartial,
     repopulate_hot_pointer, Write, Rename, Aside, TypeOK
<1>4. ASSUME NEW d \in Clip \ {c} PROVE ClipInv(d)'
  BY <1>0, <1>1, <1>3, ClipAside
<1>5. CASE Spawn(c) \/ Permit(c) \/ ReadRow(c) \/ Listen(c) \/ Download(c)
  <2>1. UNCHANGED <<hot, disk, young>>
    BY <1>5 DEF Spawn, Permit, ReadRow, Listen, Download
  <2>2. job[c] # "renamed" /\ job'[c] # "renamed"
    BY <1>0, <1>5 DEF Spawn, Permit, ReadRow, Listen, Download, TypeOK
  <2>3. job'[c] # "none" /\ job[c] = "none" => Exists(c) /\ hot[c] = "null" /\ cold[c]
    BY <1>5 DEF Spawn, Permit, ReadRow, Listen, Download
  <2>4. ClipInv(c)'
    BY <1>0, <1>1, <2>1, <2>2, <2>3 DEF ClipInv, JobInv, NamedInv, CacheInv, PlayInv, HotCopy, ColdInv
  <2>5. SoftInv'
    BY <1>0, <1>1, <1>2, <2>1, SoftAside
  <2> QED  BY <1>4, <2>4, <2>5 DEF PlaysInv
<1>6. CASE WritePartial(c)
  <2>1. /\ hot' = hot /\ job[c] = "verified" /\ job'[c] = "partial"
        /\ disk' = disk \cup {<<c, "partial">>} /\ young' = young \cup {<<c, "partial">>}
    BY <1>0, <1>6 DEF WritePartial, Write, TypeOK
  <2>2. \A d \in Clip : hot[d] # "partial"
    BY <1>0, NoSuchFile
  <2>3. ClipInv(c)'
    BY <1>0, <1>1, <2>1, <2>2 DEF ClipInv, JobInv, NamedInv, CacheInv, PlayInv, HotCopy
  <2>4. SoftInv'
    <3>1. evPc \in {"unlink", "clear"} => evClip \in Clip
      BY <1>0 DEF EvictInv
    <3> QED  BY <1>0, <1>1, <1>2, <2>1, <2>2, <3>1, SoftAside
  <2> QED  BY <1>4, <2>3, <2>4 DEF PlaysInv
(* The evictor does not work on a clip a job works for.                    *)
<1>7. job[c] # "none" /\ row[c] # "gone" /\ evPc \in {"unlink", "clear"} => evClip # c
  BY <1>0 DEF SoftInv, ClipInv, JobInv
<1>8. CASE RenamePartial(c)
  <2>1. /\ hot' = hot /\ job[c] = "partial" /\ job'[c] = "renamed"
        /\ disk' = (disk \ {<<c, "partial">>}) \cup {<<c, "cache">>}
        /\ young' = (young \ {<<c, "partial">>}) \cup {<<c, "cache">>}
    BY <1>0, <1>8 DEF RenamePartial, Rename, TypeOK
  <2>2. ClipInv(c)'
    <3>1. CASE row[c] = "gone"
      BY <1>0, <1>1, <2>1, <3>1, ClipGone DEF ClipInv, JobInv
    <3>2. CASE row[c] # "gone"
      <4>1. hot[c] = "null" /\ <<c, "null">> \notin disk'
        BY <1>0, <2>1, <3>2, NoSuchFile DEF ClipInv, JobInv
      <4> QED
        BY <1>0, <1>1, <2>1, <3>2, <4>1 DEF ClipInv, JobInv, NamedInv, CacheInv, PlayInv, HotCopy
    <3> QED  BY <3>1, <3>2
  <2>3. SoftInv'
    <3>1. evPc \in {"unlink", "clear"} /\ row[evClip] # "gone" => evClip \in Clip \ {c}
      BY <1>0, <1>7, <2>1 DEF EvictInv
    <3> QED  BY <1>0, <1>1, <1>2, <2>1, <3>1, SoftAside
  <2> QED  BY <1>4, <2>2, <2>3 DEF PlaysInv
<1>9. CASE repopulate_hot_pointer(c)
  <2>1. /\ UNCHANGED <<disk, young>> /\ job[c] = "renamed" /\ job'[c] = "none"
        /\ hot' = IF Exists(c) /\ hot[c] = "null" THEN [hot EXCEPT ![c] = "cache"] ELSE hot
    BY <1>0, <1>9 DEF repopulate_hot_pointer, TypeOK
  <2>2. ClipInv(c)'
    <3>1. CASE row[c] = "gone"
      BY <1>0, <1>1, <2>1, <3>1, ClipGone DEF ClipInv, JobInv, Exists
    <3>2. CASE row[c] # "gone"
      <4>1. row[c] = "closed" /\ cold[c] /\ hot'[c] = "cache"
        BY <1>0, <2>1, <3>2 DEF ClipInv, JobInv, Exists, TypeOK
      <4>2. /\ <<c, "cache">> \notin cand
            /\ <<c, "cache">> \in disk => <<c, "cache">> \in young
            /\ age[c] < 2 => <<c, "cache">> \in disk
        BY <1>0, <2>1, <3>2 DEF ClipInv, CacheInv
      <4>3. JobInv(c)' /\ CacheInv(c)'
        BY <1>1, <2>1, <4>1, <4>2 DEF JobInv, CacheInv
      <4>4. NamedInv(c)' /\ PlayInv(c)'
        BY <1>1, <2>1, <4>1, <4>2 DEF NamedInv, PlayInv, HotCopy
      <4> QED  BY <4>3, <4>4 DEF ClipInv
    <3> QED  BY <3>1, <3>2
  <2>3. SoftInv'
    <3>1. evPc \in {"unlink", "clear"} /\ row[evClip] # "gone" => evClip \in Clip \ {c}
      BY <1>0, <1>7, <2>1 DEF EvictInv
    <3> QED  BY <1>0, <1>1, <1>2, <1>3, <2>1, <3>1, SoftAside DEF Aside
  <2> QED  BY <1>4, <2>2, <2>3 DEF PlaysInv
<1> QED  BY <1>5, <1>6, <1>8, <1>9 DEF JobStep

LEMMA EnvironmentPlays ==
    ASSUME TiersInv, PlaysInv,
           \/ \E c \in Clip : AgeClip(c) \/ BackoffEnds(c)
           \/ \E f \in File : AgeFile(f)
           \/ \E l \in {"Ok", "Low", "Panic"} : SetLevel(l)
           \/ SetTarget
           \/ UNCHANGED vars
    PROVE  PlaysInv'
<1> USE DEF rowVars, fileVars, recVars, repVars, evVars, swVars, jobVars
<1>0. TypeOK /\ SoftInv /\ \A d \in Clip : ClipInv(d)
  BY DEF TiersInv, PlaysInv
<1>1. UNCHANGED <<row, hot, cold, disk, evPc, evClip, evPath, swPc, known, cand>>
  BY DEF AgeClip, BackoffEnds, AgeFile, SetLevel, SetTarget, vars
<1>2. ASSUME NEW c \in Clip, AgeClip(c) PROVE PlaysInv'
  <2>1. UNCHANGED <<young, job, level>> /\ \A d \in Clip : age'[d] < 2 => age[d] < 2
    BY <1>0, <1>2 DEF AgeClip, TypeOK
  <2>2. SoftInv'
    BY <1>0, <1>1, <2>1 DEF SoftInv
  <2>3. ASSUME NEW d \in Clip PROVE ClipInv(d)'
    BY <1>0, <1>1, <2>1 DEF ClipInv, JobInv, NamedInv, CacheInv, PlayInv, HotCopy
  <2> QED  BY <2>2, <2>3 DEF PlaysInv
<1>3. ASSUME UNCHANGED <<young, job, level, age>> PROVE PlaysInv'
  BY <1>0, <1>1, <1>3 DEF PlaysInv, SoftInv, ClipInv, JobInv, NamedInv, CacheInv, PlayInv, HotCopy
<1>4. ASSUME NEW f \in File, AgeFile(f) PROVE PlaysInv'
  <2>1. UNCHANGED <<job, level, age>> /\ young' = young \ {f} /\ ~Held(f) /\ swPc # "walk"
    BY <1>4 DEF AgeFile
  <2>2. SoftInv'
    BY <1>0, <1>1, <2>1 DEF SoftInv
  <2>3. ASSUME NEW d \in Clip PROVE ClipInv(d)'
    <3>1. job[d] = "renamed" => f # <<d, "cache">>
      BY <2>1 DEF Held
    <3> QED
      BY <1>0, <1>1, <2>1, <3>1 DEF ClipInv, JobInv, NamedInv, CacheInv, PlayInv, HotCopy
  <2> QED  BY <2>2, <2>3 DEF PlaysInv
<1>5. ASSUME NEW l \in {"Ok", "Low", "Panic"}, SetLevel(l) PROVE PlaysInv'
  <2>1. UNCHANGED <<young, age>> /\ evPc = "idle"
    BY <1>5 DEF SetLevel
  <2>2. \A d \in Clip : job'[d] = job[d] \/ (job[d] = "loading" /\ job'[d] = "none")
    BY <1>5 DEF SetLevel
  <2>3. SoftInv'
    BY <1>1, <2>1 DEF SoftInv
  <2>4. ASSUME NEW d \in Clip PROVE ClipInv(d)'
    BY <1>0, <1>1, <2>1, <2>2 DEF ClipInv, JobInv, NamedInv, CacheInv, PlayInv, HotCopy
  <2> QED  BY <2>3, <2>4 DEF PlaysInv
<1>6. ASSUME NEW c \in Clip, BackoffEnds(c) PROVE PlaysInv'
  BY <1>3, <1>6 DEF BackoffEnds
<1>7. CASE SetTarget \/ UNCHANGED vars
  BY <1>3, <1>7 DEF SetTarget, vars
<1> QED  BY <1>2, <1>4, <1>5, <1>6, <1>7

LEMMA CleanKept ==
    ASSUME TiersInv, CleanInv, [Next]_vars
    PROVE  CleanInv'
<1>1. TypeOK /\ LeftInv
  BY DEF TiersInv, CleanInv
<1>2. LeftInv' /\ (Clean' => Clean)
  BY <1>1, LeftStep
<1>3. ASSUME Clean' PROVE PlaysInv'
  <2>1. PlaysInv /\ ~Fault /\ ~Crash /\ Clean
    BY <1>1, <1>2, <1>3, CleanStep DEF CleanInv, PlaysInv
  <2> QED
    BY <1>3, <2>1, RecorderPlays, ReplicatorPlays, EvictorPlays, SweeperPlays, CachePlays,
       EnvironmentPlays DEF Next
<1> QED  BY <1>2, <1>3 DEF CleanInv, PlaysInv

(* That rules out half of what could go wrong between rows and files: a    *)
(* row without its file.  The rest of the section is about the other half, *)
(* a file without its row.                                                 *)

Kind == {"inflight", "final", "cache", "partial"}

(* Every file of a clip that is not deleted has an owner, is too young for *)
(* the scan while a task holds it, and is on no list of orphans.  The      *)
(* recorder has one file at a time, and so has a cache job.                *)
LooseInv(c) ==
    row[c] # "gone" =>
        /\ \A p \in Kind : <<c, p>> \in disk =>
              /\ Held(<<c, p>>) \/ Referenced(<<c, p>>)
              /\ Held(<<c, p>>) => <<c, p>> \in young
              /\ swPc = "walk" => <<c, p>> \in known \cup young
        /\ \A p \in Kind : <<c, p>> \notin cand
        /\ rec[c] \in {"opening", "recording"} => <<c, "final">> \notin disk
        /\ rec[c] \in {"damaged", "close"} =>
              \A p \in {"inflight", "final"} : <<c, p>> \in disk => p = fin[c].path
        /\ job[c] = "renamed" => <<c, "partial">> \notin disk

LeakInv == \A c \in Clip : LooseInv(c)

(* A step that at most deletes files of a clip keeps this.                 *)
LEMMA LooseAside ==
    ASSUME NEW d \in Clip, LooseInv(d),
           row'[d] = row[d], hot'[d] = hot[d], rec'[d] = rec[d], fin'[d] = fin[d],
           job'[d] = job[d],
           \A p : <<d, p>> \in disk' => <<d, p>> \in disk,
           \A p : <<d, p>> \in young /\ <<d, p>> \in disk' => <<d, p>> \in young',
           cand' \subseteq cand, swPc' = "walk" => swPc = "walk" /\ known' = known
    PROVE  LooseInv(d)'
BY DEF LooseInv, Held, Referenced, Exists, Kind

(* A file that is held by no task and named by no row has a deleted one.   *)
LEMMA NoOtherFile ==
    ASSUME NEW c \in Clip, LooseInv(c), row[c] # "gone", NEW p \in Kind,
           ~Held(<<c, p>>), ~Referenced(<<c, p>>)
    PROVE  <<c, p>> \notin disk
BY DEF LooseInv

LEMMA RecorderLeaks ==
    ASSUME TiersInv, PlaysInv, LeakInv, ~Fault, NEW c \in Clip, RecStep(c)
    PROVE  LeakInv'
<1> USE DEF rowVars, fileVars, recVars, repVars, evVars, swVars, jobVars, RecFrame
<1>0. TypeOK /\ RecorderInv(c) /\ FileInv(c) /\ JobInv(c) /\ LooseInv(c) /\ c \in Clip
  BY DEF TiersInv, RowInv, FilesInv, PlaysInv, ClipInv, LeakInv
<1>1. UNCHANGED <<cand, known, swPc, job>>
  BY DEF RecStep, OpenFile, open_clip, CloseDiscards, discard_clip_metadata, CloseRenames,
     QuarantineDamaged, close_clip
<1>2. \A d \in Clip \ {c} : LooseInv(d)'
  <2>1. ASSUME NEW d \in Clip \ {c}
        PROVE  /\ row'[d] = row[d] /\ hot'[d] = hot[d] /\ rec'[d] = rec[d] /\ fin'[d] = fin[d]
               /\ \A p : <<d, p>> \in disk' <=> <<d, p>> \in disk
               /\ \A p : <<d, p>> \in young' <=> <<d, p>> \in young
    BY <1>0, <2>1, DropRowEffect DEF RecStep, OpenFile, open_clip, CloseDiscards,
       discard_clip_metadata, CloseRenames, QuarantineDamaged, close_clip, TypeOK, Write, Unlink,
       Rename
  <2> QED  BY <1>1, <2>1, LooseAside DEF LeakInv
(* No cache job works on a clip that is not closed.                        *)
<1>3. row[c] # "closed"
  BY <1>0 DEF RecStep, OpenFile, open_clip, CloseDiscards, discard_clip_metadata, CloseRenames,
     QuarantineDamaged, close_clip, RecorderInv
<1>4. ASSUME row[c] # "gone"
      PROVE  job[c] = "none" /\ <<c, "cache">> \notin disk /\ <<c, "partial">> \notin disk
  <2>1. job[c] = "none" /\ hot[c] # "cache" /\ hot[c] # "partial"
    BY <1>0, <1>3, <1>4, NoSuchFile DEF JobInv
  <2> QED  BY <1>0, <1>4, <2>1, NoOtherFile DEF Held, Referenced, Kind
<1>5. row[c] = "gone" => row'[c] = "gone"
  BY <1>0, DropRowEffect DEF RecStep, OpenFile, open_clip, CloseDiscards,
     discard_clip_metadata, CloseRenames, QuarantineDamaged, close_clip, TypeOK, Exists,
     RecorderInv
<1>6. ASSUME row[c] # "gone" PROVE LooseInv(c)'
  <2>1. CASE OpenFile(c)
    <3>1. /\ row[c] = "none" /\ rec[c] = "idle" /\ row' = row /\ hot' = hot /\ rec'[c] = "opening"
          /\ disk' = disk \cup {<<c, "inflight">>} /\ young' = young \cup {<<c, "inflight">>}
          /\ <<c, "inflight">> \notin disk
      BY <1>0, <2>1 DEF OpenFile, Write, TypeOK
    <3>2. <<c, "final">> \notin disk
      BY <1>0, <3>1 DEF FileInv
    <3>3. \A p \in Kind : <<c, p>> \notin cand
      BY <1>0, <1>6 DEF LooseInv
    <3> QED  BY <1>1, <1>4, <1>6, <3>1, <3>2, <3>3 DEF LooseInv, Held, Referenced, Kind
  <2>2. CASE open_clip(c)
    <3>1. rec[c] = "opening" /\ rec'[c] = "recording" /\ UNCHANGED <<disk, young>>
      BY <1>0, <2>2 DEF open_clip, TypeOK
    <3> QED  BY <1>0, <1>1, <1>4, <1>6, <3>1 DEF LooseInv, Held, Kind
  <2>3. CASE CloseDiscards(c)
    <3>1. /\ rec[c] = "recording" /\ rec'[c] = "discard" /\ row' = row
          /\ disk' = disk \ {<<c, "inflight">>} /\ young' = young \ {<<c, "inflight">>}
      BY <1>0, <2>3 DEF CloseDiscards, Unlink, TypeOK
    <3> QED  BY <1>0, <1>1, <1>4, <1>6, <3>1 DEF LooseInv, Held, Kind
  <2>4. CASE discard_clip_metadata(c)
    BY <1>0, <2>4, DropRowEffect DEF discard_clip_metadata, LooseInv
  <2>5. CASE CloseRenames(c)
    <3>1. /\ rec[c] = "recording" /\ rec'[c] \in {"damaged", "close"} /\ row' = row
          /\ \/ fin'[c].path = "inflight" /\ disk' = disk /\ young' = young
             \/ /\ fin'[c].path = "final"
                /\ disk' = (disk \ {<<c, "inflight">>}) \cup {<<c, "final">>}
                /\ young' = (young \ {<<c, "inflight">>}) \cup {<<c, "final">>}
      BY <1>0, <2>5 DEF CloseRenames, Rename, TypeOK
    <3>2. \A p \in Kind : <<c, p>> \notin cand
      BY <1>0, <1>6 DEF LooseInv
    <3>3. <<c, "final">> \notin disk
      BY <1>0, <1>6, <3>1 DEF LooseInv
    <3>4. <<c, "inflight">> \in disk => <<c, "inflight">> \in young
      BY <1>0, <3>1 DEF FileInv
    <3> QED  BY <1>1, <1>4, <1>6, <3>1, <3>2, <3>3, <3>4 DEF LooseInv, Held, Kind
  <2>6. CASE QuarantineDamaged(c)
    <3>1. /\ rec[c] = "damaged" /\ rec'[c] = "close" /\ row' = row /\ fin' = fin
          /\ UNCHANGED <<disk, young>>
      BY <1>0, <2>6 DEF QuarantineDamaged, TypeOK
    <3> QED  BY <1>0, <1>1, <1>4, <1>6, <3>1 DEF LooseInv, Held, Kind
  <2>7. CASE close_clip(c)
    <3>1. row[c] # "none"
      BY <1>0, <2>7 DEF close_clip, RecorderInv, Holding
    <3>2. /\ rec[c] = "close" /\ rec'[c] = "idle" /\ UNCHANGED <<disk, young>>
          /\ row'[c] = "closed" /\ hot'[c] = fin[c].path
      BY <1>0, <1>3, <1>6, <2>7, <3>1 DEF close_clip, TypeOK, Exists
    <3> QED  BY <1>0, <1>1, <1>4, <1>6, <3>2 DEF LooseInv, Held, Referenced, Exists, Kind
  <2> QED  BY <2>1, <2>2, <2>3, <2>4, <2>5, <2>6, <2>7 DEF RecStep
<1>7. LooseInv(c)'
  BY <1>5, <1>6 DEF LooseInv
<1> QED  BY <1>2, <1>7 DEF LeakInv

LEMMA EvictorLeaks ==
    ASSUME TiersInv, PlaysInv, LeakInv, ~Fault, EvictStep
    PROVE  LeakInv'
<1> USE DEF rowVars, fileVars, recVars, repVars, evVars, swVars, jobVars, EvFrame, EvGoto, EvDone
<1>0. TypeOK /\ EvictInv /\ SoftInv
  BY DEF TiersInv, TaskInv, PlaysInv
<1>1. UNCHANGED <<rec, fin, job, cand, known, swPc>>
  BY DEF EvictStep, EvictFind, SoftUnlink, clear_hot_pointer, HardDelete, HardUnlink
<1>2. \A f : f \in disk' => f \in disk /\ (f \in young => f \in young')
  BY DEF EvictStep, EvictFind, SoftUnlink, clear_hot_pointer, HardDelete, HardUnlink, Unlink
<1>3. ASSUME NEW d \in Clip, row'[d] = row[d], hot'[d] = hot[d] PROVE LooseInv(d)'
  BY <1>1, <1>2, <1>3, LooseAside DEF LeakInv
<1>4. CASE EvictFind \/ SoftUnlink \/ HardUnlink
  <2>1. UNCHANGED <<row, hot>>
    BY <1>4 DEF EvictFind, SoftUnlink, HardUnlink
  <2> QED  BY <1>3, <2>1 DEF LeakInv
(* The file is gone before the pointer to it.                              *)
<1>5. CASE clear_hot_pointer
  <2>1. /\ evPc = "clear" /\ evClip \in Clip /\ row' = row /\ disk' = disk /\ young' = young
        /\ hot' = hot \/ hot' = [hot EXCEPT ![evClip] = "null"]
    BY <1>0, <1>5 DEF clear_hot_pointer, EvictInv
  <2>2. ASSUME NEW d \in Clip PROVE LooseInv(d)'
    <3>1. CASE d # evClip
      BY <1>0, <1>3, <2>1, <3>1 DEF TypeOK
    <3>2. CASE d = evClip
      <4>1. row[d] # "gone" => hot[d] = evPath /\ <<d, evPath>> \notin disk
        BY <1>0, <2>1, <3>2 DEF SoftInv
      <4>2. LooseInv(d)
        BY DEF LeakInv
      <4> QED  BY <1>1, <2>1, <4>1, <4>2 DEF LooseInv, Held, Referenced, Exists
    <3> QED  BY <3>1, <3>2
  <2> QED  BY <2>2 DEF LeakInv
<1>6. CASE HardDelete
  <2>1. evClip \in Clip
    BY <1>0, <1>6 DEF HardDelete, EvictInv
  <2>2. CASE UNCHANGED rowVars
    BY <1>3, <2>2 DEF LeakInv
  <2>3. CASE DropRow(evClip)
    BY <1>0, <1>3, <2>1, <2>3, DropRowEffect DEF LeakInv, LooseInv
  <2> QED  BY <1>6, <2>2, <2>3 DEF HardDelete
<1> QED  BY <1>4, <1>5, <1>6 DEF EvictStep

(* The scan puts a file on its list only when its row was deleted: one     *)
(* that was held when the known paths were read is still young at the end  *)
(* of the walk.                                                            *)
LEMMA SweeperLeaks ==
    ASSUME TiersInv, LeakInv, ~Fault, SweepStep
    PROVE  LeakInv'
<1> USE DEF rowVars, fileVars, recVars, repVars, evVars, swVars, jobVars, SwFrame, SwEnds
<1>0. TypeOK /\ SweepInv /\ \A d \in Clip : LooseInv(d)
  BY DEF TiersInv, TaskInv, LeakInv
<1>1. UNCHANGED <<rec, fin, job>>
  BY DEF SweepStep, SweepList, SweepUnlink, SweepDelete, ScanKnown, ScanWalk, ScanReap
<1>2. \A f : f \in disk' => f \in disk /\ (f \in young => f \in young')
  BY DEF SweepStep, SweepList, SweepUnlink, SweepDelete, ScanKnown, ScanWalk, ScanReap, Unlink
<1>3. ASSUME NEW d \in Clip, row'[d] = row[d], hot'[d] = hot[d], cand' \subseteq cand, swPc' # "walk"
      PROVE  LooseInv(d)'
  BY <1>0, <1>1, <1>2, <1>3, LooseAside
<1>4. CASE SweepList \/ SweepUnlink \/ ScanReap
  <2>1. UNCHANGED <<row, hot>> /\ cand' \subseteq cand /\ swPc' # "walk"
    BY <1>4 DEF SweepList, SweepUnlink, ScanReap
  <2> QED  BY <1>3, <2>1 DEF LeakInv
<1>5. CASE SweepDelete
  <2>1. swCur \in Clip /\ cand' \subseteq cand /\ swPc' # "walk"
    BY <1>0, <1>5 DEF SweepInv, SweepDelete
  <2>2. CASE UNCHANGED rowVars
    BY <1>3, <2>1, <2>2 DEF LeakInv
  <2>3. CASE DropRow(swCur)
    BY <1>0, <1>3, <2>1, <2>3, DropRowEffect DEF LeakInv, LooseInv
  <2> QED  BY <1>5, <2>2, <2>3 DEF SweepDelete
<1>6. CASE ScanKnown
  <2>1. UNCHANGED <<row, hot, cand, disk, young>>
        /\ known' = {<<c, hot[c]>> : c \in {d \in Clip : Exists(d) /\ hot[d] # "null"}}
    BY <1>6 DEF ScanKnown
  <2>2. ASSUME NEW d \in Clip PROVE LooseInv(d)'
    <3>1. \A p \in Kind : Referenced(<<d, p>>) => <<d, p>> \in known'
      BY <2>1 DEF Referenced, Kind
    <3> QED  BY <1>0, <1>1, <2>1, <3>1 DEF LooseInv, Held, Referenced, Exists
  <2> QED  BY <2>2 DEF LeakInv
<1>7. CASE ScanWalk
  <2>1. /\ UNCHANGED <<row, hot, known, disk, young>> /\ swPc = "walk" /\ swPc' = "reap"
        /\ cand' = {f \in disk \ known : f \notin young}
    BY <1>7 DEF ScanWalk, Spared
  <2>2. ASSUME NEW d \in Clip PROVE LooseInv(d)'
    BY <1>0, <1>1, <2>1 DEF LooseInv, Held, Referenced, Exists
  <2> QED  BY <2>2 DEF LeakInv
<1> QED  BY <1>4, <1>5, <1>6, <1>7 DEF SweepStep

(* A cache job ends with its partial renamed and its file registered, or   *)
(* with its clip deleted.                                                  *)
LEMMA CacheLeaks ==
    ASSUME TiersInv, PlaysInv, LeakInv, ~Fault, NEW c \in Clip, JobStep(c)
    PROVE  LeakInv'
<1> USE DEF rowVars, fileVars, recVars, repVars, evVars, swVars, jobVars, JobFrame, JobGoto
<1>0. TypeOK /\ JobInv(c) /\ RecorderInv(c) /\ LooseInv(c)
  BY DEF TiersInv, RowInv, PlaysInv, ClipInv, LeakInv
<1>1. UNCHANGED <<row, rec, fin, swPc, known, cand>>
  BY DEF JobStep, Spawn, Permit, ReadRow, Listen, Download, WritePartial, RenamePartial,
     repopulate_hot_pointer
<1>2. \A d \in Clip \ {c} : LooseInv(d)'
  <2>1. ASSUME NEW d \in Clip \ {c}
        PROVE  /\ hot'[d] = hot[d] /\ job'[d] = job[d]
               /\ \A p : <<d, p>> \in disk' <=> <<d, p>> \in disk
               /\ \A p : <<d, p>> \in young' <=> <<d, p>> \in young
    BY <1>0, <2>1 DEF JobStep, Spawn, Permit, ReadRow, Listen, Download, WritePartial,
       RenamePartial, repopulate_hot_pointer, Write, Rename, TypeOK
  <2> QED  BY <1>1, <2>1, LooseAside DEF LeakInv
<1>3. ASSUME row[c] # "gone" PROVE LooseInv(c)'
  <2>1. CASE Spawn(c) \/ Permit(c) \/ ReadRow(c) \/ Listen(c) \/ Download(c)
    <3>1. /\ UNCHANGED <<hot, disk, young>>
          /\ job[c] \notin {"partial", "renamed"} /\ job'[c] \notin {"partial", "renamed"}
      BY <1>0, <2>1 DEF Spawn, Permit, ReadRow, Listen, Download, TypeOK
    <3> QED  BY <1>0, <1>1, <3>1 DEF LooseInv, Held, Referenced, Exists
  <2>2. CASE WritePartial(c)
    <3>1. /\ hot' = hot /\ job[c] = "verified" /\ job'[c] = "partial"
          /\ disk' = disk \cup {<<c, "partial">>} /\ young' = young \cup {<<c, "partial">>}
      BY <1>0, <2>2 DEF WritePartial, Write, TypeOK
    <3>2. hot[c] = "null"
      BY <1>0, <1>3, <3>1 DEF JobInv
    <3>3. <<c, "cache">> \notin disk
      BY <1>0, <1>3, <3>1, <3>2, NoOtherFile DEF Held, Referenced, Kind
    <3> QED  BY <1>0, <1>1, <1>3, <3>1, <3>2, <3>3 DEF LooseInv, Held, Referenced, Exists, Kind
  <2>3. CASE RenamePartial(c)
    <3>1. /\ hot' = hot /\ job[c] = "partial" /\ job'[c] = "renamed"
          /\ disk' = (disk \ {<<c, "partial">>}) \cup {<<c, "cache">>}
          /\ young' = (young \ {<<c, "partial">>}) \cup {<<c, "cache">>}
      BY <1>0, <2>3 DEF RenamePartial, Rename, TypeOK
    <3> QED  BY <1>0, <1>1, <1>3, <3>1 DEF LooseInv, Held, Referenced, Exists, Kind
  <2>4. CASE repopulate_hot_pointer(c)
    <3>1. row[c] = "closed" /\ hot[c] = "null" /\ rec[c] = "idle" /\ job[c] = "renamed"
      BY <1>0, <1>3, <2>4 DEF repopulate_hot_pointer, JobInv, RecorderInv
    <3>2. UNCHANGED <<disk, young>> /\ job'[c] = "none" /\ hot'[c] = "cache"
      BY <1>0, <2>4, <3>1 DEF repopulate_hot_pointer, Exists, TypeOK
    <3> QED  BY <1>0, <1>1, <1>3, <3>1, <3>2 DEF LooseInv, Held, Referenced, Exists, Kind
  <2> QED  BY <2>1, <2>2, <2>3, <2>4 DEF JobStep
<1>4. LooseInv(c)'
  BY <1>1, <1>3 DEF LooseInv
<1> QED  BY <1>2, <1>4 DEF LeakInv

LEMMA OthersLeak ==
    ASSUME TiersInv, LeakInv,
           \/ RepStep
           \/ \E c \in Clip : AgeClip(c) \/ BackoffEnds(c)
           \/ \E f \in File : AgeFile(f)
           \/ \E l \in {"Ok", "Low", "Panic"} : SetLevel(l)
           \/ SetTarget
           \/ UNCHANGED vars
    PROVE  LeakInv'
<1> USE DEF rowVars, fileVars, recVars, repVars, evVars, swVars, jobVars
<1>0. TypeOK /\ \A d \in Clip : LooseInv(d)
  BY DEF TiersInv, LeakInv
<1>1. UNCHANGED <<row, hot, rec, fin, disk, swPc, known, cand>>
  BY DEF RepStep, RepTick, RepNext, RepExists, RepRead, RepPut, mark_cold_replicated,
     record_cold_upload_failure, RepFrame, AgeClip, BackoffEnds, AgeFile, SetLevel, SetTarget,
     vars
<1>2. ASSUME UNCHANGED <<young, job>> PROVE LeakInv'
  BY <1>0, <1>1, <1>2, LooseAside DEF LeakInv
<1>3. ASSUME NEW f \in File, AgeFile(f) PROVE LeakInv'
  <2>1. job' = job /\ young' = young \ {f} /\ ~Held(f) /\ swPc # "walk"
    BY <1>3 DEF AgeFile
  <2>2. ASSUME NEW d \in Clip PROVE LooseInv(d)'
    BY <1>0, <1>1, <2>1 DEF LooseInv, Held, Referenced, Exists
  <2> QED  BY <2>2 DEF LeakInv
<1>4. ASSUME NEW l \in {"Ok", "Low", "Panic"}, SetLevel(l) PROVE LeakInv'
  <2>1. /\ young' = young
        /\ \A d \in Clip : job'[d] = job[d] \/ (job[d] = "loading" /\ job'[d] = "none")
    BY <1>4 DEF SetLevel
  <2>2. ASSUME NEW d \in Clip PROVE LooseInv(d)'
    BY <1>0, <1>1, <2>1 DEF LooseInv, Held, Referenced, Exists
  <2> QED  BY <2>2 DEF LeakInv
<1>5. CASE RepStep \/ (\E c \in Clip : AgeClip(c) \/ BackoffEnds(c)) \/ SetTarget
          \/ UNCHANGED vars
  <2>1. UNCHANGED <<young, job>>
    BY <1>5 DEF RepStep, RepTick, RepNext, RepExists, RepRead, RepPut, mark_cold_replicated,
       record_cold_upload_failure, RepFrame, AgeClip, BackoffEnds, SetTarget, vars
  <2> QED  BY <1>2, <2>1
<1> QED  BY <1>3, <1>4, <1>5

(* Rows and files agree as long as nothing fails.                          *)
AgreeInv == CleanInv /\ (Clean => LeakInv)

LEMMA AgreeKept ==
    ASSUME TiersInv, AgreeInv, [Next]_vars
    PROVE  AgreeInv'
<1>1. TypeOK /\ LeftInv /\ CleanInv
  BY DEF TiersInv, AgreeInv, CleanInv
<1>2. CleanInv' /\ (Clean' => Clean)
  BY <1>1, LeftStep, CleanKept
<1>3. ASSUME Clean' PROVE LeakInv'
  <2>1. PlaysInv /\ LeakInv /\ ~Fault /\ ~Crash
    BY <1>1, <1>2, <1>3, CleanStep DEF AgreeInv, CleanInv, PlaysInv
  <2> QED
    BY <2>1, RecorderLeaks, EvictorLeaks, SweeperLeaks, CacheLeaks, OthersLeak DEF Next
<1> QED  BY <1>2, <1>3 DEF AgreeInv

LEMMA AgreeInvariance == Spec => [](TiersInv /\ AgreeInv)
<1>1. Init => AgreeInv
  <2>1. Init => CleanInv
    BY TiersAssumption DEF TiersAssumption, Init, CleanInv, LeftInv, Clean, SoftInv, ClipInv,
       JobInv, NamedInv, CacheInv, PlayInv, HotCopy
  <2>2. Init => LeakInv
    BY DEF Init, LeakInv, LooseInv
  <2> QED  BY <2>1, <2>2 DEF AgreeInv
<1>2. TiersInv /\ AgreeInv /\ [Next]_vars => AgreeInv'
  BY AgreeKept
<1> QED  BY <1>1, <1>2, TiersInvariant, PTL DEF Spec

(* A file is a clip and a kind of file.                                    *)
LEMMA FilePair ==
    ASSUME NEW f \in File
    PROVE  f[1] \in Clip /\ f[2] \in Kind /\ f = <<f[1], f[2]>>
BY DEF File, Kind

(* Until an access fails or the engine dies, rows and files agree: after a *)
(* pressure episode no row names a missing file, and at no time is there a *)
(* file that no task holds and no row names, save of a deleted clip.       *)
THEOREM RowsAndFilesAgree == Spec => []RowsMatchFiles
<1>1. TiersInv /\ AgreeInv => PlaysUnlessFault
  BY DEF AgreeInv, CleanInv, PlaysUnlessFault, PlaysAfterPressure, SoftInv, ClipInv, PlayInv
<1>2. TiersInv /\ AgreeInv => NoLeakUnlessFault
  <2>1. SUFFICES ASSUME TiersInv, LeakInv, NEW f \in disk, row[f[1]] # "gone"
                 PROVE  Held(f) \/ Referenced(f)
    BY DEF AgreeInv, NoLeakUnlessFault
  <2>2. f \in File
    BY <2>1 DEF TiersInv, TypeOK
  <2>3. LooseInv(f[1]) /\ f[1] \in Clip /\ f[2] \in Kind /\ f = <<f[1], f[2]>>
    BY <2>1, <2>2, FilePair DEF LeakInv
  <2> QED  BY <2>1, <2>3 DEF LooseInv
<1> QED  BY <1>1, <1>2, AgreeInvariance, PTL DEF RowsMatchFiles

(* retention.rs lets the scan delete files "with no DB row": until an      *)
(* access fails or the engine dies it deletes no others, in whatever order *)
(* the other tasks rename, register and unlink between its query, its walk *)
(* and its unlink.                                                         *)
THEOREM ScanSparesRows == Spec => ScanSparesClipsUnlessFault
<1>1. TiersInv /\ AgreeInv /\ Clean /\ ScanReap => \A f \in disk \ disk' : row[f[1]] = "gone"
  <2>1. SUFFICES ASSUME TiersInv, LeakInv, ScanReap, NEW f \in disk \ disk'
                 PROVE  row[f[1]] = "gone"
    BY DEF AgreeInv
  <2>2. f \in cand /\ f \in File
    BY <2>1 DEF ScanReap, Unlink, fileVars, TiersInv, TypeOK
  <2>3. LooseInv(f[1]) /\ f[2] \in Kind /\ f = <<f[1], f[2]>>
    BY <2>1, <2>2, FilePair DEF LeakInv
  <2> QED  BY <2>2, <2>3 DEF LooseInv
<1> QED  BY <1>1, AgreeInvariance, PTL DEF ScanSparesClipsUnlessFault

=============================================================================
