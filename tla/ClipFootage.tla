---------------------------- MODULE ClipFootage ----------------------------
(***************************************************************************)
(* What the storage tiers promise about recorded footage.  A closed clip   *)
(* is kept, in at least one copy, until somebody deletes it as a whole; a  *)
(* copy is dropped only while another one remains, or once the clip is     *)
(* past the retention horizon.                                             *)
(***************************************************************************)
CONSTANT Clip

VARIABLES
    kept,       \* clips whose recording is finished and not yet deleted
    deleted,    \* clips deleted, finished or not; they never come back
    copies,     \* the tiers that hold a readable copy of a kept clip
    expired     \* clips past the retention horizon

fvars == <<kept, deleted, copies, expired>>

FInit ==
    /\ kept = {} /\ deleted = {} /\ expired = {}
    /\ copies = [c \in Clip |-> {}]

Keep(c) ==
    /\ c \notin kept \cup deleted
    /\ kept' = kept \cup {c}
    /\ copies' = [copies EXCEPT ![c] = {"hot"}]
    /\ UNCHANGED <<deleted, expired>>

(* A copy goes up to the cold tier or comes back from it; past the horizon *)
(* an upload under way may outlive the file it read.                       *)
Copy(c, t) ==
    /\ c \in kept
    /\ copies[c] # {} \/ c \in expired
    /\ copies' = [copies EXCEPT ![c] = @ \cup {t}]
    /\ UNCHANGED <<kept, deleted, expired>>

Drop(c) ==
    /\ c \in kept
    /\ "cold" \in copies[c] \/ c \in expired
    /\ copies' = [copies EXCEPT ![c] = @ \ {"hot"}]
    /\ UNCHANGED <<kept, deleted, expired>>

Delete(c) ==
    /\ c \notin deleted
    /\ kept' = kept \ {c}
    /\ deleted' = deleted \cup {c}
    /\ copies' = [copies EXCEPT ![c] = {}]
    /\ UNCHANGED expired

Expire(c) ==
    /\ expired' = expired \cup {c}
    /\ UNCHANGED <<kept, deleted, copies>>

FNext ==
    \E c \in Clip :
        \/ Keep(c) \/ Drop(c) \/ Delete(c) \/ Expire(c)
        \/ \E t \in {"hot", "cold"} : Copy(c, t)

FSpec == FInit /\ [][FNext]_fvars
=============================================================================
