--------------------------- MODULE AlertDelivery ---------------------------
(***************************************************************************)
(* What alert delivery promises for every (alert, sink) pair, with no      *)
(* queue, no clip, no snapshot and no retry in sight:                      *)
(*   - an alert's rows appear together, all of them pending;               *)
(*   - only a pending row is ever handed to its sink;                      *)
(*   - a pending row settles once, as sent, dead or suppressed, and is     *)
(*     sent only if its sink took the alert;                               *)
(*   - a settled row never changes again, except that it may be deleted.   *)
(***************************************************************************)
EXTENDS Naturals

CONSTANTS
    Event,      \* alerts that may fire
    Sink        \* alert sinks an alert may be routed to

VARIABLES
    st,         \* st[<<e, s>>]: the row's status, "none" when there is no row
    accepted    \* the rows whose sink has taken the alert

dvars == <<st, accepted>>

Row == Event \X Sink

Settled == {"sent", "dead", "suppressed"}

DInit ==
    /\ st = [r \in Row |-> "none"]
    /\ accepted = {}

(* Event e is recorded: its rows become pending in one step.               *)
Publish(e, D) ==
    /\ \A s \in Sink : st[<<e, s>>] = "none"
    /\ st' = [r \in Row |-> IF r[1] = e /\ r[2] \in D THEN "pending" ELSE st[r]]
    /\ UNCHANGED accepted

(* The sink takes the alert of a pending row, or of a row that was deleted *)
(* while its delivery was on the way.                                      *)
Accept(r) ==
    /\ st[r] \in {"pending", "none"}
    /\ accepted' = accepted \cup {r}
    /\ UNCHANGED st

Settle(r, outcome) ==
    /\ st[r] = "pending"
    /\ outcome = "sent" => r \in accepted
    /\ st' = [st EXCEPT ![r] = outcome]
    /\ UNCHANGED accepted

(* Rows are deleted: by age, or with the event they belong to.             *)
Delete(R) ==
    /\ st' = [r \in Row |-> IF r \in R THEN "none" ELSE st[r]]
    /\ UNCHANGED accepted

DNext ==
    \/ \E e \in Event, D \in SUBSET Sink : Publish(e, D)
    \/ \E r \in Row : Accept(r)
    \/ \E r \in Row, outcome \in Settled : Settle(r, outcome)
    \/ \E R \in SUBSET Row : Delete(R)

DSpec == DInit /\ [][DNext]_dvars
=============================================================================
