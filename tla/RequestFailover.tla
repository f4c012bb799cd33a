--------------------------- MODULE RequestFailover ---------------------------
(***************************************************************************)
(* What a client may expect of one request to an HA ring of clusters, with *)
(* nothing about cursors, permutations or locks: the request is tried at   *)
(* one cluster after another, never twice at the same one; it ends with a  *)
(* cluster's answer, or it is given up as unavailable, and then every      *)
(* cluster of the ring has failed it or was refused as unusable.           *)
(***************************************************************************)
EXTENDS Naturals

CONSTANTS
    Threads,
    Urls

VARIABLES
    trying,          \* whether the thread has a call under way
    tried,           \* clusters that failed the call
    outcome,
    disableFailover  \* the client asked for no failover

vars == <<trying, tried, outcome, disableFailover>>

Init ==
    /\ trying \in [Threads -> BOOLEAN]
    /\ tried = [t \in Threads |-> {}]
    /\ outcome = [t \in Threads |-> "none"]
    /\ disableFailover \in BOOLEAN

Begin(t) ==
    /\ ~trying[t]
    /\ trying' = [trying EXCEPT ![t] = TRUE]
    /\ tried' = [tried EXCEPT ![t] = {}]
    /\ outcome' = [outcome EXCEPT ![t] = "none"]
    /\ UNCHANGED disableFailover

Fail(t) ==
    /\ trying[t]
    /\ \E c \in Urls \ tried[t] : tried' = [tried EXCEPT ![t] = @ \cup {c}]
    /\ UNCHANGED <<trying, outcome, disableFailover>>

End(t, o) ==
    /\ trying[t]
    /\ o \in {"ok", "error"} => tried[t] # Urls
    /\ o = "unavailable" => tried[t] = Urls
    /\ o = "disabled" => disableFailover /\ tried[t] # {}
    /\ trying' = [trying EXCEPT ![t] = FALSE]
    /\ outcome' = [outcome EXCEPT ![t] = o]
    /\ UNCHANGED <<tried, disableFailover>>

Next ==
    \E t \in Threads :
        Begin(t) \/ Fail(t) \/ \E o \in {"ok", "error", "unavailable", "disabled"} : End(t, o)

Spec == Init /\ [][Next]_vars
=============================================================================
