----------------------------- MODULE SingleFlight -----------------------------
(***************************************************************************)
(* What Autosync promises, without handlers, queue, workers and peers: for *)
(* every CID there is one job at a time, which waits, is worked on, is     *)
(* settled and released, and at most one import comes from it.             *)
(***************************************************************************)
CONSTANTS
    Keys,   \* CIDs
    Good    \* those whose record is valid

VARIABLES
    flight, \* flight[k]: the stage of the job for k
    store   \* keys that are stored

vars == <<flight, store>>

Init == flight = [k \in Keys |-> "none"] /\ store = {}

Move(k, from, to) ==
    /\ flight[k] = from /\ flight' = [flight EXCEPT ![k] = to]

(* An announcement is accepted; it may be dropped while it waits. *)
Accept(k) == Move(k, "none", "waiting") /\ UNCHANGED store
Drop(k) == Move(k, "waiting", "none") /\ UNCHANGED store

Pick(k) == Move(k, "waiting", "working") /\ UNCHANGED store

(* A job ends with an import of what was announced, or without one. *)
Import(k) == k \in Good /\ Move(k, "working", "settled") /\ store' = store \cup {k}
GiveUp(k) == Move(k, "working", "settled") /\ UNCHANGED store

Release(k) == Move(k, "settled", "none") /\ UNCHANGED store

(* The API stores or deletes a record, whatever jobs do. *)
Local(k) == store' \in {store \ {k}, store \cup ({k} \cap Good)} /\ UNCHANGED flight

(* The process restarts. *)
Restart == flight' = [k \in Keys |-> "none"] /\ UNCHANGED store

Next ==
    \/ \E k \in Keys : Accept(k) \/ Drop(k) \/ Pick(k) \/ Import(k) \/ GiveUp(k) \/ Release(k) \/ Local(k)
    \/ Restart

Spec == Init /\ [][Next]_vars
=============================================================================
