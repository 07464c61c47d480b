----------------------------- MODULE LocalRouting -----------------------------
(***************************************************************************)
(* What a node says about its own records: server/routing/routing_local.go *)
(* (Publish, Unpublish), routing.go, metrics.go and the republishing task  *)
(* of cleanup_tasks.go, over the routing datastore.                        *)
(*                                                                         *)
(* Publication workers and Unpublish requests run concurrently, each as a  *)
(* sequence of datastore calls without a lock around them; a batch commits *)
(* atomically.  The republishing task announces every published record     *)
(* again and removes the ones the store no longer has.  Pushes and         *)
(* deletions in the record store do not touch the routing datastore.       *)
(***************************************************************************)
EXTENDS Naturals, FiniteSets

CONSTANTS
    Cids,       \* record CIDs
    Labels,     \* labels
    LabelsOf,   \* LabelsOf[c]: GetLabelsFromRecord of the record
    Callers,    \* concurrent Publish and Unpublish calls
    MaxFaults,  \* bound: failing datastore, store and network calls, and crashes
    MaxTotal,   \* bound: the Total of a label
    NoCid       \* "no CID"

ASSUME LabelsAssumption == LabelsOf \in [Cids -> SUBSET Labels] /\ NoCid \notin Cids
ASSUME BoundAssumption == MaxFaults \in Nat /\ MaxTotal \in Nat

VARIABLES
    stored,     \* CIDs in the record store
    records,    \* CIDs with a /records/ key
    labels,     \* labels[c]: labels with a key for c and the local peer
    metrics,    \* metrics[l]: Total of the label, 0 when it has no entry
    pc,         \* pc[k]: the next step of a call, or "idle"
    op,         \* op[k]: "publish" or "unpublish"
    arg,        \* arg[k]: the CID of the call
    loaded,     \* loaded[k]: the Metrics value in the call's memory
    task,       \* the republishing task: "idle", "scan", "query" or "commit"
    todo,       \* CIDs of its query not looked up yet
    orphans,    \* orphanedCIDs
    batch,      \* labels of the current orphan that its query has found
    current,    \* the orphan being cleaned up
    announced,  \* CIDs with a live provider record in the DHT
    faults,     \* counter for the bound
    acked,      \* history: published, and nothing has ended that since
    skewed,     \* history: CIDs committed between query and commit of a cleanup
    exact       \* history: "yes" until something the counters cannot survive happens

store == <<records, labels, metrics>>
calls == <<pc, op, arg, loaded>>
taskVars == <<task, todo, orphans, batch, current>>
history == <<acked, skewed, exact>>
vars == <<stored, store, calls, taskVars, announced, faults, history>>

Zero == [l \in Labels |-> 0]

Init ==
    /\ stored = {} /\ records = {} /\ announced = {} /\ acked = {} /\ skewed = {}
    /\ labels = [c \in Cids |-> {}] /\ metrics = Zero
    /\ pc = [k \in Callers |-> "idle"] /\ op = [k \in Callers |-> "publish"]
    /\ arg = [k \in Callers |-> NoCid] /\ loaded = [k \in Callers |-> Zero]
    /\ task = "idle" /\ todo = {} /\ orphans = {} /\ batch = {} /\ current = NoCid
    /\ faults = 0 /\ exact = "yes"

Fault == faults < MaxFaults /\ faults' = faults + 1

(* A call returns: its locals are gone. *)
Return(k) ==
    /\ pc' = [pc EXCEPT ![k] = "idle"]
    /\ op' = [op EXCEPT ![k] = "publish"] /\ arg' = [arg EXCEPT ![k] = NoCid]
    /\ loaded' = [loaded EXCEPT ![k] = Zero]

(* Calls between their loadMetrics and their update. *)
Counting == {k \in Callers : pc[k] \in {"check", "commit", "update"}}

(* Metrics.increment and Metrics.decrement, for all labels of a record: a count
   that reaches zero loses its entry, one without an entry stays without. *)
increment(m, ls) == [l \in Labels |-> IF l \in ls THEN m[l] + 1 ELSE m[l]]
decrement(m, ls) == [l \in Labels |-> IF l \in ls /\ m[l] > 0 THEN m[l] - 1 ELSE m[l]]

-----------------------------------------------------------------------------
(* The record store, which knows nothing of routing. *)
Push(c) ==
    /\ c \notin stored
    /\ stored' = stored \cup {c}
    /\ UNCHANGED <<store, calls, taskVars, announced, faults, history>>

Delete(c) ==
    /\ c \in stored
    /\ stored' = stored \ {c}
    /\ acked' = acked \ {c}
    /\ UNCHANGED <<store, calls, taskVars, announced, faults, skewed, exact>>

(* A provider record reaches the end of its life in the DHT. *)
Expire(c) ==
    /\ c \in announced
    /\ announced' = announced \ {c}
    /\ UNCHANGED <<stored, store, calls, taskVars, faults, history>>

-----------------------------------------------------------------------------
(* The publication worker, or the controller's Unpublish, pulls the record and
   calls routing. *)
Begin(k, o, c) ==
    /\ pc[k] = "idle" /\ c \in stored
    /\ pc' = [pc EXCEPT ![k] = "load"]
    /\ op' = [op EXCEPT ![k] = o] /\ arg' = [arg EXCEPT ![k] = c]
    /\ UNCHANGED <<stored, store, loaded, taskVars, announced, faults, history>>

(* loadMetrics: the counters are read here and written back by UpdateMetrics. *)
LoadMetrics(k) ==
    /\ pc[k] = "load"
    /\ loaded' = [loaded EXCEPT ![k] = metrics]
    /\ pc' = [pc EXCEPT ![k] = IF op[k] = "publish" THEN "check" ELSE "commit"]
    /\ exact' = IF Counting # {} THEN "no" ELSE exact
    /\ UNCHANGED <<stored, store, op, arg, taskVars, announced, faults, acked, skewed>>

(* Mutant: a record is stored in the batch without a look at what is there. *)
CheckExistsNot(k) ==
    /\ pc[k] = "check"
    /\ pc' = [pc EXCEPT ![k] = "commit"]
    /\ UNCHANGED <<stored, store, op, arg, loaded, taskVars, announced, faults, history>>

(* Publish of a record that has its key already ends the local part. *)
CheckExists(k) ==
    /\ pc[k] = "check"
    /\ IF arg[k] \in records
       THEN /\ pc' = [pc EXCEPT ![k] = "announce"]
            /\ loaded' = [loaded EXCEPT ![k] = Zero]
       ELSE /\ pc' = [pc EXCEPT ![k] = "commit"]
            /\ UNCHANGED loaded
    /\ acked' = IF arg[k] \in (records \cap stored) \ orphans THEN acked \cup {arg[k]} ELSE acked
    /\ UNCHANGED <<stored, store, op, arg, taskVars, announced, faults, skewed, exact>>

-----------------------------------------------------------------------------
(* Mutants, each before the definition it deviates from. *)

(* Unpublish forgets the label keys. *)
CommitUnpublishKeepsLabels(k) ==
    /\ pc[k] = "commit" /\ op[k] = "unpublish"
    /\ records' = records \ {arg[k]}
    /\ loaded' = [loaded EXCEPT ![k] = decrement(@, LabelsOf[arg[k]])]
    /\ pc' = [pc EXCEPT ![k] = "update"]
    /\ acked' = acked \ {arg[k]}
    /\ exact' = IF arg[k] \in records THEN exact ELSE "no"
    /\ UNCHANGED <<stored, labels, metrics, op, arg, taskVars, announced, faults, skewed>>

-----------------------------------------------------------------------------
(* The batch of Publish: the record key and one key per label. *)
CommitPublish(k) ==
    /\ pc[k] = "commit" /\ op[k] = "publish" /\ \A l \in Labels : loaded[k][l] < MaxTotal
    /\ records' = records \cup {arg[k]}
    /\ labels' = [labels EXCEPT ![arg[k]] = @ \cup LabelsOf[arg[k]]]
    /\ loaded' = [loaded EXCEPT ![k] = increment(@, LabelsOf[arg[k]])]
    /\ pc' = [pc EXCEPT ![k] = "update"]
    /\ acked' = IF arg[k] \in stored \ orphans THEN acked \cup {arg[k]} ELSE acked
    /\ skewed' = IF task = "commit" /\ arg[k] = current THEN skewed \cup {arg[k]} ELSE skewed
    /\ UNCHANGED <<stored, metrics, op, arg, taskVars, announced, faults, exact>>

(* The batch of Unpublish: it deletes the keys and counts down whether or not
   the record was published. *)
CommitUnpublish(k) ==
    /\ pc[k] = "commit" /\ op[k] = "unpublish"
    /\ records' = records \ {arg[k]}
    /\ labels' = [labels EXCEPT ![arg[k]] = @ \ LabelsOf[arg[k]]]
    /\ loaded' = [loaded EXCEPT ![k] = decrement(@, LabelsOf[arg[k]])]
    /\ pc' = [pc EXCEPT ![k] = "update"]
    /\ acked' = acked \ {arg[k]}
    /\ exact' = IF arg[k] \in records THEN exact ELSE "no"
    /\ UNCHANGED <<stored, metrics, op, arg, taskVars, announced, faults, skewed>>

(* Metrics.update: the whole counter map is replaced. *)
UpdateMetrics(k) ==
    /\ pc[k] = "update"
    /\ metrics' = loaded[k]
    /\ IF op[k] = "publish"
       THEN /\ pc' = [pc EXCEPT ![k] = "announce"]
            /\ loaded' = [loaded EXCEPT ![k] = Zero]
            /\ UNCHANGED <<op, arg>>
       ELSE Return(k)
    /\ UNCHANGED <<stored, records, labels, taskVars, announced, faults, history>>

(* route.Publish goes to the network if the routing table has peers. *)
Announce(k) ==
    /\ pc[k] = "announce"
    /\ Return(k)
    /\ announced' \in {announced, announced \cup {arg[k]}}
    /\ UNCHANGED <<stored, store, taskVars, faults, history>>

(* A datastore call fails and the call returns an error. *)
Fail(k) ==
    /\ pc[k] # "idle" /\ Fault
    /\ Return(k)
    /\ exact' = IF pc[k] = "update" THEN "no" ELSE exact
    /\ UNCHANGED <<stored, store, taskVars, announced, acked, skewed>>

CallStep(k) ==
    \/ LoadMetrics(k) \/ CheckExists(k) \/ CommitPublish(k) \/ CommitUnpublish(k)
    \/ UpdateMetrics(k) \/ Announce(k)

-----------------------------------------------------------------------------
(* The republishing task: mutants first. *)

(* Orphans are found but not removed. *)
EndLookupsDropsOrphans ==
    /\ task = "scan" /\ todo = {}
    /\ task' = "idle" /\ orphans' = {}
    /\ UNCHANGED <<stored, store, calls, todo, batch, current, announced, faults, history>>

(* Every record that was queried is removed. *)
RepublishWritesOff(c) ==
    /\ task = "scan" /\ c \in todo
    /\ todo' = todo \ {c}
    /\ orphans' = orphans \cup {c}
    /\ UNCHANGED <<stored, store, calls, task, batch, current, announced, faults, history>>

(* Records are looked up but not announced again. *)
RepublishNever(c) ==
    /\ task = "scan" /\ c \in todo
    /\ todo' = todo \ {c}
    /\ orphans' = IF c \in stored THEN orphans ELSE orphans \cup {c}
    /\ acked' = IF c \in stored THEN acked ELSE acked \ {c}
    /\ UNCHANGED <<stored, store, calls, task, batch, current, announced, faults, skewed, exact>>

-----------------------------------------------------------------------------
(* republishLocalProviders: query of the /records/ keys. *)
StartRepublish ==
    /\ task = "idle"
    /\ task' = "scan" /\ todo' = records
    /\ UNCHANGED <<stored, store, calls, orphans, batch, current, announced, faults, history>>

(* One record: an error of Lookup, whatever its reason, makes it an orphan; an
   error of Pull or of publishing is only counted. *)
Republish(c) ==
    /\ task = "scan" /\ c \in todo
    /\ todo' = todo \ {c}
    /\ \/ /\ c \in stored
          /\ announced' = announced \cup {c}
          /\ UNCHANGED <<orphans, acked, faults>>
       \/ /\ c \in stored /\ Fault
          /\ UNCHANGED <<orphans, acked, announced>>
       \/ /\ (c \notin stored /\ UNCHANGED faults) \/ Fault
          /\ orphans' = orphans \cup {c} /\ acked' = acked \ {c}
          /\ UNCHANGED announced
    /\ UNCHANGED <<stored, store, calls, task, batch, current, skewed, exact>>

EndLookups ==
    /\ task = "scan" /\ todo = {}
    /\ task' = IF orphans = {} THEN "idle" ELSE "query"
    /\ UNCHANGED <<stored, store, calls, todo, orphans, batch, current, announced, faults, history>>

(* cleanupLabelsForCID: collect the label keys of an orphan, ... *)
QueryLabels(c) ==
    /\ task = "query" /\ c \in orphans
    /\ current' = c /\ batch' = labels[c] /\ task' = "commit"
    /\ UNCHANGED <<stored, store, calls, todo, orphans, announced, faults, history>>

(* ... then delete them and the record key, without another look at the store.
   The counters are not told. *)
CommitCleanup ==
    /\ task = "commit"
    /\ \/ /\ records' = records \ {current}
          /\ labels' = [labels EXCEPT ![current] = @ \ batch]
          /\ exact' = IF current \in records THEN "no" ELSE exact
          /\ UNCHANGED faults
       \/ Fault /\ UNCHANGED <<records, labels, exact>>
    /\ orphans' = orphans \ {current} /\ current' = NoCid /\ batch' = {}
    /\ task' = IF orphans = {current} THEN "idle" ELSE "query"
    /\ UNCHANGED <<stored, metrics, calls, todo, announced, acked, skewed>>

TaskStep ==
    \/ StartRepublish \/ (\E c \in Cids : Republish(c)) \/ EndLookups
    \/ (\E c \in Cids : QueryLabels(c)) \/ CommitCleanup

(* The process dies and starts again over a datastore on disk. *)
Restart ==
    /\ Fault
    /\ pc' = [k \in Callers |-> "idle"] /\ op' = [k \in Callers |-> "publish"]
    /\ arg' = [k \in Callers |-> NoCid] /\ loaded' = [k \in Callers |-> Zero]
    /\ task' = "idle" /\ todo' = {} /\ orphans' = {} /\ batch' = {} /\ current' = NoCid
    /\ exact' = IF \E k \in Callers : pc[k] = "update" THEN "no" ELSE exact
    /\ UNCHANGED <<stored, store, announced, acked, skewed>>

Next ==
    \/ \E c \in Cids : Push(c) \/ Delete(c) \/ Expire(c)
    \/ \E k \in Callers, o \in {"publish", "unpublish"}, c \in Cids : Begin(k, o, c)
    \/ \E k \in Callers : CallStep(k) \/ Fail(k)
    \/ TaskStep
    \/ Restart

Spec == Init /\ [][Next]_vars

(* The ticker of the task keeps firing. *)
FairSpec == Spec /\ WF_vars(TaskStep)

-----------------------------------------------------------------------------
(* Types, and the places of the task that go together. *)
TypeOK ==
    /\ stored \subseteq Cids /\ records \subseteq Cids /\ announced \subseteq Cids
    /\ labels \in [Cids -> SUBSET Labels] /\ metrics \in [Labels -> Nat]
    /\ pc \in [Callers -> {"idle", "load", "check", "commit", "update", "announce"}]
    /\ op \in [Callers -> {"publish", "unpublish"}] /\ arg \in [Callers -> Cids \cup {NoCid}]
    /\ \A k \in Callers : pc[k] # "idle" => arg[k] \in Cids
    /\ loaded \in [Callers -> [Labels -> Nat]]
    /\ task \in {"idle", "scan", "query", "commit"} /\ todo \subseteq Cids
    /\ orphans \subseteq Cids /\ (task = "idle" => orphans = {})
    /\ (IF task = "commit" THEN current \in orphans ELSE current = NoCid) /\ batch \subseteq Labels
    /\ faults \in 0..MaxFaults /\ acked \subseteq Cids /\ skewed \subseteq Cids
    /\ exact \in {"yes", "no"}

(* A published record stays listed with all its labels until it is unpublished,
   deleted from the store, or written off by a failing Lookup, whatever other
   calls, cleanups, errors and restarts do meanwhile. *)
PublishedIsListed == \A c \in acked : c \in records /\ labels[c] = LabelsOf[c]

(* The record key and the label keys of a record come and go together. *)
LabelsFollowRecords ==
    \A c \in Cids \ skewed : labels[c] = IF c \in records THEN LabelsOf[c] ELSE {}

(* "Number of local records that have this label" (metrics.go:31), as long as
   no two calls overlap, none is cut off before its update, nothing unpublished
   is unpublished and no orphan is removed. *)
MetricsExact ==
    exact = "yes" /\ Counting = {} =>
        \A l \in Labels : metrics[l] = Cardinality({c \in records : l \in LabelsOf[c]})

(* A published record that has left the store does not stay published. *)
OrphansGo == \A c \in Cids : c \in records /\ c \notin stored ~> c \notin records \/ c \in stored

(* A published record without a provider record (announced without peers, lost
   or expired) is announced again, unless it is unpublished or deleted. *)
KeepsAnnouncing ==
    \A c \in Cids : c \in records ~> (c \in announced \/ c \notin records \/ c \notin stored)
=============================================================================
