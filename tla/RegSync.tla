------------------------------- MODULE RegSync -------------------------------
(***************************************************************************)
(* Registry synchronisation: the sync rows (server/database/gorm/sync.go), *)
(* the API that creates and deletes them (server/controller/sync.go), and  *)
(* the reconciler task that works on them (reconciler/tasks/regsync), a    *)
(* separate process on the same database.                                  *)
(*                                                                         *)
(* A pass of the task first turns DELETE_PENDING rows into DELETED ones,   *)
(* then starts one goroutine per PENDING row and waits for all of them.    *)
(* DeleteSync checks the status and writes DELETE_PENDING in two database  *)
(* calls; no status write looks at the status it replaces.                 *)
(*                                                                         *)
(* General names have the prefix Sync: proofs about this module extend     *)
(* others too.                                                             *)
(***************************************************************************)
EXTENDS Naturals

CONSTANTS
    Syncs,        \* sync IDs
    SyncClients,  \* concurrent callers of DeleteSync
    MaxDbFaults,  \* bound: failing database calls
    MaxRestarts,  \* bound: crashes of the reconciler
    NoSync        \* "no sync"

ASSUME SyncBounds == MaxDbFaults \in Nat /\ MaxRestarts \in Nat
ASSUME NoSyncAssumption == NoSync \notin Syncs

VARIABLES
    status,    \* status[s]: the row's Status, or "absent"
    pass,      \* phase of Task.Run: "idle", "delete" or "create"
    deleting,  \* rows a processSyncDeletion goroutine has still to update
    wpc,       \* wpc[s]: the processSync goroutine of s
    active,    \* keys of activeWorkers
    checked,   \* checked[c]: sync for which DeleteSync has passed its check
    dbFaults, restarts,
    accepted,  \* history: syncs whose deletion DeleteSync has acknowledged
    mirrored   \* history: syncs whose regsync command succeeded

syncVars == <<status, pass, deleting, wpc, active, checked, dbFaults, restarts, accepted, mirrored>>

Statuses == {"absent", "PENDING", "IN_PROGRESS", "FAILED", "DELETE_PENDING", "DELETED", "COMPLETED"}

SyncInit ==
    /\ status = [s \in Syncs |-> "absent"]
    /\ pass = "idle" /\ deleting = {}
    /\ wpc = [s \in Syncs |-> "none"] /\ active = {}
    /\ checked = [c \in SyncClients |-> NoSync]
    /\ dbFaults = 0 /\ restarts = 0 /\ accepted = {} /\ mirrored = {}

DbFault == dbFaults < MaxDbFaults /\ dbFaults' = dbFaults + 1

(* UpdateSyncStatus: read the row, save it with the new status. *)
UpdateSyncStatus(s, new) ==
    /\ status' = [status EXCEPT ![s] = new]
    /\ UNCHANGED dbFaults

-----------------------------------------------------------------------------
(* Mutants, each before the definition it deviates from. *)

(* The creations are not waited for: the next pass may start beside them. *)
EndPassAtOnce ==
    /\ pass = "create"
    /\ pass' = "idle"
    /\ UNCHANGED <<status, deleting, wpc, active, checked, dbFaults, restarts, accepted, mirrored>>

(* A failed worker leaves the row as it is. *)
RecordOnlySuccess(s) ==
    /\ wpc[s] \in {"succeeded", "failed"}
    /\ status' = IF wpc[s] = "succeeded" THEN [status EXCEPT ![s] = "COMPLETED"] ELSE status
    /\ wpc' = [wpc EXCEPT ![s] = "none"]
    /\ UNCHANGED <<pass, deleting, active, checked, dbFaults, restarts, accepted, mirrored>>

(* The pass never looks for deletions. *)
PassWithoutDeletions ==
    /\ pass = "idle"
    /\ pass' = "delete"
    /\ deleting' = {}
    /\ UNCHANGED <<status, wpc, active, checked, dbFaults, restarts, accepted, mirrored>>

-----------------------------------------------------------------------------
(* CreateSync: the URLs are checked, the row is inserted as PENDING. *)
CreateSync(s) ==
    /\ status[s] = "absent"
    /\ status' = [status EXCEPT ![s] = "PENDING"]
    /\ UNCHANGED <<pass, deleting, wpc, active, checked, dbFaults, restarts, accepted, mirrored>>

(* DeleteSync, first call: only a PENDING sync can be marked for deletion. *)
DeleteSyncCheck(c, s) ==
    /\ checked[c] = NoSync /\ status[s] = "PENDING"
    /\ checked' = [checked EXCEPT ![c] = s]
    /\ UNCHANGED <<status, pass, deleting, wpc, active, dbFaults, restarts, accepted, mirrored>>

(* DeleteSync, second call: mark it.  An error is returned to the client. *)
DeleteSyncMark(c) ==
    /\ checked[c] # NoSync
    /\ \/ UpdateSyncStatus(checked[c], "DELETE_PENDING") /\ accepted' = accepted \cup {checked[c]}
       \/ DbFault /\ UNCHANGED <<status, accepted>>
    /\ checked' = [checked EXCEPT ![c] = NoSync]
    /\ UNCHANGED <<pass, deleting, wpc, active, restarts, mirrored>>

(* Task.Run begins a pass: processPendingDeletions queries the rows, skipping
   those with an active worker, and starts a goroutine for each.  If the query
   fails the pass goes on to the creations. *)
PassDeletions ==
    /\ pass = "idle"
    /\ pass' = "delete"
    /\ \/ deleting' = {s \in Syncs : status[s] = "DELETE_PENDING"} \ active /\ UNCHANGED dbFaults
       \/ DbFault /\ deleting' = {}
    /\ UNCHANGED <<status, wpc, active, checked, restarts, accepted, mirrored>>

(* processSyncDeletion: a soft delete. *)
ProcessSyncDeletion(s) ==
    /\ s \in deleting
    /\ UpdateSyncStatus(s, "DELETED") \/ (DbFault /\ UNCHANGED status)
    /\ deleting' = deleting \ {s}
    /\ UNCHANGED <<pass, wpc, active, checked, restarts, accepted, mirrored>>

(* Once the deletions are done, processPendingCreations queries the PENDING
   rows and starts a goroutine for each. *)
PassCreations ==
    /\ pass = "delete" /\ deleting = {}
    /\ pass' = "create"
    /\ \/ /\ wpc' = [s \in Syncs |-> IF status[s] = "PENDING" /\ s \notin active THEN "mark" ELSE wpc[s]]
          /\ UNCHANGED dbFaults
       \/ DbFault /\ UNCHANGED wpc
    /\ UNCHANGED <<status, deleting, active, checked, restarts, accepted, mirrored>>

(* processSync: write IN_PROGRESS over whatever the row says now and register
   the worker.  A failing write ends the goroutine. *)
MarkInProgress(s) ==
    /\ wpc[s] = "mark"
    /\ \/ /\ UpdateSyncStatus(s, "IN_PROGRESS")
          /\ wpc' = [wpc EXCEPT ![s] = "run"] /\ active' = active \cup {s}
       \/ /\ DbFault
          /\ wpc' = [wpc EXCEPT ![s] = "none"] /\ UNCHANGED <<status, active>>
    /\ UNCHANGED <<pass, deleting, checked, restarts, accepted, mirrored>>

(* Worker.Run: negotiate credentials, write the config, run regsync; any of it
   may fail or time out.  The worker is then unregistered. *)
RunWorker(s) ==
    /\ wpc[s] = "run"
    /\ \/ wpc' = [wpc EXCEPT ![s] = "succeeded"] /\ mirrored' = mirrored \cup {s}
       \/ wpc' = [wpc EXCEPT ![s] = "failed"] /\ UNCHANGED mirrored
    /\ active' = active \ {s}
    /\ UNCHANGED <<status, pass, deleting, checked, dbFaults, restarts, accepted>>

(* The end of processSync: COMPLETED or FAILED, again unconditionally. *)
Record(s) ==
    /\ wpc[s] \in {"succeeded", "failed"}
    /\ \/ UpdateSyncStatus(s, IF wpc[s] = "succeeded" THEN "COMPLETED" ELSE "FAILED")
       \/ DbFault /\ UNCHANGED status
    /\ wpc' = [wpc EXCEPT ![s] = "none"]
    /\ UNCHANGED <<pass, deleting, active, checked, restarts, accepted, mirrored>>

(* wg.Wait() in processPendingCreations, and the wait for the next tick. *)
EndPass ==
    /\ pass = "create" /\ \A s \in Syncs : wpc[s] = "none"
    /\ pass' = "idle"
    /\ UNCHANGED <<status, deleting, wpc, active, checked, dbFaults, restarts, accepted, mirrored>>

(* The reconciler dies and is started again. *)
Crash ==
    /\ restarts < MaxRestarts
    /\ restarts' = restarts + 1
    /\ pass' = "idle" /\ deleting' = {}
    /\ wpc' = [s \in Syncs |-> "none"] /\ active' = {}
    /\ UNCHANGED <<status, checked, dbFaults, accepted, mirrored>>

SyncStep(s) == ProcessSyncDeletion(s) \/ MarkInProgress(s) \/ RunWorker(s) \/ Record(s)
PassStep == PassDeletions \/ PassCreations \/ EndPass

SyncNext ==
    \/ \E s \in Syncs : CreateSync(s) \/ SyncStep(s)
    \/ \E c \in SyncClients, s \in Syncs : DeleteSyncCheck(c, s)
    \/ \E c \in SyncClients : DeleteSyncMark(c)
    \/ PassStep
    \/ Crash

SyncSpec == SyncInit /\ [][SyncNext]_syncVars

(* Goroutines are scheduled, the ticker keeps firing, an RPC that has begun
   ends.  Worker.Run ends because runRegsync has a timeout. *)
SyncFairSpec ==
    /\ SyncSpec
    /\ \A s \in Syncs : WF_syncVars(SyncStep(s))
    /\ \A c \in SyncClients : WF_syncVars(DeleteSyncMark(c))
    /\ WF_syncVars(PassStep)

-----------------------------------------------------------------------------
(* Types. *)
SyncTypeOK ==
    /\ status \in [Syncs -> Statuses]
    /\ pass \in {"idle", "delete", "create"} /\ deleting \subseteq Syncs
    /\ wpc \in [Syncs -> {"none", "mark", "run", "succeeded", "failed"}]
    /\ active \subseteq Syncs
    /\ checked \in [SyncClients -> Syncs \cup {NoSync}]
    /\ dbFaults \in Nat /\ restarts \in Nat
    /\ accepted \subseteq Syncs /\ mirrored \subseteq Syncs

(* A pass has its goroutines to itself: deletions run only while no sync is
   being processed, and activeWorkers holds exactly the workers that run.  So
   isWorkerActive (task.go:104, 156) never has anything to skip. *)
PassesDoNotOverlap ==
    /\ deleting # {} => pass = "delete"
    /\ pass # "create" => \A s \in Syncs : wpc[s] = "none"
    /\ active = {s \in Syncs : wpc[s] = "run"}

(* A sync is COMPLETED only if a regsync command succeeded for it. *)
CompletedMeansMirrored == \A s \in Syncs : status[s] = "COMPLETED" => s \in mirrored

(* Deletions come first in a pass so that a deleted sync is "not accidentally
   re-created" (task.go:67-69): a DELETED row never runs, completes or fails
   afterwards.  (A late DeleteSync can mark it for deletion once more.) *)
DeletedIsNotRecreated ==
    [][\A s \in Syncs : status[s] = "DELETED" => status'[s] \in {"DELETED", "DELETE_PENDING"}]_syncVars

(* Inductive form of the last three: a goroutine that may still write to a row
   of s exists only in the creation phase, and then the row is not DELETED. *)
RecreateInv ==
    /\ PassesDoNotOverlap
    /\ \A s \in Syncs : wpc[s] # "none" => status[s] \notin {"absent", "DELETED"}
    /\ \A s \in deleting : status[s] # "absent"
    /\ \A c \in SyncClients : checked[c] # NoSync => status[checked[c]] # "absent"

(* "Sync operation is actively discovering and transferring objects"
   (sync_service.proto:187): while the database works and the reconciler has not
   been restarted, a goroutine is at work on every IN_PROGRESS sync.  After a
   restart the row stays IN_PROGRESS with nobody working on it: only PENDING
   and DELETE_PENDING rows are queried. *)
InProgressIsActive ==
    dbFaults = 0 /\ restarts = 0 => \A s \in Syncs : status[s] = "IN_PROGRESS" => wpc[s] # "none"

(* A PENDING sync is always acted upon, restarts and failing calls included, and
   ends up completed, failed or deleted, or its final status write failed, or a
   restart has cut it off. *)
EverySyncEnds ==
    \A s \in Syncs :
        /\ status[s] = "PENDING" ~> status[s] # "PENDING"
        /\ status[s] = "PENDING"
              ~> (status[s] \in {"COMPLETED", "FAILED", "DELETED"} \/ dbFaults > 0 \/ restarts > 0)

(* "Mark sync for deletion - the reconciler will pick this up" (sync.go:129):
   a deletion that was acknowledged to the client happens. *)
AcceptedDeletionHappens ==
    \A s \in Syncs : s \in accepted ~> status[s] = "DELETED"
=============================================================================
