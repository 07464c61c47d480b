----------------------------- MODULE Publication -----------------------------
(***************************************************************************)
(* The publication service: server/publication (scheduler, workers),       *)
(* the rows of server/database/gorm/publication.go and the request checks  *)
(* of server/controller/publication.go.                                    *)
(*                                                                         *)
(* A scheduler goroutine polls the database for PENDING rows, puts each on *)
(* a bounded channel and then marks the row IN_PROGRESS.  Workers take     *)
(* items off the channel, announce the CIDs of the request one by one and  *)
(* mark the row COMPLETED or FAILED.  No status write looks at the status  *)
(* it replaces.  The channel and the goroutines die with the process, the  *)
(* rows do not.                                                            *)
(***************************************************************************)
EXTENDS Naturals, Sequences, FiniteSets

CONSTANTS
    Pubs,         \* publication IDs
    Cids,         \* record CIDs
    Requests,     \* PublishRequests: records [kind, cids]
    Workers,      \* worker goroutines
    QueueCap,     \* capacity of workQueue (100 in the code)
    MaxDbFaults,  \* bound: failing database calls
    MaxNetFaults, \* bound: failing Pull or routing.Publish calls (or timeouts)
    MaxRestarts,  \* bound: crashes and orderly stops
    NoPub         \* "no publication"

ASSUME QueueAssumption == QueueCap \in Nat \ {0}
ASSUME RequestsAssumption ==
    /\ Requests # {} /\ \A r \in Requests : r.cids \subseteq Cids
    /\ NoPub \notin Pubs
ASSUME BoundAssumption == MaxDbFaults \in Nat /\ MaxNetFaults \in Nat /\ MaxRestarts \in Nat

VARIABLES
    status,     \* status[p]: the row's Status, or "absent"
    request,    \* request[p]: the row's RequestJSON
    stored,     \* CIDs in the store and in the record index
    queue,      \* workQueue
    spc,        \* the scheduler: "idle", "loop" or "mark"
    batch,      \* rows of this pass not handled yet
    marking,    \* the row to be marked IN_PROGRESS
    wpc,        \* wpc[w]: "idle", "load", "announce" or "fail"
    job,        \* job[w]: publication being processed
    todo,       \* todo[w]: CIDs still to be announced
    failed,     \* failed[w]: CIDs whose announcement failed
    exited,     \* goroutines that have left their loop after Stop
    stopping,   \* "no", or "yes" once stopCh is closed
    dbFaults, netFaults, restarts,   \* counters for the bounds
    announced,  \* history: CIDs routing.Publish has announced
    overwritten \* history: rows moved from a final status back to IN_PROGRESS

rows == <<status, request>>
sched == <<spc, batch, marking>>
works == <<wpc, job, todo, failed>>
life == <<exited, stopping, restarts>>
vars == <<rows, stored, queue, sched, works, life, dbFaults, netFaults, announced, overwritten>>

Final == {"COMPLETED", "FAILED"}
Statuses == {"absent", "PENDING", "IN_PROGRESS"} \cup Final
Scheduler == "scheduler"
Goroutines == Workers \cup {Scheduler}

Init ==
    /\ status = [p \in Pubs |-> "absent"]
    /\ request = [p \in Pubs |-> CHOOSE r \in Requests : TRUE]
    /\ stored = Cids
    /\ queue = <<>>
    /\ spc = "idle" /\ batch = {} /\ marking = NoPub
    /\ wpc = [w \in Workers |-> "idle"] /\ job = [w \in Workers |-> NoPub]
    /\ todo = [w \in Workers |-> {}] /\ failed = [w \in Workers |-> {}]
    /\ exited = {} /\ stopping = "no"
    /\ dbFaults = 0 /\ netFaults = 0 /\ restarts = 0
    /\ announced = {} /\ overwritten = {}

(* A database call fails. *)
DbFault == dbFaults < MaxDbFaults /\ dbFaults' = dbFaults + 1
NetFault == netFaults < MaxNetFaults /\ netFaults' = netFaults + 1

(* UpdatePublicationStatus: the row is read and saved with the new status; the
   callers only log an error. *)
UpdatePublicationStatus(p, s) ==
    \/ /\ status' = [status EXCEPT ![p] = s]
       /\ UNCHANGED dbFaults
    \/ /\ DbFault
       /\ UNCHANGED status

-----------------------------------------------------------------------------
(* Mutants, each before the definition it deviates from. *)

(* The result is COMPLETED whatever became of the announcements. *)
FinishAnyway(w) ==
    /\ wpc[w] = "announce" /\ todo[w] = {}
    /\ UpdatePublicationStatus(job[w], "COMPLETED")
    /\ wpc' = [wpc EXCEPT ![w] = "idle"] /\ job' = [job EXCEPT ![w] = NoPub]
    /\ failed' = [failed EXCEPT ![w] = {}]
    /\ UNCHANGED <<request, stored, queue, sched, todo, life, netFaults, announced, overwritten>>

(* An item that finds the queue full is marked like one that was queued. *)
DispatchMarksSkipped(p) ==
    /\ spc = "loop" /\ p \in batch
    /\ batch' = batch \ {p}
    /\ spc' = "mark" /\ marking' = p
    /\ IF Len(queue) < QueueCap THEN queue' = Append(queue, p) ELSE UNCHANGED queue
    /\ UNCHANGED <<rows, stored, works, life, dbFaults, netFaults, announced, overwritten>>

(* The scheduler also picks up rows that are being processed. *)
TickAllUnfinished ==
    /\ spc = "idle" /\ Scheduler \notin exited
    /\ spc' = "loop"
    /\ batch' = {p \in Pubs : status[p] \in {"PENDING", "IN_PROGRESS"}}
    /\ UNCHANGED <<rows, stored, queue, marking, works, life, dbFaults, netFaults, announced, overwritten>>

-----------------------------------------------------------------------------
(* CreatePublication of the controller: the request is checked, the row is
   inserted as PENDING. *)
ValidRequest(r) ==
    \/ r.kind = "refs" /\ r.cids # {}
    \/ r.kind \in {"queries", "all"}

CreatePublication(p, r) ==
    /\ status[p] = "absent" /\ ValidRequest(r)
    /\ status' = [status EXCEPT ![p] = "PENDING"]
    /\ request' = [request EXCEPT ![p] = r]
    /\ UNCHANGED <<stored, queue, sched, works, life, dbFaults, netFaults, announced, overwritten>>

(* A record is deleted from the node while publications refer to it. *)
DeleteRecord(c) ==
    /\ c \in stored
    /\ stored' = stored \ {c}
    /\ UNCHANGED <<rows, queue, sched, works, life, dbFaults, netFaults, announced, overwritten>>

(* Scheduler.Run and the query of processPendingPublications. *)
Tick ==
    /\ spc = "idle" /\ Scheduler \notin exited
    /\ \/ /\ spc' = "loop"
          /\ batch' = {p \in Pubs : status[p] = "PENDING"}
          /\ UNCHANGED dbFaults
       \/ /\ DbFault
          /\ UNCHANGED <<spc, batch>>
    /\ UNCHANGED <<rows, stored, queue, marking, works, life, netFaults, announced, overwritten>>

(* One turn of the dispatch loop: a non-blocking send; a full queue leaves the
   row for a later pass. *)
Dispatch(p) ==
    /\ spc = "loop" /\ p \in batch
    /\ batch' = batch \ {p}
    /\ \/ /\ Len(queue) < QueueCap
          /\ queue' = Append(queue, p)
          /\ spc' = "mark" /\ marking' = p
       \/ /\ Len(queue) >= QueueCap
          /\ UNCHANGED <<queue, spc, marking>>
    /\ UNCHANGED <<rows, stored, works, life, dbFaults, netFaults, announced, overwritten>>

(* The update to IN_PROGRESS, after the item is already visible to workers. *)
Mark ==
    /\ spc = "mark"
    /\ UpdatePublicationStatus(marking, "IN_PROGRESS")
    /\ overwritten' = IF status[marking] \in Final /\ status' # status
                      THEN overwritten \cup {marking} ELSE overwritten
    /\ spc' = "loop" /\ marking' = NoPub
    /\ UNCHANGED <<request, stored, queue, batch, works, life, netFaults, announced>>

EndPass ==
    /\ spc = "loop" /\ batch = {}
    /\ spc' = "idle"
    /\ UNCHANGED <<rows, stored, queue, batch, marking, works, life, dbFaults, netFaults, announced, overwritten>>

SchedulerStep == Tick \/ (\E p \in Pubs : Dispatch(p)) \/ Mark \/ EndPass

-----------------------------------------------------------------------------
(* Worker.Run: take the next item. *)
Take(w) ==
    /\ wpc[w] = "idle" /\ w \notin exited /\ queue # <<>>
    /\ job' = [job EXCEPT ![w] = Head(queue)]
    /\ queue' = Tail(queue)
    /\ wpc' = [wpc EXCEPT ![w] = "load"]
    /\ UNCHANGED <<rows, stored, sched, todo, failed, life, dbFaults, netFaults, announced, overwritten>>

(* getCIDsFromRequest: named CIDs, or what the record index has now. *)
getCIDsFromRequest(r) == IF r.kind = "refs" THEN r.cids ELSE r.cids \cap stored

(* processPublication up to the loop: load the row and work out the CIDs.  A
   failing query leads straight to markPublicationFailed. *)
Load(w) ==
    /\ wpc[w] = "load"
    /\ \/ /\ todo' = [todo EXCEPT ![w] = getCIDsFromRequest(request[job[w]])]
          /\ wpc' = [wpc EXCEPT ![w] = "announce"]
          /\ UNCHANGED dbFaults
       \/ /\ DbFault
          /\ wpc' = [wpc EXCEPT ![w] = "fail"]
          /\ UNCHANGED todo
    /\ UNCHANGED <<rows, stored, queue, sched, job, failed, life, netFaults, announced, overwritten>>

(* announceToDHT: Pull, decode, routing.Publish.  It fails for a record that is
   gone and when the network or the timeout fails it. *)
Announce(w, c) ==
    /\ wpc[w] = "announce" /\ c \in todo[w]
    /\ todo' = [todo EXCEPT ![w] = @ \ {c}]
    /\ \/ /\ c \in stored
          /\ announced' = announced \cup {c}
          /\ UNCHANGED <<failed, netFaults>>
       \/ /\ (c \notin stored /\ UNCHANGED netFaults) \/ NetFault
          /\ failed' = [failed EXCEPT ![w] = @ \cup {c}]
          /\ UNCHANGED announced
    /\ UNCHANGED <<rows, stored, queue, sched, wpc, job, life, dbFaults, overwritten>>

(* The end of processPublication: COMPLETED if every announcement succeeded
   (also if there was none to make), else FAILED. *)
Finish(w) ==
    /\ wpc[w] = "fail" \/ (wpc[w] = "announce" /\ todo[w] = {})
    /\ UpdatePublicationStatus(job[w],
           IF wpc[w] = "announce" /\ failed[w] = {} THEN "COMPLETED" ELSE "FAILED")
    /\ wpc' = [wpc EXCEPT ![w] = "idle"] /\ job' = [job EXCEPT ![w] = NoPub]
    /\ failed' = [failed EXCEPT ![w] = {}]
    /\ UNCHANGED <<request, stored, queue, sched, todo, life, netFaults, announced, overwritten>>

WorkerStep(w) == Take(w) \/ Load(w) \/ (\E c \in Cids : Announce(w, c)) \/ Finish(w)

-----------------------------------------------------------------------------
(* Service.Stop closes stopCh; a goroutine sees it only in its outer select,
   which chooses at random when other cases are ready too. *)
Stop ==
    /\ stopping = "no" /\ restarts < MaxRestarts
    /\ stopping' = "yes" /\ restarts' = restarts + 1
    /\ UNCHANGED <<rows, stored, queue, sched, works, exited, dbFaults, netFaults, announced, overwritten>>

Exit(g) ==
    /\ stopping = "yes" /\ g \notin exited
    /\ IF g = Scheduler THEN spc = "idle" ELSE wpc[g] = "idle"
    /\ exited' = exited \cup {g}
    /\ UNCHANGED <<rows, stored, queue, sched, works, stopping, restarts, dbFaults, netFaults, announced, overwritten>>

(* A new process calls Start: a new empty queue, a new scheduler, new workers. *)
Fresh ==
    /\ queue' = <<>>
    /\ spc' = "idle" /\ batch' = {} /\ marking' = NoPub
    /\ wpc' = [w \in Workers |-> "idle"] /\ job' = [w \in Workers |-> NoPub]
    /\ todo' = [w \in Workers |-> {}] /\ failed' = [w \in Workers |-> {}]
    /\ exited' = {} /\ stopping' = "no"
    /\ UNCHANGED <<rows, stored, dbFaults, netFaults, announced, overwritten>>

Restart == exited = Goroutines /\ Fresh /\ UNCHANGED restarts

Crash == restarts < MaxRestarts /\ Fresh /\ restarts' = restarts + 1

Next ==
    \/ \E p \in Pubs, r \in Requests : CreatePublication(p, r)
    \/ \E c \in Cids : DeleteRecord(c)
    \/ SchedulerStep
    \/ \E w \in Workers : WorkerStep(w)
    \/ Stop
    \/ \E g \in Goroutines : Exit(g)
    \/ Restart
    \/ Crash

Spec == Init /\ [][Next]_vars

(* The ticker keeps firing, goroutines are scheduled, a stopped process comes
   back.  Exit is strongly fair: the outer select is entered again and again
   with stopCh ready, and the other cases ready only sometimes.  Nothing obliges clients to publish, records to go or calls to fail. *)
Fairness ==
    /\ WF_vars(SchedulerStep)
    /\ \A w \in Workers : WF_vars(WorkerStep(w))
    /\ \A g \in Goroutines : SF_vars(Exit(g))
    /\ WF_vars(Restart)

FairSpec == Spec /\ Fairness

-----------------------------------------------------------------------------
(* Types; the queue within its capacity; a worker has a publication exactly
   while it is busy, the scheduler one to mark exactly between its two steps. *)
TypeOK ==
    /\ status \in [Pubs -> Statuses] /\ request \in [Pubs -> Requests]
    /\ stored \subseteq Cids
    /\ queue \in Seq(Pubs) /\ Len(queue) <= QueueCap
    /\ spc \in {"idle", "loop", "mark"} /\ batch \subseteq Pubs
    /\ marking \in Pubs \cup {NoPub} /\ (marking = NoPub <=> spc # "mark")
    /\ wpc \in [Workers -> {"idle", "load", "announce", "fail"}]
    /\ job \in [Workers -> Pubs \cup {NoPub}]
    /\ \A w \in Workers : job[w] = NoPub <=> wpc[w] = "idle"
    /\ todo \in [Workers -> SUBSET Cids] /\ failed \in [Workers -> SUBSET Cids]
    /\ exited \subseteq Goroutines /\ stopping \in {"no", "yes"}
    /\ dbFaults \in 0..MaxDbFaults /\ netFaults \in 0..MaxNetFaults
    /\ restarts \in 0..MaxRestarts
    /\ announced \subseteq Cids /\ overwritten \subseteq Pubs

(* A publication of named records is COMPLETED only if every one of them has
   been announced, whatever failed, was deleted or was restarted meanwhile. *)
CompletedMeansAnnounced ==
    \A p \in Pubs :
        status[p] = "COMPLETED" /\ request[p].kind = "refs" => request[p].cids \subseteq announced

(* The places that hold a publication: queue positions and workers. *)
Holders(p) == {i \in 1..Len(queue) : queue[i] = p} \cup {w \in Workers : job[w] = p}

(* As long as no database call has failed, no publication is queued or
   processed twice at a time: the scheduler is the only one to queue, and what
   it has queued is no longer PENDING at its next query. *)
AtMostOnce == dbFaults = 0 => \A p \in Pubs : Cardinality(Holders(p)) <= 1

(* As long as no database call has failed and the process has not been stopped,
   a publication in progress is in the queue or with a worker, unless the
   scheduler marked it after its work was done: no interleaving of dispatching,
   marking, taking and finishing drops one. *)
InProgressIsHeld ==
    dbFaults = 0 /\ restarts = 0 =>
        \A p \in Pubs : status[p] = "IN_PROGRESS" => p \in overwritten \/ Holders(p) # {}

(* As long as no database call has failed, the result of a publication is
   written once: only the scheduler's late mark replaces a final status, no
   second worker does, and a row it has replaced so never changes again. *)
ResultsAreWrittenOnce ==
    [][dbFaults' = 0 => \A p \in Pubs :
          /\ status[p] \in Final => status'[p] = status[p] \/ (spc = "mark" /\ marking = p)
          /\ p \in overwritten => status'[p] = "IN_PROGRESS"]_vars

(* What makes it inductive: what is to be queued is PENDING, what is held has no
   result yet, what is about to be marked was not marked before, and nobody
   holds or will queue a row that was marked too late. *)
ResultsInv ==
    dbFaults = 0 =>
        /\ \A p \in batch : status[p] = "PENDING"
        /\ \A i \in 1..Len(queue) : status[queue[i]] \in {"PENDING", "IN_PROGRESS"} /\ queue[i] \notin overwritten
        /\ \A w \in Workers : wpc[w] # "idle" =>
              status[job[w]] \in {"PENDING", "IN_PROGRESS"} /\ job[w] \notin overwritten
        /\ spc = "mark" => status[marking] \in {"PENDING"} \cup Final
        /\ \A p \in overwritten : status[p] = "IN_PROGRESS"

(* "Publications progress from pending to processing to completed or failed
   states" (publication_service.proto:89).  Every PENDING publication is picked
   up, also when the queue was full, the query failed or the process restarted;
   and one in progress reaches a final status, unless the scheduler has
   overwritten the final status it already had, a status write failed, or the
   process was restarted: the queue is in memory and only PENDING rows are ever
   queried, so nothing revives the row then. *)
PublicationsProgress ==
    \A p \in Pubs :
        /\ status[p] = "PENDING" ~> status[p] # "PENDING"
        /\ status[p] = "IN_PROGRESS"
              ~> (status[p] \in Final \/ p \in overwritten \/ dbFaults > 0 \/ restarts > 0)

(* What the same sentence would need of every step, and what the code does not
   keep: a final status is never replaced.  The scheduler queues an item before
   it marks the row, so a worker that ends in between loses its final status. *)
FinalIsFinal == [][\A p \in Pubs : status[p] \in Final => status'[p] = status[p]]_vars
=============================================================================
