------------------------------ MODULE Autosync ------------------------------
(***************************************************************************)
(* Autosync (server/routing/autosync): records announced by trusted peers  *)
(* are queued by the announcement handlers (MaybeEnqueue), pulled by a pool*)
(* of workers, verified, and ingested with their referrers.                *)
(*                                                                         *)
(* inFlight keeps a CID from being queued or processed twice at a time; it *)
(* is marked before the non-blocking send and released after processing or *)
(* when the queue is full.  Everything except the local store is lost in a *)
(* restart.  A peer may fail to answer or answer with something else.      *)
(***************************************************************************)
EXTENDS Naturals, Sequences

CONSTANTS
    Cids, Valid,           \* announced CIDs; those whose record passes validation
    Peers, Trusted,        \* announcing peers; allowSet
    Descs, AllowedTypes,   \* referrer descriptors [type, cid] a peer lists; allowedReferrerTypes
    Referrers,             \* what a peer may send as a referrer: [record, type, cid]
    Handlers, Workers,     \* callers of MaybeEnqueue; the pool
    QueueSize, MaxPullAttempts,
    MaxFaults,             \* bound: failing calls and wrong answers
    MaxLocalOps,           \* bound: local pushes and deletions
    MaxRestarts,           \* bound: restarts
    NoCid, NoPeer          \* "none"

ASSUME AutosyncConstants ==
    /\ Valid \subseteq Cids /\ Trusted \subseteq Peers
    /\ NoCid \notin Cids /\ NoPeer \notin Peers
    /\ QueueSize \in Nat /\ MaxPullAttempts \in Nat \ {0}
    /\ MaxFaults \in Nat /\ MaxLocalOps \in Nat /\ MaxRestarts \in Nat

VARIABLES
    store,         \* CIDs of the records in the local store
    held,          \* ingested referrers, <<record CID, referrer>>
    inFlight,      \* Manager.inFlight
    queue,         \* Manager.queue: <<CID, peer>>
    hcid, hpeer,   \* the job a handler has marked and not yet sent
    wpc, wcid, wpeer, attempt,  \* a worker: position, job, pull attempt
    got,           \* got[w]: CID of the content the worker has pulled
    todo,          \* todo[w]: descriptors still to be synced
    faults, localOps, restarts,
    imported       \* history: <<announced CID, CID of the content, peer>>

handlerVars == <<hcid, hpeer>>
workerVars == <<wpc, wcid, wpeer, attempt, got, todo>>
bounds == <<localOps, restarts>>
vars == <<store, held, inFlight, queue, handlerVars, workerVars, faults, bounds, imported>>

Init ==
    /\ store = {} /\ held = {} /\ imported = {}
    /\ inFlight = {} /\ queue = <<>>
    /\ hcid = [h \in Handlers |-> NoCid] /\ hpeer = [h \in Handlers |-> NoPeer]
    /\ wpc = [w \in Workers |-> "idle"] /\ wcid = [w \in Workers |-> NoCid]
    /\ wpeer = [w \in Workers |-> NoPeer] /\ attempt = [w \in Workers |-> 0]
    /\ got = [w \in Workers |-> NoCid] /\ todo = [w \in Workers |-> {}]
    /\ faults = 0 /\ localOps = 0 /\ restarts = 0

Fault == faults < MaxFaults /\ faults' = faults + 1

Goto(w, pc) == wpc' = [wpc EXCEPT ![w] = pc]

-----------------------------------------------------------------------------
(* Mutants, each before the definition it deviates from. *)

(* An announcement does not ask whether the CID is in flight. *)
MarkAgain(h, c, p) ==
    /\ hcid[h] = NoCid /\ p \in Trusted
    /\ inFlight' = inFlight \cup {c}
    /\ hcid' = [hcid EXCEPT ![h] = c] /\ hpeer' = [hpeer EXCEPT ![h] = p]
    /\ UNCHANGED <<store, held, queue, workerVars, faults, bounds, imported>>

(* A dropped announcement keeps its inFlight entry. *)
EnqueueKeepsMark(h) ==
    /\ hcid[h] # NoCid
    /\ queue' = IF Len(queue) < QueueSize THEN Append(queue, <<hcid[h], hpeer[h]>>) ELSE queue
    /\ hcid' = [hcid EXCEPT ![h] = NoCid] /\ hpeer' = [hpeer EXCEPT ![h] = NoPeer]
    /\ UNCHANGED <<store, held, inFlight, workerVars, faults, bounds, imported>>

(* The content is not compared with the announced CID. *)
IngestUnchecked(w) ==
    /\ wpc[w] = "ingest"
    /\ \/ /\ got[w] \in Valid
          /\ store' = store \cup {got[w]}
          /\ imported' = imported \cup {<<wcid[w], got[w], wpeer[w]>>}
          /\ Goto(w, "list") /\ UNCHANGED faults
       \/ /\ got[w] \notin Valid
          /\ Goto(w, "clear") /\ UNCHANGED <<store, imported, faults>>
    /\ UNCHANGED <<held, inFlight, queue, handlerVars, wcid, wpeer, attempt, got, todo, bounds>>

(* The lookup's result is read the wrong way round. *)
LookupInverted(w) ==
    /\ wpc[w] = "lookup"
    /\ Goto(w, IF wcid[w] \in store THEN "pull" ELSE "clear")
    /\ attempt' = [attempt EXCEPT ![w] = 1] /\ UNCHANGED faults
    /\ UNCHANGED <<store, held, inFlight, queue, handlerVars, wcid, wpeer, got, todo, bounds, imported>>

(* A job that gives up does not release its CID. *)
ClearOnlySuccess(w) ==
    /\ wpc[w] = "clear"
    /\ inFlight' = IF wcid[w] \in store THEN inFlight \ {wcid[w]} ELSE inFlight
    /\ Goto(w, "idle")
    /\ wcid' = [wcid EXCEPT ![w] = NoCid] /\ wpeer' = [wpeer EXCEPT ![w] = NoPeer]
    /\ attempt' = [attempt EXCEPT ![w] = 0] /\ got' = [got EXCEPT ![w] = NoCid]
    /\ UNCHANGED <<store, held, queue, handlerVars, todo, faults, bounds, imported>>

-----------------------------------------------------------------------------
(* verifyReferrer: it belongs to the record and is what the descriptor says. *)
verifyReferrer(r, cid, d) == r.record = cid /\ r.type = d.type /\ r.cid = d.cid

(* MaybeEnqueue up to the unlock: from a trusted peer and not in flight. *)
Mark(h, c, p) ==
    /\ hcid[h] = NoCid
    /\ p \in Trusted /\ c \notin inFlight
    /\ inFlight' = inFlight \cup {c}
    /\ hcid' = [hcid EXCEPT ![h] = c] /\ hpeer' = [hpeer EXCEPT ![h] = p]
    /\ UNCHANGED <<store, held, queue, workerVars, faults, bounds, imported>>

(* Its select: send, or release the mark when the queue is full. *)
Enqueue(h) ==
    /\ hcid[h] # NoCid
    /\ \/ /\ Len(queue) < QueueSize
          /\ queue' = Append(queue, <<hcid[h], hpeer[h]>>) /\ UNCHANGED inFlight
       \/ /\ Len(queue) >= QueueSize
          /\ inFlight' = inFlight \ {hcid[h]} /\ UNCHANGED queue
    /\ hcid' = [hcid EXCEPT ![h] = NoCid] /\ hpeer' = [hpeer EXCEPT ![h] = NoPeer]
    /\ UNCHANGED <<store, held, workerVars, faults, bounds, imported>>

(* worker: receive a job. *)
Take(w) ==
    /\ wpc[w] = "idle" /\ queue # <<>>
    /\ queue' = Tail(queue) /\ Goto(w, "lookup")
    /\ wcid' = [wcid EXCEPT ![w] = Head(queue)[1]] /\ wpeer' = [wpeer EXCEPT ![w] = Head(queue)[2]]
    /\ UNCHANGED <<store, held, inFlight, handlerVars, attempt, got, todo, faults, bounds, imported>>

(* process: skip a record the store has.  A lookup that fails for any other
   reason counts as absent. *)
Lookup(w) ==
    /\ wpc[w] = "lookup"
    /\ \/ wcid[w] \in store /\ Goto(w, "clear") /\ UNCHANGED <<attempt, faults>>
       \/ /\ wcid[w] \notin store /\ UNCHANGED faults
          /\ Goto(w, "pull") /\ attempt' = [attempt EXCEPT ![w] = 1]
       \/ wcid[w] \in store /\ Fault /\ Goto(w, "pull") /\ attempt' = [attempt EXCEPT ![w] = 1]
    /\ UNCHANGED <<store, held, inFlight, queue, handlerVars, wcid, wpeer, got, todo, bounds, imported>>

(* pullRecord: one attempt; the peer sends the record, something else, or
   nothing.  The last failing attempt, or the job's timeout, gives up. *)
Pull(w) ==
    /\ wpc[w] = "pull"
    /\ \/ /\ got' = [got EXCEPT ![w] = wcid[w]] /\ Goto(w, "ingest")
          /\ UNCHANGED <<attempt, faults>>
       \/ /\ Fault /\ UNCHANGED attempt /\ Goto(w, "ingest")
          /\ \E c \in Cids : got' = [got EXCEPT ![w] = c]
       \/ /\ Fault /\ attempt[w] < MaxPullAttempts
          /\ attempt' = [attempt EXCEPT ![w] = @ + 1] /\ UNCHANGED <<got, wpc>>
       \/ Fault /\ Goto(w, "clear") /\ UNCHANGED <<attempt, got>>
    /\ UNCHANGED <<store, held, inFlight, queue, handlerVars, wcid, wpeer, todo, bounds, imported>>

(* The CID check, the schema validation and ImportRecord; any failure ends
   the job. *)
Ingest(w) ==
    /\ wpc[w] = "ingest"
    /\ \/ /\ got[w] = wcid[w] /\ got[w] \in Valid
          /\ store' = store \cup {got[w]}
          /\ imported' = imported \cup {<<wcid[w], got[w], wpeer[w]>>}
          /\ Goto(w, "list") /\ UNCHANGED faults
       \/ /\ got[w] # wcid[w] \/ got[w] \notin Valid
          /\ Goto(w, "clear") /\ UNCHANGED <<store, imported, faults>>
       \/ Fault /\ Goto(w, "clear") /\ UNCHANGED <<store, imported>>
    /\ UNCHANGED <<held, inFlight, queue, handlerVars, wcid, wpeer, attempt, got, todo, bounds>>

(* syncReferrers: ask the peer for the descriptors. *)
ListReferrers(w) ==
    /\ wpc[w] = "list"
    /\ \/ todo' = [todo EXCEPT ![w] = Descs] /\ Goto(w, "referrers") /\ UNCHANGED faults
       \/ Fault /\ Goto(w, "clear") /\ UNCHANGED todo
    /\ UNCHANGED <<store, held, inFlight, queue, handlerVars, wcid, wpeer, attempt, got, bounds, imported>>

(* One descriptor: skipped when its type is not allowed, when the peer or the
   ingestion fails, or when what the peer sent does not verify. *)
SyncReferrer(w, d) ==
    /\ wpc[w] = "referrers" /\ d \in todo[w]
    /\ todo' = [todo EXCEPT ![w] = @ \ {d}]
    /\ \/ d.type \notin AllowedTypes /\ UNCHANGED <<held, faults>>
       \/ /\ d.type \in AllowedTypes /\ UNCHANGED faults
          /\ held' = held \cup {<<wcid[w], [record |-> wcid[w], type |-> d.type, cid |-> d.cid]>>}
       \/ /\ d.type \in AllowedTypes /\ Fault
          /\ \E r \in Referrers :
                held' = IF verifyReferrer(r, wcid[w], d) THEN held \cup {<<wcid[w], r>>} ELSE held
       \/ d.type \in AllowedTypes /\ Fault /\ UNCHANGED held
    /\ UNCHANGED <<store, inFlight, queue, handlerVars, wpc, wcid, wpeer, attempt, got, bounds, imported>>

EndReferrers(w) ==
    /\ wpc[w] = "referrers" /\ todo[w] = {}
    /\ Goto(w, "clear")
    /\ UNCHANGED <<store, held, inFlight, queue, handlerVars, wcid, wpeer, attempt, got, todo, faults, bounds, imported>>

(* worker: clearInFlight, whatever process did. *)
Clear(w) ==
    /\ wpc[w] = "clear"
    /\ inFlight' = inFlight \ {wcid[w]}
    /\ Goto(w, "idle")
    /\ wcid' = [wcid EXCEPT ![w] = NoCid] /\ wpeer' = [wpeer EXCEPT ![w] = NoPeer]
    /\ attempt' = [attempt EXCEPT ![w] = 0] /\ got' = [got EXCEPT ![w] = NoCid]
    /\ UNCHANGED <<store, held, queue, handlerVars, todo, faults, bounds, imported>>

(* The API pushes or deletes the record meanwhile. *)
LocalOp(c) ==
    /\ localOps < MaxLocalOps /\ localOps' = localOps + 1
    /\ store' = IF c \in store THEN store \ {c} ELSE store \cup ({c} \cap Valid)
    /\ UNCHANGED <<held, inFlight, queue, handlerVars, workerVars, faults, restarts, imported>>

(* The process stops or dies and is started again. *)
Restart ==
    /\ restarts < MaxRestarts /\ restarts' = restarts + 1
    /\ inFlight' = {} /\ queue' = <<>>
    /\ hcid' = [h \in Handlers |-> NoCid] /\ hpeer' = [h \in Handlers |-> NoPeer]
    /\ wpc' = [w \in Workers |-> "idle"] /\ wcid' = [w \in Workers |-> NoCid]
    /\ wpeer' = [w \in Workers |-> NoPeer] /\ attempt' = [w \in Workers |-> 0]
    /\ got' = [w \in Workers |-> NoCid] /\ todo' = [w \in Workers |-> {}]
    /\ UNCHANGED <<store, held, faults, localOps, imported>>

WorkerStep(w) ==
    \/ Take(w) \/ Lookup(w) \/ Pull(w) \/ Ingest(w) \/ ListReferrers(w)
    \/ \E d \in Descs : SyncReferrer(w, d)
    \/ EndReferrers(w) \/ Clear(w)

Next ==
    \/ \E h \in Handlers, c \in Cids, p \in Peers : Mark(h, c, p)
    \/ \E h \in Handlers : Enqueue(h)
    \/ \E w \in Workers : WorkerStep(w)
    \/ \E c \in Cids : LocalOp(c)
    \/ Restart

Spec == Init /\ [][Next]_vars

(* Handlers and workers run; trusted peers re-announce their records
   (republishing), so an announcement that is possible keeps coming. *)
FairSpec ==
    /\ Spec
    /\ \A h \in Handlers : WF_vars(Enqueue(h))
    /\ \A w \in Workers : WF_vars(WorkerStep(w))
    /\ \A c \in Cids, p \in Peers : SF_vars(\E h \in Handlers : Mark(h, c, p))

-----------------------------------------------------------------------------
QueueOK == queue \in Seq(Cids \X Peers) /\ Len(queue) <= QueueSize

(* Types, and the bounds of the queue and of the attempts. *)
TypeOK ==
    /\ store \subseteq Cids /\ inFlight \subseteq Cids /\ QueueOK
    /\ hcid \in [Handlers -> Cids \cup {NoCid}] /\ hpeer \in [Handlers -> Peers \cup {NoPeer}]
    /\ wpc \in [Workers -> {"idle", "lookup", "pull", "ingest", "list", "referrers", "clear"}]
    /\ wcid \in [Workers -> Cids \cup {NoCid}] /\ wpeer \in [Workers -> Peers \cup {NoPeer}]
    /\ attempt \in [Workers -> 0..MaxPullAttempts]
    /\ got \in [Workers -> Cids \cup {NoCid}] /\ todo \in [Workers -> SUBSET Descs]
    /\ faults \in Nat /\ localOps \in Nat /\ restarts \in Nat

HasJob(c) ==
    \/ \E i \in 1..Len(queue) : queue[i][1] = c
    \/ \E h \in Handlers : hcid[h] = c
    \/ \E w \in Workers : wcid[w] = c

MarksAgree == \A c \in Cids : c \in inFlight <=> HasJob(c)

JobsDistinct ==
    /\ \A i, j \in 1..Len(queue) : queue[i][1] = queue[j][1] => i = j
    /\ \A h, g \in Handlers : hcid[h] # NoCid /\ hcid[h] = hcid[g] => h = g
    /\ \A v, w \in Workers : wcid[v] # NoCid /\ wcid[v] = wcid[w] => v = w
    /\ \A h \in Handlers, i \in 1..Len(queue) : hcid[h] # queue[i][1]
    /\ \A w \in Workers, i \in 1..Len(queue) : wcid[w] # queue[i][1]
    /\ \A h \in Handlers, w \in Workers : hcid[h] # NoCid => hcid[h] # wcid[w]

(* inFlight and the jobs that exist agree ("skip if this CID is already queued
   or being processed", autosync.go:194): every queued, half-sent or processed
   CID is in flight, every CID in flight has exactly one job, so no mark leaks
   and no two workers ever process the same CID. *)
OneJobPerCid ==
    /\ MarksAgree /\ JobsDistinct
    /\ \A w \in Workers : wcid[w] = NoCid <=> wpc[w] = "idle"

(* Fail-closed (autosync.go:233-235): what is ingested came from a trusted
   peer, is the content that was announced, and is valid. *)
OnlyVerifiedIngested ==
    \A x \in imported : x[1] = x[2] /\ x[2] \in Valid /\ x[3] \in Trusted

(* The same for referrers (syncReferrers): what is kept belongs to the record it
   is stored under and has an allowed type, whatever the peer sends. *)
OnlyVerifiedReferrers ==
    \A x \in held : x[2].record = x[1] /\ x[2].type \in AllowedTypes

(* Autosync is fail-closed, for records and for their referrers. *)
OnlyVerified == OnlyVerifiedIngested /\ OnlyVerifiedReferrers

(* The stage of the job of a CID, as mark, handlers, queue and workers show it. *)
Waits(c) ==
    \/ \E h \in Handlers : hcid[h] = c
    \/ \E i \in 1..Len(queue) : queue[i][1] = c
Works(c) == \E w \in Workers : wcid[w] = c /\ wpc[w] \in {"lookup", "pull", "ingest"}
Stage(c) ==
    IF c \notin inFlight THEN "none"
    ELSE IF Waits(c) THEN "waiting"
    ELSE IF Works(c) THEN "working"
    ELSE "settled"

Flights == INSTANCE SingleFlight WITH
               Keys <- Cids, Good <- Valid, flight <- [c \in Cids |-> Stage(c)], store <- store

(* Handlers, queue and workers together implement one job at a time per CID:
   it waits, is worked on by one worker, imports its record at most once and
   only while it is worked on, and is released before the CID is accepted
   again (MaybeEnqueue, worker, process). *)
ImplementsSingleFlight == Flights!Spec

(* A CID does not stay in flight, so that "a later re-announcement
   re-triggers" (autosync.go:41-43) is possible. *)
InFlightIsReleased == \A c \in Cids : c \in inFlight ~> c \notin inFlight

FindsQueueFull(c) == Len(queue) = QueueSize /\ \E h \in Handlers : hcid[h] = c

(* With re-announcements and finitely many faults a valid record of a trusted
   peer arrives, across failed pulls, wrong answers and restarts, unless its
   announcements find the queue full again and again. *)
RecordArrives ==
    Trusted # {} => \A c \in Valid : <>(c \in store) \/ []<>FindsQueueFull(c)

(* "pulls records (and their referrers) announced by trusted peers ... with
   full parity to a normal push" (autosync.go:4-6): once the record is here, its
   allowed referrers arrive as well, unless a call failed, the process was
   restarted or the API stored the record: what that job has not fetched no
   later one does, because each finds the record present and ends. *)
ReferrersArrive ==
    \A c \in Valid : \A d \in Descs :
        (c \in store /\ d.type \in AllowedTypes)
            ~> \/ <<c, [record |-> c, type |-> d.type, cid |-> d.cid]>> \in held
               \/ faults > 0 \/ restarts > 0 \/ localOps > 0

(* The allowed referrers a record still lacks. *)
Due(c) ==
    {d \in Descs : d.type \in AllowedTypes
                     /\ <<c, [record |-> c, type |-> d.type, cid |-> d.cid]>> \notin held}

(* It has them all, or a worker that is still to ask for the rest. *)
FollowedUp(c) ==
    \/ Due(c) = {}
    \/ \E w \in Workers :
          wcid[w] = c /\ (wpc[w] = "list" \/ (wpc[w] = "referrers" /\ Due(c) \subseteq todo[w]))

(* The safety part of ReferrersArrive: no stored record is left without them
   unless a call failed, the process was restarted or the API stored it. *)
NoReferrerForgotten ==
    faults = 0 /\ restarts = 0 /\ localOps = 0 => \A c \in store : FollowedUp(c)

(* Records arrive, and their referrers with them. *)
ContentArrives == RecordArrives /\ ReferrersArrive
=============================================================================
