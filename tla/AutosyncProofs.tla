--------------------------- MODULE AutosyncProofs ---------------------------
(***************************************************************************)
(* Proofs, for any number of records, peers, handlers and workers and any  *)
(* queue size, that inFlight and the jobs agree, that only verified        *)
(* content of trusted peers is ingested, that no referrer is forgotten     *)
(* until something fails, and that it implements SingleFlight.             *)
(***************************************************************************)
EXTENDS Autosync, TLAPS

(* Every job comes from a trusted peer. *)
JobsAreTrusted ==
    /\ \A h \in Handlers : hcid[h] # NoCid => hpeer[h] \in Trusted
    /\ \A i \in 1..Len(queue) : queue[i][2] \in Trusted
    /\ \A w \in Workers : wpc[w] # "idle" => wpeer[w] \in Trusted

USE AutosyncConstants
USE DEF handlerVars, workerVars, bounds, Fault, Goto

(* What the queue holds. *)
LEMMA QueueFacts ==
  ASSUME QueueOK
  PROVE  /\ Len(queue) \in Nat
         /\ \A i \in 1..Len(queue) : queue[i] \in Cids \X Peers
         /\ \A i \in 1..Len(queue) : queue[i][1] \in Cids /\ queue[i][2] \in Peers
<1>1. \A i \in 1..Len(queue) : queue[i] \in Cids \X Peers
  BY DEF QueueOK
<1>2. \A i \in 1..Len(queue) : queue[i][1] \in Cids /\ queue[i][2] \in Peers
  BY <1>1
<1> QED
  BY <1>1, <1>2 DEF QueueOK

(* The send of Enqueue puts the handler's job behind the others. *)
LEMMA EnqueueFacts ==
  ASSUME QueueOK, NEW h \in Handlers, Enqueue(h), Len(queue) < QueueSize
  PROVE  /\ Len(queue') = Len(queue) + 1
         /\ queue'[Len(queue) + 1] = <<hcid[h], hpeer[h]>>
         /\ queue'[Len(queue) + 1][1] = hcid[h] /\ queue'[Len(queue) + 1][2] = hpeer[h]
         /\ \A i \in 1..Len(queue) : queue'[i] = queue[i]
         /\ \A i \in 1..Len(queue') : i \in 1..Len(queue) \/ i = Len(queue) + 1
<1>1. queue' = Append(queue, <<hcid[h], hpeer[h]>>)
  BY QueueFacts DEF Enqueue
<1>2. /\ Len(queue') = Len(queue) + 1
      /\ queue'[Len(queue) + 1] = <<hcid[h], hpeer[h]>>
      /\ \A i \in 1..Len(queue) : queue'[i] = queue[i]
  BY <1>1 DEF QueueOK
<1>3. Len(queue) \in Nat
  BY QueueFacts
<1> QED
  BY <1>2, <1>3

(* Take moves every job of the queue one place up. *)
LEMMA TakeFacts ==
  ASSUME QueueOK, NEW w \in Workers, Take(w)
  PROVE  /\ Len(queue) \in Nat \ {0} /\ Len(queue') = Len(queue) - 1
         /\ \A i \in 1..Len(queue') : i + 1 \in 1..Len(queue) /\ queue'[i] = queue[i + 1]
         /\ Head(queue) = queue[1] /\ 1 \in 1..Len(queue)
<1>1. queue # <<>> /\ queue' = Tail(queue)
  BY DEF Take
<1> QED
  BY <1>1 DEF QueueOK

(* Every action keeps the queue. *)
LEMMA NextQueue == ASSUME TypeOK, JobsAreTrusted, [Next]_vars  PROVE QueueOK'
<1>1. ASSUME NEW h \in Handlers, Enqueue(h) PROVE QueueOK'
  <2>1. CASE Len(queue) < QueueSize
    <3>1. <<hcid[h], hpeer[h]>> \in Cids \X Peers
      BY <1>1 DEF Enqueue, TypeOK, JobsAreTrusted
    <3>2. queue' = Append(queue, <<hcid[h], hpeer[h]>>)
      BY <1>1, <2>1, QueueFacts DEF Enqueue, TypeOK
    <3> QED
      BY <2>1, <3>1, <3>2 DEF QueueOK, TypeOK
  <2>2. CASE ~(Len(queue) < QueueSize)
    BY <1>1, <2>2 DEF Enqueue, QueueOK, TypeOK
  <2> QED  BY <2>1, <2>2
<1>2. ASSUME NEW w \in Workers, Take(w) PROVE QueueOK'
  BY <1>2 DEF Take, QueueOK, TypeOK
<1>3. CASE Restart
  BY <1>3 DEF Restart, QueueOK
<1>4. ASSUME UNCHANGED queue PROVE QueueOK'
  BY <1>4 DEF QueueOK, TypeOK
<1>5. ASSUME NEW h \in Handlers, NEW c \in Cids, NEW p \in Peers, Mark(h, c, p)
      PROVE  UNCHANGED queue
  BY SMTT(30), <1>5 DEF Mark
<1>6. ASSUME NEW w \in Workers, WorkerStep(w), ~Take(w) PROVE UNCHANGED queue
  BY <1>6 DEF WorkerStep, Lookup, Pull, Ingest, ListReferrers, SyncReferrer, EndReferrers, Clear
<1>7. ASSUME NEW c \in Cids, LocalOp(c) PROVE UNCHANGED queue
  BY ZenonT(60), <1>7 DEF LocalOp
<1> QED
  BY <1>1, <1>2, <1>3, <1>4, <1>5, <1>6, <1>7 DEF Next, vars

(* Every action keeps the types. *)
LEMMA NextTypes == ASSUME TypeOK, JobsAreTrusted, [Next]_vars  PROVE TypeOK'
<1>0. QueueOK'
  BY NextQueue
<1> USE <1>0 DEF TypeOK
<1>1. ASSUME NEW h \in Handlers, NEW c \in Cids, NEW p \in Peers, Mark(h, c, p) PROVE TypeOK'
  BY <1>1 DEF Mark
<1>2. ASSUME NEW h \in Handlers, Enqueue(h) PROVE TypeOK'
  BY <1>2 DEF Enqueue
<1>3. ASSUME NEW w \in Workers, Take(w) PROVE TypeOK'
  BY <1>3, TakeFacts, QueueFacts DEF Take
<1>4. ASSUME NEW w \in Workers, Lookup(w) PROVE TypeOK'
  <2>1. wpc' \in [Workers -> {"idle", "lookup", "pull", "ingest", "list", "referrers", "clear"}]
    BY <1>4 DEF Lookup
  <2>2. attempt' \in [Workers -> 0..MaxPullAttempts] /\ faults' \in Nat
    BY <1>4 DEF Lookup
  <2> QED
    BY <1>4, <2>1, <2>2 DEF Lookup
<1>5. ASSUME NEW w \in Workers, Pull(w) PROVE TypeOK'
  <2>1. wpc' \in [Workers -> {"idle", "lookup", "pull", "ingest", "list", "referrers", "clear"}]
    BY <1>5 DEF Pull
  <2>2. attempt' \in [Workers -> 0..MaxPullAttempts] /\ faults' \in Nat
    BY <1>5 DEF Pull
  <2>3. got' \in [Workers -> Cids \cup {NoCid}]
    BY <1>5 DEF Pull
  <2> QED
    BY <1>5, <2>1, <2>2, <2>3 DEF Pull
<1>6. ASSUME NEW w \in Workers, Ingest(w) PROVE TypeOK'
  BY <1>6 DEF Ingest
<1>7. ASSUME NEW w \in Workers, ListReferrers(w) PROVE TypeOK'
  <2>1. wpc' \in [Workers -> {"idle", "lookup", "pull", "ingest", "list", "referrers", "clear"}]
    BY <1>7 DEF ListReferrers
  <2>2. todo' \in [Workers -> SUBSET Descs] /\ faults' \in Nat
    BY <1>7 DEF ListReferrers
  <2> QED
    BY <1>7, <2>1, <2>2 DEF ListReferrers
<1>8. ASSUME NEW w \in Workers, NEW d \in Descs, SyncReferrer(w, d) PROVE TypeOK'
  BY <1>8 DEF SyncReferrer
<1>9. ASSUME NEW w \in Workers, EndReferrers(w) PROVE TypeOK'
  BY <1>9 DEF EndReferrers
<1>10. ASSUME NEW w \in Workers, Clear(w) PROVE TypeOK'
  BY <1>10 DEF Clear
<1>11. ASSUME NEW c \in Cids, LocalOp(c) PROVE TypeOK'
  BY <1>11 DEF LocalOp
<1>12. CASE Restart
  BY <1>12 DEF Restart
<1>13. CASE UNCHANGED vars
  BY ZenonT(60), <1>13 DEF vars
<1> QED
  BY ZenonT(60), <1>1, <1>2, <1>3, <1>4, <1>5, <1>6, <1>7, <1>8, <1>9, <1>10, <1>11, <1>12, <1>13 DEF Next,
     WorkerStep

(* Every action keeps the jobs trusted. *)
LEMMA NextTrusted == ASSUME TypeOK, JobsAreTrusted, [Next]_vars  PROVE JobsAreTrusted'
<1> USE DEF TypeOK, JobsAreTrusted
<1>1. ASSUME NEW h \in Handlers, NEW c \in Cids, NEW p \in Peers, Mark(h, c, p) PROVE JobsAreTrusted'
  BY SMTT(30), <1>1 DEF Mark
<1>2. ASSUME NEW h \in Handlers, Enqueue(h) PROVE JobsAreTrusted'
  <2>1. CASE Len(queue) < QueueSize
    <3>1. hpeer[h] \in Trusted
      BY <1>2 DEF Enqueue
    <3>a. /\ \A i \in 1..Len(queue') : i \in 1..Len(queue) \/ i = Len(queue) + 1
          /\ queue'[Len(queue) + 1][2] = hpeer[h] /\ \A i \in 1..Len(queue) : queue'[i] = queue[i]
      BY Zenon, <1>2, <2>1, EnqueueFacts
    <3>b. \A i \in 1..Len(queue) : queue[i][2] \in Trusted
      BY Zenon
    <3>2. \A i \in 1..Len(queue') : queue'[i][2] \in Trusted
      BY Zenon, <3>1, <3>a, <3>b
    <3> QED
      BY ZenonT(60), <1>2, <3>2 DEF Enqueue
  <2>2. CASE ~(Len(queue) < QueueSize)
    BY SMTT(30), <1>2, <2>2 DEF Enqueue
  <2> QED  BY SMTT(30), <2>1, <2>2
<1>3. ASSUME NEW w \in Workers, Take(w) PROVE JobsAreTrusted'
  BY SMTT(30), <1>3, TakeFacts, QueueFacts DEF Take
<1>4. ASSUME NEW w \in Workers, Lookup(w) PROVE JobsAreTrusted'
  BY <1>4 DEF Lookup
<1>5. ASSUME NEW w \in Workers, Pull(w) PROVE JobsAreTrusted'
  BY <1>5 DEF Pull
<1>6. ASSUME NEW w \in Workers, Ingest(w) PROVE JobsAreTrusted'
  BY SMTT(30), <1>6 DEF Ingest
<1>7. ASSUME NEW w \in Workers, ListReferrers(w) PROVE JobsAreTrusted'
  BY SMTT(30), <1>7 DEF ListReferrers
<1>8. ASSUME NEW w \in Workers, NEW d \in Descs, SyncReferrer(w, d) PROVE JobsAreTrusted'
  BY <1>8 DEF SyncReferrer
<1>9. ASSUME NEW w \in Workers, EndReferrers(w) PROVE JobsAreTrusted'
  BY ZenonT(60), <1>9 DEF EndReferrers
<1>10. ASSUME NEW w \in Workers, Clear(w) PROVE JobsAreTrusted'
  BY <1>10 DEF Clear
<1>11. ASSUME NEW c \in Cids, LocalOp(c) PROVE JobsAreTrusted'
  BY <1>11 DEF LocalOp
<1>12. CASE Restart
  BY <1>12 DEF Restart
<1>13. CASE UNCHANGED vars
  BY <1>13 DEF vars
<1> QED
  BY ZenonT(60), <1>1, <1>2, <1>3, <1>4, <1>5, <1>6, <1>7, <1>8, <1>9, <1>10, <1>11, <1>12, <1>13 DEF Next,
     WorkerStep

(* Steps that move no job. *)
LEMMA SameJobs ==
  ASSUME OneJobPerCid, UNCHANGED <<inFlight, queue, hcid, wcid>>,
         \A w \in Workers : wpc'[w] = "idle" <=> wpc[w] = "idle"
  PROVE  OneJobPerCid'
  BY DEF OneJobPerCid, MarksAgree, JobsDistinct, HasJob

(* Mark adds a job for a CID that had none. *)
LEMMA MarkJobs ==
  ASSUME TypeOK, OneJobPerCid, NEW h \in Handlers, NEW c \in Cids, NEW p \in Peers, Mark(h, c, p)
  PROVE  OneJobPerCid'
<1>1. /\ hcid[h] = NoCid /\ inFlight' = inFlight \cup {c}
      /\ UNCHANGED <<queue, wcid, wpc>>
      /\ hcid'[h] = c /\ \A g \in Handlers \ {h} : hcid'[g] = hcid[g]
  BY SMTT(30) DEF Mark, TypeOK, workerVars
<1>2. ~HasJob(c)
  BY SMTT(30) DEF Mark, OneJobPerCid, MarksAgree
<1>3. JobsDistinct'
  BY SMTT(30), <1>1, <1>2 DEF OneJobPerCid, JobsDistinct, HasJob
<1>4. MarksAgree'
  BY <1>1 DEF OneJobPerCid, MarksAgree, HasJob
<1> QED
  BY <1>1, <1>3, <1>4 DEF OneJobPerCid

(* Enqueue moves a job from a handler to the queue, or drops it with its mark. *)
LEMMA EnqueueJobs ==
  ASSUME TypeOK, OneJobPerCid, NEW h \in Handlers, Enqueue(h)
  PROVE  OneJobPerCid'
<1>0. QueueOK
  BY DEF TypeOK
<1>1. /\ hcid[h] \in Cids /\ UNCHANGED <<wcid, wpc>>
      /\ hcid'[h] = NoCid /\ \A g \in Handlers \ {h} : hcid'[g] = hcid[g]
  BY SMTT(30) DEF Enqueue, TypeOK, workerVars
<1>2. CASE Len(queue) < QueueSize
  <2> DEFINE n == Len(queue) + 1
  <2>1. /\ Len(queue) \in Nat /\ Len(queue') = n /\ queue'[n][1] = hcid[h] /\ n \in 1..Len(queue')
        /\ \A i \in 1..Len(queue) : queue'[i] = queue[i] /\ i \in 1..Len(queue')
        /\ \A i \in 1..Len(queue') : i \in 1..Len(queue) \/ i = n
    BY SMTT(30), <1>0, <1>2, EnqueueFacts, QueueFacts
  <2>2. UNCHANGED inFlight
    BY <1>0, <1>2, QueueFacts DEF Enqueue, TypeOK
  <2>3. \A i \in 1..Len(queue) : queue[i][1] \in Cids
    BY SMTT(30), <1>0, QueueFacts
  <2> HIDE DEF n
  <2>4. JobsDistinct'
    BY SMTT(30), <1>1, <2>1, <2>3 DEF OneJobPerCid, JobsDistinct
  <2>5. MarksAgree'
    BY SMTT(30), <1>1, <2>1, <2>2 DEF OneJobPerCid, MarksAgree, HasJob
  <2> QED
    BY <1>1, <2>4, <2>5 DEF OneJobPerCid
<1>3. CASE ~(Len(queue) < QueueSize)
  <2>1. UNCHANGED queue /\ inFlight' = inFlight \ {hcid[h]}
    BY <1>3 DEF Enqueue
  <2>2. \A i \in 1..Len(queue) : queue[i][1] \in Cids
    BY <1>0, QueueFacts
  <2>3. JobsDistinct'
    BY SMTT(30), <1>1, <2>1, <2>2 DEF OneJobPerCid, JobsDistinct
  <2>4. MarksAgree'
    BY SMTT(30), <1>1, <2>1 DEF OneJobPerCid, MarksAgree, JobsDistinct, HasJob
  <2> QED
    BY <1>1, <2>3, <2>4 DEF OneJobPerCid
<1> QED  BY <1>2, <1>3

(* Take moves the first job of the queue to a worker. *)
LEMMA TakeJobs ==
  ASSUME TypeOK, OneJobPerCid, NEW w \in Workers, Take(w)
  PROVE  OneJobPerCid'
<1>0. QueueOK
  BY SMTT(30) DEF TypeOK
<1>1. /\ wpc[w] = "idle" /\ wcid[w] = NoCid /\ UNCHANGED <<hcid, inFlight>>
      /\ wcid'[w] = queue[1][1] /\ wpc'[w] = "lookup"
      /\ \A v \in Workers \ {w} : wcid'[v] = wcid[v] /\ wpc'[v] = wpc[v]
  BY SMTT(30), <1>0, TakeFacts DEF Take, TypeOK, OneJobPerCid, handlerVars
<1>2. /\ Len(queue) \in Nat \ {0} /\ Len(queue') = Len(queue) - 1 /\ 1 \in 1..Len(queue)
      /\ \A i \in 1..Len(queue') : i + 1 \in 1..Len(queue) /\ queue'[i] = queue[i + 1]
  BY SMTT(30), <1>0, TakeFacts
<1>3. \A i \in 1..Len(queue) : queue[i][1] \in Cids
  BY <1>0, QueueFacts
<1>4. JobsDistinct'
  <2>1. \A i, j \in 1..Len(queue') : queue'[i][1] = queue'[j][1] => i = j
    <3> SUFFICES ASSUME NEW i \in 1..Len(queue'), NEW j \in 1..Len(queue'),
                        queue'[i][1] = queue'[j][1]
                 PROVE  i = j
      OBVIOUS
    <3>1. i + 1 = j + 1
      BY <1>2 DEF OneJobPerCid, JobsDistinct
    <3> QED  BY SMTT(30), <3>1, <1>2
  <2>2. \A i \in 1..Len(queue') : queue'[i][1] # queue[1][1]
    <3> SUFFICES ASSUME NEW i \in 1..Len(queue'), queue'[i][1] = queue[1][1] PROVE FALSE
      OBVIOUS
    <3>1. i + 1 = 1
      BY SMTT(30), <1>2 DEF OneJobPerCid, JobsDistinct
    <3> QED  BY <3>1, <1>2
  <2>3. \A v \in Workers, i \in 1..Len(queue') : wcid'[v] # queue'[i][1]
    BY SMTT(30), <1>1, <1>2, <2>2 DEF OneJobPerCid, JobsDistinct
  <2>4. \A g \in Handlers, i \in 1..Len(queue') : hcid'[g] # queue'[i][1]
    BY SMTT(30), <1>1, <1>2 DEF OneJobPerCid, JobsDistinct
  <2>5. \A v, u \in Workers : wcid'[v] # NoCid /\ wcid'[v] = wcid'[u] => v = u
    BY SMTT(30), <1>1, <1>2, <1>3 DEF OneJobPerCid, JobsDistinct
  <2>6. \A g \in Handlers, v \in Workers : hcid'[g] # NoCid => hcid'[g] # wcid'[v]
    BY SMTT(30), <1>1, <1>2 DEF OneJobPerCid, JobsDistinct
  <2>7. \A h, g \in Handlers : hcid'[h] # NoCid /\ hcid'[h] = hcid'[g] => h = g
    BY <1>1 DEF OneJobPerCid, JobsDistinct
  <2> QED
    BY <2>1, <2>3, <2>4, <2>5, <2>6, <2>7 DEF JobsDistinct
<1>5. MarksAgree'
  <2> SUFFICES ASSUME NEW c \in Cids PROVE HasJob(c)' <=> HasJob(c)
    BY <1>1 DEF OneJobPerCid, MarksAgree
  <2>1. ASSUME NEW i \in 1..Len(queue), queue[i][1] = c PROVE HasJob(c)'
    <3>1. CASE i = 1
      BY <1>1, <2>1, <3>1 DEF HasJob
    <3>2. CASE i # 1
      <4>1. i - 1 \in 1..Len(queue') /\ (i - 1) + 1 = i
        BY <1>2, <3>2
      <4>2. queue'[i - 1] = queue[i]
        BY SMTT(30), <1>2, <4>1
      <4> QED
        BY <2>1, <4>1, <4>2 DEF HasJob
    <3> QED  BY <3>1, <3>2
  <2>2. HasJob(c) => HasJob(c)'
    BY <1>1, <2>1 DEF HasJob
  <2>3. HasJob(c)' => HasJob(c)
    BY SMTT(30), <1>1, <1>2 DEF HasJob
  <2> QED  BY SMTT(30), <2>2, <2>3
<1> QED
  BY <1>1, <1>3, <1>4, <1>5, <1>2 DEF OneJobPerCid

(* Clear removes a job with its mark. *)
LEMMA ClearJobs ==
  ASSUME TypeOK, OneJobPerCid, NEW w \in Workers, Clear(w)
  PROVE  OneJobPerCid'
<1>1. /\ wcid[w] \in Cids /\ UNCHANGED <<hcid, queue>> /\ inFlight' = inFlight \ {wcid[w]}
      /\ wcid'[w] = NoCid /\ wpc'[w] = "idle"
      /\ \A v \in Workers \ {w} : wcid'[v] = wcid[v] /\ wpc'[v] = wpc[v]
  BY ZenonT(60) DEF Clear, TypeOK, OneJobPerCid, handlerVars
<1>2. \A i \in 1..Len(queue) : queue[i][1] \in Cids
  BY SMTT(30), QueueFacts DEF TypeOK
<1>3. JobsDistinct'
  BY SMTT(30), <1>1, <1>2 DEF OneJobPerCid, JobsDistinct
<1>4. MarksAgree'
  BY <1>1 DEF OneJobPerCid, MarksAgree, JobsDistinct, HasJob
<1> QED
  BY SMTT(30), <1>1, <1>3, <1>4 DEF OneJobPerCid

(* Every action keeps inFlight and the jobs in agreement. *)
LEMMA NextOneJob == ASSUME TypeOK, OneJobPerCid, [Next]_vars  PROVE OneJobPerCid'
<1> DEFINE Same == /\ UNCHANGED <<inFlight, queue, hcid, wcid>>
                   /\ \A w \in Workers : wpc'[w] = "idle" <=> wpc[w] = "idle"
<1>1. ASSUME NEW w \in Workers, Lookup(w) \/ Pull(w) \/ Ingest(w) \/ ListReferrers(w)
                                 \/ EndReferrers(w)
      PROVE  Same
  BY ZenonT(60), <1>1 DEF TypeOK, Lookup, Pull, Ingest, ListReferrers, EndReferrers
<1>2. ASSUME NEW w \in Workers, NEW d \in Descs, SyncReferrer(w, d) PROVE Same
  BY <1>2 DEF SyncReferrer
<1>3. ASSUME NEW c \in Cids, LocalOp(c) PROVE Same
  BY <1>3 DEF LocalOp
<1>4. ASSUME UNCHANGED vars PROVE Same
  BY <1>4 DEF vars
<1>5. CASE Same
  BY ZenonT(60), <1>5, SameJobs
<1>6. CASE Restart
  BY SMTT(30), <1>6 DEF OneJobPerCid, MarksAgree, JobsDistinct, HasJob, Restart
<1> HIDE DEF Same
<1> QED
  BY ZenonT(60), <1>1, <1>2, <1>3, <1>4, <1>5, <1>6, MarkJobs, EnqueueJobs, TakeJobs, ClearJobs
  DEF Next, WorkerStep

(* Every action ingests only what it has verified. *)
LEMMA NextVerified == ASSUME TypeOK, OneJobPerCid, JobsAreTrusted, OnlyVerifiedIngested, [Next]_vars  PROVE OnlyVerifiedIngested'
<1> USE DEF TypeOK, JobsAreTrusted, OnlyVerifiedIngested
<1>1. ASSUME NEW h \in Handlers, NEW c \in Cids, NEW p \in Peers, Mark(h, c, p) PROVE OnlyVerifiedIngested'
  BY SMTT(30), <1>1 DEF Mark
<1>2. ASSUME NEW h \in Handlers, Enqueue(h) PROVE OnlyVerifiedIngested'
  BY SMTT(30), <1>2 DEF Enqueue
<1>3. ASSUME NEW w \in Workers, Take(w) PROVE OnlyVerifiedIngested'
  BY ZenonT(60), <1>3 DEF Take
<1>4. ASSUME NEW w \in Workers, Lookup(w) PROVE OnlyVerifiedIngested'
  BY ZenonT(60), <1>4 DEF Lookup
<1>5. ASSUME NEW w \in Workers, Pull(w) PROVE OnlyVerifiedIngested'
  BY ZenonT(60), <1>5 DEF Pull
<1>6. ASSUME NEW w \in Workers, Ingest(w) PROVE OnlyVerifiedIngested'
  BY SMTT(30), <1>6 DEF Ingest
<1>7. ASSUME NEW w \in Workers, ListReferrers(w) PROVE OnlyVerifiedIngested'
  BY ZenonT(60), <1>7 DEF ListReferrers
<1>8. ASSUME NEW w \in Workers, NEW d \in Descs, SyncReferrer(w, d) PROVE OnlyVerifiedIngested'
  BY ZenonT(60), <1>8 DEF SyncReferrer
<1>9. ASSUME NEW w \in Workers, EndReferrers(w) PROVE OnlyVerifiedIngested'
  BY ZenonT(60), <1>9 DEF EndReferrers
<1>10. ASSUME NEW w \in Workers, Clear(w) PROVE OnlyVerifiedIngested'
  BY ZenonT(60), <1>10 DEF Clear
<1>11. ASSUME NEW c \in Cids, LocalOp(c) PROVE OnlyVerifiedIngested'
  BY ZenonT(60), <1>11 DEF LocalOp
<1>12. CASE Restart
  BY ZenonT(60), <1>12 DEF Restart
<1>13. CASE UNCHANGED vars
  BY SMTT(30), <1>13 DEF vars
<1> QED
  BY ZenonT(60), <1>1, <1>2, <1>3, <1>4, <1>5, <1>6, <1>7, <1>8, <1>9, <1>10, <1>11, <1>12, <1>13 DEF Next,
     WorkerStep

(* Every action keeps only referrers it has verified. *)
LEMMA NextReferrers == ASSUME TypeOK, OnlyVerifiedReferrers, [Next]_vars  PROVE OnlyVerifiedReferrers'
<1> USE DEF TypeOK, OnlyVerifiedReferrers, verifyReferrer
<1>1. ASSUME NEW h \in Handlers, NEW c \in Cids, NEW p \in Peers, Mark(h, c, p) PROVE OnlyVerifiedReferrers'
  BY SMTT(30), <1>1 DEF Mark
<1>2. ASSUME NEW h \in Handlers, Enqueue(h) PROVE OnlyVerifiedReferrers'
  BY ZenonT(60), <1>2 DEF Enqueue
<1>3. ASSUME NEW w \in Workers, Take(w) PROVE OnlyVerifiedReferrers'
  BY SMTT(30), <1>3 DEF Take
<1>4. ASSUME NEW w \in Workers, Lookup(w) PROVE OnlyVerifiedReferrers'
  BY SMTT(30), <1>4 DEF Lookup
<1>5. ASSUME NEW w \in Workers, Pull(w) PROVE OnlyVerifiedReferrers'
  BY SMTT(30), <1>5 DEF Pull
<1>6. ASSUME NEW w \in Workers, Ingest(w) PROVE OnlyVerifiedReferrers'
  BY SMTT(30), <1>6 DEF Ingest
<1>7. ASSUME NEW w \in Workers, ListReferrers(w) PROVE OnlyVerifiedReferrers'
  BY ZenonT(60), <1>7 DEF ListReferrers
<1>8. ASSUME NEW w \in Workers, NEW d \in Descs, SyncReferrer(w, d) PROVE OnlyVerifiedReferrers'
  BY SMTT(30), <1>8 DEF SyncReferrer
<1>9. ASSUME NEW w \in Workers, EndReferrers(w) PROVE OnlyVerifiedReferrers'
  BY ZenonT(60), <1>9 DEF EndReferrers
<1>10. ASSUME NEW w \in Workers, Clear(w) PROVE OnlyVerifiedReferrers'
  BY SMTT(30), <1>10 DEF Clear
<1>11. ASSUME NEW c \in Cids, LocalOp(c) PROVE OnlyVerifiedReferrers'
  BY ZenonT(60), <1>11 DEF LocalOp
<1>12. CASE Restart
  BY ZenonT(60), <1>12 DEF Restart
<1>13. CASE UNCHANGED vars
  BY <1>13 DEF vars
<1> QED
  BY ZenonT(60), <1>1, <1>2, <1>3, <1>4, <1>5, <1>6, <1>7, <1>8, <1>9, <1>10, <1>11, <1>12, <1>13 DEF Next,
     WorkerStep

(* The inductive invariant. *)
AutosyncInv ==
    TypeOK /\ OneJobPerCid /\ JobsAreTrusted /\ OnlyVerifiedIngested /\ OnlyVerifiedReferrers

(* It holds in every reachable state. *)
THEOREM Invariant == Spec => []AutosyncInv
<1>1. ASSUME Init PROVE AutosyncInv
  <2>1. QueueOK
    BY <1>1 DEF Init, QueueOK
  <2>2. TypeOK
    BY <1>1, <2>1 DEF Init, TypeOK
  <2>3. Len(queue) = 0
    BY ZenonT(60), <1>1 DEF Init
  <2>4. OneJobPerCid /\ JobsAreTrusted
    BY SMTT(30), <1>1, <2>3 DEF Init, OneJobPerCid, MarksAgree, JobsDistinct, HasJob, JobsAreTrusted
  <2>5. OnlyVerifiedIngested /\ OnlyVerifiedReferrers
    BY <1>1 DEF Init, OnlyVerifiedIngested, OnlyVerifiedReferrers
  <2> QED
    BY <2>2, <2>4, <2>5 DEF AutosyncInv
<1>2. AutosyncInv /\ [Next]_vars => AutosyncInv'
  BY NextTypes, NextOneJob, NextTrusted, NextVerified, NextReferrers DEF AutosyncInv
<1> QED  BY <1>1, <1>2, PTL DEF Spec

(* Queue, handlers and workers keep their types; the queue stays within its
   size and the pull within its attempts. *)
THEOREM TypeCorrect == Spec => []TypeOK
<1>1. AutosyncInv => TypeOK
  BY DEF AutosyncInv
<1> QED  BY <1>1, Invariant, PTL

(* A CID is in flight exactly while one job for it exists. *)
THEOREM NoDoubleWork == Spec => []OneJobPerCid
<1>1. AutosyncInv => OneJobPerCid
  BY DEF AutosyncInv
<1> QED  BY <1>1, Invariant, PTL

(* Nothing unverified and nothing of an untrusted peer is ingested, nor is a
   referrer of another record or of a type that is not allowed. *)
THEOREM FailClosed == Spec => []OnlyVerified
<1>1. AutosyncInv => OnlyVerified
  BY DEF AutosyncInv, OnlyVerified
<1> QED  BY <1>1, Invariant, PTL

(* A step that changes the stage of one CID is a move of the abstract job. *)
LEMMA OneStageMoves ==
  ASSUME NEW k \in Cids, NEW from, NEW to, Stage(k) = from, Stage(k)' = to,
         \A c \in Cids \ {k} : Stage(c)' = Stage(c)
  PROVE  Flights!Move(k, from, to)
<1> DEFINE f == [c \in Cids |-> Stage(c)]
           g == [c \in Cids |-> Stage(c)']
<1>1. f[k] = from
  OBVIOUS
<1>2. g = [f EXCEPT ![k] = to]
  BY ZenonT(60)
<1> QED
  BY <1>1, <1>2 DEF Flights!Move

(* A step that changes no stage leaves the abstract jobs alone. *)
LEMMA NoStageMoves ==
  ASSUME \A c \in Cids : Stage(c)' = Stage(c)
  PROVE  UNCHANGED [c \in Cids |-> Stage(c)]
  OBVIOUS

(* The stage of the CID a worker has. *)
LEMMA WorkerStage ==
  ASSUME TypeOK, OneJobPerCid, NEW w \in Workers, wpc[w] # "idle"
  PROVE  /\ wcid[w] \in Cids /\ wcid[w] \in inFlight /\ ~Waits(wcid[w])
         /\ Works(wcid[w]) <=> wpc[w] \in {"lookup", "pull", "ingest"}
<1>1. wcid[w] \in Cids
  BY DEF TypeOK, OneJobPerCid
<1>2. wcid[w] \in inFlight
  BY <1>1 DEF OneJobPerCid, MarksAgree, HasJob
<1>3. ~Waits(wcid[w])
  BY <1>1 DEF OneJobPerCid, JobsDistinct, Waits
<1>4. Works(wcid[w]) <=> wpc[w] \in {"lookup", "pull", "ingest"}
  BY <1>1 DEF OneJobPerCid, JobsDistinct, Works
<1> QED  BY <1>1, <1>2, <1>3, <1>4

(* A worker that goes on within a job changes at most the stage of its CID. *)
LEMMA GoesOn ==
  ASSUME TypeOK, OneJobPerCid, NEW w \in Workers, wpc[w] # "idle",
         UNCHANGED <<inFlight, queue, hcid, wcid>>, wpc'[w] # "idle",
         \A v \in Workers \ {w} : wpc'[v] = wpc[v]
  PROVE  /\ \A c \in Cids \ {wcid[w]} : Stage(c)' = Stage(c)
         /\ wcid[w] \in Cids
         /\ Stage(wcid[w]) = IF wpc[w] \in {"lookup", "pull", "ingest"} THEN "working" ELSE "settled"
         /\ Stage(wcid[w])' = IF wpc'[w] \in {"lookup", "pull", "ingest"} THEN "working" ELSE "settled"
<1>1. /\ wcid[w] \in Cids /\ wcid[w] \in inFlight /\ ~Waits(wcid[w])
      /\ Works(wcid[w]) <=> wpc[w] \in {"lookup", "pull", "ingest"}
  BY WorkerStage
<1>2. \A c \in Cids : Waits(c)' <=> Waits(c)
  BY DEF Waits
<1>3. \A c \in Cids \ {wcid[w]} : Works(c)' <=> Works(c)
  BY DEF Works
<1>4. Works(wcid[w])' <=> wpc'[w] \in {"lookup", "pull", "ingest"}
  BY <1>1 DEF OneJobPerCid, JobsDistinct, Works
<1>5. \A c \in Cids \ {wcid[w]} : Stage(c)' = Stage(c)
  BY <1>2, <1>3 DEF Stage
<1>6. Stage(wcid[w]) = IF wpc[w] \in {"lookup", "pull", "ingest"} THEN "working" ELSE "settled"
  BY <1>1 DEF Stage
<1>7. Stage(wcid[w])' = IF wpc'[w] \in {"lookup", "pull", "ingest"} THEN "working" ELSE "settled"
  BY <1>1, <1>2, <1>4 DEF Stage
<1> QED  BY <1>1, <1>5, <1>6, <1>7

(* The handlers' steps: accept, and drop when the queue is full; a send
   changes no stage. *)
LEMMA HandlerSteps ==
  ASSUME TypeOK, OneJobPerCid, NEW h \in Handlers
  PROVE  /\ \A c \in Cids, p \in Peers : Mark(h, c, p) => Flights!Accept(c)
         /\ Enqueue(h) => (\E c \in Cids : Flights!Drop(c)) \/ UNCHANGED Flights!vars
<1>1. ASSUME NEW c \in Cids, NEW p \in Peers, Mark(h, c, p) PROVE Flights!Accept(c)
  <2>1. /\ hcid[h] = NoCid /\ c \notin inFlight /\ inFlight' = inFlight \cup {c}
        /\ UNCHANGED <<queue, wcid, wpc, store>>
        /\ hcid'[h] = c /\ \A g \in Handlers \ {h} : hcid'[g] = hcid[g]
    <3>1. hcid \in [Handlers -> Cids \cup {NoCid}]
      BY DEF TypeOK
    <3> QED  BY <1>1, <3>1 DEF Mark
  <2>2. Stage(c) = "none" /\ Stage(c)' = "waiting"
    BY <2>1 DEF Stage, Waits
  <2>3. ASSUME NEW d \in Cids \ {c} PROVE Stage(d)' = Stage(d)
    <3>1. (Waits(d)' <=> Waits(d)) /\ (Works(d)' <=> Works(d))
      BY <2>1 DEF Waits, Works
    <3> QED
      BY ZenonT(60), <2>1, <3>1 DEF Stage
  <2> QED
    BY <2>1, <2>2, <2>3, OneStageMoves DEF Flights!Accept
<1>2. ASSUME Enqueue(h) PROVE (\E c \in Cids : Flights!Drop(c)) \/ UNCHANGED Flights!vars
  <2>0. QueueOK
    BY DEF TypeOK
  <2>1. /\ hcid[h] \in Cids /\ UNCHANGED <<wcid, wpc, store>>
        /\ hcid'[h] = NoCid /\ \A g \in Handlers \ {h} : hcid'[g] = hcid[g]
    BY SMTT(30), <1>2 DEF Enqueue, TypeOK
  <2>2. \A c \in Cids : Works(c)' <=> Works(c)
    BY <2>1 DEF Works
  <2>3. CASE Len(queue) < QueueSize
    <3> DEFINE n == Len(queue) + 1
    <3>1. /\ queue'[n][1] = hcid[h] /\ n \in 1..Len(queue')
          /\ \A i \in 1..Len(queue) : queue'[i] = queue[i] /\ i \in 1..Len(queue')
          /\ \A i \in 1..Len(queue') : i \in 1..Len(queue) \/ i = n
      BY SMTT(30), <2>0, <1>2, <2>3, EnqueueFacts, QueueFacts
    <3>2. UNCHANGED inFlight
      BY <2>0, <1>2, <2>3, QueueFacts DEF Enqueue, TypeOK
    <3> HIDE DEF n
    <3>3. ASSUME NEW c \in Cids PROVE Waits(c)' <=> Waits(c)
      <4>1. ASSUME NEW g \in Handlers, hcid[g] = c PROVE Waits(c)'
        <5>1. CASE g = h
          BY <3>1, <4>1, <5>1 DEF Waits
        <5>2. CASE g # h
          BY <2>1, <4>1, <5>2 DEF Waits
        <5> QED  BY <5>1, <5>2
      <4>2. ASSUME NEW i \in 1..Len(queue), queue[i][1] = c PROVE Waits(c)'
        <5>1. i \in 1..Len(queue') /\ queue'[i][1] = c
          BY <3>1, <4>2
        <5> QED  BY <5>1 DEF Waits
      <4>3. ASSUME NEW g \in Handlers, hcid'[g] = c PROVE Waits(c)
        <5>1. g # h
          BY <2>1, <4>3, AutosyncConstants
        <5> QED  BY <2>1, <4>3, <5>1 DEF Waits
      <4>4. ASSUME NEW i \in 1..Len(queue'), queue'[i][1] = c PROVE Waits(c)
        <5>1. CASE i = n
          BY <3>1, <4>4, <5>1 DEF Waits
        <5>2. CASE i \in 1..Len(queue)
          BY <3>1, <4>4, <5>2 DEF Waits
        <5> QED  BY <3>1, <5>1, <5>2
      <4> QED
        BY <4>1, <4>2, <4>3, <4>4 DEF Waits
    <3>4. \A c \in Cids : Stage(c)' = Stage(c)
      BY <2>2, <3>2, <3>3 DEF Stage
    <3> QED
      BY <2>1, <3>4, NoStageMoves DEF Flights!vars
  <2>4. CASE ~(Len(queue) < QueueSize)
    <3>1. UNCHANGED queue /\ inFlight' = inFlight \ {hcid[h]}
      BY <1>2, <2>4 DEF Enqueue
    <3>2. PICK k \in Cids : k = hcid[h]
      BY <2>1
    <3>3. Stage(k) = "waiting" /\ Stage(k)' = "none"
      BY <2>1, <3>1, <3>2 DEF Stage, Waits, OneJobPerCid, MarksAgree, HasJob
    <3>4. \A c \in Cids \ {k} : Waits(c)' <=> Waits(c)
      BY <2>1, <3>1, <3>2 DEF Waits
    <3>5. \A c \in Cids \ {k} : Stage(c)' = Stage(c)
      BY <2>2, <3>1, <3>2, <3>4 DEF Stage
    <3>6. Flights!Move(k, "waiting", "none")
      BY <3>3, <3>5, OneStageMoves
    <3> QED
      BY <2>1, <3>6 DEF Flights!Drop
  <2> QED  BY <2>3, <2>4
<1> QED  BY <1>1, <1>2

(* A worker takes a job. *)
LEMMA TakeStep ==
  ASSUME TypeOK, OneJobPerCid, OneJobPerCid', NEW w \in Workers, Take(w)
  PROVE  \E c \in Cids : Flights!Pick(c)
<1>0. QueueOK
  BY DEF TypeOK
<1>k. PICK k \in Cids : k = queue[1][1]
  BY <1>0, TakeFacts, QueueFacts
<1>1. /\ wpc[w] = "idle" /\ wcid[w] = NoCid /\ UNCHANGED <<hcid, inFlight, store>>
      /\ wcid'[w] = k /\ wpc'[w] = "lookup"
      /\ \A v \in Workers \ {w} : wcid'[v] = wcid[v] /\ wpc'[v] = wpc[v]
  BY SMTT(30), <1>0, <1>k, TakeFacts DEF Take, TypeOK, OneJobPerCid
<1>2. /\ Len(queue) \in Nat \ {0} /\ Len(queue') = Len(queue) - 1 /\ 1 \in 1..Len(queue)
      /\ \A i \in 1..Len(queue') : i + 1 \in 1..Len(queue) /\ queue'[i] = queue[i + 1]
  BY SMTT(30), <1>0, TakeFacts
<1>4. k \in inFlight /\ Waits(k)
  BY <1>k, <1>2 DEF OneJobPerCid, MarksAgree, HasJob, Waits
<1>5. ~Waits(k)' /\ Works(k)'
  <2>1. Works(k)'
    BY <1>1 DEF Works
  <2>2. \A i \in 1..Len(queue') : wcid'[w] # queue'[i][1]
    BY DEF OneJobPerCid, JobsDistinct
  <2>3. \A g \in Handlers : hcid'[g] # wcid'[w]
    BY ZenonT(60), <1>1 DEF OneJobPerCid, JobsDistinct
  <2> QED
    BY <1>1, <2>1, <2>2, <2>3 DEF Waits
<1>6. ASSUME NEW c \in Cids \ {k} PROVE Stage(c)' = Stage(c)
  <2>1. Works(c)' <=> Works(c)
    BY SMTT(30), <1>1 DEF Works
  <2>2. ASSUME NEW i \in 1..Len(queue), queue[i][1] = c PROVE Waits(c)'
    <3>1. i # 1
      BY <1>k, <2>2
    <3>2. i - 1 \in 1..Len(queue') /\ (i - 1) + 1 = i
      BY <1>2, <3>1
    <3>3. queue'[i - 1] = queue[i]
      BY SMTT(30), <1>2, <3>2
    <3> QED
      BY <2>2, <3>2, <3>3 DEF Waits
  <2>3. Waits(c)' <=> Waits(c)
    BY SMTT(30), <1>1, <1>2, <2>2 DEF Waits
  <2> QED
    BY Zenon, <1>1, <2>1, <2>3 DEF Stage
<1>7. Stage(k) = "waiting" /\ Stage(k)' = "working"
  BY <1>1, <1>4, <1>5 DEF Stage
<1>8. Flights!Move(k, "waiting", "working")
  BY <1>6, <1>7, OneStageMoves
<1> QED
  BY <1>1, <1>8 DEF Flights!Pick

(* The steps of a worker within a job. *)
LEMMA WorkerSteps ==
  ASSUME TypeOK, OneJobPerCid, NEW w \in Workers
  PROVE  /\ Lookup(w) \/ Pull(w) \/ Ingest(w) =>
               (\E c \in Cids : Flights!Import(c) \/ Flights!GiveUp(c)) \/ UNCHANGED Flights!vars
         /\ ListReferrers(w) \/ EndReferrers(w) \/ (\E d \in Descs : SyncReferrer(w, d)) =>
               UNCHANGED Flights!vars
<1> DEFINE At(pcs) == /\ wpc[w] # "idle" /\ wpc'[w] # "idle" /\ wpc'[w] \in pcs
                      /\ UNCHANGED <<inFlight, queue, hcid, wcid>>
                      /\ \A v \in Workers \ {w} : wpc'[v] = wpc[v]
           Early == {"lookup", "pull", "ingest"}
           Late == {"list", "referrers", "clear"}
<1>1. ASSUME wpc[w] \in Early, At(Early), UNCHANGED store PROVE UNCHANGED Flights!vars
  <2>1. \A c \in Cids : Stage(c)' = Stage(c)
    BY <1>1, GoesOn
  <2> QED  BY Zenon, <1>1, <2>1, NoStageMoves DEF Flights!vars
<1>2. ASSUME wpc[w] \in Late, At(Late), UNCHANGED store PROVE UNCHANGED Flights!vars
  <2>1. \A c \in Cids : Stage(c)' = Stage(c)
    BY <1>2, GoesOn
  <2> QED  BY <1>2, <2>1, NoStageMoves DEF Flights!vars
<1>3. ASSUME wpc[w] \in Early, At(Late) PROVE Flights!Move(wcid[w], "working", "settled") /\ wcid[w] \in Cids
  <2>1. PICK k \in Cids : k = wcid[w]
    BY <1>3, GoesOn
  <2>2. Stage(k) = "working" /\ Stage(k)' = "settled" /\ \A c \in Cids \ {k} : Stage(c)' = Stage(c)
    BY <1>3, <2>1, GoesOn
  <2> QED  BY <2>1, <2>2, OneStageMoves
<1>4. ASSUME Lookup(w) PROVE wpc[w] \in Early /\ (At(Early) \/ At(Late)) /\ UNCHANGED store
  BY SMTT(30), <1>4 DEF Lookup, TypeOK
<1>5. ASSUME Pull(w) PROVE wpc[w] \in Early /\ (At(Early) \/ At(Late)) /\ UNCHANGED store
  BY SMTT(30), <1>5 DEF Pull, TypeOK
<1>6. ASSUME Ingest(w)
      PROVE  /\ wpc[w] \in Early /\ At(Late)
             /\ UNCHANGED store \/ (wcid[w] \in Valid /\ store' = store \cup {wcid[w]})
  BY SMTT(30), <1>6 DEF Ingest, TypeOK
<1>7. ASSUME ListReferrers(w) \/ EndReferrers(w) PROVE wpc[w] \in Late /\ At(Late) /\ UNCHANGED store
  BY SMTT(30), <1>7 DEF ListReferrers, EndReferrers, TypeOK
<1>8. ASSUME NEW d \in Descs, SyncReferrer(w, d) PROVE wpc[w] \in Late /\ At(Late) /\ UNCHANGED store
  BY SMTT(30), <1>8 DEF SyncReferrer, TypeOK
<1> HIDE DEF At, Early, Late
<1> QED
  BY ZenonT(60), <1>1, <1>2, <1>3, <1>4, <1>5, <1>6, <1>7, <1>8 DEF Flights!Import, Flights!GiveUp

(* A worker releases the CID of its job. *)
LEMMA ClearStep ==
  ASSUME TypeOK, OneJobPerCid, NEW w \in Workers, Clear(w)
  PROVE  \E c \in Cids : Flights!Release(c)
<1>1. /\ UNCHANGED <<hcid, queue, store>> /\ inFlight' = inFlight \ {wcid[w]}
      /\ wcid'[w] = NoCid /\ wpc[w] = "clear" /\ wpc'[w] = "idle"
      /\ \A v \in Workers \ {w} : wcid'[v] = wcid[v] /\ wpc'[v] = wpc[v]
  BY ZenonT(60) DEF Clear, TypeOK
<1>2. PICK k \in Cids : k = wcid[w] /\ Stage(k) = "settled"
  BY <1>1, WorkerStage DEF Stage
<1>3. Stage(k)' = "none"
  BY <1>1, <1>2 DEF Stage
<1>4. ASSUME NEW c \in Cids \ {k} PROVE Stage(c)' = Stage(c)
  <2>1. (Waits(c)' <=> Waits(c)) /\ (Works(c)' <=> Works(c))
    BY <1>1, <1>2 DEF Waits, Works
  <2> QED
    BY <1>1, <1>2, <2>1 DEF Stage
<1>5. Flights!Move(k, "settled", "none")
  BY <1>2, <1>3, <1>4, OneStageMoves
<1> QED
  BY <1>1, <1>5 DEF Flights!Release

(* Every step of the handlers, the workers and the API is a step of the
   abstract jobs, or changes nothing they see. *)
LEMMA NextFlights == ASSUME AutosyncInv, AutosyncInv', [Next]_vars  PROVE [Flights!Next]_(Flights!vars)
<1> USE DEF AutosyncInv
<1>1. ASSUME NEW h \in Handlers, NEW c \in Cids, NEW p \in Peers, Mark(h, c, p) PROVE Flights!Next
  BY <1>1, HandlerSteps DEF Flights!Next
<1>2. ASSUME NEW h \in Handlers, Enqueue(h) PROVE [Flights!Next]_(Flights!vars)
  BY <1>2, HandlerSteps DEF Flights!Next
<1>3. ASSUME NEW w \in Workers, WorkerStep(w) PROVE [Flights!Next]_(Flights!vars)
  BY <1>3, TakeStep, WorkerSteps, ClearStep DEF WorkerStep, Flights!Next
<1>4. ASSUME NEW c \in Cids, LocalOp(c) PROVE Flights!Next
  <2>1. \A d \in Cids : Stage(d)' = Stage(d)
    BY <1>4 DEF LocalOp, Stage, Waits, Works
  <2>2. store' \in {store \ {c}, store \cup ({c} \cap Valid)}
    BY <1>4 DEF LocalOp
  <2> QED
    BY <2>1, <2>2, NoStageMoves DEF Flights!Next, Flights!Local
<1>5. CASE Restart
  <2>1. \A d \in Cids : Stage(d)' = "none"
    BY <1>5 DEF Restart, Stage
  <2> QED
    BY <1>5, <2>1 DEF Restart, Flights!Next, Flights!Restart
<1>6. CASE UNCHANGED vars
  <2>1. \A d \in Cids : Stage(d)' = Stage(d)
    BY <1>6 DEF vars, Stage, Waits, Works
  <2> QED
    BY <1>6, <2>1, NoStageMoves DEF vars, Flights!vars
<1> QED
  BY <1>1, <1>2, <1>3, <1>4, <1>5, <1>6 DEF Next

(* Handlers, queue, workers and restarts implement one job at a time per CID. *)
THEOREM Refinement == Spec => ImplementsSingleFlight
<1>1. Init => Flights!Init
  BY DEF Init, Flights!Init, Stage
<1>2. AutosyncInv /\ AutosyncInv' /\ [Next]_vars => [Flights!Next]_(Flights!vars)
  BY NextFlights
<1> QED
  BY <1>1, <1>2, Invariant, PTL DEF Spec, ImplementsSingleFlight, Flights!Spec

(* A step that stores no record, asks for no referrer less and leaves the
   workers that still ask for some where they are, forgets none. *)
LEMMA StillAsked ==
    ASSUME NoReferrerForgotten, store' = store, held \subseteq held', faults' >= faults,
           faults \in Nat, faults' \in Nat, UNCHANGED <<localOps, restarts, todo>>,
           \A v \in Workers :
               wpc[v] \in {"list", "referrers"} => wpc'[v] = wpc[v] /\ wcid'[v] = wcid[v]
    PROVE  NoReferrerForgotten'
<1> SUFFICES ASSUME faults' = 0, restarts' = 0, localOps' = 0, NEW c \in store
             PROVE  FollowedUp(c)'
  BY DEF NoReferrerForgotten
<1>1. Due(c)' \subseteq Due(c)
  BY DEF Due
<1>2. faults = 0
  OBVIOUS
<1>3. CASE Due(c) = {}
  BY <1>1, <1>3 DEF FollowedUp
<1>4. ASSUME NEW v \in Workers, wcid[v] = c,
             wpc[v] = "list" \/ (wpc[v] = "referrers" /\ Due(c) \subseteq todo[v])
      PROVE  wcid'[v] = c /\ (wpc'[v] = "list" \/ (wpc'[v] = "referrers" /\ Due(c)' \subseteq todo'[v]))
  BY <1>1, <1>4
<1> QED
  BY Zenon, <1>2, <1>3, <1>4 DEF NoReferrerForgotten, FollowedUp

(* Every action keeps the workers busy that have referrers to fetch. *)
LEMMA NextAsked == ASSUME TypeOK, NoReferrerForgotten, [Next]_vars  PROVE NoReferrerForgotten'
<1>0. /\ faults \in Nat /\ localOps \in Nat /\ restarts \in Nat
      /\ wpc \in [Workers -> {"idle", "lookup", "pull", "ingest", "list", "referrers", "clear"}]
      /\ wcid \in [Workers -> Cids \cup {NoCid}] /\ todo \in [Workers -> SUBSET Descs]
  BY DEF TypeOK
<1> USE <1>0
<1>1. ASSUME NEW h \in Handlers, NEW c \in Cids, NEW p \in Peers, Mark(h, c, p) PROVE NoReferrerForgotten'
  BY <1>1, StillAsked DEF Mark
<1>2. ASSUME NEW h \in Handlers, Enqueue(h) PROVE NoReferrerForgotten'
  BY <1>2, StillAsked DEF Enqueue
<1>3. ASSUME NEW w \in Workers, Take(w) PROVE NoReferrerForgotten'
  BY <1>3, StillAsked DEF Take
<1>4. ASSUME NEW w \in Workers, Lookup(w) PROVE NoReferrerForgotten'
  BY <1>4, StillAsked DEF Lookup
<1>5. ASSUME NEW w \in Workers, Pull(w) PROVE NoReferrerForgotten'
  BY <1>5, StillAsked DEF Pull
<1>6. ASSUME NEW w \in Workers, Ingest(w) PROVE NoReferrerForgotten'
  <2> SUFFICES ASSUME faults' = 0, restarts' = 0, localOps' = 0, NEW c \in store'
               PROVE  FollowedUp(c)'
    BY DEF NoReferrerForgotten
  <2>1. Due(c)' = Due(c) /\ faults = 0 /\ restarts = 0 /\ localOps = 0
    BY <1>6 DEF Ingest, Due
  <2>2. CASE c \in store
    BY <1>6, <2>1, <2>2 DEF Ingest, NoReferrerForgotten, FollowedUp
  <2>3. CASE c \notin store
    <3>1. wcid'[w] = c /\ wpc'[w] = "list"
      BY <1>6, <2>3 DEF Ingest
    <3> QED  BY Zenon, <3>1 DEF FollowedUp
  <2> QED  BY <2>2, <2>3
<1>7. ASSUME NEW w \in Workers, ListReferrers(w) PROVE NoReferrerForgotten'
  <2> SUFFICES ASSUME faults' = 0, restarts' = 0, localOps' = 0, NEW c \in store
               PROVE  FollowedUp(c)'
    BY <1>7 DEF NoReferrerForgotten, ListReferrers
  <2>1. Due(c)' = Due(c) /\ Due(c) \subseteq Descs /\ faults = 0 /\ restarts = 0 /\ localOps = 0
    BY <1>7 DEF ListReferrers, Due
  <2>2. wpc'[w] = "referrers" /\ todo'[w] = Descs /\ wcid' = wcid
    BY <1>7, <2>1 DEF ListReferrers
  <2>3. \A v \in Workers \ {w} : wpc'[v] = wpc[v] /\ todo'[v] = todo[v]
    BY <1>7 DEF ListReferrers
  <2> QED  BY <2>1, <2>2, <2>3 DEF NoReferrerForgotten, FollowedUp
<1>8. ASSUME NEW w \in Workers, NEW d \in Descs, SyncReferrer(w, d) PROVE NoReferrerForgotten'
  <2> SUFFICES ASSUME faults' = 0, restarts' = 0, localOps' = 0, NEW c \in store
               PROVE  FollowedUp(c)'
    BY <1>8 DEF NoReferrerForgotten, SyncReferrer
  <2>1. faults = 0 /\ restarts = 0 /\ localOps = 0 /\ wpc' = wpc /\ wcid' = wcid /\ faults' = faults
    BY <1>8 DEF SyncReferrer
  <2>2. held \subseteq held' /\ (d.type \in AllowedTypes =>
            <<wcid[w], [record |-> wcid[w], type |-> d.type, cid |-> d.cid]>> \in held')
    BY <1>8, <2>1 DEF SyncReferrer
  <2>3. Due(c)' \subseteq Due(c) /\ (wcid[w] = c => d \notin Due(c)')
    BY <2>2 DEF Due
  <2>4. todo'[w] = todo[w] \ {d} /\ \A v \in Workers \ {w} : todo'[v] = todo[v]
    BY <1>8 DEF SyncReferrer
  <2> QED  BY <2>1, <2>3, <2>4 DEF NoReferrerForgotten, FollowedUp
<1>9. ASSUME NEW w \in Workers, EndReferrers(w) PROVE NoReferrerForgotten'
  <2> SUFFICES ASSUME faults' = 0, restarts' = 0, localOps' = 0, NEW c \in store
               PROVE  FollowedUp(c)'
    BY <1>9 DEF NoReferrerForgotten, EndReferrers
  <2>1. Due(c)' = Due(c) /\ faults = 0 /\ restarts = 0 /\ localOps = 0 /\ todo' = todo /\ wcid' = wcid
    BY <1>9 DEF EndReferrers, Due
  <2>2. wpc[w] = "referrers" /\ todo[w] = {} /\ \A v \in Workers \ {w} : wpc'[v] = wpc[v]
    BY <1>9 DEF EndReferrers
  <2> QED  BY <2>1, <2>2 DEF NoReferrerForgotten, FollowedUp
<1>10. ASSUME NEW w \in Workers, Clear(w) PROVE NoReferrerForgotten'
  BY <1>10, StillAsked DEF Clear
<1>11. ASSUME NEW c \in Cids, LocalOp(c) PROVE NoReferrerForgotten'
  BY <1>11 DEF LocalOp, NoReferrerForgotten
<1>12. CASE Restart
  BY <1>12 DEF Restart, NoReferrerForgotten
<1>13. CASE UNCHANGED vars
  BY <1>13, StillAsked DEF vars
<1> QED
  BY ZenonT(60), <1>1, <1>2, <1>3, <1>4, <1>5, <1>6, <1>7, <1>8, <1>9, <1>10, <1>11, <1>12, <1>13 DEF Next,
     WorkerStep

(* No stored record is left without its allowed referrers while nobody is to
   fetch them, as long as nothing fails: the safety part of ReferrersArrive. *)
THEOREM ReferrersAreFollowedUp == Spec => []NoReferrerForgotten
<1>1. Init => NoReferrerForgotten
  BY DEF Init, NoReferrerForgotten
<1>2. AutosyncInv => TypeOK
  BY Zenon DEF AutosyncInv
<1>3. TypeOK /\ NoReferrerForgotten /\ [Next]_vars => NoReferrerForgotten'
  BY NextAsked
<1> QED  BY <1>1, <1>2, <1>3, Invariant, PTL DEF Spec
=============================================================================
