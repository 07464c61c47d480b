-------------------------- MODULE PublicationProofs --------------------------
(***************************************************************************)
(* Proofs, for any number of publications, records and workers, any queue  *)
(* capacity and any number of faults and restarts, that a publication is   *)
(* COMPLETED only if its records were announced and that, until a database *)
(* call fails, none is queued or processed twice at a time, none in        *)
(* progress is dropped and each gets one result.                           *)
(***************************************************************************)
EXTENDS Publication, FiniteSetTheorems, TLAPS

(* Publications somebody will still act upon have a row, so that no request
   changes under a worker. *)
HaveRows ==
    /\ \A p \in batch : status[p] # "absent"
    /\ spc = "mark" => status[marking] # "absent"
    /\ \A i \in 1..Len(queue) : status[queue[i]] # "absent"
    /\ \A w \in Workers : wpc[w] # "idle" => status[job[w]] # "absent"

(* A worker accounts for every CID of a request that names its records. *)
Accounted ==
    \A w \in Workers :
        wpc[w] = "announce" /\ request[job[w]].kind = "refs"
            => request[job[w]].cids \subseteq announced \cup todo[w] \cup failed[w]

USE QueueAssumption, BoundAssumption, RequestsAssumption
USE DEF Final, Statuses, Goroutines, Scheduler, rows, sched, works, life, DbFault, NetFault

(* A service without rows and work has the right types. *)
LEMMA InitTypes == Init => TypeOK
<1>1. (CHOOSE r \in Requests : TRUE) \in Requests
  OBVIOUS
<1> QED
  BY <1>1 DEF Init, TypeOK

(* Every action keeps the types. *)
LEMMA NextTypes == ASSUME TypeOK, [Next]_vars  PROVE TypeOK'
<1>1. ASSUME NEW p \in Pubs, NEW r \in Requests, CreatePublication(p, r) PROVE TypeOK'
  BY <1>1 DEF TypeOK, CreatePublication
<1>2. ASSUME NEW c \in Cids, DeleteRecord(c) PROVE TypeOK'
  BY <1>2 DEF TypeOK, DeleteRecord
<1>3. CASE Tick
  BY <1>3 DEF TypeOK, Tick
<1>4. ASSUME NEW p \in Pubs, Dispatch(p) PROVE TypeOK'
  <2>1. CASE Len(queue) < QueueCap
    <3>1. queue' = Append(queue, p) /\ spc' = "mark" /\ marking' = p
      BY <1>4, <2>1 DEF Dispatch, TypeOK
    <3>2. queue' \in Seq(Pubs) /\ Len(queue') = Len(queue) + 1
      BY <3>1 DEF TypeOK
    <3> QED
      BY <1>4, <2>1, <3>1, <3>2 DEF TypeOK, Dispatch
  <2>2. CASE ~(Len(queue) < QueueCap)
    BY <1>4, <2>2 DEF TypeOK, Dispatch
  <2> QED  BY <2>1, <2>2
<1>5. CASE Mark
  BY <1>5 DEF TypeOK, Mark, UpdatePublicationStatus
<1>6. CASE EndPass
  BY <1>6 DEF TypeOK, EndPass
<1>7. ASSUME NEW w \in Workers, Take(w) PROVE TypeOK'
  BY <1>7 DEF TypeOK, Take
<1>8. ASSUME NEW w \in Workers, Load(w) PROVE TypeOK'
  BY <1>8 DEF TypeOK, Load, getCIDsFromRequest
<1>9. ASSUME NEW w \in Workers, NEW c \in Cids, Announce(w, c) PROVE TypeOK'
  BY <1>9 DEF TypeOK, Announce
<1>10. ASSUME NEW w \in Workers, Finish(w) PROVE TypeOK'
  BY <1>10 DEF TypeOK, Finish, UpdatePublicationStatus
<1>11. CASE Stop
  BY <1>11 DEF TypeOK, Stop
<1>12. ASSUME NEW g \in Goroutines, Exit(g) PROVE TypeOK'
  BY <1>12 DEF TypeOK, Exit
<1>13. CASE Restart
  BY <1>13 DEF TypeOK, Restart, Fresh
<1>14. CASE Crash
  BY <1>14 DEF TypeOK, Crash, Fresh
<1>15. CASE UNCHANGED vars
  BY ZenonT(60), <1>15 DEF TypeOK, vars
<1> QED
  BY ZenonT(60), <1>1, <1>2, <1>3, <1>4, <1>5, <1>6, <1>7, <1>8, <1>9, <1>10, <1>11, <1>12, <1>13, <1>14,
     <1>15 DEF Next, SchedulerStep, WorkerStep

(* Every action keeps the rows of what is still to be acted upon. *)
LEMMA NextHaveRows == ASSUME TypeOK, HaveRows, [Next]_vars  PROVE HaveRows'
<1> USE DEF TypeOK, HaveRows
<1>1. ASSUME NEW p \in Pubs, NEW r \in Requests, CreatePublication(p, r) PROVE HaveRows'
  BY <1>1 DEF CreatePublication
<1>2. ASSUME NEW c \in Cids, DeleteRecord(c) PROVE HaveRows'
  BY <1>2 DEF DeleteRecord
<1>3. CASE Tick
  BY <1>3 DEF Tick
<1>4. ASSUME NEW p \in Pubs, Dispatch(p) PROVE HaveRows'
  BY SMTT(30), <1>4 DEF Dispatch
<1>5. CASE Mark
  BY <1>5 DEF Mark, UpdatePublicationStatus
<1>6. CASE EndPass
  BY <1>6 DEF EndPass
<1>7. ASSUME NEW w \in Workers, Take(w) PROVE HaveRows'
  BY <1>7 DEF Take
<1>8. ASSUME NEW w \in Workers, Load(w) PROVE HaveRows'
  BY <1>8 DEF Load
<1>9. ASSUME NEW w \in Workers, NEW c \in Cids, Announce(w, c) PROVE HaveRows'
  BY <1>9 DEF Announce
<1>10. ASSUME NEW w \in Workers, Finish(w) PROVE HaveRows'
  BY <1>10 DEF Finish, UpdatePublicationStatus
<1>11. CASE Stop
  BY <1>11 DEF Stop
<1>12. ASSUME NEW g \in Goroutines, Exit(g) PROVE HaveRows'
  BY SMTT(30), <1>12 DEF Exit
<1>13. CASE Restart \/ Crash
  BY <1>13 DEF Restart, Crash, Fresh
<1>14. CASE UNCHANGED vars
  BY ZenonT(60), <1>14 DEF vars
<1> QED
  BY ZenonT(60), <1>1, <1>2, <1>3, <1>4, <1>5, <1>6, <1>7, <1>8, <1>9, <1>10, <1>11, <1>12, <1>13, <1>14
  DEF Next, SchedulerStep, WorkerStep

(* Every action keeps the accounts of the workers, and COMPLETED earned. *)
LEMMA NextAccounted ==
  ASSUME TypeOK, HaveRows, Accounted, CompletedMeansAnnounced, [Next]_vars
  PROVE  Accounted' /\ CompletedMeansAnnounced'
<1> DEFINE Goal == Accounted' /\ CompletedMeansAnnounced'
<1> USE DEF TypeOK, HaveRows, Accounted, CompletedMeansAnnounced
<1>1. ASSUME NEW p \in Pubs, NEW r \in Requests, CreatePublication(p, r) PROVE Goal
  BY SMTT(30), <1>1 DEF CreatePublication
<1>2. ASSUME NEW c \in Cids, DeleteRecord(c) PROVE Goal
  BY SMTT(30), <1>2 DEF DeleteRecord
<1>3. CASE Tick \/ EndPass
  BY SMTT(30), <1>3 DEF Tick, EndPass
<1>4. ASSUME NEW p \in Pubs, Dispatch(p) PROVE Goal
  BY SMTT(30), <1>4 DEF Dispatch
<1>5. CASE Mark
  BY SMTT(30), <1>5 DEF Mark, UpdatePublicationStatus
<1>7. ASSUME NEW w \in Workers, Take(w) PROVE Goal
  BY SMTT(30), <1>7 DEF Take
<1>8. ASSUME NEW w \in Workers, Load(w) PROVE Goal
  BY SMTT(30), <1>8 DEF Load, getCIDsFromRequest
<1>9. ASSUME NEW w \in Workers, NEW c \in Cids, Announce(w, c) PROVE Goal
  BY SMTT(30), <1>9 DEF Announce
<1>10. ASSUME NEW w \in Workers, Finish(w) PROVE Goal
  BY <1>10 DEF Finish, UpdatePublicationStatus
<1>11. CASE Stop
  BY <1>11 DEF Stop
<1>12. ASSUME NEW g \in Goroutines, Exit(g) PROVE Goal
  BY <1>12 DEF Exit
<1>13. CASE Restart \/ Crash
  BY <1>13 DEF Restart, Crash, Fresh
<1>14. CASE UNCHANGED vars
  BY SMTT(30), <1>14 DEF vars
<1> QED
  BY ZenonT(60), <1>1, <1>2, <1>3, <1>4, <1>5, <1>7, <1>8, <1>9, <1>10, <1>11, <1>12, <1>13, <1>14
  DEF Next, SchedulerStep, WorkerStep

(* Until a database call fails, a publication is in at most one place, and one
   that is in some place is not to be queued (again): it is neither in the
   batch nor PENDING, except for the row about to be marked. *)
OnePlace ==
    dbFaults = 0 =>
        /\ \A i, j \in 1..Len(queue) : queue[i] = queue[j] => i = j
        /\ \A v, w \in Workers : wpc[v] # "idle" /\ job[v] = job[w] => v = w
        /\ \A i \in 1..Len(queue), w \in Workers : queue[i] # job[w]
        /\ \A i \in 1..Len(queue) :
              queue[i] \notin batch /\ (status[queue[i]] = "PENDING" => queue[i] = marking)
        /\ \A w \in Workers :
              wpc[w] # "idle" =>
                  job[w] \notin batch /\ (status[job[w]] = "PENDING" => job[w] = marking)
        /\ marking \notin batch

(* Every action keeps it. *)
LEMMA NextOnePlace == ASSUME TypeOK, HaveRows, OnePlace, [Next]_vars  PROVE OnePlace'
<1> USE DEF TypeOK, OnePlace
<1>1. ASSUME NEW p \in Pubs, NEW r \in Requests, CreatePublication(p, r) PROVE OnePlace'
  BY SMTT(30), <1>1 DEF CreatePublication, HaveRows
<1>2. ASSUME NEW c \in Cids, DeleteRecord(c) PROVE OnePlace'
  BY SMTT(30), <1>2 DEF DeleteRecord
<1>3. CASE Tick
  BY SMTT(30), <1>3 DEF Tick
<1>4. ASSUME NEW p \in Pubs, Dispatch(p) PROVE OnePlace'
  <2>1. CASE Len(queue) < QueueCap
    <3>1. /\ queue' = Append(queue, p) /\ marking' = p /\ batch' = batch \ {p}
          /\ marking = NoPub /\ p \in batch
          /\ UNCHANGED <<status, wpc, job, dbFaults>>
      BY SMTT(30), <1>4, <2>1 DEF Dispatch
    <3>2. Len(queue') = Len(queue) + 1 /\ queue'[Len(queue) + 1] = p
      BY SMTT(30), <3>1
    <3>3. \A i \in 1..Len(queue) : queue'[i] = queue[i]
      BY SMTT(30), <3>1
    <3>4. \A i \in 1..Len(queue') : i \in 1..Len(queue) \/ i = Len(queue) + 1
      BY SMTT(30), <3>2
    <3>5. \A i \in 1..Len(queue) : queue[i] \in Pubs
      BY SMTT(30)
    <3> QED
      BY SMTT(30), <3>1, <3>2, <3>3, <3>4, <3>5
  <2>2. CASE ~(Len(queue) < QueueCap)
    BY SMTT(30), <1>4, <2>2 DEF Dispatch
  <2> QED  BY ZenonT(60), <2>1, <2>2
<1>5. CASE Mark
  BY SMTT(30), <1>5 DEF Mark, UpdatePublicationStatus
<1>6. CASE EndPass
  BY SMTT(30), <1>6 DEF EndPass
<1>7. ASSUME NEW w \in Workers, Take(w) PROVE OnePlace'
  BY SMTT(30), <1>7 DEF Take
<1>8. ASSUME NEW w \in Workers, Load(w) PROVE OnePlace'
  BY SMTT(30), <1>8 DEF Load
<1>9. ASSUME NEW w \in Workers, NEW c \in Cids, Announce(w, c) PROVE OnePlace'
  BY SMTT(30), <1>9 DEF Announce
<1>10. ASSUME NEW w \in Workers, Finish(w) PROVE OnePlace'
  BY SMTT(30), <1>10 DEF Finish, UpdatePublicationStatus
<1>11. CASE Stop
  BY SMTT(30), <1>11 DEF Stop
<1>12. ASSUME NEW g \in Goroutines, Exit(g) PROVE OnePlace'
  BY SMTT(30), <1>12 DEF Exit
<1>13. CASE Restart \/ Crash
  BY SMTT(30), <1>13 DEF Restart, Crash, Fresh
<1>14. CASE UNCHANGED vars
  BY <1>14 DEF vars
<1> QED
  BY ZenonT(60), <1>1, <1>2, <1>3, <1>4, <1>5, <1>6, <1>7, <1>8, <1>9, <1>10, <1>11, <1>12, <1>13, <1>14
  DEF Next, SchedulerStep, WorkerStep

(* Two holders of a publication would be two places. *)
LEMMA OneHolder == ASSUME TypeOK, OnePlace  PROVE AtMostOnce
<1> SUFFICES ASSUME dbFaults = 0, NEW p \in Pubs  PROVE Cardinality(Holders(p)) <= 1
  BY SMTT(30) DEF AtMostOnce
<1>1. ASSUME NEW x \in Holders(p), NEW y \in Holders(p) PROVE x = y
  BY <1>1 DEF Holders, TypeOK, OnePlace
<1>2. CASE Holders(p) = {}
  BY <1>2, FS_EmptySet
<1>3. CASE Holders(p) # {}
  <2>1. PICK x \in Holders(p) : TRUE
    BY <1>3
  <2>2. Holders(p) = {x}
    BY Zenon, <1>1, <2>1
  <2> QED
    BY <2>2, FS_Singleton
<1> QED
  BY <1>2, <1>3

(* What the scheduler is about to mark is still held, or done already; what is in
   progress is held or was marked too late.  Nobody leaves before a Stop. *)
Held(p) == (\E i \in 1..Len(queue) : queue[i] = p) \/ (\E w \in Workers : job[w] = p)
Tracked ==
    /\ restarts = 0 => exited = {} /\ stopping = "no"
    /\ dbFaults = 0 /\ restarts = 0 =>
          /\ spc = "mark" => Held(marking) \/ status[marking] \in Final
          /\ \A p \in Pubs : status[p] = "IN_PROGRESS" => p \in overwritten \/ Held(p)

(* Every action keeps track of what is in progress. *)
LEMMA NextTracked == ASSUME TypeOK, HaveRows, Tracked, [Next]_vars  PROVE Tracked'
<1> USE DEF TypeOK, Tracked, Held
<1>1. ASSUME NEW p \in Pubs, NEW r \in Requests, CreatePublication(p, r) PROVE Tracked'
  BY SMTT(30), <1>1 DEF CreatePublication, HaveRows
<1>2. ASSUME NEW c \in Cids, DeleteRecord(c) PROVE Tracked'
  BY SMTT(30), <1>2 DEF DeleteRecord
<1>3. CASE Tick
  BY <1>3 DEF Tick
<1>3a. CASE EndPass
  BY <1>3a DEF EndPass
<1>4. ASSUME NEW p \in Pubs, Dispatch(p) PROVE Tracked'
  <2>1. CASE Len(queue) < QueueCap
    <3>1. /\ queue' = Append(queue, p) /\ marking' = p
          /\ UNCHANGED <<status, job, dbFaults, restarts, exited, stopping, overwritten>>
      BY SMTT(30), <1>4, <2>1 DEF Dispatch
    <3>2. Len(queue') = Len(queue) + 1 /\ queue'[Len(queue) + 1] = p
      BY SMTT(30), <3>1
    <3>3. \A i \in 1..Len(queue) : i \in 1..Len(queue') /\ queue'[i] = queue[i]
      BY SMTT(30), <3>1, <3>2
    <3>4. Len(queue) + 1 \in 1..Len(queue')
      BY SMTT(30), <3>2
    <3> QED
      BY SMTT(30), <3>1, <3>2, <3>3, <3>4
  <2>2. CASE ~(Len(queue) < QueueCap)
    BY SMTT(30), <1>4, <2>2 DEF Dispatch
  <2> QED  BY ZenonT(60), <2>1, <2>2
<1>5. CASE Mark
  BY SMTT(30), <1>5 DEF Mark, UpdatePublicationStatus
<1>7. ASSUME NEW w \in Workers, Take(w) PROVE Tracked'
  <2>1. /\ queue # <<>> /\ queue' = Tail(queue) /\ job' = [job EXCEPT ![w] = Head(queue)]
        /\ job[w] = NoPub
        /\ UNCHANGED <<status, spc, marking, dbFaults, restarts, exited, stopping, overwritten>>
    BY SMTT(30), <1>7 DEF Take
  <2>2. ASSUME NEW i \in 1..Len(queue)
        PROVE  queue[i] = job'[w] \/ \E j \in 1..Len(queue') : queue'[j] = queue[i]
    <3>1. CASE i = 1
      BY SMTT(30), <2>1, <3>1
    <3>2. CASE i # 1
      <4>1. i - 1 \in 1..Len(queue') /\ queue'[i - 1] = queue[i]
        BY SMTT(30), <2>1, <3>2
      <4> QED  BY <4>1
    <3> QED  BY <3>1, <3>2
  <2>3. ASSUME NEW v \in Workers, NEW p \in Pubs, job[v] = p PROVE job'[v] = p
    BY SMTT(30), <2>1, <2>3
  <2>4. ASSUME NEW p \in Pubs, Held(p) PROVE Held(p)'
    <3>1. ASSUME NEW i \in 1..Len(queue), queue[i] = p PROVE Held(p)'
      BY Zenon, <2>2, <3>1 DEF Held
    <3>2. ASSUME NEW v \in Workers, job[v] = p PROVE Held(p)'
      BY Zenon, <2>3, <3>2 DEF Held
    <3> QED  BY Zenon, <2>4, <3>1, <3>2 DEF Held
  <2> HIDE DEF Held
  <2>5. marking \in Pubs \/ spc # "mark"
    OBVIOUS
  <2> QED
    BY <2>1, <2>4, <2>5
<1>8. ASSUME NEW w \in Workers, Load(w) PROVE Tracked'
  BY SMTT(30), <1>8 DEF Load
<1>9. ASSUME NEW w \in Workers, NEW c \in Cids, Announce(w, c) PROVE Tracked'
  BY SMTT(30), <1>9 DEF Announce
<1>10. ASSUME NEW w \in Workers, Finish(w) PROVE Tracked'
  BY SMTT(30), <1>10 DEF Finish, UpdatePublicationStatus
<1>11. CASE Stop \/ Crash
  BY SMTT(30), <1>11 DEF Stop, Crash, Fresh
<1>12. ASSUME NEW g \in Goroutines, Exit(g) PROVE Tracked'
  BY SMTT(30), <1>12 DEF Exit
<1>13. CASE Restart
  BY SMTT(30), <1>13 DEF Restart, Fresh
<1>14. CASE UNCHANGED vars
  BY SMTT(30), <1>14 DEF vars
<1> QED
  BY ZenonT(60), <1>1, <1>2, <1>3, <1>3a, <1>4, <1>5, <1>7, <1>8, <1>9, <1>10, <1>11, <1>12, <1>13, <1>14
  DEF Next, SchedulerStep, WorkerStep

(* Every action keeps results where they are. *)
LEMMA NextResults == ASSUME TypeOK, HaveRows, OnePlace, ResultsInv, [Next]_vars  PROVE ResultsInv'
<1> USE DEF TypeOK, ResultsInv
<1>1. ASSUME NEW p \in Pubs, NEW r \in Requests, CreatePublication(p, r) PROVE ResultsInv'
  BY <1>1 DEF CreatePublication, HaveRows
<1>2. ASSUME NEW c \in Cids, DeleteRecord(c) PROVE ResultsInv'
  BY <1>2 DEF DeleteRecord
<1>3. CASE Tick \/ EndPass
  BY <1>3 DEF Tick, EndPass
<1>4. ASSUME NEW p \in Pubs, Dispatch(p) PROVE ResultsInv'
  <2>1. CASE Len(queue) < QueueCap
    <3>1. /\ queue' = Append(queue, p) /\ marking' = p /\ batch' = batch \ {p} /\ p \in batch
          /\ UNCHANGED <<status, wpc, job, dbFaults, overwritten>>
      BY <1>4, <2>1 DEF Dispatch
    <3>2. Len(queue') = Len(queue) + 1 /\ queue'[Len(queue) + 1] = p
      BY <3>1
    <3>3. \A i \in 1..Len(queue) : queue'[i] = queue[i]
      BY <3>1
    <3>4. \A i \in 1..Len(queue') : i \in 1..Len(queue) \/ i = Len(queue) + 1
      BY <3>2
    <3> QED
      BY <3>1, <3>2, <3>3, <3>4
  <2>2. CASE ~(Len(queue) < QueueCap)
    BY <1>4, <2>2 DEF Dispatch
  <2> QED  BY Zenon, <2>1, <2>2
<1>5. CASE Mark
  BY <1>5 DEF Mark, UpdatePublicationStatus, OnePlace
<1>6. ASSUME NEW w \in Workers, Take(w) PROVE ResultsInv'
  BY <1>6 DEF Take
<1>7. ASSUME NEW w \in Workers, Load(w) PROVE ResultsInv'
  BY <1>7 DEF Load
<1>8. ASSUME NEW w \in Workers, NEW c \in Cids, Announce(w, c) PROVE ResultsInv'
  BY <1>8 DEF Announce
<1>9. ASSUME NEW w \in Workers, Finish(w) PROVE ResultsInv'
  BY <1>9 DEF Finish, UpdatePublicationStatus, OnePlace
<1>10. CASE Stop
  BY <1>10 DEF Stop
<1>11. ASSUME NEW g \in Goroutines, Exit(g) PROVE ResultsInv'
  BY <1>11 DEF Exit
<1>12. CASE Restart \/ Crash
  BY <1>12 DEF Restart, Crash, Fresh
<1>13. CASE UNCHANGED vars
  BY <1>13 DEF vars
<1> QED
  BY ZenonT(60), <1>1, <1>2, <1>3, <1>4, <1>5, <1>6, <1>7, <1>8, <1>9, <1>10, <1>11, <1>12, <1>13
  DEF Next, SchedulerStep, WorkerStep

(* The inductive invariant. *)
PubInv == TypeOK /\ HaveRows /\ Accounted /\ CompletedMeansAnnounced /\ OnePlace
          /\ Tracked /\ ResultsInv

(* It holds in every reachable state. *)
THEOREM Invariant == Spec => []PubInv
<1>1. Init => PubInv
  BY SMTT(30), InitTypes DEF Init, PubInv, HaveRows, Accounted, CompletedMeansAnnounced,
         OnePlace, Tracked, ResultsInv
<1>2. PubInv /\ [Next]_vars => PubInv'
  BY NextTypes, NextHaveRows, NextAccounted, NextOnePlace, NextTracked, NextResults DEF PubInv
<1> QED  BY <1>1, <1>2, PTL DEF Spec

(* Rows, queue, scheduler and workers keep their types; the queue stays within
   its capacity. *)
THEOREM TypeCorrect == Spec => []TypeOK
<1>1. PubInv => TypeOK
  BY Zenon DEF PubInv
<1> QED  BY <1>1, Invariant, PTL

(* COMPLETED means that every named record was announced. *)
THEOREM CompletedIsEarned == Spec => []CompletedMeansAnnounced
<1>1. PubInv => CompletedMeansAnnounced
  BY Zenon DEF PubInv
<1> QED  BY <1>1, Invariant, PTL

(* Until a database call fails, a publication is never held twice at a time. *)
THEOREM NeverTwice == Spec => []AtMostOnce
<1>1. PubInv => AtMostOnce
  BY OneHolder DEF PubInv
<1> QED  BY <1>1, Invariant, PTL

(* Until a database call fails or the process is stopped, a publication in
   progress is held by the queue or a worker, or was marked after its end. *)
THEOREM NoneIsDropped == Spec => []InProgressIsHeld
<1>1. PubInv => InProgressIsHeld
  BY DEF PubInv, Tracked, Held, InProgressIsHeld, Holders
<1> QED  BY <1>1, Invariant, PTL

(* Until a database call fails, one result is written per publication, which
   only the scheduler's late mark can replace, for good. *)
THEOREM OneResult == Spec => ResultsAreWrittenOnce
<1> DEFINE Kept == dbFaults' = 0 => \A p \in Pubs :
              /\ status[p] \in Final => status'[p] = status[p] \/ (spc = "mark" /\ marking = p)
              /\ p \in overwritten => status'[p] = "IN_PROGRESS"
<1>1. ASSUME PubInv, [Next]_vars PROVE Kept
  <2> SUFFICES ASSUME dbFaults' = 0, NEW p \in Pubs
               PROVE  /\ status[p] \in Final => status'[p] = status[p] \/ (spc = "mark" /\ marking = p)
                      /\ p \in overwritten => status'[p] = "IN_PROGRESS"
    OBVIOUS
  <2>1. dbFaults = 0
    <3>1. dbFaults \in Nat /\ (dbFaults' = dbFaults \/ dbFaults' = dbFaults + 1)
      <4>1. dbFaults \in Nat
        BY <1>1 DEF PubInv, TypeOK
      <4>2. dbFaults' = dbFaults \/ dbFaults' = dbFaults + 1
        BY Zenon, <1>1 DEF Next, SchedulerStep, WorkerStep, CreatePublication, DeleteRecord, Tick,
                Dispatch, Mark, EndPass, Take, Load, Announce, Finish, UpdatePublicationStatus, Stop,
                Exit, Restart, Crash, Fresh, vars
      <4> QED  BY <4>1, <4>2
    <3> QED  BY <3>1
  <2>2. \A q \in overwritten : status[q] = "IN_PROGRESS"
    BY <1>1, <2>1 DEF PubInv, ResultsInv
  <2>3. CASE status' = status
    BY <2>2, <2>3
  <2>4. ASSUME NEW q \in Pubs, NEW r \in Requests, CreatePublication(q, r)
        PROVE  status[p] # "absent" => status'[p] = status[p]
    BY <1>1, <2>4 DEF CreatePublication, PubInv, TypeOK
  <2>5. CASE Mark
    BY <1>1, <2>1, <2>5 DEF Mark, UpdatePublicationStatus, PubInv, ResultsInv, TypeOK
  <2>6. ASSUME NEW w \in Workers, Finish(w)
        PROVE  status[p] \in Final \/ p \in overwritten => status'[p] = status[p]
    <3>1. wpc[w] # "idle"
      BY <2>6 DEF Finish
    <3>2. status[job[w]] \notin Final /\ job[w] \notin overwritten
      BY <1>1, <2>1, <3>1 DEF PubInv, ResultsInv
    <3>3. status \in [Pubs -> Statuses]
      BY <1>1 DEF PubInv, TypeOK
    <3>4. \A q \in Pubs : q # job[w] => status'[q] = status[q]
      BY <2>6, <3>3 DEF Finish, UpdatePublicationStatus
    <3> QED  BY <3>2, <3>4
  <2>7. \/ status' = status \/ Mark \/ \E w \in Workers : Finish(w)
        \/ \E q \in Pubs, r \in Requests : CreatePublication(q, r)
    BY Zenon, <1>1 DEF Next, SchedulerStep, WorkerStep, DeleteRecord, Tick, Dispatch, EndPass, Take, Load,
                Announce, Stop, Exit, Restart, Crash, Fresh, vars
  <2> QED  BY <2>2, <2>3, <2>4, <2>5, <2>6, <2>7
<1>2. PubInv /\ [Next]_vars => [Kept]_vars
  BY <1>1
<1> QED  BY <1>2, Invariant, PTL DEF Spec, ResultsAreWrittenOnce
=============================================================================
