-------------------------- MODULE RemoteLabelsProofs --------------------------
(***************************************************************************)
(* Proofs about RemoteLabels, for every number of records and labels: its  *)
(* types, that local labels survive the cleanup, and that the labels of a  *)
(* record stay together unless something tears them apart.                 *)
(***************************************************************************)
EXTENDS RemoteLabels, TLAPS

Remote == Records \ Own

(* What the handlers and the cleanup are busy with. *)
WorkInv ==
    /\ \A w \in Writers : pc[w] # "idle" => rec[w] \in Remote
    /\ \A w \in Writers : pc[w] = "put" => todo[w] \subseteq LabelsOf[rec[w]]
    /\ \A k \in stale : k[1] \in Remote

(* A write loop that nothing disturbs: the labels it has done carry its times,
   which are the same for all labels. *)
Loop(w, r) ==
    /\ \A l \in LabelsOf[r] \ todo[w] :
          /\ <<r, l>> \in present
          /\ age[<<r, l>>] = at[w] /\ lead[<<r, l>>] = stamp[w][l]
    /\ \A l, m \in LabelsOf[r] : stamp[w][l] = stamp[w][m]
    /\ ~ BeingCleaned(r)
    /\ \A v \in Writers : WrittenBy(v, r) => v = w

(* A cleanup that nothing disturbs removes all labels of a record, and those
   are as old as they were when it found them. *)
Cleaning(r) ==
    \A l \in LabelsOf[r] :
        <<r, l>> \in stale /\ (age[<<r, l>>] > MaxAge \/ lead[<<r, l>>] > 0)

RecordInv(r) ==
    /\ \A w \in Writers : WrittenBy(w, r) => Loop(w, r)
    /\ BeingCleaned(r) => Cleaning(r)
    /\ Written(r) \/ Uniform(r)

LabelsInv ==
    /\ TypeOK /\ WorkInv /\ OwnLabelsStay
    /\ \A r \in Records \ torn : RecordInv(r)

LEMMA Pairs ==
  ASSUME NEW a, NEW b, NEW c, NEW d, <<a, b>> = <<c, d>>
  PROVE  a = c /\ b = d
  OBVIOUS

LEMMA KeyFacts ==
  ASSUME NEW r \in Records, NEW l \in LabelsOf[r]
  PROVE  <<r, l>> \in Keys /\ l \in Labels
  BY RecordsAssumption DEF Keys

LEMMA OlderType ==
  ASSUME NEW a \in Ages
  PROVE  Older(a) \in Ages
  BY NumbersAssumption DEF Older, Ages

LEMMA ZeroType == Zero \in [Labels -> 0 .. MaxLead]
  BY NumbersAssumption DEF Zero

-----------------------------------------------------------------------------
(* Types. *)

WriterTypes ==
    /\ pc \in [Writers -> {"idle", "check", "refresh", "pull", "put"}]
    /\ rec \in [Writers -> (Records \ Own) \cup {NoRecord}]
    /\ todo \in [Writers -> SUBSET Labels]
    /\ at \in [Writers -> Ages]
    /\ stamp \in [Writers -> [Labels -> 0 .. MaxLead]]

LEMMA ZeroAge == 0 \in Ages /\ MaxAge + 1 \in Ages /\ 0 \in 0 .. MaxLead
  BY NumbersAssumption DEF Ages

LEMMA ReturnTypes ==
  ASSUME WriterTypes, NEW w \in Writers, Return(w)
  PROVE  WriterTypes'
  BY ZeroType, ZeroAge DEF WriterTypes, Return

LEMMA StartTypes ==
  ASSUME WriterTypes, NEW w \in Writers, NEW r \in Remote, NEW ls \in SUBSET Labels,
         NEW leads \in [Labels -> 0 .. MaxLead], StartWriting(w, r, ls, leads)
  PROVE  WriterTypes'
  BY ZeroAge DEF WriterTypes, StartWriting, Remote

LEMMA AdvanceTypes ==
  ASSUME WriterTypes, NEW w \in Writers, NEW l \in Labels, Advance(w, l)
  PROVE  WriterTypes'
<1>1. CASE todo[w] = {l}
  BY <1>1, ReturnTypes DEF Advance
<1>2. CASE todo[w] # {l}
  BY <1>2 DEF Advance, WriterTypes
<1> QED
  BY <1>1, <1>2

LEMMA FaultTypes ==
  ASSUME faults \in 0 .. MaxFaults, Fault
  PROVE  faults' \in 0 .. MaxFaults
  BY NumbersAssumption DEF Fault

LEMMA TypeInit == Init => TypeOK
  BY RecordsAssumption, NumbersAssumption, ZeroAge, ZeroType DEF Init, TypeOK, Writers

RestTypes ==
    /\ present \subseteq Keys /\ age \in [Keys -> Ages] /\ lead \in [Keys -> 0 .. MaxLead]
    /\ stale \subseteq Keys /\ faults \in 0 .. MaxFaults /\ torn \subseteq Records

ChannelTypes ==
    notifyCh \in Seq(Records) /\ Len(notifyCh) <= NotifyCap + MaxBlocked

LEMMA TypeParts == TypeOK <=> RestTypes /\ ChannelTypes /\ WriterTypes
  BY SMTT(30) DEF TypeOK, RestTypes, ChannelTypes, WriterTypes

LEMMA OverlapType ==
  ASSUME NEW w \in Writers, NEW r \in Records
  PROVE  Overlap(w, r) \subseteq Records
  BY DEF Overlap

LEMMA KeyParts ==
  ASSUME NEW k \in Keys
  PROVE  k[1] \in Records /\ k[2] \in LabelsOf[k[1]] /\ k = <<k[1], k[2]>>
  BY DEF Keys

(* The channel. *)
LEMMA ChannelNext ==
  ASSUME TypeOK, [Next]_vars
  PROVE  ChannelTypes'
<1>0. ChannelTypes
  BY TypeParts
<1>1. ASSUME NEW r \in Records, Announce(r)  PROVE ChannelTypes'
  BY <1>0, <1>1, NumbersAssumption DEF Announce, ChannelTypes
<1>3. CASE TakeNotification
  BY <1>0, <1>3, NumbersAssumption DEF TakeNotification, ChannelTypes
<1>4. CASE Restart
  BY <1>0, <1>4, NumbersAssumption DEF Restart, ChannelTypes
<1>5. CASE UNCHANGED notifyCh
  BY <1>0, <1>5 DEF ChannelTypes
<1> QED
  BY ZenonT(60), <1>1, <1>3, <1>4, <1>5
  DEF Next, vars, Tick, Put, PutFails, ReceiveGossip, CheckCached, Refresh, PullFails, Pull,
      CleanupQuery, CleanupCommit, CleanupFails

(* The goroutines' locals. *)
LEMMA WriterNext ==
  ASSUME TypeOK, WorkInv, [Next]_vars
  PROVE  WriterTypes'
<1>0. WriterTypes /\ RestTypes /\ ChannelTypes
  BY TypeParts
<1>1. CASE Tick
  <2>1. at' \in [Writers -> Ages]
    BY <1>0, <1>1, OlderType DEF Tick, WriterTypes
  <2> QED
    BY <1>0, <1>1, <2>1 DEF Tick, WriterTypes
<1>2. ASSUME NEW w \in Writers, NEW l \in Labels, Put(w, l) \/ PutFails(w, l)  PROVE WriterTypes'
  BY <1>0, <1>2, AdvanceTypes DEF Put, PutFails
<1>3. ASSUME NEW r \in Records, NEW d \in 0 .. MaxLead, ReceiveGossip(r, d)  PROVE WriterTypes'
  <2> DEFINE leads == [l \in Labels |-> IF l \in LabelsOf[r] THEN d ELSE 0]
  <2>1. leads \in [Labels -> 0 .. MaxLead]
    BY ZeroAge
  <2>2. StartWriting("gossip", r, LabelsOf[r], leads) /\ r \in Remote /\ LabelsOf[r] \in SUBSET Labels
    BY <1>3, RecordsAssumption DEF ReceiveGossip, Remote
  <2> HIDE DEF leads
  <2> QED
    BY <1>0, <2>1, <2>2, StartTypes DEF Writers
<1>4. CASE TakeNotification
  <2>1. Head(notifyCh) \in Records
    BY <1>0, <1>4 DEF TakeNotification, ChannelTypes
  <2>2. CASE Head(notifyCh) \in Own
    BY ZenonT(60), <1>0, <1>4, <2>2 DEF TakeNotification, WriterTypes
  <2>3. CASE Head(notifyCh) \notin Own
    <3>1. /\ pc' = [pc EXCEPT !["notify"] = "check"]
          /\ rec' = [rec EXCEPT !["notify"] = Head(notifyCh)]
          /\ UNCHANGED <<todo, at, stamp>>
      BY ZenonT(60), <1>4, <2>3 DEF TakeNotification
    <3>2. Head(notifyCh) \in (Records \ Own) \cup {NoRecord}
      BY <2>1, <2>3
    <3> QED
      BY ZenonT(60), <1>0, <3>1, <3>2 DEF WriterTypes
  <2> QED
    BY <2>2, <2>3
<1>5. ASSUME NEW found \in SUBSET Labels, CheckCached(found)  PROVE WriterTypes'
  BY ZenonT(60), <1>0, <1>5 DEF CheckCached, WriterTypes
<1>6. ASSUME NEW found \in SUBSET Labels, Refresh(found)  PROVE WriterTypes'
  <2> DEFINE r == rec["notify"]
             leads == [l \in Labels |-> IF l \in found /\ lead[<<r, l>>] > age[<<r, l>>]
                                        THEN lead[<<r, l>>] - age[<<r, l>>] ELSE 0]
  <2>1. r \in Remote /\ found \subseteq LabelsOf[r]
    BY ZenonT(60), <1>6 DEF Refresh, WorkInv, QueryAllNamespaces, Cached, Writers
  <2>2. \A l \in found : lead[<<r, l>>] \in 0 .. MaxLead /\ age[<<r, l>>] \in Ages
    BY <1>0, <2>1, KeyFacts DEF RestTypes, Remote
  <2>3. leads \in [Labels -> 0 .. MaxLead]
    BY <2>2, ZeroAge, NumbersAssumption DEF Ages
  <2>4. Return("notify") \/ StartWriting("notify", r, found, leads)
    BY <1>6 DEF Refresh
  <2> HIDE DEF leads, r
  <2> QED
    BY <1>0, <2>1, <2>3, <2>4, ReturnTypes, StartTypes DEF Writers
<1>7. CASE PullFails
  BY <1>0, <1>7, ReturnTypes DEF PullFails, Writers
<1>8. CASE Pull
  <2>1. rec["notify"] \in Remote
    BY <1>8 DEF Pull, WorkInv, Writers
  <2>2. LabelsOf[rec["notify"]] \in SUBSET Labels
    BY <2>1, RecordsAssumption DEF Remote
  <2>3. Return("notify") \/ StartWriting("notify", rec["notify"], LabelsOf[rec["notify"]], Zero)
    BY <1>8 DEF Pull
  <2> QED
    BY <1>0, <2>1, <2>2, <2>3, ReturnTypes, StartTypes, ZeroType DEF Writers
<1>9. CASE Restart
  BY <1>9, ZeroAge, ZeroType DEF Restart, WriterTypes
<1>10. CASE UNCHANGED writers
  BY <1>0, <1>10 DEF writers, WriterTypes
<1> QED
  BY <1>1, <1>2, <1>3, <1>4, <1>5, <1>6, <1>7, <1>8, <1>9, <1>10
  DEF Next, vars, Announce, CleanupQuery, CleanupCommit, CleanupFails

(* The cache, the cleanup and the history. *)
LEMMA RestNext ==
  ASSUME TypeOK, WorkInv, [Next]_vars
  PROVE  RestTypes'
<1>0. RestTypes /\ WriterTypes
  BY TypeParts
<1>1. CASE Tick
  <2>1. age' \in [Keys -> Ages]
    BY <1>0, <1>1, OlderType DEF Tick, RestTypes
  <2> QED
    BY <1>0, <1>1, <2>1 DEF Tick, RestTypes
<1>2. ASSUME NEW w \in Writers, NEW l \in Labels, Put(w, l)  PROVE RestTypes'
  <2>1. rec[w] \in Records /\ l \in LabelsOf[rec[w]]
    BY <1>2 DEF Put, WorkInv, Remote
  <2>2. <<rec[w], l>> \in Keys
    BY <2>1, KeyFacts
  <2> QED
    BY ZenonT(60), <1>0, <1>2, <2>2 DEF Put, RestTypes, WriterTypes
<1>3. ASSUME NEW w \in Writers, NEW l \in Labels, PutFails(w, l)  PROVE RestTypes'
  BY <1>0, <1>3, FaultTypes DEF PutFails, RestTypes, WorkInv, Remote, cache
<1>4. ASSUME NEW r \in Records, NEW d \in 0 .. MaxLead, ReceiveGossip(r, d)  PROVE RestTypes'
  BY <1>0, <1>4, OverlapType DEF ReceiveGossip, RestTypes, Writers, cache
<1>5. ASSUME NEW found \in SUBSET Labels, CheckCached(found)  PROVE RestTypes'
  BY <1>0, <1>5, FaultTypes DEF CheckCached, QueryAllNamespaces, RestTypes, cache
<1>6. ASSUME NEW found \in SUBSET Labels, Refresh(found)  PROVE RestTypes'
  <2>1. rec["notify"] \in Records
    BY <1>6 DEF Refresh, WorkInv, Remote, Writers
  <2>2. torn' \subseteq Records
    BY <1>0, <1>6, <2>1, OverlapType DEF Refresh, RestTypes, Writers
  <2>3. faults' \in 0 .. MaxFaults
    BY <1>0, <1>6, FaultTypes DEF Refresh, QueryAllNamespaces, RestTypes
  <2> QED
    BY <1>0, <1>6, <2>2, <2>3 DEF Refresh, RestTypes, cache
<1>7. CASE PullFails
  BY <1>0, <1>7, FaultTypes DEF PullFails, RestTypes, cache
<1>8. CASE Pull
  <2>1. rec["notify"] \in Records
    BY <1>8 DEF Pull, WorkInv, Remote, Writers
  <2> QED
    BY <1>0, <1>8, <2>1, OverlapType DEF Pull, RestTypes, Writers, cache
<1>9. ASSUME NEW found \in SUBSET StaleKeys, CleanupQuery(found)  PROVE RestTypes'
  <2>1. found \subseteq Keys /\ StaleKeys \subseteq Keys
    BY <1>0 DEF StaleKeys, RestTypes
  <2>2. torn' \subseteq Records
    BY <1>0, <1>9, <2>1, KeyParts DEF CleanupQuery, RestTypes
  <2>3. faults' \in 0 .. MaxFaults
    BY <1>0, <1>9, FaultTypes DEF CleanupQuery, RestTypes
  <2> QED
    BY <1>0, <1>9, <2>1, <2>2, <2>3 DEF CleanupQuery, RestTypes, cache
<1>10. CASE CleanupCommit
  BY <1>0, <1>10, ZeroAge DEF CleanupCommit, RestTypes
<1>11. CASE CleanupFails
  BY <1>0, <1>11, FaultTypes DEF CleanupFails, RestTypes, cache
<1>12. CASE Restart
  BY <1>0, <1>12, FaultTypes DEF Restart, RestTypes, cache
<1>13. CASE UNCHANGED <<cache, stale, faults, torn>>
  BY <1>0, <1>13 DEF cache, RestTypes
<1> QED
  BY <1>1, <1>2, <1>3, <1>4, <1>5, <1>6, <1>7, <1>8, <1>9, <1>10, <1>11, <1>12, <1>13
  DEF Next, vars, Announce, TakeNotification

LEMMA TypeNext ==
  ASSUME TypeOK, WorkInv, [Next]_vars
  PROVE  TypeOK'
<1>1. RestTypes' /\ ChannelTypes' /\ WriterTypes'
  BY RestNext, ChannelNext, WriterNext
<1> QED
  BY <1>1 DEF TypeOK, RestTypes, ChannelTypes, WriterTypes

-----------------------------------------------------------------------------
(* What a step does to the goroutines: every other writer is left alone. *)

LEMMA ReturnFacts ==
  ASSUME WriterTypes, NEW w \in Writers, Return(w)
  PROVE  /\ pc'[w] = "idle"
         /\ \A v \in Writers \ {w} : pc'[v] = pc[v] /\ rec'[v] = rec[v] /\ todo'[v] = todo[v]
                                      /\ at'[v] = at[v] /\ stamp'[v] = stamp[v]
  BY DEF Return, WriterTypes

LEMMA StartFacts ==
  ASSUME WriterTypes, NEW w \in Writers, NEW r, NEW ls, NEW leads, StartWriting(w, r, ls, leads)
  PROVE  /\ pc'[w] = "put" /\ rec'[w] = r /\ todo'[w] = ls /\ at'[w] = 0 /\ stamp'[w] = leads
         /\ \A v \in Writers \ {w} : pc'[v] = pc[v] /\ rec'[v] = rec[v] /\ todo'[v] = todo[v]
                                      /\ at'[v] = at[v] /\ stamp'[v] = stamp[v]
  BY DEF StartWriting, WriterTypes

LEMMA AdvanceFacts ==
  ASSUME WriterTypes, NEW w \in Writers, NEW l \in Labels, Advance(w, l)
  PROVE  /\ \/ pc'[w] = "idle" /\ todo[w] = {l}
            \/ /\ pc'[w] = pc[w] /\ rec'[w] = rec[w] /\ todo'[w] = todo[w] \ {l}
               /\ at'[w] = at[w] /\ stamp'[w] = stamp[w]
         /\ \A v \in Writers \ {w} : pc'[v] = pc[v] /\ rec'[v] = rec[v] /\ todo'[v] = todo[v]
                                      /\ at'[v] = at[v] /\ stamp'[v] = stamp[v]
<1>1. CASE todo[w] = {l}
  BY <1>1, ReturnFacts DEF Advance
<1>2. CASE todo[w] # {l}
  BY <1>2 DEF Advance, WriterTypes
<1> QED
  BY SMTT(30), <1>1, <1>2

LEMMA WorkNext ==
  ASSUME TypeOK, WorkInv, [Next]_vars
  PROVE  WorkInv'
<1>0. WriterTypes /\ RestTypes /\ ChannelTypes
  BY TypeParts
<1>1. CASE Tick
  BY <1>1 DEF Tick, WorkInv
<1>2. ASSUME NEW w \in Writers, NEW l \in Labels, Put(w, l) \/ PutFails(w, l)  PROVE WorkInv'
  <2>1. Advance(w, l) /\ pc[w] = "put" /\ stale' = stale
    BY <1>2 DEF Put, PutFails
  <2> QED
    BY SMTT(30), <1>0, <2>1, AdvanceFacts DEF WorkInv
<1>3. ASSUME NEW r \in Records, NEW d \in 0 .. MaxLead, ReceiveGossip(r, d)  PROVE WorkInv'
  <2>1. PICK leads : StartWriting("gossip", r, LabelsOf[r], leads)
    BY <1>3 DEF ReceiveGossip
  <2>2. r \in Remote /\ stale' = stale
    BY <1>3 DEF ReceiveGossip, Remote
  <2> QED
    BY <1>0, <2>1, <2>2, StartFacts DEF WorkInv, Writers
<1>4. CASE TakeNotification
  <2>1. CASE Head(notifyCh) \in Own
    BY ZenonT(60), <1>4, <2>1 DEF TakeNotification, WorkInv
  <2>2. CASE Head(notifyCh) \notin Own
    <3>1. Head(notifyCh) \in Remote
      BY <1>0, <1>4, <2>2 DEF TakeNotification, ChannelTypes, Remote
    <3> QED
      BY ZenonT(60), <1>0, <1>4, <2>2, <3>1 DEF TakeNotification, WorkInv, WriterTypes
  <2> QED
    BY <2>1, <2>2
<1>5. ASSUME NEW found \in SUBSET Labels, CheckCached(found)  PROVE WorkInv'
  BY ZenonT(60), <1>0, <1>5 DEF CheckCached, WorkInv, WriterTypes
<1>6. ASSUME NEW found \in SUBSET Labels, Refresh(found)  PROVE WorkInv'
  <2>1. \/ Return("notify")
        \/ \E leads : StartWriting("notify", rec["notify"], found, leads)
    BY SMTT(30), <1>6 DEF Refresh
  <2>2. rec["notify"] \in Remote /\ found \subseteq LabelsOf[rec["notify"]] /\ stale' = stale
    BY ZenonT(60), <1>6 DEF Refresh, WorkInv, QueryAllNamespaces, Cached, Writers
  <2> QED
    BY <1>0, <2>1, <2>2, StartFacts, ReturnFacts DEF WorkInv, Writers
<1>7. CASE PullFails
  BY <1>0, <1>7, ReturnFacts DEF PullFails, WorkInv, Writers
<1>8. CASE Pull
  <2>1. \/ Return("notify")
        \/ StartWriting("notify", rec["notify"], LabelsOf[rec["notify"]], Zero)
    BY <1>8 DEF Pull
  <2>2. rec["notify"] \in Remote /\ stale' = stale
    BY <1>8 DEF Pull, WorkInv, Writers
  <2> QED
    BY <1>0, <2>1, <2>2, StartFacts, ReturnFacts DEF WorkInv, Writers
<1>9. ASSUME NEW found \in SUBSET StaleKeys, CleanupQuery(found)  PROVE WorkInv'
  <2>1. \A k \in found : k[1] \in Remote
    BY <1>0, KeyParts DEF StaleKeys, IsRemote, RestTypes, Remote
  <2> QED
    BY <1>9, <2>1 DEF CleanupQuery, WorkInv, writers
<1>10. CASE CleanupCommit \/ CleanupFails
  BY SMTT(30), <1>10 DEF CleanupCommit, CleanupFails, WorkInv, writers
<1>11. CASE Restart
  BY <1>11 DEF Restart, WorkInv
<1>12. CASE UNCHANGED <<writers, stale>>
  BY SMTT(30), <1>12 DEF writers, WorkInv
<1> QED
  BY SMTT(30), <1>1, <1>2, <1>3, <1>4, <1>5, <1>6, <1>7, <1>8, <1>9, <1>10, <1>11, <1>12
  DEF Next, vars, Announce

LEMMA OwnNext ==
  ASSUME TypeOK, WorkInv, OwnLabelsStay, [Next]_vars
  PROVE  OwnLabelsStay'
<1>1. ASSUME NEW w \in Writers, NEW l \in Labels, Put(w, l)  PROVE OwnLabelsStay'
  BY <1>1 DEF Put, OwnLabelsStay
<1>2. CASE CleanupCommit
  BY <1>2 DEF CleanupCommit, OwnLabelsStay, WorkInv, Remote
<1>3. CASE UNCHANGED present
  BY <1>3 DEF OwnLabelsStay
<1> QED
  BY ZenonT(60), <1>1, <1>2, <1>3
  DEF Next, vars, cache, Tick, PutFails, ReceiveGossip, Announce, TakeNotification,
      CheckCached, Refresh, PullFails, Pull, CleanupQuery, CleanupFails, Restart

-----------------------------------------------------------------------------
(* The labels of one record. *)

SameCache(r) ==
    \A m \in LabelsOf[r] :
        /\ <<r, m>> \in present' <=> <<r, m>> \in present
        /\ age'[<<r, m>>] = age[<<r, m>>] /\ lead'[<<r, m>>] = lead[<<r, m>>]

SameWriters(r) ==
    \A v \in Writers :
        /\ WrittenBy(v, r)' <=> WrittenBy(v, r)
        /\ WrittenBy(v, r) => todo'[v] = todo[v] /\ at'[v] = at[v] /\ stamp'[v] = stamp[v]

LEMMA Frame ==
  ASSUME NEW r \in Records, RecordInv(r), SameCache(r), SameWriters(r), stale' = stale
  PROVE  RecordInv(r)'
<1>1. BeingCleaned(r)' <=> BeingCleaned(r)
  BY SMTT(30) DEF BeingCleaned
<1>2. ASSUME NEW w \in Writers, WrittenBy(w, r)'  PROVE Loop(w, r)'
  <2>1. Loop(w, r) /\ WrittenBy(w, r)
    BY SMTT(30), <1>2 DEF RecordInv, SameWriters
  <2> QED
    BY SMTT(30), <1>1, <2>1 DEF Loop, SameCache, SameWriters
<1>3. BeingCleaned(r)' => Cleaning(r)'
  BY ZenonT(60), <1>1 DEF RecordInv, Cleaning, SameCache
<1>4. Written(r)' \/ Uniform(r)'
  BY DEF RecordInv, Written, Uniform, SameCache, SameWriters
<1> QED
  BY <1>2, <1>3, <1>4 DEF RecordInv

(* A handler enters its loop for the record q. *)
LEMMA StartKeeps ==
  ASSUME WriterTypes, NEW r \in Records, RecordInv(r), UNCHANGED <<cache, stale>>,
         NEW w \in Writers, pc[w] # "put", NEW q, NEW ls, NEW leads, StartWriting(w, q, ls, leads),
         q = r => /\ ls = LabelsOf[r] /\ \A l, m \in LabelsOf[r] : leads[l] = leads[m]
                  /\ Overlap(w, r) = {}
  PROVE  RecordInv(r)'
<1>0. /\ pc'[w] = "put" /\ rec'[w] = q /\ todo'[w] = ls /\ stamp'[w] = leads
      /\ \A v \in Writers \ {w} : pc'[v] = pc[v] /\ rec'[v] = rec[v] /\ todo'[v] = todo[v]
                                   /\ at'[v] = at[v] /\ stamp'[v] = stamp[v]
  BY ZenonT(60), StartFacts
<1>1. CASE q # r
  <2>1. SameWriters(r)
    BY ZenonT(60), <1>0, <1>1 DEF SameWriters, WrittenBy
  <2>2. SameCache(r)
    BY ZenonT(60) DEF SameCache, cache
  <2> QED
    BY SMTT(30), <2>1, <2>2, Frame
<1>2. CASE q = r
  <2>1. ~ BeingCleaned(r) /\ \A v \in Writers \ {w} : ~ WrittenBy(v, r)
    BY ZenonT(60), <1>2 DEF Overlap
  <2>2. \A v \in Writers : WrittenBy(v, r)' <=> v = w
    BY SMTT(30), <1>0, <1>2, <2>1 DEF WrittenBy
  <2>3. ~ BeingCleaned(r)'
    BY ZenonT(60), <2>1 DEF BeingCleaned
  <2>4. Loop(w, r)'
    BY <1>0, <1>2, <2>2, <2>3 DEF Loop
  <2> QED
    BY ZenonT(60), <2>2, <2>3, <2>4 DEF RecordInv, Written
<1> QED
  BY SMTT(30), <1>1, <1>2

(* One label is written. *)
LEMMA PutKeeps ==
  ASSUME TypeOK, WorkInv, NEW r \in Records, RecordInv(r),
         NEW w \in Writers, NEW l \in Labels, Put(w, l)
  PROVE  RecordInv(r)'
<1>0. WriterTypes /\ RestTypes
  BY ZenonT(60), TypeParts
<1>1. /\ pc[w] = "put" /\ l \in todo[w] /\ stale' = stale /\ Advance(w, l)
      /\ rec[w] \in Records /\ l \in LabelsOf[rec[w]]
  BY SMTT(30) DEF Put, WorkInv, Remote
<1>2. /\ \/ pc'[w] = "idle" /\ todo[w] = {l}
         \/ /\ pc'[w] = pc[w] /\ rec'[w] = rec[w] /\ todo'[w] = todo[w] \ {l}
            /\ at'[w] = at[w] /\ stamp'[w] = stamp[w]
      /\ \A v \in Writers \ {w} : pc'[v] = pc[v] /\ rec'[v] = rec[v] /\ todo'[v] = todo[v]
                                   /\ at'[v] = at[v] /\ stamp'[v] = stamp[v]
  BY ZenonT(60), <1>0, <1>1, AdvanceFacts
<1>3. \A m \in LabelsOf[r] : <<r, m>> \in Keys
  BY ZenonT(60), KeyFacts
<1>4. CASE rec[w] # r
  <2>1. \A m \in LabelsOf[r] : <<r, m>> # <<rec[w], l>>
    BY SMTT(30), <1>4, Pairs
  <2>2. SameCache(r)
    BY ZenonT(60), <1>0, <1>3, <2>1 DEF SameCache, Put, RestTypes
  <2>3. SameWriters(r)
    BY ZenonT(60), <1>2, <1>4 DEF SameWriters, WrittenBy
  <2> QED
    BY ZenonT(60), <1>1, <2>2, <2>3, Frame
<1>5. CASE rec[w] = r
  <2>1. WrittenBy(w, r) /\ Loop(w, r)
    BY SMTT(30), <1>1, <1>5 DEF WrittenBy, RecordInv
  <2>2. /\ <<r, l>> \in present' /\ age'[<<r, l>>] = at[w] /\ lead'[<<r, l>>] = stamp[w][l]
    BY <1>0, <1>1, <1>3, <1>5 DEF Put, RestTypes
  <2>3. \A m \in LabelsOf[r] \ {l} : <<r, m>> # <<r, l>>
    BY SMTT(30), Pairs
  <2>4. \A m \in LabelsOf[r] \ {l} :
          /\ <<r, m>> \in present => <<r, m>> \in present'
          /\ age'[<<r, m>>] = age[<<r, m>>] /\ lead'[<<r, m>>] = lead[<<r, m>>]
    BY SMTT(30), <1>0, <1>3, <1>5, <2>3 DEF Put, RestTypes
  <2>5. \A m \in LabelsOf[r] \ (todo[w] \ {l}) :
          <<r, m>> \in present' /\ age'[<<r, m>>] = at[w] /\ lead'[<<r, m>>] = stamp[w][m]
    BY ZenonT(60), <2>1, <2>2, <2>4 DEF Loop
  <2>6. ~ BeingCleaned(r)'
    BY ZenonT(60), <1>1, <2>1 DEF BeingCleaned, Loop
  <2>7. \A v \in Writers \ {w} : ~ WrittenBy(v, r)'
    BY <1>2, <2>1 DEF WrittenBy, Loop
  <2>8. CASE pc'[w] = "idle" /\ todo[w] = {l}
    <3>1. Uniform(r)'
      BY SMTT(30), <2>1, <2>5, <2>8 DEF Uniform, Loop
    <3>2. ~ WrittenBy(w, r)'
      BY <2>8 DEF WrittenBy
    <3> QED
      BY ZenonT(60), <2>6, <2>7, <3>1, <3>2 DEF RecordInv
  <2>9. CASE /\ pc'[w] = pc[w] /\ rec'[w] = rec[w] /\ todo'[w] = todo[w] \ {l}
             /\ at'[w] = at[w] /\ stamp'[w] = stamp[w]
    <3>1. WrittenBy(w, r)'
      BY ZenonT(60), <2>1, <2>9 DEF WrittenBy
    <3>2. Loop(w, r)'
      <4>1. \A m, n \in LabelsOf[r] : stamp[w][m] = stamp[w][n]
        BY ZenonT(60), <2>1 DEF Loop
      <4>2. \A v \in Writers : WrittenBy(v, r)' => v = w
        BY ZenonT(60), <2>7
      <4> QED
        BY SMTT(30), <2>5, <2>6, <2>9, <4>1, <4>2 DEF Loop
    <3> QED
      BY <2>6, <2>7, <3>1, <3>2 DEF RecordInv, Written
  <2> QED
    BY SMTT(30), <1>2, <2>8, <2>9
<1> QED
  BY <1>4, <1>5

LEMMA TickKeeps ==
  ASSUME TypeOK, NEW r \in Records, RecordInv(r), Tick
  PROVE  RecordInv(r)'
<1>0. \A m \in LabelsOf[r] : <<r, m>> \in Keys
  BY SMTT(30), KeyFacts
<1>1. /\ UNCHANGED <<present, lead, pc, rec, todo, stamp, stale>>
      /\ \A m \in LabelsOf[r] :
            age'[<<r, m>>] = IF <<r, m>> \in present THEN Older(age[<<r, m>>]) ELSE age[<<r, m>>]
      /\ \A w \in Writers : pc[w] = "put" => at'[w] = Older(at[w])
  BY ZenonT(60), <1>0 DEF Tick
<1>2. (BeingCleaned(r)' <=> BeingCleaned(r)) /\ \A v \in Writers : WrittenBy(v, r)' <=> WrittenBy(v, r)
  BY SMTT(30), <1>1 DEF BeingCleaned, WrittenBy
<1>3. ASSUME NEW w \in Writers, WrittenBy(w, r)'  PROVE Loop(w, r)'
  <2>1. Loop(w, r) /\ pc[w] = "put"
    BY ZenonT(60), <1>2, <1>3 DEF RecordInv, WrittenBy
  <2>2. ~ BeingCleaned(r)' /\ \A v \in Writers : WrittenBy(v, r)' => v = w
    BY ZenonT(60), <1>2, <2>1 DEF Loop
  <2>3. ASSUME NEW l \in LabelsOf[r], l \notin todo'[w]
        PROVE  <<r, l>> \in present' /\ age'[<<r, l>>] = at'[w] /\ lead'[<<r, l>>] = stamp'[w][l]
    <3>1. <<r, l>> \in present /\ age[<<r, l>>] = at[w] /\ lead[<<r, l>>] = stamp[w][l]
      BY ZenonT(60), <1>1, <2>1, <2>3 DEF Loop
    <3> QED
      BY ZenonT(60), <1>1, <2>1, <3>1
  <2>4. \A l, m \in LabelsOf[r] : stamp'[w][l] = stamp'[w][m]
    BY ZenonT(60), <1>1, <2>1 DEF Loop
  <2> QED
    BY ZenonT(60), <2>2, <2>3, <2>4 DEF Loop
<1>4. Written(r)' \/ Uniform(r)'
  BY ZenonT(60), <1>1, <1>2 DEF RecordInv, Written, Uniform
<1>5. BeingCleaned(r)' => Cleaning(r)'
  BY <1>1, <1>2 DEF RecordInv, Cleaning, Older
<1> QED
  BY SMTT(30), <1>3, <1>4, <1>5 DEF RecordInv

LEMMA QueryKeeps ==
  ASSUME TypeOK, NEW r \in Records, r \notin torn', RecordInv(r),
         NEW found \in SUBSET StaleKeys, CleanupQuery(found)
  PROVE  RecordInv(r)'
<1>1. /\ UNCHANGED <<cache, writers>> /\ stale' = found
      /\ \A k \in StaleKeys \ found : k[1] # r
      /\ \A k \in found : k[1] = r => ~ Written(r)
  BY DEF CleanupQuery
<1>2. /\ \A l \in Labels : <<r, l>> \in found => ~ Written(r)
      /\ \A l \in Labels : <<r, l>> \in StaleKeys => <<r, l>> \in found
  BY <1>1
<1>3. /\ Uniform(r)' <=> Uniform(r)
      /\ \A v \in Writers : WrittenBy(v, r)' <=> WrittenBy(v, r)
  BY ZenonT(60), <1>1 DEF Uniform, WrittenBy, cache, writers
<1>4. ASSUME BeingCleaned(r)'  PROVE Cleaning(r)'
  <2>1. PICK m \in Labels : <<r, m>> \in found
    BY <1>1, <1>4 DEF BeingCleaned
  <2>2. Uniform(r)
    BY SMTT(30), <1>2, <2>1 DEF RecordInv
  <2>3. <<r, m>> \in present /\ r \notin Own /\ (age[<<r, m>>] > MaxAge \/ lead[<<r, m>>] > 0)
    BY <2>1 DEF StaleKeys, IsRemote, IsStale, Invalid
  <2>4. m \in LabelsOf[r]
    BY SMTT(30), <2>3, TypeParts, KeyParts DEF RestTypes
  <2>5. \A l \in LabelsOf[r] : <<r, l>> \in StaleKeys
    BY SMTT(30), <2>2, <2>3, <2>4 DEF Uniform, StaleKeys, IsRemote, IsStale, Invalid
  <2>6. \A l \in LabelsOf[r] : age[<<r, l>>] > MaxAge \/ lead[<<r, l>>] > 0
    BY ZenonT(60), <2>5 DEF StaleKeys, IsStale, Invalid
  <2> QED
    BY <1>1, <1>2, <2>5, <2>6, KeyFacts DEF Cleaning, cache
<1>5. ASSUME NEW w \in Writers, WrittenBy(w, r)'  PROVE Loop(w, r)'
  <2>1. Loop(w, r) /\ Written(r)
    BY <1>3, <1>5 DEF RecordInv, Written
  <2>2. ~ BeingCleaned(r)'
    BY ZenonT(60), <1>1, <1>2, <2>1 DEF BeingCleaned
  <2> QED
    BY ZenonT(60), <1>1, <1>3, <2>1, <2>2 DEF Loop, cache, writers
<1> QED
  BY <1>3, <1>4, <1>5 DEF RecordInv, Written

LEMMA CommitKeeps ==
  ASSUME TypeOK, NEW r \in Records, RecordInv(r), CleanupCommit
  PROVE  RecordInv(r)'
<1>0. \A m \in LabelsOf[r] : <<r, m>> \in Keys /\ m \in Labels
  BY KeyFacts
<1>1. ~ BeingCleaned(r)' /\ UNCHANGED writers
  BY DEF CleanupCommit, BeingCleaned
<1>2. \A v \in Writers : WrittenBy(v, r)' <=> WrittenBy(v, r)
  BY <1>1 DEF WrittenBy, writers
<1>3. CASE BeingCleaned(r)
  <2>1. \A v \in Writers : ~ WrittenBy(v, r)
    BY <1>3 DEF RecordInv, Loop
  <2>2. \A l \in LabelsOf[r] : <<r, l>> \in stale
    BY ZenonT(60), <1>3 DEF RecordInv, Cleaning
  <2>3. Uniform(r)'
    BY <1>0, <2>2 DEF Uniform, CleanupCommit
  <2> QED
    BY <1>1, <1>2, <2>1, <2>3 DEF RecordInv
<1>4. CASE ~ BeingCleaned(r)
  <2>1. \A m \in LabelsOf[r] : <<r, m>> \notin stale
    BY SMTT(30), <1>0, <1>4 DEF BeingCleaned
  <2>2. SameCache(r)
    BY ZenonT(60), <1>0, <2>1 DEF SameCache, CleanupCommit
  <2>3. ASSUME NEW w \in Writers, WrittenBy(w, r)'  PROVE Loop(w, r)'
    BY SMTT(30), <1>1, <1>2, <2>2, <2>3 DEF RecordInv, Loop, SameCache, writers
  <2>4. Written(r)' \/ Uniform(r)'
    BY <1>2, <2>2 DEF RecordInv, Written, Uniform, SameCache
  <2> QED
    BY SMTT(30), <1>1, <2>3, <2>4 DEF RecordInv
<1> QED
  BY <1>3, <1>4

(* The cleanup gives up, or the node dies. *)
LEMMA EndKeeps ==
  ASSUME TypeOK, NEW r \in Records, r \notin torn', RecordInv(r), CleanupFails \/ Restart
  PROVE  RecordInv(r)'
<1>1. ~ BeingCleaned(r)' /\ UNCHANGED cache
  BY ZenonT(60) DEF CleanupFails, Restart, BeingCleaned
<1>2. Uniform(r)' <=> Uniform(r)
  BY <1>1 DEF Uniform, cache
<1>3. CASE CleanupFails
  <2>1. UNCHANGED writers
    BY <1>3 DEF CleanupFails
  <2>2. \A v \in Writers : WrittenBy(v, r)' <=> WrittenBy(v, r)
    BY <2>1 DEF WrittenBy, writers
  <2>3. ASSUME NEW w \in Writers, WrittenBy(w, r)'  PROVE Loop(w, r)'
    <3>1. Loop(w, r) /\ UNCHANGED <<present, age, lead, todo, at, stamp>>
      BY ZenonT(60), <1>1, <2>1, <2>2, <2>3 DEF RecordInv, cache, writers
    <3>2. \A v \in Writers : WrittenBy(v, r)' => v = w
      BY ZenonT(60), <2>2, <3>1 DEF Loop
    <3> QED
      BY ZenonT(60), <1>1, <3>1, <3>2 DEF Loop
  <2> QED
    BY <1>1, <1>2, <2>2, <2>3 DEF RecordInv, Written
<1>4. CASE Restart
  <2>1. ~ Written(r) /\ \A v \in Writers : ~ WrittenBy(v, r)'
    BY <1>4 DEF Restart, WrittenBy
  <2> QED
    BY <1>1, <1>2, <2>1 DEF RecordInv
<1> QED
  BY <1>3, <1>4

(* Handlers between their loops. *)
LEMMA HandlerKeeps ==
  ASSUME TypeOK, WorkInv, NEW r \in Records, r \notin torn', RecordInv(r),
         \/ \E q \in Records, d \in 0 .. MaxLead : ReceiveGossip(q, d)
         \/ TakeNotification
         \/ \E found \in SUBSET Labels : CheckCached(found) \/ Refresh(found)
         \/ PullFails \/ Pull
  PROVE  RecordInv(r)'
<1>0. WriterTypes /\ RestTypes
  BY SMTT(30), TypeParts
<1>1. UNCHANGED <<cache, stale>>
  BY ZenonT(60) DEF ReceiveGossip, TakeNotification, CheckCached, Refresh, PullFails, Pull
<1>2. SameCache(r)
  BY SMTT(30), <1>1 DEF SameCache, cache
<1>3. ASSUME NEW q \in Records, NEW d \in 0 .. MaxLead, ReceiveGossip(q, d)  PROVE RecordInv(r)'
  <2> DEFINE leads == [l \in Labels |-> IF l \in LabelsOf[q] THEN d ELSE 0]
  <2>1. StartWriting("gossip", q, LabelsOf[q], leads) /\ pc["gossip"] # "put"
    BY ZenonT(60), <1>3 DEF ReceiveGossip
  <2>2. q = r => Overlap("gossip", r) = {}
    BY ZenonT(60), <1>3 DEF ReceiveGossip, Overlap
  <2>3. \A l, m \in LabelsOf[q] : leads[l] = leads[m]
    BY ZenonT(60), KeyFacts
  <2> HIDE DEF leads
  <2> QED
    BY ZenonT(60), <1>0, <1>1, <2>1, <2>2, <2>3, StartKeeps DEF Writers
<1>4. CASE TakeNotification \/ \E found \in SUBSET Labels : CheckCached(found)
  <2>1. SameWriters(r)
    BY <1>0, <1>4 DEF TakeNotification, CheckCached, SameWriters, WrittenBy, WriterTypes
  <2> QED
    BY <1>1, <1>2, <2>1, Frame
<1>5. CASE pc["notify"] # "put" /\ Return("notify")
  <2>1. SameWriters(r)
    BY ZenonT(60), <1>0, <1>5, ReturnFacts DEF SameWriters, WrittenBy, Writers
  <2> QED
    BY <1>1, <1>2, <2>1, Frame
<1>6. ASSUME NEW found \in SUBSET Labels, Refresh(found), found # {}  PROVE RecordInv(r)'
  <2> DEFINE q == rec["notify"]
             leads == [l \in Labels |-> IF l \in found /\ lead[<<q, l>>] > age[<<q, l>>]
                                        THEN lead[<<q, l>>] - age[<<q, l>>] ELSE 0]
  <2>1. StartWriting("notify", q, found, leads) /\ pc["notify"] # "put"
    BY ZenonT(60), <1>6 DEF Refresh
  <2>2. q = r => Overlap("notify", r) = {} /\ found = Cached(r)
    BY ZenonT(60), <1>6 DEF Refresh, Overlap
  <2>3. q = r => Uniform(r)
    BY ZenonT(60), <2>1, <2>2 DEF RecordInv, Written, WrittenBy, Overlap
  <2>4. q = r => found = LabelsOf[r]
    BY ZenonT(60), <1>6, <2>2, <2>3 DEF Cached, Uniform
  <2>5. q = r => \A l, m \in LabelsOf[r] : leads[l] = leads[m]
    BY SMTT(30), <2>3, <2>4, KeyFacts DEF Uniform
  <2> HIDE DEF leads, q
  <2> QED
    BY ZenonT(60), <1>0, <1>1, <2>1, <2>2, <2>4, <2>5, StartKeeps DEF Writers
<1>7. CASE Pull /\ LabelsOf[rec["notify"]] # {}
  <2>1. StartWriting("notify", rec["notify"], LabelsOf[rec["notify"]], Zero) /\ pc["notify"] # "put"
    BY ZenonT(60), <1>7 DEF Pull
  <2>2. rec["notify"] = r => Overlap("notify", r) = {}
    BY ZenonT(60), <1>7 DEF Pull, Overlap
  <2>3. \A l, m \in LabelsOf[r] : Zero[l] = Zero[m]
    BY ZenonT(60), KeyFacts DEF Zero
  <2> QED
    BY ZenonT(60), <1>0, <1>1, <2>1, <2>2, <2>3, StartKeeps DEF Writers
<1>8. ASSUME NEW found \in SUBSET Labels, Refresh(found), found = {}  PROVE RecordInv(r)'
  BY ZenonT(60), <1>5, <1>8 DEF Refresh
<1>9. CASE PullFails \/ (Pull /\ LabelsOf[rec["notify"]] = {})
  BY ZenonT(60), <1>5, <1>9 DEF PullFails, Pull
<1>10. ASSUME NEW found \in SUBSET Labels, CheckCached(found) \/ Refresh(found)  PROVE RecordInv(r)'
  <2>1. CASE CheckCached(found)
    BY <1>4, <2>1
  <2>2. CASE Refresh(found)
    BY ZenonT(60), <1>6, <1>8, <2>2
  <2> QED
    BY <1>10, <2>1, <2>2
<1>11. CASE Pull
  BY <1>7, <1>9, <1>11
<1>12. CASE \E q \in Records, d \in 0 .. MaxLead : ReceiveGossip(q, d)
  BY <1>3, <1>12
<1>13. CASE \E found \in SUBSET Labels : CheckCached(found) \/ Refresh(found)
  BY <1>10, <1>13
<1>14. CASE TakeNotification
  BY <1>4, <1>14
<1>15. CASE PullFails
  BY SMTT(30), <1>9, <1>15
<1> QED
  BY <1>11, <1>12, <1>13, <1>14, <1>15

LEMMA RecordNext ==
  ASSUME TypeOK, WorkInv, NEW r \in Records, r \notin torn', RecordInv(r), [Next]_vars
  PROVE  RecordInv(r)'
<1>1. ASSUME NEW w \in Writers, NEW l \in Labels, PutFails(w, l)  PROVE RecordInv(r)'
  <2>1. rec[w] # r /\ Advance(w, l) /\ UNCHANGED <<cache, stale>>
    BY ZenonT(60), <1>1 DEF PutFails
  <2>2. SameWriters(r)
    BY SMTT(30), <2>1, TypeParts, AdvanceFacts DEF SameWriters, WrittenBy
  <2>3. SameCache(r)
    BY <2>1 DEF SameCache, cache
  <2> QED
    BY SMTT(30), <2>1, <2>2, <2>3, Frame
<1>2. CASE UNCHANGED <<cache, writers, stale>>
  <2>1. SameWriters(r) /\ SameCache(r)
    BY <1>2 DEF SameWriters, SameCache, WrittenBy, cache, writers
  <2> QED
    BY ZenonT(60), <1>2, <2>1, Frame
<1>3. ASSUME NEW q \in Records, Announce(q)  PROVE RecordInv(r)'
  BY <1>2, <1>3 DEF Announce
<1>4. CASE UNCHANGED vars
  BY <1>2, <1>4 DEF vars
<1> QED
  BY SMTT(30), <1>1, <1>3, <1>4, TickKeeps, PutKeeps, HandlerKeeps, QueryKeeps, CommitKeeps, EndKeeps DEF Next

-----------------------------------------------------------------------------
LEMMA InitInv == Init => LabelsInv
<1> SUFFICES ASSUME Init PROVE LabelsInv
  OBVIOUS
<1>1. TypeOK
  BY SMTT(30), TypeInit
<1>2. WorkInv
  BY DEF Init, WorkInv
<1>3. OwnLabelsStay
  BY DEF Init, OwnLabelsStay
<1>4. ASSUME NEW r \in Records  PROVE RecordInv(r)
  <2>1. ~ BeingCleaned(r) /\ \A w \in Writers : ~ WrittenBy(w, r)
    BY ZenonT(60) DEF Init, BeingCleaned, WrittenBy
  <2>2. Uniform(r)
    BY SMTT(30), KeyFacts DEF Init, Uniform
  <2> QED
    BY <2>1, <2>2 DEF RecordInv
<1> QED
  BY <1>1, <1>2, <1>3, <1>4 DEF LabelsInv

LEMMA TornGrows ==
  ASSUME [Next]_vars
  PROVE  torn \subseteq torn'
  BY ZenonT(60) DEF Next, vars, Tick, Put, PutFails, ReceiveGossip, Announce, TakeNotification,
         CheckCached, Refresh, PullFails, Pull, CleanupQuery, CleanupCommit, CleanupFails, Restart

LEMMA NextInv == LabelsInv /\ [Next]_vars => LabelsInv'
<1> SUFFICES ASSUME LabelsInv, [Next]_vars PROVE LabelsInv'
  OBVIOUS
<1>1. TypeOK' /\ WorkInv' /\ OwnLabelsStay'
  BY TypeNext, WorkNext, OwnNext DEF LabelsInv
<1>2. ASSUME NEW r \in Records, r \notin torn'  PROVE RecordInv(r)'
  <2>1. RecordInv(r)
    BY <1>2, TornGrows DEF LabelsInv
  <2> QED
    BY <1>2, <2>1, RecordNext DEF LabelsInv
<1> QED
  BY <1>1, <1>2 DEF LabelsInv

(* The inductive invariant. *)
THEOREM Invariant == Spec => []LabelsInv
  BY InitInv, NextInv, PTL DEF Spec

(* The cache, the channel and the handlers' locals keep their types, and no handler
   runs for an announcement of the node's own. *)
THEOREM TypeCorrect == Spec => []TypeOK
<1>1. LabelsInv => TypeOK
  BY DEF LabelsInv
<1> QED
  BY <1>1, Invariant, PTL

(* cleanupStaleRemoteLabels never removes a label this node published. *)
THEOREM OwnLabelsSurvive == Spec => []OwnLabelsStay
<1>1. LabelsInv => OwnLabelsStay
  BY DEF LabelsInv
<1> QED
  BY <1>1, Invariant, PTL

(* The labels of a remote record are cached together, with the same times, unless
   a failure, a crash or an overlap of its handlers tore them apart. *)
THEOREM LabelsStayTogether == Spec => []WholeUnlessTorn
<1>1. LabelsInv => WholeUnlessTorn
  BY DEF LabelsInv, RecordInv, WholeUnlessTorn
<1> QED
  BY <1>1, Invariant, PTL

(* The cleanup removes only labels not seen for MaxLabelAge or with a Timestamp
   from the future, unless a refresh overlapped with it. *)
THEOREM FreshLabelsStay == Spec => FreshIsKept
<1>1. ASSUME LabelsInv, [Next]_vars, NEW k \in present \ present'
      PROVE  k[1] \notin Own /\ (age[k] > MaxAge \/ lead[k] > 0 \/ k[1] \in torn)
  <2>1. CleanupCommit
    BY ZenonT(60), <1>1 DEF Next, vars, cache, Tick, Put, PutFails, ReceiveGossip, Announce,
                TakeNotification, CheckCached, Refresh, PullFails, Pull, CleanupQuery,
                CleanupFails, Restart
  <2>2. k \in stale /\ k \in Keys
    BY <1>1, <2>1, TypeParts DEF CleanupCommit, LabelsInv, RestTypes
  <2>3. k[1] \in Records /\ k[2] \in LabelsOf[k[1]] /\ k = <<k[1], k[2]>>
    BY <2>2, KeyParts
  <2>4. BeingCleaned(k[1])
    BY <2>2, <2>3, KeyFacts DEF BeingCleaned
  <2>5. k[1] \notin torn => age[k] > MaxAge \/ lead[k] > 0
    <3>1. k[1] \notin torn => Cleaning(k[1])
      BY <1>1, <2>3, <2>4 DEF LabelsInv, RecordInv
    <3> QED
      BY <2>3, <3>1 DEF Cleaning
  <2>6. k[1] \notin Own
    BY <1>1, <2>2 DEF LabelsInv, WorkInv, Remote
  <2> QED
    BY SMTT(30), <2>5, <2>6
<1>2. LabelsInv /\ [Next]_vars
        => [\A k \in present \ present' :
              k[1] \notin Own /\ (age[k] > MaxAge \/ lead[k] > 0 \/ k[1] \in torn)]_vars
  BY <1>1
<1> QED
  BY <1>2, Invariant, PTL DEF Spec, FreshIsKept
=============================================================================
