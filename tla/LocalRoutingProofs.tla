-------------------------- MODULE LocalRoutingProofs --------------------------
(***************************************************************************)
(* Proofs, for any number of records, labels, concurrent calls, failures   *)
(* and restarts, that the label keys follow the record keys that a         *)
(* published record stays listed, and that the counters of the labels are  *)
(* exact under the conditions MetricsExact names.                          *)
(***************************************************************************)
EXTENDS LocalRouting, FiniteSetTheorems, TLAPS

(* What a cleanup is about to delete covers the labels there are, unless the
   record was published under its hands; a listed record has all its labels. *)
KeysInv ==
    /\ \A c \in Cids : labels[c] \subseteq LabelsOf[c]
    /\ \A c \in records : labels[c] = LabelsOf[c]
    /\ \A c \in Cids \ (records \cup skewed) : labels[c] = {}
    /\ task = "commit" /\ current \notin skewed => labels[current] \subseteq batch

(* Nothing on the list of orphans counts as published. *)
AckedInv == acked \subseteq records /\ acked \cap orphans = {}

(* The counts of the labels over a set of records. *)
CountsOf(R) == [l \in Labels |-> Cardinality({c \in R : l \in LabelsOf[c]})]

(* What a call that is counting has in its memory; it adds no record that is
   already counted. *)
CallerCount(k) ==
    /\ pc[k] \in {"check", "commit"} => loaded[k] = metrics
    /\ pc[k] = "update" => loaded[k] = CountsOf(records)
    /\ pc[k] = "commit" /\ op[k] = "publish" => arg[k] \notin records

(* As long as the counters can be exact, at most one call is counting; the
   counters are right except between its commit and its update, when its own
   copy is. *)
CountInv ==
    /\ IsFiniteSet(records)
    /\ exact = "yes" =>
          /\ \A j, k \in Counting : j = k
          /\ (\A k \in Callers : pc[k] # "update") => metrics = CountsOf(records)
          /\ \A k \in Callers : CallerCount(k)

USE LabelsAssumption, BoundAssumption
USE DEF store, calls, taskVars, history, Fault, Return

(* Empty counters are counters. *)
LEMMA ZeroType == Zero \in [Labels -> Nat]
  BY SMTT(30) DEF Zero

(* Every action keeps the types. *)
LEMMA NextTypes == ASSUME TypeOK, [Next]_vars  PROVE TypeOK'
<1> USE ZeroType DEF TypeOK, increment, decrement
<1>1. ASSUME NEW c \in Cids, Push(c) PROVE TypeOK'
  BY <1>1 DEF Push
<1>2. ASSUME NEW c \in Cids, Delete(c) PROVE TypeOK'
  BY <1>2 DEF Delete
<1>3. ASSUME NEW c \in Cids, Expire(c) PROVE TypeOK'
  BY <1>3 DEF Expire
<1>4. ASSUME NEW k \in Callers, NEW o \in {"publish", "unpublish"}, NEW c \in Cids, Begin(k, o, c)
      PROVE  TypeOK'
  BY <1>4 DEF Begin
<1>5. ASSUME NEW k \in Callers, LoadMetrics(k) PROVE TypeOK'
  BY <1>5 DEF LoadMetrics
<1>6. ASSUME NEW k \in Callers, CheckExists(k) PROVE TypeOK'
  <2>1. CASE arg[k] \in records
    <3>1. loaded' \in [Callers -> [Labels -> Nat]]
      BY <1>6, <2>1 DEF CheckExists
    <3> QED
      BY <1>6, <2>1, <3>1 DEF CheckExists
  <2>2. CASE arg[k] \notin records
    BY ZenonT(60), <1>6, <2>2 DEF CheckExists
  <2> QED  BY <2>1, <2>2
<1>7. ASSUME NEW k \in Callers, CommitPublish(k) PROVE TypeOK'
  BY <1>7 DEF CommitPublish
<1>8. ASSUME NEW k \in Callers, CommitUnpublish(k) PROVE TypeOK'
  BY <1>8 DEF CommitUnpublish
<1>9. ASSUME NEW k \in Callers, UpdateMetrics(k) PROVE TypeOK'
  <2>1. metrics' \in [Labels -> Nat] /\ loaded' \in [Callers -> [Labels -> Nat]]
    BY <1>9 DEF UpdateMetrics
  <2>2. CASE op[k] = "publish"
    BY SMTT(30), <1>9, <2>1, <2>2 DEF UpdateMetrics
  <2>3. CASE op[k] # "publish"
    BY ZenonT(60), <1>9, <2>1, <2>3 DEF UpdateMetrics
  <2> QED  BY <2>2, <2>3
<1>10. ASSUME NEW k \in Callers, Announce(k) PROVE TypeOK'
  BY <1>10 DEF Announce
<1>11. ASSUME NEW k \in Callers, Fail(k) PROVE TypeOK'
  BY <1>11 DEF Fail
<1>12. CASE StartRepublish
  BY <1>12 DEF StartRepublish
<1>13. ASSUME NEW c \in Cids, Republish(c) PROVE TypeOK'
  BY <1>13 DEF Republish
<1>14. CASE EndLookups
  BY <1>14 DEF EndLookups
<1>15. ASSUME NEW c \in Cids, QueryLabels(c) PROVE TypeOK'
  BY <1>15 DEF QueryLabels
<1>16. CASE CommitCleanup
  <2>1. current \in orphans /\ current' = NoCid
    BY <1>16 DEF CommitCleanup
  <2>2. task' \in {"idle", "query"} /\ (task' = "idle" => orphans' = {})
    BY <1>16 DEF CommitCleanup
  <2>3. labels' \in [Cids -> SUBSET Labels] /\ records' \subseteq Cids
    BY <1>16 DEF CommitCleanup
  <2>4. faults' \in 0..MaxFaults /\ exact' \in {"yes", "no"}
    BY <1>16 DEF CommitCleanup
  <2> QED
    BY <1>16, <2>1, <2>2, <2>3, <2>4 DEF CommitCleanup
<1>17. CASE Restart
  BY <1>17 DEF Restart
<1>18. CASE UNCHANGED vars
  BY ZenonT(60), <1>18 DEF vars
<1> QED
  BY ZenonT(60), <1>1, <1>2, <1>3, <1>4, <1>5, <1>6, <1>7, <1>8, <1>9, <1>10, <1>11, <1>12, <1>13, <1>14,
     <1>15, <1>16, <1>17, <1>18 DEF Next, CallStep, TaskStep

(* Every action keeps label keys and record keys together. *)
LEMMA NextKeys == ASSUME TypeOK, KeysInv, [Next]_vars  PROVE KeysInv'
<1> USE DEF TypeOK, KeysInv
<1>1. ASSUME NEW c \in Cids, Push(c) PROVE KeysInv'
  BY <1>1 DEF Push
<1>2. ASSUME NEW c \in Cids, Delete(c) PROVE KeysInv'
  BY <1>2 DEF Delete
<1>3. ASSUME NEW c \in Cids, Expire(c) PROVE KeysInv'
  BY <1>3 DEF Expire
<1>4. ASSUME NEW k \in Callers, NEW o \in {"publish", "unpublish"}, NEW c \in Cids, Begin(k, o, c)
      PROVE  KeysInv'
  BY <1>4 DEF Begin
<1>5. ASSUME NEW k \in Callers, LoadMetrics(k) PROVE KeysInv'
  BY <1>5 DEF LoadMetrics
<1>6. ASSUME NEW k \in Callers, CheckExists(k) PROVE KeysInv'
  BY <1>6 DEF CheckExists
<1>7. ASSUME NEW k \in Callers, CommitPublish(k) PROVE KeysInv'
  BY ZenonT(60), <1>7 DEF CommitPublish
<1>8. ASSUME NEW k \in Callers, CommitUnpublish(k) PROVE KeysInv'
  BY <1>8 DEF CommitUnpublish
<1>9. ASSUME NEW k \in Callers, UpdateMetrics(k) PROVE KeysInv'
  BY <1>9 DEF UpdateMetrics
<1>10. ASSUME NEW k \in Callers, Announce(k) PROVE KeysInv'
  BY <1>10 DEF Announce
<1>11. ASSUME NEW k \in Callers, Fail(k) PROVE KeysInv'
  BY <1>11 DEF Fail
<1>12. CASE StartRepublish
  BY <1>12 DEF StartRepublish
<1>13. ASSUME NEW c \in Cids, Republish(c) PROVE KeysInv'
  BY <1>13 DEF Republish
<1>14. CASE EndLookups
  BY <1>14 DEF EndLookups
<1>15. ASSUME NEW c \in Cids, QueryLabels(c) PROVE KeysInv'
  BY <1>15 DEF QueryLabels
<1>16. CASE CommitCleanup
  <2>1. current \in Cids /\ task' # "commit" /\ UNCHANGED skewed
    BY <1>16 DEF CommitCleanup
  <2>2. CASE UNCHANGED <<records, labels>>
    BY <2>1, <2>2
  <2>3. CASE records' = records \ {current} /\ labels' = [labels EXCEPT ![current] = @ \ batch]
    <3>1. labels'[current] = labels[current] \ batch
      BY <2>1, <2>3
    <3>2. \A c \in Cids \ {current} : labels'[c] = labels[c]
      BY <2>3
    <3>3. current \notin skewed => labels'[current] = {}
      BY <1>16, <3>1 DEF CommitCleanup
    <3> QED
      BY <2>1, <2>3, <3>1, <3>2, <3>3
  <2> QED
    BY <1>16, <2>2, <2>3 DEF CommitCleanup
<1>17. CASE Restart
  BY <1>17 DEF Restart
<1>18. CASE UNCHANGED vars
  BY <1>18 DEF vars
<1> QED
  BY <1>1, <1>2, <1>3, <1>4, <1>5, <1>6, <1>7, <1>8, <1>9, <1>10, <1>11, <1>12, <1>13, <1>14,
     <1>15, <1>16, <1>17, <1>18 DEF Next, CallStep, TaskStep

(* Every action keeps published records listed. *)
LEMMA NextAcked == ASSUME TypeOK, AckedInv, [Next]_vars  PROVE AckedInv'
<1> USE DEF TypeOK, AckedInv
<1>1. ASSUME NEW c \in Cids, Push(c) PROVE AckedInv'
  BY <1>1 DEF Push
<1>2. ASSUME NEW c \in Cids, Delete(c) PROVE AckedInv'
  BY <1>2 DEF Delete
<1>3. ASSUME NEW c \in Cids, Expire(c) PROVE AckedInv'
  BY <1>3 DEF Expire
<1>4. ASSUME NEW k \in Callers, NEW o \in {"publish", "unpublish"}, NEW c \in Cids, Begin(k, o, c)
      PROVE  AckedInv'
  BY <1>4 DEF Begin
<1>5. ASSUME NEW k \in Callers, LoadMetrics(k) PROVE AckedInv'
  BY <1>5 DEF LoadMetrics
<1>6. ASSUME NEW k \in Callers, CheckExists(k) PROVE AckedInv'
  BY <1>6 DEF CheckExists
<1>7. ASSUME NEW k \in Callers, CommitPublish(k) PROVE AckedInv'
  BY <1>7 DEF CommitPublish
<1>8. ASSUME NEW k \in Callers, CommitUnpublish(k) PROVE AckedInv'
  BY <1>8 DEF CommitUnpublish
<1>9. ASSUME NEW k \in Callers, UpdateMetrics(k) PROVE AckedInv'
  BY <1>9 DEF UpdateMetrics
<1>10. ASSUME NEW k \in Callers, Announce(k) PROVE AckedInv'
  BY <1>10 DEF Announce
<1>11. ASSUME NEW k \in Callers, Fail(k) PROVE AckedInv'
  BY <1>11 DEF Fail
<1>12. CASE StartRepublish
  BY <1>12 DEF StartRepublish
<1>13. ASSUME NEW c \in Cids, Republish(c) PROVE AckedInv'
  BY <1>13 DEF Republish
<1>14. CASE EndLookups
  BY <1>14 DEF EndLookups
<1>15. ASSUME NEW c \in Cids, QueryLabels(c) PROVE AckedInv'
  BY <1>15 DEF QueryLabels
<1>16. CASE CommitCleanup
  BY <1>16 DEF CommitCleanup
<1>17. CASE Restart
  BY <1>17 DEF Restart
<1>18. CASE UNCHANGED vars
  BY <1>18 DEF vars
<1> QED
  BY <1>1, <1>2, <1>3, <1>4, <1>5, <1>6, <1>7, <1>8, <1>9, <1>10, <1>11, <1>12, <1>13, <1>14,
     <1>15, <1>16, <1>17, <1>18 DEF Next, CallStep, TaskStep

(* Counting one more record is increment. *)
LEMMA CountAdded ==
    ASSUME NEW R, IsFiniteSet(R), NEW c \in Cids, c \notin R
    PROVE  CountsOf(R \cup {c}) = increment(CountsOf(R), LabelsOf[c])
<1> DEFINE With(l) == {d \in R : l \in LabelsOf[d]}
           More(l) == {d \in R \cup {c} : l \in LabelsOf[d]}
<1>1. ASSUME NEW l \in Labels
      PROVE  Cardinality(More(l)) = IF l \in LabelsOf[c] THEN Cardinality(With(l)) + 1
                                                        ELSE Cardinality(With(l))
  <2>1. IsFiniteSet(With(l)) /\ c \notin With(l)
    BY FS_Subset
  <2>2. CASE l \in LabelsOf[c]
    <3>1. More(l) = With(l) \cup {c}
      BY <2>2
    <3> HIDE DEF With, More
    <3> QED  BY Zenon, <2>1, <2>2, <3>1, FS_AddElement
  <2>3. CASE l \notin LabelsOf[c]
    <3>1. More(l) = With(l)
      BY <2>3
    <3> QED  BY <2>3, <3>1
  <2> QED  BY <2>2, <2>3
<1> QED  BY <1>1 DEF CountsOf, increment

(* Counting one record less is decrement. *)
LEMMA CountRemoved ==
    ASSUME NEW R, IsFiniteSet(R), NEW c \in Cids, c \in R
    PROVE  CountsOf(R \ {c}) = decrement(CountsOf(R), LabelsOf[c])
<1> DEFINE With(l) == {d \in R : l \in LabelsOf[d]}
           Less(l) == {d \in R \ {c} : l \in LabelsOf[d]}
<1>1. ASSUME NEW l \in Labels
      PROVE  Cardinality(Less(l)) = IF l \in LabelsOf[c] /\ Cardinality(With(l)) > 0
                                    THEN Cardinality(With(l)) - 1 ELSE Cardinality(With(l))
  <2>1. IsFiniteSet(With(l))
    BY FS_Subset
  <2>2. CASE l \in LabelsOf[c]
    <3>1. Less(l) = With(l) \ {c} /\ c \in With(l)
      BY <2>2
    <3> HIDE DEF With, Less
    <3>2. Cardinality(With(l)) \in Nat /\ Cardinality(With(l)) # 0
      BY <2>1, <3>1, FS_CardinalityType, FS_EmptySet
    <3>3. Cardinality(Less(l)) = Cardinality(With(l)) - 1
      BY ZenonT(60), <2>1, <3>1, FS_RemoveElement
    <3> QED  BY <2>2, <3>2, <3>3
  <2>3. CASE l \notin LabelsOf[c]
    <3>1. Less(l) = With(l)
      BY <2>3
    <3> QED  BY Zenon, <2>3, <3>1
  <2> QED  BY <2>2, <2>3
<1> QED  BY <1>1 DEF CountsOf, decrement

(* Every action keeps the counters exact, or records that it does not. *)
LEMMA NextCounts == ASSUME TypeOK, CountInv, [Next]_vars  PROVE CountInv'
<1> USE DEF TypeOK, CountInv, Counting
<1>1. ASSUME NEW c \in Cids, Push(c) PROVE CountInv'
  BY <1>1 DEF Push, CallerCount
<1>2. ASSUME NEW c \in Cids, Delete(c) PROVE CountInv'
  BY <1>2 DEF Delete, CallerCount
<1>3. ASSUME NEW c \in Cids, Expire(c) PROVE CountInv'
  BY <1>3 DEF Expire, CallerCount
<1>4. ASSUME NEW k \in Callers, NEW o \in {"publish", "unpublish"}, NEW c \in Cids, Begin(k, o, c)
      PROVE  CountInv'
  BY <1>4 DEF Begin, CallerCount
<1>5. ASSUME NEW k \in Callers, LoadMetrics(k) PROVE CountInv'
  BY <1>5 DEF LoadMetrics, CallerCount
<1>6. ASSUME NEW k \in Callers, CheckExists(k) PROVE CountInv'
  <2>1. \A j \in Callers \ {k} :
           pc'[j] = pc[j] /\ loaded'[j] = loaded[j] /\ op'[j] = op[j] /\ arg'[j] = arg[j]
    BY <1>6 DEF CheckExists
  <2>2. UNCHANGED <<records, metrics, exact, op, arg>>
    BY <1>6 DEF CheckExists
  <2>3. CASE arg[k] \in records
    <3>1. pc[k] = "check" /\ pc'[k] = "announce"
      BY <1>6, <2>3 DEF CheckExists
    <3>2. Counting' \subseteq Counting /\ \A j \in Callers : pc'[j] = "update" <=> pc[j] = "update"
      BY SMTT(30), <2>1, <3>1
    <3>3. ASSUME exact = "yes", NEW j \in Callers  PROVE CallerCount(j)'
      BY SMTT(30), <2>1, <2>2, <3>1, <3>3 DEF CallerCount
    <3> QED  BY SMTT(30), <2>2, <3>2, <3>3
  <2>4. CASE arg[k] \notin records
    <3>1. pc[k] = "check" /\ pc'[k] = "commit" /\ loaded'[k] = loaded[k]
      BY <1>6, <2>4 DEF CheckExists
    <3>2. Counting' \subseteq Counting /\ \A j \in Callers : pc'[j] = "update" <=> pc[j] = "update"
      BY SMTT(30), <2>1, <3>1
    <3>3. ASSUME exact = "yes", NEW j \in Callers  PROVE CallerCount(j)'
      BY SMTT(30), <2>1, <2>2, <2>4, <3>1, <3>3 DEF CallerCount
    <3> QED  BY SMTT(30), <2>2, <3>2, <3>3
  <2> QED  BY <2>3, <2>4
<1>7. ASSUME NEW k \in Callers, CommitPublish(k) PROVE CountInv'
  <2>1. IsFiniteSet(records')
    BY ZenonT(60), <1>7, FS_AddElement DEF CommitPublish
  <2>2. ASSUME exact = "yes" PROVE loaded'[k] = CountsOf(records')
    <3>1. arg[k] \in Cids \ records /\ records' = records \cup {arg[k]}
      BY SMTT(30), <1>7, <2>2 DEF CommitPublish, CallerCount
    <3>2. loaded[k] = CountsOf(records)
      BY SMTT(30), <1>7, <2>2 DEF CommitPublish, CallerCount
    <3>3. loaded'[k] = increment(loaded[k], LabelsOf[arg[k]])
      BY <1>7 DEF CommitPublish
    <3> QED  BY <3>1, <3>2, <3>3, CountAdded
  <2>3. \A j \in Callers \ {k} :
           pc'[j] = pc[j] /\ loaded'[j] = loaded[j] /\ op'[j] = op[j] /\ arg'[j] = arg[j]
    BY <1>7 DEF CommitPublish
  <2>4. pc[k] = "commit" /\ pc'[k] = "update" /\ UNCHANGED exact
    BY <1>7 DEF CommitPublish
  <2>5. ASSUME exact = "yes", NEW j \in Callers \ {k} PROVE j \notin Counting
    BY <2>4, <2>5
  <2>6. ASSUME exact = "yes"  PROVE Counting' = {k}
    BY SMTT(30), <2>3, <2>4, <2>5, <2>6
  <2>7. ASSUME exact' = "yes", NEW j \in Callers  PROVE CallerCount(j)'
    <3>1. CASE j = k
      BY SMTT(30), <2>2, <2>4, <2>7, <3>1 DEF CallerCount
    <3>2. CASE j # k
      BY SMTT(30), <2>3, <2>4, <2>5, <2>7, <3>2 DEF CallerCount
    <3> QED  BY <3>1, <3>2
  <2>8. pc'[k] = "update"
    BY <2>4
  <2> QED
    BY SMTT(30), <2>1, <2>4, <2>6, <2>7, <2>8
<1>8. ASSUME NEW k \in Callers, CommitUnpublish(k) PROVE CountInv'
  <2>1. IsFiniteSet(records')
    BY <1>8, FS_RemoveElement DEF CommitUnpublish
  <2>2. ASSUME exact' = "yes" PROVE loaded'[k] = CountsOf(records')
    <3>1. arg[k] \in Cids \cap records /\ records' = records \ {arg[k]} /\ exact = "yes"
      BY SMTT(30), <1>8, <2>2 DEF CommitUnpublish
    <3>2. loaded[k] = CountsOf(records)
      BY SMTT(30), <1>8, <3>1 DEF CommitUnpublish, CallerCount
    <3>3. loaded'[k] = decrement(loaded[k], LabelsOf[arg[k]])
      BY <1>8 DEF CommitUnpublish
    <3> QED  BY <3>1, <3>2, <3>3, CountRemoved
  <2>3. \A j \in Callers \ {k} :
           pc'[j] = pc[j] /\ loaded'[j] = loaded[j] /\ op'[j] = op[j] /\ arg'[j] = arg[j]
    BY <1>8 DEF CommitUnpublish
  <2>4. pc[k] = "commit" /\ pc'[k] = "update" /\ (exact' = "yes" => exact = "yes")
    BY <1>8 DEF CommitUnpublish
  <2>5. ASSUME exact = "yes", NEW j \in Callers \ {k} PROVE j \notin Counting
    BY <2>4, <2>5
  <2>6. ASSUME exact = "yes"  PROVE Counting' = {k}
    BY SMTT(30), <2>3, <2>4, <2>5, <2>6
  <2>7. ASSUME exact' = "yes", NEW j \in Callers  PROVE CallerCount(j)'
    <3>1. CASE j = k
      BY SMTT(30), <2>2, <2>4, <2>7, <3>1 DEF CallerCount
    <3>2. CASE j # k
      BY SMTT(30), <2>3, <2>4, <2>5, <2>7, <3>2 DEF CallerCount
    <3> QED  BY <3>1, <3>2
  <2>8. pc'[k] = "update"
    BY <2>4
  <2> QED
    BY SMTT(30), <2>1, <2>4, <2>6, <2>7, <2>8
<1>9. ASSUME NEW k \in Callers, UpdateMetrics(k) PROVE CountInv'
  <2>1. \A j \in Callers \ {k} :
           pc'[j] = pc[j] /\ loaded'[j] = loaded[j] /\ op'[j] = op[j] /\ arg'[j] = arg[j]
    BY <1>9 DEF UpdateMetrics
  <2>2. pc[k] = "update" /\ pc'[k] \in {"idle", "announce"} /\ metrics' = loaded[k]
    BY <1>9 DEF UpdateMetrics
  <2>3. UNCHANGED <<records, exact>>
    BY ZenonT(60), <1>9 DEF UpdateMetrics
  <2>4. ASSUME exact = "yes", NEW j \in Callers \ {k} PROVE j \notin Counting
    BY <2>2, <2>4
  <2>5. ASSUME exact = "yes"  PROVE Counting' = {} /\ metrics' = CountsOf(records')
    BY SMTT(30), <2>1, <2>2, <2>3, <2>4, <2>5 DEF CallerCount
  <2>6. ASSUME exact = "yes", NEW j \in Callers  PROVE CallerCount(j)'
    BY SMTT(30), <2>5, <2>6 DEF CallerCount
  <2> QED
    BY SMTT(30), <2>3, <2>5, <2>6
<1>10. ASSUME NEW k \in Callers, Announce(k) PROVE CountInv'
  BY <1>10 DEF Announce, CallerCount
<1>11. ASSUME NEW k \in Callers, Fail(k) PROVE CountInv'
  BY <1>11 DEF Fail, CallerCount
<1>12. CASE StartRepublish
  BY <1>12 DEF StartRepublish, CallerCount
<1>13. ASSUME NEW c \in Cids, Republish(c) PROVE CountInv'
  BY <1>13 DEF Republish, CallerCount
<1>14. CASE EndLookups
  BY <1>14 DEF EndLookups, CallerCount
<1>15. ASSUME NEW c \in Cids, QueryLabels(c) PROVE CountInv'
  BY <1>15 DEF QueryLabels, CallerCount
<1>16. CASE CommitCleanup
  <2>1. IsFiniteSet(records')
    BY <1>16, FS_RemoveElement DEF CommitCleanup
  <2>2. exact' = "yes" => records' = records /\ exact = "yes"
    <3>1. current \notin records => records \ {current} = records
      OBVIOUS
    <3> QED  BY ZenonT(60), <1>16, <3>1 DEF CommitCleanup
  <2> QED
    BY <1>16, <2>1, <2>2 DEF CommitCleanup, CallerCount
<1>17. CASE Restart
  BY <1>17 DEF Restart, CallerCount
<1>18. CASE UNCHANGED vars
  BY <1>18 DEF vars, CallerCount
<1> QED
  BY ZenonT(60), <1>1, <1>2, <1>3, <1>4, <1>5, <1>6, <1>7, <1>8, <1>9, <1>10, <1>11, <1>12, <1>13, <1>14,
     <1>15, <1>16, <1>17, <1>18 DEF Next, CallStep, TaskStep

(* The inductive invariant. *)
RoutingInv == TypeOK /\ KeysInv /\ AckedInv /\ CountInv

(* It holds in every reachable state. *)
THEOREM Invariant == Spec => []RoutingInv
<1>1. Init => TypeOK /\ KeysInv /\ AckedInv
  BY ZeroType DEF Init, TypeOK, KeysInv, AckedInv
<1>2. Init => CountInv
  <2>1. CountsOf({}) = Zero /\ IsFiniteSet({})
    BY FS_EmptySet DEF CountsOf, Zero
  <2> QED  BY <2>1 DEF Init, CountInv, CallerCount, Counting
<1>3. Init => RoutingInv
  BY <1>1, <1>2 DEF RoutingInv
<1>4. RoutingInv /\ [Next]_vars => RoutingInv'
  BY NextTypes, NextKeys, NextAcked, NextCounts DEF RoutingInv
<1> QED  BY <1>3, <1>4, PTL DEF Spec

(* Keys, counters, calls and the task keep their types. *)
THEOREM TypeCorrect == Spec => []TypeOK
<1>1. RoutingInv => TypeOK
  BY DEF RoutingInv
<1> QED  BY <1>1, Invariant, PTL

(* Record key and label keys come and go together. *)
THEOREM KeysAgree == Spec => []LabelsFollowRecords
<1>1. RoutingInv => LabelsFollowRecords
  BY DEF RoutingInv, TypeOK, KeysInv, LabelsFollowRecords
<1> QED  BY <1>1, Invariant, PTL

(* A published record stays listed with all its labels. *)
THEOREM PublishedStaysListed == Spec => []PublishedIsListed
<1>1. RoutingInv => PublishedIsListed
  BY DEF RoutingInv, KeysInv, AckedInv, PublishedIsListed
<1> QED  BY <1>1, Invariant, PTL

(* The counter of a label is the number of published records that have it,
   while no call is counting and nothing the counters cannot survive happened. *)
THEOREM CountersExact == Spec => []MetricsExact
<1>1. RoutingInv => MetricsExact
  BY DEF RoutingInv, CountInv, CountsOf, Counting, MetricsExact
<1> QED  BY <1>1, Invariant, PTL
=============================================================================
