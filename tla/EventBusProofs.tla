--------------------------- MODULE EventBusProofs ---------------------------
(***************************************************************************)
(* Proofs, for any number of events, subscriptions and callers and any     *)
(* buffer size, that the bus keeps its types, never sends on or closes a   *)
(* closed channel, loses no event silently, keeps exact metrics, leaves no *)
(* caller of Wait asleep, panics only where the WaitGroup is reused, and   *)
(* implements LossyBroadcast.                                              *)
(***************************************************************************)
EXTENDS EventBus, FiniteSetTheorems, TLAPS

USE DEF InFlight, Removing, vars, busVars, chanVars, pubVars, counts, unsubVars, totals, history

(* The gauge SubscribersTotal is the size of the subscriber map. *)
GaugeInv == IsFiniteSet(subscribers) /\ subscribersTotal = Cardinality(subscribers)

(* The bus starts with its types right and an empty map counted as zero. *)
LEMMA InitTypes == Init => TypeOK /\ GaugeInv
<1>1. IsFiniteSet({}) /\ Cardinality({}) = 0
  BY FS_EmptySet
<1>2. (CHOOSE r \in Requests : TRUE) \in Requests
  BY RequestsAssumption
<1>3. Init => TypeOK
  BY <1>2 DEF Init, TypeOK
<1> QED
  BY <1>1, <1>3 DEF Init, GaugeInv

(* Subscribe adds an ID that was not in the map, and one to the gauge. *)
LEMMA SubscribeTypes ==
  ASSUME TypeOK, GaugeInv, NEW s \in Subs, NEW r \in Requests, Subscribe(s, r)
  PROVE  TypeOK' /\ GaugeInv'
<1>1. s \notin subscribers
  BY DEF Subscribe, TypeOK
<1>2. IsFiniteSet(subscribers') /\ Cardinality(subscribers') = Cardinality(subscribers) + 1
  BY <1>1, FS_AddElement DEF Subscribe, GaugeInv
<1>3. GaugeInv'
  BY <1>2 DEF Subscribe, GaugeInv, TypeOK
<1>4. TypeOK'
  BY DEF Subscribe, TypeOK
<1> QED  BY <1>3, <1>4

(* Unsubscribe takes an ID out that was in the map, and one off the gauge. *)
LEMMA UnsubscribeTypes ==
  ASSUME TypeOK, GaugeInv, NEW c \in Callers, NEW s \in Subs, Unsubscribe(c, s)
  PROVE  TypeOK' /\ GaugeInv'
<1>1. /\ IsFiniteSet(subscribers')
      /\ Cardinality(subscribers') = Cardinality(subscribers) - 1
  BY FS_RemoveElement DEF Unsubscribe, GaugeInv
<1>2. Cardinality(subscribers') \in Nat
  BY <1>1, FS_CardinalityType
<1>3. GaugeInv'
  BY <1>1 DEF Unsubscribe, GaugeInv, TypeOK
<1>4. TypeOK'
  BY <1>1, <1>2 DEF Unsubscribe, TypeOK, GaugeInv
<1> QED  BY <1>3, <1>4

(* Publish and the steps of the goroutine it starts keep the types. *)
LEMMA PublisherTypes ==
  ASSUME TypeOK, LossInv, NEW e \in Events, Publish(e) \/ PublisherStep(e)
  PROVE  TypeOK' /\ UNCHANGED <<subscribers, subscribersTotal>>
<1>1. CASE Publish(e)
  <2>1. CASE Validate(e)
    <3>1. pub' \in [Events -> InFlight \cup {"idle", "done"}]
      BY ZenonT(60), <1>1, <2>1 DEF Publish, TypeOK
    <3>2. wg' \subseteq Events /\ publishedTotal' \in Nat
      BY <1>1, <2>1 DEF Publish, TypeOK
    <3>3. subscribers \in SUBSET Subs
      BY DEF TypeOK
    <3>4. present' \in [Events -> SUBSET Subs]
      BY ZenonT(60), <1>1, <2>1, <3>3 DEF Publish, TypeOK
    <3> QED
      BY SMTT(30), <1>1, <3>1, <3>2, <3>4 DEF Publish, TypeOK
  <2>2. CASE ~Validate(e)
    BY ZenonT(60), <1>1, <2>2 DEF Publish, TypeOK
  <2> QED  BY <2>1, <2>2
<1>2. CASE Snapshot(e)
  BY <1>2 DEF Snapshot, TypeOK
<1>3. ASSUME NEW s \in Subs, Visit(e, s)
      PROVE  TypeOK' /\ UNCHANGED <<subscribers, subscribersTotal>>
  <2>1. CASE s \notin cancelled /\ Matches(e, request[s])
    <3>1. pub' \in [Events -> InFlight \cup {"idle", "done"}]
      BY ZenonT(60), <1>3, <2>1 DEF Visit, TypeOK
    <3>2. cur' \in [Events -> Subs \cup {NoSub}] /\ snapshot' \in [Events -> SUBSET Subs]
      BY <1>3, <2>1 DEF Visit, TypeOK
    <3> QED
      BY <1>3, <3>1, <3>2 DEF Visit, TypeOK
  <2>2. CASE ~(s \notin cancelled /\ Matches(e, request[s]))
    BY <1>3, <2>2 DEF Visit, TypeOK
  <2> QED  BY <2>1, <2>2
<1>4. CASE Select(e)
  <2>1. cur[e] \in Subs /\ ch[cur[e]] \in Seq(Events) /\ Append(ch[cur[e]], e) \in Seq(Events)
    BY <1>4 DEF Select, LossInv, TypeOK
  <2>2. ch' \in [Subs -> Seq(Events)]
    BY ZenonT(60), <1>4, <2>1 DEF Select, TypeOK
  <2>3. delivered' \in [Events -> Nat] /\ dropped' \in [Events -> Nat]
    BY <1>4 DEF Select, TypeOK
  <2>4. sentTo' \in [Events -> SUBSET Subs] /\ lostBy' \in [Events -> SUBSET Subs]
    <3>1. sentTo[e] \cup {cur[e]} \in SUBSET Subs /\ lostBy[e] \cup {cur[e]} \in SUBSET Subs
      BY <2>1 DEF TypeOK
    <3>2. sentTo' \in [Events -> SUBSET Subs]
      BY <1>4, <3>1 DEF Select, TypeOK
    <3>3. lostBy' \in [Events -> SUBSET Subs]
      BY ZenonT(60), <1>4, <3>1 DEF Select, TypeOK
    <3> QED  BY <3>2, <3>3
  <2>5. pub' \in [Events -> InFlight \cup {"idle", "done"}]
    BY <1>4 DEF Select, TypeOK
  <2>6. cur' \in [Events -> Subs \cup {NoSub}]
    BY <1>4 DEF Select, TypeOK
  <2>7. UNCHANGED <<busVars, cancelled, closed, snapshot, wg, unsubVars, totals, process, present>>
    BY <1>4 DEF Select
  <2>8. /\ request' \in [Subs -> Requests] /\ unsub' \in [Callers -> Removing \cup {"idle"}]
        /\ target' \in [Callers -> Subs \cup {NoSub}] /\ snapshot' \in [Events -> SUBSET Subs]
        /\ present' \in [Events -> SUBSET Subs]
    BY <2>7 DEF TypeOK
  <2> QED
    BY <2>2, <2>3, <2>4, <2>5, <2>6, <2>7, <2>8 DEF TypeOK
<1>5. CASE Finish(e)
  BY <1>5 DEF Finish, TypeOK
<1> QED
  BY <1>1, <1>2, <1>3, <1>4, <1>5 DEF PublisherStep

(* So do the later steps of Unsubscribe and the consumer. *)
LEMMA RemoverTypes ==
  ASSUME TypeOK, ChannelInv, NEW c \in Callers, UnsubscribeStep(c)
  PROVE  TypeOK' /\ UNCHANGED <<subscribers, subscribersTotal>>
<1>1. target[c] \in used
  BY DEF UnsubscribeStep, CloseCancel, Wait, WaitReturns, CloseChannel, ChannelInv
<1>2. CASE CloseCancel(c)
  BY SMTT(30), <1>1, <1>2 DEF CloseCancel, TypeOK
<1>3. CASE Wait(c)
  BY <1>3 DEF Wait, TypeOK
<1>4. CASE WaitReturns(c)
  BY <1>4 DEF WaitReturns, TypeOK
<1>5. CASE CloseChannel(c)
  BY SMTT(30), <1>1, <1>5 DEF CloseChannel, TypeOK
<1> QED
  BY SMTT(30), <1>2, <1>3, <1>4, <1>5 DEF UnsubscribeStep

LEMMA ReceiveTypes ==
  ASSUME TypeOK, NEW s \in Subs, Receive(s)
  PROVE  TypeOK' /\ UNCHANGED <<subscribers, subscribersTotal>>
<1>1. Tail(ch[s]) \in Seq(Events)
  BY DEF Receive, TypeOK
<1> QED
  BY <1>1 DEF Receive, TypeOK
-----------------------------------------------------------------------------
(* Only the snapshot brings a subscription within a goroutine's reach, and it
   takes it from the map. *)
LEMMA ReachShrinks ==
  ASSUME TypeOK, LossInv, NEW e \in Events, Publish(e) \/ PublisherStep(e),
         NEW f \in Events, NEW s \in Subs, MayReach(f, s)'
  PROVE  MayReach(f, s) \/ s \in subscribers
<1>1. CASE Publish(e)
  BY <1>1 DEF Publish, MayReach, TypeOK
<1>2. CASE Snapshot(e)
  BY <1>2 DEF Snapshot, MayReach, TypeOK
<1>3. ASSUME NEW t \in Subs, Visit(e, t)  PROVE MayReach(f, s)
  <2>1. CASE e = f
    BY SMTT(30), <1>3, <2>1 DEF Visit, MayReach, TypeOK
  <2>2. CASE e # f
    BY SMTT(30), <1>3, <2>2 DEF Visit, MayReach, TypeOK
  <2> QED  BY SMTT(30), <2>1, <2>2
<1>4. CASE Select(e)
  BY SMTT(30), <1>4 DEF Select, MayReach, TypeOK
<1>5. CASE Finish(e)
  BY <1>5 DEF Finish, MayReach, TypeOK
<1> QED
  BY SMTT(30), <1>1, <1>2, <1>3, <1>4, <1>5 DEF PublisherStep

(* The WaitGroup counts every goroutine in flight: wg.Add(1) comes before the
   go statement and wg.Done() after the last send. *)
LEMMA CountedStep ==
  ASSUME TypeOK, ChannelInv, NEW e \in Events, Publish(e) \/ PublisherStep(e)
  PROVE  \A f \in Events : pub'[f] \in InFlight => f \in wg'
<1> SUFFICES ASSUME NEW f \in Events, pub'[f] \in InFlight  PROVE f \in wg'
  OBVIOUS
<1>0. pub[f] \in InFlight => f \in wg
  BY SMTT(30) DEF ChannelInv
<1>1. CASE Publish(e)
  BY SMTT(30), <1>0, <1>1 DEF Publish, TypeOK
<1>2. CASE Snapshot(e)
  BY SMTT(30), <1>0, <1>2 DEF Snapshot, TypeOK
<1>3. ASSUME NEW t \in Subs, Visit(e, t)  PROVE f \in wg'
  BY SMTT(30), <1>0, <1>3 DEF Visit, TypeOK
<1>4. CASE Select(e)
  BY SMTT(30), <1>0, <1>4 DEF Select, TypeOK
<1>5. CASE Finish(e)
  BY SMTT(30), <1>0, <1>5 DEF Finish, TypeOK
<1> QED
  BY <1>1, <1>2, <1>3, <1>4, <1>5 DEF PublisherStep

(* The channel invariant under the steps of the publishers.  A remover that is
   released from Wait by this step finds no goroutine in flight. *)
LEMMA PublisherChannels ==
  ASSUME TypeOK, LossInv, ChannelInv, NEW e \in Events, Publish(e) \/ PublisherStep(e)
  PROVE  ChannelInv'
<1>1. UNCHANGED <<used, subscribers, cancelled, closed, target>>
  BY DEF Publish, PublisherStep, Snapshot, Visit, Select, Finish
<1>2. \A f \in Events : pub'[f] \in InFlight => f \in wg'
  BY ZenonT(60), CountedStep
<1>3. \A c \in Callers : \/ unsub'[c] = unsub[c]
                         \/ unsub[c] = "blocked" /\ unsub'[c] = "woken" /\ wg' = {}
  BY DEF Publish, PublisherStep, Snapshot, Visit, Select, Finish, TypeOK
<1>4. \A f \in Events, s \in Subs : MayReach(f, s)' => MayReach(f, s) \/ s \in subscribers
  BY ReachShrinks
<1>5. wg' = {} => \A f \in Events, s \in Subs : ~MayReach(f, s)'
  BY ZenonT(60), <1>2 DEF MayReach
<1>6. ASSUME NEW c \in Callers, unsub'[c] \in Removing
      PROVE  /\ target'[c] \in used' \ subscribers'
             /\ target'[c] \notin closed'
             /\ unsub'[c] = "cancel" => target'[c] \notin cancelled'
             /\ unsub'[c] \in {"woken", "close"} => \A f \in Events : ~MayReach(f, target[c])'
  <2>1. unsub[c] \in Removing /\ target[c] \in Subs /\ target[c] \notin subscribers
    BY SMTT(30), <1>3, <1>6 DEF ChannelInv, TypeOK
  <2>2. CASE unsub'[c] = unsub[c]
    BY ZenonT(60), <1>1, <1>4, <2>1, <2>2 DEF ChannelInv
  <2>3. CASE unsub[c] = "blocked" /\ unsub'[c] = "woken" /\ wg' = {}
    BY ZenonT(60), <1>1, <1>5, <2>1, <2>3 DEF ChannelInv
  <2> QED  BY SMTT(30), <1>3, <2>2, <2>3
<1>7. \A c, d \in Callers :
        unsub'[c] \in Removing /\ unsub'[d] \in Removing /\ target'[c] = target'[d] => c = d
  BY SMTT(30), <1>1, <1>3 DEF ChannelInv
<1>8. \A s \in closed' : s \in used' \ subscribers' /\ \A f \in Events : ~MayReach(f, s)'
  BY SMTT(30), <1>1, <1>4 DEF ChannelInv, TypeOK
<1>9. \A s \in cancelled' : s \in used' \ subscribers'
  BY <1>1 DEF ChannelInv
<1> QED
  BY SMTT(30), <1>1, <1>2, <1>6, <1>7, <1>8, <1>9 DEF ChannelInv

(* The channel invariant under the calls of Subscribe and Unsubscribe. *)
LEMMA CallChannels ==
  ASSUME TypeOK, ChannelInv, NEW s \in Subs,
         (\E r \in Requests : Subscribe(s, r)) \/ (\E c \in Callers : Unsubscribe(c, s))
  PROVE  ChannelInv'
<1>1. UNCHANGED <<pub, wg, snapshot, cur, cancelled, closed>>
  BY DEF Subscribe, Unsubscribe
<1>2. \A f \in Events, t \in Subs : MayReach(f, t)' <=> MayReach(f, t)
  BY SMTT(30), <1>1 DEF MayReach
<1>3. CASE \E r \in Requests : Subscribe(s, r)
  <2>1. s \notin used /\ used' = used \cup {s} /\ subscribers' = subscribers \cup {s}
        /\ UNCHANGED <<unsub, target>>
    BY SMTT(30), <1>3 DEF Subscribe
  <2> QED
    BY SMTT(30), <1>1, <1>2, <2>1 DEF ChannelInv, MayReach, TypeOK
<1>4. ASSUME NEW c \in Callers, Unsubscribe(c, s)  PROVE ChannelInv'
  <2>1. s \in subscribers /\ subscribers' = subscribers \ {s} /\ used' = used
        /\ unsub' = [unsub EXCEPT ![c] = "cancel"] /\ target' = [target EXCEPT ![c] = s]
    BY <1>4 DEF Unsubscribe
  <2> QED
    BY SMTT(30), <1>1, <1>2, <2>1 DEF ChannelInv, MayReach, TypeOK
<1> QED
  BY <1>3, <1>4

(* The channel invariant under the later steps of Unsubscribe: at Wait, a zero
   counter means that nothing can reach the subscription. *)
LEMMA RemoverChannels ==
  ASSUME TypeOK, ChannelInv, NEW c \in Callers, UnsubscribeStep(c)
  PROVE  ChannelInv'
<1>1. UNCHANGED <<used, subscribers, pub, wg, snapshot, cur, target>>
  BY DEF UnsubscribeStep, CloseCancel, Wait, WaitReturns, CloseChannel
<1>2. \A f \in Events, t \in Subs : MayReach(f, t)' <=> MayReach(f, t)
  BY ZenonT(60), <1>1 DEF MayReach
<1>3. target[c] \in Subs /\ target[c] \in used \ subscribers /\ target[c] \notin closed
  BY SMTT(30) DEF UnsubscribeStep, CloseCancel, Wait, WaitReturns, CloseChannel, ChannelInv, TypeOK
<1>4. CASE CloseCancel(c)
  <2>1. /\ unsub[c] = "cancel" /\ unsub' = [unsub EXCEPT ![c] = "wait"]
        /\ cancelled' = cancelled \cup {target[c]} /\ closed' = closed
    BY ZenonT(60), <1>4 DEF CloseCancel
  <2> QED
    BY SMTT(30), <1>1, <1>2, <1>3, <2>1 DEF ChannelInv, MayReach, TypeOK
<1>5. CASE Wait(c)
  <2>1. /\ unsub[c] = "wait" /\ cancelled' = cancelled /\ closed' = closed
        /\ unsub' = [unsub EXCEPT ![c] = IF wg = {} THEN "close" ELSE "blocked"]
    BY ZenonT(60), <1>5 DEF Wait
  <2>2. wg = {} => \A f \in Events : ~MayReach(f, target[c])
    BY SMTT(30) DEF ChannelInv, MayReach
  <2> QED
    BY SMTT(30), <1>1, <1>2, <1>3, <2>1, <2>2 DEF ChannelInv, MayReach, TypeOK
<1>6. CASE WaitReturns(c)
  <2>1. /\ unsub[c] = "woken" /\ unsub' = [unsub EXCEPT ![c] = "close"]
        /\ cancelled' = cancelled /\ closed' = closed
    BY SMTT(30), <1>6 DEF WaitReturns
  <2> QED
    BY SMTT(30), <1>1, <1>2, <1>3, <2>1 DEF ChannelInv, MayReach, TypeOK
<1>7. CASE CloseChannel(c)
  <2>1. /\ unsub[c] = "close" /\ unsub' = [unsub EXCEPT ![c] = "idle"]
        /\ cancelled' = cancelled /\ closed' = closed \cup {target[c]}
    BY SMTT(30), <1>7 DEF CloseChannel
  <2>2. \A f \in Events : ~MayReach(f, target[c])
    BY ZenonT(60), <2>1 DEF ChannelInv
  <2> QED
    BY SMTT(30), <1>1, <1>2, <1>3, <2>1, <2>2 DEF ChannelInv, MayReach, TypeOK
<1> QED
  BY SMTT(30), <1>4, <1>5, <1>6, <1>7 DEF UnsubscribeStep

-----------------------------------------------------------------------------
(* The loss invariant under the steps of the publishers. *)
LEMMA PublisherLosses ==
  ASSUME TypeOK, ChannelInv, LossInv, NEW e \in Events, Publish(e) \/ PublisherStep(e)
  PROVE  LossInv'
<1> DEFINE Local(f) ==
      /\ present[f] \subseteq used /\ snapshot[f] \subseteq used
      /\ pub[f] = "idle" => present[f] = {}
      /\ pub[f] = "send" => cur[f] \in used /\ Matches(f, request[cur[f]])
      /\ \A s \in sentTo[f] \cup lostBy[f] : s \in used /\ Matches(f, request[s])
      /\ \A s \in Subs :
            s \in present[f] /\ s \in subscribers /\ pub[f] \in {"loop", "send", "done"} =>
              \/ pub[f] \in {"loop", "send"} /\ s \in snapshot[f]
              \/ pub[f] = "send" /\ cur[f] = s
              \/ Settled(f, s)
<1>0. UNCHANGED <<used, subscribers, request, cancelled, closed>>
  BY SMTT(30) DEF Publish, PublisherStep, Snapshot, Visit, Select, Finish
<1>1. \A f \in Events : Local(f)
  BY ZenonT(60) DEF LossInv
<1>2. ASSUME NEW f \in Events, f # e  PROVE Local(f)'
  <2>0. Local(f)
    BY ZenonT(60), <1>1
  <2>1. /\ pub'[f] = pub[f] /\ snapshot'[f] = snapshot[f] /\ cur'[f] = cur[f]
        /\ present'[f] = present[f] /\ sentTo'[f] = sentTo[f] /\ lostBy'[f] = lostBy[f]
    BY SMTT(30), <1>2 DEF Publish, PublisherStep, Snapshot, Visit, Select, Finish, TypeOK
  <2>2. \A s \in Subs : Settled(f, s)' <=> Settled(f, s)
    BY SMTT(30), <1>0, <2>1 DEF Settled
  <2> QED
    BY ZenonT(60), <1>0, <2>0, <2>1, <2>2
<1>3. Local(e)'
  <2>0. Local(e)
    BY ZenonT(60), <1>1
  <2>1. CASE Publish(e)
    BY SMTT(30), <1>0, <2>0, <2>1 DEF Publish, Settled, TypeOK
  <2>2. CASE Snapshot(e)
    BY SMTT(30), <1>0, <2>0, <2>2 DEF Snapshot, Settled, TypeOK
  <2>3. ASSUME NEW s \in Subs, Visit(e, s)  PROVE Local(e)'
    <3>1. snapshot'[e] = snapshot[e] \ {s} /\ UNCHANGED <<present, sentTo, lostBy>>
          /\ pub[e] = "loop" /\ s \in snapshot[e]
      BY SMTT(30), <2>3 DEF Visit, TypeOK
    <3>2. CASE s \notin cancelled /\ Matches(e, request[s])
      <4>1. pub'[e] = "send" /\ cur'[e] = s
        BY SMTT(30), <2>3, <3>2 DEF Visit, TypeOK
      <4> QED
        BY ZenonT(60), <1>0, <2>0, <3>1, <3>2, <4>1 DEF Settled, TypeOK
    <3>3. CASE ~(s \notin cancelled /\ Matches(e, request[s]))
      <4>1. pub'[e] = "loop" /\ cur'[e] = cur[e]
        BY ZenonT(60), <2>3, <3>1, <3>3 DEF Visit
      <4>2. s \in subscribers => Settled(e, s)
        BY ZenonT(60), <2>0, <3>3 DEF ChannelInv, Settled
      <4> QED
        BY ZenonT(60), <1>0, <2>0, <3>1, <4>1, <4>2 DEF Settled
    <3> QED  BY ZenonT(60), <3>2, <3>3
  <2>4. CASE Select(e)
    <3>1. /\ pub[e] = "send" /\ pub'[e] = "loop"
          /\ snapshot' = snapshot /\ present' = present
      BY ZenonT(60), <2>4 DEF Select, TypeOK
    <3>2. cur[e] \in subscribers => cur[e] \notin cancelled /\ cur[e] \notin closed
      BY SMTT(30) DEF ChannelInv
    <3>3. /\ sentTo[e] \subseteq sentTo'[e] /\ lostBy[e] \subseteq lostBy'[e]
          /\ sentTo'[e] \cup lostBy'[e] \subseteq sentTo[e] \cup lostBy[e] \cup {cur[e]}
      BY SMTT(30), <2>4 DEF Select, TypeOK
    <3>4. cur[e] \in subscribers => cur[e] \in sentTo'[e] \cup lostBy'[e]
      BY SMTT(30), <2>4, <3>2 DEF Select, TypeOK
    <3>5. \A s \in sentTo'[e] \cup lostBy'[e] : s \in used /\ Matches(e, request[s])
      BY ZenonT(60), <2>0, <3>1, <3>3
    <3>6. \A s \in Subs : Settled(e, s) /\ s \in used => Settled(e, s)'
      BY ZenonT(60), <1>0, <3>3, <3>5 DEF Settled
    <3>7. ASSUME NEW s \in Subs, s = cur[e], s \in subscribers  PROVE Settled(e, s)'
      <4>1. s \in sentTo'[e] \cup lostBy'[e]
        BY ZenonT(60), <3>4, <3>7
      <4>2. Matches(e, request[s])
        BY ZenonT(60), <3>5, <4>1
      <4> QED
        BY ZenonT(60), <1>0, <4>1, <4>2 DEF Settled
    <3>8. ASSUME NEW s \in Subs, s \in present'[e], s \in subscribers'
          PROVE  s \in snapshot'[e] \/ Settled(e, s)'
      <4>1. s \in present[e] /\ s \in subscribers /\ s \in used
        BY ZenonT(60), <1>0, <2>0, <3>1, <3>8
      <4>2. s \in snapshot[e] \/ cur[e] = s \/ Settled(e, s)
        BY ZenonT(60), <2>0, <3>1, <4>1
      <4> QED
        BY ZenonT(60), <3>1, <3>6, <3>7, <4>1, <4>2
    <3> QED
      BY ZenonT(60), <1>0, <2>0, <3>1, <3>5, <3>8
  <2>5. CASE Finish(e)
    BY ZenonT(60), <1>0, <2>0, <2>5 DEF Finish, Settled, TypeOK
  <2> QED
    BY ZenonT(60), <2>1, <2>2, <2>3, <2>4, <2>5 DEF PublisherStep
<1>4. \A f \in Events : Local(f)'
  BY <1>2, <1>3
<1> QED
  BY ZenonT(60), <1>4 DEF LossInv

(* The loss invariant under everything else. *)
LEMMA OtherLosses ==
  ASSUME TypeOK, LossInv,
         \/ \E s \in Subs, r \in Requests : Subscribe(s, r)
         \/ \E c \in Callers, s \in Subs : Unsubscribe(c, s)
         \/ \E c \in Callers : UnsubscribeStep(c)
         \/ \E s \in Subs : Receive(s)
  PROVE  LossInv'
<1>1. UNCHANGED <<pub, snapshot, cur, present, sentTo, lostBy>>
  BY ZenonT(60) DEF Subscribe, Unsubscribe, UnsubscribeStep, CloseCancel, Wait, WaitReturns,
         CloseChannel, Receive
<1>2. ASSUME NEW s \in Subs, NEW r \in Requests, Subscribe(s, r)  PROVE LossInv'
  <2>1. s \notin used /\ used' = used \cup {s} /\ subscribers' = subscribers \cup {s}
        /\ request' = [request EXCEPT ![s] = r]
    BY SMTT(30), <1>2 DEF Subscribe
  <2>2. \A t \in used : request'[t] = request[t]
    BY ZenonT(60), <2>1 DEF TypeOK
  <2> QED
    BY SMTT(30), <1>1, <2>1, <2>2 DEF LossInv, Settled, TypeOK
<1>3. CASE ~\E s \in Subs, r \in Requests : Subscribe(s, r)
  <2>1. used' = used /\ request' = request /\ subscribers' \subseteq subscribers
    BY <1>3 DEF Unsubscribe, UnsubscribeStep, CloseCancel, Wait, WaitReturns, CloseChannel, Receive
  <2> QED
    BY ZenonT(60), <1>1, <2>1 DEF LossInv, Settled
<1> QED
  BY ZenonT(60), <1>2, <1>3

-----------------------------------------------------------------------------
(* The pairs of f that goroutines which have ended have added to the metrics. *)
Tallied(f) == {p \in Events \X Subs : pub[p[1]] = "done" /\ p[2] \in f[p[1]]}

(* A goroutine counts each subscription once: those it has still to visit, or
   is at, it has not counted yet. *)
EventTally(e) ==
    /\ IsFiniteSet(sentTo[e]) /\ delivered[e] = Cardinality(sentTo[e])
    /\ IsFiniteSet(lostBy[e]) /\ dropped[e] = Cardinality(lostBy[e])
    /\ pub[e] \in {"idle", "spawned"} => sentTo[e] = {} /\ lostBy[e] = {}
    /\ pub[e] \in {"loop", "send"} => snapshot[e] \cap (sentTo[e] \cup lostBy[e]) = {}
    /\ pub[e] = "send" => cur[e] \notin snapshot[e] \cup sentTo[e] \cup lostBy[e]

(* The totals are what the goroutines that have ended have counted. *)
TotalsTally ==
    /\ IsFiniteSet(Tallied(sentTo)) /\ deliveredTotal = Cardinality(Tallied(sentTo))
    /\ IsFiniteSet(Tallied(lostBy)) /\ droppedTotal = Cardinality(Tallied(lostBy))

TallyInv == TotalsTally /\ \A e \in Events : EventTally(e)

(* Adding the pairs of one event that has none yet adds their number. *)
LEMMA PairsAdded ==
  ASSUME NEW P, IsFiniteSet(P), NEW e, NEW S, IsFiniteSet(S), \A s \in S : <<e, s>> \notin P
  PROVE  /\ IsFiniteSet(P \cup ({e} \X S))
         /\ Cardinality(P \cup ({e} \X S)) = Cardinality(P) + Cardinality(S)
<1> DEFINE Q == {e} \X S
<1>1. IsFiniteSet({e}) /\ Cardinality({e}) = 1
  BY Zenon, FS_Singleton
<1>2. Cardinality(S) \in Nat /\ Cardinality(P) \in Nat
  BY FS_CardinalityType
<1>3. IsFiniteSet(Q) /\ Cardinality(Q) = Cardinality(S)
  <2>1. IsFiniteSet(Q) /\ Cardinality(Q) = Cardinality({e}) * Cardinality(S)
    BY ZenonT(60), <1>1, FS_Product
  <2> HIDE DEF Q
  <2>2. 1 * Cardinality(S) = Cardinality(S)
    BY <1>2
  <2> QED  BY ZenonT(60), <1>1, <2>1, <2>2
<1>4. P \cap Q = {}
  OBVIOUS
<1> HIDE DEF Q
<1>5. IsFiniteSet(P \cup Q) /\ Cardinality(P \cup Q) = Cardinality(P) + Cardinality(Q)
  BY <1>2, <1>3, <1>4, FS_Union, FS_EmptySet
<1> QED  BY <1>3, <1>5 DEF Q

(* The local counters under the steps of the publishers. *)
LEMMA PublisherCounts ==
  ASSUME TypeOK, LossInv, TallyInv, NEW e \in Events, Publish(e) \/ PublisherStep(e)
  PROVE  \A f \in Events : EventTally(f)'
<1>0. \A f \in Events : EventTally(f)
  BY DEF TallyInv
<1>1. ASSUME NEW f \in Events, f # e  PROVE EventTally(f)'
  <2>1. /\ pub'[f] = pub[f] /\ snapshot'[f] = snapshot[f] /\ cur'[f] = cur[f]
        /\ delivered'[f] = delivered[f] /\ dropped'[f] = dropped[f]
        /\ sentTo'[f] = sentTo[f] /\ lostBy'[f] = lostBy[f]
    BY SMTT(30), <1>1 DEF Publish, PublisherStep, Snapshot, Visit, Select, Finish, TypeOK
  <2> QED
    BY ZenonT(60), <1>0, <2>1 DEF EventTally
<1>2. EventTally(e)'
  <2>0. EventTally(e)
    BY <1>0
  <2>1. CASE Publish(e)
    BY SMTT(30), <2>0, <2>1 DEF Publish, EventTally, TypeOK
  <2>2. CASE Snapshot(e)
    BY SMTT(30), <2>0, <2>2 DEF Snapshot, EventTally, TypeOK
  <2>3. ASSUME NEW s \in Subs, Visit(e, s)  PROVE EventTally(e)'
    <3>1. /\ pub[e] = "loop" /\ s \in snapshot[e] /\ snapshot'[e] = snapshot[e] \ {s}
          /\ UNCHANGED <<sentTo, lostBy, delivered, dropped>>
          /\ pub'[e] = "loop" \/ (pub'[e] = "send" /\ cur'[e] = s)
      BY SMTT(30), <2>3 DEF Visit, TypeOK
    <3>2. s \notin sentTo[e] \cup lostBy[e] /\ snapshot[e] \cap (sentTo[e] \cup lostBy[e]) = {}
      <4>1. snapshot[e] \cap (sentTo[e] \cup lostBy[e]) = {}
        BY ZenonT(60), <2>0, <3>1 DEF EventTally
      <4> QED  BY ZenonT(60), <3>1, <4>1
    <3>3. snapshot'[e] \cap (sentTo'[e] \cup lostBy'[e]) = {} /\ s \notin snapshot'[e]
      BY SMTT(30), <3>1, <3>2
    <3>4. pub'[e] = "send" => cur'[e] \notin snapshot'[e] \cup sentTo'[e] \cup lostBy'[e]
      BY SMTT(30), <3>1, <3>2, <3>3
    <3> QED
      BY ZenonT(60), <2>0, <3>1, <3>3, <3>4 DEF EventTally
  <2>4. CASE Select(e)
    <3>1. /\ pub[e] = "send" /\ pub'[e] = "loop" /\ snapshot' = snapshot
      BY SMTT(30), <2>4 DEF Select, TypeOK
    <3>2. CASE delivered' = [delivered EXCEPT ![e] = @ + 1] /\ UNCHANGED <<dropped, lostBy>>
               /\ sentTo' = [sentTo EXCEPT ![e] = @ \cup {cur[e]}]
      <4>1. sentTo'[e] = sentTo[e] \cup {cur[e]} /\ delivered'[e] = delivered[e] + 1
        BY SMTT(30), <3>2 DEF TypeOK
      <4>2. cur[e] \notin sentTo[e] /\ IsFiniteSet(sentTo[e])
        BY <2>0, <3>1 DEF EventTally
      <4>3. IsFiniteSet(sentTo'[e]) /\ Cardinality(sentTo'[e]) = Cardinality(sentTo[e]) + 1
        <5>1. /\ IsFiniteSet(sentTo[e] \cup {cur[e]})
              /\ Cardinality(sentTo[e] \cup {cur[e]}) = Cardinality(sentTo[e]) + 1
          BY <4>2, FS_AddElement
        <5> QED  BY <4>1, <5>1
      <4>4. delivered'[e] = Cardinality(sentTo'[e])
        BY <2>0, <4>1, <4>3 DEF EventTally
      <4>5. lostBy'[e] = lostBy[e] /\ dropped'[e] = dropped[e]
        BY <3>2
      <4>6. snapshot'[e] \cap (sentTo'[e] \cup lostBy'[e]) = {}
        BY <2>0, <3>1, <4>1, <4>5 DEF EventTally
      <4> QED
        BY ZenonT(60), <2>0, <3>1, <4>3, <4>4, <4>5, <4>6 DEF EventTally
    <3>3. CASE dropped' = [dropped EXCEPT ![e] = @ + 1] /\ UNCHANGED <<delivered, sentTo>>
               /\ lostBy' = [lostBy EXCEPT ![e] = @ \cup {cur[e]}]
      <4>1. lostBy'[e] = lostBy[e] \cup {cur[e]} /\ dropped'[e] = dropped[e] + 1
        BY SMTT(30), <3>3 DEF TypeOK
      <4>2. cur[e] \notin lostBy[e] /\ IsFiniteSet(lostBy[e])
        BY <2>0, <3>1 DEF EventTally
      <4>3. IsFiniteSet(lostBy'[e]) /\ Cardinality(lostBy'[e]) = Cardinality(lostBy[e]) + 1
        <5>1. /\ IsFiniteSet(lostBy[e] \cup {cur[e]})
              /\ Cardinality(lostBy[e] \cup {cur[e]}) = Cardinality(lostBy[e]) + 1
          BY <4>2, FS_AddElement
        <5> QED  BY <4>1, <5>1
      <4>4. dropped'[e] = Cardinality(lostBy'[e])
        BY <2>0, <4>1, <4>3 DEF EventTally
      <4>5. sentTo'[e] = sentTo[e] /\ delivered'[e] = delivered[e]
        BY <3>3
      <4>6. snapshot'[e] \cap (sentTo'[e] \cup lostBy'[e]) = {}
        BY ZenonT(60), <2>0, <3>1, <4>1, <4>5 DEF EventTally
      <4> QED
        BY ZenonT(60), <2>0, <3>1, <4>3, <4>4, <4>5, <4>6 DEF EventTally
    <3>4. CASE UNCHANGED <<delivered, dropped, sentTo, lostBy>>
      BY SMTT(30), <2>0, <3>1, <3>4 DEF EventTally
    <3> QED
      BY SMTT(30), <2>4, <3>2, <3>3, <3>4 DEF Select
  <2>5. CASE Finish(e)
    BY SMTT(30), <2>0, <2>5 DEF Finish, EventTally, TypeOK
  <2> QED
    BY ZenonT(60), <2>1, <2>2, <2>3, <2>4, <2>5 DEF PublisherStep
<1> QED  BY <1>1, <1>2

(* The totals under the steps of the publishers: only Finish adds to them. *)
LEMMA PublisherTotals ==
  ASSUME TypeOK, TallyInv, NEW e \in Events, Publish(e) \/ PublisherStep(e)
  PROVE  TotalsTally'
<1>0. EventTally(e) /\ TotalsTally
  BY DEF TallyInv
<1>1. CASE Publish(e)
  <2>1. /\ pub[e] = "idle" /\ \A f \in Events \ {e} : pub'[f] = pub[f]
        /\ UNCHANGED <<sentTo, lostBy, deliveredTotal, droppedTotal>>
    BY SMTT(30), <1>1 DEF Publish, TypeOK
  <2>2. sentTo[e] = {} /\ lostBy[e] = {}
    BY ZenonT(60), <1>0, <2>1 DEF EventTally
  <2>3. Tallied(sentTo)' = Tallied(sentTo) /\ Tallied(lostBy)' = Tallied(lostBy)
    BY SMTT(30), <2>1, <2>2 DEF Tallied
  <2> QED
    BY ZenonT(60), <1>0, <2>1, <2>3 DEF TotalsTally
<1>2. CASE Snapshot(e) \/ (\E s \in Subs : Visit(e, s)) \/ Select(e)
  <2>1. /\ pub[e] # "done" /\ pub'[e] # "done" /\ UNCHANGED <<deliveredTotal, droppedTotal>>
        /\ \A f \in Events \ {e} :
              pub'[f] = pub[f] /\ sentTo'[f] = sentTo[f] /\ lostBy'[f] = lostBy[f]
    BY SMTT(30), <1>2 DEF Snapshot, Visit, Select, TypeOK
  <2>2. Tallied(sentTo)' = Tallied(sentTo) /\ Tallied(lostBy)' = Tallied(lostBy)
    BY SMTT(30), <2>1 DEF Tallied
  <2> QED
    BY <1>0, <2>1, <2>2 DEF TotalsTally
<1>3. CASE Finish(e)
  <2>1. /\ pub[e] # "done" /\ pub'[e] = "done" /\ \A f \in Events \ {e} : pub'[f] = pub[f]
        /\ UNCHANGED <<sentTo, lostBy>>
        /\ deliveredTotal' = deliveredTotal + delivered[e]
        /\ droppedTotal' = droppedTotal + dropped[e]
    BY SMTT(30), <1>3 DEF Finish, TypeOK
  <2>2. sentTo[e] \subseteq Subs /\ lostBy[e] \subseteq Subs
    BY DEF TypeOK
  <2>3. /\ Tallied(sentTo)' = Tallied(sentTo) \cup ({e} \X sentTo[e])
        /\ \A s \in sentTo[e] : <<e, s>> \notin Tallied(sentTo)
    <3>1. ASSUME NEW f \in Events, NEW s \in Subs
          PROVE  pub'[f] = "done" /\ s \in sentTo'[f]
                    <=> (pub[f] = "done" /\ s \in sentTo[f]) \/ (f = e /\ s \in sentTo[e])
      BY <2>1
    <3> QED
      BY SMTT(30), <2>1, <2>2, <3>1 DEF Tallied
  <2>4. /\ Tallied(lostBy)' = Tallied(lostBy) \cup ({e} \X lostBy[e])
        /\ \A s \in lostBy[e] : <<e, s>> \notin Tallied(lostBy)
    <3>1. ASSUME NEW f \in Events, NEW s \in Subs
          PROVE  pub'[f] = "done" /\ s \in lostBy'[f]
                    <=> (pub[f] = "done" /\ s \in lostBy[f]) \/ (f = e /\ s \in lostBy[e])
      BY <2>1
    <3> QED
      BY SMTT(30), <2>1, <2>2, <3>1 DEF Tallied
  <2>5. /\ IsFiniteSet(Tallied(sentTo)')
        /\ Cardinality(Tallied(sentTo)') = Cardinality(Tallied(sentTo)) + Cardinality(sentTo[e])
    <3>1. IsFiniteSet(sentTo[e]) /\ IsFiniteSet(Tallied(sentTo))
      BY <1>0 DEF EventTally, TotalsTally
    <3>2. /\ IsFiniteSet(Tallied(sentTo) \cup ({e} \X sentTo[e]))
          /\ Cardinality(Tallied(sentTo) \cup ({e} \X sentTo[e]))
                = Cardinality(Tallied(sentTo)) + Cardinality(sentTo[e])
      BY ZenonT(60), <2>3, <3>1, PairsAdded
    <3> QED  BY ZenonT(60), <2>3, <3>2
  <2>6. /\ IsFiniteSet(Tallied(lostBy)')
        /\ Cardinality(Tallied(lostBy)') = Cardinality(Tallied(lostBy)) + Cardinality(lostBy[e])
    <3>1. IsFiniteSet(lostBy[e]) /\ IsFiniteSet(Tallied(lostBy))
      BY <1>0 DEF EventTally, TotalsTally
    <3>2. /\ IsFiniteSet(Tallied(lostBy) \cup ({e} \X lostBy[e]))
          /\ Cardinality(Tallied(lostBy) \cup ({e} \X lostBy[e]))
                = Cardinality(Tallied(lostBy)) + Cardinality(lostBy[e])
      BY ZenonT(60), <2>4, <3>1, PairsAdded
    <3> QED  BY ZenonT(60), <2>4, <3>2
  <2> QED
    BY <1>0, <2>1, <2>5, <2>6 DEF EventTally, TotalsTally
<1> QED
  BY ZenonT(60), <1>1, <1>2, <1>3 DEF PublisherStep

(* Nothing else touches what the goroutines count. *)
LEMMA OtherTallies ==
  ASSUME TallyInv,
         \/ \E s \in Subs, r \in Requests : Subscribe(s, r)
         \/ \E c \in Callers, s \in Subs : Unsubscribe(c, s)
         \/ \E c \in Callers : UnsubscribeStep(c)
         \/ \E s \in Subs : Receive(s)
  PROVE  TallyInv'
<1>1. UNCHANGED <<pub, snapshot, cur, counts, sentTo, lostBy, deliveredTotal, droppedTotal>>
  BY ZenonT(60) DEF Subscribe, Unsubscribe, UnsubscribeStep, CloseCancel, Wait, WaitReturns,
         CloseChannel, Receive
<1> QED
  BY ZenonT(60), <1>1 DEF TallyInv, TotalsTally, EventTally, Tallied

-----------------------------------------------------------------------------
(* The inductive invariant of the bus. *)
BusInv == TypeOK /\ GaugeInv /\ ChannelInv /\ LossInv /\ TallyInv

LEMMA BusInvInit == Init => BusInv
<1> SUFFICES ASSUME Init PROVE BusInv
  OBVIOUS
<1>1. TypeOK /\ GaugeInv
  BY SMTT(30), InitTypes
<1>2. ChannelInv
  BY SMTT(30) DEF Init, ChannelInv, MayReach
<1>3. LossInv
  BY SMTT(30) DEF Init, LossInv, Settled
<1>4. TallyInv
  <2>1. Tallied(sentTo) = {} /\ Tallied(lostBy) = {}
    BY SMTT(30) DEF Init, Tallied
  <2>2. TotalsTally
    BY ZenonT(60), <2>1, FS_EmptySet DEF Init, TotalsTally
  <2>3. ASSUME NEW e \in Events  PROVE EventTally(e)
    BY FS_EmptySet DEF Init, EventTally
  <2> QED  BY <2>2, <2>3 DEF TallyInv
<1> QED
  BY <1>1, <1>2, <1>3, <1>4 DEF BusInv

LEMMA BusInvStep == BusInv /\ [Next]_vars => BusInv'
<1> SUFFICES ASSUME BusInv, [Next]_vars  PROVE BusInv'
  BY SMTT(30)
<1> USE DEF BusInv
<1>1. ASSUME NEW s \in Subs, NEW r \in Requests, Subscribe(s, r)  PROVE BusInv'
  BY SMTT(30), <1>1, SubscribeTypes, CallChannels, OtherLosses, OtherTallies
<1>2. ASSUME NEW e \in Events, Publish(e) \/ PublisherStep(e)  PROVE BusInv'
  <2>1. TypeOK' /\ GaugeInv'
    BY SMTT(30), <1>2, PublisherTypes DEF GaugeInv
  <2> QED
    BY SMTT(30), <1>2, <2>1, PublisherChannels, PublisherLosses, PublisherCounts, PublisherTotals
       DEF TallyInv
<1>3. ASSUME NEW c \in Callers, NEW s \in Subs, Unsubscribe(c, s)  PROVE BusInv'
  BY SMTT(30), <1>3, UnsubscribeTypes, CallChannels, OtherLosses, OtherTallies
<1>4. ASSUME NEW c \in Callers, UnsubscribeStep(c)  PROVE BusInv'
  <2>1. TypeOK' /\ GaugeInv'
    BY SMTT(30), <1>4, RemoverTypes DEF GaugeInv
  <2> QED
    BY SMTT(30), <1>4, <2>1, RemoverChannels, OtherLosses, OtherTallies
<1>5. ASSUME NEW s \in Subs, Receive(s)  PROVE BusInv'
  <2>1. TypeOK' /\ GaugeInv'
    BY SMTT(30), <1>5, ReceiveTypes DEF GaugeInv
  <2>2. ChannelInv'
    BY ZenonT(60), <1>5 DEF Receive, ChannelInv, MayReach
  <2> QED
    BY SMTT(30), <1>5, <2>1, <2>2, OtherLosses, OtherTallies
<1>6. CASE UNCHANGED vars
  <2>1. TypeOK' /\ GaugeInv' /\ ChannelInv' /\ LossInv'
    BY ZenonT(60), <1>6 DEF TypeOK, GaugeInv, ChannelInv, LossInv, MayReach, Settled
  <2>2. TallyInv'
    BY ZenonT(60), <1>6 DEF TallyInv, TotalsTally, EventTally, Tallied
  <2> QED  BY <2>1, <2>2
<1> QED
  BY SMTT(30), <1>1, <1>2, <1>3, <1>4, <1>5, <1>6 DEF Next

LEMMA BusInvAlways == Spec => []BusInv
BY BusInvInit, BusInvStep, PTL DEF Spec

(* The bus keeps its types; the SubscribersTotal gauge, which Unsubscribe
   decrements, never becomes negative (bus.go:189-247). *)
THEOREM TypeCorrect == Spec => []TypeOK
BY BusInvAlways, PTL DEF BusInv

(* No publisher goroutine is ever at its select with a closed event channel,
   so the recover of bus.go:139-144 has nothing to recover from. *)
THEOREM SendsAreSafe == Spec => []NoSendOnClosedChannel
<1>1. BusInv => NoSendOnClosedChannel
  BY SMTT(30) DEF BusInv, ChannelInv, MayReach, NoSendOnClosedChannel, TypeOK
<1> QED
  BY <1>1, BusInvAlways, PTL

(* Overlapping Unsubscribe calls never close a channel twice. *)
THEOREM ClosesAreSafe == Spec => []NoDoubleClose
<1>1. BusInv => NoDoubleClose
  BY ZenonT(60) DEF BusInv, ChannelInv, NoDoubleClose
<1> QED
  BY <1>1, BusInvAlways, PTL

(* A subscription that is registered from the call of Publish to the end of
   its goroutine gets the event or has its loss counted, if its filters match,
   and otherwise neither (bus.go:93-171). *)
THEOREM LossesAreCounted == Spec => []NoSilentLoss
<1>1. BusInv => NoSilentLoss
  BY ZenonT(60) DEF BusInv, LossInv, NoSilentLoss
<1> QED
  BY <1>1, BusInvAlways, PTL

(* GetMetrics is exact while no publisher goroutine is in flight, its gauge of
   subscribers always (bus.go:58-247). *)
THEOREM MetricsAreExact == Spec => []MetricsExact
<1>1. BusInv => MetricsExact
  <2> SUFFICES ASSUME BusInv PROVE MetricsExact
    OBVIOUS
  <2>1. subscribersTotal = Cardinality(subscribers)
    BY DEF BusInv, GaugeInv
  <2>2. ASSUME wg = {}
        PROVE  /\ Tallied(sentTo) = {p \in Events \X Subs : p[2] \in sentTo[p[1]]}
               /\ Tallied(lostBy) = {p \in Events \X Subs : p[2] \in lostBy[p[1]]}
    <3>1. ASSUME NEW e \in Events
          PROVE  pub[e] = "done" \/ (sentTo[e] = {} /\ lostBy[e] = {})
      <4>1. pub[e] \in {"idle", "done"}
        BY SMTT(30), <2>2 DEF BusInv, TypeOK, ChannelInv
      <4> QED  BY <4>1 DEF BusInv, TallyInv, EventTally
    <3>2. ASSUME NEW p \in Events \X Subs
          PROVE  /\ p[2] \in sentTo[p[1]] => pub[p[1]] = "done"
                 /\ p[2] \in lostBy[p[1]] => pub[p[1]] = "done"
      <4>1. p[1] \in Events
        BY SMTT(30)
      <4> QED  BY ZenonT(60), <3>1, <4>1
    <3> QED  BY ZenonT(60), <3>2 DEF Tallied
  <2> QED
    BY Zenon, <2>1, <2>2 DEF BusInv, TallyInv, TotalsTally, MetricsExact
<1> QED
  BY <1>1, BusInvAlways, PTL
-----------------------------------------------------------------------------
(* The WaitGroup counts exactly the goroutines in flight, and the one that brings
   it to zero wakes all that wait. *)
LEMMA WakeupStep == ASSUME TypeOK, NoLostWakeup, [Next]_vars  PROVE NoLostWakeup'
<1>1. ASSUME NEW e \in Events, Publish(e)  PROVE NoLostWakeup'
  BY SMTT(30), <1>1 DEF Publish, TypeOK, NoLostWakeup
<1>2. ASSUME NEW e \in Events, Snapshot(e) \/ Select(e) \/ \E s \in Subs : Visit(e, s)
      PROVE  NoLostWakeup'
  <2>1. /\ UNCHANGED <<wg, unsub>> /\ pub[e] \in InFlight /\ pub'[e] \in InFlight
        /\ \A f \in Events \ {e} : pub'[f] = pub[f]
    BY SMTT(30), <1>2 DEF Snapshot, Select, Visit, TypeOK
  <2> QED
    BY SMTT(30), <2>1 DEF TypeOK, NoLostWakeup
<1>3. ASSUME NEW e \in Events, Finish(e)  PROVE NoLostWakeup'
  BY SMTT(30), <1>3 DEF Finish, TypeOK, NoLostWakeup
<1>4. ASSUME NEW c \in Callers, UnsubscribeStep(c) \/ \E s \in Subs : Unsubscribe(c, s)
      PROVE  NoLostWakeup'
  <2>1. /\ UNCHANGED <<wg, pub>>
        /\ \A d \in Callers \ {c} : unsub'[d] = unsub[d]
        /\ unsub'[c] = "blocked" => wg # {}
    BY SMTT(30), <1>4 DEF UnsubscribeStep, CloseCancel, Wait, WaitReturns, CloseChannel, Unsubscribe,
                          TypeOK
  <2> QED
    BY SMTT(30), <2>1 DEF NoLostWakeup
<1>5. CASE \/ \E s \in Subs, r \in Requests : Subscribe(s, r)
           \/ \E s \in Subs : Receive(s)
           \/ UNCHANGED vars
  BY SMTT(30), <1>5 DEF Subscribe, Receive, TypeOK, NoLostWakeup
<1> QED
  BY Zenon, <1>1, <1>2, <1>3, <1>4, <1>5 DEF Next, PublisherStep

(* A caller of Unsubscribe that is blocked in Wait waits for a goroutine that is
   in flight (bus.go:93-247). *)
THEOREM WaitersAreWoken == Spec => []NoLostWakeup
<1>1. Init => NoLostWakeup
  BY SMTT(30) DEF Init, NoLostWakeup
<1> QED
  BY <1>1, WakeupStep, TypeCorrect, PTL DEF Spec

-----------------------------------------------------------------------------
(* The bus begins as a broadcast begins. *)
LEMMA BroadcastInit == ASSUME Init  PROVE Broadcast!Init
<1>1. Wanted \in [Subs -> SUBSET Events]
  BY DEF Wanted
<1>2. Phase = [e \in Events |-> "new"]
  BY DEF Phase, Init
<1> QED
  BY <1>1, <1>2 DEF Init, Broadcast!Init


(* Subscribe is a Join, Unsubscribe begins with a Leave and ends with a Dismiss,
   the Listen handler Reads; the rest of Unsubscribe cannot be seen. *)
LEMMA MembersStep ==
  ASSUME BusInv,
         \/ \E s \in Subs, r \in Requests : Subscribe(s, r)
         \/ \E c \in Callers, s \in Subs : Unsubscribe(c, s)
         \/ \E c \in Callers : UnsubscribeStep(c)
         \/ \E s \in Subs : Receive(s)
  PROVE  [Broadcast!Next]_Broadcast!vars
<1>0. Phase' = Phase
  BY DEF Subscribe, Unsubscribe, UnsubscribeStep, CloseCancel, Wait, WaitReturns, CloseChannel, Receive,
         Phase
<1>1. ASSUME NEW s \in Subs, NEW r \in Requests, Subscribe(s, r)  PROVE Broadcast!Next
  <2> DEFINE W == {e \in Events : Matches(e, r)}
  <2>1. Wanted' = [Wanted EXCEPT ![s] = W]
    BY Zenon, <1>1 DEF Subscribe, Wanted, BusInv, TypeOK
  <2>2. Broadcast!Join(s, W)
    BY <1>0, <1>1, <2>1 DEF Subscribe, Broadcast!Join
  <2>3. W \in SUBSET Events
    OBVIOUS
  <2> QED  BY <2>2, <2>3 DEF Broadcast!Next
<1>2. ASSUME NEW c \in Callers, NEW s \in Subs, Unsubscribe(c, s)  PROVE Broadcast!Next
  <2>1. Wanted' = Wanted
    BY <1>2 DEF Unsubscribe, Wanted
  <2>2. Broadcast!Leave(s)
    BY <1>0, <1>2, <2>1 DEF Unsubscribe, Broadcast!Leave
  <2> QED  BY <2>2 DEF Broadcast!Next
<1>3. ASSUME NEW c \in Callers, CloseChannel(c)  PROVE Broadcast!Next
  <2>1. Wanted' = Wanted
    BY <1>3 DEF CloseChannel, Wanted
  <2>2. target[c] \in Subs /\ target[c] \in used \ (subscribers \cup closed)
    BY <1>3 DEF CloseChannel, BusInv, TypeOK, ChannelInv
  <2>3. Broadcast!Dismiss(target[c])
    BY <1>0, <1>3, <2>1, <2>2 DEF CloseChannel, Broadcast!Dismiss
  <2> QED  BY <2>2, <2>3 DEF Broadcast!Next
<1>4. ASSUME NEW s \in Subs, Receive(s)  PROVE Broadcast!Next
  <2>1. Wanted' = Wanted
    BY <1>4 DEF Receive, Wanted
  <2>2. Broadcast!Read(s)
    BY <1>0, <1>4, <2>1 DEF Receive, Broadcast!Read, Broadcast!members
  <2> QED  BY <2>2 DEF Broadcast!Next
<1>5. ASSUME NEW c \in Callers, CloseCancel(c) \/ Wait(c) \/ WaitReturns(c)
      PROVE  UNCHANGED Broadcast!vars
  BY <1>0, <1>5 DEF CloseCancel, Wait, WaitReturns, Wanted, Broadcast!vars, Broadcast!members
<1> QED
  BY <1>1, <1>2, <1>3, <1>4, <1>5 DEF UnsubscribeStep

(* Publish is a Publish or a Refuse, the select is a Deliver, a Lose or nothing
   to be seen, and the end of publishAsync is an End: the loop has been through
   everyone who was there at the beginning and still is. *)
LEMMA EventStep ==
  ASSUME BusInv, NEW e \in Events, Publish(e) \/ PublisherStep(e)
  PROVE  [Broadcast!Next]_Broadcast!vars
<1>0. Wanted' = Wanted
  BY DEF Publish, PublisherStep, Snapshot, Visit, Select, Finish, Wanted
<1>1. CASE Publish(e)
  <2>1. CASE pub' = [pub EXCEPT ![e] = "done"] /\ UNCHANGED present
    <3>1. Phase[e] = "new" /\ Phase' = [Phase EXCEPT ![e] = "over"]
      BY Zenon, <1>1, <2>1 DEF Publish, Phase, BusInv, TypeOK
    <3>2. Broadcast!Refuse(e)
      BY <1>0, <1>1, <2>1, <3>1 DEF Publish, Broadcast!Refuse, Broadcast!members
    <3> QED  BY <3>2 DEF Broadcast!Next
  <2>2. CASE pub' = [pub EXCEPT ![e] = "spawned"] /\ present' = [present EXCEPT ![e] = subscribers]
    <3>1. Phase[e] = "new" /\ Phase' = [Phase EXCEPT ![e] = "open"]
      BY Zenon, <1>1, <2>2 DEF Publish, Phase, BusInv, TypeOK
    <3>2. Broadcast!Publish(e)
      BY <1>0, <1>1, <2>2, <3>1 DEF Publish, Broadcast!Publish, Broadcast!members
    <3> QED  BY <3>2 DEF Broadcast!Next
  <2> QED  BY <1>1, <2>1, <2>2 DEF Publish
<1>2. ASSUME Snapshot(e) \/ \E s \in Subs : Visit(e, s)  PROVE UNCHANGED Broadcast!vars
  <2>1. Phase' = Phase
    BY <1>2 DEF Snapshot, Visit, Phase, BusInv, TypeOK
  <2> QED
    BY <1>0, <1>2, <2>1 DEF Snapshot, Visit, Broadcast!vars, Broadcast!members
<1>3. CASE Select(e)
  <2> DEFINE s == cur[e]
  <2>1. Phase' = Phase /\ Phase[e] = "open"
    BY <1>3 DEF Select, Phase, BusInv, TypeOK
  <2>2. s \in Subs /\ s \in used \ closed /\ Matches(e, request[s])
    BY <1>3 DEF Select, BusInv, TypeOK, ChannelInv, LossInv, MayReach
  <2>3. s \notin sentTo[e] \cup lostBy[e]
    BY <1>3 DEF Select, BusInv, TallyInv, EventTally
  <2>4. Broadcast!Due(e, s)
    BY <2>1, <2>2, <2>3 DEF Broadcast!Due, Wanted
  <2>5. \/ Broadcast!Deliver(e, s) \/ Broadcast!Lose(e, s) \/ UNCHANGED Broadcast!vars
    <3> HIDE DEF s
    <3>1. ch \in [Subs -> Seq(Events)] /\ BufferSize \in Nat
      BY BufferAssumption DEF BusInv, TypeOK
    <3>2. CASE ch' = [ch EXCEPT ![s] = Append(@, e)] /\ Len(ch[s]) < BufferSize
               /\ sentTo' = [sentTo EXCEPT ![e] = @ \cup {s}] /\ UNCHANGED lostBy
      BY <1>0, <1>3, <2>1, <2>4, <3>2 DEF Select, Broadcast!Deliver, Broadcast!members
    <3>3. CASE UNCHANGED <<ch, sentTo, lostBy>>
      BY <1>0, <1>3, <2>1, <3>3 DEF Select, Broadcast!vars, Broadcast!members
    <3>4. CASE lostBy' = [lostBy EXCEPT ![e] = @ \cup {s}] /\ ~(Len(ch[s]) < BufferSize)
               /\ UNCHANGED <<ch, sentTo>>
      <4>1. Len(ch[s]) >= BufferSize
        BY <2>2, <3>1, <3>4
      <4> QED
        BY <1>0, <1>3, <2>1, <2>4, <3>4, <4>1 DEF Select, Broadcast!Lose, Broadcast!members
    <3> QED  BY <1>3, <3>2, <3>3, <3>4 DEF Select, s
  <2> QED  BY <2>2, <2>5 DEF Broadcast!Next
<1>4. CASE Finish(e)
  <2>1. Phase[e] = "open" /\ Phase' = [Phase EXCEPT ![e] = "over"]
    BY Zenon, <1>4 DEF Finish, Phase, BusInv, TypeOK
  <2>2. ASSUME NEW s \in present[e] \cap subscribers, e \in Wanted[s]
        PROVE  s \in sentTo[e] \cup lostBy[e]
    <3>1. s \in Subs /\ Matches(e, request[s])
      BY <2>2 DEF Wanted, BusInv, TypeOK
    <3>2. Settled(e, s)
      BY Zenon, <1>4, <2>2, <3>1 DEF Finish, BusInv, LossInv
    <3> QED  BY <3>1, <3>2 DEF Settled
  <2>3. Broadcast!End(e)
    BY <1>0, <1>4, <2>1, <2>2 DEF Finish, Broadcast!End, Broadcast!members
  <2> QED  BY <2>3 DEF Broadcast!Next
<1> QED
  BY <1>1, <1>2, <1>3, <1>4 DEF PublisherStep

(* The bus implements the broadcast: at most one delivery, only to those that want
   the event and have not been dismissed, losses only where the buffer is full,
   and nobody passed over (bus.go:93-247). *)
THEOREM Refinement == Spec => ImplementsBroadcast
<1>1. Init => Broadcast!Init
  BY BroadcastInit
<1>2. BusInv /\ [Next]_vars => [Broadcast!Next]_Broadcast!vars
  <2>1. ASSUME UNCHANGED vars PROVE UNCHANGED Broadcast!vars
    BY <2>1 DEF Broadcast!vars, Broadcast!members, Wanted, Phase
  <2> QED
    BY <2>1, MembersStep, EventStep DEF Next
<1> QED
  BY <1>1, <1>2, BusInvAlways, PTL DEF Spec, ImplementsBroadcast, Broadcast!Spec

(* Every action that kills the process does so in Wait: the channels it is
   about to close are open. *)
LEMMA PanicStep == ASSUME BusInv, PanicMeansReuse, [Next]_vars  PROVE PanicMeansReuse'
<1>1. CASE UNCHANGED vars
  BY Zenon, <1>1 DEF vars, unsubVars, pubVars, PanicMeansReuse
<1> SUFFICES ASSUME Next  PROVE PanicMeansReuse'
  BY <1>1
<1>2. process = "running"
  BY DEF Next
<1>3. ASSUME process' = process  PROVE PanicMeansReuse'
  BY <1>2, <1>3 DEF PanicMeansReuse
<1>4. ASSUME NEW s \in Subs, NEW r \in Requests, Subscribe(s, r)  PROVE PanicMeansReuse'
  BY <1>3, <1>4 DEF Subscribe
<1>5. ASSUME NEW e \in Events, Publish(e) \/ PublisherStep(e)  PROVE PanicMeansReuse'
  BY <1>3, <1>5 DEF Publish, PublisherStep, Snapshot, Visit, Select, Finish
<1>6. ASSUME NEW c \in Callers, NEW s \in Subs, Unsubscribe(c, s)  PROVE PanicMeansReuse'
  BY <1>3, <1>6 DEF Unsubscribe
<1>7. ASSUME NEW c \in Callers, CloseCancel(c)  PROVE PanicMeansReuse'
  <2>1. target[c] \notin cancelled
    BY <1>7 DEF CloseCancel, BusInv, ChannelInv, Removing
  <2> QED  BY <1>2, <1>3, <1>7, <2>1 DEF CloseCancel
<1>8. ASSUME NEW c \in Callers, Wait(c)  PROVE PanicMeansReuse'
  BY <1>3, <1>8 DEF Wait
<1>9. ASSUME NEW c \in Callers, WaitReturns(c)  PROVE PanicMeansReuse'
  <2>1. unsub'[c] = "close" /\ wg' = wg /\ process' = IF wg # {} THEN "panicked" ELSE "running"
    BY <1>9 DEF WaitReturns, BusInv, TypeOK, pubVars
  <2> QED  BY <2>1 DEF PanicMeansReuse
<1>10. ASSUME NEW c \in Callers, CloseChannel(c)  PROVE PanicMeansReuse'
  <2>1. target[c] \notin closed
    BY <1>10 DEF CloseChannel, BusInv, ChannelInv, Removing
  <2> QED  BY <1>2, <1>3, <1>10, <2>1 DEF CloseChannel
<1>11. ASSUME NEW s \in Subs, Receive(s)  PROVE PanicMeansReuse'
  BY <1>3, <1>11 DEF Receive
<1> QED
  BY Zenon, <1>4, <1>5, <1>6, <1>7, <1>8, <1>9, <1>10, <1>11 DEF Next, UnsubscribeStep

(* The reuse of the WaitGroup is the only panic of the bus. *)
THEOREM OnlyReusePanics == Spec => []PanicMeansReuse
<1>1. Init => PanicMeansReuse
  BY DEF Init, PanicMeansReuse
<1>2. BusInv /\ PanicMeansReuse /\ [Next]_vars => PanicMeansReuse'
  BY PanicStep
<1> QED  BY <1>1, <1>2, BusInvAlways, PTL DEF Spec
=============================================================================
