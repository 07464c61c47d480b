----------------------------- MODULE RemoteLabels -----------------------------
(***************************************************************************)
(* What a node remembers of the records of other nodes: the label cache of *)
(* server/routing/routing_remote.go, filled by two goroutines and emptied  *)
(* by a third.                                                             *)
(*                                                                         *)
(*   - The GossipSub reader caches the labels an announcement carries.     *)
(*   - The DHT's provider store hands announcements to a bounded channel;  *)
(*     handleNotify takes them one by one, refreshes the labels it finds   *)
(*     cached, and pulls the record when it finds none.                    *)
(*   - Every CleanupInterval, labels not seen for MaxLabelAge are removed, *)
(*     in one batch, from what an earlier query found.                     *)
(*                                                                         *)
(* Labels are written one Put at a time and nothing orders the three.      *)
(* Time is kept as ages: age[k] counts the ticks since LastSeen and        *)
(* lead[k] those by which Timestamp, a remote clock's, is ahead of it.     *)
(***************************************************************************)
EXTENDS Naturals, Sequences, FiniteSets

CONSTANTS
    Records,    \* announced records: a CID and the peer that provides it
    Own,        \* the ones this node provides itself
    Labels,     \* labels
    LabelsOf,   \* LabelsOf[r]: GetLabelsFromRecord of the record
    MaxAge,     \* MaxLabelAge, in ticks
    MaxLead,    \* bound: how far a remote clock is ahead, in ticks
    NotifyCap,  \* NotificationChannelSize
    MaxBlocked, \* bound: DHT goroutines that stand at their send
    MaxFaults,  \* bound: failing datastore and network calls, and crashes
    NoRecord    \* "no record"

ASSUME RecordsAssumption ==
    /\ Own \subseteq Records /\ NoRecord \notin Records
    /\ LabelsOf \in [Records -> SUBSET Labels]
ASSUME NumbersAssumption ==
    /\ MaxAge \in Nat /\ MaxLead \in Nat /\ NotifyCap \in Nat \ {0}
    /\ MaxBlocked \in Nat /\ MaxFaults \in Nat

VARIABLES
    present,    \* keys of the datastore: /<label>/<CID>/<peer>
    age,        \* age[k]: ticks since the LastSeen of a present key
    lead,       \* lead[k]: ticks by which its Timestamp is after its LastSeen
    notifyCh,   \* the channel: its buffer, and after it what blocked senders send
    pc,         \* pc[w]: the next step of a writer, or "idle"
    rec,        \* rec[w]: the record it handles
    todo,       \* todo[w]: labels it has not written yet
    at,         \* at[w]: ticks since the `now` it has read
    stamp,      \* stamp[w][l]: the lead of the metadata it writes for l
    stale,      \* staleKeys of the cleanup; {} when it is not running
    faults,     \* counter for the bound
    torn        \* history: records whose labels may have been treated differently

cache == <<present, age, lead>>
writers == <<pc, rec, todo, at, stamp>>
vars == <<cache, notifyCh, writers, stale, faults, torn>>

Writers == {"gossip", "notify"}
Keys == {k \in Records \X Labels : k[2] \in LabelsOf[k[1]]}
Ages == 0 .. MaxAge + 1
Zero == [l \in Labels |-> 0]

(* What this node published itself, long ago, is in the same datastore. *)
Init ==
    /\ present = {k \in Keys : k[1] \in Own}
    /\ age = [k \in Keys |-> IF k[1] \in Own THEN MaxAge + 1 ELSE 0]
    /\ lead = [k \in Keys |-> 0]
    /\ notifyCh = <<>>
    /\ pc = [w \in Writers |-> "idle"] /\ rec = [w \in Writers |-> NoRecord]
    /\ todo = [w \in Writers |-> {}] /\ at = [w \in Writers |-> 0]
    /\ stamp = [w \in Writers |-> Zero]
    /\ stale = {} /\ faults = 0 /\ torn = {}

Fault == faults < MaxFaults /\ faults' = faults + 1

Older(a) == IF a > MaxAge THEN a ELSE a + 1

(* Time passes; an age past MaxLabelAge is not told apart from an older one. *)
Tick ==
    /\ age' = [k \in Keys |-> IF k \in present THEN Older(age[k]) ELSE age[k]]
    /\ at' = [w \in Writers |-> IF pc[w] = "put" THEN Older(at[w]) ELSE at[w]]
    /\ UNCHANGED <<present, lead, notifyCh, pc, rec, todo, stamp, stale, faults, torn>>

-----------------------------------------------------------------------------
(* Writing labels, the loop both goroutines end in. *)

Cached(r) == {l \in LabelsOf[r] : <<r, l>> \in present}
WrittenBy(w, r) == pc[w] = "put" /\ rec[w] = r
Written(r) == \E w \in Writers : WrittenBy(w, r)
BeingCleaned(r) == \E l \in Labels : <<r, l>> \in stale

Return(w) ==
    /\ pc' = [pc EXCEPT ![w] = "idle"] /\ rec' = [rec EXCEPT ![w] = NoRecord]
    /\ todo' = [todo EXCEPT ![w] = {}] /\ at' = [at EXCEPT ![w] = 0]
    /\ stamp' = [stamp EXCEPT ![w] = Zero]

(* now := time.Now(), and on to the loop over the labels ls. *)
StartWriting(w, r, ls, leads) ==
    /\ pc' = [pc EXCEPT ![w] = "put"] /\ rec' = [rec EXCEPT ![w] = r]
    /\ todo' = [todo EXCEPT ![w] = ls] /\ at' = [at EXCEPT ![w] = 0]
    /\ stamp' = [stamp EXCEPT ![w] = leads]

(* The other writer or the cleanup is at work on r when w starts. *)
Overlap(w, r) ==
    IF BeingCleaned(r) \/ \E v \in Writers \ {w} : WrittenBy(v, r) THEN {r} ELSE {}

(* Mutant: the handler returns after its first label. *)
AdvanceOnce(w, l) == Return(w)

(* The loop goes on, or the handler returns after the last label. *)
Advance(w, l) ==
    IF todo[w] = {l}
    THEN Return(w)
    ELSE todo' = [todo EXCEPT ![w] = @ \ {l}] /\ UNCHANGED <<pc, rec, at, stamp>>

Put(w, l) ==
    /\ pc[w] = "put" /\ l \in todo[w]
    /\ present' = present \cup {<<rec[w], l>>}
    /\ age' = [age EXCEPT ![<<rec[w], l>>] = at[w]]
    /\ lead' = [lead EXCEPT ![<<rec[w], l>>] = stamp[w][l]]
    /\ Advance(w, l)
    /\ UNCHANGED <<notifyCh, stale, faults, torn>>

(* A Put that fails is logged and the loop goes on. *)
PutFails(w, l) ==
    /\ pc[w] = "put" /\ l \in todo[w]
    /\ Fault
    /\ torn' = torn \cup {rec[w]}
    /\ Advance(w, l)
    /\ UNCHANGED <<cache, notifyCh, stale>>

-----------------------------------------------------------------------------
(* handleRecordPublishEvent: a valid announcement has at least one label; the
   node's own are skipped.  d is what the author's clock is ahead. *)
ReceiveGossip(r, d) ==
    /\ pc["gossip"] = "idle"
    /\ r \notin Own /\ LabelsOf[r] # {}
    /\ StartWriting("gossip", r, LabelsOf[r], [l \in Labels |-> IF l \in LabelsOf[r] THEN d ELSE 0])
    /\ torn' = torn \cup Overlap("gossip", r)
    /\ UNCHANGED <<cache, notifyCh, stale, faults>>

-----------------------------------------------------------------------------
(* The DHT's AddProvider, which blocks its goroutine while the buffer is full; the
   runtime serves blocked senders in order, so that buffer and senders are one
   queue.  handleAnnounce means to drop the node's own announcements, but compares
   a raw peer ID with the text of one (hostID is h.ID().String()): these are never
   equal, and what the node itself provides goes through the channel too. *)
Announce(r) ==
    /\ Len(notifyCh) < NotifyCap + MaxBlocked
    /\ notifyCh' = Append(notifyCh, r)
    /\ UNCHANGED <<cache, writers, stale, faults, torn>>

(* handleNotify; handleCIDProviderNotification ignores the node's own. *)
TakeNotification ==
    /\ pc["notify"] = "idle" /\ notifyCh # <<>>
    /\ notifyCh' = Tail(notifyCh)
    /\ IF Head(notifyCh) \in Own
       THEN UNCHANGED <<pc, rec>>
       ELSE /\ pc' = [pc EXCEPT !["notify"] = "check"]
            /\ rec' = [rec EXCEPT !["notify"] = Head(notifyCh)]
    /\ UNCHANGED <<cache, todo, at, stamp, stale, faults, torn>>

(* QueryAllNamespaces: a namespace whose query fails is left out. *)
QueryAllNamespaces(r, found) ==
    /\ found \subseteq Cached(r)
    /\ IF found = Cached(r) THEN UNCHANGED faults ELSE Fault

(* Mutant: every record counts as cached. *)
hasRemoteRecordCachedAlways(found) == TRUE

hasRemoteRecordCached(found) == found # {}

CheckCached(found) ==
    /\ pc["notify"] = "check"
    /\ QueryAllNamespaces(rec["notify"], found)
    /\ pc' = [pc EXCEPT !["notify"] = IF hasRemoteRecordCached(found) THEN "refresh" ELSE "pull"]
    /\ UNCHANGED <<cache, notifyCh, rec, todo, at, stamp, stale, torn>>

(* Mutant: a refresh that finds nothing tries again. *)
RefreshRetries(found) ==
    /\ pc["notify"] = "refresh" /\ found # {}
    /\ QueryAllNamespaces(rec["notify"], found)
    /\ StartWriting("notify", rec["notify"], found, Zero)
    /\ torn' = torn \cup Overlap("notify", rec["notify"])
    /\ UNCHANGED <<cache, notifyCh, stale>>

(* updateRemoteRecordLastSeen: what the query found is written back with a new
   LastSeen, and the Timestamp it had. *)
Refresh(found) ==
    LET r == rec["notify"]
        leads == [l \in Labels |-> IF l \in found /\ lead[<<r, l>>] > age[<<r, l>>]
                                   THEN lead[<<r, l>>] - age[<<r, l>>] ELSE 0]
    IN  /\ pc["notify"] = "refresh"
        /\ QueryAllNamespaces(r, found)
        /\ IF found = {} THEN Return("notify") ELSE StartWriting("notify", r, found, leads)
        /\ torn' = torn \cup Overlap("notify", r) \cup (IF found = Cached(r) THEN {} ELSE {r})
        /\ UNCHANGED <<cache, notifyCh, stale>>

(* The peer does not answer, or the record cannot be decoded. *)
PullFails ==
    /\ pc["notify"] = "pull"
    /\ Fault
    /\ Return("notify")
    /\ UNCHANGED <<cache, notifyCh, stale, torn>>

(* The fallback of handleCIDProviderNotification. *)
Pull ==
    LET r == rec["notify"]
    IN  /\ pc["notify"] = "pull"
        /\ IF LabelsOf[r] = {} THEN Return("notify") ELSE StartWriting("notify", r, LabelsOf[r], Zero)
        /\ torn' = torn \cup Overlap("notify", r)
        /\ UNCHANGED <<cache, notifyCh, stale, faults>>

-----------------------------------------------------------------------------
(* cleanupStaleRemoteLabels *)

(* Mutant: a label is stale as soon as its age reaches MaxLabelAge. *)
IsStaleEarly(k) == age[k] >= MaxAge

(* Mutant: no label is stale. *)
IsStaleNever(k) == FALSE

(* LabelMetadata.IsStale *)
IsStale(k) == age[k] > MaxAge

(* LabelMetadata.Validate: "last seen cannot be before creation timestamp". *)
Invalid(k) == lead[k] > 0

(* remoteLabelFilter *)
IsRemote(k) == k[1] \notin Own

StaleKeys == {k \in present : IsRemote(k) /\ (IsStale(k) \/ Invalid(k))}

(* The queries, one for each namespace; one that fails is left out, and so is a
   key that cannot be added to the batch. *)
CleanupQuery(found) ==
    /\ stale = {} /\ found \subseteq StaleKeys /\ found # {}
    /\ IF found = StaleKeys THEN UNCHANGED faults ELSE Fault
    /\ stale' = found
    /\ torn' = torn \cup {k[1] : k \in StaleKeys \ found}
                    \cup {k[1] : k \in {m \in found : Written(m[1])}}
    /\ UNCHANGED <<cache, notifyCh, writers>>

CleanupCommit ==
    /\ stale # {}
    /\ present' = present \ stale
    /\ age' = [k \in Keys |-> IF k \in stale THEN 0 ELSE age[k]]
    /\ lead' = [k \in Keys |-> IF k \in stale THEN 0 ELSE lead[k]]
    /\ stale' = {}
    /\ UNCHANGED <<notifyCh, writers, faults, torn>>

CleanupFails ==
    /\ stale # {}
    /\ Fault
    /\ stale' = {}
    /\ UNCHANGED <<cache, notifyCh, writers, torn>>

-----------------------------------------------------------------------------
(* The node dies and comes back with its datastore directory. *)
Restart ==
    /\ Fault
    /\ notifyCh' = <<>> /\ stale' = {}
    /\ pc' = [w \in Writers |-> "idle"] /\ rec' = [w \in Writers |-> NoRecord]
    /\ todo' = [w \in Writers |-> {}] /\ at' = [w \in Writers |-> 0]
    /\ stamp' = [w \in Writers |-> Zero]
    /\ torn' = torn \cup {r \in Records : Written(r)}
    /\ UNCHANGED cache

Next ==
    \/ Tick
    \/ \E w \in Writers, l \in Labels : Put(w, l) \/ PutFails(w, l)
    \/ \E r \in Records, d \in 0 .. MaxLead : ReceiveGossip(r, d)
    \/ \E r \in Records : Announce(r)
    \/ TakeNotification
    \/ \E found \in SUBSET Labels : CheckCached(found) \/ Refresh(found)
    \/ PullFails \/ Pull
    \/ \E found \in SUBSET StaleKeys : CleanupQuery(found)
    \/ CleanupCommit \/ CleanupFails
    \/ Restart

Spec == Init /\ [][Next]_vars

(* Each goroutine goes on with its next step and clocks advance.  That a pull
   ends is the peer's doing: handleNotify passes it no deadline. *)
GossipStep == \E l \in Labels : Put("gossip", l)
NotifyStep ==
    \/ TakeNotification
    \/ CheckCached(Cached(rec["notify"])) \/ Refresh(Cached(rec["notify"]))
    \/ Pull
    \/ \E l \in Labels : Put("notify", l)
CleanupStep == CleanupQuery(StaleKeys) \/ CleanupCommit

Fairness ==
    /\ WF_vars(Tick)
    /\ WF_vars(GossipStep) /\ WF_vars(NotifyStep) /\ WF_vars(CleanupStep)

FairSpec == Spec /\ Fairness

-----------------------------------------------------------------------------
(* Types; a handler of the node's own announcements never runs. *)
TypeOK ==
    /\ present \subseteq Keys
    /\ age \in [Keys -> Ages]
    /\ lead \in [Keys -> 0 .. MaxLead]
    /\ notifyCh \in Seq(Records) /\ Len(notifyCh) <= NotifyCap + MaxBlocked
    /\ pc \in [Writers -> {"idle", "check", "refresh", "pull", "put"}]
    /\ rec \in [Writers -> (Records \ Own) \cup {NoRecord}]
    /\ todo \in [Writers -> SUBSET Labels]
    /\ at \in [Writers -> Ages]
    /\ stamp \in [Writers -> [Labels -> 0 .. MaxLead]]
    /\ stale \subseteq Keys
    /\ faults \in 0 .. MaxFaults
    /\ torn \subseteq Records

Uniform(r) ==
    \A l, m \in LabelsOf[r] :
        /\ <<r, l>> \in present => <<r, m>> \in present
        /\ age[<<r, l>>] = age[<<r, m>>] /\ lead[<<r, l>>] = lead[<<r, m>>]

(* The labels of a record stand or fall together: outside a write loop, all of
   them are cached with the same times or none is, unless a Put or a namespace
   query failed, the node died inside the loop, or the loop overlapped with the
   other goroutine's or with a cleanup of the same record.  (A record that is
   cached in part stays so for as long as its peer keeps announcing it over the
   DHT: hasRemoteRecordCached then finds some label and nothing is pulled.) *)
WholeUnlessTorn == \A r \in Records \ torn : Written(r) \/ Uniform(r)

(* The cleanup leaves what the node published itself alone, however old: those
   labels are written once and never refreshed. *)
OwnLabelsStay == \A k \in Keys : k[1] \in Own => k \in present

(* A label disappears only when it is not one of the node's own and has not been
   seen for longer than MaxLabelAge or carries a Timestamp from the future,
   unless a refresh overlapped with the cleanup that removes it. *)
FreshIsKept ==
    [][\A k \in present \ present' :
          k[1] \notin Own /\ (age[k] > MaxAge \/ lead[k] > 0 \/ k[1] \in torn)]_vars

Announced(r) == \E i \in DOMAIN notifyCh : notifyCh[i] = r

(* A record whose announcements keep arriving over the DHT is cached with all its
   labels again and again, whatever the cleanup removes and GossipSub loses,
   unless its labels were torn apart. *)
LabelsReturn ==
    \A r \in Records \ Own :
        []<>Announced(r) => <>(r \in torn) \/ []<>(Cached(r) = LabelsOf[r])

(* A record that is no longer announced is forgotten: no handler that is late
   brings its labels back for good. *)
SilentIsForgotten ==
    \A r \in Records \ Own :
        <>[](~ Announced(r) /\ ~ Written(r)) => <>[](Cached(r) = {})

(* handleNotify empties the channel again and again, or takes from it for ever: a
   DHT goroutine at its send, one that provides a record of the node's own
   included, is not blocked forever. *)
SendersProceed == []<>(notifyCh = <<>>) \/ []<><<Len(notifyCh') < Len(notifyCh)>>_notifyCh
=============================================================================
