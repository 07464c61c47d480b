------------------------------ MODULE EventBus ------------------------------
(***************************************************************************)
(* The in-process event bus, server/events/bus.go.                         *)
(*                                                                         *)
(* Publish starts one goroutine per event (publishAsync).  It takes a      *)
(* snapshot of the subscriptions under the read lock and then, without any *)
(* lock, tries a non-blocking send to each.  Unsubscribe removes the       *)
(* subscription under the lock, closes its cancel channel, waits for every *)
(* publisher goroutine to finish (sync.WaitGroup) and only then closes the *)
(* event channel.  One action is one such atomic piece of a goroutine.     *)
(*                                                                         *)
(* The WaitGroup is the set `wg' of events whose goroutine has not called  *)
(* Done (its counter is the size of the set).  A caller of Wait that found *)
(* the counter positive is blocked until it reaches zero and then has      *)
(* still to run; if the counter has been raised again by then the Go       *)
(* runtime panics ("WaitGroup is reused before previous Wait has           *)
(* returned"), which ends the process.                                     *)
(***************************************************************************)
EXTENDS Integers, Sequences, FiniteSets, EventFilters

CONSTANTS
    Events,      \* events handed to Publish, each at most once
    Subs,        \* subscription IDs (fresh UUIDs: none is used twice)
    Requests,    \* Listen requests a subscription may be made with
    Callers,     \* goroutines that may call Unsubscribe
    BufferSize,  \* config.SubscriberBufferSize
    NoSub        \* "no subscription"

ASSUME BufferAssumption == BufferSize \in Nat
ASSUME NoSubAssumption == NoSub \notin Subs
ASSUME FiniteAssumption == IsFiniteSet(Events)
ASSUME RequestsAssumption == Requests # {}

VARIABLES
    used,         \* subscription IDs handed out so far
    subscribers,  \* keys of EventBus.subscribers
    request,      \* request[s]: what the filters of s were built from
    ch,           \* ch[s]: contents of the buffered event channel
    cancelled,    \* subscriptions whose cancel channel is closed
    closed,       \* subscriptions whose event channel is closed
    pub,          \* pub[e]: program counter of e's publisher goroutine
    snapshot,     \* snapshot[e]: subscriptions the loop has still to visit
    cur,          \* cur[e]: subscription the select statement is about
    delivered,    \* delivered[e], dropped[e]: the goroutine's local counters
    dropped,
    wg,           \* events between wg.Add(1) and wg.Done()
    unsub,        \* unsub[c]: program counter of an Unsubscribe call
    target,       \* target[c]: the subscription that call is about
    publishedTotal, deliveredTotal, droppedTotal, subscribersTotal,  \* Metrics
    process,      \* "running", or "panicked" when a Go panic killed it
    present,      \* history: present[e], subscriptions there at Publish
    sentTo,       \* history: sentTo[e], subscriptions whose channel e went into
    lostBy        \* history: lostBy[e], subscriptions that found no room for e

busVars == <<used, subscribers, request, subscribersTotal>>
chanVars == <<ch, cancelled, closed>>
counts == <<delivered, dropped>>
pubVars == <<pub, snapshot, cur, counts, wg>>
unsubVars == <<unsub, target>>
totals == <<publishedTotal, deliveredTotal, droppedTotal>>
history == <<present, sentTo, lostBy>>
vars == <<busVars, chanVars, pubVars, unsubVars, totals, process, history>>

InFlight == {"spawned", "loop", "send"}
Removing == {"cancel", "wait", "blocked", "woken", "close"}

Init ==
    /\ used = {} /\ subscribers = {}
    /\ request = [s \in Subs |-> CHOOSE r \in Requests : TRUE]
    /\ ch = [s \in Subs |-> <<>>] /\ cancelled = {} /\ closed = {}
    /\ pub = [e \in Events |-> "idle"]
    /\ snapshot = [e \in Events |-> {}]
    /\ cur = [e \in Events |-> NoSub]
    /\ delivered = [e \in Events |-> 0] /\ dropped = [e \in Events |-> 0]
    /\ wg = {}
    /\ unsub = [c \in Callers |-> "idle"] /\ target = [c \in Callers |-> NoSub]
    /\ publishedTotal = 0 /\ deliveredTotal = 0 /\ droppedTotal = 0 /\ subscribersTotal = 0
    /\ process = "running"
    /\ present = [e \in Events |-> {}]
    /\ sentTo = [e \in Events |-> {}] /\ lostBy = [e \in Events |-> {}]

-----------------------------------------------------------------------------
(* Mutants: actions with a plausible bug, each before the action it deviates
   from and otherwise identical to it. *)

(* Unsubscribe closes the channel without waiting. *)
WaitNot(c) ==
    /\ unsub[c] = "wait"
    /\ unsub' = [unsub EXCEPT ![c] = "close"]
    /\ UNCHANGED <<busVars, chanVars, pubVars, target, totals, process, history>>

(* A subscription whose buffer is full is passed over. *)
VisitSkipsFull(e, s) ==
    /\ pub[e] = "loop" /\ s \in snapshot[e]
    /\ IF s \notin cancelled /\ Matches(e, request[s]) /\ Len(ch[s]) < BufferSize
       THEN /\ pub' = [pub EXCEPT ![e] = "send"]
            /\ cur' = [cur EXCEPT ![e] = s]
       ELSE UNCHANGED <<pub, cur>>
    /\ snapshot' = [snapshot EXCEPT ![e] = @ \ {s}]
    /\ UNCHANGED <<busVars, chanVars, counts, wg, unsubVars, totals, process, history>>

(* Drops are counted by the goroutine and never added to the metrics. *)
FinishForgetsDropped(e) ==
    /\ pub[e] = "loop" /\ snapshot[e] = {}
    /\ pub' = [pub EXCEPT ![e] = "done"]
    /\ deliveredTotal' = deliveredTotal + delivered[e]
    /\ wg' = wg \ {e}
    /\ unsub' = [c \in Callers |->
                    IF unsub[c] = "blocked" /\ wg' = {} THEN "woken" ELSE unsub[c]]
    /\ UNCHANGED <<busVars, chanVars, snapshot, cur, counts, target, publishedTotal, droppedTotal,
                   process, history>>

(* wg.Done() is missing. *)
FinishWithoutDone(e) ==
    /\ pub[e] = "loop" /\ snapshot[e] = {}
    /\ pub' = [pub EXCEPT ![e] = "done"]
    /\ deliveredTotal' = deliveredTotal + delivered[e]
    /\ droppedTotal' = droppedTotal + dropped[e]
    /\ UNCHANGED <<busVars, chanVars, snapshot, cur, counts, wg, unsubVars, publishedTotal, process, history>>

-----------------------------------------------------------------------------
(* Subscribe: create and register a subscription, under the write lock. *)
Subscribe(s, r) ==
    /\ s \notin used
    /\ used' = used \cup {s}
    /\ subscribers' = subscribers \cup {s}
    /\ request' = [request EXCEPT ![s] = r]
    /\ subscribersTotal' = subscribersTotal + 1
    /\ UNCHANGED <<chanVars, pubVars, unsubVars, totals, process, history>>

(* Publish: a malformed event is refused; otherwise the WaitGroup is raised
   and the goroutine spawned. *)
Publish(e) ==
    /\ pub[e] = "idle"
    /\ \/ /\ ~Validate(e)
          /\ pub' = [pub EXCEPT ![e] = "done"]
          /\ UNCHANGED <<wg, publishedTotal, present>>
       \/ /\ Validate(e)
          /\ pub' = [pub EXCEPT ![e] = "spawned"]
          /\ publishedTotal' = publishedTotal + 1
          /\ wg' = wg \cup {e}
          /\ present' = [present EXCEPT ![e] = subscribers]
    /\ UNCHANGED <<busVars, chanVars, snapshot, cur, counts, unsubVars, deliveredTotal,
                   droppedTotal, process, sentTo, lostBy>>

(* publishAsync copies the subscriber map under the read lock. *)
Snapshot(e) ==
    /\ pub[e] = "spawned"
    /\ pub' = [pub EXCEPT ![e] = "loop"]
    /\ snapshot' = [snapshot EXCEPT ![e] = subscribers]
    /\ UNCHANGED <<busVars, chanVars, cur, counts, wg, unsubVars, totals, process, history>>

(* One turn of the delivery loop up to the select: a cancelled subscription
   and one whose filters reject the event are passed over. *)
Visit(e, s) ==
    /\ pub[e] = "loop" /\ s \in snapshot[e]
    /\ snapshot' = [snapshot EXCEPT ![e] = @ \ {s}]
    /\ IF s \notin cancelled /\ Matches(e, request[s])
       THEN /\ pub' = [pub EXCEPT ![e] = "send"]
            /\ cur' = [cur EXCEPT ![e] = s]
       ELSE UNCHANGED <<pub, cur>>
    /\ UNCHANGED <<busVars, chanVars, counts, wg, unsubVars, totals, process, history>>

(* The select over the send, the cancel channel and default.  Ready cases are
   chosen at random; default runs only if none is ready.  A send on a closed
   channel panics, and the deferred recover turns it into a skip. *)
Select(e) ==
    LET s == cur[e]
        Room == Len(ch[s]) < BufferSize
    IN  /\ pub[e] = "send"
        /\ \/ /\ s \notin closed /\ Room
              /\ ch' = [ch EXCEPT ![s] = Append(@, e)]
              /\ delivered' = [delivered EXCEPT ![e] = @ + 1]
              /\ sentTo' = [sentTo EXCEPT ![e] = @ \cup {s}]
              /\ UNCHANGED <<dropped, lostBy>>
           \/ /\ s \in closed \/ s \in cancelled
              /\ UNCHANGED <<ch, delivered, dropped, sentTo, lostBy>>
           \/ /\ s \notin closed /\ s \notin cancelled /\ ~Room
              /\ dropped' = [dropped EXCEPT ![e] = @ + 1]
              /\ lostBy' = [lostBy EXCEPT ![e] = @ \cup {s}]
              /\ UNCHANGED <<ch, delivered, sentTo>>
        /\ pub' = [pub EXCEPT ![e] = "loop"]
        /\ cur' = [cur EXCEPT ![e] = NoSub]
        /\ UNCHANGED <<busVars, cancelled, closed, snapshot, wg, unsubVars, totals,
                       process, present>>

(* End of publishAsync: add the local counters to the metrics, then wg.Done().
   Bringing the counter to zero releases every goroutine blocked in Wait. *)
Finish(e) ==
    /\ pub[e] = "loop" /\ snapshot[e] = {}
    /\ pub' = [pub EXCEPT ![e] = "done"]
    /\ deliveredTotal' = deliveredTotal + delivered[e]
    /\ droppedTotal' = droppedTotal + dropped[e]
    /\ wg' = wg \ {e}
    /\ unsub' = [c \in Callers |->
                    IF unsub[c] = "blocked" /\ wg' = {} THEN "woken" ELSE unsub[c]]
    /\ UNCHANGED <<busVars, chanVars, snapshot, cur, counts, target, publishedTotal, process, history>>

-----------------------------------------------------------------------------
(* Unsubscribe, first part: remove the entry under the lock.  A call for an
   ID that is not registered returns at once and changes nothing. *)
Unsubscribe(c, s) ==
    /\ unsub[c] = "idle" /\ s \in subscribers
    /\ subscribers' = subscribers \ {s}
    /\ subscribersTotal' = subscribersTotal - 1
    /\ unsub' = [unsub EXCEPT ![c] = "cancel"]
    /\ target' = [target EXCEPT ![c] = s]
    /\ UNCHANGED <<used, request, chanVars, pubVars, totals, process, history>>

(* close(sub.cancel); closing a closed channel panics. *)
CloseCancel(c) ==
    /\ unsub[c] = "cancel"
    /\ unsub' = [unsub EXCEPT ![c] = "wait"]
    /\ process' = IF target[c] \in cancelled THEN "panicked" ELSE "running"
    /\ cancelled' = cancelled \cup {target[c]}
    /\ UNCHANGED <<busVars, ch, closed, pubVars, target, totals, history>>

(* b.wg.Wait(): returns at once when the counter is zero, else blocks. *)
Wait(c) ==
    /\ unsub[c] = "wait"
    /\ unsub' = [unsub EXCEPT ![c] = IF wg = {} THEN "close" ELSE "blocked"]
    /\ UNCHANGED <<busVars, chanVars, pubVars, target, totals, process, history>>

(* A goroutine released from Wait runs again and re-checks the counter. *)
WaitReturns(c) ==
    /\ unsub[c] = "woken"
    /\ unsub' = [unsub EXCEPT ![c] = "close"]
    /\ process' = IF wg # {} THEN "panicked" ELSE "running"
    /\ UNCHANGED <<busVars, chanVars, pubVars, target, totals, history>>

(* close(sub.ch), the last thing Unsubscribe does. *)
CloseChannel(c) ==
    /\ unsub[c] = "close"
    /\ unsub' = [unsub EXCEPT ![c] = "idle"]
    /\ process' = IF target[c] \in closed THEN "panicked" ELSE "running"
    /\ closed' = closed \cup {target[c]}
    /\ UNCHANGED <<busVars, ch, cancelled, pubVars, target, totals, history>>

(* The Listen handler takes the next event off its channel and streams it. *)
Receive(s) ==
    /\ ch[s] # <<>>
    /\ ch' = [ch EXCEPT ![s] = Tail(@)]
    /\ UNCHANGED <<busVars, cancelled, closed, pubVars, unsubVars, totals, process, history>>

PublisherStep(e) == Snapshot(e) \/ (\E s \in Subs : Visit(e, s)) \/ Select(e) \/ Finish(e)
UnsubscribeStep(c) == CloseCancel(c) \/ Wait(c) \/ WaitReturns(c) \/ CloseChannel(c)

Next ==
    /\ process = "running"
    /\ \/ \E s \in Subs, r \in Requests : Subscribe(s, r)
       \/ \E e \in Events : Publish(e) \/ PublisherStep(e)
       \/ \E c \in Callers, s \in Subs : Unsubscribe(c, s)
       \/ \E c \in Callers : UnsubscribeStep(c)
       \/ \E s \in Subs : Receive(s)

Spec == Init /\ [][Next]_vars

(* Goroutines that can run are eventually scheduled.  Nothing obliges a client
   to read its stream, to subscribe or to unsubscribe. *)
Fairness ==
    /\ \A e \in Events : WF_vars(process = "running" /\ PublisherStep(e))
    /\ \A c \in Callers : WF_vars(process = "running" /\ UnsubscribeStep(c))

FairSpec == Spec /\ Fairness

-----------------------------------------------------------------------------
(* Types: the Go types of the bus, the program counters, and counters that
   are never negative although SubscribersTotal is decremented. *)
TypeOK ==
    /\ used \subseteq Subs /\ subscribers \subseteq used
    /\ request \in [Subs -> Requests]
    /\ ch \in [Subs -> Seq(Events)] /\ cancelled \subseteq used /\ closed \subseteq used
    /\ pub \in [Events -> InFlight \cup {"idle", "done"}]
    /\ snapshot \in [Events -> SUBSET Subs]
    /\ cur \in [Events -> Subs \cup {NoSub}]
    /\ delivered \in [Events -> Nat] /\ dropped \in [Events -> Nat]
    /\ wg \subseteq Events
    /\ unsub \in [Callers -> Removing \cup {"idle"}]
    /\ target \in [Callers -> Subs \cup {NoSub}]
    /\ publishedTotal \in Nat /\ deliveredTotal \in Nat
    /\ droppedTotal \in Nat /\ subscribersTotal \in Nat
    /\ process \in {"running", "panicked"}
    /\ present \in [Events -> SUBSET Subs]
    /\ sentTo \in [Events -> SUBSET Subs] /\ lostBy \in [Events -> SUBSET Subs]

(* bus.go:139-144 guards the send with a recover because "the channel might be
   closed".  The order remove, cancel, Wait, close makes that case impossible:
   no goroutine is ever at the select with a closed event channel, however
   many Unsubscribe calls overlap with it. *)
NoSendOnClosedChannel ==
    \A e \in Events : pub[e] = "send" => cur[e] \notin closed

(* Unsubscribe "is safe to call ... multiple times with the same ID": of any
   number of overlapping calls only one gets to close the cancel and the event
   channel, so neither close is ever reached for a channel already closed. *)
NoDoubleClose ==
    \A c \in Callers :
        /\ unsub[c] = "cancel" => target[c] \notin cancelled
        /\ unsub[c] \in Removing => target[c] \notin closed

(* e went to s, or its loss was counted, exactly if the filters of s match. *)
Settled(e, s) == s \in sentTo[e] \cup lostBy[e] <=> Matches(e, request[s])

(* Publish is lossy only where it says so: a subscription that was registered
   when the event was published and still is when its goroutine ends has the
   event in its channel or the loss in the counters, if its filters match. *)
NoSilentLoss ==
    \A e \in Events, s \in Subs :
        pub[e] = "done" /\ Validate(e) /\ s \in present[e] \cap subscribers
            => Settled(e, s)

(* Goroutine e may still send to s. *)
MayReach(e, s) == pub[e] \in {"loop", "send"} /\ (s \in snapshot[e] \/ (pub[e] = "send" /\ cur[e] = s))

(* What makes the two channel properties inductive: goroutines in flight are
   counted by the WaitGroup; a subscription being removed is out of the map and
   has one remover; once its remover is past Wait, or its channel is closed, no
   goroutine can reach it any more. *)
ChannelInv ==
    /\ \A e \in Events : pub[e] \in InFlight => e \in wg
    /\ \A c \in Callers : unsub[c] \in Removing =>
          /\ target[c] \in used \ subscribers
          /\ target[c] \notin closed
          /\ unsub[c] = "cancel" => target[c] \notin cancelled
          /\ unsub[c] \in {"woken", "close"} => \A e \in Events : ~MayReach(e, target[c])
    /\ \A c, d \in Callers :
          unsub[c] \in Removing /\ unsub[d] \in Removing /\ target[c] = target[d] => c = d
    /\ \A s \in cancelled : s \in used \ subscribers
    /\ \A s \in closed : s \in used \ subscribers /\ \A e \in Events : ~MayReach(e, s)

(* What makes NoSilentLoss inductive: until the loop is done with a
   subscription it is still in the snapshot or at the select, and only
   matching ones get to the select and past it. *)
LossInv ==
    /\ \A e \in Events :
          /\ present[e] \subseteq used /\ snapshot[e] \subseteq used
          /\ pub[e] = "idle" => present[e] = {}
          /\ pub[e] = "send" => cur[e] \in used /\ Matches(e, request[cur[e]])
          /\ \A s \in sentTo[e] \cup lostBy[e] : s \in used /\ Matches(e, request[s])
    /\ \A e \in Events, s \in Subs :
          s \in present[e] /\ s \in subscribers /\ pub[e] \in {"loop", "send", "done"} =>
              \/ pub[e] \in {"loop", "send"} /\ s \in snapshot[e]
              \/ pub[e] = "send" /\ cur[e] = s
              \/ Settled(e, s)

(* GetMetrics is exact whenever no publisher goroutine is in flight, and the
   gauge of subscribers is exact at all times. *)
MetricsExact ==
    /\ subscribersTotal = Cardinality(subscribers)
    /\ wg = {} =>
          /\ deliveredTotal = Cardinality({p \in Events \X Subs : p[2] \in sentTo[p[1]]})
          /\ droppedTotal = Cardinality({p \in Events \X Subs : p[2] \in lostBy[p[1]]})

(* No runtime panic: the bus "provides a thread-safe pub/sub mechanism"
   (bus.go:27), so no interleaving of its calls may take the process down. *)
NoPanic == process = "running"

(* Of the three panics the code could run into, two closes of a closed channel
   and the reuse of the WaitGroup, only the last can happen: a process that has
   died did so with a caller past Wait and a goroutine of a later Publish in
   flight. *)
PanicMeansReuse ==
    process = "panicked" => wg # {} /\ \E c \in Callers : unsub[c] = "close"

(* Whoever is blocked in Wait waits for a goroutine that is in flight: the
   WaitGroup counts exactly these, and the last Done leaves nobody asleep. *)
NoLostWakeup ==
    /\ wg = {e \in Events : pub[e] \in InFlight}
    /\ \A c \in Callers : unsub[c] = "blocked" => wg # {}

(* What a subscriber can see of the bus is a lossy broadcast: goroutines,
   snapshots, cancel channels and the WaitGroup are hidden. *)
Wanted == [s \in Subs |-> {e \in Events : Matches(e, request[s])}]
Phase == [e \in Events |-> IF pub[e] = "idle" THEN "new" ELSE IF pub[e] = "done" THEN "over" ELSE "open"]

Broadcast == INSTANCE LossyBroadcast WITH
    Size <- BufferSize,
    joined <- subscribers, ever <- used, gone <- closed, wants <- Wanted, inbox <- ch,
    phase <- Phase, audience <- present, got <- sentTo, lost <- lostBy

(* The bus implements it: every step is a step of the broadcast or changes
   nothing a subscriber can see. *)
ImplementsBroadcast == Broadcast!Spec

(* Neither Publish nor Unsubscribe hangs, with no fairness assumed of the
   consumers: a subscriber that never reads cannot hold up the goroutine of an
   event, and a call of Unsubscribe returns, although it waits for the
   goroutines of all events, also those that have nothing to do with it. *)
CallsReturn ==
    /\ \A e \in Events : pub[e] \in InFlight ~> (pub[e] = "done" \/ process = "panicked")
    /\ \A c \in Callers : unsub[c] \in Removing ~> (unsub[c] = "idle" \/ process = "panicked")
=============================================================================
