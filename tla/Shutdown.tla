------------------------------- MODULE Shutdown -------------------------------
(***************************************************************************)
(* The end of a daemon (cli/cmd/daemon/start.go, server/server.go): the    *)
(* reconciler is stopped, and then the services of the server one after    *)
(* the other, while their goroutines, remote peers and clients are still   *)
(* at work.                                                                *)
(*                                                                         *)
(* Each Stop tells its goroutines, through a context or a closed channel,  *)
(* and waits for them.  A goroutine looks at that between two pieces of    *)
(* work only, and a piece of work may block: announcing a record puts it   *)
(* into notifyCh (handler.AddProvider), a bounded channel that             *)
(* handleNotify empties, and that is itself among what is stopped.  The    *)
(* other goroutines of routing (label cleanup, peer tagging, autosync) and *)
(* the scheduler of the publication service have the loop of a task and    *)
(* announce nothing; they are left out.                                    *)
(*                                                                         *)
(* General names have the prefix Daemon: proofs about this module extend   *)
(* others too.                                                             *)
(***************************************************************************)
EXTENDS Naturals, FiniteSets

CONSTANTS
    Tasks,      \* tasks of the reconciler
    Workers,    \* workers of the publication service
    Listeners,  \* clients that listen to events
    NotifyCap,  \* NotificationChannelSize
    MaxCids     \* bound: CIDs of a publication, records of a republishing pass

ASSUME ShutdownConstants ==
    /\ NotifyCap \in Nat \ {0} /\ MaxCids \in Nat \ {0}
    /\ Tasks \cap Workers = {} /\ {"notify", "republish"} \cap (Tasks \cup Workers) = {}

VARIABLES
    main,      \* the service that is being stopped, or "serving", or "closed"
    parent,    \* the daemon's context is cancelled
    told,      \* the services whose goroutines have been told to stop
    host,      \* the p2p host and the DHT are open
    at,        \* at[g]: a goroutine is at its select, at work, at a send, or done
    cids,      \* cids[g]: what an announcing goroutine has still to announce
    notifyCh,  \* how many announcements are in the channel's buffer
    stream,    \* stream[l]: the Listen call of a client
    client     \* client[l]: the client is connected

daemonVars == <<main, parent, told, host, at, cids, notifyCh, stream, client>>
calls == <<stream, client>>

ServiceOf(g) ==
    CASE g \in Tasks -> "reconciler"
      [] g \in {"notify", "republish"} -> "routing"
      [] OTHER -> "publication"
Goroutines == Tasks \cup {"notify", "republish"} \cup Workers
Announcers == Workers \cup {"republish"}

(* Everything has been started; a task begins with a pass. *)
DaemonInit ==
    /\ main = "serving" /\ parent = FALSE /\ told = {} /\ host = TRUE
    /\ at = [g \in Goroutines |-> IF g \in Tasks THEN "work" ELSE "select"]
    /\ cids = [g \in Goroutines |-> 0] /\ notifyCh = 0
    /\ stream = [l \in Listeners |-> "none"] /\ client = [l \in Listeners |-> TRUE]

-----------------------------------------------------------------------------
(* A goroutine's loop around a select: a tick, a job or a notification gives it
   work, at the end of which it is back at the select.  With several cases
   ready a select takes any of them. *)
Begin(g) ==
    /\ at[g] = "select" /\ at' = [at EXCEPT ![g] = "work"]
    /\ cids' \in {[cids EXCEPT ![g] = n] : n \in IF g \in Announcers THEN 0..MaxCids ELSE {0}}
    /\ UNCHANGED <<main, parent, told, host, notifyCh, calls>>

Finish(g) ==
    /\ at[g] = "work" /\ cids[g] = 0
    /\ at' = [at EXCEPT ![g] = "select"]
    /\ UNCHANGED <<main, parent, told, host, cids, notifyCh, calls>>

(* A wrong variant, for the mutants: the select looks at the context only. *)
QuitOnContext(g) ==
    /\ at[g] = "select" /\ parent
    /\ at' = [at EXCEPT ![g] = "done"]
    /\ UNCHANGED <<main, parent, told, host, cids, notifyCh, calls>>

(* The case of the select for the context, the routing one being a child of the
   daemon's, or for the closed channel. *)
Quit(g) ==
    /\ at[g] = "select" /\ (parent \/ ServiceOf(g) \in told)
    /\ at' = [at EXCEPT ![g] = "done"]
    /\ UNCHANGED <<main, parent, told, host, cids, notifyCh, calls>>

runTask(t) == Begin(t) \/ Finish(t) \/ Quit(t)
StartLabelRepublishTask == Begin("republish") \/ Finish("republish") \/ Quit("republish")
WorkerRun(w) == Begin(w) \/ Finish(w) \/ Quit(w)

(* handleNotify takes from the channel. *)
TakeNotification ==
    /\ at["notify"] = "select" /\ notifyCh > 0
    /\ at' = [at EXCEPT !["notify"] = "work"] /\ notifyCh' = notifyCh - 1
    /\ UNCHANGED <<main, parent, told, host, cids, calls>>

handleNotify == TakeNotification \/ Finish("notify") \/ Quit("notify")

(* The next record of a publication or of a republishing pass is announced, or
   that fails before anything is sent (no peers, an error).  The loop hands the
   context on and does not look at it. *)
Announce(g) ==
    /\ at[g] = "work" /\ cids[g] > 0
    /\ \/ at' = [at EXCEPT ![g] = "send"] /\ UNCHANGED cids
       \/ cids' = [cids EXCEPT ![g] = @ - 1] /\ UNCHANGED at
    /\ UNCHANGED <<main, parent, told, host, notifyCh, calls>>

(* handleCIDProviderAnnouncement: a plain send; the node's own announcements are
   sent as well. *)
Send(g) ==
    /\ at[g] = "send" /\ notifyCh < NotifyCap
    /\ notifyCh' = notifyCh + 1
    /\ at' = [at EXCEPT ![g] = "work"] /\ cids' = [cids EXCEPT ![g] = @ - 1]
    /\ UNCHANGED <<main, parent, told, host, calls>>

(* A remote peer announces.  The DHT's goroutine waits if the channel is full;
   nothing waits for that goroutine. *)
RemoteAnnouncement ==
    /\ host /\ notifyCh < NotifyCap
    /\ notifyCh' = notifyCh + 1
    /\ UNCHANGED <<main, parent, told, host, at, cids, calls>>

-----------------------------------------------------------------------------
(* eventsCtlr.Listen, of a client that is accepted until GracefulStop *)
Listen(l) ==
    /\ stream[l] = "none" /\ client[l] /\ main \notin {"grpc", "closed"}
    /\ stream' = [stream EXCEPT ![l] = "select"]
    /\ UNCHANGED <<main, parent, told, host, at, cids, notifyCh, client>>

(* An event that matches is sent to the client, who may be slow to take it. *)
TakeEvent(l) ==
    /\ stream[l] = "select" /\ stream' = [stream EXCEPT ![l] = "send"]
    /\ UNCHANGED <<main, parent, told, host, at, cids, notifyCh, client>>

EventTaken(l) ==
    /\ stream[l] = "send" /\ client[l] /\ stream' = [stream EXCEPT ![l] = "select"]
    /\ UNCHANGED <<main, parent, told, host, at, cids, notifyCh, client>>

(* A wrong variant, for the mutants: only a failing Send ends the call. *)
EndListenOnSend(l) ==
    /\ stream[l] = "send" /\ ~client[l]
    /\ stream' = [stream EXCEPT ![l] = "ended"]
    /\ UNCHANGED <<main, parent, told, host, at, cids, notifyCh, client>>

(* The context of the stream is done, or Send fails; Listen unsubscribes. *)
EndListen(l) ==
    /\ stream[l] \in {"select", "send"} /\ ~client[l]
    /\ stream' = [stream EXCEPT ![l] = "ended"]
    /\ UNCHANGED <<main, parent, told, host, at, cids, notifyCh, client>>

Disconnect(l) ==
    /\ client[l] /\ client' = [client EXCEPT ![l] = FALSE]
    /\ UNCHANGED <<main, parent, told, host, at, cids, notifyCh, stream>>

-----------------------------------------------------------------------------
(* wg.Wait of a service *)
Stopped(s) == \A g \in Goroutines : ServiceOf(g) = s => at[g] = "done"

Tell(s) == main' = s /\ told' = told \cup {s}

(* runStart returns, after a signal or because its context is cancelled. *)
StopReconciler ==
    /\ main = "serving" /\ Tell("reconciler")
    /\ parent' \in BOOLEAN
    /\ UNCHANGED <<host, at, cids, notifyCh, calls>>

(* Close: health checks, events (where Stop does nothing) and metrics, then the
   routing service. *)
StopRouting ==
    /\ main = "reconciler" /\ Stopped("reconciler") /\ Tell("routing")
    /\ UNCHANGED <<parent, host, at, cids, notifyCh, calls>>

(* A wrong variant, for the mutants: the host is closed and the next service is
   stopped without a wait. *)
StopPublicationAtOnce ==
    /\ main = "routing" /\ Tell("publication")
    /\ host' \in BOOLEAN
    /\ UNCHANGED <<parent, at, cids, notifyCh, calls>>

(* The routing service has stopped; if GossipSub cannot be closed the host is
   left open. *)
StopPublication ==
    /\ main = "routing" /\ Stopped("routing") /\ Tell("publication")
    /\ host' \in BOOLEAN
    /\ UNCHANGED <<parent, at, cids, notifyCh, calls>>

GracefulStop ==
    /\ main = "publication" /\ Stopped("publication")
    /\ main' = "grpc"
    /\ UNCHANGED <<parent, told, host, at, cids, notifyCh, calls>>

(* GracefulStop waits for the calls there are. *)
Closed ==
    /\ main = "grpc" /\ \A l \in Listeners : stream[l] \in {"none", "ended"}
    /\ main' = "closed"
    /\ UNCHANGED <<parent, told, host, at, cids, notifyCh, calls>>

Close == StopReconciler \/ StopRouting \/ StopPublication \/ GracefulStop \/ Closed

Loops ==
    \/ \E t \in Tasks : runTask(t)
    \/ handleNotify \/ StartLabelRepublishTask
    \/ \E w \in Workers : WorkerRun(w)
    \/ \E g \in Announcers : Announce(g) \/ Send(g)

DaemonNext ==
    \/ Close \/ Loops \/ RemoteAnnouncement
    \/ \E l \in Listeners : Listen(l) \/ TakeEvent(l) \/ EventTaken(l) \/ EndListen(l) \/ Disconnect(l)

DaemonSpec == DaemonInit /\ [][DaemonNext]_daemonVars

(* Every piece of work ends; a select that comes to a ready case again and again
   takes it some time, and senders are served in turn (strong fairness).  Nothing
   makes a client read or disconnect. *)
DaemonFairness ==
    /\ WF_daemonVars(StopRouting \/ StopPublication \/ GracefulStop \/ Closed)
    /\ \A g \in Goroutines : WF_daemonVars(Finish(g)) /\ SF_daemonVars(Quit(g))
    /\ WF_daemonVars(TakeNotification)
    /\ \A g \in Announcers : WF_daemonVars(Announce(g)) /\ SF_daemonVars(Send(g))
    /\ \A l \in Listeners : WF_daemonVars(EndListen(l))

DaemonFairSpec == DaemonSpec /\ DaemonFairness
-----------------------------------------------------------------------------
(* Close leaves nothing behind: a service is stopped only when the goroutines of
   the ones before it are done, and when Close returns no goroutine is at work
   and no Listen call is open. *)
ClosedIsQuiet ==
    /\ main \in {"routing", "publication", "grpc", "closed"} => Stopped("reconciler")
    /\ main \in {"publication", "grpc", "closed"} => Stopped("routing")
    /\ main \in {"grpc", "closed"} => Stopped("publication")
    /\ main = "closed" => \A l \in Listeners : stream[l] \in {"none", "ended"}
    /\ ~host => Stopped("routing")

(* A goroutine stands at its send, the channel is full, and the handler that
   would read it has gone. *)
Jammed ==
    /\ at["notify"] = "done" /\ notifyCh = NotifyCap
    /\ \E g \in Announcers : at[g] = "send"

(* GracefulStop waits for a client that stays: nothing tells the Listen calls. *)
Held == main = "grpc" /\ \E l \in Listeners : client[l] /\ stream[l] \in {"select", "send"}

(* The next step of goroutine g, or of the notification handler, can be taken. *)
CanMove(g) ==
    \/ at[g] = "select" /\ (parent \/ ServiceOf(g) \in told)
    \/ at[g] = "work" /\ (cids[g] = 0 \/ g \in Announcers)
    \/ at[g] = "send" /\ notifyCh < NotifyCap
HandlerCanMove ==
    \/ at["notify"] = "work" /\ cids["notify"] = 0
    \/ at["notify"] = "select" /\ notifyCh > 0

(* Nobody Close waits for waits for Close: while a service is being stopped, each
   of its goroutines that is not done can take a step towards its select, or the
   handler can make room for it.  Jammed is the only other state there is. *)
NoThirdWait ==
    main \in {"reconciler", "routing", "publication"} =>
       \A g \in Goroutines :
          ServiceOf(g) = main /\ at[g] # "done" => CanMove(g) \/ HandlerCanMove \/ Jammed

(* Close returns whatever the goroutines were doing when it began.  There are two
   exceptions, and no third: an announcement that stands at the channel the
   notification handler no longer reads (wg.Wait of routing or publication), and
   a listener that does not disconnect (GracefulStop; eventService.Stop closes no
   subscription). *)
CloseReturns == main = "reconciler" ~> main = "closed" \/ Jammed \/ Held

(* The Listen call of a client that has gone ends, also when no event matches its
   filters and nothing is ever sent to it. *)
ListenEnds == \A l \in Listeners : ~client[l] ~> stream[l] \in {"none", "ended"}

-----------------------------------------------------------------------------
(* Types; only what announces has CIDs to announce and comes to a send. *)
DaemonTypeOK ==
    /\ main \in {"serving", "reconciler", "routing", "publication", "grpc", "closed"}
    /\ main \in {"reconciler", "routing", "publication"} => main \in told
    /\ parent \in BOOLEAN /\ host \in BOOLEAN
    /\ at \in [Goroutines -> {"select", "work", "send", "done"}]
    /\ cids \in [Goroutines -> 0..MaxCids] /\ notifyCh \in 0..NotifyCap
    /\ \A g \in Goroutines : g \notin Announcers => cids[g] = 0 /\ at[g] # "send"
    /\ \A g \in Goroutines : at[g] = "send" => cids[g] > 0
    /\ stream \in [Listeners -> {"none", "select", "send", "ended"}]
    /\ client \in [Listeners -> BOOLEAN]
=============================================================================
