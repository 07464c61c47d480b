---------------------------- MODULE LossyBroadcast ----------------------------
(***************************************************************************)
(* What the event bus promises, without goroutines, locks, snapshots and   *)
(* the WaitGroup: each subscriber has an inbox of bounded size.  An event  *)
(* goes at most once into an inbox, only of a subscriber that wants it and *)
(* has not been dismissed; it may get lost only where the inbox is full;   *)
(* and before it is over, all that joined before it and are still there    *)
(* have got it or lost it, if they want it.                                *)
(***************************************************************************)
EXTENDS Naturals, Sequences

CONSTANTS Events, Subs, Size

VARIABLES
    joined,   \* subscribers that are there
    ever,     \* those that have ever been there
    gone,     \* those that are dismissed: nothing goes into their inbox any more
    wants,    \* wants[s]: the events s asked for when it joined
    inbox,    \* inbox[s]: what s has not read yet
    phase,    \* phase[e]: "new", "open" or "over"
    audience, \* audience[e]: who was there when e was published
    got,      \* got[e]: those that have been given e
    lost      \* lost[e]: those that had no room for e

members == <<joined, ever, gone, wants>>
vars == <<members, inbox, phase, audience, got, lost>>

Init ==
    /\ joined = {} /\ ever = {} /\ gone = {} /\ wants \in [Subs -> SUBSET Events]
    /\ inbox = [s \in Subs |-> <<>>] /\ phase = [e \in Events |-> "new"]
    /\ audience = [e \in Events |-> {}]
    /\ got = [e \in Events |-> {}] /\ lost = [e \in Events |-> {}]

Join(s, W) ==
    /\ s \notin ever
    /\ joined' = joined \cup {s} /\ ever' = ever \cup {s} /\ wants' = [wants EXCEPT ![s] = W]
    /\ UNCHANGED <<gone, inbox, phase, audience, got, lost>>

Leave(s) ==
    /\ s \in joined /\ joined' = joined \ {s}
    /\ UNCHANGED <<ever, gone, wants, inbox, phase, audience, got, lost>>

(* One that has left is dismissed, once. *)
Dismiss(s) ==
    /\ s \in ever \ (joined \cup gone) /\ gone' = gone \cup {s}
    /\ UNCHANGED <<joined, ever, wants, inbox, phase, audience, got, lost>>

Publish(e) ==
    /\ phase[e] = "new" /\ phase' = [phase EXCEPT ![e] = "open"]
    /\ audience' = [audience EXCEPT ![e] = joined]
    /\ UNCHANGED <<members, inbox, got, lost>>

Refuse(e) ==
    /\ phase[e] = "new" /\ phase' = [phase EXCEPT ![e] = "over"]
    /\ UNCHANGED <<members, inbox, audience, got, lost>>

(* e is for s, and s has neither been given it nor lost it. *)
Due(e, s) ==
    /\ phase[e] = "open" /\ s \in ever \ gone /\ e \in wants[s]
    /\ s \notin got[e] \cup lost[e]

Deliver(e, s) ==
    /\ Due(e, s) /\ Len(inbox[s]) < Size
    /\ inbox' = [inbox EXCEPT ![s] = Append(@, e)]
    /\ got' = [got EXCEPT ![e] = @ \cup {s}]
    /\ UNCHANGED <<members, phase, audience, lost>>

Lose(e, s) ==
    /\ Due(e, s) /\ Len(inbox[s]) >= Size
    /\ lost' = [lost EXCEPT ![e] = @ \cup {s}]
    /\ UNCHANGED <<members, inbox, phase, audience, got>>

(* Nobody who has been there all the time is passed over. *)
End(e) ==
    /\ phase[e] = "open" /\ phase' = [phase EXCEPT ![e] = "over"]
    /\ \A s \in audience[e] \cap joined : e \in wants[s] => s \in got[e] \cup lost[e]
    /\ UNCHANGED <<members, inbox, audience, got, lost>>

Read(s) ==
    /\ inbox[s] # <<>> /\ inbox' = [inbox EXCEPT ![s] = Tail(@)]
    /\ UNCHANGED <<members, phase, audience, got, lost>>

Next ==
    \/ \E s \in Subs, W \in SUBSET Events : Join(s, W)
    \/ \E s \in Subs : Leave(s) \/ Dismiss(s) \/ Read(s)
    \/ \E e \in Events : Publish(e) \/ Refuse(e) \/ End(e)
    \/ \E e \in Events, s \in Subs : Deliver(e, s) \/ Lose(e, s)

Spec == Init /\ [][Next]_vars
=============================================================================
