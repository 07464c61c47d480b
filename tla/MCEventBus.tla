----------------------------- MODULE MCEventBus -----------------------------
(***************************************************************************)
(* Small instances of EventBus for TLC.                                    *)
(***************************************************************************)
EXTENDS EventBus, TLC

CONSTANTS e1, e2, e3, s1, s2, c1, c2

(* A labelled push, a deletion without labels, and a malformed event. *)
Event(i, t, r, ls) == [id |-> i, type |-> t, resource |-> r, labels |-> ls]
MCEvents2 == { Event(e1, "PUSHED", "cid1", {"/skills/AI/ML"}),
               Event(e2, "DELETED", "cid1", {}) }
MCEvents3 == MCEvents2 \cup { Event(e3, "PUSHED", NoResource, {}) }
MCContains == { <<"/skills/AI/ML", "AI">>, <<"/skills/AI/ML", "/skills/AI">> }

(* Everything; pushes with a label containing "AI". *)
MCRequests == { [types |-> {}, cids |-> {}, labels |-> {}],
                [types |-> {"PUSHED", "DELETED"}, cids |-> {"cid1"}, labels |-> {"AI"}] }
MCOneRequest == { [types |-> {}, cids |-> {}, labels |-> {}] }
=============================================================================
