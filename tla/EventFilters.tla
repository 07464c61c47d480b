---------------------------- MODULE EventFilters ----------------------------
(***************************************************************************)
(* The subscription filters of server/events/filters.go and the            *)
(* well-formedness test of server/events/types.go, as pure operators.      *)
(*                                                                         *)
(* An event is a record with at least the fields type, resource and        *)
(* labels; a Listen request is a record [types, cids, labels] of sets (the *)
(* repeated protobuf fields, whose order and multiplicity no filter        *)
(* observes).  Identifiers are opaque; NoResource and Unspecified are the  *)
(* zero values.  strings.Contains is the constant relation LabelContains.  *)
(***************************************************************************)

CONSTANTS
    LabelContains,   \* set of pairs <<label, pattern>>: pattern occurs in label
    NoResource,      \* the empty ResourceID
    Unspecified      \* EVENT_TYPE_UNSPECIFIED

(* Event.Validate; NewEvent always fills ID and Timestamp. *)
Validate(e) == e.type # Unspecified /\ e.resource # NoResource

EventTypeFilter(e, types) == e.type \in types

CIDFilter(e, cids) == e.resource \in cids

(* Some requested pattern is a substring of some label of the event. *)
LabelFilter(e, patterns) ==
    \E l \in e.labels, p \in patterns : <<l, p>> \in LabelContains

(* BuildFilters: the names of the filters a request gives rise to; an empty
   field of the request contributes none. *)
BuildFilters(req) == { f \in DOMAIN req : req[f] # {} }

(* One filter of the list that BuildFilters returns, applied to an event. *)
Apply(f, e, req) ==
    \/ f = "types"  /\ EventTypeFilter(e, req.types)
    \/ f = "cids"   /\ CIDFilter(e, req.cids)
    \/ f = "labels" /\ LabelFilter(e, req.labels)

(* Matches: every filter of the list accepts the event. *)
Matches(e, req) == \A f \in BuildFilters(req) : Apply(f, e, req)
=============================================================================
