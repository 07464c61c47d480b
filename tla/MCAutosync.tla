----------------------------- MODULE MCAutosync ------------------------------
(***************************************************************************)
(* Small instances of Autosync: one valid and one invalid record, one      *)
(* allowed and one disallowed referrer, one trusted and one other peer.    *)
(***************************************************************************)
EXTENDS Autosync

CONSTANTS c1, c2, h1, h2, w1, w2

MCDescs == {[type |-> "signature", cid |-> "r1"], [type |-> "other", cid |-> "r2"]}
MCAllowedTypes == {"signature", "publickey", "scanreport"}
MCReferrers == [record : {c1, c2}, type : {"signature"}, cid : {"r1"}]
=============================================================================
