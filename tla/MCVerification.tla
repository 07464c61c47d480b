---------------------------- MODULE MCVerification ----------------------------
(***************************************************************************)
(* Small instances of Verification for TLC: a record whose name cannot be  *)
(* verified, with two signers; and one whose name can, signed by a key.    *)
(***************************************************************************)
EXTENDS Verification

CONSTANTS key, oidc, c1

MCInit == Init /\ offered = (IF http THEN KeySigners ELSE Signers)
MCSpec == MCInit /\ [][Next]_vars /\ Fairness
=============================================================================
