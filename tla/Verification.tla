----------------------------- MODULE Verification -----------------------------
(***************************************************************************)
(* Verification of one record: the signatures and public keys attached to  *)
(* it as referrers (server/store/oci/referrers.go, server/ingest), and the *)
(* rows in which the reconciler's signature and name tasks keep what they  *)
(* have verified (reconciler/tasks/signature, reconciler/tasks/name,       *)
(* server/database/gorm/signature.go and naming.go).                       *)
(*                                                                         *)
(* Pushing a signature or a key stores it, marks the record as signed and  *)
(* deletes the signature rows, in three calls.  A task selects the record  *)
(* when its rows are missing or older than the TTL, reads the referrers,   *)
(* and writes rows one by one; each call is a step.  A row is "fresh"      *)
(* until the TTL has passed.  Records do not share any of this state, so   *)
(* the model has one, which may be deleted and pushed again.               *)
(***************************************************************************)
EXTENDS Naturals

CONSTANTS
    Signers,     \* those who may sign the record
    KeySigners,  \* signers with a key pair: verified with an attached public key
    Clients,     \* concurrent callers of PushReferrer
    MaxFaults    \* bound: failing calls and restarts of the reconciler

ASSUME VerificationConstants == KeySigners \subseteq Signers /\ MaxFaults \in Nat

VARIABLES
    offered,         \* signers that act in this behaviour
    http,            \* the record's name begins with http:// or https://
    present,         \* the record is in the content store
    indexed, signed, \* its row in the search database, and the row's signed flag
    sigs, keys,      \* signature and public key referrers in the store
    sig, fresh,      \* signature_verifications: status by signer; rows within the TTL
    name, nameFresh, \* name_verifications
    cpc,             \* cpc[c]: what is left of a client's PushReferrer
    rpc,             \* a Push or Delete of the record itself
    spc, got, todo,  \* the signature task: next step, verified signers, rows to write
    npc, verdict,    \* the name task: next step, result to store
    faults,
    raced            \* history: rows or calls were lost while the signature task worked

storeVars == <<present, sigs, keys>>
rowVars == <<indexed, signed, sig, fresh>>
nameRowVars == <<name, nameFresh>>
sigTask == <<spc, got, todo>>
nameTask == <<npc, verdict>>
vars == <<offered, http, storeVars, rowVars, nameRowVars, cpc, rpc, sigTask, nameTask, faults, raced>>

NoRows == [s \in Signers |-> "none"]

Init ==
    /\ offered \in SUBSET Signers /\ http \in BOOLEAN
    /\ present = FALSE /\ indexed = FALSE /\ signed = FALSE
    /\ sigs = {} /\ keys = {}
    /\ sig = NoRows /\ fresh = {} /\ name = "none" /\ nameFresh = FALSE
    /\ cpc = [c \in Clients |-> "idle"] /\ rpc = "idle"
    /\ spc = "idle" /\ got = {} /\ todo = {}
    /\ npc = "idle" /\ verdict = "none"
    /\ faults = 0 /\ raced = FALSE

Fault == faults < MaxFaults /\ faults' = faults + 1

(* cosign: a key signature needs its public key, the others carry a bundle. *)
VerifiedWith(ss, ks) == {s \in ss : s \in KeySigners => s \in ks}
Verifiable(s) == s \in VerifiedWith(sigs, keys)

(* The signature task has read referrers whose results it is still to write. *)
Working == spc \in {"keys", "write", "list", "fail"}

-----------------------------------------------------------------------------
(* Mutants, each before the definition it deviates from. *)

(* The foreign keys do not cascade. *)
RemoveRecordOnly ==
    /\ rpc = "unindex" /\ rpc' = "idle"
    /\ indexed' = FALSE /\ signed' = FALSE
    /\ raced' = (raced \/ Working)
    /\ UNCHANGED <<offered, http, storeVars, sig, fresh, nameRowVars, cpc, sigTask, nameTask, faults>>

(* A public key does not invalidate the rows. *)
PushPublicKeySilently(c, s) ==
    /\ cpc[c] = "idle" /\ present
    /\ keys' = keys \cup {s}
    /\ UNCHANGED <<offered, http, present, sigs, rowVars, nameRowVars, cpc, rpc, sigTask, nameTask, faults, raced>>

(* Only records without any row are selected, expired rows are not. *)
SelectOnlyNew ==
    /\ spc = "idle" /\ indexed /\ signed /\ sig = NoRows
    /\ spc' = "pull"
    /\ UNCHANGED <<offered, http, storeVars, rowVars, nameRowVars, cpc, rpc, got, todo, nameTask, faults, raced>>

(* Rows of signers that are no longer found are left as they are. *)
ListNoOthers ==
    /\ spc = "list"
    /\ todo' = {} /\ spc' = "fail"
    /\ UNCHANGED <<offered, http, storeVars, rowVars, nameRowVars, cpc, rpc, got, nameTask, faults, raced>>

(* A name's result is only ever updated. *)
LookUpNameNot ==
    /\ npc = "lookup" /\ npc' = "update"
    /\ UNCHANGED <<offered, http, storeVars, rowVars, nameRowVars, cpc, rpc, sigTask, verdict, faults, raced>>

-----------------------------------------------------------------------------
(* Push of the record: the store, then AddRecord, which leaves an existing row
   alone and creates a new one unsigned. *)
PushRecord ==
    /\ rpc = "idle"
    /\ present' = TRUE /\ rpc' = "index"
    /\ UNCHANGED <<offered, http, sigs, keys, rowVars, nameRowVars, cpc, sigTask, nameTask, faults, raced>>

AddRecord ==
    /\ rpc = "index" /\ rpc' = "idle"
    /\ \/ indexed' = TRUE /\ UNCHANGED faults
       \/ Fault /\ UNCHANGED indexed
    /\ UNCHANGED <<offered, http, storeVars, signed, sig, fresh, nameRowVars, cpc, sigTask, nameTask, raced>>

(* Deletion of the record: the store first; a local directory deletes the
   referrers with it, a registry may keep them. *)
DeleteRecord ==
    /\ rpc = "idle"
    /\ present' = FALSE /\ rpc' = "unindex"
    /\ sigs' \in {sigs, {}} /\ keys' \in {keys, {}}
    /\ UNCHANGED <<offered, http, rowVars, nameRowVars, cpc, sigTask, nameTask, faults, raced>>

(* RemoveRecord: the foreign keys delete the rows of the verifications, too. *)
RemoveRecord ==
    /\ rpc = "unindex" /\ rpc' = "idle"
    /\ \/ /\ indexed' = FALSE /\ signed' = FALSE
          /\ sig' = NoRows /\ fresh' = {} /\ name' = "none" /\ nameFresh' = FALSE
          /\ UNCHANGED faults
       \/ Fault /\ UNCHANGED <<rowVars, nameRowVars>>
    /\ raced' = (raced \/ Working)
    /\ UNCHANGED <<offered, http, storeVars, cpc, sigTask, nameTask>>

(* PushReferrer stores a signature ... *)
PushSignature(c, s) ==
    /\ cpc[c] = "idle" /\ present
    /\ sigs' = sigs \cup {s}
    /\ cpc' = [cpc EXCEPT ![c] = "sign"]
    /\ UNCHANGED <<offered, http, present, keys, rowVars, nameRowVars, rpc, sigTask, nameTask, faults, raced>>

(* ... or a public key ... *)
PushPublicKey(c, s) ==
    /\ cpc[c] = "idle" /\ present
    /\ keys' = keys \cup {s}
    /\ cpc' = [cpc EXCEPT ![c] = "invalidate"]
    /\ UNCHANGED <<offered, http, present, sigs, rowVars, nameRowVars, rpc, sigTask, nameTask, faults, raced>>

(* ... and applyReferrerDBEffects marks the record as signed, if it has a row ... *)
SetRecordSigned(c) ==
    /\ cpc[c] = "sign"
    /\ cpc' = [cpc EXCEPT ![c] = "invalidate"]
    /\ \/ signed' = indexed /\ UNCHANGED faults
       \/ Fault /\ UNCHANGED signed
    /\ UNCHANGED <<offered, http, storeVars, indexed, sig, fresh, nameRowVars, rpc, sigTask, nameTask, raced>>

(* ... and deletes the signature rows.  A failure is only logged. *)
InvalidateSignatureVerifications(c) ==
    /\ cpc[c] = "invalidate"
    /\ cpc' = [cpc EXCEPT ![c] = "idle"]
    /\ \/ sig' = NoRows /\ fresh' = {} /\ raced' = (raced \/ Working) /\ UNCHANGED faults
       \/ Fault /\ raced' = TRUE /\ UNCHANGED <<sig, fresh>>
    /\ UNCHANGED <<offered, http, storeVars, indexed, signed, nameRowVars, rpc, sigTask, nameTask>>

(* DeleteReferrer touches the store only. *)
DeleteReferrer(s) ==
    /\ present
    /\ \/ s \in sigs /\ sigs' = sigs \ {s} /\ UNCHANGED keys
       \/ s \in keys /\ keys' = keys \ {s} /\ UNCHANGED sigs
    /\ UNCHANGED <<offered, http, present, rowVars, nameRowVars, cpc, rpc, sigTask, nameTask, faults, raced>>

(* The TTL of a row passes. *)
ExpireSignature(s) ==
    /\ s \in fresh
    /\ fresh' = fresh \ {s}
    /\ UNCHANGED <<offered, http, storeVars, indexed, signed, sig, nameRowVars, cpc, rpc, sigTask, nameTask, faults, raced>>

ExpireName ==
    /\ nameFresh
    /\ nameFresh' = FALSE
    /\ UNCHANGED <<offered, http, storeVars, rowVars, name, cpc, rpc, sigTask, nameTask, faults, raced>>

-----------------------------------------------------------------------------
(* The signature task.  GetRecordsNeedingSignatureVerification: signed, and no
   row is fresh. *)
SelectForSignatures ==
    /\ spc = "idle" /\ indexed /\ signed /\ fresh = {}
    /\ spc' = "pull"
    /\ UNCHANGED <<offered, http, storeVars, rowVars, nameRowVars, cpc, rpc, got, todo, nameTask, faults, raced>>

(* PullSignatures.  An error ends the verification and leaves the rows; no
   signature at all is a result without signers. *)
PullSignatures ==
    /\ spc = "pull"
    /\ raced' = FALSE
    /\ \/ present /\ got' = sigs /\ spc' = (IF sigs = {} THEN "list" ELSE "keys") /\ UNCHANGED faults
       \/ ~present /\ got' = {} /\ spc' = "idle" /\ UNCHANGED faults
       \/ Fault /\ got' = {} /\ spc' = "idle"
    /\ UNCHANGED <<offered, http, storeVars, rowVars, nameRowVars, cpc, rpc, todo, nameTask>>

(* PullPublicKeys, then each signature is verified; one that fails is passed
   over.  Fetching what OIDC bundles are verified against may fail. *)
VerifySignatures ==
    /\ spc = "keys"
    /\ \/ present /\ got' = VerifiedWith(got, keys) /\ todo' = got' /\ spc' = "write" /\ UNCHANGED <<faults, raced>>
       \/ present /\ Fault /\ got' = VerifiedWith(got, keys) \cap KeySigners /\ todo' = got' /\ spc' = "write" /\ raced' = TRUE
       \/ ~present /\ got' = {} /\ spc' = "idle" /\ UNCHANGED <<todo, faults, raced>>
       \/ Fault /\ got' = {} /\ spc' = "idle" /\ UNCHANGED <<todo, raced>>
    /\ UNCHANGED <<offered, http, storeVars, rowVars, nameRowVars, cpc, rpc, nameTask>>

(* UpsertSignatureVerification: the foreign key wants the record's row. *)
UpsertSignatureVerification(s) ==
    /\ spc = "write" /\ s \in todo
    /\ todo' = todo \ {s}
    /\ \/ indexed /\ sig' = [sig EXCEPT ![s] = "verified"] /\ fresh' = fresh \cup {s} /\ UNCHANGED <<faults, raced>>
       \/ ~indexed /\ raced' = TRUE /\ UNCHANGED <<sig, fresh, faults>>
       \/ Fault /\ raced' = TRUE /\ UNCHANGED <<sig, fresh>>
    /\ UNCHANGED <<offered, http, storeVars, indexed, signed, nameRowVars, cpc, rpc, spc, got, nameTask>>

EndOfResults ==
    /\ spc = "write" /\ todo = {}
    /\ spc' = "list"
    /\ UNCHANGED <<offered, http, storeVars, rowVars, nameRowVars, cpc, rpc, got, todo, nameTask, faults, raced>>

(* GetSignatureVerificationsByRecordCID: the rows whose signer is not in the
   results are to be marked as failed. *)
ListOthers ==
    /\ spc = "list"
    /\ \/ todo' = {s \in Signers : sig[s] # "none"} \ got /\ spc' = "fail" /\ UNCHANGED <<got, faults>>
       \/ Fault /\ spc' = "idle" /\ got' = {} /\ UNCHANGED todo
    /\ UNCHANGED <<offered, http, storeVars, rowVars, nameRowVars, cpc, rpc, nameTask, raced>>

(* UpdateSignatureVerification: of a row that is still there. *)
MarkFailed(s) ==
    /\ spc = "fail" /\ s \in todo
    /\ todo' = todo \ {s}
    /\ \/ sig[s] # "none" /\ sig' = [sig EXCEPT ![s] = "failed"] /\ fresh' = fresh \cup {s} /\ UNCHANGED faults
       \/ sig[s] = "none" /\ UNCHANGED <<sig, fresh, faults>>
       \/ Fault /\ UNCHANGED <<sig, fresh>>
    /\ UNCHANGED <<offered, http, storeVars, indexed, signed, nameRowVars, cpc, rpc, spc, got, nameTask, raced>>

EndOfVerification ==
    /\ spc = "fail" /\ todo = {}
    /\ spc' = "idle" /\ got' = {}
    /\ UNCHANGED <<offered, http, storeVars, rowVars, nameRowVars, cpc, rpc, todo, nameTask, faults, raced>>

-----------------------------------------------------------------------------
(* The name task.  GetRecordsNeedingVerification: signed, with a verifiable
   name, and the row missing or expired. *)
SelectForName ==
    /\ npc = "idle" /\ http /\ indexed /\ signed /\ ~nameFresh
    /\ npc' = "keys"
    /\ UNCHANGED <<offered, http, storeVars, rowVars, nameRowVars, cpc, rpc, sigTask, verdict, faults, raced>>

(* verifyNameOwnership: whether the domain names one of the attached keys is
   decided outside; without a key, or with an error, the result is a failure. *)
VerifyNameOwnership ==
    /\ npc = "keys"
    /\ verdict' \in (IF present /\ keys # {} THEN {"verified", "failed"} ELSE {"failed"})
    /\ npc' = "lookup"
    /\ UNCHANGED <<offered, http, storeVars, rowVars, nameRowVars, cpc, rpc, sigTask, faults, raced>>

(* storeNameVerificationResult: GetVerificationByCID decides ... *)
LookUpName ==
    /\ npc = "lookup"
    /\ \/ npc' = (IF name = "none" THEN "create" ELSE "update") /\ UNCHANGED <<verdict, faults>>
       \/ Fault /\ npc' = "idle" /\ verdict' = "none"
    /\ UNCHANGED <<offered, http, storeVars, rowVars, nameRowVars, cpc, rpc, sigTask, raced>>

(* ... between an insert, which needs the record's row and no other result ... *)
CreateNameVerification ==
    /\ npc = "create" /\ npc' = "idle" /\ verdict' = "none"
    /\ \/ indexed /\ name = "none" /\ name' = verdict /\ nameFresh' = TRUE /\ UNCHANGED faults
       \/ ~(indexed /\ name = "none") /\ UNCHANGED <<nameRowVars, faults>>
       \/ Fault /\ UNCHANGED nameRowVars
    /\ UNCHANGED <<offered, http, storeVars, rowVars, cpc, rpc, sigTask, raced>>

(* ... and an update, which fails if the row is gone. *)
UpdateNameVerification ==
    /\ npc = "update" /\ npc' = "idle" /\ verdict' = "none"
    /\ \/ name # "none" /\ name' = verdict /\ nameFresh' = TRUE /\ UNCHANGED faults
       \/ name = "none" /\ UNCHANGED <<nameRowVars, faults>>
       \/ Fault /\ UNCHANGED nameRowVars
    /\ UNCHANGED <<offered, http, storeVars, rowVars, cpc, rpc, sigTask, raced>>

(* The reconciler dies and is started again. *)
Restart ==
    /\ Fault
    /\ spc' = "idle" /\ got' = {} /\ todo' = {} /\ npc' = "idle" /\ verdict' = "none"
    /\ raced' = (raced \/ Working)
    /\ UNCHANGED <<offered, http, storeVars, rowVars, nameRowVars, cpc, rpc>>

-----------------------------------------------------------------------------
RecordStep == AddRecord \/ RemoveRecord
ClientStep(c) == SetRecordSigned(c) \/ InvalidateSignatureVerifications(c)
SignatureStep ==
    \/ SelectForSignatures \/ PullSignatures \/ VerifySignatures
    \/ \E s \in Signers : UpsertSignatureVerification(s) \/ MarkFailed(s)
    \/ EndOfResults \/ ListOthers \/ EndOfVerification
NameStep ==
    \/ SelectForName \/ VerifyNameOwnership \/ LookUpName
    \/ CreateNameVerification \/ UpdateNameVerification

Next ==
    \/ PushRecord \/ DeleteRecord \/ RecordStep
    \/ \E c \in Clients, s \in offered : PushSignature(c, s)
    \/ \E c \in Clients, s \in offered \cap KeySigners : PushPublicKey(c, s)
    \/ \E c \in Clients : ClientStep(c)
    \/ \E s \in Signers : DeleteReferrer(s) \/ ExpireSignature(s)
    \/ ExpireName \/ SignatureStep \/ NameStep \/ Restart

Spec == Init /\ [][Next]_vars

(* RPCs that have begun end, time passes, and each task runs at every tick. *)
Fairness ==
    /\ WF_vars(RecordStep) /\ \A c \in Clients : WF_vars(ClientStep(c))
    /\ \A s \in Signers : WF_vars(ExpireSignature(s))
    /\ WF_vars(ExpireName) /\ WF_vars(SignatureStep) /\ WF_vars(NameStep)

FairSpec == Spec /\ Fairness

-----------------------------------------------------------------------------
(* Types. *)
FlagsOK ==
    /\ http \in BOOLEAN /\ present \in BOOLEAN /\ indexed \in BOOLEAN /\ signed \in BOOLEAN
    /\ nameFresh \in BOOLEAN /\ raced \in BOOLEAN
TypeOK ==
    /\ FlagsOK /\ offered \subseteq Signers
    /\ sigs \subseteq Signers /\ keys \subseteq KeySigners
    /\ sig \in [Signers -> {"none", "verified", "failed"}] /\ fresh \subseteq Signers
    /\ name \in {"none", "verified", "failed"}
    /\ cpc \in [Clients -> {"idle", "sign", "invalidate"}]
    /\ rpc \in {"idle", "index", "unindex"}
    /\ spc \in {"idle", "pull", "keys", "write", "list", "fail"}
    /\ got \subseteq Signers /\ todo \subseteq Signers
    /\ npc \in {"idle", "keys", "lookup", "create", "update"}
    /\ verdict \in {"none", "verified", "failed"}
    /\ faults \in Nat

(* No result outlives the record's row: a deletion takes the rows of both
   tasks with it, and a task that was at work on the record meanwhile cannot
   write its results afterwards (record.go:63-64, task.go:164, naming.go:78). *)
RowsNeedRecord ==
    ~indexed => ~signed /\ sig = NoRows /\ fresh = {} /\ name = "none" /\ ~nameFresh

(* "Invalidate cached signature verifications when a signature or public key is
   added so the reconciler re-verifies the record and picks up all signers"
   (ingest.go:123): while rows are fresh, and so keep the record from being
   verified, no attached signer is missing from them.  That is so unless the
   invalidation met the task between its reading and its writing; then the rows
   it writes hide the new signer until they expire (task.go:112). *)
CompleteUnlessRaced ==
    spc = "idle" /\ (\A c \in Clients : cpc[c] = "idle") /\ ~raced /\ fresh # {}
        => \A s \in Signers : Verifiable(s) => sig[s] = "verified"

(* Inductive form: what the task has read or written already covers every
   signer attached, step by step through the pass. *)
Quiet == (\A c \in Clients : cpc[c] = "idle") /\ ~raced
CompleteInv ==
    /\ spc \in {"pull", "keys"} => fresh = {}
    /\ spc \in {"idle", "pull"} /\ Quiet /\ fresh # {} => \A s \in Signers : Verifiable(s) => sig[s] = "verified"
    /\ spc = "keys" /\ Quiet => sigs \subseteq got
    /\ spc = "write" /\ Quiet => \A s \in Signers : Verifiable(s) => s \in got /\ (s \in todo \/ sig[s] = "verified")
    /\ spc \in {"list", "fail"} /\ Quiet => \A s \in Signers : Verifiable(s) => s \in got /\ sig[s] = "verified"
    /\ spc = "fail" => todo \cap got = {}

(* Even so every attached signer is found verified in the end: none stays attached
   and not verified for ever. *)
SignersArrive ==
    \A s \in Signers : []<>(Verifiable(s) /\ signed /\ present => sig[s] = "verified")

(* DeleteReferrer leaves the rows alone, yet a signer whose signature or key is
   gone does not stay verified: "any existing row whose signer is not in this
   run's results is no longer verified" (task.go:169). *)
TrustEnds ==
    \A s \in Signers : []<>(~Verifiable(s) /\ signed /\ present => sig[s] # "verified")

(* Its safety part: if nothing fails, a pass that is about to end has left as
   verified only signers that it found, whatever was pushed, deleted or
   invalidated while it worked. *)
OnlyFoundStayVerified ==
    faults = 0 /\ spc = "fail" => \A s \in Signers : sig[s] = "verified" => s \in got \cup todo

(* Nothing is verified out of thin air: the verified signers are among those who
   acted, and a verified name has the form of a URL and somebody with a key pair,
   through all failures, restarts and races of the two tasks. *)
OnlySignersAreVerified ==
    /\ \A s \in Signers : sig[s] = "verified" => s \in offered
    /\ name = "verified" => http /\ offered \cap KeySigners # {}

(* What makes it inductive: referrers come from those who act, and so does all
   the tasks carry from step to step. *)
ProvenanceInv ==
    /\ OnlySignersAreVerified
    /\ sigs \cup keys \cup got \subseteq offered /\ (spc = "write" => todo \subseteq offered)
    /\ npc # "idle" => http
    /\ verdict = "verified" => offered \cap KeySigners # {}

(* A signed record with a verifiable name gets a result, and a new one whenever
   the last has expired, whatever happens to its row between the look-up and
   the write (name/task.go:153). *)
NamesAreChecked == []<>(http /\ indexed /\ signed => nameFresh)
=============================================================================
