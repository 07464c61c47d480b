--------------------------- MODULE ReconcilerProofs ---------------------------
(***************************************************************************)
(* Proofs about the tasks of the reconciler and the end of the daemon that *)
(* runs them: three modules that share no state.  Verification, for any    *)
(* signers, clients and number of failing calls and restarts: no result    *)
(* outlives the record's row, fresh signature rows name every attached     *)
(* signer unless an invalidation met the task at work, a pass withdraws    *)
(* the trust in signers it has not found, and nobody is verified who takes *)
(* no part.  RegSync, for any number of syncs, clients, failing calls and *)
(* restarts: the passes of the task do not overlap, COMPLETED is earned,   *)
(* IN_PROGRESS rows are worked on until something fails, and a deleted     *)
(* sync is not created again.  Shutdown, for any number of tasks, workers  *)
(* and listeners and any capacity of the channel: services stop in turn,   *)
(* and Close waits in vain only at the channel nobody reads any more.      *)
(***************************************************************************)
EXTENDS Verification, RegSync, Shutdown, TLAPS

USE VerificationConstants DEF storeVars, rowVars, nameRowVars, sigTask, nameTask

(* The flags are Boolean: the actions assign constants, other flags and tests. *)
LEMMA NextFlags == ASSUME FlagsOK, [Next]_vars  PROVE FlagsOK'
<1> USE DEF FlagsOK
<1>1. ASSUME RecordStep \/ PushRecord \/ DeleteRecord PROVE FlagsOK'
  BY ZenonT(60), <1>1 DEF RecordStep, PushRecord, DeleteRecord, AddRecord, RemoveRecord, Working
<1>2. ASSUME NEW c \in Clients, NEW s, PushSignature(c, s) \/ PushPublicKey(c, s) \/ ClientStep(c)
      PROVE  FlagsOK'
  BY ZenonT(60), <1>2 DEF PushSignature, PushPublicKey, ClientStep, SetRecordSigned,
                          InvalidateSignatureVerifications, Working
<1>3. ASSUME NEW s \in Signers, DeleteReferrer(s) \/ ExpireSignature(s) PROVE FlagsOK'
  BY ZenonT(60), <1>3 DEF DeleteReferrer, ExpireSignature
<1>4. CASE SignatureStep
  BY ZenonT(60), <1>4 DEF SignatureStep, SelectForSignatures, PullSignatures, VerifySignatures,
     UpsertSignatureVerification, MarkFailed, EndOfResults, ListOthers, EndOfVerification
<1>5. CASE NameStep
  BY ZenonT(60), <1>5 DEF NameStep, SelectForName, VerifyNameOwnership, LookUpName,
     CreateNameVerification, UpdateNameVerification
<1>6. CASE ExpireName \/ Restart \/ UNCHANGED vars
  BY ZenonT(60), <1>6 DEF ExpireName, Restart, Working, vars
<1> QED
  BY ZenonT(60), <1>1, <1>2, <1>3, <1>4, <1>5, <1>6 DEF Next

(* Every action keeps the types. *)
LEMMA NextTypes == ASSUME TypeOK, [Next]_vars  PROVE TypeOK'
<1> USE DEF TypeOK, NoRows
<1>a. FlagsOK'
  BY NextFlags
<1>1. CASE PushRecord
  BY <1>a, <1>1 DEF PushRecord
<1>2. CASE AddRecord
  BY <1>a, <1>2 DEF AddRecord, Fault
<1>3. CASE DeleteRecord
  BY <1>a, <1>3 DEF DeleteRecord
<1>4. CASE RemoveRecord
  BY <1>a, <1>4 DEF RemoveRecord, Fault, Working
<1>5. ASSUME NEW c \in Clients, NEW s \in Signers, PushSignature(c, s) PROVE TypeOK'
  BY <1>a, <1>5 DEF PushSignature
<1>6. ASSUME NEW c \in Clients, NEW s \in KeySigners, PushPublicKey(c, s) PROVE TypeOK'
  BY <1>a, <1>6 DEF PushPublicKey
<1>7. ASSUME NEW c \in Clients, SetRecordSigned(c) PROVE TypeOK'
  BY <1>a, <1>7 DEF SetRecordSigned, Fault
<1>8. ASSUME NEW c \in Clients, InvalidateSignatureVerifications(c) PROVE TypeOK'
  BY <1>a, <1>8 DEF InvalidateSignatureVerifications, Fault, Working
<1>9. ASSUME NEW s \in Signers, DeleteReferrer(s) PROVE TypeOK'
  BY <1>a, <1>9 DEF DeleteReferrer
<1>10. ASSUME NEW s \in Signers, ExpireSignature(s) PROVE TypeOK'
  BY <1>a, <1>10 DEF ExpireSignature
<1>11. CASE ExpireName
  BY <1>a, <1>11 DEF ExpireName
<1>12. CASE SelectForSignatures
  BY <1>a, <1>12 DEF SelectForSignatures
<1>13. CASE PullSignatures
  BY <1>a, <1>13 DEF PullSignatures, Fault
<1>14. CASE VerifySignatures
  BY <1>a, <1>14 DEF VerifySignatures, Fault, VerifiedWith
<1>15. ASSUME NEW s \in Signers, UpsertSignatureVerification(s) PROVE TypeOK'
  BY <1>a, <1>15 DEF UpsertSignatureVerification, Fault
<1>16. CASE EndOfResults
  BY <1>a, <1>16 DEF EndOfResults
<1>17. CASE ListOthers
  BY <1>a, <1>17 DEF ListOthers, Fault
<1>18. ASSUME NEW s \in Signers, MarkFailed(s) PROVE TypeOK'
  BY <1>a, <1>18 DEF MarkFailed, Fault
<1>19. CASE EndOfVerification
  BY <1>a, <1>19 DEF EndOfVerification
<1>20. CASE SelectForName
  BY <1>a, <1>20 DEF SelectForName
<1>21. CASE VerifyNameOwnership
  BY <1>a, <1>21 DEF VerifyNameOwnership
<1>22. CASE LookUpName
  BY <1>a, <1>22 DEF LookUpName, Fault
<1>23. CASE CreateNameVerification
  BY <1>a, <1>23 DEF CreateNameVerification, Fault
<1>24. CASE UpdateNameVerification
  BY <1>a, <1>24 DEF UpdateNameVerification, Fault
<1>25. CASE Restart
  BY <1>a, <1>25 DEF Restart, Fault, Working
<1>26. CASE UNCHANGED vars
  BY <1>a, <1>26 DEF vars
<1>0. offered \subseteq Signers
  BY DEF TypeOK
<1> QED
  BY <1>0, <1>1, <1>2, <1>3, <1>4, <1>5, <1>6, <1>7, <1>8, <1>9, <1>10, <1>11, <1>12, <1>13,
     <1>14, <1>15, <1>16, <1>17, <1>18, <1>19, <1>20, <1>21, <1>22, <1>23, <1>24, <1>25, <1>26
  DEF Next, RecordStep, ClientStep, SignatureStep, NameStep

(* Every action keeps rows away from a record that is not indexed: what the tasks
   write, they write to an existing row or under the foreign key. *)
LEMMA NextRows == ASSUME TypeOK, RowsNeedRecord, [Next]_vars  PROVE RowsNeedRecord'
<1> USE DEF TypeOK, FlagsOK, RowsNeedRecord, NoRows
<1>1. CASE PushRecord
  BY <1>1 DEF PushRecord
<1>2. CASE AddRecord
  BY <1>2 DEF AddRecord, Fault
<1>3. CASE DeleteRecord
  BY <1>3 DEF DeleteRecord
<1>4. CASE RemoveRecord
  BY <1>4 DEF RemoveRecord, Fault, Working
<1>5. ASSUME NEW c \in Clients, NEW s \in Signers, PushSignature(c, s) PROVE RowsNeedRecord'
  BY <1>5 DEF PushSignature
<1>6. ASSUME NEW c \in Clients, NEW s \in KeySigners, PushPublicKey(c, s) PROVE RowsNeedRecord'
  BY <1>6 DEF PushPublicKey
<1>7. ASSUME NEW c \in Clients, SetRecordSigned(c) PROVE RowsNeedRecord'
  BY <1>7 DEF SetRecordSigned, Fault
<1>8. ASSUME NEW c \in Clients, InvalidateSignatureVerifications(c) PROVE RowsNeedRecord'
  BY <1>8 DEF InvalidateSignatureVerifications, Fault, Working
<1>9. ASSUME NEW s \in Signers, DeleteReferrer(s) PROVE RowsNeedRecord'
  BY <1>9 DEF DeleteReferrer
<1>10. ASSUME NEW s \in Signers, ExpireSignature(s) PROVE RowsNeedRecord'
  BY <1>10 DEF ExpireSignature
<1>11. CASE ExpireName
  BY <1>11 DEF ExpireName
<1>12. CASE SelectForSignatures
  BY <1>12 DEF SelectForSignatures
<1>13. CASE PullSignatures
  BY <1>13 DEF PullSignatures, Fault
<1>14. CASE VerifySignatures
  BY <1>14 DEF VerifySignatures, Fault, VerifiedWith
<1>15. ASSUME NEW s \in Signers, UpsertSignatureVerification(s) PROVE RowsNeedRecord'
  BY <1>15 DEF UpsertSignatureVerification, Fault
<1>16. CASE EndOfResults
  BY <1>16 DEF EndOfResults
<1>17. CASE ListOthers
  BY <1>17 DEF ListOthers, Fault
<1>18. ASSUME NEW s \in Signers, MarkFailed(s) PROVE RowsNeedRecord'
  BY <1>18 DEF MarkFailed, Fault
<1>19. CASE EndOfVerification
  BY <1>19 DEF EndOfVerification
<1>20. CASE SelectForName
  BY <1>20 DEF SelectForName
<1>21. CASE VerifyNameOwnership
  BY <1>21 DEF VerifyNameOwnership
<1>22. CASE LookUpName
  BY <1>22 DEF LookUpName, Fault
<1>23. CASE CreateNameVerification
  BY <1>23 DEF CreateNameVerification, Fault
<1>24. CASE UpdateNameVerification
  BY <1>24 DEF UpdateNameVerification, Fault
<1>25. CASE Restart
  BY <1>25 DEF Restart, Fault, Working
<1>26. CASE UNCHANGED vars
  BY <1>26 DEF vars
<1>0. offered \subseteq Signers
  BY DEF TypeOK
<1> QED
  BY <1>0, <1>1, <1>2, <1>3, <1>4, <1>5, <1>6, <1>7, <1>8, <1>9, <1>10, <1>11, <1>12, <1>13,
     <1>14, <1>15, <1>16, <1>17, <1>18, <1>19, <1>20, <1>21, <1>22, <1>23, <1>24, <1>25, <1>26
  DEF Next, RecordStep, ClientStep, SignatureStep, NameStep

(* Every action keeps what the task has read or written complete. *)
LEMMA NextComplete == ASSUME TypeOK, CompleteInv, [Next]_vars  PROVE CompleteInv'
<1> USE DEF TypeOK, FlagsOK, CompleteInv, Quiet, Verifiable, VerifiedWith, NoRows
<1>1. CASE PushRecord
  BY <1>1 DEF PushRecord
<1>2. CASE AddRecord
  BY <1>2 DEF AddRecord, Fault
<1>3. CASE DeleteRecord
  BY <1>3 DEF DeleteRecord
<1>4. CASE RemoveRecord
  BY <1>4 DEF RemoveRecord, Fault, Working
<1>5. ASSUME NEW c \in Clients, NEW s \in Signers, PushSignature(c, s) PROVE CompleteInv'
  BY <1>5 DEF PushSignature
<1>6. ASSUME NEW c \in Clients, NEW s \in KeySigners, PushPublicKey(c, s) PROVE CompleteInv'
  BY <1>6 DEF PushPublicKey
<1>7. ASSUME NEW c \in Clients, SetRecordSigned(c) PROVE CompleteInv'
  BY <1>7 DEF SetRecordSigned, Fault
<1>8. ASSUME NEW c \in Clients, InvalidateSignatureVerifications(c) PROVE CompleteInv'
  BY <1>8 DEF InvalidateSignatureVerifications, Fault, Working
<1>9. ASSUME NEW s \in Signers, DeleteReferrer(s) PROVE CompleteInv'
  BY <1>9 DEF DeleteReferrer
<1>10. ASSUME NEW s \in Signers, ExpireSignature(s) PROVE CompleteInv'
  BY <1>10 DEF ExpireSignature
<1>11. CASE ExpireName
  BY <1>11 DEF ExpireName
<1>12. CASE SelectForSignatures
  BY <1>12 DEF SelectForSignatures
<1>13. CASE PullSignatures
  BY <1>13 DEF PullSignatures, Fault
<1>14. CASE VerifySignatures
  BY <1>14 DEF VerifySignatures, Fault, VerifiedWith
<1>15. ASSUME NEW s \in Signers, UpsertSignatureVerification(s) PROVE CompleteInv'
  BY <1>15 DEF UpsertSignatureVerification, Fault
<1>16. CASE EndOfResults
  BY <1>16 DEF EndOfResults
<1>17. CASE ListOthers
  BY <1>17 DEF ListOthers, Fault
<1>18. ASSUME NEW s \in Signers, MarkFailed(s) PROVE CompleteInv'
  BY <1>18 DEF MarkFailed, Fault
<1>19. CASE EndOfVerification
  BY <1>19 DEF EndOfVerification
<1>20. CASE SelectForName
  BY <1>20 DEF SelectForName
<1>21. CASE VerifyNameOwnership
  BY <1>21 DEF VerifyNameOwnership
<1>22. CASE LookUpName
  BY <1>22 DEF LookUpName, Fault
<1>23. CASE CreateNameVerification
  BY <1>23 DEF CreateNameVerification, Fault
<1>24. CASE UpdateNameVerification
  BY <1>24 DEF UpdateNameVerification, Fault
<1>25. CASE Restart
  BY <1>25 DEF Restart, Fault, Working
<1>26. CASE UNCHANGED vars
  BY <1>26 DEF vars
<1>0. offered \subseteq Signers
  BY DEF TypeOK
<1> QED
  BY <1>0, <1>1, <1>2, <1>3, <1>4, <1>5, <1>6, <1>7, <1>8, <1>9, <1>10, <1>11, <1>12, <1>13,
     <1>14, <1>15, <1>16, <1>17, <1>18, <1>19, <1>20, <1>21, <1>22, <1>23, <1>24, <1>25, <1>26
  DEF Next, RecordStep, ClientStep, SignatureStep, NameStep

(* Every action keeps the signers to be marked as failed in sight. *)
LEMMA NextFound == ASSUME TypeOK, OnlyFoundStayVerified, [Next]_vars  PROVE OnlyFoundStayVerified'
<1> USE DEF TypeOK, OnlyFoundStayVerified, NoRows, Fault
<1>1. CASE PushRecord
  BY <1>1 DEF PushRecord
<1>2. CASE AddRecord
  BY <1>2 DEF AddRecord
<1>3. CASE DeleteRecord
  BY <1>3 DEF DeleteRecord
<1>4. CASE RemoveRecord
  BY <1>4 DEF RemoveRecord, Working
<1>5. ASSUME NEW c \in Clients, NEW s \in Signers, PushSignature(c, s) PROVE OnlyFoundStayVerified'
  BY <1>5 DEF PushSignature
<1>6. ASSUME NEW c \in Clients, NEW s \in KeySigners, PushPublicKey(c, s) PROVE OnlyFoundStayVerified'
  BY <1>6 DEF PushPublicKey
<1>7. ASSUME NEW c \in Clients, SetRecordSigned(c) PROVE OnlyFoundStayVerified'
  BY <1>7 DEF SetRecordSigned
<1>8. ASSUME NEW c \in Clients, InvalidateSignatureVerifications(c) PROVE OnlyFoundStayVerified'
  BY <1>8 DEF InvalidateSignatureVerifications, Working
<1>9. ASSUME NEW s \in Signers, DeleteReferrer(s) PROVE OnlyFoundStayVerified'
  BY <1>9 DEF DeleteReferrer
<1>10. ASSUME NEW s \in Signers, ExpireSignature(s) PROVE OnlyFoundStayVerified'
  BY <1>10 DEF ExpireSignature
<1>11. CASE ExpireName
  BY <1>11 DEF ExpireName
<1>12. CASE SelectForSignatures
  BY <1>12 DEF SelectForSignatures
<1>13. CASE PullSignatures
  BY <1>13 DEF PullSignatures
<1>14. CASE VerifySignatures
  BY <1>14 DEF VerifySignatures, VerifiedWith
<1>15. ASSUME NEW s \in Signers, UpsertSignatureVerification(s) PROVE OnlyFoundStayVerified'
  BY <1>15 DEF UpsertSignatureVerification
<1>16. CASE EndOfResults
  BY <1>16 DEF EndOfResults
<1>17. CASE ListOthers
  BY <1>17 DEF ListOthers
<1>18. ASSUME NEW s \in Signers, MarkFailed(s) PROVE OnlyFoundStayVerified'
  BY <1>18 DEF MarkFailed
<1>19. CASE EndOfVerification
  BY <1>19 DEF EndOfVerification
<1>20. CASE SelectForName
  BY <1>20 DEF SelectForName
<1>21. CASE VerifyNameOwnership
  BY <1>21 DEF VerifyNameOwnership
<1>22. CASE LookUpName
  BY <1>22 DEF LookUpName
<1>23. CASE CreateNameVerification
  BY <1>23 DEF CreateNameVerification
<1>24. CASE UpdateNameVerification
  BY <1>24 DEF UpdateNameVerification
<1>25. CASE Restart
  BY <1>25 DEF Restart, Working
<1>26. CASE UNCHANGED vars
  BY <1>26 DEF vars
<1>0. offered \subseteq Signers
  BY DEF TypeOK
<1> QED
  BY <1>0, <1>1, <1>2, <1>3, <1>4, <1>5, <1>6, <1>7, <1>8, <1>9, <1>10, <1>11, <1>12, <1>13,
     <1>14, <1>15, <1>16, <1>17, <1>18, <1>19, <1>20, <1>21, <1>22, <1>23, <1>24, <1>25, <1>26
  DEF Next, RecordStep, ClientStep, SignatureStep, NameStep

(* Every action verifies only those who acted. *)
LEMMA NextProvenance == ASSUME TypeOK, ProvenanceInv, [Next]_vars  PROVE ProvenanceInv'
<1> USE DEF TypeOK, ProvenanceInv, OnlySignersAreVerified, NoRows, Fault
<1>1. CASE PushRecord
  BY <1>1 DEF PushRecord
<1>2. CASE AddRecord
  BY <1>2 DEF AddRecord
<1>3. CASE DeleteRecord
  BY <1>3 DEF DeleteRecord
<1>4. CASE RemoveRecord
  BY <1>4 DEF RemoveRecord, Working
<1>5. ASSUME NEW c \in Clients, NEW s \in offered, PushSignature(c, s) PROVE ProvenanceInv'
  BY <1>5 DEF PushSignature
<1>6. ASSUME NEW c \in Clients, NEW s \in offered \cap KeySigners, PushPublicKey(c, s) PROVE ProvenanceInv'
  BY <1>6 DEF PushPublicKey
<1>7. ASSUME NEW c \in Clients, SetRecordSigned(c) PROVE ProvenanceInv'
  BY <1>7 DEF SetRecordSigned
<1>8. ASSUME NEW c \in Clients, InvalidateSignatureVerifications(c) PROVE ProvenanceInv'
  BY <1>8 DEF InvalidateSignatureVerifications, Working
<1>9. ASSUME NEW s \in Signers, DeleteReferrer(s) PROVE ProvenanceInv'
  BY <1>9 DEF DeleteReferrer
<1>10. ASSUME NEW s \in Signers, ExpireSignature(s) PROVE ProvenanceInv'
  BY <1>10 DEF ExpireSignature
<1>11. CASE ExpireName
  BY <1>11 DEF ExpireName
<1>12. CASE SelectForSignatures
  BY <1>12 DEF SelectForSignatures
<1>13. CASE PullSignatures
  BY <1>13 DEF PullSignatures
<1>14. CASE VerifySignatures
  BY <1>14 DEF VerifySignatures, VerifiedWith
<1>15. ASSUME NEW s \in Signers, UpsertSignatureVerification(s) PROVE ProvenanceInv'
  BY <1>15 DEF UpsertSignatureVerification
<1>16. CASE EndOfResults
  BY <1>16 DEF EndOfResults
<1>17. CASE ListOthers
  BY <1>17 DEF ListOthers
<1>18. ASSUME NEW s \in Signers, MarkFailed(s) PROVE ProvenanceInv'
  BY <1>18 DEF MarkFailed
<1>19. CASE EndOfVerification
  BY <1>19 DEF EndOfVerification
<1>20. CASE SelectForName
  BY <1>20 DEF SelectForName
<1>21. CASE VerifyNameOwnership
  BY <1>21 DEF VerifyNameOwnership
<1>22. CASE LookUpName
  BY <1>22 DEF LookUpName
<1>23. CASE CreateNameVerification
  BY <1>23 DEF CreateNameVerification
<1>24. CASE UpdateNameVerification
  BY <1>24 DEF UpdateNameVerification
<1>25. CASE Restart
  BY <1>25 DEF Restart, Working
<1>26. CASE UNCHANGED vars
  BY <1>26 DEF vars
<1>0. offered \subseteq Signers
  BY DEF TypeOK
<1> QED
  BY <1>0, <1>1, <1>2, <1>3, <1>4, <1>5, <1>6, <1>7, <1>8, <1>9, <1>10, <1>11, <1>12, <1>13,
     <1>14, <1>15, <1>16, <1>17, <1>18, <1>19, <1>20, <1>21, <1>22, <1>23, <1>24, <1>25, <1>26
  DEF Next, RecordStep, ClientStep, SignatureStep, NameStep

(* The invariant holds in every reachable state. *)
THEOREM Invariant == Spec => [](TypeOK /\ RowsNeedRecord /\ CompleteInv)
<1>1. Init => TypeOK /\ RowsNeedRecord /\ CompleteInv
  <2>1. Init => FlagsOK
    BY ZenonT(60) DEF Init, FlagsOK
  <2> QED
    BY <2>1 DEF Init, TypeOK, RowsNeedRecord, CompleteInv, NoRows
<1>2. TypeOK /\ RowsNeedRecord /\ CompleteInv /\ [Next]_vars => (TypeOK /\ RowsNeedRecord /\ CompleteInv)'
  BY NextTypes, NextRows, NextComplete
<1> QED  BY <1>1, <1>2, PTL DEF Spec

(* Rows, referrers and tasks keep their types. *)
THEOREM TypeCorrect == Spec => []TypeOK
  BY Invariant, PTL

(* A deletion of the record is a deletion of everything verified about it, even
   if a task is at work on the record at that moment. *)
THEOREM ResultsGoWithTheRecord == Spec => []RowsNeedRecord
  BY Invariant, PTL

(* Signature rows that keep the record from being verified again are complete,
   unless rows or calls were lost while the task worked. *)
THEOREM NoSignerIsHidden == Spec => []CompleteUnlessRaced
<1>1. CompleteInv => CompleteUnlessRaced
  BY DEF CompleteInv, CompleteUnlessRaced, Quiet
<1> QED  BY <1>1, Invariant, PTL

(* A pass withdraws the trust in every signer that it has not found. *)
THEOREM TrustIsWithdrawn == Spec => []OnlyFoundStayVerified
<1>1. Init => OnlyFoundStayVerified
  BY DEF Init, OnlyFoundStayVerified
<1>2. TypeOK /\ OnlyFoundStayVerified /\ [Next]_vars => OnlyFoundStayVerified'
  BY NextFound
<1> QED  BY <1>1, <1>2, TypeCorrect, PTL DEF Spec

(* Only signers are verified, and names only where there is a key. *)
THEOREM TrustHasASource == Spec => []OnlySignersAreVerified
<1>1. Init => ProvenanceInv
  BY DEF Init, ProvenanceInv, OnlySignersAreVerified, NoRows
<1>2. TypeOK /\ ProvenanceInv /\ [Next]_vars => ProvenanceInv'
  BY NextProvenance
<1>3. ProvenanceInv => OnlySignersAreVerified
  BY DEF ProvenanceInv
<1> QED  BY <1>1, <1>2, <1>3, TypeCorrect, PTL DEF Spec

-----------------------------------------------------------------------------
(* The regsync task, which runs beside the verification tasks and shares no state
   with them. *)

(* The inductive invariant: RecreateInv keeps writers away from DELETED rows; a
   goroutine that will write COMPLETED has seen its command succeed. *)
SyncInv ==
    /\ SyncTypeOK
    /\ RecreateInv
    /\ \A s \in Syncs : wpc[s] = "succeeded" => s \in mirrored
    /\ CompletedMeansMirrored
    /\ InProgressIsActive

USE DEF Statuses

(* The empty database satisfies the invariant. *)
LEMMA SyncStarts == SyncInit => SyncInv
  BY DEF SyncInit, SyncInv, SyncTypeOK, RecreateInv, PassesDoNotOverlap,
         CompletedMeansMirrored, InProgressIsActive

(* Every action keeps the types. *)
LEMMA SyncTypes == ASSUME SyncTypeOK, [SyncNext]_syncVars  PROVE SyncTypeOK'
<1>1. ASSUME NEW s \in Syncs, CreateSync(s) PROVE SyncTypeOK'
  BY <1>1 DEF SyncTypeOK, CreateSync
<1>2. ASSUME NEW s \in Syncs, ProcessSyncDeletion(s) PROVE SyncTypeOK'
  BY <1>2 DEF SyncTypeOK, ProcessSyncDeletion, UpdateSyncStatus, DbFault
<1>3. ASSUME NEW s \in Syncs, MarkInProgress(s) PROVE SyncTypeOK'
  BY <1>3 DEF SyncTypeOK, MarkInProgress, UpdateSyncStatus, DbFault
<1>4. ASSUME NEW s \in Syncs, RunWorker(s) PROVE SyncTypeOK'
  BY <1>4 DEF SyncTypeOK, RunWorker
<1>5. ASSUME NEW s \in Syncs, Record(s) PROVE SyncTypeOK'
  BY <1>5 DEF SyncTypeOK, Record, UpdateSyncStatus, DbFault
<1>6. ASSUME NEW c \in SyncClients, NEW s \in Syncs, DeleteSyncCheck(c, s) PROVE SyncTypeOK'
  BY <1>6 DEF SyncTypeOK, DeleteSyncCheck
<1>7. ASSUME NEW c \in SyncClients, DeleteSyncMark(c) PROVE SyncTypeOK'
  BY <1>7 DEF SyncTypeOK, DeleteSyncMark, UpdateSyncStatus, DbFault
<1>8. CASE PassDeletions
  BY <1>8 DEF SyncTypeOK, PassDeletions, DbFault
<1>9. CASE PassCreations
  BY <1>9 DEF SyncTypeOK, PassCreations, DbFault
<1>10. CASE EndPass
  BY <1>10 DEF SyncTypeOK, EndPass
<1>11. CASE Crash
  BY <1>11 DEF SyncTypeOK, Crash
<1>12. CASE UNCHANGED syncVars
  BY ZenonT(60), <1>12 DEF SyncTypeOK, syncVars
<1> QED
  BY <1>1, <1>2, <1>3, <1>4, <1>5, <1>6, <1>7, <1>8, <1>9, <1>10, <1>11, <1>12
  DEF SyncNext, SyncStep, PassStep

(* Every action keeps the invariant. *)
LEMMA SyncKeeps == ASSUME SyncInv, [SyncNext]_syncVars  PROVE SyncInv'
<1> USE DEF SyncInv, SyncTypeOK, RecreateInv, PassesDoNotOverlap,
            CompletedMeansMirrored, InProgressIsActive
<1>0. SyncTypeOK'
  BY SyncTypes
<1>1. ASSUME NEW s \in Syncs, CreateSync(s) PROVE SyncInv'
  BY <1>0, <1>1 DEF CreateSync
<1>2. ASSUME NEW s \in Syncs, ProcessSyncDeletion(s) PROVE SyncInv'
  BY <1>0, <1>2 DEF ProcessSyncDeletion, UpdateSyncStatus, DbFault
<1>3. ASSUME NEW s \in Syncs, MarkInProgress(s) PROVE SyncInv'
  BY <1>0, <1>3 DEF MarkInProgress, UpdateSyncStatus, DbFault
<1>4. ASSUME NEW s \in Syncs, RunWorker(s) PROVE SyncInv'
  BY <1>0, <1>4 DEF RunWorker
<1>5. ASSUME NEW s \in Syncs, Record(s) PROVE SyncInv'
  BY <1>0, <1>5 DEF Record, UpdateSyncStatus, DbFault
<1>6. ASSUME NEW c \in SyncClients, NEW s \in Syncs, DeleteSyncCheck(c, s) PROVE SyncInv'
  BY <1>0, <1>6 DEF DeleteSyncCheck
<1>7. ASSUME NEW c \in SyncClients, DeleteSyncMark(c) PROVE SyncInv'
  BY <1>0, <1>7 DEF DeleteSyncMark, UpdateSyncStatus, DbFault
<1>8. CASE PassDeletions
  BY <1>0, <1>8 DEF PassDeletions, DbFault
<1>9. CASE PassCreations
  BY <1>0, <1>9 DEF PassCreations, DbFault
<1>10. CASE EndPass
  BY <1>0, <1>10 DEF EndPass
<1>11. CASE Crash
  BY <1>0, <1>11 DEF Crash
<1>12. CASE UNCHANGED syncVars
  BY <1>0, <1>12 DEF syncVars
<1> QED
  BY <1>1, <1>2, <1>3, <1>4, <1>5, <1>6, <1>7, <1>8, <1>9, <1>10, <1>11, <1>12
  DEF SyncNext, SyncStep, PassStep

(* Under the invariant nothing but a late DeleteSync writes to a DELETED row. *)
LEMMA DeletedStep ==
  ASSUME SyncInv, [SyncNext]_syncVars, NEW s \in Syncs, status[s] = "DELETED"
  PROVE  status'[s] \in {"DELETED", "DELETE_PENDING"}
<1> USE DEF SyncInv, SyncTypeOK, RecreateInv
<1>1. ASSUME NEW t \in Syncs, CreateSync(t) \/ SyncStep(t)
      PROVE  status'[s] \in {"DELETED", "DELETE_PENDING"}
  BY <1>1 DEF CreateSync, SyncStep, ProcessSyncDeletion, MarkInProgress, RunWorker,
              Record, UpdateSyncStatus
<1>2. ASSUME NEW c \in SyncClients, DeleteSyncMark(c)
      PROVE  status'[s] \in {"DELETED", "DELETE_PENDING"}
  BY <1>2 DEF DeleteSyncMark, UpdateSyncStatus
<1>3. ASSUME NEW c \in SyncClients, NEW t \in Syncs, DeleteSyncCheck(c, t)
      PROVE  status'[s] \in {"DELETED", "DELETE_PENDING"}
  BY <1>3 DEF DeleteSyncCheck
<1>4. ASSUME PassStep \/ Crash \/ UNCHANGED syncVars
      PROVE  status'[s] \in {"DELETED", "DELETE_PENDING"}
  BY <1>4 DEF PassStep, PassDeletions, PassCreations, EndPass, Crash, syncVars
<1> QED
  BY <1>1, <1>2, <1>3, <1>4 DEF SyncNext

(* The invariant holds in every reachable state. *)
THEOREM SyncInvariant == SyncSpec => []SyncInv
  BY SyncStarts, SyncKeeps, PTL DEF SyncSpec

(* Rows, goroutines and registered workers keep their types. *)
THEOREM SyncTypeCorrect == SyncSpec => []SyncTypeOK
<1>1. SyncInv => SyncTypeOK
  BY DEF SyncInv
<1> QED  BY <1>1, SyncInvariant, PTL

(* Deletions and creations of a pass, and passes among themselves, do not
   overlap, and activeWorkers is exactly the set of running workers. *)
THEOREM NoOverlap == SyncSpec => []PassesDoNotOverlap
<1>1. SyncInv => PassesDoNotOverlap
  BY DEF SyncInv, RecreateInv
<1> QED  BY <1>1, SyncInvariant, PTL

(* A row says COMPLETED only after its regsync command succeeded. *)
THEOREM CompletedIsEarned == SyncSpec => []CompletedMeansMirrored
<1>1. SyncInv => CompletedMeansMirrored
  BY DEF SyncInv
<1> QED  BY <1>1, SyncInvariant, PTL

(* Without failing database calls and restarts, an IN_PROGRESS row has its
   goroutine. *)
THEOREM ProgressIsReal == SyncSpec => []InProgressIsActive
<1>1. SyncInv => InProgressIsActive
  BY DEF SyncInv
<1> QED  BY <1>1, SyncInvariant, PTL

(* A row that is DELETED is never worked on again. *)
THEOREM NoRecreation == SyncSpec => DeletedIsNotRecreated
<1>1. SyncInv /\ [SyncNext]_syncVars
        => [\A s \in Syncs : status[s] = "DELETED"
                => status'[s] \in {"DELETED", "DELETE_PENDING"}]_syncVars
  BY DeletedStep
<1> QED  BY <1>1, SyncInvariant, PTL DEF SyncSpec, DeletedIsNotRecreated

-----------------------------------------------------------------------------
(* The end of the daemon that runs the reconciler. *)

(* The inductive invariant: nothing of a service that has been stopped is at work. *)
DaemonInv == DaemonTypeOK /\ ClosedIsQuiet

(* A daemon that has been started satisfies the invariant. *)
LEMMA DaemonStarts == ASSUME DaemonInit  PROVE DaemonInv
<1>1. DaemonTypeOK
  <2>1. \A g \in Goroutines : at[g] \in {"select", "work"} /\ cids[g] = 0
    BY DEF DaemonInit
  <2>2. /\ at \in [Goroutines -> {"select", "work", "send", "done"}]
        /\ cids \in [Goroutines -> 0..MaxCids]
    BY ShutdownConstants DEF DaemonInit
  <2>3. /\ main = "serving" /\ notifyCh \in 0..NotifyCap
        /\ stream \in [Listeners -> {"none", "select", "send", "ended"}]
    BY ShutdownConstants DEF DaemonInit
  <2>4. client \in [Listeners -> BOOLEAN] /\ parent \in BOOLEAN /\ host \in BOOLEAN
    BY Zenon DEF DaemonInit
  <2> QED  BY <2>1, <2>2, <2>3, <2>4 DEF DaemonTypeOK
<1>2. main = "serving" /\ host
  BY Zenon DEF DaemonInit
<1>3. ClosedIsQuiet
  BY <1>2 DEF ClosedIsQuiet
<1> QED  BY Zenon, <1>1, <1>3 DEF DaemonInv

(* Every step keeps the types. *)
LEMMA DaemonTypes ==
  ASSUME DaemonTypeOK, [DaemonNext]_daemonVars
  PROVE  DaemonTypeOK'
<1> USE ShutdownConstants DEF DaemonTypeOK, calls
<1>1. ASSUME NEW g \in Goroutines, Begin(g) PROVE DaemonTypeOK'
  BY <1>1 DEF Begin
<1>2. ASSUME NEW g \in Goroutines, Finish(g) \/ Quit(g) PROVE DaemonTypeOK'
  BY <1>2 DEF Finish, Quit
<1>3. ASSUME NEW g \in Announcers, Announce(g) PROVE DaemonTypeOK'
  BY <1>3 DEF Announce, Goroutines, Announcers
<1>4. ASSUME NEW g \in Announcers, Send(g) PROVE DaemonTypeOK'
  BY <1>4 DEF Send, Goroutines, Announcers
<1>5. CASE TakeNotification
  BY <1>5 DEF TakeNotification, Goroutines
<1>6. CASE Close
  BY <1>6 DEF Close, StopReconciler, StopRouting, StopPublication,
              GracefulStop, Closed, Tell
<1>7. CASE RemoteAnnouncement
  BY <1>7 DEF RemoteAnnouncement
<1>8. ASSUME NEW l \in Listeners,
             \/ Listen(l) \/ TakeEvent(l) \/ EventTaken(l)
             \/ EndListen(l) \/ Disconnect(l)
      PROVE  DaemonTypeOK'
  BY <1>8 DEF Listen, TakeEvent, EventTaken, EndListen, Disconnect
<1>9. CASE UNCHANGED daemonVars
  BY <1>9 DEF daemonVars
<1> QED
  BY <1>1, <1>2, <1>3, <1>4, <1>5, <1>6, <1>7, <1>8, <1>9
  DEF DaemonNext, Loops, runTask, handleNotify, StartLabelRepublishTask,
      WorkerRun, Goroutines

(* Every step keeps what has been stopped quiet: a goroutine that is done does not
   come back, and no call is accepted once GracefulStop has begun. *)
LEMMA DaemonQuiet ==
  ASSUME DaemonInv, [DaemonNext]_daemonVars
  PROVE  ClosedIsQuiet'
<1> USE DEF DaemonInv, DaemonTypeOK, ClosedIsQuiet, Stopped, calls
<1>1. ASSUME NEW g \in Goroutines,
             \/ Begin(g) \/ Finish(g) \/ Quit(g)
             \/ Announce(g) \/ Send(g)
      PROVE  ClosedIsQuiet'
  BY <1>1 DEF Begin, Finish, Quit, Announce, Send
<1>2. CASE TakeNotification
  BY <1>2 DEF TakeNotification, Goroutines
<1>3. CASE StopReconciler
  BY <1>3 DEF StopReconciler, Tell
<1>4. CASE StopRouting
  BY <1>4 DEF StopRouting, Tell
<1>5. CASE StopPublication
  BY <1>5 DEF StopPublication, Tell
<1>6. CASE GracefulStop
  BY <1>6 DEF GracefulStop
<1>7. CASE Closed
  BY <1>7 DEF Closed
<1>8. CASE RemoteAnnouncement \/ UNCHANGED daemonVars
  BY <1>8 DEF RemoteAnnouncement, daemonVars
<1>9. ASSUME NEW l \in Listeners,
             \/ Listen(l) \/ TakeEvent(l) \/ EventTaken(l)
             \/ EndListen(l) \/ Disconnect(l)
      PROVE  ClosedIsQuiet'
  BY <1>9 DEF Listen, TakeEvent, EventTaken, EndListen, Disconnect
<1> QED
  BY <1>1, <1>2, <1>3, <1>4, <1>5, <1>6, <1>7, <1>8, <1>9
  DEF DaemonNext, Close, Loops, runTask, handleNotify,
      StartLabelRepublishTask, WorkerRun, Goroutines, Announcers

(* The types leave a goroutine that is not done nowhere else to wait than at a
   full channel, which the handler empties until it is done itself. *)
LEMMA OnlyTheChannelBlocks ==
  ASSUME DaemonTypeOK
  PROVE  NoThirdWait
<1>1. ASSUME NEW g \in Goroutines, ServiceOf(g) \in told, at[g] # "done"
      PROVE  CanMove(g) \/ HandlerCanMove \/ Jammed
  <2>1. CASE at[g] \in {"select", "work"}
    BY <1>1, <2>1 DEF CanMove, DaemonTypeOK
  <2>2. CASE at[g] = "send" /\ notifyCh < NotifyCap
    BY <2>2 DEF CanMove
  <2>3. CASE at[g] = "send" /\ notifyCh = NotifyCap
    <3>1. "notify" \in Goroutines /\ "notify" \notin Announcers /\ g \in Announcers
      BY <2>3, ShutdownConstants DEF Goroutines, Announcers, DaemonTypeOK
    <3>2. at["notify"] \in {"select", "work", "done"} /\ cids["notify"] = 0 /\ notifyCh > 0
      BY <2>3, <3>1, ShutdownConstants DEF DaemonTypeOK
    <3> QED  BY <2>3, <3>1, <3>2 DEF HandlerCanMove, Jammed
  <2>4. at[g] \in {"select", "work", "send", "done"}
    BY DEF DaemonTypeOK
  <2>5. notifyCh < NotifyCap \/ notifyCh = NotifyCap
    BY ShutdownConstants DEF DaemonTypeOK
  <2> QED  BY Zenon, <1>1, <2>1, <2>2, <2>3, <2>4, <2>5
<1> QED
  BY <1>1 DEF NoThirdWait, DaemonTypeOK

(* The invariant holds in every reachable state of a daemon. *)
THEOREM DaemonInvariant == DaemonSpec => []DaemonInv
<1>1. DaemonInit => DaemonInv
  BY DaemonStarts
<1>2. DaemonInv /\ [DaemonNext]_daemonVars => DaemonInv'
  BY DaemonTypes, DaemonQuiet DEF DaemonInv
<1> QED  BY <1>1, <1>2, PTL DEF DaemonSpec

(* Close leaves nothing behind: services stop in turn, and when Close returns no
   goroutine is at work and no call is open. *)
THEOREM CloseIsOrderly == DaemonSpec => []ClosedIsQuiet
<1>1. DaemonInv => ClosedIsQuiet
  BY DEF DaemonInv
<1> QED  BY <1>1, DaemonInvariant, PTL

(* Close never waits for a goroutine that cannot move, but at the full channel
   nobody reads any more. *)
THEOREM CloseIsNotStuck == DaemonSpec => []NoThirdWait
<1>1. DaemonInv => NoThirdWait
  BY OnlyTheChannelBlocks DEF DaemonInv
<1> QED  BY <1>1, DaemonInvariant, PTL
=============================================================================
