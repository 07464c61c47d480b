-------------------------- MODULE RecordStoreProofs --------------------------
(***************************************************************************)
(* Proofs, for any number of records, concurrent calls, failures and       *)
(* cut-off calls, in both kinds of store, that an acknowledged push stays  *)
(* stored and indexed until a deletion of it begins, that a deletion which *)
(* raced with nothing leaves nothing behind, and that registry and index   *)
(* agree.                                                                  *)
(***************************************************************************)
EXTENDS RecordStore, TLAPS

(* In front of a local directory no call ever reaches a step on the cache. *)
LocalHasNoCache ==
    mode = "local" => \A p \in Clients : pc[p] \notin {"cache", "keep", "keepMeta", "evict"}

USE RecordStoreConstants
USE DEF storeVars, cacheVars, indexerVars, history, Pushing, Reading, Deleting, Fault, Goto, Return

(* Every action keeps the types. *)
LEMMA NextTypes == ASSUME TypeOK, LocalHasNoCache, [Next]_vars  PROVE TypeOK'
<1> USE DEF TypeOK, LocalHasNoCache
<1>1. ASSUME NEW p \in Clients, NEW c \in Cids, CallPush(p, c) PROVE TypeOK'
  BY <1>1 DEF CallPush, Call, On
<1>2. ASSUME NEW p \in Clients, NEW c \in Cids, CallRead(p, c) PROVE TypeOK'
  BY <1>2 DEF CallRead, Call, On
<1>3. ASSUME NEW p \in Clients, NEW c \in Cids, CallDelete(p, c) PROVE TypeOK'
  BY <1>3 DEF CallDelete, Call, On
<1>4. ASSUME NEW p \in Clients, PushBytes(p) PROVE TypeOK'
  BY <1>4 DEF PushBytes
<1>5. ASSUME NEW p \in Clients, LookupExisting(p) PROVE TypeOK'
  BY <1>5 DEF LookupExisting
<1>6. ASSUME NEW p \in Clients, PackAndTag(p) PROVE TypeOK'
  BY <1>6 DEF PackAndTag
<1>7. ASSUME NEW p \in Clients, CachePushed(p) PROVE TypeOK'
  BY <1>7 DEF CachePushed
<1>8. ASSUME NEW p \in Clients, AddRecord(p) PROVE TypeOK'
  BY <1>8 DEF AddRecord
<1>9. ASSUME NEW p \in Clients, PullCached(p) PROVE TypeOK'
  BY <1>9 DEF PullCached
<1>10. ASSUME NEW p \in Clients, PullSource(p) PROVE TypeOK'
  BY <1>10 DEF PullSource
<1>11. ASSUME NEW p \in Clients, CachePulled(p) PROVE TypeOK'
  BY <1>11 DEF CachePulled
<1>12. ASSUME NEW p \in Clients, LookupCached(p) PROVE TypeOK'
  BY <1>12 DEF LookupCached
<1>13. ASSUME NEW p \in Clients, LookupSource(p) PROVE TypeOK'
  BY <1>13 DEF LookupSource
<1>14. ASSUME NEW p \in Clients, CacheMeta(p) PROVE TypeOK'
  BY <1>14 DEF CacheMeta
<1>15. ASSUME NEW p \in Clients, Evict(p) PROVE TypeOK'
  BY <1>15 DEF Evict
<1>16. ASSUME NEW p \in Clients, Untag(p) PROVE TypeOK'
  BY <1>16 DEF Untag
<1>17. ASSUME NEW p \in Clients, Unblob(p) PROVE TypeOK'
  BY <1>17 DEF Unblob
<1>18. ASSUME NEW p \in Clients, RemoveRecord(p) PROVE TypeOK'
  BY <1>18 DEF RemoveRecord
<1>19. ASSUME NEW p \in Clients, Abort(p) PROVE TypeOK'
  BY <1>19 DEF Abort
<1>20. CASE StartScan
  BY <1>20 DEF StartScan, On
<1>21. ASSUME NEW c \in Cids, IndexerPull(c) PROVE TypeOK'
  BY <1>21 DEF IndexerPull
<1>22. CASE IndexerAdd
  BY <1>22 DEF IndexerAdd
<1>23. CASE EndScan
  BY <1>23 DEF EndScan
<1>24. CASE UNCHANGED vars
  BY SMTT(30), <1>24 DEF vars
<1> QED
  BY ZenonT(60), <1>1, <1>2, <1>3, <1>4, <1>5, <1>6, <1>7, <1>8, <1>9, <1>10, <1>11, <1>12, <1>13, <1>14,
     <1>15, <1>16, <1>17, <1>18, <1>19, <1>20, <1>21, <1>22, <1>23, <1>24 DEF Next, PushStep,
     ReadStep, DeleteStep, IndexerStep

(* Every action keeps calls in front of a local directory off the cache. *)
LEMMA NextNoCache == ASSUME TypeOK, LocalHasNoCache, [Next]_vars  PROVE LocalHasNoCache'
<1> USE DEF TypeOK, LocalHasNoCache
<1>1. ASSUME NEW p \in Clients, NEW c \in Cids, CallPush(p, c) PROVE LocalHasNoCache'
  BY <1>1 DEF CallPush, Call, On
<1>2. ASSUME NEW p \in Clients, NEW c \in Cids, CallRead(p, c) PROVE LocalHasNoCache'
  BY <1>2 DEF CallRead, Call, On
<1>3. ASSUME NEW p \in Clients, NEW c \in Cids, CallDelete(p, c) PROVE LocalHasNoCache'
  BY <1>3 DEF CallDelete, Call, On
<1>4. ASSUME NEW p \in Clients, PushBytes(p) PROVE LocalHasNoCache'
  BY <1>4 DEF PushBytes
<1>5. ASSUME NEW p \in Clients, LookupExisting(p) PROVE LocalHasNoCache'
  BY <1>5 DEF LookupExisting
<1>6. ASSUME NEW p \in Clients, PackAndTag(p) PROVE LocalHasNoCache'
  BY <1>6 DEF PackAndTag
<1>7. ASSUME NEW p \in Clients, CachePushed(p) PROVE LocalHasNoCache'
  BY <1>7 DEF CachePushed
<1>8. ASSUME NEW p \in Clients, AddRecord(p) PROVE LocalHasNoCache'
  BY <1>8 DEF AddRecord
<1>9. ASSUME NEW p \in Clients, PullCached(p) PROVE LocalHasNoCache'
  BY <1>9 DEF PullCached
<1>10. ASSUME NEW p \in Clients, PullSource(p) PROVE LocalHasNoCache'
  BY <1>10 DEF PullSource
<1>11. ASSUME NEW p \in Clients, CachePulled(p) PROVE LocalHasNoCache'
  BY <1>11 DEF CachePulled
<1>12. ASSUME NEW p \in Clients, LookupCached(p) PROVE LocalHasNoCache'
  BY <1>12 DEF LookupCached
<1>13. ASSUME NEW p \in Clients, LookupSource(p) PROVE LocalHasNoCache'
  BY <1>13 DEF LookupSource
<1>14. ASSUME NEW p \in Clients, CacheMeta(p) PROVE LocalHasNoCache'
  BY <1>14 DEF CacheMeta
<1>15. ASSUME NEW p \in Clients, Evict(p) PROVE LocalHasNoCache'
  BY <1>15 DEF Evict
<1>16. ASSUME NEW p \in Clients, Untag(p) PROVE LocalHasNoCache'
  BY <1>16 DEF Untag
<1>17. ASSUME NEW p \in Clients, Unblob(p) PROVE LocalHasNoCache'
  BY <1>17 DEF Unblob
<1>18. ASSUME NEW p \in Clients, RemoveRecord(p) PROVE LocalHasNoCache'
  BY <1>18 DEF RemoveRecord
<1>19. ASSUME NEW p \in Clients, Abort(p) PROVE LocalHasNoCache'
  BY <1>19 DEF Abort
<1>20. CASE StartScan
  BY <1>20 DEF StartScan, On
<1>21. ASSUME NEW c \in Cids, IndexerPull(c) PROVE LocalHasNoCache'
  BY <1>21 DEF IndexerPull
<1>22. CASE IndexerAdd
  BY <1>22 DEF IndexerAdd
<1>23. CASE EndScan
  BY <1>23 DEF EndScan
<1>24. CASE UNCHANGED vars
  BY SMTT(30), <1>24 DEF vars
<1> QED
  BY <1>1, <1>2, <1>3, <1>4, <1>5, <1>6, <1>7, <1>8, <1>9, <1>10, <1>11, <1>12, <1>13, <1>14,
     <1>15, <1>16, <1>17, <1>18, <1>19, <1>20, <1>21, <1>22, <1>23, <1>24 DEF Next, PushStep,
     ReadStep, DeleteStep, IndexerStep

(* Every action keeps acknowledged records stored. *)
LEMMA NextStored == ASSUME TypeOK, StoredInv, [Next]_vars  PROVE StoredInv'
<1> USE DEF TypeOK, StoredInv
<1>1. ASSUME NEW p \in Clients, NEW c \in Cids, CallPush(p, c) PROVE StoredInv'
  BY <1>1 DEF CallPush, Call, On
<1>2. ASSUME NEW p \in Clients, NEW c \in Cids, CallRead(p, c) PROVE StoredInv'
  BY <1>2 DEF CallRead, Call, On
<1>3. ASSUME NEW p \in Clients, NEW c \in Cids, CallDelete(p, c) PROVE StoredInv'
  BY <1>3 DEF CallDelete, Call, On
<1>4. ASSUME NEW p \in Clients, PushBytes(p) PROVE StoredInv'
  BY <1>4 DEF PushBytes
<1>5. ASSUME NEW p \in Clients, LookupExisting(p) PROVE StoredInv'
  BY <1>5 DEF LookupExisting
<1>6. ASSUME NEW p \in Clients, PackAndTag(p) PROVE StoredInv'
  BY <1>6 DEF PackAndTag
<1>7. ASSUME NEW p \in Clients, CachePushed(p) PROVE StoredInv'
  BY <1>7 DEF CachePushed
<1>8. ASSUME NEW p \in Clients, AddRecord(p) PROVE StoredInv'
  BY <1>8 DEF AddRecord
<1>9. ASSUME NEW p \in Clients, PullCached(p) PROVE StoredInv'
  BY <1>9 DEF PullCached
<1>10. ASSUME NEW p \in Clients, PullSource(p) PROVE StoredInv'
  BY <1>10 DEF PullSource
<1>11. ASSUME NEW p \in Clients, CachePulled(p) PROVE StoredInv'
  BY <1>11 DEF CachePulled
<1>12. ASSUME NEW p \in Clients, LookupCached(p) PROVE StoredInv'
  BY <1>12 DEF LookupCached
<1>13. ASSUME NEW p \in Clients, LookupSource(p) PROVE StoredInv'
  BY <1>13 DEF LookupSource
<1>14. ASSUME NEW p \in Clients, CacheMeta(p) PROVE StoredInv'
  BY <1>14 DEF CacheMeta
<1>15. ASSUME NEW p \in Clients, Evict(p) PROVE StoredInv'
  BY <1>15 DEF Evict
<1>16. ASSUME NEW p \in Clients, Untag(p) PROVE StoredInv'
  BY <1>16 DEF Untag
<1>17. ASSUME NEW p \in Clients, Unblob(p) PROVE StoredInv'
  BY <1>17 DEF Unblob
<1>18. ASSUME NEW p \in Clients, RemoveRecord(p) PROVE StoredInv'
  BY <1>18 DEF RemoveRecord
<1>19. ASSUME NEW p \in Clients, Abort(p) PROVE StoredInv'
  BY <1>19 DEF Abort
<1>20. CASE StartScan
  BY <1>20 DEF StartScan, On
<1>21. ASSUME NEW c \in Cids, IndexerPull(c) PROVE StoredInv'
  BY <1>21 DEF IndexerPull
<1>22. CASE IndexerAdd
  BY <1>22 DEF IndexerAdd
<1>23. CASE EndScan
  BY <1>23 DEF EndScan
<1>24. CASE UNCHANGED vars
  BY SMTT(30), <1>24 DEF vars
<1> QED
  BY ZenonT(60), <1>1, <1>2, <1>3, <1>4, <1>5, <1>6, <1>7, <1>8, <1>9, <1>10, <1>11, <1>12, <1>13, <1>14,
     <1>15, <1>16, <1>17, <1>18, <1>19, <1>20, <1>21, <1>22, <1>23, <1>24 DEF Next, PushStep,
     ReadStep, DeleteStep, IndexerStep

(* Every action keeps acknowledged records indexed until a call fails. *)
LEMMA NextIndexed == ASSUME TypeOK, StoredInv, AckedIsIndexed, [Next]_vars  PROVE AckedIsIndexed'
<1> USE DEF TypeOK, StoredInv, AckedIsIndexed
<1>1. ASSUME NEW p \in Clients, NEW c \in Cids, CallPush(p, c) PROVE AckedIsIndexed'
  BY <1>1 DEF CallPush, Call, On
<1>2. ASSUME NEW p \in Clients, NEW c \in Cids, CallRead(p, c) PROVE AckedIsIndexed'
  BY <1>2 DEF CallRead, Call, On
<1>3. ASSUME NEW p \in Clients, NEW c \in Cids, CallDelete(p, c) PROVE AckedIsIndexed'
  BY <1>3 DEF CallDelete, Call, On
<1>4. ASSUME NEW p \in Clients, PushBytes(p) PROVE AckedIsIndexed'
  BY <1>4 DEF PushBytes
<1>5. ASSUME NEW p \in Clients, LookupExisting(p) PROVE AckedIsIndexed'
  BY <1>5 DEF LookupExisting
<1>6. ASSUME NEW p \in Clients, PackAndTag(p) PROVE AckedIsIndexed'
  BY <1>6 DEF PackAndTag
<1>7. ASSUME NEW p \in Clients, CachePushed(p) PROVE AckedIsIndexed'
  BY <1>7 DEF CachePushed
<1>8. ASSUME NEW p \in Clients, AddRecord(p) PROVE AckedIsIndexed'
  BY <1>8 DEF AddRecord
<1>9. ASSUME NEW p \in Clients, PullCached(p) PROVE AckedIsIndexed'
  BY <1>9 DEF PullCached
<1>10. ASSUME NEW p \in Clients, PullSource(p) PROVE AckedIsIndexed'
  BY <1>10 DEF PullSource
<1>11. ASSUME NEW p \in Clients, CachePulled(p) PROVE AckedIsIndexed'
  BY <1>11 DEF CachePulled
<1>12. ASSUME NEW p \in Clients, LookupCached(p) PROVE AckedIsIndexed'
  BY <1>12 DEF LookupCached
<1>13. ASSUME NEW p \in Clients, LookupSource(p) PROVE AckedIsIndexed'
  BY <1>13 DEF LookupSource
<1>14. ASSUME NEW p \in Clients, CacheMeta(p) PROVE AckedIsIndexed'
  BY <1>14 DEF CacheMeta
<1>15. ASSUME NEW p \in Clients, Evict(p) PROVE AckedIsIndexed'
  BY <1>15 DEF Evict
<1>16. ASSUME NEW p \in Clients, Untag(p) PROVE AckedIsIndexed'
  BY <1>16 DEF Untag
<1>17. ASSUME NEW p \in Clients, Unblob(p) PROVE AckedIsIndexed'
  BY <1>17 DEF Unblob
<1>18. ASSUME NEW p \in Clients, RemoveRecord(p) PROVE AckedIsIndexed'
  BY <1>18 DEF RemoveRecord
<1>19. ASSUME NEW p \in Clients, Abort(p) PROVE AckedIsIndexed'
  BY <1>19 DEF Abort
<1>20. CASE StartScan
  BY <1>20 DEF StartScan, On
<1>21. ASSUME NEW c \in Cids, IndexerPull(c) PROVE AckedIsIndexed'
  BY <1>21 DEF IndexerPull
<1>22. CASE IndexerAdd
  BY <1>22 DEF IndexerAdd
<1>23. CASE EndScan
  BY <1>23 DEF EndScan
<1>24. CASE UNCHANGED vars
  BY <1>24 DEF vars
<1> QED
  BY SMTT(30), <1>1, <1>2, <1>3, <1>4, <1>5, <1>6, <1>7, <1>8, <1>9, <1>10, <1>11, <1>12, <1>13, <1>14,
     <1>15, <1>16, <1>17, <1>18, <1>19, <1>20, <1>21, <1>22, <1>23, <1>24 DEF Next, PushStep,
     ReadStep, DeleteStep, IndexerStep

(* Every action keeps a deletion that raced with nothing alone with its record. *)
LEMMA NextAlone == ASSUME TypeOK, AloneInv, [Next]_vars  PROVE AloneInv'
<1> USE DEF TypeOK, AloneInv
<1>1. ASSUME NEW p \in Clients, NEW c \in Cids, CallPush(p, c) PROVE AloneInv'
  BY <1>1 DEF CallPush, Call, On
<1>2. ASSUME NEW p \in Clients, NEW c \in Cids, CallRead(p, c) PROVE AloneInv'
  BY <1>2 DEF CallRead, Call, On
<1>3. ASSUME NEW p \in Clients, NEW c \in Cids, CallDelete(p, c) PROVE AloneInv'
  BY <1>3 DEF CallDelete, Call, On
<1>4. ASSUME NEW p \in Clients, PushBytes(p) PROVE AloneInv'
  BY <1>4 DEF PushBytes
<1>5. ASSUME NEW p \in Clients, LookupExisting(p) PROVE AloneInv'
  BY <1>5 DEF LookupExisting
<1>6. ASSUME NEW p \in Clients, PackAndTag(p) PROVE AloneInv'
  BY <1>6 DEF PackAndTag
<1>7. ASSUME NEW p \in Clients, CachePushed(p) PROVE AloneInv'
  BY <1>7 DEF CachePushed
<1>8. ASSUME NEW p \in Clients, AddRecord(p) PROVE AloneInv'
  BY <1>8 DEF AddRecord
<1>9. ASSUME NEW p \in Clients, PullCached(p) PROVE AloneInv'
  BY <1>9 DEF PullCached
<1>10. ASSUME NEW p \in Clients, PullSource(p) PROVE AloneInv'
  BY <1>10 DEF PullSource
<1>11. ASSUME NEW p \in Clients, CachePulled(p) PROVE AloneInv'
  BY <1>11 DEF CachePulled
<1>12. ASSUME NEW p \in Clients, LookupCached(p) PROVE AloneInv'
  BY <1>12 DEF LookupCached
<1>13. ASSUME NEW p \in Clients, LookupSource(p) PROVE AloneInv'
  BY <1>13 DEF LookupSource
<1>14. ASSUME NEW p \in Clients, CacheMeta(p) PROVE AloneInv'
  BY <1>14 DEF CacheMeta
<1>15. ASSUME NEW p \in Clients, Evict(p) PROVE AloneInv'
  BY <1>15 DEF Evict
<1>16. ASSUME NEW p \in Clients, Untag(p) PROVE AloneInv'
  BY <1>16 DEF Untag
<1>17. ASSUME NEW p \in Clients, Unblob(p) PROVE AloneInv'
  BY <1>17 DEF Unblob
<1>18. ASSUME NEW p \in Clients, RemoveRecord(p) PROVE AloneInv'
  BY <1>18 DEF RemoveRecord
<1>19. ASSUME NEW p \in Clients, Abort(p) PROVE AloneInv'
  BY <1>19 DEF Abort
<1>20. CASE StartScan
  BY <1>20 DEF StartScan, On
<1>21. ASSUME NEW c \in Cids, IndexerPull(c) PROVE AloneInv'
  BY <1>21 DEF IndexerPull
<1>22. CASE IndexerAdd
  BY <1>22 DEF IndexerAdd
<1>23. CASE EndScan
  BY <1>23 DEF EndScan
<1>24. CASE UNCHANGED vars
  BY <1>24 DEF vars
<1> QED
  BY ZenonT(60), <1>1, <1>2, <1>3, <1>4, <1>5, <1>6, <1>7, <1>8, <1>9, <1>10, <1>11, <1>12, <1>13, <1>14,
     <1>15, <1>16, <1>17, <1>18, <1>19, <1>20, <1>21, <1>22, <1>23, <1>24 DEF Next, PushStep,
     ReadStep, DeleteStep, IndexerStep

(* Every action keeps what was deleted undisturbed gone, until a call fails. *)
LEMMA NextCleared == ASSUME TypeOK, AloneInv, ClearedInv, [Next]_vars  PROVE ClearedInv'
<1> USE DEF TypeOK, AloneInv, ClearedInv
<1>1. ASSUME NEW p \in Clients, NEW c \in Cids, CallPush(p, c) PROVE ClearedInv'
  BY <1>1 DEF CallPush, Call, On
<1>2. ASSUME NEW p \in Clients, NEW c \in Cids, CallRead(p, c) PROVE ClearedInv'
  BY <1>2 DEF CallRead, Call, On
<1>3. ASSUME NEW p \in Clients, NEW c \in Cids, CallDelete(p, c) PROVE ClearedInv'
  BY <1>3 DEF CallDelete, Call, On
<1>4. ASSUME NEW p \in Clients, PushBytes(p) PROVE ClearedInv'
  BY <1>4 DEF PushBytes
<1>5. ASSUME NEW p \in Clients, LookupExisting(p) PROVE ClearedInv'
  BY <1>5 DEF LookupExisting
<1>6. ASSUME NEW p \in Clients, PackAndTag(p) PROVE ClearedInv'
  BY <1>6 DEF PackAndTag
<1>7. ASSUME NEW p \in Clients, CachePushed(p) PROVE ClearedInv'
  BY <1>7 DEF CachePushed
<1>8. ASSUME NEW p \in Clients, AddRecord(p) PROVE ClearedInv'
  BY <1>8 DEF AddRecord
<1>9. ASSUME NEW p \in Clients, PullCached(p) PROVE ClearedInv'
  BY <1>9 DEF PullCached
<1>10. ASSUME NEW p \in Clients, PullSource(p) PROVE ClearedInv'
  BY <1>10 DEF PullSource
<1>11. ASSUME NEW p \in Clients, CachePulled(p) PROVE ClearedInv'
  BY <1>11 DEF CachePulled
<1>12. ASSUME NEW p \in Clients, LookupCached(p) PROVE ClearedInv'
  BY <1>12 DEF LookupCached
<1>13. ASSUME NEW p \in Clients, LookupSource(p) PROVE ClearedInv'
  BY <1>13 DEF LookupSource
<1>14. ASSUME NEW p \in Clients, CacheMeta(p) PROVE ClearedInv'
  BY <1>14 DEF CacheMeta
<1>15. ASSUME NEW p \in Clients, Evict(p) PROVE ClearedInv'
  BY <1>15 DEF Evict
<1>16. ASSUME NEW p \in Clients, Untag(p) PROVE ClearedInv'
  BY <1>16 DEF Untag
<1>17. ASSUME NEW p \in Clients, Unblob(p) PROVE ClearedInv'
  BY <1>17 DEF Unblob
<1>18. ASSUME NEW p \in Clients, RemoveRecord(p) PROVE ClearedInv'
  BY <1>18 DEF RemoveRecord
<1>19. ASSUME NEW p \in Clients, Abort(p) PROVE ClearedInv'
  BY <1>19 DEF Abort
<1>20. CASE StartScan
  BY <1>20 DEF StartScan, On
<1>21. ASSUME NEW c \in Cids, IndexerPull(c) PROVE ClearedInv'
  BY <1>21 DEF IndexerPull
<1>22. CASE IndexerAdd
  BY <1>22 DEF IndexerAdd
<1>23. CASE EndScan
  BY <1>23 DEF EndScan
<1>24. CASE UNCHANGED vars
  BY <1>24 DEF vars
<1> QED
  BY ZenonT(60), <1>1, <1>2, <1>3, <1>4, <1>5, <1>6, <1>7, <1>8, <1>9, <1>10, <1>11, <1>12, <1>13, <1>14,
     <1>15, <1>16, <1>17, <1>18, <1>19, <1>20, <1>21, <1>22, <1>23, <1>24 DEF Next, PushStep,
     ReadStep, DeleteStep, IndexerStep

(* Every action keeps registry and index in agreement, up to calls under way. *)
LEMMA NextAgree == ASSUME TypeOK, AloneInv, ClearedInv, AgreeInv, [Next]_vars  PROVE AgreeInv'
<1> USE DEF TypeOK, AloneInv, ClearedInv, AgreeInv, On
<1>1. ASSUME NEW p \in Clients, NEW c \in Cids, CallPush(p, c) PROVE AgreeInv'
  BY <1>1 DEF CallPush, Call
<1>2. ASSUME NEW p \in Clients, NEW c \in Cids, CallRead(p, c) PROVE AgreeInv'
  BY <1>2 DEF CallRead, Call
<1>3. ASSUME NEW p \in Clients, NEW c \in Cids, CallDelete(p, c) PROVE AgreeInv'
  BY <1>3 DEF CallDelete, Call
<1>4. ASSUME NEW p \in Clients, PushBytes(p) PROVE AgreeInv'
  BY <1>4 DEF PushBytes
<1>5. ASSUME NEW p \in Clients, LookupExisting(p) PROVE AgreeInv'
  BY <1>5 DEF LookupExisting
<1>6. ASSUME NEW p \in Clients, PackAndTag(p) PROVE AgreeInv'
  BY <1>6 DEF PackAndTag
<1>7. ASSUME NEW p \in Clients, CachePushed(p) PROVE AgreeInv'
  BY <1>7 DEF CachePushed
<1>8. ASSUME NEW p \in Clients, AddRecord(p) PROVE AgreeInv'
  BY <1>8 DEF AddRecord
<1>9. ASSUME NEW p \in Clients, PullCached(p) PROVE AgreeInv'
  BY <1>9 DEF PullCached
<1>10. ASSUME NEW p \in Clients, PullSource(p) PROVE AgreeInv'
  BY <1>10 DEF PullSource
<1>11. ASSUME NEW p \in Clients, CachePulled(p) PROVE AgreeInv'
  BY <1>11 DEF CachePulled
<1>12. ASSUME NEW p \in Clients, LookupCached(p) PROVE AgreeInv'
  BY <1>12 DEF LookupCached
<1>13. ASSUME NEW p \in Clients, LookupSource(p) PROVE AgreeInv'
  BY <1>13 DEF LookupSource
<1>14. ASSUME NEW p \in Clients, CacheMeta(p) PROVE AgreeInv'
  BY <1>14 DEF CacheMeta
<1>15. ASSUME NEW p \in Clients, Evict(p) PROVE AgreeInv'
  BY <1>15 DEF Evict
<1>16. ASSUME NEW p \in Clients, Untag(p) PROVE AgreeInv'
  BY <1>16 DEF Untag
<1>17. ASSUME NEW p \in Clients, Unblob(p) PROVE AgreeInv'
  BY <1>17 DEF Unblob
<1>18. ASSUME NEW p \in Clients, RemoveRecord(p) PROVE AgreeInv'
  BY <1>18 DEF RemoveRecord
<1>19. ASSUME NEW p \in Clients, Abort(p) PROVE AgreeInv'
  BY <1>19 DEF Abort
<1>20. CASE StartScan
  BY <1>20 DEF StartScan
<1>21. ASSUME NEW c \in Cids, IndexerPull(c) PROVE AgreeInv'
  BY <1>21 DEF IndexerPull
<1>22. CASE IndexerAdd
  BY <1>22 DEF IndexerAdd
<1>23. CASE EndScan
  BY <1>23 DEF EndScan
<1>24. CASE UNCHANGED vars
  BY <1>24 DEF vars
<1> QED
  BY ZenonT(60), <1>1, <1>2, <1>3, <1>4, <1>5, <1>6, <1>7, <1>8, <1>9, <1>10, <1>11, <1>12, <1>13, <1>14,
     <1>15, <1>16, <1>17, <1>18, <1>19, <1>20, <1>21, <1>22, <1>23, <1>24 DEF Next, PushStep,
     ReadStep, DeleteStep, IndexerStep

(* The inductive invariant. *)
StoreInv ==
    TypeOK /\ LocalHasNoCache /\ StoredInv /\ AckedIsIndexed /\ AloneInv /\ ClearedInv /\ AgreeInv

(* It holds in every reachable state. *)
THEOREM Invariant == Spec => []StoreInv
<1>1. Init => StoreInv
  BY DEF Init, StoreInv, TypeOK, LocalHasNoCache, StoredInv, AckedIsIndexed,
         AloneInv, ClearedInv, AgreeInv, On
<1>2. StoreInv /\ [Next]_vars => StoreInv'
  BY NextTypes, NextNoCache, NextStored, NextIndexed, NextAlone, NextCleared, NextAgree DEF StoreInv
<1> QED  BY <1>1, <1>2, PTL DEF Spec

(* Store, cache, index, calls and indexer keep their types, and a local
   directory never gets a cache in front of it. *)
THEOREM TypeCorrect == Spec => []TypeOK
<1>1. StoreInv => TypeOK
  BY Zenon DEF StoreInv
<1> QED  BY <1>1, Invariant, PTL

(* An acknowledged push keeps its tag and its blob until a deletion begins. *)
THEOREM PushIsDurable == Spec => []AckedIsStored
<1>1. StoreInv => AckedIsStored
  BY DEF StoreInv, StoredInv, AckedIsStored
<1> QED  BY <1>1, Invariant, PTL

(* It is searchable, too, unless a call has failed. *)
THEOREM PushIsSearchable == Spec => []AckedIsIndexed
<1>1. StoreInv => AckedIsIndexed
  BY DEF StoreInv
<1> QED  BY <1>1, Invariant, PTL

(* A record whose deletion raced with nothing is in neither the registry, the
   cache nor the index from then on, until it is pushed again or a call fails. *)
THEOREM DeletionIsComplete == Spec => []DeletedIsGone
<1>1. StoreInv => DeletedIsGone
  BY DEF StoreInv, ClearedInv, DeletedIsGone
<1> QED  BY <1>1, Invariant, PTL

(* Registry and index agree on every record no call is about to change, if
   nothing failed or was cut off and its deletions raced with nothing. *)
THEOREM IndexFollowsRegistry == Spec => []RegistryAndIndexAgree
<1>1. StoreInv => RegistryAndIndexAgree
  BY DEF StoreInv, AgreeInv, RegistryAndIndexAgree, On
<1> QED  BY <1>1, Invariant, PTL
=============================================================================
