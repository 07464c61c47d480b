----------------------------- MODULE RecordStore -----------------------------
(***************************************************************************)
(* Records in the content store, its cache and the search index.           *)
(*                                                                         *)
(* Concurrent API calls (server/controller/store.go) push, pull, look up   *)
(* and delete records in the OCI store (server/store/oci), behind a cache  *)
(* when the registry is remote (server/store/cache), and keep the search   *)
(* index in step with it (server/ingest, server/database/gorm).  Each call *)
(* to the registry, the cache or the database is a step of its own.  The   *)
(* indexer of the reconciler compares the registry's tags with the last    *)
(* ones it saw and indexes the new ones.                                   *)
(***************************************************************************)
EXTENDS Naturals

CONSTANTS
    Cids, Clients,
    MaxFaults,   \* bound: failing calls to the registry, cache or database
    MaxAborts,   \* bound: calls cut off (client gone, server restarted)
    NoCid        \* "none"

ASSUME RecordStoreConstants == NoCid \notin Cids /\ MaxFaults \in Nat /\ MaxAborts \in Nat

VARIABLES
    mode,       \* "local" directory without cache, or "remote" registry with one
    blobs, tagged,         \* the OCI store: record blobs; CIDs whose tag resolves
    cacheRec, cacheMeta,   \* the cache: /record/<cid> and /meta/<cid>
    index,                 \* rows of the search database
    pc, arg,               \* a client's call: its next step, its CID
    ipc, snapshot, newTags, pulled, last,  \* the indexer; last is lastSnapshot
    faults, aborts,
    tainted,   \* history: pushes and deletions that overlap one of the other kind
    acked,     \* history: pushed, no deletion overlapped it or has begun since
    gone,      \* history: deleted, no push overlapped it or has begun since
    raced      \* history: a deletion overlapped another call or a scan

storeVars == <<blobs, tagged>>
cacheVars == <<cacheRec, cacheMeta>>
indexerVars == <<ipc, snapshot, newTags, pulled, last>>
history == <<tainted, acked, gone, raced>>
vars == <<mode, storeVars, cacheVars, index, pc, arg, indexerVars, faults, aborts, history>>

Pushing == {"push", "lookup", "tag", "cache", "index"}
Reading == {"pull", "fetch", "keep", "meta", "resolve", "keepMeta"}
Deleting == {"evict", "untag", "unblob", "unindex"}

On(c, phases) == {p \in Clients : arg[p] = c /\ pc[p] \in phases}

Init ==
    /\ mode \in {"local", "remote"}
    /\ blobs = {} /\ tagged = {} /\ cacheRec = {} /\ cacheMeta = {} /\ index = {}
    /\ pc = [p \in Clients |-> "idle"] /\ arg = [p \in Clients |-> NoCid]
    /\ ipc = "idle" /\ snapshot = {} /\ newTags = {} /\ pulled = NoCid /\ last = {}
    /\ faults = 0 /\ aborts = 0
    /\ tainted = {} /\ acked = {} /\ gone = {} /\ raced = {}

Fault == faults < MaxFaults /\ faults' = faults + 1

Goto(p, next) == pc' = [pc EXCEPT ![p] = next] /\ UNCHANGED arg
Return(p) == pc' = [pc EXCEPT ![p] = "idle"] /\ arg' = [arg EXCEPT ![p] = NoCid]

-----------------------------------------------------------------------------
(* Mutants, each before the definition it deviates from. *)

(* A tag that cannot be created is only logged. *)
PackAndTagLogged(p) ==
    /\ pc[p] = "tag" /\ Goto(p, IF mode = "remote" THEN "cache" ELSE "index")
    /\ \/ /\ mode = "local" \/ arg[p] \in blobs
          /\ tagged' = tagged \cup {arg[p]} /\ UNCHANGED faults
       \/ Fault /\ UNCHANGED tagged
    /\ UNCHANGED <<mode, blobs, cacheVars, index, indexerVars, aborts, history>>

(* The index is left alone when a record is deleted. *)
UnindexNot(p) ==
    /\ pc[p] = "unindex" /\ Return(p)
    /\ gone' = IF p \in tainted THEN gone ELSE gone \cup {arg[p]}
    /\ tainted' = tainted \ {p}
    /\ UNCHANGED <<mode, storeVars, cacheVars, index, indexerVars, faults, aborts, acked, raced>>

(* The push is not indexed, that is left to the indexer. *)
IndexLater(p) ==
    /\ pc[p] = "index" /\ Return(p)
    /\ acked' = IF p \in tainted THEN acked ELSE acked \cup {arg[p]}
    /\ tainted' = tainted \ {p}
    /\ UNCHANGED <<mode, storeVars, cacheVars, index, indexerVars, faults, aborts, gone, raced>>

(* The last snapshot is taken again after the scan. *)
EndScanLate ==
    /\ ipc = "scan" /\ newTags = {}
    /\ ipc' = "idle" /\ last' = tagged /\ snapshot' = {}
    /\ UNCHANGED <<mode, storeVars, cacheVars, index, pc, arg, newTags, pulled, faults, aborts, history>>

-----------------------------------------------------------------------------
(* A call arrives (its record or reference has been validated). *)
Call(p, step, c) == /\ pc[p] = "idle"
                    /\ pc' = [pc EXCEPT ![p] = step] /\ arg' = [arg EXCEPT ![p] = c]
                    /\ UNCHANGED <<mode, storeVars, cacheVars, index, indexerVars, faults, aborts>>

CallPush(p, c) ==
    /\ Call(p, "push", c)
    /\ gone' = gone \ {c} /\ UNCHANGED acked
    /\ tainted' = tainted \cup On(c, Deleting) \cup (IF On(c, Deleting) # {} THEN {p} ELSE {})
    /\ raced' = IF On(c, Deleting) # {} THEN raced \cup {c} ELSE raced

CallRead(p, c) ==
    /\ Call(p, "pull", c) \/ Call(p, "meta", c)
    /\ UNCHANGED <<tainted, acked, gone>>
    /\ raced' = IF On(c, Deleting) # {} THEN raced \cup {c} ELSE raced

CallDelete(p, c) ==
    /\ Call(p, IF mode = "remote" THEN "evict" ELSE "untag", c)
    /\ acked' = acked \ {c} /\ UNCHANGED gone
    /\ tainted' = tainted \cup On(c, Pushing) \cup (IF On(c, Pushing) # {} THEN {p} ELSE {})
    /\ raced' = IF On(c, Pushing \cup Reading \cup Deleting) # {} \/ ipc # "idle"
                THEN raced \cup {c} ELSE raced

(* store.Push: push the blob. *)
PushBytes(p) ==
    /\ pc[p] = "push"
    /\ \/ blobs' = blobs \cup {arg[p]} /\ Goto(p, "lookup") /\ UNCHANGED <<faults, tainted>>
       \/ Fault /\ Return(p) /\ tainted' = tainted \ {p} /\ UNCHANGED blobs
    /\ UNCHANGED <<mode, tagged, cacheVars, index, indexerVars, aborts, acked, gone, raced>>

(* An existing record is not pushed again.  Any error counts as absence. *)
LookupExisting(p) ==
    /\ pc[p] = "lookup"
    /\ \/ arg[p] \in tagged /\ Goto(p, IF mode = "remote" THEN "cache" ELSE "index") /\ UNCHANGED faults
       \/ arg[p] \notin tagged /\ Goto(p, "tag") /\ UNCHANGED faults
       \/ arg[p] \in tagged /\ Fault /\ Goto(p, "tag")
    /\ UNCHANGED <<mode, storeVars, cacheVars, index, indexerVars, aborts, history>>

(* PackManifest and tagWithRetry.  A registry refuses a manifest whose blob it
   does not have; the local directory does not look. *)
PackAndTag(p) ==
    /\ pc[p] = "tag"
    /\ \/ /\ mode = "local" \/ arg[p] \in blobs
          /\ tagged' = tagged \cup {arg[p]}
          /\ Goto(p, IF mode = "remote" THEN "cache" ELSE "index") /\ UNCHANGED <<faults, tainted>>
       \/ Fault /\ Return(p) /\ tainted' = tainted \ {p} /\ UNCHANGED tagged
    /\ UNCHANGED <<mode, blobs, cacheVars, index, indexerVars, aborts, acked, gone, raced>>

(* cachedStore.Push: cache the record, ignoring errors. *)
CachePushed(p) ==
    /\ pc[p] = "cache" /\ Goto(p, "index")
    /\ \/ cacheRec' = cacheRec \cup {arg[p]} /\ UNCHANGED faults
       \/ Fault /\ UNCHANGED cacheRec
    /\ UNCHANGED <<mode, storeVars, cacheMeta, index, indexerVars, aborts, history>>

(* ImportRecord: add it to the search index; a failure is only logged. *)
AddRecord(p) ==
    /\ pc[p] = "index" /\ Return(p)
    /\ \/ index' = index \cup {arg[p]} /\ UNCHANGED faults
       \/ Fault /\ UNCHANGED index
    /\ acked' = IF p \in tainted THEN acked ELSE acked \cup {arg[p]}
    /\ tainted' = tainted \ {p}
    /\ UNCHANGED <<mode, storeVars, cacheVars, indexerVars, aborts, gone, raced>>

(* Pull: from the cache, else from the store, filling the cache. *)
PullCached(p) ==
    /\ pc[p] = "pull"
    /\ IF mode = "remote" /\ arg[p] \in cacheRec THEN Return(p) ELSE Goto(p, "fetch")
    /\ UNCHANGED <<mode, storeVars, cacheVars, index, indexerVars, faults, aborts, history>>

PullSource(p) ==
    /\ pc[p] = "fetch"
    /\ \/ arg[p] \in tagged \cap blobs /\ mode = "remote" /\ Goto(p, "keep") /\ UNCHANGED faults
       \/ ~(arg[p] \in tagged \cap blobs /\ mode = "remote") /\ Return(p) /\ UNCHANGED faults
       \/ Fault /\ Return(p)
    /\ UNCHANGED <<mode, storeVars, cacheVars, index, indexerVars, aborts, history>>

CachePulled(p) ==
    /\ pc[p] = "keep" /\ Return(p)
    /\ \/ cacheRec' = cacheRec \cup {arg[p]} /\ UNCHANGED faults
       \/ Fault /\ UNCHANGED cacheRec
    /\ UNCHANGED <<mode, storeVars, cacheMeta, index, indexerVars, aborts, history>>

(* Lookup: the same with the metadata. *)
LookupCached(p) ==
    /\ pc[p] = "meta"
    /\ IF mode = "remote" /\ arg[p] \in cacheMeta THEN Return(p) ELSE Goto(p, "resolve")
    /\ UNCHANGED <<mode, storeVars, cacheVars, index, indexerVars, faults, aborts, history>>

LookupSource(p) ==
    /\ pc[p] = "resolve"
    /\ \/ arg[p] \in tagged /\ mode = "remote" /\ Goto(p, "keepMeta") /\ UNCHANGED faults
       \/ ~(arg[p] \in tagged /\ mode = "remote") /\ Return(p) /\ UNCHANGED faults
       \/ Fault /\ Return(p)
    /\ UNCHANGED <<mode, storeVars, cacheVars, index, indexerVars, aborts, history>>

CacheMeta(p) ==
    /\ pc[p] = "keepMeta" /\ Return(p)
    /\ \/ cacheMeta' = cacheMeta \cup {arg[p]} /\ UNCHANGED faults
       \/ Fault /\ UNCHANGED cacheMeta
    /\ UNCHANGED <<mode, storeVars, cacheRec, index, indexerVars, aborts, history>>

(* cachedStore.Delete: first out of the cache, ignoring errors. *)
Evict(p) ==
    /\ pc[p] = "evict" /\ Goto(p, "untag")
    /\ \/ cacheRec' = cacheRec \ {arg[p]} /\ cacheMeta' = cacheMeta \ {arg[p]} /\ UNCHANGED faults
       \/ Fault /\ cacheRec' \in {cacheRec, cacheRec \ {arg[p]}}
                /\ cacheMeta' \in {cacheMeta, cacheMeta \ {arg[p]}}
    /\ UNCHANGED <<mode, storeVars, index, indexerVars, aborts, history>>

(* The manifest is deleted, and its tag with it; a missing one is fine.  A
   remote failure is returned; in the local directory the rest goes on. *)
Untag(p) ==
    /\ pc[p] = "untag"
    /\ \/ /\ tagged' = tagged \ {arg[p]} /\ UNCHANGED <<faults, tainted>>
          /\ Goto(p, IF mode = "local" /\ arg[p] \in tagged THEN "unblob" ELSE "unindex")
       \/ /\ Fault /\ mode = "local" /\ Goto(p, "unblob") /\ UNCHANGED <<tagged, tainted>>
       \/ /\ Fault /\ mode = "remote" /\ Return(p)
          /\ tainted' = tainted \ {p} /\ UNCHANGED tagged
    /\ UNCHANGED <<mode, blobs, cacheVars, index, indexerVars, aborts, acked, gone, raced>>

(* deleteBlobForLocalStore, best effort. *)
Unblob(p) ==
    /\ pc[p] = "unblob" /\ Goto(p, "unindex")
    /\ \/ blobs' = blobs \ {arg[p]} /\ UNCHANGED faults
       \/ Fault /\ UNCHANGED blobs
    /\ UNCHANGED <<mode, tagged, cacheVars, index, indexerVars, aborts, history>>

(* RemoveRecord; a failure is only logged, the deletion has succeeded. *)
RemoveRecord(p) ==
    /\ pc[p] = "unindex" /\ Return(p)
    /\ \/ index' = index \ {arg[p]} /\ UNCHANGED faults
       \/ Fault /\ UNCHANGED index
    /\ gone' = IF p \in tainted THEN gone ELSE gone \cup {arg[p]}
    /\ tainted' = tainted \ {p}
    /\ UNCHANGED <<mode, storeVars, cacheVars, indexerVars, aborts, acked, raced>>

(* The call is cut off between two of its steps. *)
Abort(p) ==
    /\ pc[p] # "idle" /\ aborts < MaxAborts /\ aborts' = aborts + 1
    /\ Return(p) /\ tainted' = tainted \ {p}
    /\ UNCHANGED <<mode, storeVars, cacheVars, index, indexerVars, faults, acked, gone, raced>>

(* Indexer: list the tags; those that were not there last time are new. *)
StartScan ==
    /\ ipc = "idle" /\ ipc' = "scan"
    /\ snapshot' = tagged /\ newTags' = tagged \ last
    /\ raced' = raced \cup {c \in Cids : On(c, Deleting) # {}}
    /\ UNCHANGED <<mode, storeVars, cacheVars, index, pc, arg, pulled, last, faults, aborts,
                   tainted, acked, gone>>

(* indexRecord: pull the record; a record that cannot be pulled is skipped. *)
IndexerPull(c) ==
    /\ ipc = "scan" /\ c \in newTags
    /\ newTags' = newTags \ {c}
    /\ \/ /\ c \in tagged \cap blobs \/ (mode = "remote" /\ c \in cacheRec)
          /\ ipc' = "add" /\ pulled' = c /\ UNCHANGED faults
       \/ /\ c \notin tagged \cap blobs /\ ~(mode = "remote" /\ c \in cacheRec)
          /\ UNCHANGED <<ipc, pulled, faults>>
       \/ Fault /\ UNCHANGED <<ipc, pulled>>
    /\ UNCHANGED <<mode, storeVars, cacheVars, index, pc, arg, snapshot, last, aborts, history>>

(* Its AddRecord; the error is logged and the next tag is taken. *)
IndexerAdd ==
    /\ ipc = "add" /\ ipc' = "scan" /\ pulled' = NoCid
    /\ \/ index' = index \cup {pulled} /\ UNCHANGED faults
       \/ Fault /\ UNCHANGED index
    /\ UNCHANGED <<mode, storeVars, cacheVars, pc, arg, snapshot, newTags, last, aborts, history>>

(* The snapshot becomes the last one, failures or not. *)
EndScan ==
    /\ ipc = "scan" /\ newTags = {}
    /\ ipc' = "idle" /\ last' = snapshot /\ snapshot' = {}
    /\ UNCHANGED <<mode, storeVars, cacheVars, index, pc, arg, newTags, pulled, faults, aborts, history>>

PushStep(p) == PushBytes(p) \/ LookupExisting(p) \/ PackAndTag(p) \/ CachePushed(p) \/ AddRecord(p)
ReadStep(p) == \/ PullCached(p) \/ PullSource(p) \/ CachePulled(p)
               \/ LookupCached(p) \/ LookupSource(p) \/ CacheMeta(p)
DeleteStep(p) == Evict(p) \/ Untag(p) \/ Unblob(p) \/ RemoveRecord(p)
IndexerStep == StartScan \/ (\E c \in Cids : IndexerPull(c)) \/ IndexerAdd \/ EndScan

Next ==
    \/ \E p \in Clients, c \in Cids : CallPush(p, c) \/ CallRead(p, c) \/ CallDelete(p, c)
    \/ \E p \in Clients : PushStep(p) \/ ReadStep(p) \/ DeleteStep(p) \/ Abort(p)
    \/ IndexerStep

Spec == Init /\ [][Next]_vars

(* The indexer's ticker keeps firing; calls that have begun go on. *)
FairSpec ==
    /\ Spec /\ WF_vars(IndexerStep)
    /\ \A p \in Clients : WF_vars(PushStep(p) \/ ReadStep(p) \/ DeleteStep(p))

-----------------------------------------------------------------------------
(* Types; a call has its CID exactly while it runs; the cache is used only in
   front of a remote registry. *)
TypeOK ==
    /\ mode \in {"local", "remote"}
    /\ blobs \subseteq Cids /\ tagged \subseteq Cids /\ index \subseteq Cids
    /\ cacheRec \subseteq Cids /\ cacheMeta \subseteq Cids
    /\ pc \in [Clients -> Pushing \cup Reading \cup Deleting \cup {"idle"}]
    /\ arg \in [Clients -> Cids \cup {NoCid}]
    /\ \A p \in Clients : arg[p] = NoCid <=> pc[p] = "idle"
    /\ ipc \in {"idle", "scan", "add"} /\ pulled \in Cids \cup {NoCid}
    /\ (pulled = NoCid <=> ipc # "add")
    /\ snapshot \subseteq Cids /\ newTags \subseteq Cids /\ last \subseteq Cids
    /\ faults \in Nat /\ aborts \in Nat /\ tainted \subseteq Clients
    /\ acked \subseteq Cids /\ gone \subseteq Cids /\ raced \subseteq Cids
    /\ mode = "local" => cacheRec = {} /\ cacheMeta = {}

(* A push that was acknowledged is in the store, with tag and blob, until a
   deletion of it begins, whatever other pushes, reads and failures happen. *)
AckedIsStored == acked \subseteq tagged \cap blobs

(* What makes it inductive: an acknowledged record has no deletion running; a
   push that met no deletion has its blob, and after tagging its tag. *)
StoredInv ==
    /\ acked \subseteq tagged \cap blobs
    /\ \A p \in Clients : pc[p] \in Deleting => arg[p] \notin acked
    /\ \A p, q \in Clients :
          pc[p] \in Pushing /\ p \notin tainted /\ pc[q] \in Deleting => arg[p] # arg[q]
    /\ \A p \in Clients :
          /\ pc[p] \in Pushing \ {"push"} /\ p \notin tainted => arg[p] \in blobs
          /\ pc[p] \in {"cache", "index"} /\ p \notin tainted => arg[p] \in tagged

(* It is also in the search index, unless some call failed. *)
AckedIsIndexed == faults = 0 => acked \subseteq index

(* A deleted record is gone from the registry, the cache and the index, if
   nothing failed and no other call or scan of the indexer overlapped its
   deletion: in particular the order evict, untag, unindex is safe against
   calls that are cut off between two steps. *)
DeletedIsGone ==
    faults = 0 => (gone \ raced) \cap (tagged \cup cacheRec \cup cacheMeta \cup index) = {}

(* What makes it inductive: a deletion that raced with nothing is alone with
   its record, and no scan runs. *)
AloneInv ==
    /\ ipc = "idle" => newTags = {}
    /\ \A p \in Clients : pc[p] \in Deleting /\ arg[p] \notin raced =>
          ipc = "idle" /\ \A q \in Clients \ {p} : arg[q] # arg[p]

(* If nothing failed, such a deletion has taken the record out of the cache
   and the store by the time it goes on; and what is gone stays so, as no call
   and no scan is on the way to putting it back. *)
ClearedInv ==
    faults = 0 =>
      /\ \A p \in Clients : pc[p] \in {"untag", "unblob", "unindex"} /\ arg[p] \notin raced =>
            /\ arg[p] \notin cacheRec \cup cacheMeta
            /\ pc[p] # "untag" => arg[p] \notin tagged
      /\ \A c \in gone \ raced :
            /\ c \notin tagged \cup cacheRec \cup cacheMeta \cup index \cup newTags
            /\ pulled # c
            /\ \A p \in Clients : arg[p] = c => pc[p] \notin Pushing \cup {"keep", "keepMeta"}

(* While no push and no deletion of a record is under way, registry and index
   agree on whether it exists: the indexer, pushes that find the record present
   and repeated deletions cannot drive them apart, if nothing failed or was cut
   off and the record's deletions raced with nothing. *)
RegistryAndIndexAgree ==
    faults = 0 /\ aborts = 0 =>
        \A c \in Cids \ raced :
            On(c, Pushing \cup Deleting) = {} => (c \in tagged <=> c \in index)

(* What makes it inductive: a call that has changed one and not yet the other
   is still under way, and the indexer adds only what the registry has. *)
AgreeInv ==
    faults = 0 /\ aborts = 0 =>
        \A c \in Cids \ raced :
            /\ c \in tagged \ index => On(c, {"cache", "index"}) # {}
            /\ c \in index \ tagged => On(c, {"unblob", "unindex"}) # {}
            /\ c \in newTags \/ c = pulled \/ On(c, {"cache", "index"}) # {} => c \in tagged

(* "It scans the local OCI registry for unindexed records and adds them to the
   database" (indexer/task.go:28): a tag the indexer has not seen is indexed,
   also if the push that made it was cut off, unless it is removed again, a
   call fails (failures are not retried), or deletions race with it. *)
NewTagIsIndexed ==
    \A c \in Cids :
        (c \in tagged /\ c \notin index /\ c \notin last)
            ~> (c \in index \/ c \notin tagged \/ faults > 0 \/ c \in raced)

(* "Delete removes a record from both cache and source store" (cache.go:110):
   after a deletion that no push overlapped, once all calls are done, neither
   has it.  The code does not keep this (DeletedIsGone says what it keeps): a
   Pull that has read the source before the deletion fills the cache after it. *)
DeleteRemovesBoth ==
    faults = 0 /\ (\A p \in Clients : pc[p] = "idle")
        => gone \cap (tagged \cup cacheRec \cup cacheMeta) = {}
=============================================================================
