------------------------------ MODULE Registry ------------------------------
(***************************************************************************)
(* One tenant's catalog: the directory of base models and the directory of *)
(* LoRA adapters, the in-memory indexes over them, the downloads that fill *)
(* them from worker threads, and the removals, which run on the event      *)
(* loop.  A file system call is a step; a thread may be stopped between    *)
(* any two of them, and so may the process, and what a download writes may *)
(* fail (the disk is full).  A directory is read when it                   *)
(* is first asked for after a start; another tenant has directories and    *)
(* indexes of its own, which none of this touches.                         *)
(*                                                                         *)
(* Files are named after the hash of the plaintext, entries after the file *)
(* name in the repository: two ids may share one content, and one id may   *)
(* be downloaded in two versions.  Two downloads of one content write the  *)
(* same temporary file.                                                    *)
(***************************************************************************)
EXTENDS Integers, FiniteSets, FiniteSetsExt

CONSTANTS Models, Loras,          \* ids (normalize_id of the file names)
          ModelShas, LoraShas,    \* plaintext hashes
          Threads,                \* asyncio.to_thread workers
          NoId, NoSha, NoFile,    \* absent entry, hash, file
          Corrupt,                \* a sidecar cut short
          SizeOf,                 \* [hashes -> bytes_plaintext]
          OVERHEAD,               \* ciphertext is longer than plaintext by this
          QUOTA,                  \* disk_quota_gb
          MaxDownloads            \* bound of the model

Ids == Models \cup Loras
Shas == ModelShas \cup LoraShas

ASSUME RegistryAssumption ==
    /\ Models \cap Loras = {} /\ ModelShas \cap LoraShas = {}
    /\ NoId \notin Ids /\ Corrupt \notin Ids /\ NoSha \notin Shas
    /\ NoFile \notin [by : SUBSET Threads, bad : BOOLEAN, shared : BOOLEAN]
    /\ IsFiniteSet(Shas) /\ IsFiniteSet(Threads)
    /\ SizeOf \in [Shas -> Nat] /\ OVERHEAD \in Nat /\ QUOTA \in Nat /\ MaxDownloads \in Nat

VARIABLES index,    \* _by_id of both registries: [Ids -> hash or NoSha]
          opened,   \* directories whose registry is in the factory's _cache
          blob,     \* <sha>.gguf.age, <sha>.lora.gguf.age
          tmp,      \* the same with the suffix .tmp
          meta,     \* the sidecars: the id they hold, NoId or Corrupt
          dl,       \* the downloads
          rm,       \* the removal the event loop is in
          started,  \* number of downloads so far
          asked,    \* history: hashes that were downloaded under an id
          crossed,  \* history: ids with overlapping operations
          cut,      \* history: contents whose removal a crash has stopped
                    \* between the blob and the sidecar
          raced     \* history: directories with overlapping downloads

disk == <<blob, tmp, meta>>
history == <<started, asked, crossed, cut, raced>>
registries == <<index, opened>>
vars == <<registries, disk, dl, rm, history>>

(* <storage_dir> and its sibling loras/ *)
Dirs == {"models", "loras"}
Dir(sha) == IF sha \in ModelShas THEN "models" ELSE "loras"
DirOf(id) == IF id \in Models THEN "models" ELSE "loras"

(* A file on disk: who has it open for writing, whether what is in it is no *)
(* ciphertext of the model, and (history) whether it was opened as the      *)
(* temporary file of two downloads.                                         *)
File(by, bad, shared) == [by |-> by, bad |-> bad, shared |-> shared]

(* decrypt_to_tmpfs finds a whole ciphertext in it. *)
Decrypts(f) == f # NoFile /\ f.by = {} /\ ~f.bad

(* An operation on an entry, and where it has got to *)
Operation(pc, id, sha) == [pc |-> pc, id |-> id, sha |-> sha]

Idle == Operation("idle", NoId, NoSha)
Active == {t \in Threads : dl[t].pc # "idle"}

Empty == [id \in Ids |-> NoSha]

Init == /\ index = Empty
        /\ opened = {}
        /\ blob = [s \in Shas |-> NoFile]
        /\ tmp = [s \in Shas |-> NoFile]
        /\ meta = [s \in Shas |-> NoId]
        /\ dl = [t \in Threads |-> Idle]
        /\ rm = Idle
        /\ started = 0
        /\ asked = [id \in Ids |-> {}]
        /\ crossed = {}
        /\ cut = {}
        /\ raced = {}

-----------------------------------------------------------------------------
(* Opening a registry: the sidecars are read in any order.  A corrupt one   *)
(* is skipped, the last one read of an id wins.                             *)

ModelSidecars(id) == {s \in ModelShas : meta[s] = id}
LoraSidecars(id) == {s \in LoraShas : meta[s] = id}
OneOf(ss) == IF ss = {} THEN {NoSha} ELSE ss

Indexes == [Ids -> Shas \cup {NoSha}]

ModelRegistry ==
    {ix \in Indexes : /\ \A id \in Models : ix[id] \in OneOf(ModelSidecars(id))
                      /\ \A id \in Loras : ix[id] = index[id]}

LoraRegistry ==
    {ix \in Indexes : /\ \A id \in Loras : ix[id] \in OneOf(LoraSidecars(id))
                      /\ \A id \in Models : ix[id] = index[id]}

(* The indexes after for_tenant: the registry from the cache, or a new one  *)
ForTenant(d) == CASE d \in opened -> {index}
                  [] d \notin opened /\ d = "models" -> ModelRegistry
                  [] OTHER -> LoraRegistry

(* A request that does nothing else to the registry *)
Opens(d) ==
    /\ d \notin opened
    /\ index' \in ForTenant(d)
    /\ opened' = opened \cup {d}
    /\ UNCHANGED <<disk, dl, rm, history>>

ListModels == rm = Idle /\ Opens("models")
ListTenants == rm = Idle /\ Opens("models")
ListLoras == rm = Idle /\ Opens("loras")

-----------------------------------------------------------------------------
(* Downloads *)

Goes(t, pc) == dl' = [dl EXCEPT ![t].pc = pc]
Ends(t) == dl' = [dl EXCEPT ![t] = Idle]

(* Ids that some other operation in flight is about *)
Overlapped(id, sha) ==
    {i \in {id} \cup {dl[t].id : t \in Active} \cup ({rm.id} \ {NoId}) :
        \/ \E t \in Active : (dl[t].id = id \/ dl[t].sha = sha) /\ i \in {id, dl[t].id}
        \/ rm # Idle /\ (rm.id = id \/ rm.sha = sha) /\ i \in {id, rm.id}}

(* The request has been accepted (allow_download, allowed_repo_prefixes)    *)
(* and the file is in the scratch directory.                                *)
Fetched(t, id, sha) ==
    /\ dl[t] = Idle
    /\ started < MaxDownloads
    /\ started' = started + 1
    /\ index' \in ForTenant(DirOf(id))
    /\ opened' = opened \cup {DirOf(id)}
    /\ dl' = [dl EXCEPT ![t] = Operation("quota", id, sha)]
    /\ asked' = [asked EXCEPT ![id] = @ \cup {sha}]
    /\ crossed' = crossed \cup Overlapped(id, sha)
    /\ UNCHANGED <<disk, rm, cut, raced>>

DownloadModel(t) == \E id \in Models, sha \in ModelShas : Fetched(t, id, sha)
DownloadLora(t) == \E id \in Loras, sha \in LoraShas : Fetched(t, id, sha)

OnDisk(d) == {s \in Shas : Dir(s) = d /\ blob[s] # NoFile}
Used(d) == MapThenSumSet(LAMBDA s : SizeOf[s] + OVERHEAD, OnDisk(d))

(* Mutant: the incoming file is not counted. *)
WithinQuotaNow(sha) == Used(Dir(sha)) <= QUOTA

(* _check_disk_quota: the blobs of this directory and the incoming file     *)
WithinQuota(sha) == Used(Dir(sha)) + SizeOf[sha] <= QUOTA

Sealing(d) == {t \in Threads : dl[t].pc \in {"open", "close", "replace"} /\ Dir(dl[t].sha) = d}

CheckQuota(t) ==
    /\ dl[t].pc = "quota"
    /\ \/ /\ WithinQuota(dl[t].sha)
          /\ Goes(t, "open")
          /\ raced' = IF Sealing(Dir(dl[t].sha)) # {} THEN raced \cup {Dir(dl[t].sha)} ELSE raced
       \/ Ends(t) /\ UNCHANGED raced   \* quota exceeded, or SHA256_MISMATCH
    /\ UNCHANGED <<registries, disk, rm, started, asked, crossed, cut>>

(* Mutant: the ciphertext is written under the final name. *)
OpenInPlace(t) ==
    /\ dl[t].pc = "open"
    /\ blob' = [blob EXCEPT ![dl[t].sha] = File({t}, FALSE, FALSE)]
    /\ Goes(t, "close")
    /\ UNCHANGED <<registries, tmp, meta, rm, history>>

(* Another download has the temporary file open, or has yet to rename it.   *)
Contended(t) == \E u \in Threads \ {t} : dl[u].sha = dl[t].sha /\ dl[u].pc \in {"close", "replace"}

(* encrypt_file: open the temporary file and cut it to nothing.  A writer   *)
(* that is still at it goes on at its own offset: the two ciphertexts may   *)
(* end up mixed.                                                            *)
OpenTmp(t) ==
    LET f == tmp[dl[t].sha] IN
    /\ dl[t].pc = "open"
    /\ \E bad \in IF f # NoFile /\ f.by # {} THEN BOOLEAN ELSE {FALSE} :
          tmp' = [tmp EXCEPT ![dl[t].sha] =
                     File({t} \cup (IF f = NoFile THEN {} ELSE f.by), bad, Contended(t))]
    /\ Goes(t, "close")
    /\ UNCHANGED <<registries, blob, meta, rm, history>>

Released(f, t) == IF f = NoFile THEN f ELSE File(f.by \ {t}, f.bad, f.shared)

(* All bytes are written.  The file may have been renamed by the other      *)
(* writer in the meantime.                                                  *)
CloseTmp(t) ==
    /\ dl[t].pc = "close"
    /\ tmp' = [tmp EXCEPT ![dl[t].sha] = Released(@, t)]
    /\ blob' = [blob EXCEPT ![dl[t].sha] = Released(@, t)]
    /\ Goes(t, "replace")
    /\ UNCHANGED <<registries, meta, rm, history>>

(* os.replace; stat *)
Replace(t) ==
    LET sha == dl[t].sha IN
    /\ dl[t].pc = "replace"
    /\ \/ /\ tmp[sha] # NoFile
          /\ blob' = [blob EXCEPT ![sha] = tmp[sha]]
          /\ tmp' = [tmp EXCEPT ![sha] = NoFile]
          /\ cut' = cut \ {sha}
          /\ Goes(t, "meta")
       \/ /\ tmp[sha] = NoFile           \* FileNotFoundError, a plain 500
          /\ Ends(t)
          /\ UNCHANGED <<blob, tmp, cut>>
    /\ UNCHANGED <<registries, meta, rm, started, asked, crossed, raced>>

(* registry.add: write_meta is not atomic, then the index *)
OpenMeta(t) ==
    /\ dl[t].pc = "meta"
    /\ meta' = [meta EXCEPT ![dl[t].sha] = Corrupt]
    /\ Goes(t, "sidecar")
    /\ UNCHANGED <<registries, blob, tmp, rm, history>>

(* Mutant: the sidecar names the content instead of the entry. *)
WriteMetaSha(t) ==
    /\ dl[t].pc = "sidecar"
    /\ meta' = [meta EXCEPT ![dl[t].sha] = dl[t].sha]
    /\ Goes(t, "index")
    /\ UNCHANGED <<registries, blob, tmp, rm, history>>

WriteMeta(t) ==
    /\ dl[t].pc = "sidecar"
    /\ meta' = [meta EXCEPT ![dl[t].sha] = dl[t].id]
    /\ Goes(t, "index")
    /\ UNCHANGED <<registries, blob, tmp, rm, history>>

(* OSError from any of these: what has been written stays as it is, the     *)
(* request ends with a plain 500 and the process goes on.                   *)
Broken(f, t) == IF f # NoFile /\ t \in f.by THEN File(f.by \ {t}, TRUE, f.shared) ELSE f

WriteFails(t) ==
    /\ dl[t].pc \in {"open", "close", "replace", "meta", "sidecar"}
    /\ tmp' = [tmp EXCEPT ![dl[t].sha] = Broken(@, t)]
    /\ blob' = [blob EXCEPT ![dl[t].sha] = Broken(@, t)]
    /\ Ends(t)
    /\ UNCHANGED <<registries, meta, rm, history>>

Add(t) ==
    /\ dl[t].pc = "index"
    /\ index' = [index EXCEPT ![dl[t].id] = dl[t].sha]
    /\ Ends(t)
    /\ UNCHANGED <<opened, disk, rm, history>>

-----------------------------------------------------------------------------
(* Removal: POST /v1/models/remove, POST /v1/admin/loras/rm *)

Pop(id) ==
    /\ rm = Idle
    /\ \E ix \in ForTenant(DirOf(id)) :
          /\ ix[id] # NoSha
          /\ rm' = Operation("blob", id, ix[id])
          /\ index' = [ix EXCEPT ![id] = NoSha]
          /\ crossed' = crossed \cup Overlapped(id, ix[id])
    /\ opened' = opened \cup {DirOf(id)}
    /\ UNCHANGED <<disk, dl, started, asked, cut, raced>>

RemoveModel == \E id \in Models : Pop(id)
RemoveLora == \E id \in Loras : Pop(id)

UnlinkBlob ==
    /\ rm.pc = "blob"
    /\ blob' = [blob EXCEPT ![rm.sha] = NoFile]
    /\ rm' = [rm EXCEPT !.pc = "meta"]
    /\ UNCHANGED <<registries, tmp, meta, dl, history>>

(* Mutant: the sidecar is left behind. *)
UnlinkMetaForgotten ==
    /\ rm.pc = "meta"
    /\ rm' = Idle
    /\ cut' = cut \ {rm.sha}
    /\ UNCHANGED <<registries, disk, dl, started, asked, crossed, raced>>

UnlinkMeta ==
    /\ rm.pc = "meta"
    /\ meta' = [meta EXCEPT ![rm.sha] = NoId]
    /\ rm' = Idle
    /\ cut' = cut \ {rm.sha}
    /\ UNCHANGED <<registries, blob, tmp, dl, started, asked, crossed, raced>>

-----------------------------------------------------------------------------
(* The process dies; the next one has opened no registry yet.               *)

Torn(f) == IF f # NoFile /\ f.by # {} THEN File({}, TRUE, f.shared) ELSE f

Restart ==
    /\ index' = Empty
    /\ opened' = {}
    /\ blob' = [s \in Shas |-> Torn(blob[s])]
    /\ tmp' = [s \in Shas |-> Torn(tmp[s])]
    /\ dl' = [t \in Threads |-> Idle]
    /\ rm' = Idle
    /\ cut' = IF rm.pc = "meta" THEN cut \cup {rm.sha} ELSE cut
    /\ UNCHANGED <<meta, started, asked, crossed, raced>>

Next ==
    \/ \E t \in Threads :
          \/ DownloadModel(t) \/ DownloadLora(t) \/ CheckQuota(t)
          \/ OpenTmp(t) \/ CloseTmp(t) \/ Replace(t)
          \/ OpenMeta(t) \/ WriteMeta(t) \/ WriteFails(t) \/ Add(t)
    \/ ListModels \/ ListTenants \/ ListLoras
    \/ RemoveModel \/ RemoveLora \/ UnlinkBlob \/ UnlinkMeta
    \/ Restart

Spec == Init /\ [][Next]_vars

-----------------------------------------------------------------------------
Phases == {"idle", "quota", "open", "close", "replace", "meta", "sidecar", "index"}
Files == [by : SUBSET Threads, bad : BOOLEAN, shared : BOOLEAN] \cup {NoFile}

TypeOK ==
    /\ index \in Indexes /\ opened \subseteq Dirs
    /\ blob \in [Shas -> Files] /\ tmp \in [Shas -> Files]
    /\ meta \in [Shas -> Ids \cup {NoId, Corrupt}]
    /\ dl \in [Threads -> [pc : Phases, id : Ids \cup {NoId}, sha : Shas \cup {NoSha}]]
    /\ rm \in [pc : {"idle", "blob", "meta"}, id : Ids \cup {NoId}, sha : Shas \cup {NoSha}]
    /\ started \in 0 .. MaxDownloads
    /\ asked \in [Ids -> SUBSET Shas]
    /\ crossed \subseteq Ids /\ cut \subseteq Shas /\ raced \subseteq Dirs

(* An id that was only ever downloaded in one version, with a content no    *)
(* other id has, by operations on it that did not overlap in time.          *)
Plain(id) == /\ id \notin crossed
             /\ Cardinality(asked[id]) = 1
             /\ \A other \in Ids \ {id} : asked[other] \cap asked[id] = {}

Quiet(id) == rm.id # id /\ \A t \in Threads : dl[t].id # id

(* For a plain id, whatever else is downloaded, removed, fails or is cut    *)
(* short by a crash: what is listed, now or by a registry opened after a    *)
(* restart, can be decrypted, unless a crash has stopped its removal        *)
(* between the two files; what has a sidecar is listed; and what is listed  *)
(* has its sidecar, unless a later download of the same content failed      *)
(* while writing it (download_and_seal, encrypt_file, add, remove,          *)
(* for_tenant, _reload).                                                    *)
CatalogMirrorsDisk ==
    \A id \in Ids : \A sha \in asked[id] : Plain(id) /\ Quiet(id) =>
       /\ sha \notin cut /\ (meta[sha] = id \/ index[id] = sha) => Decrypts(blob[sha])
       /\ DirOf(id) \in opened => /\ meta[sha] = id => index[id] = sha
                                  /\ index[id] = sha => meta[sha] \in {id, Corrupt}

(* Under its final name a blob is absent or complete at every moment, also  *)
(* right after a crash or a failed write, unless this very file was opened  *)
(* by two downloads of the same content before it was renamed               *)
(* (encrypt_file).                                                          *)
BlobIsWhole ==
    \A sha \in Shas : blob[sha] # NoFile /\ ~Decrypts(blob[sha]) => blob[sha].shared

(* "Encrypt src to dst.age atomically" (encrypt_file, at_rest.py:63): under *)
(* its final name a blob is absent or complete at every moment.             *)
BlobIsAtomic == \A sha \in Shas : blob[sha] # NoFile => Decrypts(blob[sha])

(* Models and adapters each have the whole quota, unlike what the comment   *)
(* in _check_disk_quota says (OneBudget).  A directory outgrows it by no    *)
(* more than what the downloads that passed the check together bring, and   *)
(* by the overhead of one file when they come one after the other.          *)
QuotaBound ==
    \A d \in Dirs :
       Used(d) <= QUOTA + (IF d \in raced
                           THEN (Cardinality(Threads) - 1) * Max({SizeOf[s] : s \in Shas})
                                + Cardinality(Threads) * OVERHEAD
                           ELSE OVERHEAD)

(* The check "Counts both base models ... and LoRA adapters ... since they  *)
(* share the operator's quota budget" (_check_disk_quota,                   *)
(* downloader.py:43-44): with downloads one after the other, the two        *)
(* directories together outgrow the quota by the overhead of one file.      *)
OneBudget == Used("models") + Used("loras") <= QUOTA + OVERHEAD
=============================================================================
