----------------------------- MODULE TUFClient -----------------------------
(***************************************************************************)
(* The TUF client of pkg/tuf/client.go: a process-wide singleton that      *)
(* keeps TUF metadata and target files in memory and, unless               *)
(* SIGSTORE_NO_CACHE is set, in a cache directory that outlives the        *)
(* process.                                                                *)
(*                                                                         *)
(* A metadata file is abstracted to the repository that signed it and a    *)
(* version.  Every mirror serves one repository, named after the mirror,   *)
(* which publishes releases 1, 2, ...; a release is a timestamp that names *)
(* (through the snapshot) a version of targets.json, and Catalog says what *)
(* that version lists.  A target's bytes are abstracted to the content the *)
(* metadata's hashes identify; a file truncated by os.WriteFile is Torn.   *)
(*                                                                         *)
(* go-tuf (client.Client, its local stores) is not part of the repository  *)
(* and is modelled from its use: Update persists each metadata file in the *)
(* in-memory store as soon as it is verified, refuses to go back to an     *)
(* older version, and returns only the targets it found updated.           *)
(***************************************************************************)
EXTENDS Naturals, FiniteSets

CONSTANTS
    Threads,        \* goroutines of the process that use the package
    Mirrors,        \* mirror references a caller or remote.json can name
    DefaultMirror,  \* DefaultRemoteRoot; its root.json is the embedded one
    Legacy,         \* references that Mirror() rewrites to DefaultMirror
    Names,          \* target names
    Contents,       \* target contents, as told apart by their hashes
    Usages,         \* values of UsageKind
    Statuses,       \* values of StatusKind
    Active,         \* the StatusKind given to fallback targets
    Fallbacks,      \* fallback target names of GetTargetsByMeta's callers
    MaxRelease,     \* bound: the last release of a repository
    TargetsVersion, \* mirror -> release -> version of targets.json
    Catalog,        \* mirror -> version of targets.json -> name -> entry
    Embedded,       \* name -> content of the targets embedded in the binary
    NoCache,        \* SIGSTORE_NO_CACHE
    Faults,         \* whether I/O may fail and the process may die
    None,           \* "not there": nil, a missing file or map entry
    Torn            \* a file truncated and not (fully) written

Releases == 1..MaxRelease
Entry    == [content : Contents, usage : Usages, status : Statuses]

ASSUME ConstantsAssumption ==
    /\ MaxRelease \in Nat
    /\ DefaultMirror \in Mirrors
    /\ Legacy \subseteq Mirrors \ {DefaultMirror}
    /\ Fallbacks \subseteq Names
    /\ Active \in Statuses
    /\ NoCache \in BOOLEAN
    /\ Faults \in BOOLEAN

ASSUME RepositoryAssumption ==
    /\ TargetsVersion \in [Mirrors -> [Releases -> Releases]]
    /\ \A m \in Mirrors : \A r, s \in Releases :
          r <= s => TargetsVersion[m][r] <= TargetsVersion[m][s]
    /\ Catalog \in [Mirrors -> [Releases -> [Names -> Entry \cup {None}]]]
    /\ Embedded \in [Names -> Contents \cup {None}]

Roles == {"root", "timestamp", "snapshot", "targets"}

\* A metadata file: who signed it and its version.  A snapshot's version is
\* the version of targets.json it names; root rotation is not modelled.
File == [repo : Mirrors, ver : Releases \cup {0}]

NoStore == [k \in Roles |-> None]

ASSUME DistinctAssumption ==
    /\ None \notin Threads \cup Mirrors \cup Names \cup Contents \cup Entry \cup File
    /\ Torn \notin Contents \cup Mirrors \cup {None}

-----------------------------------------------------------------------------
VARIABLES
    remote,     \* the release each mirror has reached
    expired,    \* the timestamps of releases up to this one have expired
    disk,       \* metadata in ${TUF_ROOT}/tuf.db
    files,      \* target files in ${TUF_ROOT}/targets
    remoteJSON, \* ${TUF_ROOT}/remote.json: None, Torn or a mirror
    once,       \* singletonTUFOnce: "unset", "built" or "failed" (sticky error)
    mirror,     \* singletonTUF.mirror
    mem,        \* singletonTUF.local, the in-memory metadata store
    cache,      \* the memoryCache of singletonTUF.targets
    handed,     \* some NewFromEnv has returned singletonTUF to its caller
    initMu,     \* the holder of initMu
    mutex,      \* the holder of singletonTUF's embedded sync.Mutex
    pc,         \* where each goroutine is
    call,       \* arguments of its NewFromEnv or Initialize call
    tosync,     \* syncLocalMeta: roles not yet copied to disk
    todo,       \* targets still to be visited by the download loop
    writing,    \* target whose file diskCache.Set is writing
    reader      \* locals of its GetTarget or GetTargetsByMeta call

world   == <<remote, expired>>
storage == <<disk, files, remoteJSON>>
object  == <<once, mirror, mem, cache, handed>>
update  == <<tosync, todo, writing>>
threads == <<pc, call, reader>>
vars    == <<world, storage, object, initMu, mutex, update, threads>>

Call   == [op : {"NewFromEnv", "Initialize"}, mirror : Mirrors,
           root : Mirrors \cup {None}]
NoCall == [op |-> "NewFromEnv", mirror |-> DefaultMirror, root |-> None]

\* One TargetFile of a result, with the targets.json it was checked against.
TargetFile == [name : Names, content : Contents \cup {None, Torn}, status : Statuses,
               meta : File]
Reader   == [mode : {"none", "target", "usage", "fallback"},
             name : Names \cup {None}, want : File \cup {None},
             listed : File \cup {None}, pending : SUBSET Names,
             found : SUBSET TargetFile]
NoReader == [mode |-> "none", name |-> None, want |-> None, listed |-> None,
             pending |-> {}, found |-> {}]

\* Program points inside initializeTUF, that is while initMu is held.
UpdatePCs == {"timestamp", "snapshot", "targets", "sync", "download",
              "write", "writing"}
InitPCs   == {"check"} \cup UpdatePCs
PCs       == {"idle", "lock", "store", "storing", "next", "meta", "bytes",
              "return"} \cup InitPCs

TypeOK ==
    /\ remote \in [Mirrors -> Releases \cup {0}]
    /\ expired \in [Mirrors -> Releases \cup {0}]
    /\ disk \in [Roles -> File \cup {None}]
    /\ files \in [Names -> Contents \cup {None, Torn}]
    /\ remoteJSON \in Mirrors \cup {None, Torn}
    /\ once \in {"unset", "built", "failed"}
    /\ mirror \in Mirrors \cup {None}
    /\ mem \in [Roles -> File \cup {None}]
    /\ cache \in [Names -> Contents \cup {None}]
    /\ handed \in BOOLEAN
    /\ initMu \in Threads \cup {None}
    /\ mutex \in Threads \cup {None}
    /\ pc \in [Threads -> PCs]
    /\ call \in [Threads -> Call]
    /\ tosync \in SUBSET Roles
    /\ todo \in SUBSET Names
    /\ writing \in Names \cup {None}
    /\ reader \in [Threads -> Reader]

-----------------------------------------------------------------------------
(* Pure operators                                                          *)

\* (*TUF).Mirror: legacy references to the public good root become the CDN.
Mirror(m) == IF m \in Legacy THEN DefaultMirror ELSE m

\* isExpiredTimestamp looks at the expiry alone, whoever signed the file.
isExpiredTimestamp(f) == f.ver <= expired[f.repo]

\* A metadata file that verifies under the root of the store it is in.
Verified(store, k) == /\ store["root"] # None
                      /\ store[k] # None
                      /\ store[k].repo = store["root"].repo

\* The version the client holds of a role; 0 when it holds none it trusts.
Held(store, k) == IF Verified(store, k) THEN store[k].ver ELSE 0

\* What a targets.json lists for a name (None when it does not list it).
Lookup(f, n) == IF f = None \/ f.ver = 0 THEN None ELSE Catalog[f.repo][f.ver][n]

\* The targets.json the client trusts as a whole: it verifies and is the
\* version the snapshot names.
Consistent(store) == /\ Verified(store, "snapshot")
                     /\ Verified(store, "targets")
                     /\ store["targets"] = store["snapshot"]

\* (*Client).Targets: the listing held in memory.
Targets(store) == IF Verified(store, "targets") THEN store["targets"] ELSE None
Listed(store)  == {n \in Names : Lookup(Targets(store), n) # None}

\* diskCache.Get / memoryCache.Get: memory first, then the file.
Get(n) == IF cache[n] # None THEN cache[n]
          ELSE IF NoCache THEN None ELSE files[n]

\* Variant: any bytes that are there will do.
isValidTargetPresent(b, e) == b # None

\* isValidTarget: the bytes have the length and hashes of the entry.
isValidTarget(b, e) == b = e.content

\* The targets that the metadata the client trusts lists can all be served.
Complete ==
    \A n \in Names :
        LET e == Lookup(Targets(mem), n)
        IN e # None => isValidTarget(Get(n), e)
-----------------------------------------------------------------------------
(* The repositories, the clock, and the death of the process               *)

Publish(m) ==
    /\ remote[m] < MaxRelease
    /\ remote' = [remote EXCEPT ![m] = @ + 1]
    /\ UNCHANGED <<expired, storage, object, initMu, mutex, update, threads>>

Expire(m) ==
    /\ expired[m] < remote[m]
    /\ expired' = [expired EXCEPT ![m] = @ + 1]
    /\ UNCHANGED <<remote, storage, object, initMu, mutex, update, threads>>

\* The process ends, or dies at any point, and is started again: what is in
\* the cache directory is all that is left.
Restart ==
    /\ Faults \/ \A t \in Threads : pc[t] = "idle"
    /\ once # "unset" \/ \E t \in Threads : pc[t] # "idle"
    /\ once' = "unset" /\ mirror' = None /\ mem' = NoStore
    /\ cache' = [n \in Names |-> None]
    /\ handed' = FALSE
    /\ initMu' = None /\ mutex' = None
    /\ pc' = [t \in Threads |-> "idle"]
    /\ call' = [t \in Threads |-> NoCall]
    /\ tosync' = {} /\ todo' = {} /\ writing' = None
    /\ reader' = [t \in Threads |-> NoReader]
    /\ UNCHANGED <<world, storage>>

-----------------------------------------------------------------------------
(* NewFromEnv and Initialize up to initializeTUF                           *)

\* Variant: a remote.json that does not parse is not noticed.
EnvMirrorUnparsed == IF remoteJSON # None THEN remoteJSON ELSE DefaultMirror

\* The mirror of a NewFromEnv call: remote.json's, when that parses.
EnvMirror == IF remoteJSON \in Mirrors THEN remoteJSON ELSE DefaultMirror

NewFromEnv(t) ==
    /\ pc[t] = "idle"
    /\ call' = [call EXCEPT ![t] =
                   [op |-> "NewFromEnv", mirror |-> EnvMirror, root |-> None]]
    /\ pc' = [pc EXCEPT ![t] = "lock"]
    /\ UNCHANGED <<world, storage, object, initMu, mutex, update, reader>>

Initialize(t, m, r) ==
    /\ pc[t] = "idle"
    /\ call' = [call EXCEPT ![t] = [op |-> "Initialize", mirror |-> m, root |-> r]]
    /\ pc' = [pc EXCEPT ![t] = "lock"]
    /\ UNCHANGED <<world, storage, object, initMu, mutex, update, reader>>

\* Variant: an error path returns with initMu held.
ReturnLocked(t, ok) ==
    /\ initMu' = IF ok THEN None ELSE initMu
    /\ handed' = IF ok /\ call[t].op = "NewFromEnv" THEN TRUE ELSE handed
    /\ IF ok /\ call[t].op = "Initialize" /\ ~NoCache
       THEN pc' = [pc EXCEPT ![t] = "store"] /\ UNCHANGED call
       ELSE pc' = [pc EXCEPT ![t] = "idle"] /\ call' = [call EXCEPT ![t] = NoCall]
    /\ tosync' = {} /\ todo' = {} /\ writing' = None

\* initializeTUF returns: initMu is released.  Initialize goes on to store
\* the mirror; NewFromEnv hands the singleton to its caller.
Return(t, ok) ==
    /\ initMu' = None
    /\ handed' = IF ok /\ call[t].op = "NewFromEnv" THEN TRUE ELSE handed
    /\ IF ok /\ call[t].op = "Initialize" /\ ~NoCache
       THEN pc' = [pc EXCEPT ![t] = "store"] /\ UNCHANGED call
       ELSE pc' = [pc EXCEPT ![t] = "idle"] /\ call' = [call EXCEPT ![t] = NoCall]
    /\ tosync' = {} /\ todo' = {} /\ writing' = None

-----------------------------------------------------------------------------
(* initializeTUF: singletonTUFOnce, then the check of the local timestamp  *)

\* Variant: the store on disk is not read back.
newLocalStoreEmpty == NoStore

\* newLocalStore: an in-memory copy of the metadata on disk.
newLocalStore == IF NoCache THEN NoStore ELSE disk

\* The caller's root, else the one in the local store, else the embedded one.
getRoot(t) == IF call[t].root # None THEN call[t].root
              ELSE IF newLocalStore["root"] # None THEN newLocalStore["root"].repo
              ELSE DefaultMirror

\* The first call builds the singleton with its own mirror and root; a later
\* one finds it built, and its arguments are not used.
EnterBuild(t) ==
    /\ pc[t] = "lock" /\ initMu = None
    /\ once = "unset"
    /\ once' = "built"
    /\ mirror' = call[t].mirror
    /\ mem' = [newLocalStore EXCEPT !["root"] = [repo |-> getRoot(t), ver |-> 0]]
    /\ initMu' = t
    /\ pc' = [pc EXCEPT ![t] = "check"]
    /\ UNCHANGED <<world, storage, cache, handed, mutex, update, call, reader>>

EnterBuilt(t) ==
    /\ pc[t] = "lock" /\ initMu = None
    /\ once = "built"
    /\ initMu' = t
    /\ pc' = [pc EXCEPT ![t] = "check"]
    /\ UNCHANGED <<world, storage, object, mutex, update, call, reader>>

\* The local store cannot be opened or the client not be initialized: the
\* error is kept in singletonTUFErr and the Once is spent.
BuildFails(t) ==
    /\ Faults
    /\ pc[t] = "lock" /\ initMu = None
    /\ once = "unset"
    /\ once' = "failed"
    /\ Return(t, FALSE)
    /\ UNCHANGED <<world, storage, mirror, mem, cache, mutex, reader>>

EnterFailed(t) ==
    /\ pc[t] = "lock" /\ initMu = None
    /\ once = "failed"
    /\ Return(t, FALSE)
    /\ UNCHANGED <<world, storage, once, mirror, mem, cache, mutex, reader>>

UpToDate(t) ==
    /\ mem["timestamp"] # None
    /\ ~isExpiredTimestamp(mem["timestamp"])
    /\ call[t].op = "NewFromEnv"

Golden(t) ==
    /\ pc[t] = "check"
    /\ UpToDate(t)
    /\ Return(t, TRUE)
    /\ UNCHANGED <<world, storage, once, mirror, mem, cache, mutex, reader>>

NeedUpdate(t) ==
    /\ pc[t] = "check"
    /\ ~UpToDate(t)
    /\ pc' = [pc EXCEPT ![t] = "timestamp"]
    /\ UNCHANGED <<world, storage, object, initMu, mutex, update, call, reader>>

-----------------------------------------------------------------------------
(* updateClient: go-tuf's Update, then syncLocalMeta                       *)

\* Update has succeeded and returned the given targets; unless caching is
\* off, every metadata file in memory is to be copied to disk.
Updated(t, store, names) ==
    /\ mem' = store
    /\ todo' = names
    /\ tosync' = IF NoCache THEN {} ELSE {k \in Roles : store[k] # None}
    /\ pc' = [pc EXCEPT ![t] = IF NoCache THEN "download" ELSE "sync"]
    /\ UNCHANGED <<world, storage, once, mirror, cache, handed, initMu, mutex,
                   writing, call, reader>>

\* A timestamp that verifies under the trusted root, has not expired and is
\* not older than the one held.  The mirror may lag behind the repository.
Fetchable(r) ==
    LET m == Mirror(mirror)
    IN /\ mem["root"].repo = m
       /\ r \in 1..remote[m]
       /\ r > expired[m]
       /\ r >= Held(mem, "timestamp")

\* The version held: Update stops here and returns all targets it knows.
UpdateSameTimestamp(t) ==
    /\ pc[t] = "timestamp"
    /\ \E r \in Releases : Fetchable(r) /\ r = Held(mem, "timestamp")
    /\ Updated(t, mem, Listed(mem))

UpdateTimestamp(t) ==
    /\ pc[t] = "timestamp"
    /\ \E r \in Releases :
          /\ Fetchable(r) /\ r # Held(mem, "timestamp")
          /\ mem' = [mem EXCEPT !["timestamp"] = [repo |-> Mirror(mirror), ver |-> r]]
    /\ pc' = [pc EXCEPT ![t] = "snapshot"]
    /\ UNCHANGED <<world, storage, once, mirror, cache, handed, initMu, mutex,
                   update, call, reader>>

UpdateSnapshot(t) ==
    LET m == Mirror(mirror)
        v == TargetsVersion[m][mem["timestamp"].ver]
    IN /\ pc[t] = "snapshot"
       /\ v >= Held(mem, "snapshot") /\ v >= Held(mem, "targets")
       /\ mem' = [mem EXCEPT !["snapshot"] = [repo |-> m, ver |-> v]]
       /\ pc' = [pc EXCEPT ![t] = "targets"]
       /\ UNCHANGED <<world, storage, once, mirror, cache, handed, initMu,
                      mutex, update, call, reader>>

\* The names whose entry is new or has other bytes than the entry held.
NewlyUpdated(old, new) ==
    {n \in Names :
        /\ Lookup(new, n) # None
        /\ \/ Lookup(old, n) = None
           \/ Lookup(old, n).content # Lookup(new, n).content}

UpdateTargets(t) ==
    /\ pc[t] = "targets"
    /\ Updated(t, [mem EXCEPT !["targets"] = mem["snapshot"]],
               NewlyUpdated(Targets(mem), mem["snapshot"]))

\* Variant: what the metadata store holds is given up with the update.
UpdateFailsForgets(t) ==
    /\ pc[t] \in {"timestamp", "snapshot", "targets"}
    /\ Faults \/ (pc[t] = "timestamp" /\ ~\E r \in Releases : Fetchable(r))
    /\ mem' = [mem EXCEPT !["timestamp"] = None]
    /\ Return(t, FALSE)
    /\ UNCHANGED <<world, storage, once, mirror, cache, mutex, reader>>

\* The mirror is not reachable, or serves what the client rejects.
UpdateFails(t) ==
    /\ pc[t] \in {"timestamp", "snapshot", "targets"}
    /\ Faults \/ (pc[t] = "timestamp" /\ ~\E r \in Releases : Fetchable(r))
    /\ Return(t, FALSE)
    /\ UNCHANGED <<world, storage, once, mirror, mem, cache, mutex, reader>>

\* Variant: the copy stops at targets.json.
AfterSyncStops(k) == IF k = "targets" THEN "download" ELSE "sync"

AfterSync(k) == IF tosync = {k} THEN "download" ELSE "sync"

\* syncLocalMeta: one SetMeta, in the order of a Go map range.
SyncMeta(t, k) ==
    /\ pc[t] = "sync"
    /\ k \in tosync
    /\ disk' = [disk EXCEPT ![k] = mem[k]]
    /\ tosync' = tosync \ {k}
    /\ pc' = [pc EXCEPT ![t] = AfterSync(k)]
    /\ UNCHANGED <<world, files, remoteJSON, object, initMu, mutex, todo,
                   writing, call, reader>>

SyncFails(t) ==
    /\ Faults
    /\ pc[t] = "sync"
    /\ Return(t, FALSE)
    /\ UNCHANGED <<world, storage, once, mirror, mem, cache, mutex, reader>>

-----------------------------------------------------------------------------
(* updateMetadataAndDownloadTargets: the loop over the updated targets     *)

\* Variant: a target is skipped when anything is cached under its name.
ValidPresent(n) == Get(n) # None

Valid(n) == isValidTarget(Get(n), Lookup(Targets(mem), n))

\* maybeDownloadRemoteTarget finds the target cached.
SkipTarget(t, n) ==
    /\ pc[t] = "download"
    /\ n \in todo
    /\ Valid(n)
    /\ todo' = todo \ {n}
    /\ UNCHANGED <<world, storage, object, initMu, mutex, tosync, writing,
                   threads>>

\* It copies the embedded target or downloads it (go-tuf checks the hashes),
\* and diskCache.Set stores it in memory first.
FetchTarget(t, n) ==
    /\ pc[t] = "download"
    /\ n \in todo
    /\ ~Valid(n)
    /\ cache' = [cache EXCEPT ![n] = Lookup(Targets(mem), n).content]
    /\ IF NoCache
       THEN todo' = todo \ {n} /\ UNCHANGED <<pc, writing>>
       ELSE /\ writing' = n
            /\ pc' = [pc EXCEPT ![t] = "write"]
            /\ UNCHANGED todo
    /\ UNCHANGED <<world, storage, once, mirror, mem, handed, initMu, mutex,
                   tosync, call, reader>>

DownloadFails(t, n) ==
    /\ Faults
    /\ pc[t] = "download"
    /\ n \in todo
    /\ ~Valid(n)
    /\ Embedded[n] # Lookup(Targets(mem), n).content
    /\ Return(t, FALSE)
    /\ UNCHANGED <<world, storage, once, mirror, mem, cache, mutex, reader>>

\* os.WriteFile truncates the file, then writes it.
TruncateFile(t) ==
    /\ pc[t] = "write"
    /\ files' = [files EXCEPT ![writing] = Torn]
    /\ pc' = [pc EXCEPT ![t] = "writing"]
    /\ UNCHANGED <<world, disk, remoteJSON, object, initMu, mutex, update,
                   call, reader>>

WriteFile(t) ==
    /\ pc[t] = "writing"
    /\ files' = [files EXCEPT ![writing] = cache[writing]]
    /\ todo' = todo \ {writing}
    /\ writing' = None
    /\ pc' = [pc EXCEPT ![t] = "download"]
    /\ UNCHANGED <<world, disk, remoteJSON, object, initMu, mutex, tosync,
                   call, reader>>

\* MkdirAll, or WriteFile before or after it truncated the file.
SetFails(t) ==
    /\ Faults
    /\ pc[t] \in {"write", "writing"}
    /\ Return(t, FALSE)
    /\ UNCHANGED <<world, storage, once, mirror, mem, cache, mutex, reader>>

UpdateDone(t) ==
    /\ pc[t] = "download"
    /\ todo = {}
    /\ Return(t, TRUE)
    /\ UNCHANGED <<world, storage, once, mirror, mem, cache, mutex, reader>>

-----------------------------------------------------------------------------
(* Initialize, after initializeTUF: remote.json, outside any lock          *)

TruncateRemote(t) ==
    /\ pc[t] = "store"
    /\ remoteJSON' = Torn
    /\ pc' = [pc EXCEPT ![t] = "storing"]
    /\ UNCHANGED <<world, disk, files, object, initMu, mutex, update, call, reader>>

\* Variants: the mirror of the caller, or the legacy reference, is stored.
StoredMirrorOfCall(t) == Mirror(call[t].mirror)
StoredMirrorLegacy(t) == mirror

\* Initialize asks the singleton, not its argument, for the mirror.
StoredMirror(t) == Mirror(mirror)

WriteRemote(t) ==
    /\ pc[t] = "storing"
    /\ remoteJSON' = StoredMirror(t)
    /\ pc' = [pc EXCEPT ![t] = "idle"]
    /\ call' = [call EXCEPT ![t] = NoCall]
    /\ UNCHANGED <<world, disk, files, object, initMu, mutex, update, reader>>

StoreFails(t) ==
    /\ Faults
    /\ pc[t] \in {"store", "storing"}
    /\ pc' = [pc EXCEPT ![t] = "idle"]
    /\ call' = [call EXCEPT ![t] = NoCall]
    /\ UNCHANGED <<world, storage, object, initMu, mutex, update, reader>>

-----------------------------------------------------------------------------
(* GetTarget and GetTargetsByMeta, on a singleton some caller was handed   *)

GetTarget(t, n) ==
    /\ pc[t] = "idle" /\ handed
    /\ pc' = [pc EXCEPT ![t] = "meta"]
    /\ reader' = [reader EXCEPT ![t] = [NoReader EXCEPT !.mode = "target",
                                                        !.name = n]]
    /\ UNCHANGED <<world, storage, object, initMu, mutex, update, call>>

\* The listing is taken under the mutex, which is released before the loop.
GetTargetsByMeta(t, u) ==
    /\ pc[t] = "idle" /\ handed
    /\ mutex = None
    /\ pc' = [pc EXCEPT ![t] = "next"]
    /\ reader' = [reader EXCEPT ![t] =
          [NoReader EXCEPT !.mode = "usage",
             !.listed = Targets(mem),
             !.pending = {n \in Listed(mem) : Lookup(Targets(mem), n).usage = u}]]
    /\ UNCHANGED <<world, storage, object, initMu, mutex, update, call>>

NextTarget(t, n) ==
    /\ pc[t] = "next"
    /\ n \in reader[t].pending
    /\ pc' = [pc EXCEPT ![t] = "meta"]
    /\ reader' = [reader EXCEPT ![t].name = n, ![t].pending = @ \ {n}]
    /\ UNCHANGED <<world, storage, object, initMu, mutex, update, call>>

\* Nothing matched the usage: the fallback names are tried.
TryFallbacks(t) ==
    /\ pc[t] = "next"
    /\ reader[t].mode = "usage" /\ reader[t].pending = {} /\ reader[t].found = {}
    /\ reader' = [reader EXCEPT ![t].mode = "fallback", ![t].pending = Fallbacks]
    /\ UNCHANGED <<world, storage, object, initMu, mutex, update, pc, call>>

Finish(t) ==
    /\ pc[t] = "next"
    /\ reader[t].pending = {}
    /\ reader[t].mode = "fallback" \/ reader[t].found # {}
    /\ pc' = [pc EXCEPT ![t] = "return"]
    /\ UNCHANGED <<world, storage, object, initMu, mutex, update, call, reader>>

\* GetTarget has failed: a missing fallback is skipped, any other failure is
\* the caller's error and drops what was found so far.
Missing(t) ==
    IF reader[t].mode = "fallback"
    THEN /\ pc' = [pc EXCEPT ![t] = "next"]
         /\ reader' = [reader EXCEPT ![t].name = None, ![t].want = None]
    ELSE /\ pc' = [pc EXCEPT ![t] = "return"]
         /\ reader' = [reader EXCEPT ![t] = NoReader]

\* client.Target, under the mutex: a local verification of the metadata.
TargetMeta(t) ==
    /\ pc[t] = "meta" /\ mutex = None
    /\ Consistent(mem) /\ Lookup(mem["targets"], reader[t].name) # None
    /\ mutex' = t
    /\ pc' = [pc EXCEPT ![t] = "bytes"]
    /\ reader' = [reader EXCEPT ![t].want = mem["targets"]]
    /\ UNCHANGED <<world, storage, object, initMu, update, call>>

TargetUnknown(t) ==
    /\ pc[t] = "meta" /\ mutex = None
    /\ ~(Consistent(mem) /\ Lookup(mem["targets"], reader[t].name) # None)
    /\ Missing(t)
    /\ UNCHANGED <<world, storage, object, initMu, mutex, update, call>>

\* The TargetFile GetTargetsByMeta makes of the bytes: the status is the
\* listing's, not that of the metadata the bytes were checked against.
Result(r) ==
    [name |-> r.name, content |-> Get(r.name), meta |-> r.want,
     status |-> CASE r.mode = "usage"    -> Lookup(r.listed, r.name).status
                  [] r.mode = "fallback" -> Active
                  [] OTHER               -> Lookup(r.want, r.name).status]

\* targets.Get, then isValidTarget on what was read.
TargetBytes(t) ==
    /\ pc[t] = "bytes"
    /\ isValidTarget(Get(reader[t].name), Lookup(reader[t].want, reader[t].name))
    /\ mutex' = None
    /\ pc' = [pc EXCEPT ![t] = IF reader[t].mode = "target" THEN "return" ELSE "next"]
    /\ reader' = [reader EXCEPT ![t].found = @ \cup {Result(reader[t])},
                                ![t].name = None, ![t].want = None]
    /\ UNCHANGED <<world, storage, object, initMu, update, call>>

TargetInvalid(t) ==
    /\ pc[t] = "bytes"
    /\ ~isValidTarget(Get(reader[t].name), Lookup(reader[t].want, reader[t].name))
    /\ mutex' = None
    /\ Missing(t)
    /\ UNCHANGED <<world, storage, object, initMu, update, call>>

ReadReturns(t) ==
    /\ pc[t] = "return"
    /\ pc' = [pc EXCEPT ![t] = "idle"]
    /\ reader' = [reader EXCEPT ![t] = NoReader]
    /\ UNCHANGED <<world, storage, object, initMu, mutex, update, call>>
-----------------------------------------------------------------------------
(* The specification                                                       *)

Init ==
    /\ remote = [m \in Mirrors |-> 0]
    /\ expired = [m \in Mirrors |-> 0]
    /\ disk = NoStore
    /\ files = [n \in Names |-> None]
    /\ remoteJSON = None
    /\ once = "unset" /\ mirror = None /\ mem = NoStore
    /\ cache = [n \in Names |-> None]
    /\ handed = FALSE
    /\ initMu = None /\ mutex = None
    /\ pc = [t \in Threads |-> "idle"]
    /\ call = [t \in Threads |-> NoCall]
    /\ tosync = {} /\ todo = {} /\ writing = None
    /\ reader = [t \in Threads |-> NoReader]

\* A caller starts one of the package's operations.
Calls(t) ==
    \/ NewFromEnv(t)
    \/ \E m \in Mirrors, r \in (Mirrors \ Legacy) \cup {None} : Initialize(t, m, r)
    \/ \E n \in Names : GetTarget(t, n)
    \/ \E u \in Usages : GetTargetsByMeta(t, u)

\* Steps that wait for initMu, and steps taken while holding it.
Enter(t) == EnterBuild(t) \/ EnterBuilt(t) \/ BuildFails(t) \/ EnterFailed(t)

UpdateStep(t) ==
    \/ Golden(t) \/ NeedUpdate(t)
    \/ UpdateSameTimestamp(t) \/ UpdateTimestamp(t) \/ UpdateSnapshot(t)
    \/ UpdateTargets(t) \/ UpdateFails(t)
    \/ \E k \in Roles : SyncMeta(t, k)
    \/ SyncFails(t)
    \/ \E n \in Names : SkipTarget(t, n) \/ FetchTarget(t, n) \/ DownloadFails(t, n)
    \/ TruncateFile(t) \/ WriteFile(t) \/ SetFails(t)
    \/ UpdateDone(t)

StoreStep(t) == TruncateRemote(t) \/ WriteRemote(t) \/ StoreFails(t)

\* Steps that wait for the singleton's mutex, and the other reader steps.
LockStep(t) == TargetMeta(t) \/ TargetUnknown(t)

ReadStep(t) ==
    \/ \E n \in Names : NextTarget(t, n)
    \/ TryFallbacks(t) \/ Finish(t)
    \/ TargetBytes(t) \/ TargetInvalid(t)
    \/ ReadReturns(t)

Next ==
    \/ \E m \in Mirrors \ Legacy : Publish(m) \/ Expire(m)
    \/ Restart
    \/ \E t \in Threads : Calls(t) \/ Enter(t) \/ UpdateStep(t) \/ StoreStep(t)
                          \/ LockStep(t) \/ ReadStep(t)

Spec == Init /\ [][Next]_vars

\* A goroutine that can run does run.  sync.Mutex hands the lock to a waiter
\* it has starved for a millisecond, hence strong fairness for the two locks.
Fairness ==
    \A t \in Threads :
        /\ WF_vars(UpdateStep(t)) /\ WF_vars(StoreStep(t)) /\ WF_vars(ReadStep(t))
        /\ SF_vars(Enter(t)) /\ SF_vars(LockStep(t))

FairSpec == Spec /\ Fairness

-----------------------------------------------------------------------------
(* Properties                                                              *)

\* Every target GetTarget or GetTargetsByMeta has found so far has exactly
\* the bytes that targets.json listed for its name when it was looked up; that
\* targets.json was signed by the repository the client trusts, is at least
\* as new as the listing the loop of GetTargetsByMeta runs over, and at most
\* as new as the one held now.  Truncated files, files left by another
\* repository or version, and updates between the steps must not get through.
ResultsAuthentic ==
    \A t \in Threads : \A f \in reader[t].found :
        /\ Lookup(f.meta, f.name) # None
        /\ f.content = Lookup(f.meta, f.name).content
        /\ Verified(mem, "targets")
        /\ f.meta.repo = mem["targets"].repo
        /\ f.meta.ver <= mem["targets"].ver
        /\ reader[t].listed # None => reader[t].listed.ver <= f.meta.ver

\* The store on disk never runs ahead of the running process: whatever
\* syncLocalMeta has written there, in whatever order and however far it got,
\* is no newer than what initializeTUF checks and updates in memory.
DiskBehindMemory ==
    once = "built" /\ ~NoCache =>
        \A k \in Roles : disk[k] # None =>
            /\ mem[k] # None
            /\ disk[k].repo = mem[k].repo => disk[k].ver <= mem[k].ver

\* No target file is written to the cache directory before every metadata
\* file that vouches for it is on disk.
SyncedBeforeDownload ==
    \A t \in Threads :
        pc[t] \in {"download", "write", "writing"} /\ ~NoCache => disk = mem

\* Within one process a role's trusted metadata is never dropped or replaced
\* by an older version, and the store on disk never goes back to an older
\* version of the same repository, restarts and partial syncs included.
NoRollback ==
    [][\A k \in Roles :
          /\ once = "built" /\ once' = "built" /\ Verified(mem, k) =>
                Verified(mem', k) /\ mem[k].ver <= mem'[k].ver
          /\ disk[k] # None =>
                /\ disk'[k] # None
                /\ disk[k].repo = disk'[k].repo => disk[k].ver <= disk'[k].ver]_vars

\* Without I/O errors and crashes, a caller that was handed the singleton can
\* get every target the trusted metadata lists, whichever of them the updates
\* of this and of earlier processes found to be "updated".
HandedComplete == handed /\ initMu = None => Complete

\* The mirror Initialize stores for later processes is the one whose root it
\* has left on disk, whatever singleton it found, whatever mirror its caller
\* named and however its store interleaves with other calls.
StoredMirrorServesRoot ==
    [][remoteJSON' \in Mirrors /\ remoteJSON' # remoteJSON
         => disk["root"] # None /\ disk["root"].repo = remoteJSON']_vars

\* Every call returns: no error path keeps initMu or the mutex locked.
CallsReturn == \A t \in Threads : pc[t] # "idle" ~> pc[t] = "idle"

\* The comment at the check of the local timestamp: "We may already have an
\* up-to-date local store!"; it is then taken to be able to serve its targets.
UpToDateIsComplete ==
    \A t \in Threads : pc[t] = "check" /\ UpToDate(t) => Complete
=============================================================================
