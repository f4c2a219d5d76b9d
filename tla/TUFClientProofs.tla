-------------------------- MODULE TUFClientProofs --------------------------
(***************************************************************************)
(* Safety of TUFClient for all sets of threads, mirrors and targets, all   *)
(* repositories and any number of releases.                                *)
(***************************************************************************)
EXTENDS TUFClient, TLAPS

-----------------------------------------------------------------------------
(* The inductive invariant                                                 *)

\* initMu is held by exactly the thread that is inside initializeTUF; the
\* singleton exists there, and wherever a caller can use it.
LockInv ==
    /\ \A t \in Threads : pc[t] \in InitPCs <=> initMu = t
    /\ \A t \in Threads : pc[t] \in InitPCs \cup {"store", "storing"} => once = "built"
    /\ handed => once = "built"
    /\ \A t \in Threads : reader[t] # NoReader \/ pc[t] \in {"next", "meta", "bytes"}
                             => once = "built"

\* The stores: root.json carries no version, the memory store has a root as
\* soon as it exists, and it holds what the disk holds or newer.
StoreInv ==
    /\ disk["root"] # None => disk["root"].ver = 0
    /\ once # "built" => mem = NoStore
    /\ once = "built" => mem["root"] # None /\ mem["root"].ver = 0 /\ mirror # None
    /\ once = "built" /\ ~NoCache =>
          \A k \in Roles : disk[k] # None =>
              /\ mem[k] # None
              /\ disk[k].repo = mem[k].repo => disk[k].ver <= mem[k].ver
              /\ disk[k].repo = mem["root"].repo => mem[k].repo = mem["root"].repo

\* What holds between the steps of one update, whose only actor is the
\* holder of initMu, at program point p.
HolderOK(p) ==
    /\ p \in UpdatePCs \ {"timestamp"} => mem["root"].repo = Mirror(mirror)
    /\ p \in {"snapshot", "targets"} =>
          Verified(mem, "timestamp") /\ mem["timestamp"].ver \in Releases
    /\ p = "targets" =>
          /\ Verified(mem, "snapshot")
          /\ mem["snapshot"].ver \in Releases
          /\ Held(mem, "targets") <= mem["snapshot"].ver
    /\ p \in {"sync", "download", "write", "writing"} => todo \subseteq Listed(mem)
    /\ p = "sync" =>
          /\ ~NoCache
          /\ \A k \in tosync : mem[k] # None
          /\ \A k \in Roles \ tosync : disk[k] = mem[k]
    /\ p \in {"download", "write", "writing"} /\ ~NoCache => disk = mem
    /\ p \in {"write", "writing"} => writing \in Names /\ cache[writing] # None

HolderInv == \A t \in Threads : pc[t] \in UpdatePCs => HolderOK(pc[t])

\* A thread about to write remote.json follows a synced update.
RemoteInv ==
    \A t \in Threads : pc[t] \in {"store", "storing"} =>
        ~NoCache /\ disk["root"] # None /\ disk["root"].repo = Mirror(mirror)

\* A targets.json a reader remembers is the one the store trusts or one it
\* trusted before.
Past(store, f) == /\ Verified(store, "targets")
                  /\ f.repo = store["targets"].repo
                  /\ f.ver <= store["targets"].ver

\* The locals r of a reader at program point p.
ReaderOK(store, r, p) ==
    /\ r.listed # None => Past(store, r.listed)
    /\ r.want # None =>
          /\ Past(store, r.want)
          /\ r.listed # None => r.listed.ver <= r.want.ver
    /\ p \in {"next", "meta", "bytes"} => r.mode # "none"
    /\ p \in {"meta", "bytes"} => r.name \in Names
    /\ p = "bytes" => r.want # None /\ Lookup(r.want, r.name) # None
    /\ r.mode = "usage" =>
          /\ \A n \in r.pending : Lookup(r.listed, n) # None
          /\ r.name # None => Lookup(r.listed, r.name) # None
    /\ \A f \in r.found :
          /\ Lookup(f.meta, f.name) # None
          /\ f.content = Lookup(f.meta, f.name).content
          /\ Past(store, f.meta)
          /\ r.listed # None => r.listed.ver <= f.meta.ver

ReaderInv == \A t \in Threads : ReaderOK(mem, reader[t], pc[t])

IInv == TypeOK /\ LockInv /\ StoreInv /\ HolderInv /\ RemoteInv /\ ReaderInv

-----------------------------------------------------------------------------
(* Lemmas about operators and records                                      *)

\* initializeTUF returning (Return) only touches the thread that returns; it
\* ends at "store" exactly in a caching Initialize that succeeded.
LEMMA ReturnFacts ==
  ASSUME TypeOK, NEW t \in Threads, NEW ok \in BOOLEAN, Return(t, ok)
  PROVE  /\ initMu' = None
         /\ handed' \in BOOLEAN
         /\ handed' => handed \/ ok
         /\ pc' \in [Threads -> PCs]
         /\ call' \in [Threads -> Call]
         /\ \A u \in Threads \ {t} : pc'[u] = pc[u]
         /\ pc'[t] \in {"idle", "store"}
         /\ pc'[t] = "store" => ok /\ ~NoCache /\ call[t].op = "Initialize"
         /\ tosync' = {} /\ todo' = {} /\ writing' = None
<1>1. /\ initMu' = None /\ handed' \in BOOLEAN /\ (handed' => handed \/ ok)
      /\ tosync' = {} /\ todo' = {} /\ writing' = None
  BY DEF Return, TypeOK
<1>2. NoCall \in Call
  BY ConstantsAssumption DEF Call, NoCall
<1>3. pc \in [Threads -> PCs] /\ call \in [Threads -> Call]
  BY DEF TypeOK
<1>4. {"idle", "store"} \subseteq PCs
  BY DEF PCs
<1>5. CASE ok /\ call[t].op = "Initialize" /\ ~NoCache
  <2>1. pc' = [pc EXCEPT ![t] = "store"] /\ call' = call
    BY <1>5 DEF Return
  <2> QED BY <1>1, <1>3, <1>4, <1>5, <2>1
<1>6. CASE ~(ok /\ call[t].op = "Initialize" /\ ~NoCache)
  <2>1. pc' = [pc EXCEPT ![t] = "idle"] /\ call' = [call EXCEPT ![t] = NoCall]
    BY <1>6 DEF Return
  <2> QED BY <1>1, <1>2, <1>3, <1>4, <2>1
<1> QED BY <1>5, <1>6

\* Inside initializeTUF, and until remote.json is written, the singleton and
\* its trusted root exist.
LEMMA MirrorType ==
  ASSUME TypeOK, LockInv, StoreInv, NEW t \in Threads,
         pc[t] \in InitPCs \cup {"store", "storing"}
  PROVE  once = "built" /\ Mirror(mirror) \in Mirrors /\ mem["root"] \in File
<1>1. once = "built" BY DEF LockInv
<1>2. mirror \in Mirrors /\ mem["root"] # None BY <1>1 DEF StoreInv, TypeOK
<1>3. mem["root"] \in File BY <1>2 DEF TypeOK, Roles
<1> QED BY <1>1, <1>2, <1>3, ConstantsAssumption DEF Mirror

\* What Lookup finds is an entry of the catalog.
LEMMA LookupType ==
  ASSUME NEW f \in File \cup {None}, NEW n \in Names, Lookup(f, n) # None
  PROVE  f \in File /\ f.ver \in Releases /\ Lookup(f, n) \in Entry
         /\ Lookup(f, n) = Catalog[f.repo][f.ver][n]
<1>1. f # None /\ f.ver # 0 /\ Lookup(f, n) = Catalog[f.repo][f.ver][n]
  BY DEF Lookup
<1>2. f \in File /\ f.repo \in Mirrors /\ f.ver \in Releases BY <1>1 DEF File
<1>3. Catalog[f.repo][f.ver][n] \in Entry \cup {None}
  BY <1>2, RepositoryAssumption
<1> QED BY <1>1, <1>2, <1>3

\* The initial values have their types.
LEMMA NoReaderType == NoReader \in Reader /\ NoCall \in Call /\ NoStore \in [Roles -> File \cup {None}]
  BY ConstantsAssumption DEF NoReader, Reader, NoCall, Call, NoStore

\* newLocalStore and getRoot yield metadata files.
LEMMA LocalStoreType ==
  ASSUME TypeOK, NEW t \in Threads
  PROVE  /\ newLocalStore \in [Roles -> File \cup {None}]
         /\ [repo |-> getRoot(t), ver |-> 0] \in File
<1>1. newLocalStore \in [Roles -> File \cup {None}]
  BY NoReaderType DEF newLocalStore, TypeOK
<1>2. call[t].root \in Mirrors \cup {None}
  BY DEF TypeOK, Call
<1>3. getRoot(t) \in Mirrors
  BY <1>1, <1>2, ConstantsAssumption DEF getRoot, File, Roles
<1> QED BY <1>1, <1>3 DEF File

\* The fields of an entry have their types.
LEMMA EntryType == ASSUME NEW e \in Entry PROVE e.content \in Contents /\ e.usage \in Usages /\ e.status \in Statuses
  BY DEF Entry

-----------------------------------------------------------------------------
(* Type correctness                                                        *)

\* Types are kept by the steps that compute new metadata, files or targets.
LEMMA TypeUpd ==
  ASSUME IInv, NEW t \in Threads
  PROVE  /\ NewFromEnv(t) => TypeOK'
         /\ \A m \in Mirrors, r \in (Mirrors \ Legacy) \cup {None} : Initialize(t, m, r) => TypeOK'
         /\ EnterBuild(t) => TypeOK'
         /\ UpdateSameTimestamp(t) => TypeOK'
         /\ UpdateTimestamp(t) => TypeOK'
         /\ UpdateSnapshot(t) => TypeOK'
         /\ UpdateTargets(t) => TypeOK'
         /\ \A k \in Roles : SyncMeta(t, k) => TypeOK'
         /\ \A n \in Names : FetchTarget(t, n) => TypeOK'
         /\ WriteFile(t) => TypeOK'
         /\ WriteRemote(t) => TypeOK'
<1> TypeOK /\ LockInv /\ StoreInv /\ HolderInv /\ ReaderInv BY DEF IInv
<1> USE DEF world, storage, object, update, threads
<1>1. ASSUME NewFromEnv(t) PROVE TypeOK'
  <2>1. EnvMirror \in Mirrors
    BY ConstantsAssumption DEF EnvMirror
  <2>2. call' \in [Threads -> Call] /\ pc' \in [Threads -> PCs]
    BY <1>1, <2>1 DEF NewFromEnv, TypeOK, Call, PCs
  <2> QED BY <1>1, <2>2 DEF NewFromEnv, EnvMirror, TypeOK
<1>2. ASSUME NEW m \in Mirrors, NEW r \in (Mirrors \ Legacy) \cup {None}, Initialize(t, m, r) PROVE TypeOK'
  <2>2. call' \in [Threads -> Call] /\ pc' \in [Threads -> PCs]
    BY <1>2 DEF Initialize, TypeOK, Call, PCs
  <2> QED BY <1>2, <2>2 DEF Initialize, TypeOK
<1>3. ASSUME EnterBuild(t) PROVE TypeOK'
  <2>1. newLocalStore \in [Roles -> File \cup {None}]
        /\ [repo |-> getRoot(t), ver |-> 0] \in File
    BY LocalStoreType
  <2>2. call[t].mirror \in Mirrors
    BY DEF TypeOK, Call
  <2>5. mem' \in [Roles -> File \cup {None}]
    BY <1>3, <2>1 DEF EnterBuild
  <2>6. pc' \in [Threads -> PCs] BY <1>3 DEF EnterBuild, TypeOK, PCs, InitPCs
  <2>7. once' = "built" /\ mirror' \in Mirrors /\ initMu' = t
    BY <1>3, <2>2 DEF EnterBuild
  <2> QED BY <1>3, <2>5, <2>6, <2>7 DEF EnterBuild, TypeOK
<1>4. ASSUME NEW store \in [Roles -> File \cup {None}], NEW names \in SUBSET Names, Updated(t, store, names)
      PROVE TypeOK'
  <2>1. mem' \in [Roles -> File \cup {None}] /\ todo' \in SUBSET Names /\ tosync' \in SUBSET Roles
    BY <1>4 DEF Updated
  <2>2. pc' \in [Threads -> PCs] BY <1>4 DEF Updated, TypeOK, PCs, InitPCs, UpdatePCs
  <2> QED BY <1>4, <2>1, <2>2 DEF Updated, TypeOK
<1>5. ASSUME UpdateSameTimestamp(t) PROVE TypeOK'
  BY <1>4, <1>5 DEF UpdateSameTimestamp, Listed, TypeOK
<1>6. ASSUME UpdateTimestamp(t) PROVE TypeOK'
  <2>1. Mirror(mirror) \in Mirrors
    BY <1>6, MirrorType DEF UpdateTimestamp, InitPCs, UpdatePCs
  <2>2. \A r \in Releases : [repo |-> Mirror(mirror), ver |-> r] \in File
    BY <2>1 DEF File
  <2>3. mem' \in [Roles -> File \cup {None}]
    BY <1>6, <2>2 DEF UpdateTimestamp, TypeOK
  <2>4. pc' \in [Threads -> PCs] BY <1>6 DEF UpdateTimestamp, TypeOK, PCs, InitPCs, UpdatePCs
  <2> QED BY <1>6, <2>3, <2>4 DEF UpdateTimestamp, TypeOK
<1>7. ASSUME UpdateSnapshot(t) PROVE TypeOK'
  <2>1. Mirror(mirror) \in Mirrors /\ mem["timestamp"].ver \in Releases
    BY <1>7, MirrorType DEF UpdateSnapshot, InitPCs, UpdatePCs, HolderInv, HolderOK
  <2>2. TargetsVersion[Mirror(mirror)][mem["timestamp"].ver] \in Releases
    BY <2>1, RepositoryAssumption
  <2>3. [repo |-> Mirror(mirror), ver |-> TargetsVersion[Mirror(mirror)][mem["timestamp"].ver]] \in File
    BY <2>1, <2>2 DEF File
  <2>4. mem' \in [Roles -> File \cup {None}]
    BY <1>7, <2>3 DEF UpdateSnapshot, TypeOK
  <2>5. pc' \in [Threads -> PCs] BY <1>7 DEF UpdateSnapshot, TypeOK, PCs, InitPCs, UpdatePCs
  <2> QED BY <1>7, <2>4, <2>5 DEF UpdateSnapshot, TypeOK
<1>8. ASSUME UpdateTargets(t) PROVE TypeOK'
  <2>1. [mem EXCEPT !["targets"] = mem["snapshot"]] \in [Roles -> File \cup {None}]
    BY DEF TypeOK, Roles
  <2> QED BY <1>4, <1>8, <2>1 DEF UpdateTargets, NewlyUpdated
<1>9. ASSUME NEW k \in Roles, SyncMeta(t, k) PROVE TypeOK'
  <2>1. disk' \in [Roles -> File \cup {None}] /\ tosync' \in SUBSET Roles
    BY <1>9 DEF SyncMeta, AfterSync, TypeOK
  <2>2. pc' \in [Threads -> PCs] BY <1>9 DEF SyncMeta, AfterSync, TypeOK, PCs, InitPCs, UpdatePCs
  <2> QED BY <1>9, <2>1, <2>2 DEF SyncMeta, AfterSync, TypeOK
<1>10. ASSUME NEW n \in Names, FetchTarget(t, n) PROVE TypeOK'
  <2>1. Lookup(Targets(mem), n) # None
    BY <1>10 DEF FetchTarget, HolderInv, HolderOK, UpdatePCs, Listed
  <2>2. Targets(mem) \in File \cup {None}
    BY DEF Targets, TypeOK, Roles
  <2>3. Lookup(Targets(mem), n).content \in Contents
    BY <2>1, <2>2, LookupType, EntryType
  <2>4. cache' \in [Names -> Contents \cup {None}]
    BY <1>10, <2>3 DEF FetchTarget, TypeOK
  <2>5. pc' \in [Threads -> PCs] /\ todo' \in SUBSET Names /\ writing' \in Names \cup {None}
    BY <1>10 DEF FetchTarget, TypeOK, PCs, InitPCs, UpdatePCs
  <2> QED BY <1>10, <2>4, <2>5 DEF FetchTarget, TypeOK
<1>11. ASSUME WriteFile(t) PROVE TypeOK'
  <2>1. writing \in Names /\ cache[writing] \in Contents
    BY <1>11 DEF WriteFile, HolderInv, HolderOK, UpdatePCs, TypeOK
  <2>2. files' \in [Names -> Contents \cup {None, Torn}]
    BY <1>11, <2>1 DEF WriteFile, TypeOK
  <2>3. pc' \in [Threads -> PCs] BY <1>11 DEF WriteFile, TypeOK, PCs, InitPCs, UpdatePCs
  <2> QED BY <1>11, <2>2, <2>3 DEF WriteFile, TypeOK
<1>12. ASSUME WriteRemote(t) PROVE TypeOK'
  <2>1. Mirror(mirror) \in Mirrors
    BY <1>12, MirrorType DEF WriteRemote, StoredMirror
  <2>2. pc' \in [Threads -> PCs] /\ call' \in [Threads -> Call]
    BY <1>12, NoReaderType DEF WriteRemote, StoredMirror, TypeOK, PCs
  <2> QED BY <1>12, <2>1, <2>2 DEF WriteRemote, StoredMirror, TypeOK
<1> QED BY <1>1, <1>2, <1>3, <1>5, <1>6, <1>7, <1>8, <1>9, <1>10, <1>11, <1>12

\* The changes a step makes to a reader's locals keep their type.
LEMMA ReaderRecord ==
  ASSUME NEW r \in Reader
  PROVE  /\ \A n \in Names : [r EXCEPT !.name = n, !.pending = @ \ {n}] \in Reader
         /\ [r EXCEPT !.mode = "fallback", !.pending = Fallbacks] \in Reader
         /\ [r EXCEPT !.name = None, !.want = None] \in Reader
         /\ \A f \in File : [r EXCEPT !.want = f] \in Reader
         /\ \A e \in TargetFile :
               [r EXCEPT !.found = @ \cup {e}, !.name = None, !.want = None] \in Reader
  BY ConstantsAssumption DEF Reader

\* Types are kept by the steps of GetTarget and GetTargetsByMeta.
LEMMA TypeRead ==
  ASSUME IInv, NEW t \in Threads
  PROVE  /\ \A n \in Names : GetTarget(t, n) => TypeOK'
         /\ \A u \in Usages : GetTargetsByMeta(t, u) => TypeOK'
         /\ \A n \in Names : NextTarget(t, n) => TypeOK'
         /\ TryFallbacks(t) => TypeOK'
         /\ TargetMeta(t) => TypeOK'
         /\ TargetUnknown(t) => TypeOK'
         /\ TargetBytes(t) => TypeOK'
         /\ TargetInvalid(t) => TypeOK'
         /\ Finish(t) \/ ReadReturns(t) => TypeOK'
<1> TypeOK /\ LockInv /\ StoreInv /\ HolderInv /\ ReaderInv BY DEF IInv
<1> USE DEF world, storage, object, update, threads
<1> DEFINE r == reader[t]
<1>1. r \in Reader /\ pc \in [Threads -> PCs] /\ reader \in [Threads -> Reader]
  BY DEF TypeOK
<1>2. {"next", "meta", "bytes", "return", "idle"} \subseteq PCs
  BY DEF PCs
<1>3. ASSUME NEW n \in Names, GetTarget(t, n) PROVE TypeOK'
  <2>1. [NoReader EXCEPT !.mode = "target", !.name = n] \in Reader
    BY DEF NoReader, Reader
  <2>2. pc' \in [Threads -> PCs] /\ reader' \in [Threads -> Reader]
    BY <1>1, <1>2, <1>3, <2>1 DEF GetTarget
  <2> QED BY <1>3, <2>2 DEF GetTarget, TypeOK
<1>4. ASSUME NEW u \in Usages, GetTargetsByMeta(t, u) PROVE TypeOK'
  <2>1. Targets(mem) \in File \cup {None}
    BY DEF Targets, TypeOK, Roles
  <2>2. {n \in Listed(mem) : Lookup(Targets(mem), n).usage = u} \subseteq Names
    BY DEF Listed
  <2>3. [NoReader EXCEPT !.mode = "usage", !.listed = Targets(mem),
          !.pending = {n \in Listed(mem) : Lookup(Targets(mem), n).usage = u}] \in Reader
    BY <2>1, <2>2 DEF NoReader, Reader
  <2>4. pc' \in [Threads -> PCs] /\ reader' \in [Threads -> Reader]
    BY <1>1, <1>2, <1>4, <2>3 DEF GetTargetsByMeta
  <2> QED BY <1>4, <2>4 DEF GetTargetsByMeta, TypeOK
<1>5. ASSUME NEW n \in Names, NextTarget(t, n) PROVE TypeOK'
  <2>1. reader' = [reader EXCEPT ![t] = [r EXCEPT !.name = n, !.pending = @ \ {n}]]
    BY <1>1, <1>5 DEF NextTarget, Reader
  <2>2. [r EXCEPT !.name = n, !.pending = @ \ {n}] \in Reader
    BY <1>1, ReaderRecord
  <2>3. pc' \in [Threads -> PCs]
    BY <1>1, <1>2, <1>5 DEF NextTarget
  <2>4. reader' \in [Threads -> Reader]
    BY <1>1, <2>1, <2>2
  <2> QED BY <1>5, <2>3, <2>4 DEF NextTarget, TypeOK
<1>6. ASSUME TryFallbacks(t) PROVE TypeOK'
  <2>1. reader' = [reader EXCEPT ![t] = [r EXCEPT !.mode = "fallback", !.pending = Fallbacks]]
    BY <1>1, <1>6 DEF TryFallbacks, Reader
  <2>2. reader' \in [Threads -> Reader]
    BY <1>1, <2>1, ReaderRecord
  <2> QED BY <1>6, <2>2 DEF TryFallbacks, TypeOK
<1>7. ASSUME TargetMeta(t) PROVE TypeOK'
  <2>1. mem["targets"] \in File
    BY <1>7 DEF TargetMeta, Consistent, Verified, TypeOK, Roles
  <2>2. reader' = [reader EXCEPT ![t] = [r EXCEPT !.want = mem["targets"]]]
    BY <1>1, <1>7 DEF TargetMeta, Reader
  <2>3. pc' \in [Threads -> PCs] /\ reader' \in [Threads -> Reader]
    BY <1>1, <1>2, <1>7, <2>1, <2>2, ReaderRecord DEF TargetMeta
  <2> QED BY <1>7, <2>3 DEF TargetMeta, TypeOK
<1>8. ASSUME Missing(t) PROVE pc' \in [Threads -> PCs] /\ reader' \in [Threads -> Reader]
  <2>1. CASE r.mode = "fallback"
    <3>1. reader' = [reader EXCEPT ![t] = [r EXCEPT !.name = None, !.want = None]]
      BY <1>1, <1>8, <2>1 DEF Missing, Reader
    <3> QED BY <1>1, <1>2, <1>8, <2>1, <3>1, ReaderRecord DEF Missing
  <2>2. CASE r.mode # "fallback"
    BY <1>1, <1>2, <1>8, <2>2, NoReaderType DEF Missing
  <2> QED BY <2>1, <2>2
<1>9. ASSUME TargetUnknown(t) PROVE TypeOK'
  BY <1>8, <1>9 DEF TargetUnknown, TypeOK
<1>10. ASSUME TargetInvalid(t) PROVE TypeOK'
  BY <1>8, <1>10 DEF TargetInvalid, TypeOK
<1>11. ASSUME TargetBytes(t) PROVE TypeOK'
  <2>1. r.name \in Names /\ r.want \in File /\ Lookup(r.want, r.name) # None
    BY <1>1, <1>11 DEF TargetBytes, ReaderInv, ReaderOK, Reader
  <2>2. r.mode \in {"target", "usage", "fallback"}
    BY <1>1, <1>11 DEF TargetBytes, ReaderInv, ReaderOK, Reader
  <2>3. r.mode = "usage" => Lookup(r.listed, r.name) # None
    BY <2>1, DistinctAssumption DEF ReaderInv, ReaderOK
  <2>4. r.listed \in File \cup {None}
    BY <1>1 DEF Reader
  <2>5. Lookup(r.want, r.name).status \in Statuses
    BY <2>1, LookupType, EntryType
  <2>6. r.mode = "usage" => Lookup(r.listed, r.name).status \in Statuses
    BY <2>1, <2>3, <2>4, LookupType, EntryType
  <2>7. (CASE r.mode = "usage"    -> Lookup(r.listed, r.name).status
           [] r.mode = "fallback" -> Active
           [] OTHER               -> Lookup(r.want, r.name).status) \in Statuses
    BY <2>2, <2>5, <2>6, ConstantsAssumption
  <2>8. Get(r.name) \in Contents \cup {None, Torn}
    BY <2>1 DEF Get, TypeOK
  <2>9. Result(r) \in TargetFile
    BY <2>1, <2>7, <2>8 DEF Result, TargetFile
  <2>10. reader' = [reader EXCEPT ![t] = [r EXCEPT !.found = @ \cup {Result(r)}, !.name = None, !.want = None]]
    BY <1>1, <1>11 DEF TargetBytes, Reader
  <2>11. [r EXCEPT !.found = @ \cup {Result(r)}, !.name = None, !.want = None] \in Reader
    BY <1>1, <2>9, ReaderRecord
  <2>12. pc' \in [Threads -> PCs]
    BY <1>1, <1>2, <1>11 DEF TargetBytes
  <2>13. reader' \in [Threads -> Reader]
    BY <1>1, <2>10, <2>11
  <2> QED BY <1>11, <2>12, <2>13 DEF TargetBytes, TypeOK
<1>12. ASSUME Finish(t) \/ ReadReturns(t) PROVE TypeOK'
  <2>1. pc' \in [Threads -> PCs] /\ reader' \in [Threads -> Reader]
    BY <1>1, <1>2, <1>12, NoReaderType DEF Finish, ReadReturns
  <2> QED BY <1>12, <2>1 DEF Finish, ReadReturns, TypeOK
<1> QED BY <1>3, <1>4, <1>5, <1>6, <1>7, <1>9, <1>10, <1>11, <1>12

\* Types are kept by the repositories, the clock and a restart.
LEMMA TypeWorld ==
  ASSUME IInv
  PROVE  /\ \A m \in Mirrors \ Legacy : Publish(m) \/ Expire(m) => TypeOK'
         /\ Restart => TypeOK'
<1> TypeOK BY DEF IInv
<1> USE DEF world, storage, object, update, threads
<1>1. ASSUME NEW m \in Mirrors \ Legacy, Publish(m) \/ Expire(m) PROVE TypeOK'
  <2>1. remote[m] \in Releases \cup {0} /\ expired[m] \in Releases \cup {0}
    BY DEF TypeOK
  <2>2. CASE Publish(m)
    <3>1. remote[m] + 1 \in Releases
      BY <2>1, <2>2, ConstantsAssumption DEF Publish, Releases
    <3>2. remote' \in [Mirrors -> Releases \cup {0}]
      BY <2>2, <3>1 DEF Publish, TypeOK
    <3> QED BY <2>2, <3>2 DEF Publish, TypeOK
  <2>3. CASE Expire(m)
    <3>1. expired[m] + 1 \in Releases
      BY <2>1, <2>3, ConstantsAssumption DEF Expire, Releases
    <3>2. expired' \in [Mirrors -> Releases \cup {0}]
      BY <2>3, <3>1 DEF Expire, TypeOK
    <3> QED BY <2>3, <3>2 DEF Expire, TypeOK
  <2> QED BY <1>1, <2>2, <2>3
<1>2. ASSUME Restart PROVE TypeOK'
  BY <1>2, NoReaderType DEF Restart, TypeOK, PCs
<1> QED BY <1>1, <1>2

\* Types are kept by the steps that only move a thread on or return.
LEMMA TypeRest ==
  ASSUME IInv, NEW t \in Threads
  PROVE  /\ EnterBuilt(t) \/ NeedUpdate(t) => TypeOK'
         /\ BuildFails(t) \/ EnterFailed(t) \/ Golden(t) \/ UpdateFails(t)
              \/ SyncFails(t) \/ SetFails(t) \/ UpdateDone(t) => TypeOK'
         /\ \A n \in Names : SkipTarget(t, n) \/ DownloadFails(t, n) => TypeOK'
         /\ TruncateFile(t) \/ TruncateRemote(t) \/ StoreFails(t) => TypeOK'
<1> TypeOK BY DEF IInv
<1> USE DEF world, storage, object, update, threads
<1>1. ASSUME EnterBuilt(t) \/ NeedUpdate(t) PROVE TypeOK'
  <2>1. pc' \in [Threads -> PCs] /\ initMu' \in Threads \cup {None}
    BY <1>1 DEF EnterBuilt, NeedUpdate, TypeOK, PCs, InitPCs, UpdatePCs
  <2> QED BY <1>1, <2>1 DEF EnterBuilt, NeedUpdate, TypeOK
<1>2. ASSUME NEW ok \in BOOLEAN, Return(t, ok), once' \in {once, "failed"},
             UNCHANGED <<world, storage, mirror, mem, cache, mutex, reader>>
      PROVE TypeOK'
  BY <1>2, ReturnFacts DEF TypeOK
<1>3. ASSUME BuildFails(t) \/ EnterFailed(t) \/ Golden(t) \/ UpdateFails(t)
               \/ SyncFails(t) \/ SetFails(t) \/ UpdateDone(t)
      PROVE TypeOK'
  BY <1>2, <1>3 DEF BuildFails, EnterFailed, Golden, UpdateFails, SyncFails,
     SetFails, UpdateDone
<1>4. ASSUME NEW n \in Names, SkipTarget(t, n) \/ DownloadFails(t, n) PROVE TypeOK'
  BY <1>2, <1>4 DEF SkipTarget, DownloadFails, TypeOK
<1>5. ASSUME TruncateFile(t) \/ TruncateRemote(t) \/ StoreFails(t) PROVE TypeOK'
  <2>1. pc' \in [Threads -> PCs] /\ call' \in [Threads -> Call]
    BY <1>5, NoReaderType DEF TruncateFile, TruncateRemote, StoreFails, TypeOK,
       PCs, InitPCs, UpdatePCs
  <2>2. files' \in [Names -> Contents \cup {None, Torn}] /\ remoteJSON' \in Mirrors \cup {None, Torn}
    BY <1>5 DEF TruncateFile, TruncateRemote, StoreFails, TypeOK
  <2> QED BY <1>5, <2>1, <2>2 DEF TruncateFile, TruncateRemote, StoreFails, TypeOK
<1> QED BY <1>1, <1>3, <1>4, <1>5

\* Every step keeps the types.
LEMMA TypeStep == IInv /\ [Next]_vars => TypeOK'
<1> SUFFICES ASSUME IInv, [Next]_vars PROVE TypeOK'
  OBVIOUS
<1>1. CASE UNCHANGED vars
  BY <1>1 DEF vars, world, storage, object, update, threads, IInv, TypeOK
<1>2. ASSUME NEW m \in Mirrors \ Legacy, Publish(m) \/ Expire(m) PROVE TypeOK'
  BY <1>2, TypeWorld
<1>3. CASE Restart
  BY <1>3, TypeWorld
<1>4. ASSUME NEW t \in Threads, Calls(t) PROVE TypeOK'
  BY <1>4, TypeUpd, TypeRead DEF Calls
<1>5. ASSUME NEW t \in Threads, Enter(t) PROVE TypeOK'
  BY <1>5, TypeUpd, TypeRest DEF Enter
<1>6. ASSUME NEW t \in Threads, UpdateStep(t) PROVE TypeOK'
  BY <1>6, TypeUpd, TypeRest DEF UpdateStep
<1>7. ASSUME NEW t \in Threads, StoreStep(t) PROVE TypeOK'
  BY <1>7, TypeUpd, TypeRest DEF StoreStep
<1>8. ASSUME NEW t \in Threads, LockStep(t) \/ ReadStep(t) PROVE TypeOK'
  BY <1>8, TypeRead DEF LockStep, ReadStep
<1> QED BY <1>1, <1>2, <1>3, <1>4, <1>5, <1>6, <1>7, <1>8 DEF Next

-----------------------------------------------------------------------------
(* What the groups of steps do                                             *)

\* The steps that are not taken under initMu.
OutsideStep ==
    \/ \E m \in Mirrors \ Legacy : Publish(m) \/ Expire(m)
    \/ \E t \in Threads : Calls(t) \/ StoreStep(t) \/ LockStep(t) \/ ReadStep(t)

\* Steps taken outside initMu change neither the singleton nor the metadata
\* on disk, and bring no thread into or out of initializeTUF.
LEMMA OutsideFacts ==
  ASSUME IInv, OutsideStep
  PROVE  /\ UNCHANGED <<disk, object, initMu, update>>
         /\ \A u \in Threads : pc[u] \in InitPCs \/ pc'[u] \in InitPCs
                                  => pc'[u] = pc[u]
<1> TypeOK BY DEF IInv
<1> USE DEF world, storage, object, update, threads, InitPCs, UpdatePCs
<1>1. CASE \E m \in Mirrors \ Legacy : Publish(m) \/ Expire(m)
  BY <1>1 DEF Publish, Expire
<1>2. ASSUME NEW t \in Threads, Calls(t)
      PROVE  /\ UNCHANGED <<disk, object, initMu, update>>
             /\ \A u \in Threads : pc[u] \in InitPCs \/ pc'[u] \in InitPCs
                                      => pc'[u] = pc[u]
  BY <1>2 DEF Calls, NewFromEnv, EnvMirror, Initialize, GetTarget, GetTargetsByMeta, TypeOK
<1>3. ASSUME NEW t \in Threads, StoreStep(t)
      PROVE  /\ UNCHANGED <<disk, object, initMu, update>>
             /\ \A u \in Threads : pc[u] \in InitPCs \/ pc'[u] \in InitPCs
                                      => pc'[u] = pc[u]
  BY <1>3 DEF StoreStep, TruncateRemote, WriteRemote, StoredMirror, StoreFails, TypeOK
<1>4. ASSUME NEW t \in Threads, LockStep(t) \/ ReadStep(t)
      PROVE  /\ UNCHANGED <<disk, object, initMu, update>>
             /\ \A u \in Threads : pc[u] \in InitPCs \/ pc'[u] \in InitPCs
                                      => pc'[u] = pc[u]
  BY <1>4 DEF LockStep, ReadStep, TargetMeta, TargetUnknown, Missing, NextTarget,
     TryFallbacks, Finish, TargetBytes, TargetInvalid, ReadReturns, TypeOK
<1> QED BY <1>1, <1>2, <1>3, <1>4 DEF OutsideStep

\* A step of the holder of initMu moves that thread only, and either keeps
\* initMu or returns.
LEMMA UpdateFacts ==
  ASSUME IInv, NEW t \in Threads, UpdateStep(t)
  PROVE  /\ pc[t] \in InitPCs
         /\ UNCHANGED <<world, remoteJSON, once, mirror, mutex, reader>>
         /\ \A u \in Threads \ {t} : pc'[u] = pc[u]
         /\ \/ pc'[t] \in UpdatePCs /\ initMu' = initMu /\ handed' = handed
            \/ pc'[t] \in {"idle", "store"} /\ initMu' = None
<1> TypeOK BY DEF IInv
<1> USE DEF world, storage, object, update, threads, InitPCs, UpdatePCs
<1>1. ASSUME NEW ok \in BOOLEAN, Return(t, ok)
      PROVE  /\ \A u \in Threads \ {t} : pc'[u] = pc[u]
             /\ pc'[t] \in {"idle", "store"} /\ initMu' = None
  BY <1>1, ReturnFacts
<1>2. CASE Golden(t) \/ UpdateFails(t) \/ SyncFails(t) \/ SetFails(t) \/ UpdateDone(t)
  BY <1>1, <1>2 DEF Golden, UpdateFails, SyncFails, SetFails, UpdateDone
<1>3. ASSUME NEW n \in Names, DownloadFails(t, n)
      PROVE  /\ pc[t] \in InitPCs
             /\ UNCHANGED <<world, remoteJSON, once, mirror, mutex, reader>>
             /\ \A u \in Threads \ {t} : pc'[u] = pc[u]
             /\ pc'[t] \in {"idle", "store"} /\ initMu' = None
  BY <1>1, <1>3 DEF DownloadFails
<1>4. CASE NeedUpdate(t) \/ TruncateFile(t) \/ WriteFile(t)
  BY <1>4 DEF NeedUpdate, TruncateFile, WriteFile, TypeOK
<1>5. CASE UpdateSameTimestamp(t) \/ UpdateTargets(t)
  BY <1>5 DEF UpdateSameTimestamp, UpdateTargets, Updated, TypeOK
<1>6. CASE UpdateTimestamp(t) \/ UpdateSnapshot(t)
  BY <1>6 DEF UpdateTimestamp, UpdateSnapshot, TypeOK
<1>7. ASSUME NEW n \in Names, SkipTarget(t, n) \/ FetchTarget(t, n)
      PROVE  /\ pc[t] \in InitPCs
             /\ UNCHANGED <<world, remoteJSON, once, mirror, mutex, reader>>
             /\ \A u \in Threads \ {t} : pc'[u] = pc[u]
             /\ pc'[t] \in UpdatePCs /\ initMu' = initMu /\ handed' = handed
  BY <1>7 DEF SkipTarget, FetchTarget, TypeOK
<1>8. ASSUME NEW k \in Roles, SyncMeta(t, k)
      PROVE  /\ pc[t] \in InitPCs
             /\ UNCHANGED <<world, remoteJSON, once, mirror, mutex, reader>>
             /\ \A u \in Threads \ {t} : pc'[u] = pc[u]
             /\ pc'[t] \in UpdatePCs /\ initMu' = initMu /\ handed' = handed
  BY <1>8 DEF SyncMeta, AfterSync, TypeOK
<1> QED BY <1>2, <1>3, <1>4, <1>5, <1>6, <1>7, <1>8 DEF UpdateStep

\* Taking initMu either enters initializeTUF with the singleton built, or
\* returns the sticky error of a singleton that could not be built.
LEMMA EnterFacts ==
  ASSUME IInv, NEW t \in Threads, Enter(t)
  PROVE  /\ pc[t] = "lock" /\ initMu = None
         /\ UNCHANGED <<world, storage, cache, mutex, reader>>
         /\ \A u \in Threads \ {t} : pc'[u] = pc[u]
         /\ \/ /\ once' = "built" /\ pc'[t] = "check" /\ initMu' = t
               /\ handed' = handed /\ UNCHANGED update
            \/ /\ once # "built" /\ once' # "built" /\ UNCHANGED <<mem, mirror>>
               /\ pc'[t] = "idle" /\ initMu' = None
               /\ handed' => handed
<1> TypeOK BY DEF IInv
<1> USE DEF world, storage, object, update, threads
<1>1. CASE EnterBuild(t) \/ EnterBuilt(t)
  BY <1>1 DEF EnterBuild, EnterBuilt, TypeOK
<1>2. CASE BuildFails(t) \/ EnterFailed(t)
  <2>1. Return(t, FALSE)
    BY <1>2 DEF BuildFails, EnterFailed
  <2>2. \A u \in Threads \ {t} : pc'[u] = pc[u]
    BY <2>1, ReturnFacts
  <2>3. initMu' = None /\ (handed' => handed) /\ pc'[t] = "idle"
    BY <2>1, ReturnFacts
  <2> QED BY <1>2, <2>2, <2>3 DEF BuildFails, EnterFailed
<1> QED BY <1>1, <1>2 DEF Enter

\* A step is a stutter, a restart, a step outside initMu or one inside.
LEMMA NextCases ==
  [Next]_vars <=> \/ UNCHANGED vars \/ Restart \/ OutsideStep
                  \/ \E t \in Threads : Enter(t) \/ UpdateStep(t)
  BY DEF Next, OutsideStep

\* A caller gets to use the singleton only once it is built.
LEMMA OutsideBuilt ==
  ASSUME IInv, OutsideStep, NEW u \in Threads,
         \/ reader'[u] # NoReader
         \/ pc'[u] \in {"next", "meta", "bytes", "store", "storing"}
  PROVE  once = "built"
<1> TypeOK /\ LockInv BY DEF IInv
<1> USE DEF LockInv, world, storage, object, update, threads
<1>1. CASE \E m \in Mirrors \ Legacy : Publish(m) \/ Expire(m)
  BY <1>1 DEF Publish, Expire
<1>2. ASSUME NEW t \in Threads, Calls(t) PROVE once = "built"
  BY <1>2 DEF Calls, NewFromEnv, EnvMirror, Initialize, GetTarget, GetTargetsByMeta, TypeOK
<1>3. ASSUME NEW t \in Threads, StoreStep(t) PROVE once = "built"
  BY <1>3 DEF StoreStep, TruncateRemote, WriteRemote, StoredMirror, StoreFails, TypeOK
<1>4. ASSUME NEW t \in Threads, LockStep(t) \/ ReadStep(t) PROVE once = "built"
  BY <1>4 DEF LockStep, ReadStep, TargetMeta, TargetUnknown, Missing, NextTarget,
     TryFallbacks, Finish, TargetBytes, TargetInvalid, ReadReturns, TypeOK
<1> QED BY <1>1, <1>2, <1>3, <1>4 DEF OutsideStep

-----------------------------------------------------------------------------
(* The parts of the invariant, step by step                                *)

\* Every step keeps the locking discipline of initMu.
LEMMA LockInvStep == IInv /\ [Next]_vars => LockInv'
<1> SUFFICES ASSUME IInv, [Next]_vars PROVE LockInv'
  OBVIOUS
<1>0. TypeOK /\ LockInv BY DEF IInv
<1>1. CASE UNCHANGED vars
  BY <1>0, <1>1 DEF vars, world, storage, object, update, threads, LockInv
<1>2. CASE Restart
  BY <1>2, DistinctAssumption DEF Restart, LockInv, InitPCs, UpdatePCs
<1>3. CASE OutsideStep
  <2>1. /\ \A u \in Threads : pc'[u] \in InitPCs <=> pc[u] \in InitPCs
        /\ initMu' = initMu /\ once' = once /\ handed' = handed
    BY <1>3, OutsideFacts DEF object
  <2>2. \A u \in Threads : pc'[u] \in {"store", "storing"} => once = "built"
    BY <1>3, OutsideBuilt
  <2>3. \A u \in Threads : reader'[u] # NoReader \/ pc'[u] \in {"next", "meta", "bytes"}
                             => once = "built"
    BY <1>3, OutsideBuilt
  <2> QED BY <1>0, <2>1, <2>2, <2>3 DEF LockInv
<1>4. ASSUME NEW t \in Threads, Enter(t) PROVE LockInv'
  <2>1. \A u \in Threads : pc[u] \notin InitPCs
    BY <1>0, <1>4, EnterFacts, DistinctAssumption DEF LockInv
  <2>2. \A u \in Threads \ {t} : pc'[u] = pc[u] /\ reader'[u] = reader[u]
    BY <1>4, EnterFacts
  <2>3. reader' = reader
    BY <1>4, EnterFacts
  <2>4. CASE once' = "built" /\ pc'[t] = "check" /\ initMu' = t
    <3>1. \A u \in Threads : pc'[u] \in InitPCs <=> initMu' = u
      BY <2>1, <2>2, <2>4 DEF InitPCs
    <3> QED BY <2>4, <3>1 DEF LockInv
  <2>5. CASE once # "built" /\ once' # "built" /\ pc'[t] = "idle" /\ initMu' = None
             /\ (handed' => handed)
    <3>1. \A u \in Threads : pc'[u] \notin InitPCs
      BY <2>1, <2>2, <2>5 DEF InitPCs, UpdatePCs
    <3>2. \A u \in Threads : pc'[u] = "idle" \/ pc'[u] = pc[u]
      BY <2>2, <2>5
    <3> QED BY <1>0, <2>3, <2>5, <3>1, <3>2, DistinctAssumption DEF LockInv
  <2> QED BY <1>4, <2>4, <2>5, EnterFacts
<1>5. ASSUME NEW t \in Threads, UpdateStep(t) PROVE LockInv'
  <2>1. initMu = t /\ once = "built" /\ once' = "built" /\ reader' = reader
    BY <1>0, <1>5, UpdateFacts DEF LockInv
  <2>2. \A u \in Threads \ {t} : pc'[u] = pc[u] /\ pc[u] \notin InitPCs
    BY <1>0, <1>5, <2>1, UpdateFacts DEF LockInv
  <2>3. \A u \in Threads : pc'[u] \in InitPCs <=> initMu' = u
    BY <1>5, <2>1, <2>2, UpdateFacts, DistinctAssumption DEF InitPCs, UpdatePCs
  <2> QED BY <2>1, <2>3 DEF LockInv
<1> QED BY <1>1, <1>2, <1>3, <1>4, <1>5, NextCases

\* Memory gets a file of the trusted repository, no older than the one held.
LEMMA StoreGrows ==
  ASSUME TypeOK, StoreInv, once = "built", NEW k \in Roles \ {"root"}, NEW f \in File,
         f.repo = mem["root"].repo, Held(mem, k) <= f.ver,
         mem' = [mem EXCEPT ![k] = f], UNCHANGED <<disk, once, mirror>>
  PROVE  StoreInv'
<1>1. mem'[k] = f /\ \A j \in Roles \ {k} : mem'[j] = mem[j]
  BY DEF TypeOK
<1>2. mem'["root"] = mem["root"] /\ mem["root"] # None
  BY <1>1 DEF StoreInv, Roles
<1>3. f # None
  BY DistinctAssumption
<1>4. ASSUME ~NoCache, disk[k] # None, disk[k].repo = f.repo PROVE disk[k].ver <= f.ver
  <2>1. mem[k] # None /\ mem[k].repo = mem["root"].repo
    BY <1>4 DEF StoreInv
  <2>2. Held(mem, k) = mem[k].ver
    BY <1>2, <2>1 DEF Held, Verified
  <2>3. disk[k].ver <= mem[k].ver
    BY <1>4, <2>1 DEF StoreInv
  <2>4. disk[k].ver \in Nat /\ mem[k].ver \in Nat /\ f.ver \in Nat
    BY <1>4, <2>1, ConstantsAssumption DEF TypeOK, File, Releases
  <2> QED BY <2>2, <2>3, <2>4
<1> QED BY <1>1, <1>2, <1>3, <1>4 DEF StoreInv

\* Every step keeps disk behind memory: the build reads the disk back, Update
\* only moves memory forward, and syncLocalMeta copies memory.
LEMMA StoreInvStep == IInv /\ [Next]_vars => StoreInv'
<1> SUFFICES ASSUME IInv, [Next]_vars PROVE StoreInv'
  OBVIOUS
<1>0. TypeOK /\ LockInv /\ StoreInv /\ HolderInv BY DEF IInv
<1>1. ASSUME UNCHANGED <<disk, once, mirror, mem>> PROVE StoreInv'
  BY <1>0, <1>1 DEF StoreInv
<1>2. CASE UNCHANGED vars
  BY <1>1, <1>2 DEF vars, storage, object
<1>3. CASE Restart
  BY <1>0, <1>3 DEF Restart, StoreInv, storage
<1>4. CASE OutsideStep
  BY <1>1, <1>4, OutsideFacts DEF object
<1>5. ASSUME NEW t \in Threads, Enter(t) PROVE StoreInv'
  <2>1. CASE EnterBuild(t)
    <3>1. newLocalStore \in [Roles -> File \cup {None}] /\ (~NoCache => newLocalStore = disk)
      BY <1>0, LocalStoreType DEF newLocalStore
    <3>2. /\ mem' = [newLocalStore EXCEPT !["root"] = [repo |-> getRoot(t), ver |-> 0]]
          /\ once' = "built" /\ mirror' = call[t].mirror /\ disk' = disk
      BY <2>1 DEF EnterBuild, storage
    <3>3. mirror' # None
      BY <1>0, <3>2, DistinctAssumption DEF TypeOK, Call
    <3>4. /\ mem'["root"] = [repo |-> getRoot(t), ver |-> 0]
          /\ mem'["root"] # None
          /\ \A k \in Roles \ {"root"} : mem'[k] = newLocalStore[k]
      BY <1>0, <3>1, <3>2, LocalStoreType, DistinctAssumption DEF Roles
    <3>5. ASSUME ~NoCache, NEW k \in Roles, disk[k] # None
          PROVE  /\ mem'[k] # None
                 /\ disk[k].repo = mem'[k].repo => disk[k].ver <= mem'[k].ver
                 /\ disk[k].repo = mem'["root"].repo => mem'[k].repo = mem'["root"].repo
      <4>1. disk[k].ver \in Nat
        BY <1>0, <3>5, ConstantsAssumption DEF TypeOK, File, Releases
      <4> QED BY <1>0, <3>1, <3>4, <3>5, <4>1 DEF StoreInv
    <3> QED BY <1>0, <3>2, <3>3, <3>4, <3>5 DEF StoreInv
  <2>2. CASE EnterBuilt(t)
    BY <1>1, <2>2 DEF EnterBuilt, storage, object
  <2>3. CASE BuildFails(t) \/ EnterFailed(t)
    BY <1>0, <2>3 DEF BuildFails, EnterFailed, storage, StoreInv
  <2> QED BY <1>5, <2>1, <2>2, <2>3 DEF Enter
<1>6. ASSUME NEW t \in Threads, UpdateStep(t) PROVE StoreInv'
  <2>1. once = "built" /\ once' = "built" /\ mirror' = mirror
        /\ Mirror(mirror) \in Mirrors
    BY <1>0, <1>6, UpdateFacts, MirrorType
  <2>2. CASE UpdateTimestamp(t)
    <3>1. PICK r \in Releases :
             /\ Fetchable(r)
             /\ mem' = [mem EXCEPT !["timestamp"] = [repo |-> Mirror(mirror), ver |-> r]]
      BY <2>2 DEF UpdateTimestamp
    <3>2. [repo |-> Mirror(mirror), ver |-> r] \in File
      BY <2>1 DEF File
    <3> QED BY <1>0, <2>1, <2>2, <3>1, <3>2, StoreGrows DEF UpdateTimestamp, Fetchable, storage, Roles
  <2>3. CASE UpdateSnapshot(t)
    <3>1. mem["root"].repo = Mirror(mirror)
      BY <1>0, <2>3 DEF UpdateSnapshot, HolderInv, HolderOK, UpdatePCs
    <3>2. mem["timestamp"].ver \in Releases
      BY <1>0, <2>3 DEF UpdateSnapshot, HolderInv, HolderOK, UpdatePCs
    <3> DEFINE v == TargetsVersion[Mirror(mirror)][mem["timestamp"].ver]
    <3>3. v \in Releases
      BY <2>1, <3>2, RepositoryAssumption
    <3>4. [repo |-> Mirror(mirror), ver |-> v] \in File
      BY <2>1, <3>3 DEF File
    <3>5. /\ v >= Held(mem, "snapshot")
          /\ mem' = [mem EXCEPT !["snapshot"] = [repo |-> Mirror(mirror), ver |-> v]]
          /\ disk' = disk
      BY <2>3 DEF UpdateSnapshot, storage
    <3> QED BY <1>0, <2>1, <3>1, <3>4, <3>5, StoreGrows DEF Roles
  <2>4. CASE UpdateTargets(t)
    <3>1. mem["root"].repo = Mirror(mirror) /\ Verified(mem, "snapshot")
          /\ Held(mem, "targets") <= mem["snapshot"].ver
      BY <1>0, <2>4 DEF UpdateTargets, HolderInv, HolderOK, UpdatePCs
    <3>2. mem["snapshot"] \in File /\ mem["snapshot"].repo = mem["root"].repo
      BY <1>0, <3>1 DEF Verified, TypeOK, Roles
    <3>3. mem' = [mem EXCEPT !["targets"] = mem["snapshot"]] /\ disk' = disk
      BY <2>4 DEF UpdateTargets, Updated, storage
    <3> QED BY <1>0, <2>1, <3>1, <3>2, <3>3, StoreGrows DEF Roles, File
  <2>5. ASSUME NEW k \in Roles, SyncMeta(t, k) PROVE StoreInv'
    <3>1. mem[k] # None
      BY <1>0, <2>5 DEF SyncMeta, AfterSync, HolderInv, HolderOK, UpdatePCs
    <3>2. mem[k].ver \in Nat
      BY <1>0, <3>1, ConstantsAssumption DEF TypeOK, File, Releases
    <3>3. disk' = [disk EXCEPT ![k] = mem[k]] /\ mem' = mem
      BY <2>5 DEF SyncMeta, AfterSync, object
    <3>4. \A j \in Roles : disk'[j] = IF j = k THEN mem[j] ELSE disk[j]
      BY <1>0, <3>3 DEF TypeOK
    <3> QED BY <1>0, <2>1, <3>1, <3>2, <3>3, <3>4 DEF StoreInv, Roles
  <2>6. CASE disk' = disk /\ mem' = mem
    BY <1>1, <2>1, <2>6
  <2>7. CASE \/ Golden(t) \/ NeedUpdate(t) \/ UpdateSameTimestamp(t) \/ UpdateFails(t)
             \/ SyncFails(t) \/ TruncateFile(t) \/ WriteFile(t) \/ SetFails(t)
             \/ UpdateDone(t)
             \/ \E n \in Names : SkipTarget(t, n) \/ FetchTarget(t, n) \/ DownloadFails(t, n)
    <3>1. disk' = disk /\ mem' = mem
      BY <2>7 DEF Golden, NeedUpdate, UpdateSameTimestamp, Updated, UpdateFails, SyncFails,
         TruncateFile, WriteFile, SetFails, UpdateDone, SkipTarget, FetchTarget,
         DownloadFails, storage, object
    <3> QED BY <2>6, <3>1
  <2> QED BY <1>6, <2>2, <2>3, <2>4, <2>5, <2>7 DEF UpdateStep
<1> QED BY <1>2, <1>3, <1>4, <1>5, <1>6, NextCases

\* Every step keeps what initializeTUF relies on between its steps.
LEMMA HolderInvStep == IInv /\ [Next]_vars => HolderInv'
<1> SUFFICES ASSUME IInv, [Next]_vars PROVE HolderInv'
  OBVIOUS
<1>0. TypeOK /\ LockInv /\ StoreInv /\ HolderInv BY DEF IInv
<1> USE DEF world, storage, object, update, threads
<1>1. CASE UNCHANGED vars
  BY <1>0, <1>1 DEF vars, HolderInv, HolderOK, Verified, Held, Listed, Lookup, Targets
<1>2. CASE Restart
  BY <1>2 DEF Restart, HolderInv, UpdatePCs
<1>3. CASE OutsideStep
  <2>1. /\ UNCHANGED <<disk, object, initMu, update>>
        /\ \A u \in Threads : pc'[u] \in UpdatePCs => pc'[u] = pc[u]
    BY <1>3, OutsideFacts DEF InitPCs
  <2> QED BY <1>0, <2>1 DEF HolderInv, HolderOK, Verified, Held, Listed, Lookup, Targets
<1>4. ASSUME NEW t \in Threads, Enter(t) PROVE HolderInv'
  <2>1. \A u \in Threads : pc[u] \notin UpdatePCs
    BY <1>0, <1>4, EnterFacts, DistinctAssumption DEF LockInv, InitPCs
  <2>2. \A u \in Threads : pc'[u] = pc[u] \/ pc'[u] \in {"check", "idle"}
    BY <1>4, EnterFacts
  <2> QED BY <2>1, <2>2 DEF HolderInv, UpdatePCs
<1>5. ASSUME NEW t \in Threads, UpdateStep(t) PROVE HolderInv'
  <2>1. initMu = t /\ once = "built" /\ mirror' = mirror
        /\ Mirror(mirror) \in Mirrors /\ mem["root"] \in File
    BY <1>0, <1>5, UpdateFacts, MirrorType DEF LockInv
  <2>2. \A u \in Threads \ {t} : pc'[u] \notin UpdatePCs
    BY <1>0, <1>5, <2>1, UpdateFacts DEF LockInv, InitPCs
  <2>3. pc[t] \in UpdatePCs => HolderOK(pc[t])
    BY <1>0 DEF HolderInv
  <2>4. CASE pc'[t] \notin UpdatePCs
    BY <2>2, <2>4 DEF HolderInv
  <2>5. CASE NeedUpdate(t)
    <3>1. pc'[t] = "timestamp"
      BY <1>0, <2>5 DEF NeedUpdate, TypeOK
    <3> QED BY <2>2, <3>1 DEF HolderInv, HolderOK
  <2>6. CASE UpdateTimestamp(t)
    <3>1. PICK r \in Releases :
             /\ Fetchable(r)
             /\ mem' = [mem EXCEPT !["timestamp"] = [repo |-> Mirror(mirror), ver |-> r]]
      BY <2>6 DEF UpdateTimestamp
    <3>2. pc'[t] = "snapshot" /\ mem["root"].repo = Mirror(mirror)
      BY <1>0, <2>6, <3>1 DEF UpdateTimestamp, Fetchable, TypeOK
    <3>3. mem'["root"] = mem["root"] /\ mem'["timestamp"] = [repo |-> Mirror(mirror), ver |-> r]
      BY <1>0, <3>1 DEF TypeOK, Roles
    <3>4. mem["root"] # None /\ mem'["timestamp"] # None
      BY <2>1, <3>3, DistinctAssumption DEF File
    <3> QED BY <2>1, <2>2, <3>2, <3>3, <3>4 DEF HolderInv, HolderOK, Verified, Mirror
  <2>7. CASE UpdateSnapshot(t)
    <3> DEFINE v == TargetsVersion[Mirror(mirror)][mem["timestamp"].ver]
    <3>1. mem["root"].repo = Mirror(mirror) /\ mem["timestamp"].ver \in Releases
          /\ Verified(mem, "timestamp") /\ pc'[t] = "targets"
      BY <1>0, <2>3, <2>7 DEF UpdateSnapshot, UpdatePCs, HolderOK, TypeOK
    <3>2. v \in Releases
      BY <2>1, <3>1, RepositoryAssumption
    <3>3. v >= Held(mem, "targets") /\ mem' = [mem EXCEPT !["snapshot"] = [repo |-> Mirror(mirror), ver |-> v]]
      BY <2>7 DEF UpdateSnapshot
    <3>4. /\ \A k \in Roles \ {"snapshot"} : mem'[k] = mem[k]
          /\ mem'["snapshot"] = [repo |-> Mirror(mirror), ver |-> v]
      BY <1>0, <3>3 DEF TypeOK, Roles
    <3>5. mem["root"] # None /\ mem'["snapshot"] # None
      BY <2>1, <3>2, <3>4, DistinctAssumption DEF File
    <3>6. Held(mem, "targets")' = Held(mem, "targets")
      BY <3>4 DEF Held, Verified, Roles
    <3>7. Held(mem, "targets") <= v
      BY <3>2, <3>3 DEF Held
    <3>8. Mirror(mirror)' = Mirror(mirror)
      BY <2>1 DEF Mirror
    <3>9. Verified(mem, "timestamp")' /\ Verified(mem, "snapshot")' /\ mem'["root"] = mem["root"]
          /\ mem'["timestamp"] = mem["timestamp"]
      BY <3>1, <3>4, <3>5 DEF Verified, Roles
    <3> HIDE DEF v
    <3>10. HolderOK("targets")'
      BY <3>1, <3>2, <3>4, <3>6, <3>7, <3>8, <3>9 DEF HolderOK, UpdatePCs
    <3> QED BY <2>2, <3>1, <3>10 DEF HolderInv, HolderOK
  <2>8. ASSUME NEW store, NEW names, Updated(t, store, names), names \subseteq Listed(store),
               store["root"].repo = Mirror(mirror)
        PROVE  HolderInv'
    <3>1. mem' = store /\ todo' = names /\ disk' = disk
          /\ tosync' = (IF NoCache THEN {} ELSE {k \in Roles : store[k] # None})
          /\ pc'[t] = (IF NoCache THEN "download" ELSE "sync")
      BY <1>0, <2>8 DEF Updated, TypeOK
    <3>2. todo' \subseteq Listed(mem)' /\ mem'["root"].repo = Mirror(mirror)'
      BY <2>1, <2>8, <3>1 DEF Listed, Lookup, Targets, Verified, Mirror
    <3>3. CASE NoCache
      <4>1. HolderOK("download")'
        BY <3>1, <3>2, <3>3 DEF HolderOK, UpdatePCs
      <4> QED BY <2>2, <3>1, <3>3, <4>1 DEF HolderInv, HolderOK
    <3>4. CASE ~NoCache
      <4>1. /\ \A k \in tosync' : mem'[k] # None
            /\ \A k \in Roles \ tosync' : mem'[k] = None
        BY <3>1, <3>4
      <4>2. ASSUME NEW k \in Roles, mem'[k] = None PROVE disk'[k] = None
        <5>1. StoreInv' /\ once' = "built"
          BY <1>5, <2>1, UpdateFacts, StoreInvStep
        <5> QED BY <3>4, <4>2, <5>1 DEF StoreInv
      <4>3. HolderOK("sync")'
        BY <3>1, <3>2, <3>4, <4>1, <4>2 DEF HolderOK, UpdatePCs
      <4> QED BY <2>2, <3>1, <3>4, <4>3 DEF HolderInv, HolderOK
    <3> QED BY <3>3, <3>4, ConstantsAssumption
  <2>9. CASE UpdateSameTimestamp(t)
    <3>1. mem["root"].repo = Mirror(mirror)
      BY <2>9 DEF UpdateSameTimestamp, Fetchable
    <3> QED BY <2>8, <2>9, <3>1 DEF UpdateSameTimestamp
  <2>10. CASE UpdateTargets(t)
    <3> DEFINE store == [mem EXCEPT !["targets"] = mem["snapshot"]]
    <3>1. mem["root"].repo = Mirror(mirror) /\ Verified(mem, "snapshot")
      BY <2>3, <2>10 DEF UpdateTargets, HolderOK, UpdatePCs
    <3>2. store["root"] = mem["root"] /\ store["targets"] = mem["snapshot"]
      BY <1>0 DEF TypeOK, Roles
    <3>3. Targets(store) = mem["snapshot"]
      BY <3>1, <3>2 DEF Targets, Verified
    <3> HIDE DEF store
    <3>4. NewlyUpdated(Targets(mem), mem["snapshot"]) \subseteq Listed(store)
      BY <3>3 DEF NewlyUpdated, Listed
    <3> QED BY <2>8, <2>10, <3>1, <3>2, <3>4 DEF UpdateTargets, store
  <2>11. ASSUME NEW k \in Roles, SyncMeta(t, k) PROVE HolderInv'
    <3>1. pc[t] = "sync" /\ HolderOK("sync") /\ mem' = mem /\ todo' = todo
          /\ tosync' = tosync \ {k}
          /\ pc'[t] = (IF tosync = {k} THEN "download" ELSE "sync")
      BY <1>0, <2>3, <2>11 DEF SyncMeta, AfterSync, UpdatePCs, TypeOK
    <3>2. \A j \in Roles : disk'[j] = IF j = k THEN mem[j] ELSE disk[j]
      BY <1>0, <2>11 DEF SyncMeta, AfterSync, TypeOK
    <3>3. \A j \in Roles \ tosync' : disk'[j] = mem'[j]
      BY <3>1, <3>2 DEF HolderOK
    <3>4. /\ Listed(mem)' = Listed(mem) /\ Mirror(mirror)' = Mirror(mirror)
      BY <2>1, <3>1 DEF Listed, Lookup, Targets, Verified, Mirror
    <3>5. CASE tosync # {k}
      BY <2>2, <3>1, <3>3, <3>4, <3>5 DEF HolderInv, HolderOK, UpdatePCs
    <3>6. CASE tosync = {k}
      <4>1. \A j \in Roles : disk'[j] = mem'[j]
        BY <3>1, <3>3, <3>6
      <4>2. disk' = mem'
        BY <1>0, <2>11, <3>1, <4>1, TypeStep DEF TypeOK, SyncMeta, AfterSync
      <4> QED BY <2>2, <3>1, <3>4, <3>6, <4>2 DEF HolderInv, HolderOK, UpdatePCs
    <3> QED BY <3>5, <3>6
  <2>12. ASSUME NEW n \in Names, SkipTarget(t, n) PROVE HolderInv'
    <3>1. UNCHANGED <<mem, disk, cache, writing, pc>> /\ todo' \subseteq todo /\ pc[t] = "download"
      BY <2>12 DEF SkipTarget
    <3>2. Listed(mem)' = Listed(mem) /\ Mirror(mirror)' = Mirror(mirror)
      BY <2>1, <3>1 DEF Listed, Lookup, Targets, Verified, Mirror
    <3> QED BY <2>2, <2>3, <3>1, <3>2 DEF HolderInv, HolderOK, UpdatePCs
  <2>13. ASSUME NEW n \in Names, FetchTarget(t, n) PROVE HolderInv'
    <3>1. UNCHANGED <<mem, disk>> /\ todo' \subseteq todo /\ pc[t] = "download"
          /\ cache' = [cache EXCEPT ![n] = Lookup(Targets(mem), n).content]
          /\ \/ pc'[t] = "download"
             \/ pc'[t] = "write" /\ writing' = n
      BY <1>0, <2>13 DEF FetchTarget, TypeOK
    <3>2. Listed(mem)' = Listed(mem) /\ Mirror(mirror)' = Mirror(mirror)
      BY <2>1, <3>1 DEF Listed, Lookup, Targets, Verified, Mirror
    <3>3. n \in Listed(mem)
      BY <2>3, <2>13 DEF FetchTarget, HolderOK, UpdatePCs
    <3>4. Targets(mem) \in File \cup {None}
      BY <1>0 DEF Targets, TypeOK, Roles
    <3>5. Lookup(Targets(mem), n).content \in Contents
      BY <3>3, <3>4, LookupType, EntryType DEF Listed
    <3>6. cache'[n] # None
      BY <1>0, <3>1, <3>5, DistinctAssumption DEF TypeOK
    <3>7. HolderOK("download")
      BY <2>3, <3>1 DEF UpdatePCs
    <3> QED BY <2>2, <3>1, <3>2, <3>6, <3>7 DEF HolderInv, HolderOK, UpdatePCs
  <2>14. CASE TruncateFile(t) \/ WriteFile(t)
    <3>1. UNCHANGED <<mem, disk, cache>> /\ todo' \subseteq todo
          /\ \/ pc[t] = "write" /\ pc'[t] = "writing" /\ writing' = writing
             \/ pc[t] = "writing" /\ pc'[t] = "download"
      BY <1>0, <2>14 DEF TruncateFile, WriteFile, TypeOK
    <3>2. Listed(mem)' = Listed(mem) /\ Mirror(mirror)' = Mirror(mirror)
      BY <2>1, <3>1 DEF Listed, Lookup, Targets, Verified, Mirror
    <3> QED BY <2>2, <2>3, <3>1, <3>2 DEF HolderInv, HolderOK, UpdatePCs
  <2>15. ASSUME NEW ok \in BOOLEAN, Return(t, ok) PROVE HolderInv'
    <3>1. pc'[t] \in {"idle", "store"}
      BY <1>0, <2>15, ReturnFacts
    <3> QED BY <2>4, <3>1 DEF UpdatePCs
  <2>16. CASE \/ Golden(t) \/ UpdateFails(t) \/ SyncFails(t) \/ SetFails(t) \/ UpdateDone(t)
              \/ \E n \in Names : DownloadFails(t, n)
    BY <2>15, <2>16 DEF Golden, UpdateFails, SyncFails, SetFails, UpdateDone, DownloadFails
  <2> QED BY <1>5, <2>5, <2>6, <2>7, <2>9, <2>10, <2>11, <2>12, <2>13, <2>14, <2>16 DEF UpdateStep
<1> QED BY <1>1, <1>2, <1>3, <1>4, <1>5, NextCases

\* Every step keeps the root of the singleton's mirror on disk for as long as
\* some Initialize may still write remote.json: the sync that came before it
\* put it there and nothing overwrites it with another repository's.
LEMMA RemoteInvStep == IInv /\ [Next]_vars => RemoteInv'
<1> SUFFICES ASSUME IInv, [Next]_vars PROVE RemoteInv'
  OBVIOUS
<1>0. TypeOK /\ LockInv /\ StoreInv /\ HolderInv /\ RemoteInv BY DEF IInv
<1> USE DEF world, storage, object, update, threads
<1>1. CASE UNCHANGED vars
  BY <1>0, <1>1 DEF vars, RemoteInv, Mirror
<1>2. CASE Restart
  BY <1>2 DEF Restart, RemoteInv
<1>3. CASE OutsideStep
  <2>1. UNCHANGED <<disk, mirror>>
    BY <1>3, OutsideFacts
  <2>2. \A u \in Threads : pc'[u] \in {"store", "storing"} => pc[u] \in {"store", "storing"}
    <3>1. CASE \E m \in Mirrors \ Legacy : Publish(m) \/ Expire(m)
      BY <3>1 DEF Publish, Expire
    <3>2. ASSUME NEW t \in Threads, Calls(t)
          PROVE  \A u \in Threads : pc'[u] \in {"store", "storing"} => pc[u] \in {"store", "storing"}
      BY <1>0, <3>2 DEF Calls, NewFromEnv, EnvMirror, Initialize, GetTarget, GetTargetsByMeta, TypeOK
    <3>3. ASSUME NEW t \in Threads, StoreStep(t)
          PROVE  \A u \in Threads : pc'[u] \in {"store", "storing"} => pc[u] \in {"store", "storing"}
      BY <1>0, <3>3 DEF StoreStep, TruncateRemote, WriteRemote, StoredMirror, StoreFails, TypeOK
    <3>4. ASSUME NEW t \in Threads, LockStep(t) \/ ReadStep(t)
          PROVE  \A u \in Threads : pc'[u] \in {"store", "storing"} => pc[u] \in {"store", "storing"}
      BY <1>0, <3>4 DEF LockStep, ReadStep, TargetMeta, TargetUnknown, Missing, NextTarget,
         TryFallbacks, Finish, TargetBytes, TargetInvalid, ReadReturns, TypeOK
    <3> QED BY <1>3, <3>1, <3>2, <3>3, <3>4 DEF OutsideStep
  <2> QED BY <1>0, <2>1, <2>2 DEF RemoteInv, Mirror
<1>4. ASSUME NEW t \in Threads, Enter(t) PROVE RemoteInv'
  <2>1. CASE EnterBuilt(t)
    BY <1>0, <2>1 DEF EnterBuilt, RemoteInv, Mirror, TypeOK
  <2>2. CASE ~EnterBuilt(t)
    <3>1. once # "built"
      BY <1>4, <2>2 DEF Enter, EnterBuild, BuildFails, EnterFailed
    <3>2. \A u \in Threads : pc[u] \notin {"store", "storing"}
      BY <1>0, <3>1 DEF LockInv
    <3>3. \A u \in Threads : pc'[u] = pc[u] \/ pc'[u] \in {"check", "idle"}
      BY <1>4, EnterFacts
    <3> QED BY <3>2, <3>3 DEF RemoteInv
  <2> QED BY <2>1, <2>2
<1>5. ASSUME NEW t \in Threads, UpdateStep(t) PROVE RemoteInv'
  <2>1. mirror' = mirror /\ \A u \in Threads \ {t} : pc'[u] = pc[u]
    BY <1>5, UpdateFacts
  <2>2. pc'[t] \in UpdatePCs \cup {"idle", "store"}
    BY <1>5, UpdateFacts
  <2>3. Mirror(mirror)' = Mirror(mirror)
    BY <2>1 DEF Mirror
  <2>4. ASSUME NEW k \in Roles, SyncMeta(t, k) PROVE RemoteInv'
    <3>1. pc[t] = "sync" /\ mem["root"].repo = Mirror(mirror) /\ mem["root"] # None
          /\ pc'[t] \in UpdatePCs
      BY <1>0, <2>4 DEF SyncMeta, AfterSync, HolderInv, HolderOK, UpdatePCs, LockInv, InitPCs, StoreInv, TypeOK
    <3>2. disk'["root"] = (IF k = "root" THEN mem["root"] ELSE disk["root"])
      BY <1>0, <2>4 DEF SyncMeta, AfterSync, TypeOK, Roles
    <3> QED BY <1>0, <2>1, <2>3, <3>1, <3>2 DEF RemoteInv, UpdatePCs
  <2>5. CASE UpdateDone(t)
    <3>1. disk' = disk /\ Return(t, TRUE) /\ pc[t] = "download"
      BY <2>5 DEF UpdateDone
    <3>2. pc'[t] = "store" => ~NoCache
      BY <1>0, <3>1, ReturnFacts
    <3>3. ~NoCache => disk["root"] # None /\ disk["root"].repo = Mirror(mirror)
      BY <1>0, <3>1 DEF HolderInv, HolderOK, UpdatePCs, LockInv, InitPCs, StoreInv
    <3> QED BY <1>0, <2>1, <2>2, <2>3, <3>1, <3>2, <3>3 DEF RemoteInv, UpdatePCs
  <2>6. ASSUME disk' = disk, pc'[t] # "store" PROVE RemoteInv'
    BY <1>0, <2>1, <2>2, <2>3, <2>6 DEF RemoteInv, UpdatePCs
  <2>7. CASE Golden(t)
    <3>1. disk' = disk /\ Return(t, TRUE) /\ call[t].op = "NewFromEnv"
      BY <2>7 DEF Golden, UpToDate
    <3>2. pc'[t] # "store"
      BY <1>0, <3>1, ReturnFacts
    <3> QED BY <2>6, <3>1, <3>2
  <2>8. CASE \/ UpdateFails(t) \/ SyncFails(t) \/ SetFails(t)
             \/ \E n \in Names : DownloadFails(t, n)
    <3>1. disk' = disk /\ Return(t, FALSE)
      BY <2>8 DEF UpdateFails, SyncFails, SetFails, DownloadFails
    <3>2. pc'[t] # "store"
      BY <1>0, <3>1, ReturnFacts
    <3> QED BY <2>6, <3>1, <3>2
  <2>9. CASE \/ NeedUpdate(t) \/ UpdateSameTimestamp(t) \/ UpdateTimestamp(t)
             \/ UpdateSnapshot(t) \/ UpdateTargets(t) \/ TruncateFile(t) \/ WriteFile(t)
             \/ \E n \in Names : SkipTarget(t, n) \/ FetchTarget(t, n)
    <3>1. disk' = disk /\ pc'[t] # "store"
      BY <1>0, <2>9 DEF NeedUpdate, UpdateSameTimestamp, Updated, UpdateTimestamp,
         UpdateSnapshot, UpdateTargets, TruncateFile, WriteFile, SkipTarget,
         FetchTarget, TypeOK
    <3> QED BY <2>6, <3>1
  <2> QED BY <1>5, <2>4, <2>5, <2>7, <2>8, <2>9 DEF UpdateStep
<1> QED BY <1>1, <1>2, <1>3, <1>4, <1>5, NextCases

\* A store that only moves on to newer targets.json of its repository.
Advances == \A f \in File : Past(mem, f) => Past(mem, f)'

\* A reader's locals stay good while the store advances.
LEMMA ReaderStays ==
  ASSUME IInv, Advances, NEW r \in Reader, NEW p, NEW q,
         ReaderOK(mem, r, p), q \in {"next", "meta", "bytes"} => q = p, mem' \in [Roles -> File \cup {None}]
  PROVE  ReaderOK(mem', r, q)
<1>1. ASSUME NEW f \in File, Past(mem, f) PROVE Past(mem', f)
  BY <1>1 DEF Advances, Past, Verified
<1>2. /\ r.listed \in File \cup {None} /\ r.want \in File \cup {None}
      /\ \A f \in r.found : f.meta \in File
  BY DEF Reader, TargetFile
<1> QED BY <1>1, <1>2 DEF ReaderOK

\* A reader that has not read anything yet.
LEMMA ReaderIdle ==
  ASSUME NEW store, NEW p, p \notin {"next", "meta", "bytes"}
  PROVE  ReaderOK(store, NoReader, p)
  BY DEF ReaderOK, NoReader

\* Update, in the middle of which a reader may be, only advances the store.
LEMMA AdvancesStep ==
  ASSUME IInv, NEW t \in Threads, UpdateStep(t)
  PROVE  Advances
<1> TypeOK /\ LockInv /\ StoreInv /\ HolderInv BY DEF IInv
<1> USE DEF world, storage, object, update, threads
<1>1. ASSUME mem'["root"] = mem["root"], mem'["targets"] = mem["targets"] PROVE Advances
  BY <1>1 DEF Advances, Past, Verified
<1>2. CASE UpdateTimestamp(t) \/ UpdateSnapshot(t)
  <2>1. mem'["root"] = mem["root"] /\ mem'["targets"] = mem["targets"]
    BY <1>2 DEF UpdateTimestamp, UpdateSnapshot, TypeOK, Roles
  <2> QED BY <1>1, <2>1
<1>3. CASE UpdateTargets(t)
  <2>1. Verified(mem, "snapshot") /\ Held(mem, "targets") <= mem["snapshot"].ver
        /\ mem["snapshot"].ver \in Releases
    BY <1>3 DEF UpdateTargets, HolderInv, HolderOK, UpdatePCs
  <2>2. mem'["root"] = mem["root"] /\ mem'["targets"] = mem["snapshot"]
    BY <1>3 DEF UpdateTargets, Updated, TypeOK, Roles
  <2>3. Verified(mem, "targets")'
    BY <2>1, <2>2 DEF Verified
  <2>4. ASSUME NEW f \in File, Past(mem, f) PROVE Past(mem, f)'
    <3>1. Verified(mem, "targets") /\ f.repo = mem["targets"].repo /\ f.ver <= mem["targets"].ver
      BY <2>4 DEF Past
    <3>2. Held(mem, "targets") = mem["targets"].ver
      BY <3>1 DEF Held
    <3>3. mem["targets"] \in File
      BY <3>1 DEF Verified, TypeOK, Roles
    <3>4. f.ver \in Nat /\ mem["targets"].ver \in Nat /\ mem["snapshot"].ver \in Nat
      BY <2>1, <3>3, ConstantsAssumption DEF File, Releases
    <3>5. f.ver <= mem["snapshot"].ver
      BY <2>1, <3>1, <3>2, <3>4
    <3>6. f.repo = mem["snapshot"].repo
      BY <2>1, <3>1 DEF Verified
    <3> QED BY <2>2, <2>3, <3>5, <3>6 DEF Past
  <2> QED BY <2>4 DEF Advances
<1>4. CASE \/ Golden(t) \/ NeedUpdate(t) \/ UpdateSameTimestamp(t) \/ UpdateFails(t)
           \/ SyncFails(t) \/ TruncateFile(t) \/ WriteFile(t) \/ SetFails(t)
           \/ UpdateDone(t)
           \/ \E k \in Roles : SyncMeta(t, k)
           \/ \E n \in Names : SkipTarget(t, n) \/ FetchTarget(t, n) \/ DownloadFails(t, n)
  <2>1. mem' = mem
    BY <1>4 DEF Golden, NeedUpdate, UpdateSameTimestamp, Updated, UpdateFails, SyncFails,
       TruncateFile, WriteFile, SetFails, UpdateDone, SkipTarget, FetchTarget,
       DownloadFails, SyncMeta, AfterSync
  <2> QED BY <1>1, <2>1
<1> QED BY <1>2, <1>3, <1>4 DEF UpdateStep

\* What a reader's own step makes of its locals.
LEMMA ReaderSteps ==
  ASSUME IInv, NEW t \in Threads,
         \/ Calls(t) \/ LockStep(t) \/ ReadStep(t)
  PROVE  /\ ReaderOK(mem, reader'[t], pc'[t])
         /\ \A u \in Threads \ {t} : reader'[u] = reader[u] /\ pc'[u] = pc[u]
         /\ mem' = mem
<1> TypeOK /\ LockInv /\ StoreInv /\ ReaderInv BY DEF IInv
<1> USE DEF world, storage, object, update, threads
<1> DEFINE r == reader[t]
<1>1. ReaderOK(mem, r, pc[t]) /\ r \in Reader /\ reader \in [Threads -> Reader]
      /\ pc \in [Threads -> PCs]
  BY DEF ReaderInv, TypeOK
<1> DEFINE Goal == /\ ReaderOK(mem, reader'[t], pc'[t])
                   /\ \A u \in Threads \ {t} : reader'[u] = reader[u] /\ pc'[u] = pc[u]
                   /\ mem' = mem
<1>2. ASSUME NewFromEnv(t) \/ \E m \in Mirrors, q \in (Mirrors \ Legacy) \cup {None} : Initialize(t, m, q)
      PROVE  Goal
  <2>1. reader' = reader /\ pc' = [pc EXCEPT ![t] = "lock"] /\ mem' = mem
    BY <1>2 DEF NewFromEnv, EnvMirror, Initialize
  <2>2. ReaderOK(mem, r, "lock")
    BY <1>1 DEF ReaderOK
  <2> QED BY <1>1, <2>1, <2>2
<1>3. ASSUME NEW n \in Names, GetTarget(t, n) PROVE Goal
  <2>1. ReaderOK(mem, [NoReader EXCEPT !.mode = "target", !.name = n], "meta")
    BY DEF ReaderOK, NoReader
  <2> QED BY <1>1, <1>3, <2>1 DEF GetTarget
<1>4. ASSUME NEW u \in Usages, GetTargetsByMeta(t, u) PROVE Goal
  <2> DEFINE q == [NoReader EXCEPT !.mode = "usage", !.listed = Targets(mem),
             !.pending = {n \in Listed(mem) : Lookup(Targets(mem), n).usage = u}]
  <2>1. /\ q.mode = "usage" /\ q.listed = Targets(mem) /\ q.name = None /\ q.want = None
        /\ q.found = {} /\ q.pending \subseteq Listed(mem)
    BY DEF NoReader
  <2>2. Targets(mem) # None => Past(mem, Targets(mem))
    <3>1. ASSUME Targets(mem) # None PROVE Verified(mem, "targets") /\ Targets(mem) = mem["targets"]
      BY <3>1 DEF Targets
    <3>2. Verified(mem, "targets") => mem["targets"].ver \in Nat
      BY ConstantsAssumption DEF Verified, TypeOK, Roles, File, Releases
    <3> QED BY <3>1, <3>2 DEF Past
  <2>3. reader' = [reader EXCEPT ![t] = q] /\ pc' = [pc EXCEPT ![t] = "next"] /\ mem' = mem
    BY <1>4 DEF GetTargetsByMeta
  <2> HIDE DEF q
  <2>4. ReaderOK(mem, q, "next")
    BY <2>1, <2>2 DEF ReaderOK, Listed
  <2> QED BY <1>1, <2>3, <2>4
<1>5. ASSUME NEW n \in Names, NextTarget(t, n) PROVE Goal
  <2> DEFINE q == [r EXCEPT !.name = n, !.pending = @ \ {n}]
  <2>1. reader' = [reader EXCEPT ![t] = q] /\ pc' = [pc EXCEPT ![t] = "meta"] /\ mem' = mem
    BY <1>1, <1>5 DEF NextTarget, Reader
  <2>2. /\ q.mode = r.mode /\ q.listed = r.listed /\ q.name = n /\ q.want = r.want
        /\ q.found = r.found /\ q.pending = r.pending \ {n}
    BY <1>1 DEF Reader
  <2>3. n \in r.pending /\ pc[t] = "next"
    BY <1>5 DEF NextTarget
  <2> HIDE DEF q
  <2>4. ReaderOK(mem, q, "meta")
    BY <1>1, <2>2, <2>3 DEF ReaderOK
  <2> QED BY <1>1, <2>1, <2>4
<1>6. ASSUME TryFallbacks(t) PROVE Goal
  <2> DEFINE q == [r EXCEPT !.mode = "fallback", !.pending = Fallbacks]
  <2>1. reader' = [reader EXCEPT ![t] = q] /\ pc' = pc /\ mem' = mem /\ pc[t] = "next"
    BY <1>1, <1>6 DEF TryFallbacks, Reader
  <2>2. /\ q.mode = "fallback" /\ q.listed = r.listed /\ q.name = r.name /\ q.want = r.want
        /\ q.found = r.found
    BY <1>1 DEF Reader
  <2> HIDE DEF q
  <2>4. ReaderOK(mem, q, "next")
    BY <1>1, <2>1, <2>2 DEF ReaderOK
  <2> QED BY <1>1, <2>1, <2>4
<1>7. ASSUME Finish(t) \/ ReadReturns(t) PROVE Goal
  <2>1. ReaderOK(mem, r, "return")
    BY <1>1 DEF ReaderOK
  <2> QED BY <1>1, <1>7, <2>1, ReaderIdle DEF Finish, ReadReturns
<1>8. ASSUME TargetMeta(t) PROVE Goal
  <2> DEFINE q == [r EXCEPT !.want = mem["targets"]]
  <2>1. reader' = [reader EXCEPT ![t] = q] /\ pc' = [pc EXCEPT ![t] = "bytes"] /\ mem' = mem /\ pc[t] = "meta"
    BY <1>1, <1>8 DEF TargetMeta, Reader
  <2>2. /\ q.mode = r.mode /\ q.listed = r.listed /\ q.name = r.name /\ q.want = mem["targets"]
        /\ q.found = r.found /\ q.pending = r.pending
    BY <1>1 DEF Reader
  <2>3. Verified(mem, "targets") /\ mem["targets"] # None /\ Lookup(mem["targets"], r.name) # None
    BY <1>8 DEF TargetMeta, Consistent, Verified
  <2>4. mem["targets"].ver \in Nat
    BY <2>3, ConstantsAssumption DEF TypeOK, Roles, File, Releases
  <2>5. Past(mem, mem["targets"])
    BY <2>3, <2>4 DEF Past
  <2>6. r.listed # None => r.listed.ver <= mem["targets"].ver
    BY <1>1 DEF ReaderOK, Past
  <2> HIDE DEF q
  <2>7. ReaderOK(mem, q, "bytes")
    BY <1>1, <2>1, <2>2, <2>3, <2>5, <2>6 DEF ReaderOK
  <2> QED BY <1>1, <2>1, <2>7
<1>9. ASSUME Missing(t), pc[t] \in {"meta", "bytes"}, mem' = mem PROVE Goal
  <2>1. CASE r.mode = "fallback"
    <3> DEFINE q == [r EXCEPT !.name = None, !.want = None]
    <3>1. reader' = [reader EXCEPT ![t] = q] /\ pc' = [pc EXCEPT ![t] = "next"]
      BY <1>1, <1>9, <2>1 DEF Missing, Reader
    <3>2. /\ q.mode = "fallback" /\ q.listed = r.listed /\ q.name = None /\ q.want = None
          /\ q.found = r.found /\ q.pending = r.pending
      BY <1>1, <2>1 DEF Reader
    <3> HIDE DEF q
    <3>3. ReaderOK(mem, q, "next")
      BY <1>1, <3>2 DEF ReaderOK
    <3> QED BY <1>1, <1>9, <3>1, <3>3
  <2>2. CASE r.mode # "fallback"
    BY <1>1, <1>9, <2>2, ReaderIdle DEF Missing
  <2> QED BY <2>1, <2>2
<1>10. ASSUME TargetUnknown(t) \/ TargetInvalid(t) PROVE Goal
  BY <1>9, <1>10 DEF TargetUnknown, TargetInvalid
<1>11. ASSUME TargetBytes(t) PROVE Goal
  <2> DEFINE e == Result(r)
             q == [r EXCEPT !.found = @ \cup {e}, !.name = None, !.want = None]
             p == IF r.mode = "target" THEN "return" ELSE "next"
  <2>1. reader' = [reader EXCEPT ![t] = q] /\ pc' = [pc EXCEPT ![t] = p] /\ mem' = mem /\ pc[t] = "bytes"
    BY <1>1, <1>11 DEF TargetBytes, Reader
  <2>2. /\ q.mode = r.mode /\ q.listed = r.listed /\ q.name = None /\ q.want = None
        /\ q.found = r.found \cup {e} /\ q.pending = r.pending
    BY <1>1 DEF Reader
  <2>3. e.name = r.name /\ e.meta = r.want /\ e.content = Lookup(r.want, r.name).content
    BY <1>11 DEF TargetBytes, isValidTarget, Result
  <2>4. r.want # None /\ Lookup(r.want, r.name) # None
    BY <1>1, <2>1 DEF ReaderOK
  <2> HIDE DEF q, e
  <2>5. ReaderOK(mem, q, p)
    BY <1>1, <2>1, <2>2, <2>3, <2>4 DEF ReaderOK
  <2> QED BY <1>1, <2>1, <2>5
<1> QED BY <1>2, <1>3, <1>4, <1>5, <1>6, <1>7, <1>8, <1>10, <1>11 DEF Calls, LockStep, ReadStep

\* Every step keeps the locals of every reader good.
LEMMA ReaderInvStep == IInv /\ [Next]_vars => ReaderInv'
<1> SUFFICES ASSUME IInv, [Next]_vars PROVE ReaderInv'
  OBVIOUS
<1>0. TypeOK /\ LockInv /\ StoreInv /\ HolderInv /\ ReaderInv BY DEF IInv
<1>0a. mem' \in [Roles -> File \cup {None}]
  BY TypeStep DEF TypeOK
<1> USE DEF world, storage, object, update, threads
<1>1. ASSUME Advances, reader' = reader,
             \A u \in Threads : pc'[u] \in {"next", "meta", "bytes"} => pc'[u] = pc[u]
      PROVE  ReaderInv'
  <2>1. \A u \in Threads : reader[u] \in Reader
    BY <1>0 DEF TypeOK
  <2>2. \A u \in Threads : ReaderOK(mem', reader[u], pc'[u])
    BY <1>0, <1>0a, <1>1, <2>1, ReaderStays DEF ReaderInv
  <2> QED BY <1>1, <2>2 DEF ReaderInv, ReaderOK, Past, Verified
<1>2. CASE mem' = mem
  <2>1. Advances
    BY <1>2 DEF Advances, Past, Verified
  <2>2. CASE reader' = reader /\ \A u \in Threads : pc'[u] \in {"next", "meta", "bytes"} => pc'[u] = pc[u]
    BY <1>1, <2>1, <2>2
  <2>3. ASSUME NEW t \in Threads, Calls(t) \/ LockStep(t) \/ ReadStep(t) PROVE ReaderInv'
    <3>1. \A u \in Threads : ReaderOK(mem, reader'[u], pc'[u])
      BY <1>0, <2>3, ReaderSteps DEF ReaderInv
    <3> QED BY <1>2, <3>1 DEF ReaderInv, ReaderOK, Past, Verified
  <2>4. CASE UNCHANGED vars
    BY <2>2, <2>4 DEF vars
  <2>5. ASSUME NEW m \in Mirrors, Publish(m) \/ Expire(m) PROVE ReaderInv'
    BY <2>2, <2>5 DEF Publish, Expire
  <2>6. ASSUME NEW t \in Threads, StoreStep(t) PROVE ReaderInv'
    BY <1>0, <2>2, <2>6 DEF StoreStep, TruncateRemote, WriteRemote, StoredMirror, StoreFails, TypeOK
  <2>7. CASE OutsideStep
    BY <2>3, <2>5, <2>6, <2>7 DEF OutsideStep
  <2>8. CASE ~OutsideStep /\ ~UNCHANGED vars
    <3>1. CASE Restart
      BY <3>1, ReaderIdle DEF Restart, ReaderInv, ReaderOK, NoReader
    <3>2. ASSUME NEW t \in Threads, Enter(t) PROVE ReaderInv'
      <4>1. reader' = reader /\ \A u \in Threads : pc'[u] = pc[u] \/ pc'[u] \in {"check", "idle"}
        BY <3>2, EnterFacts
      <4> QED BY <2>2, <4>1
    <3>3. ASSUME NEW t \in Threads, UpdateStep(t) PROVE ReaderInv'
      <4>1. reader' = reader /\ \A u \in Threads : pc'[u] = pc[u] \/ pc'[u] \in UpdatePCs \cup {"idle", "store"}
        BY <3>3, UpdateFacts
      <4> QED BY <2>2, <4>1 DEF UpdatePCs
    <3> QED BY <2>8, <3>1, <3>2, <3>3, NextCases
  <2> QED BY <2>4, <2>7, <2>8
<1>3. CASE Restart
  BY <1>3 DEF Restart, ReaderInv, ReaderOK, NoReader
<1>4. ASSUME NEW t \in Threads, Enter(t), mem' # mem PROVE ReaderInv'
  <2>1. once # "built"
    BY <1>4 DEF Enter, EnterBuild, EnterBuilt, BuildFails, EnterFailed
  <2>2. \A u \in Threads : reader'[u] = NoReader /\ pc[u] \notin {"next", "meta", "bytes"}
    BY <1>0, <1>4, <2>1, EnterFacts DEF LockInv
  <2>3. \A u \in Threads : pc'[u] = pc[u] \/ pc'[u] \in {"check", "idle"}
    BY <1>4, EnterFacts
  <2> QED BY <2>2, <2>3 DEF ReaderInv, ReaderOK, NoReader
<1>5. ASSUME NEW t \in Threads, UpdateStep(t) PROVE ReaderInv'
  <2>1. reader' = reader /\ \A u \in Threads : pc'[u] = pc[u] \/ pc'[u] \in UpdatePCs \cup {"idle", "store"}
    BY <1>5, UpdateFacts
  <2> QED BY <1>1, <1>5, <2>1, AdvancesStep DEF UpdatePCs
<1>6. OutsideStep \/ UNCHANGED vars => mem' = mem
  BY OutsideFacts DEF vars
<1> QED BY <1>2, <1>3, <1>4, <1>5, <1>6, NextCases

\* The inductive invariant holds initially.
LEMMA IInvInit == Init => IInv
<1> SUFFICES ASSUME Init PROVE IInv
  OBVIOUS
<1>1. TypeOK
  BY NoReaderType, ConstantsAssumption DEF Init, TypeOK, PCs
<1>2. LockInv
  BY DistinctAssumption DEF Init, LockInv, InitPCs, UpdatePCs
<1>3. StoreInv
  BY DEF Init, StoreInv, NoStore, Roles
<1>4. HolderInv /\ RemoteInv
  BY DEF Init, HolderInv, RemoteInv, UpdatePCs
<1>5. ReaderInv
  BY ReaderIdle DEF Init, ReaderInv
<1> QED BY <1>1, <1>2, <1>3, <1>4, <1>5 DEF IInv

-----------------------------------------------------------------------------
(* The theorems                                                            *)

\* The inductive invariant: what the code of client.go keeps true across all
\* interleavings, failures and restarts.
THEOREM Invariance == Spec => []IInv
<1>1. IInv /\ [Next]_vars => IInv'
  BY TypeStep, LockInvStep, StoreInvStep, HolderInvStep, RemoteInvStep, ReaderInvStep DEF IInv
<1> QED BY <1>1, IInvInit, PTL DEF Spec

\* Every variable of the client keeps its type, remote.json's mirror included
\* (NewFromEnv parses it before it is used).
THEOREM TypeCorrect == Spec => []TypeOK
<1>1. IInv => TypeOK
  BY DEF IInv
<1> QED BY <1>1, Invariance, PTL

\* GetTarget and GetTargetsByMeta return only bytes that targets.json of the
\* trusted repository listed for the name, whatever update runs in between.
THEOREM ResultsAuthenticTheorem == Spec => []ResultsAuthentic
<1>1. IInv => ResultsAuthentic
  <2> SUFFICES ASSUME IInv PROVE ResultsAuthentic
    OBVIOUS
  <2>1. ReaderInv
    BY DEF IInv
  <2> QED BY <2>1 DEF ReaderInv, ReaderOK, Past, ResultsAuthentic
<1> QED BY <1>1, Invariance, PTL

\* syncLocalMeta never leaves on disk anything newer than the running
\* process's own metadata, however far it gets.
THEOREM DiskBehindMemoryTheorem == Spec => []DiskBehindMemory
<1>1. IInv => DiskBehindMemory
  BY DEF IInv, StoreInv, DiskBehindMemory
<1> QED BY <1>1, Invariance, PTL

\* updateMetadataAndDownloadTargets writes no target file before syncLocalMeta
\* has written all the metadata.
THEOREM SyncedBeforeDownloadTheorem == Spec => []SyncedBeforeDownload
<1>1. IInv => SyncedBeforeDownload
  BY DEF IInv, HolderInv, HolderOK, UpdatePCs, SyncedBeforeDownload
<1> QED BY <1>1, Invariance, PTL

\* The mirror Initialize writes to remote.json is the one whose root is on
\* disk, for later processes to start from.
THEOREM StoredMirrorServesRootTheorem == Spec => StoredMirrorServesRoot
<1> DEFINE A == remoteJSON' \in Mirrors /\ remoteJSON' # remoteJSON
                  => disk["root"] # None /\ disk["root"].repo = remoteJSON'
<1>1. IInv /\ [Next]_vars => [A]_vars
  <2> SUFFICES ASSUME IInv, [Next]_vars, remoteJSON' \in Mirrors, remoteJSON' # remoteJSON
               PROVE  disk["root"] # None /\ disk["root"].repo = remoteJSON'
    OBVIOUS
  <2> USE DEF world, storage, object, update, threads
  <2>1. PICK t \in Threads : WriteRemote(t)
    <3>1. ~UNCHANGED vars /\ ~Restart /\ \A t \in Threads : ~Enter(t) /\ ~UpdateStep(t)
      BY EnterFacts, UpdateFacts DEF vars, Restart
    <3>2. \A t \in Threads : ~TruncateRemote(t)
      BY DistinctAssumption DEF TruncateRemote
    <3>3. ~\E m \in Mirrors \ Legacy : Publish(m) \/ Expire(m)
      BY DEF Publish, Expire
    <3>4. \A t \in Threads : ~Calls(t)
      BY DEF Calls, NewFromEnv, EnvMirror, Initialize, GetTarget, GetTargetsByMeta
    <3>5. \A t \in Threads : ~LockStep(t) /\ ~ReadStep(t)
      BY DEF LockStep, ReadStep, TargetMeta, TargetUnknown, NextTarget, TryFallbacks,
         Finish, TargetBytes, TargetInvalid, ReadReturns
    <3>6. \A t \in Threads : ~StoreFails(t)
      BY DEF StoreFails
    <3> QED BY <3>1, <3>2, <3>3, <3>4, <3>5, <3>6, NextCases DEF OutsideStep, StoreStep
  <2>2. pc[t] = "storing" /\ remoteJSON' = Mirror(mirror)
    BY <2>1 DEF WriteRemote, StoredMirror
  <2> QED BY <2>2 DEF IInv, RemoteInv
<1> QED BY <1>1, Invariance, PTL DEF Spec, StoredMirrorServesRoot

\* Neither Update nor syncLocalMeta ever replaces trusted metadata by an
\* older version, in memory or on disk.
THEOREM NoRollbackTheorem == Spec => NoRollback
<1> DEFINE MemoryKept == \A k \in Roles :
             once = "built" /\ once' = "built" /\ Verified(mem, k) =>
                Verified(mem', k) /\ mem[k].ver <= mem'[k].ver
           DiskKept == \A k \in Roles :
             disk[k] # None =>
                /\ disk'[k] # None
                /\ disk[k].repo = disk'[k].repo => disk[k].ver <= disk'[k].ver
           A == \A k \in Roles :
                  /\ once = "built" /\ once' = "built" /\ Verified(mem, k) =>
                        Verified(mem', k) /\ mem[k].ver <= mem'[k].ver
                  /\ disk[k] # None =>
                        /\ disk'[k] # None
                        /\ disk[k].repo = disk'[k].repo => disk[k].ver <= disk'[k].ver
<1>1. ASSUME IInv, [Next]_vars PROVE MemoryKept /\ DiskKept
  <2> USE DEF world, storage, object, update, threads
  <2>0. TypeOK /\ LockInv /\ StoreInv /\ HolderInv
    BY <1>1 DEF IInv
  <2>1. \A k \in Roles : /\ mem[k] # None => mem[k].ver \in Nat
                         /\ disk[k] # None => disk[k].ver \in Nat
    BY <2>0, ConstantsAssumption DEF TypeOK, File, Releases
  <2>2. mem' = mem => MemoryKept
    BY <2>1 DEF Verified
  <2>3. disk' = disk => DiskKept
    BY <2>1
  <2>4. CASE UNCHANGED vars
    BY <2>2, <2>3, <2>4 DEF vars
  <2>5. CASE Restart
    BY <2>3, <2>5 DEF Restart
  <2>6. CASE OutsideStep
    BY <1>1, <2>2, <2>3, <2>6, OutsideFacts
  <2>7. ASSUME NEW t \in Threads, Enter(t) PROVE MemoryKept /\ DiskKept
    <3>1. disk' = disk
      BY <1>1, <2>7, EnterFacts
    <3>2. mem' = mem \/ once # "built"
      BY <2>7 DEF Enter, EnterBuild, EnterBuilt, BuildFails, EnterFailed
    <3> QED BY <2>2, <2>3, <3>1, <3>2
  <2>8. ASSUME NEW t \in Threads, UpdateStep(t) PROVE MemoryKept /\ DiskKept
    <3>1. once = "built" /\ Mirror(mirror) \in Mirrors
      BY <1>1, <2>0, <2>8, UpdateFacts, MirrorType
    <3>2. ASSUME NEW j \in Roles \ {"root"}, NEW f \in File, Held(mem, j) <= f.ver,
                 f.repo = mem["root"].repo, mem' = [mem EXCEPT ![j] = f]
          PROVE  MemoryKept
      <4>1. mem'[j] = f /\ \A k \in Roles \ {j} : mem'[k] = mem[k]
        BY <2>0, <3>2 DEF TypeOK
      <4>2. f # None /\ mem'["root"] = mem["root"]
        BY <4>1, DistinctAssumption DEF Roles
      <4>3. Verified(mem, j) => Held(mem, j) = mem[j].ver
        BY DEF Held
      <4> QED BY <2>1, <3>2, <4>1, <4>2, <4>3 DEF Verified
    <3>3. CASE UpdateTimestamp(t)
      <4>1. PICK r \in Releases :
               /\ Fetchable(r)
               /\ mem' = [mem EXCEPT !["timestamp"] = [repo |-> Mirror(mirror), ver |-> r]]
        BY <3>3 DEF UpdateTimestamp
      <4>2. [repo |-> Mirror(mirror), ver |-> r] \in File
        BY <3>1 DEF File
      <4>3. Held(mem, "timestamp") <= r /\ mem["root"].repo = Mirror(mirror)
        BY <4>1 DEF Fetchable
      <4> QED BY <2>3, <3>2, <3>3, <4>1, <4>2, <4>3 DEF UpdateTimestamp, Roles
    <3>4. CASE UpdateSnapshot(t)
      <4> DEFINE v == TargetsVersion[Mirror(mirror)][mem["timestamp"].ver]
      <4>1. mem["root"].repo = Mirror(mirror) /\ mem["timestamp"].ver \in Releases
        BY <2>0, <3>4 DEF UpdateSnapshot, HolderInv, HolderOK, UpdatePCs
      <4>2. v \in Releases
        BY <3>1, <4>1, RepositoryAssumption
      <4>3. [repo |-> Mirror(mirror), ver |-> v] \in File
        BY <3>1, <4>2 DEF File
      <4>4. Held(mem, "snapshot") <= v /\ disk' = disk
            /\ mem' = [mem EXCEPT !["snapshot"] = [repo |-> Mirror(mirror), ver |-> v]]
        BY <3>4 DEF UpdateSnapshot
      <4> QED BY <2>3, <3>2, <4>1, <4>3, <4>4 DEF Roles
    <3>5. CASE UpdateTargets(t)
      <4>1. Verified(mem, "snapshot") /\ Held(mem, "targets") <= mem["snapshot"].ver
        BY <2>0, <3>5 DEF UpdateTargets, HolderInv, HolderOK, UpdatePCs
      <4>2. mem["snapshot"] \in File /\ mem["snapshot"].repo = mem["root"].repo
        BY <2>0, <4>1 DEF Verified, TypeOK, Roles
      <4>3. mem' = [mem EXCEPT !["targets"] = mem["snapshot"]] /\ disk' = disk
        BY <3>5 DEF UpdateTargets, Updated
      <4> QED BY <2>3, <3>2, <4>1, <4>2, <4>3 DEF Roles
    <3>6. ASSUME NEW j \in Roles, SyncMeta(t, j) PROVE MemoryKept /\ DiskKept
      <4>1. mem' = mem /\ mem[j] # None /\ ~NoCache
        BY <2>0, <3>6 DEF SyncMeta, AfterSync, HolderInv, HolderOK, UpdatePCs
      <4>2. \A k \in Roles : disk'[k] = IF k = j THEN mem[k] ELSE disk[k]
        BY <2>0, <3>6 DEF SyncMeta, AfterSync, TypeOK
      <4>3. DiskKept
        BY <2>0, <2>1, <3>1, <4>1, <4>2 DEF StoreInv
      <4> QED BY <2>2, <4>1, <4>3
    <3>7. CASE mem' = mem /\ disk' = disk
      BY <2>2, <2>3, <3>7
    <3>8. CASE \/ Golden(t) \/ NeedUpdate(t) \/ UpdateSameTimestamp(t) \/ UpdateFails(t)
               \/ SyncFails(t) \/ TruncateFile(t) \/ WriteFile(t) \/ SetFails(t)
               \/ UpdateDone(t)
               \/ \E n \in Names : SkipTarget(t, n) \/ FetchTarget(t, n) \/ DownloadFails(t, n)
      BY <3>7, <3>8 DEF Golden, NeedUpdate, UpdateSameTimestamp, Updated, UpdateFails,
         SyncFails, TruncateFile, WriteFile, SetFails, UpdateDone, SkipTarget, FetchTarget,
         DownloadFails
    <3> QED BY <2>8, <3>3, <3>4, <3>5, <3>6, <3>8 DEF UpdateStep
  <2> QED BY <1>1, <2>4, <2>5, <2>6, <2>7, <2>8, NextCases
<1>2. IInv /\ [Next]_vars => [A]_vars
  BY <1>1
<1> QED BY <1>2, Invariance, PTL DEF Spec, NoRollback
-----------------------------------------------------------------------------
(* Without faults                                                          *)

\* Where initializeTUF is: the program point of the holder of initMu.
Phase == IF initMu = None THEN "none" ELSE pc[initMu]

\* From syncLocalMeta to the end of the download loop.
Downloading == {"sync", "download", "write", "writing"}

\* A store holds no metadata but a root, or all of one repository.
Whole(store) ==
    LET held == Roles \ {"root"} IN
    \/ \A k \in held : store[k] = None
    \/ \A j, k \in held : store[k] # None /\ store[j] # None /\ store[k].repo = store[j].repo

\* The files of the cache directory are what a targets.json lists.
Served(f) == \A n \in Names : Lookup(f, n) # None => files[n] = Lookup(f, n).content

\* Without faults every update that starts to copy its metadata to disk also
\* downloads what it found updated, and what it did not find updated was there
\* before: in memory, or in a file that an earlier process wrote in full.
ServedInv ==
    /\ once # "built" => \A n \in Names : cache[n] = None
    /\ Phase \notin {"write", "writing"} => writing = None
    /\ ~NoCache => \A n \in Names \ {writing} : cache[n] # None => files[n] = cache[n]
    /\ Phase \notin {"snapshot", "targets"} => Whole(mem)
    /\ Phase # "sync" => Whole(disk)
    /\ Phase \notin Downloading => Complete /\ (~NoCache => Served(disk["targets"]))
    /\ Phase \in Downloading =>
          Verified(mem, "targets") /\ \A n \in Listed(mem) \ todo : Valid(n)
    /\ Phase \in {"write", "writing"} =>
          ~NoCache /\ cache[writing] = Lookup(Targets(mem), writing).content

\* A step outside initMu writes no target file.
LEMMA OutsideFiles ==
  ASSUME IInv, OutsideStep
  PROVE  files' = files
<1> USE DEF storage
<1>1. \A t \in Threads : Calls(t) => files' = files
  BY DEF Calls, NewFromEnv, EnvMirror, Initialize, GetTarget, GetTargetsByMeta
<1>2. \A t \in Threads : StoreStep(t) => files' = files
  BY DEF StoreStep, TruncateRemote, WriteRemote, StoredMirror, StoreFails
<1>3. \A t \in Threads : LockStep(t) \/ ReadStep(t) => files' = files
  BY DEF LockStep, ReadStep, TargetMeta, TargetUnknown, NextTarget, TryFallbacks, Finish,
     TargetBytes, TargetInvalid, ReadReturns
<1> QED BY <1>1, <1>2, <1>3 DEF OutsideStep, Publish, Expire

\* The invariant is about the stores and about where initializeTUF is; up to the
\* update it makes no difference where.
LEMMA ServedStays ==
  ASSUME ServedInv, Phase' = Phase \/ {Phase, Phase'} \subseteq {"none", "check", "timestamp"},
         UNCHANGED <<once, cache, writing, files, mem, disk, todo>>
  PROVE  ServedInv'
<1>1. Complete' <=> Complete
  BY DEF Complete, Get, Lookup, Targets, Verified, isValidTarget
<1>2. /\ Whole(mem)' <=> Whole(mem)
      /\ Whole(disk)' <=> Whole(disk)
      /\ Served(disk["targets"])' <=> Served(disk["targets"])
  BY DEF Whole, Served, Lookup
<1>3. /\ Verified(mem, "targets")' <=> Verified(mem, "targets")
      /\ Listed(mem)' = Listed(mem) /\ Targets(mem)' = Targets(mem)
      /\ \A n \in Names : Valid(n)' <=> Valid(n)
      /\ Lookup(Targets(mem), writing)' = Lookup(Targets(mem), writing)
  BY DEF Verified, Listed, Targets, Lookup, Valid, Get, isValidTarget
<1>4. Listed(mem) \subseteq Names
  BY DEF Listed
<1>5. /\ once # "built" => \A n \in Names : cache[n] = None
      /\ Phase \notin {"write", "writing"} => writing = None
      /\ ~NoCache => \A n \in Names \ {writing} : cache[n] # None => files[n] = cache[n]
      /\ Phase \in {"write", "writing"} =>
            ~NoCache /\ cache[writing] = Lookup(Targets(mem), writing).content
  BY DEF ServedInv
<1>6. /\ Phase \notin {"snapshot", "targets"} => Whole(mem)
      /\ Phase # "sync" => Whole(disk)
      /\ Phase \notin Downloading => Complete /\ (~NoCache => Served(disk["targets"]))
      /\ Phase \in Downloading =>
            Verified(mem, "targets") /\ \A n \in Listed(mem) \ todo : Valid(n)
  BY DEF ServedInv
<1>7. (Phase \in Downloading =>
            Verified(mem, "targets") /\ \A n \in Listed(mem) \ todo : Valid(n))'
  BY <1>3, <1>4, <1>6 DEF Downloading
<1>8. (/\ Phase \notin {"snapshot", "targets"} => Whole(mem)
       /\ Phase # "sync" => Whole(disk)
       /\ Phase \notin Downloading => Complete /\ (~NoCache => Served(disk["targets"])))'
  BY <1>1, <1>2, <1>6 DEF Downloading
<1>9. (/\ once # "built" => \A n \in Names : cache[n] = None
       /\ Phase \notin {"write", "writing"} => writing = None
       /\ ~NoCache => \A n \in Names \ {writing} : cache[n] # None => files[n] = cache[n]
       /\ Phase \in {"write", "writing"} =>
            ~NoCache /\ cache[writing] = Lookup(Targets(mem), writing).content)'
  BY <1>3, <1>5
<1> QED BY <1>7, <1>8, <1>9 DEF ServedInv
\* The holder of initMu moves the phase with its own program counter.
LEMMA PhaseMoves ==
  ASSUME IInv, NEW t \in Threads, UpdateStep(t)
  PROVE  /\ Phase = pc[t]
         /\ pc'[t] \in UpdatePCs => Phase' = pc'[t]
         /\ initMu' = None => Phase' = "none"
<1>1. initMu = t /\ t # None
  BY UpdateFacts, DistinctAssumption DEF IInv, LockInv
<1> QED BY <1>1, UpdateFacts DEF Phase, UpdatePCs

\* initializeTUF may return wherever nothing is half done.
LEMMA ServedReturn ==
  ASSUME ServedInv, Phase' = "none", writing = None, Whole(mem), Whole(disk), Complete,
         ~NoCache => Served(disk["targets"]),
         UNCHANGED <<once, cache, writing, files, mem, disk>>
  PROVE  ServedInv'
<1>1. Complete' <=> Complete
  BY DEF Complete, Get, Lookup, Targets, Verified, isValidTarget
<1>2. /\ Whole(mem)' <=> Whole(mem)
      /\ Whole(disk)' <=> Whole(disk)
      /\ Served(disk["targets"])' <=> Served(disk["targets"])
  BY DEF Whole, Served, Lookup
<1>3. /\ once # "built" => \A n \in Names : cache[n] = None
      /\ ~NoCache => \A n \in Names \ {writing} : cache[n] # None => files[n] = cache[n]
  BY DEF ServedInv
<1> QED BY <1>1, <1>2, <1>3 DEF ServedInv, Downloading

\* Before it copies to disk, an update has changed nothing but metadata in memory:
\* the targets listed, of which no entry is dropped, can still be served.
LEMMA ServedMetadata ==
  ASSUME ServedInv, Phase \in {"timestamp", "snapshot"}, Phase' \in {"snapshot", "targets"},
         Targets(mem)' = Targets(mem),
         UNCHANGED <<once, cache, writing, files, disk>>
  PROVE  ServedInv'
<1>1. Phase \notin Downloading /\ Phase # "sync" /\ Phase \notin {"write", "writing"}
  BY DEF Downloading
<1>2. /\ Complete /\ (~NoCache => Served(disk["targets"])) /\ Whole(disk) /\ writing = None
      /\ once # "built" => \A n \in Names : cache[n] = None
      /\ ~NoCache => \A n \in Names \ {writing} : cache[n] # None => files[n] = cache[n]
  BY <1>1 DEF ServedInv
<1>3. Complete' <=> Complete
  BY DEF Complete, Get, Lookup, isValidTarget
<1>4. /\ Whole(disk)' <=> Whole(disk)
      /\ Served(disk["targets"])' <=> Served(disk["targets"])
  BY DEF Whole, Served, Lookup
<1>5. Phase' \notin Downloading /\ Phase' # "sync" /\ Phase' \notin {"write", "writing"}
  BY DEF Downloading
<1> QED BY <1>2, <1>3, <1>4, <1>5 DEF ServedInv

\* The update starts to copy and to download, with all it does not visit valid.
LEMMA ServedUpdated ==
  ASSUME ServedInv, Phase \in {"timestamp", "targets"},
         Phase' = IF NoCache THEN "download" ELSE "sync",
         Whole(mem)', Verified(mem, "targets")', (\A n \in Listed(mem) \ todo : Valid(n))',
         UNCHANGED <<once, cache, writing, files, disk>>
  PROVE  ServedInv'
<1>1. Phase # "sync" /\ Phase \notin {"write", "writing"}
  OBVIOUS
<1>2. /\ Whole(disk) /\ writing = None
      /\ once # "built" => \A n \in Names : cache[n] = None
      /\ ~NoCache => \A n \in Names \ {writing} : cache[n] # None => files[n] = cache[n]
  BY <1>1 DEF ServedInv
<1>3. Whole(disk)' <=> Whole(disk)
  BY DEF Whole
<1>4. Phase' \in Downloading /\ Phase' \notin {"write", "writing"}
  BY DEF Downloading
<1> QED BY <1>2, <1>3, <1>4 DEF ServedInv
\* syncLocalMeta: once the last role is copied the disk holds what memory holds.
LEMMA ServedSync ==
  ASSUME IInv, HolderInv', ServedInv, NEW t \in Threads, NEW k \in Roles, SyncMeta(t, k)
  PROVE  ServedInv'
<1> USE DEF world, storage, object, update, threads
<1>0. TypeOK /\ LockInv /\ HolderInv
  BY DEF IInv
<1>1. Phase = "sync" /\ Phase' \in {"sync", "download"} /\ pc'[t] = Phase'
  <2>1. initMu = t /\ pc[t] = "sync" /\ t # None
    BY <1>0, DistinctAssumption DEF SyncMeta, LockInv, InitPCs, UpdatePCs
  <2>2. pc'[t] \in {"sync", "download"} /\ initMu' = initMu
    BY <1>0 DEF SyncMeta, AfterSync, TypeOK
  <2> QED BY <2>1, <2>2 DEF Phase
<1>2. UNCHANGED <<once, cache, writing, files, mem, todo>>
  BY DEF SyncMeta
<1>3. ~NoCache
  BY <1>0, <1>1 DEF SyncMeta, HolderInv, HolderOK, UpdatePCs
<1>4. Phase' = "download" => disk' = mem
  BY <1>1, <1>2, <1>3 DEF HolderInv, HolderOK, UpdatePCs
<1>5. /\ writing = None /\ Whole(mem) /\ Verified(mem, "targets")
      /\ \A n \in Listed(mem) \ todo : Valid(n)
      /\ once # "built" => \A n \in Names : cache[n] = None
      /\ ~NoCache => \A n \in Names \ {writing} : cache[n] # None => files[n] = cache[n]
  BY <1>1 DEF ServedInv, Downloading
<1>6. /\ Verified(mem, "targets")' <=> Verified(mem, "targets")
      /\ Listed(mem)' = Listed(mem) /\ \A n \in Names : Valid(n)' <=> Valid(n)
      /\ Whole(mem)' <=> Whole(mem)
      /\ Phase' = "download" => (Whole(disk)' <=> Whole(mem))
  BY <1>2, <1>4 DEF Verified, Listed, Targets, Lookup, Valid, Get, isValidTarget, Whole
<1>7. Listed(mem) \subseteq Names
  BY DEF Listed
<1>8. (\A n \in Listed(mem) \ todo : Valid(n))'
  BY <1>2, <1>5, <1>6, <1>7
<1>9. (Phase \in Downloading)' /\ (Phase \notin {"write", "writing"} /\ Phase \notin {"snapshot", "targets"})'
  BY <1>1 DEF Downloading
<1> QED BY <1>1, <1>2, <1>5, <1>6, <1>8, <1>9 DEF ServedInv

\* What the loop does to a target and its file, and that it does it to one only.
LEMMA ServedLoop ==
  ASSUME IInv, ServedInv, NEW t \in Threads,
         \/ \E n \in Names : SkipTarget(t, n) \/ FetchTarget(t, n)
         \/ TruncateFile(t) \/ WriteFile(t)
  PROVE  ServedInv'
<1> USE DEF world, storage, object, update, threads
<1>0. TypeOK /\ LockInv /\ HolderInv
  BY DEF IInv
<1>1. UpdateStep(t)
  BY DEF UpdateStep
<1>2. Phase = pc[t] /\ (pc'[t] \in UpdatePCs => Phase' = pc'[t])
  BY <1>1, PhaseMoves
<1>3. pc[t] \in {"download", "write", "writing"}
  BY DEF SkipTarget, FetchTarget, TruncateFile, WriteFile
<1>4. HolderOK(pc[t])
  BY <1>0, <1>3 DEF HolderInv, UpdatePCs
<1>5. /\ Whole(mem) /\ Whole(disk) /\ Verified(mem, "targets")
      /\ \A n \in Listed(mem) \ todo : Valid(n)
      /\ once # "built" => \A n \in Names : cache[n] = None
      /\ ~NoCache => \A n \in Names \ {writing} : cache[n] # None => files[n] = cache[n]
      /\ pc[t] = "download" => writing = None
      /\ pc[t] \in {"write", "writing"} =>
            ~NoCache /\ cache[writing] = Lookup(Targets(mem), writing).content
  BY <1>2, <1>3 DEF ServedInv, Downloading
<1>6. once = "built" /\ once' = once /\ UNCHANGED <<mem, disk>>
  <2>1. once = "built"
    BY <1>0, <1>3 DEF LockInv, InitPCs, UpdatePCs
  <2> QED BY <2>1 DEF SkipTarget, FetchTarget, TruncateFile, WriteFile
<1>7. /\ Whole(mem)' /\ Whole(disk)' /\ Verified(mem, "targets")'
      /\ Listed(mem)' = Listed(mem) /\ Targets(mem)' = Targets(mem)
      /\ \A n \in Names : Lookup(Targets(mem), n)' = Lookup(Targets(mem), n)
  BY <1>5, <1>6 DEF Whole, Verified, Listed, Targets, Lookup
<1>8. Listed(mem) \subseteq Names /\ todo \subseteq Listed(mem)
  BY <1>3, <1>4 DEF HolderOK, Listed
<1>9. \A n \in todo : Lookup(Targets(mem), n).content \in Contents
  <2> TAKE n \in todo
  <2>1. n \in Names /\ Lookup(Targets(mem), n) # None
    BY <1>8 DEF Listed
  <2>2. Targets(mem) \in File \cup {None}
    BY <1>0 DEF Targets, TypeOK, Roles
  <2> QED BY <2>1, <2>2, LookupType, EntryType
<1>10. ASSUME NEW p \in {"download", "write", "writing"}, pc'[t] = p,
              p = "download" => writing' = None,
              ~NoCache => \A n \in Names \ {writing'} : cache'[n] # None => files'[n] = cache'[n],
              \A n \in Listed(mem) \ todo' : Valid(n)',
              p \in {"write", "writing"} =>
                 ~NoCache /\ cache'[writing'] = Lookup(Targets(mem), writing').content
       PROVE  ServedInv'
  <2>1. Phase' = p
    BY <1>2, <1>10 DEF UpdatePCs
  <2>2. /\ Phase' \in Downloading /\ Phase' # "sync" /\ Phase' \notin {"snapshot", "targets"}
    BY <1>10, <2>1 DEF Downloading
  <2>3. (\A n \in Listed(mem) \ todo : Valid(n))'
    BY <1>7, <1>10
  <2>4. Lookup(Targets(mem), writing)' = Lookup(Targets(mem), writing')
    BY <1>7 DEF Lookup
  <2> QED BY <1>6, <1>7, <1>10, <2>1, <2>2, <2>3, <2>4 DEF ServedInv
<1>11. ASSUME NEW n \in Names, cache'[n] = cache[n], files'[n] = files[n] \/ cache[n] # None,
              Valid(n)
       PROVE  Valid(n)'
  BY <1>7, <1>11 DEF Valid, Get, isValidTarget
<1>12. ASSUME NEW n \in Names, SkipTarget(t, n) PROVE ServedInv'
  <2>1. /\ pc'[t] = "download" /\ pc[t] = "download" /\ todo' = todo \ {n} /\ Valid(n)
        /\ UNCHANGED <<cache, files, writing>>
    BY <1>12 DEF SkipTarget
  <2>2. \A m \in Listed(mem) \ todo' : Valid(m)'
    BY <1>5, <1>8, <1>11, <2>1
  <2> QED BY <1>5, <1>10, <2>1, <2>2
<1>13. ASSUME NEW n \in Names, FetchTarget(t, n) PROVE ServedInv'
  <2> DEFINE c == Lookup(Targets(mem), n).content
  <2>1. /\ pc[t] = "download" /\ n \in todo /\ cache' = [cache EXCEPT ![n] = c] /\ files' = files
        /\ writing = None
    BY <1>5, <1>13 DEF FetchTarget
  <2>2. cache'[n] = c /\ c # None /\ \A m \in Names \ {n} : cache'[m] = cache[m]
    BY <1>0, <1>9, <2>1, DistinctAssumption DEF TypeOK
  <2>3. Valid(n)'
    BY <1>7, <2>2 DEF Valid, Get, isValidTarget
  <2>4. \A m \in Listed(mem) \ todo : Valid(m)'
    BY <1>5, <1>8, <1>11, <2>1, <2>2
  <2>5. CASE NoCache
    <3>1. todo' = todo \ {n} /\ pc' = pc /\ writing' = writing
      BY <1>13, <2>5 DEF FetchTarget
    <3> QED BY <1>10, <2>1, <2>3, <2>4, <2>5, <3>1
  <2>6. CASE ~NoCache
    <3>1. todo' = todo /\ pc'[t] = "write" /\ writing' = n
      BY <1>0, <1>13, <2>6 DEF FetchTarget, TypeOK
    <3>2. \A m \in Names \ {n} : cache'[m] # None => files'[m] = cache'[m]
      BY <1>5, <2>1, <2>2, <2>6, DistinctAssumption
    <3>3. cache'[writing'] = Lookup(Targets(mem), writing').content
      BY <1>7, <2>2, <3>1
    <3> QED BY <1>10, <2>4, <2>6, <3>1, <3>2, <3>3
  <2> QED BY <2>5, <2>6
<1>14. ASSUME TruncateFile(t) PROVE ServedInv'
  <2>1. /\ pc[t] = "write" /\ pc'[t] = "writing" /\ UNCHANGED <<cache, writing, todo>>
        /\ \A n \in Names \ {writing} : files'[n] = files[n]
        /\ writing \in Names /\ cache[writing] # None
    BY <1>0, <1>4, <1>14 DEF TruncateFile, TypeOK, HolderOK
  <2>2. \A n \in Listed(mem) \ todo' : Valid(n)'
    BY <1>5, <1>8, <1>11, <2>1
  <2>3. cache'[writing'] = Lookup(Targets(mem), writing').content
    BY <1>5, <1>7, <2>1
  <2> QED BY <1>5, <1>10, <2>1, <2>2, <2>3
<1>15. ASSUME WriteFile(t) PROVE ServedInv'
  <2>1. /\ pc[t] = "writing" /\ pc'[t] = "download" /\ cache' = cache /\ writing' = None
        /\ todo' = todo \ {writing}
        /\ files'[writing] = cache[writing] /\ \A n \in Names \ {writing} : files'[n] = files[n]
        /\ writing \in Names /\ cache[writing] # None
    BY <1>0, <1>4, <1>15 DEF WriteFile, TypeOK, HolderOK
  <2>2. Valid(writing)
    BY <1>5, <2>1 DEF Valid, Get, isValidTarget
  <2>3. \A n \in Listed(mem) \ todo' : Valid(n)'
    BY <1>5, <1>8, <1>11, <2>1, <2>2
  <2>4. \A n \in Names : cache'[n] # None => files'[n] = cache'[n]
    BY <1>5, <2>1
  <2> QED BY <1>10, <2>1, <2>3, <2>4
<1> QED BY <1>12, <1>13, <1>14, <1>15
\* The update itself, up to the point where it starts to copy.
LEMMA ServedUpdate ==
  ASSUME IInv, ServedInv, NEW t \in Threads,
         \/ UpdateSameTimestamp(t) \/ UpdateTimestamp(t)
         \/ UpdateSnapshot(t) \/ UpdateTargets(t)
  PROVE  ServedInv'
<1> USE DEF world, storage, object, update, threads
<1>0. TypeOK /\ HolderInv
  BY DEF IInv
<1>1. UpdateStep(t)
  BY DEF UpdateStep
<1>2. Phase = pc[t] /\ (pc'[t] \in UpdatePCs => Phase' = pc'[t])
  BY <1>1, PhaseMoves
<1>3. CASE UpdateTimestamp(t)
  <2>1. PICK r : mem' = [mem EXCEPT !["timestamp"] = [repo |-> Mirror(mirror), ver |-> r]]
    BY <1>3 DEF UpdateTimestamp
  <2>2. Targets(mem)' = Targets(mem)
    BY <1>0, <2>1 DEF TypeOK, Roles, Targets, Verified
  <2>3. Phase = "timestamp" /\ Phase' = "snapshot" /\ UNCHANGED <<once, cache, writing, files, disk>>
    BY <1>0, <1>2, <1>3 DEF UpdateTimestamp, UpdatePCs, TypeOK
  <2> QED BY <2>2, <2>3, ServedMetadata
<1>4. CASE UpdateSnapshot(t)
  <2>1. PICK f : mem' = [mem EXCEPT !["snapshot"] = f]
    BY <1>4 DEF UpdateSnapshot
  <2>2. Targets(mem)' = Targets(mem)
    BY <1>0, <2>1 DEF TypeOK, Roles, Targets, Verified
  <2>3. Phase = "snapshot" /\ Phase' = "targets" /\ UNCHANGED <<once, cache, writing, files, disk>>
    BY <1>0, <1>2, <1>4 DEF UpdateSnapshot, UpdatePCs, TypeOK
  <2> QED BY <2>2, <2>3, ServedMetadata
<1>5. CASE UpdateSameTimestamp(t)
  <2>1. /\ Phase = "timestamp" /\ mem' = mem /\ todo' = Listed(mem)
        /\ UNCHANGED <<once, cache, writing, files, disk>>
        /\ pc'[t] = IF NoCache THEN "download" ELSE "sync"
    BY <1>0, <1>2, <1>5 DEF UpdateSameTimestamp, Updated, TypeOK
  <2>2. Phase' = IF NoCache THEN "download" ELSE "sync"
    BY <1>2, <2>1 DEF UpdatePCs
  <2>3. PICK r \in Releases : r = Held(mem, "timestamp")
    BY <1>5 DEF UpdateSameTimestamp
  <2>4. Verified(mem, "timestamp") /\ Whole(mem)
    BY <2>1, <2>3 DEF Held, Releases, ServedInv
  <2>5. Verified(mem, "targets")
    BY <2>4 DEF Verified, Whole, Roles
  <2>6. Whole(mem)' /\ Verified(mem, "targets")' /\ Listed(mem)' = todo'
    BY <2>1, <2>4, <2>5 DEF Whole, Verified, Listed, Targets, Lookup
  <2> QED BY <2>1, <2>2, <2>6, ServedUpdated
<1>6. CASE UpdateTargets(t)
  <2>1. /\ Phase = "targets" /\ mem' = [mem EXCEPT !["targets"] = mem["snapshot"]]
        /\ todo' = NewlyUpdated(Targets(mem), mem["snapshot"])
        /\ UNCHANGED <<once, cache, writing, files, disk>>
        /\ pc'[t] = IF NoCache THEN "download" ELSE "sync"
    BY <1>0, <1>2, <1>6 DEF UpdateTargets, Updated, TypeOK
  <2>2. Phase' = IF NoCache THEN "download" ELSE "sync"
    BY <1>2, <2>1 DEF UpdatePCs
  <2>3. /\ Verified(mem, "timestamp") /\ Verified(mem, "snapshot")
    BY <1>0, <1>2, <2>1 DEF HolderInv, HolderOK, UpdatePCs
  <2>4. /\ mem'["root"] = mem["root"] /\ mem'["timestamp"] = mem["timestamp"]
        /\ mem'["snapshot"] = mem["snapshot"] /\ mem'["targets"] = mem["snapshot"]
    BY <1>0, <2>1 DEF TypeOK, Roles
  <2>5. Whole(mem)' /\ Verified(mem, "targets")'
    BY <2>3, <2>4 DEF Whole, Verified, Roles
  <2>6. Targets(mem)' = mem["snapshot"]
    BY <2>4, <2>5 DEF Targets
  <2>7. Complete
    BY <2>1 DEF ServedInv, Downloading
  <2>8. (\A n \in Listed(mem) \ todo : Valid(n))'
    <3> SUFFICES ASSUME NEW n \in Names, Lookup(mem["snapshot"], n) # None,
                        n \notin NewlyUpdated(Targets(mem), mem["snapshot"])
                 PROVE  Get(n) = Lookup(mem["snapshot"], n).content
      BY <2>1, <2>6 DEF Listed, Valid, isValidTarget, Get
    <3>1. /\ Lookup(Targets(mem), n) # None
          /\ Lookup(Targets(mem), n).content = Lookup(mem["snapshot"], n).content
      BY DEF NewlyUpdated
    <3> QED BY <2>7, <3>1 DEF Complete, isValidTarget
  <2> QED BY <2>1, <2>2, <2>5, <2>8, ServedUpdated
<1> QED BY <1>3, <1>4, <1>5, <1>6

\* The build of the singleton: what the disk holds can be served from its files.
LEMMA ServedEnter ==
  ASSUME ~Faults, IInv, ServedInv, NEW t \in Threads, Enter(t)
  PROVE  ServedInv'
<1> USE DEF world, storage, object, update, threads
<1>0. TypeOK
  BY DEF IInv
<1>1. Phase = "none" /\ initMu = None
  BY EnterFacts DEF Phase
<1>2. /\ writing = None /\ Whole(mem) /\ Whole(disk) /\ Complete
      /\ ~NoCache => Served(disk["targets"])
  BY <1>1 DEF ServedInv, Downloading
<1>3. CASE EnterBuilt(t)
  <2>1. Phase' = "check"
    BY <1>0, <1>3, DistinctAssumption DEF EnterBuilt, Phase, TypeOK
  <2> QED BY <1>1, <1>3, <2>1, ServedStays DEF EnterBuilt
<1>4. CASE EnterFailed(t)
  <2>1. Phase' = "none" /\ writing' = None
    BY <1>4 DEF EnterFailed, Return, Phase
  <2> QED BY <1>2, <1>4, <2>1, ServedReturn DEF EnterFailed
<1>5. CASE EnterBuild(t)
  <2>1. Phase' = "check"
    BY <1>0, <1>5, DistinctAssumption DEF EnterBuild, Phase, TypeOK
  <2>2. /\ once = "unset" /\ once' = "built"
        /\ UNCHANGED <<cache, writing, files, disk>>
        /\ mem' = [newLocalStore EXCEPT !["root"] = [repo |-> getRoot(t), ver |-> 0]]
    BY <1>5 DEF EnterBuild
  <2>3. newLocalStore \in [Roles -> File \cup {None}]
    BY <1>0, LocalStoreType
  <2>4. \A k \in Roles \ {"root"} : mem'[k] = newLocalStore[k]
    BY <2>2, <2>3
  <2>5. \A n \in Names : cache'[n] = None
    BY <2>2 DEF ServedInv
  <2>6. Whole(mem)'
    <3>1. CASE NoCache
      BY <2>4, <3>1 DEF Whole, newLocalStore, NoStore
    <3>2. CASE ~NoCache
      <4>1. \A k \in Roles \ {"root"} : mem'[k] = disk[k]
        BY <2>4, <3>2 DEF newLocalStore
      <4> QED BY <1>2, <4>1 DEF Whole
    <3> QED BY <3>1, <3>2
  <2>7. Complete'
    <3> SUFFICES ASSUME NEW n \in Names, Lookup(Targets(mem'), n) # None
                 PROVE  Get(n)' = Lookup(Targets(mem'), n).content
      BY DEF Complete, isValidTarget
    <3>1. Targets(mem') = newLocalStore["targets"] /\ newLocalStore["targets"] # None
      BY <2>4 DEF Targets, Verified, Lookup, Roles
    <3>2. ~NoCache /\ newLocalStore = disk
      BY <3>1 DEF newLocalStore, NoStore, Roles
    <3>3. files[n] = Lookup(disk["targets"], n).content
      BY <1>2, <3>1, <3>2 DEF Served
    <3> QED BY <2>2, <2>5, <3>1, <3>2, <3>3 DEF Get
  <2>8. Whole(disk)' /\ (~NoCache => Served(disk["targets"]))'
    BY <1>2, <2>2 DEF Whole, Served, Lookup
  <2> QED BY <1>2, <2>1, <2>2, <2>5, <2>6, <2>7, <2>8 DEF ServedInv, Downloading
<1>6. ~BuildFails(t)
  BY DEF BuildFails
<1> QED BY <1>3, <1>4, <1>5, <1>6 DEF Enter

\* The loop has visited every target: all that memory and disk list is there.
LEMMA ServedDone ==
  ASSUME IInv, ServedInv, NEW t \in Threads, UpdateDone(t)
  PROVE  ServedInv'
<1> USE DEF world, storage, object, update, threads
<1>0. TypeOK /\ HolderInv
  BY DEF IInv
<1>1. UpdateStep(t) /\ pc[t] = "download" /\ todo = {}
  BY DEF UpdateStep, UpdateDone
<1>2. Phase = "download"
  BY <1>1, PhaseMoves
<1>3. /\ writing' = None /\ initMu' = None /\ Phase' = "none"
      /\ UNCHANGED <<once, cache, files, mem, disk>>
  BY DEF UpdateDone, Return, Phase
<1>4. /\ writing = None /\ Whole(mem) /\ Whole(disk) /\ Verified(mem, "targets")
      /\ \A n \in Listed(mem) : Valid(n)
      /\ ~NoCache => \A n \in Names : cache[n] # None => files[n] = cache[n]
  <2>1. /\ writing = None /\ Whole(mem) /\ Whole(disk) /\ Verified(mem, "targets")
        /\ \A n \in Listed(mem) \ todo : Valid(n)
        /\ ~NoCache => \A n \in Names \ {writing} : cache[n] # None => files[n] = cache[n]
    BY <1>2 DEF ServedInv, Downloading
  <2> QED BY <1>1, <2>1, DistinctAssumption
<1>5. Complete
  BY <1>4 DEF Complete, Listed, Valid
<1>6. ASSUME ~NoCache PROVE Served(disk["targets"])
  <2>1. disk = mem
    BY <1>0, <1>1, <1>6 DEF HolderInv, HolderOK, UpdatePCs
  <2>2. Targets(mem) = disk["targets"]
    BY <1>4, <2>1 DEF Targets
  <2>3. \A n \in Names : Lookup(disk["targets"], n) # None => Get(n) = Lookup(disk["targets"], n).content
    BY <1>5, <2>2 DEF Complete, isValidTarget
  <2> QED BY <1>4, <1>6, <2>3 DEF Served, Get
<1> QED BY <1>3, <1>4, <1>5, <1>6, ServedReturn

\* Every step keeps the targets served, when nothing fails.
LEMMA ServedStep ==
  ASSUME ~Faults, IInv, IInv', ServedInv, [Next]_vars
  PROVE  ServedInv'
<1> USE DEF world, storage, object, update, threads
<1>0. TypeOK /\ LockInv
  BY DEF IInv
<1>1. CASE UNCHANGED vars
  <2>1. Phase' = Phase
    BY <1>1 DEF Phase, vars
  <2> QED BY <1>1, <2>1, ServedStays DEF vars
<1>2. CASE Restart
  <2>1. \A t \in Threads : pc[t] = "idle"
    BY <1>2 DEF Restart
  <2>2. initMu = None
    BY <1>0, <2>1 DEF TypeOK, LockInv, InitPCs, UpdatePCs
  <2>3. Whole(disk) /\ (~NoCache => Served(disk["targets"]))
    BY <2>2 DEF ServedInv, Phase, Downloading
  <2>4. /\ Phase' = "none" /\ mem' = NoStore /\ writing' = None /\ once' = "unset"
        /\ UNCHANGED <<disk, files>> /\ \A n \in Names : cache'[n] = None
    BY <1>2 DEF Restart, Phase
  <2>5. Whole(mem)' /\ Whole(disk)' /\ (~NoCache => Served(disk["targets"]))'
    BY <2>3, <2>4 DEF Whole, NoStore, Served, Lookup
  <2>6. Complete'
    BY <2>4 DEF Complete, Targets, Verified, NoStore, Lookup, Roles
  <2> QED BY <2>4, <2>5, <2>6 DEF ServedInv, Downloading
<1>3. CASE OutsideStep
  <2>1. UNCHANGED <<once, cache, writing, files, mem, disk, todo, initMu>>
    BY <1>3, OutsideFacts, OutsideFiles
  <2>2. Phase' = Phase
    BY <1>0, <1>3, <2>1, OutsideFacts DEF Phase, TypeOK, LockInv
  <2> QED BY <2>1, <2>2, ServedStays
<1>4. ASSUME NEW t \in Threads, Enter(t) PROVE ServedInv'
  BY <1>4, ServedEnter
<1>5. ASSUME NEW t \in Threads, UpdateStep(t) PROVE ServedInv'
  <2>1. /\ Phase = pc[t]
        /\ pc'[t] \in UpdatePCs => Phase' = pc'[t]
        /\ initMu' = None => Phase' = "none"
    BY <1>5, PhaseMoves
  <2>2. CASE Golden(t) \/ UpdateFails(t)
    <3>1. Phase \in {"check", "timestamp"}
      BY <2>1, <2>2 DEF Golden, UpdateFails
    <3>2. /\ writing = None /\ Whole(mem) /\ Whole(disk) /\ Complete
          /\ ~NoCache => Served(disk["targets"])
      BY <3>1 DEF ServedInv, Downloading
    <3>3. /\ writing' = None /\ initMu' = None
          /\ UNCHANGED <<once, cache, files, mem, disk>>
      BY <2>2 DEF Golden, UpdateFails, Return
    <3> QED BY <2>1, <3>2, <3>3, ServedReturn
  <2>3. CASE NeedUpdate(t)
    <3>1. Phase = "check" /\ Phase' = "timestamp"
      BY <1>0, <2>1, <2>3 DEF NeedUpdate, TypeOK, UpdatePCs
    <3> QED BY <2>3, <3>1, ServedStays DEF NeedUpdate
  <2>4. CASE \/ UpdateSameTimestamp(t) \/ UpdateTimestamp(t)
             \/ UpdateSnapshot(t) \/ UpdateTargets(t)
    BY <2>4, ServedUpdate
  <2>5. ASSUME NEW k \in Roles, SyncMeta(t, k) PROVE ServedInv'
    BY <2>5, ServedSync DEF IInv
  <2>6. CASE \/ \E n \in Names : SkipTarget(t, n) \/ FetchTarget(t, n)
             \/ TruncateFile(t) \/ WriteFile(t)
    BY <2>6, ServedLoop
  <2>7. CASE UpdateDone(t)
    BY <2>7, ServedDone
  <2>8. /\ ~SyncFails(t) /\ ~SetFails(t) /\ \A n \in Names : ~DownloadFails(t, n)
    BY DEF SyncFails, SetFails, DownloadFails
  <2> QED BY <1>5, <2>2, <2>3, <2>4, <2>5, <2>6, <2>7, <2>8 DEF UpdateStep
<1> QED BY <1>1, <1>2, <1>3, <1>4, <1>5, NextCases

\* Initially there is nothing to serve.
LEMMA ServedInit == Init => ServedInv
<1> SUFFICES ASSUME Init PROVE ServedInv
  OBVIOUS
<1>1. Phase = "none" /\ mem = NoStore /\ disk = NoStore /\ writing = None
      /\ \A n \in Names : cache[n] = None
  BY DEF Init, Phase
<1>2. Whole(mem) /\ Whole(disk) /\ Served(disk["targets"]) /\ Complete
  BY <1>1 DEF Whole, NoStore, Served, Complete, Targets, Verified, Lookup, Roles
<1> QED BY <1>1, <1>2 DEF ServedInv, Downloading

\* Without I/O errors and crashes every target that the trusted metadata lists
\* can be served, although an update downloads only what it found updated.
THEOREM HandedCompleteTheorem ==
  ASSUME ~Faults
  PROVE  Spec => []HandedComplete
<1>1. Init => ServedInv
  BY ServedInit
<1>2. IInv /\ IInv' /\ ServedInv /\ [Next]_vars => ServedInv'
  BY ServedStep
<1>3. ServedInv => HandedComplete
  BY DEF ServedInv, HandedComplete, Phase, Downloading
<1> QED BY <1>1, <1>2, <1>3, Invariance, PTL DEF Spec
=============================================================================
