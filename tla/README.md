# A TLA+ model of sigstore's client library

This directory models the stateful and concurrent parts of the `sigstore` Go
library: the TUF client that fetches the trust root, the OAuth flows that
obtain an identity token, the signers with their loaders and DSSE envelopes, and
the clients of key management services that sign and verify. The modules are
translated from the source under `pkg/`; what they claim is checked by TLC on small
instances. Every safety property of the runs that pass, and that the key management
clients implement an abstract get-or-create, is also proved with TLAPS, for instances
of any size; liveness is model-checked only (section 4).

    tlc -workers 2 -config TUFClientCrash.cfg MCTUFClient     # a model run
    tlapm TUFClientProofs.tla                                 # the proofs,
    tlapm InteractiveFlowProofs.tla
    tlapm DeviceFlowProofs.tla
    tlapm GCPKMSProofs.tla
    tlapm SigningProofs.tla
    tlapm KMSProofs.tla
    tlapm KMSSignatureProofs.tla

`PROJECT.json` lists components, runs, the variant of a definition that breaks
each property, the source lines of every definition, hazards and theorems.

## 1. Inventory

| Component | State it keeps | Operations | Interacts with |
|---|---|---|---|
| TUF client, `pkg/tuf/client.go` | the process singleton (`singletonTUF`, its once and sticky error, `initMu`), an in-memory metadata store, a target cache, and on disk `tuf.db`, `targets/`, `remote.json` | `NewFromEnv`, `Initialize`, `GetTarget`, `GetTargetsByMeta`, `GetRootStatus` | go-tuf, mirrors over HTTP, other processes through the cache directory |
| Fulcio roots, `pkg/fulcioroots` | two certificate pools, a once, a sticky error | `Get`, `GetIntermediates` and their `WithCertPool` forms | calls the TUF client |
| Interactive flow, `pkg/oauthflow/interactive.go`, and its second implementation, `pkg/oauth/oidc/interactive.go` | per call: state token, nonce, listener, two unbuffered channels, three kinds of goroutine | `GetIDToken`, `IDToken` | browser, identity provider, terminal |
| Device flow, `pkg/oauthflow/device.go` | the cached endpoint, the polling loop's locals | `GetIDToken`, `CodeURL` | identity provider |
| Client credentials flow, PKCE, static and default getters | none | one request, pure functions | identity provider |
| KMS registry, `pkg/signature/kms/kms.go` | a map of providers under an `RWMutex`, filled by `init` functions | `AddProvider`, `Get`, `SupportedProviders` | providers, plugin fallback |
| GCP KMS, `pkg/signature/kms/gcp` | a cache of the key version, its verifier and hash | `SignMessage`, `VerifySignature`, `PublicKey`, `CreateKey` | Cloud KMS |
| AWS KMS, `pkg/signature/kms/aws` | a cache of the public key and the metadata of a key | the same; verification locally or by the service | AWS KMS |
| Azure KMS, `pkg/signature/kms/azure` | a cache of the public key | the same | Key Vault, which keeps versions of a key |
| HashiVault KMS, `pkg/signature/kms/hashivault` | a cache of the public key, the version the client was loaded with | the same | Vault's transit engine, which keeps versions of a key |
| CLI plugin, `pkg/signature/kms/cliplugin` | none in the host; one plugin process per call | every `SignerVerifier` method as a request and a response | the plugin's process |
| Local KMS plugin, `test/cliplugin/localkms` | the key's file | `CreateKey`, `PublicKey`, `SignMessage`, `VerifySignature` | the file system, other plugin processes |
| Signers and verifiers, `pkg/signature` | keys in memory; an `RSAPSSSigner` writes to the `rsa.PSSOptions` it was given | loading by key, options, file or default; `SignMessage`, `Sign`, `VerifySignature` | Go's crypto packages |
| Algorithm registry, `pkg/signature/algorithm_registry.go` | a constant table | lookups, defaults, flags, the permitted algorithms | the loaders |
| DSSE, `pkg/signature/dsse` | none | envelopes of one or several signers, threshold verification | go-securesystemslib |
| SSH, Tink, payload, crypto utilities | none | conversions of their arguments | - |

What is hard in each of them, and what makes it correct:

* **TUF client.** Two locks (`initMu`, and the embedded mutex readers take) that
  do not cover each other; a singleton with a sticky error; updates that persist
  one metadata file at a time, first in memory and then on disk; a download loop
  that visits only targets go-tuf found updated; `os.WriteFile` on shared files,
  and processes that die in the middle. Correct means: what a caller is given is
  what the trusted repository listed, the cache directory never misleads the next
  process, trusted metadata never goes back, calls return.
* **Interactive flow.** The redirect handler, the timer, the accept loop, the
  shutdown goroutine and the caller race over unbuffered channels; redirects may
  be repeated, stale or those of another call. Correct means: a token belongs to
  this call, the browser is told of success only when its code is used, nobody
  uses a closed channel, the call returns.
* **Device flow.** Pacing by the provider's answers, and termination when the user
  never answers.
* **KMS clients.** Keys rotate in the service while a cache holds the old one;
  lookups race; several remote calls make up one operation, between which a process
  may die or another creator come first. Correct means: the version in use is recent, a
  pinned one never moves, a signature is of one key whatever rotates meanwhile,
  `CreateKey` gets or creates one key for all who share a reference.
* **Signers.** The hash function of a call comes from its options, from the loader, from
  the algorithm registry or from shared `rsa.PSSOptions`; a digest that is given is known
  by its length only. Correct means: a signature verifies with the verifier loaded
  alike, nothing made with SHA1 is signed, a call's failure has a cause in the call.
* **DSSE.** One of several signers fails after others have signed; a threshold counts keys
  and one payload. Correct means: no partial envelope, no key counted twice.
* **Fulcio roots.** An error of the first call sticks for the process.
* **CLI plugin.** A response may be an error, lack the field asked for, or not come.

The `hazards` of PROJECT.json name the lines.

## 2. Modules

### TUFClient (with MCTUFClient and TUFClientProofs)

One process at a time, its goroutines (`Threads`), the mirrors and the cache
directory. A metadata file is the repository that signed it and a version; a
target's bytes are the content its hashes identify; a file truncated by
`os.WriteFile` and not yet written is `Torn`. go-tuf is external, modelled from
how `updateClient` and `GetTarget` use it: `Update` persists each verified file at
once, refuses older versions, and returns only the targets it found updated.

| Source | Model |
|---|---|
| `NewFromEnv`, `Initialize` | `NewFromEnv`, `Initialize` start a call; `EnterBuild` (first call: `singletonTUFOnce` and `newLocalStore`, `getRoot`), `EnterBuilt`, `BuildFails`, `EnterFailed` take `initMu`; `Return` leaves it |
| the check of the local timestamp | `Golden`, `NeedUpdate` (over `UpToDate`) |
| `updateClient`, go-tuf's `Update` | `UpdateSameTimestamp`, `UpdateTimestamp`, `UpdateSnapshot`, `UpdateTargets`, `UpdateFails` |
| `syncLocalMeta` | `SyncMeta(t, k)` for one file at a time, in any order (a Go map is ranged over), `SyncFails` |
| `updateMetadataAndDownloadTargets`, `maybeDownloadRemoteTarget`, `diskCache.Set` | `SkipTarget`, `FetchTarget`, `DownloadFails`, `TruncateFile`, `WriteFile`, `SetFails`, `UpdateDone` |
| the write of `remote.json` at the end of `Initialize` | `TruncateRemote`, `WriteRemote`, `StoreFails` |
| `GetTarget` | `TargetMeta`, `TargetUnknown`, `TargetBytes`, `TargetInvalid` |
| `GetTargetsByMeta` | `NextTarget`, `TryFallbacks`, `Finish` around them |
| a crash, or the end of the process | `Restart`: all but the cache directory is lost |

### InteractiveFlow (with MCInteractiveFlow and InteractiveFlowProofs)

Both implementations of the interactive flow: they have the same structure, and
the calls in the constant `OIDC` are those of `pkg/oauth/oidc`, which close their
channels and do not ask a token for a subject. Each call's caller (`pc`), accept loop
(`serve`), server (`server`) and each request's handler (`handler`) are processes.
A send on an unbuffered channel is one step with its receive in `getCode`.
`net/http` is external: `Shutdown` closes the listener at once and returns when no
handler is active.

### DeviceFlow (with DeviceFlowProofs)

`deviceFlow`'s requests and loop, `CodeURL`'s caching, and a provider that answers
as RFC 8628 says or, at fault, in any other way. Time is in units of five seconds.

### GCPKMS (with MCGCPKMS and GCPKMSProofs)

Goroutines that share one `SignerVerifier`. A version of the key stands for its key
pair, a signature for the version that made it. `getCKV` is `Hit`, `Lookup`,
`LookupFails` and `Store`: the loader runs outside the cache's lock, so that lookups
race. `SignMessage` looks up twice (`"hash"`, then `"sign"`), `verify` once and, when
the signature does not verify and no version is pinned, a second time (`Retry`), with
readers that have been read to their end (`unread`). `createKey` is five actions, one
per answer of Cloud KMS. Versions are made, enabled and disabled by others.

### Signatures, AlgorithmRegistry and Signing (with MCSigning and SigningProofs)

`Signatures` has the schemes as operators: which hash function a call uses
(`HashFunc`, `Digestible`, `Digest` for `ComputeDigestForSigning` and
`...ForVerifying`), which calls a signer refuses, what its signature is over. A
signature stands for its scheme, key, hash function and digest; a digest for its hash
function and message. `AlgorithmRegistry` has the loaders and the registry's table.

`Signing` composes them: goroutines (`call`) use signers loaded in one of the ways of
`Loads`, the verifier being loaded alike.

| Source | Model |
|---|---|
| `LoadSigner`, `LoadSignerWithOpts`, `LoadSignerVerifierWithOpts`, `...FromPEMFileWithOpts`, `LoadDefaultSigner`, `LoadRSAPSSSigner` | `SignerOf`, by the field `by` of a load; `VerifierOf` |
| `SignMessage`, crypto.Signer's `Sign` | `StartSignMessage`, `StartSign`, then `Refuse` or `SignAlone` |
| `RSAPSSSigner.SignMessage` with options | `EnterSignPSS` stores the hash function in the options, `LeaveSignPSS` is `rsa.SignPSS` reading it |
| `wrappedSigner`, `wrappedMultiSigner` | `StartEnvelope`, `StartMultiEnvelope`; one signature a step, `Fails` drops them all |
| `wrappedVerifier`, `wrappedMultiVerifier` | `WrappedVerify`, `MultiVerify` over `AcceptedKeys` |

### KeyStore, and KMS with AWSKMS, AzureKMS, HashiVault and CLIPlugin (KMSClients, MCKMSClients, KMSProofs, KMSSignatureProofs)

`KeyStore` is the abstract specification: a reference names a key or none,
`CreateKey` gets it or creates it, administrators replace it, a caller is answered with
a key the reference names or has named, or an error.

`KMS` holds what the clients share: `kms.Get` with its plugin fallback (`Get`), the
service (`keys` made so far, the `current` one, those `named`), the cache of each client,
the life of a call (`step`), entries that expire (`Expire`), processes that die
(`Kill`), rotations by others (`Rotate`). The other modules add the steps of one client
each, and `KMSClients` composes them: a behaviour fixes the reference, its
provider, and which goroutines share a client.

| Source | Model |
|---|---|
| `aws/client.go`: `getCMK`, `fetchCMK`, `createKey`, `sign`, `verify`, `verifyRemotely` | `AWSHit`, `AWSFetchPublicKey`, `AWSFetchKeyMetadata`, `AWSStore`; `AWSNotFound`, `AWSCreateKey`, `AWSCreateAlias`, `AWSAliasExists`; `AWSRequest`, `AWSVerifies` |
| `azure/client.go`: `public`, `getKey`, `createKey`, `sign`, `verify`; `signer.go`'s conversion of signatures | `AzureHit`, `Fetch`, `AzureStore`, `AzureGetKey`, `AzureCreateKey`, `AzureRequest`; `AzureSignature`, `AzureVerifies` |
| `hashivault/client.go`: `public`, `sign`, `verify`, `createKey` | `VaultHit`, `Fetch`, `VaultStore`, `VaultSign`, `VaultVerify` (which versions they name: `SignVersion`, `VerifyVersion`; which of them Vault lets sign and verify: `SigningVersion`, `VerifyingVersions`; with which algorithm: `VaultSignature`), `VaultCreateKey`; `SetMinimum` for those who administer the key |
| `cliplugin/signer.go`: `invokePlugin`; `handler`; `encoding` | `invokePlugin`, `Dispatch`, `PackMessageOptions`, `PluginKilled` |
| `localkms/implementation.go` | `LocalRun`; `CreateKey` as `LocalStat`, `LocalLoad`, `LocalOpen`, `LocalOpenFails`, `LocalWrite`, also of a plugin that goes on when the process that started it has died |

The refinement (`Store` in `KMSClients`) maps the abstract key to `Named`, the one a lookup
is about, which a pinned version fixes and a half-written file leaves out, and the answers
to the results of `PublicKey` and `CreateKey`. Azure's `CreateKey` after a lookup that
another creator overtook makes a new version: in the abstract specification it is a
replacement of the key, counted in `rotations`; no other client's `CreateKey` may do that.

Vault's part is external, and modelled as the end-to-end tests use it and its documentation
says: a version below `min_encryption_version` does not sign and one below
`min_decryption_version` does not verify (`oldest`; `e2e_test.go:202-211` and `274-282`); an RSA
key signs with the `signature_algorithm` of the request, and a request without one means `pss`.

## 3. Runs

| Run | Bounds | What it shows |
|---|---|---|
| `tuf_crash` | one goroutine, one mirror, two releases, two targets, all I/O failing, crashes anywhere | `TypeOK`, `ResultsAuthentic`, `DiskBehindMemory`, `SyncedBeforeDownload`, `NoRollback` |
| `tuf_concurrent` | two goroutines, no cache directory, two releases, two targets, failures | `ResultsAuthentic`, `NoRollback` while reads and updates interleave; `CallsReturn` |
| `tuf_mirrors` | two mirrors that sign different targets, one release, failures and crashes | `StoredMirrorServesRoot`, and the store of one mirror never vouching for the other's files |
| `tuf_fault_free` | two goroutines, three releases, a legacy mirror name, restarts but no failures | `HandedComplete`: fetching only updated targets suffices |
| `tuf_up_to_date` (violation) | as `tuf_crash` | a failed download leaves a store that later processes take for up to date |
| `interactive` | two calls, one of each package, one port, two redirects for the first and one for the second, failures | `TypeOK`, `PageMeansCodeUsed`, `TokenBelongsToCall`, `ClosedChannelsUnused`, `FlowReturns` |
| `device` | intervals 0, 5 and 15 s, a code that lives 40 s | `TypeOK`, `PollsAsTold`, `DeviceFlowReturns` |
| `gcp` | two goroutines, two versions, three clock ticks, entries that live two, lookups that interleave with everything but outlast no tick, a pinned version or none, failures | `TypeOK`, `VersionFresh`, `PinnedCachedForever` |
| `gcp_rotation` (violation) | one goroutine, no failures | the retry after a rotation rejects a good signature |
| `signing` | two goroutines; 24 pairs of signers of RSA (2048, 4096), ECDSA (P-224, P-384) and Ed25519 keys, in every way to load them, with one, another or no PSSOptions; two messages, options with a hash function or a digest, digests of SHA1 and SHA512 | `TypeOK`, `RoundTrip`, `NoSHA1Signed`, `AloneSigns`, `DefaultPermitted`, `EnvelopeRoundTrip`, `ThresholdCountsKeys` |
| `kms` | two goroutines of one process or of two, at most three keys, AWS, Azure and Vault references with and without a pinned key, the localkms plugin; failures, lost answers, processes that die, plugins that outlive them, rotations, Vault's minimum versions set at any time, entries that expire at any time; Vault's keys are ECDSA keys | `TypeOK`, `PinnedExact`, `SignatureOfOneKey`, `RoundTrip`; `GetsOrCreates`: the clients implement `KeyStore` |
| `vault_version` (violation) | the Vault reference without a version, no failures | signing follows a rotation by default, verifying does not |

**Why the bounds suffice.** In `TUFClient` the third release of `MCTargetsVersion` only
renews the timestamp, the second changes one target's bytes and status and adds the
other: a skipped, an added and a changed target, and an update that finds nothing, all
occur. One goroutine suffices where the hazard is a crash, since the next process is
the other actor; two where it is an interleaving, since all steps of one update are
made under `initMu` by one goroutine and readers do not affect each other. What the
proofs cover needs no bound. In `InteractiveFlow` a call can only interfere with
another through a request at its port, so that two calls, with one redirect repeated
and one of the other call, show each kind of interference. In `DeviceFlow` the clock runs past
the expiry by the longest pause. In `GCPKMS` the clock allows an entry to be hit at the end of its
life, to expire, and to be hit again had it been prolonged; two versions allow one
rotation, and their different hash functions one change of algorithm. In `Signing` a call
can only disturb another through one `rsa.PSSOptions`, so that two calls suffice; a
threshold over two signers meets one key held twice, two keys, and signatures of another
payload. In `KMSClients` two callers give every race of two creators, three keys a race
followed by a rotation or two rotations during a call, and the algorithms of
`MCAlgorithms` let a rotation keep the algorithm, change it, or change the type of the key.
The last option of `awskms` gives a digest and names another hash function than the one that
made it: AWS signs by the algorithm of the key and never looks at the name, so that the
signature is good, while a verifier that goes by the name hashes differently. This is why
`SignatureOfOneKey`, and `RoundTrip` for AWS, speak of `Verifiable` options only.

**Symmetry** is used in `GCPKMS.cfg`, `Signing.cfg` and `KMSClients.cfg`, where goroutines (and
clients) are interchangeable in the specification and in its properties and no liveness is checked.

**Deadlock** checking is off in `InteractiveFlow` and `DeviceFlow`, whose calls end (and,
in the first, whose handlers may be left blocked, section 6).

**Fairness.** `TUFClient!Fairness`: a goroutine that can take a step of its own takes it
(weak fairness; Go's scheduler is preemptive), and one that waits for a mutex gets it if
the mutex is free again and again (strong fairness; `sync.Mutex` hands the lock to a
waiter it has starved for a millisecond). Requests end, with an answer or an error.
`InteractiveFlow!Fairness`: goroutines that can run do, which includes the timer of
`getCode`; the user answers the prompt of the out-of-band flow and the provider the
exchange. Requests are not fair: no redirect need arrive. `DeviceFlow!FairSpec`: the client runs, requests end, and the
clock goes on (strong fairness of `Tick`, which the client's steps disable now and then);
nothing is asked of the user.

## 4. What is proved

`TUFClientProofs` proves, for any threads, mirrors, targets, releases and catalogues that
satisfy the assumptions of `TUFClient`:

* `TypeCorrect`, `ResultsAuthenticTheorem`, `DiskBehindMemoryTheorem`,
  `SyncedBeforeDownloadTheorem`: the invariants of the runs;
* `StoredMirrorServesRootTheorem`, `NoRollbackTheorem`: the action properties.

They follow from `Invariance`: `Spec => []IInv`. None of the properties is inductive
alone; `IInv` adds what they rely on:

* `LockInv`: `initMu` is held by exactly the goroutine inside `initializeTUF`, and
  the singleton exists wherever it is used. So the steps of an update have one actor.
* `StoreInv`: what disk and memory hold relative to each other, per role, and that a
  file on disk of the trusted repository has a counterpart of it in memory. The
  first is `DiskBehindMemory`; it would break at a restart without the rest.
* `HolderInv`: what is true between two steps of an update, at each program
  point: after `UpdateTimestamp` the timestamp is the trusted repository's, while
  syncing exactly the roles in `tosync` may differ on disk, while downloading
  `disk = mem`. This is what `SyncedBeforeDownload` and `NoRollback` need of each step.
* `RemoteInv`: a goroutine about to write `remote.json` has just synced the root of that mirror.
* `ReaderInv`: every `targets.json` a reader remembers is one the store trusts or
  trusted before (`Past`), and each target found matches its own. That `Past` is
  monotone (`AdvancesStep`) is why an update between a reader's steps does no harm.

`HandedCompleteTheorem` (who was handed the singleton can get every target listed) holds when
nothing fails or crashes, `~Faults`, as in its run. It needs a second invariant, `ServedInv`, about
every process that has used the directory: the update loop visits only the targets that go-tuf found updated, so what it skips must have been
there already, and a later process has it from the files of an earlier one. `ServedInv`
says for each program point (`Phase`) of the holder of `initMu` that a store holds all of one
repository's metadata or none (`Whole`), that the target cache and the files agree but for the
one being written, that outside an update all that `targets.json` lists can be served, in memory
(`Complete`) and on disk (`Served`), and during one all but what is still `todo`.

Each conjunct has a lemma `...Step` with a case per group of actions; the assumptions used are
`ConstantsAssumption`, `RepositoryAssumption` (a repository's `targets.json` does not go back
from one release to the next) and `DistinctAssumption`.

`SigningProofs` proves, for any goroutines, messages, options, digests and finite set of
signers, loaded in any of the ways the assumption `SigningAssumption` lists, the
seven properties of `signing`. They follow from `Inv`, which says of each call what
its signatures are (`SignatureOf` of a signer that accepts its message and options), and
of a call that is inside `rsa.SignPSS` that the shared options hold its hash function unless it
was raced (`HashSet`): without that `AloneSigns` does not survive `LeaveSignPSS`. The
lemmas on the operators do the rest: a signer accepts its own signature (`SignedVerifies`),
a digest of SHA1's length fits no hash function that signs (`SignedDigest`), without options
a signature verifies for its key and message only (`VerifiedBinds`). `AcceptedAreSigners` puts
them together for envelopes: the keys that accept are those that signed the payload, and the
theorems on thresholds count them. `DefaultPermittedTheorem` compares the loaders with the
registry's table: no two rows have one name or one flag (`RowsDistinct`), so that a lookup by
either finds its row (`RowFound`); the default of a key names a row that is for this key
(`DefaultRow`), and a signer loaded by default makes its digests with the hash function of that
row, whatever the options of its loading (`DefaultDigest`). That `None` is no hash function is
needed there.

`KMSProofs` proves, under `KMSAssumption` (the values that stand for no key are different
and no integers, the plugin's references pin nothing, there is a goroutine), that
`KMSClients` implements `KeyStore` (`Implements`) and `PinnedTheorem`. The invariant says which
steps belong to which operation, whose keys are cached, loaded and answered (`Known` only), that
an alias is for a key that exists, and that a half-written file has exactly one writer (`OneWriter`):
the last is why the file's key is created once. `QuietStep` maps the steps that leave the service
alone to `Ask`, `Answer` or nothing, `NewKeyStep` those that make a key to `Create`, or for
Azure `Rotate`; `AWSCreateAlias` is `Create`, and the `CreateKey` before it is invisible.

`KMSSignatureProofs` goes on from the invariant of `KMSProofs` and proves `TypeCorrect`,
`OneKeyTheorem` and `RoundTripTheorem`. A call can look up one key, lose its cache entry, and have
another key sign, so that `SInv` says of a call about to sign no more than that its digest was made
for *some* key of the service (`CallType`), and of one that has signed that its signature is
`MadeBy` one key. Between the two is `SameDigest`: services refuse a digest of the wrong
length, no two hash functions have the same length (`SizeInjective`), hence a digest that
another key signs is the one that would have been made for that key. `OneKeyVerifies` is then about
verifiers alone, with one case for each way a provider verifies. `RoundTripTheorem` is about the
clients' own verification, with the request it sends: that it accepts what was signed as long as
the reference names the key and, in Vault, for an ECDSA key and a call that names the version, as
long as that is not below the minimum (`MinimumOK`, `MinimumKept`: no client changes it). It says
nothing of Vault's RSA keys, whose signatures are rejected (section 5), of AWS options that no
verifier takes, and of Azure signatures with an integer that starts with a zero byte (section 6).
Beyond `KMSAssumption` it needs `ServicesAssumption` (keys have a known scheme and hash function,
RSA keys of localkms and Vault are for PKCS #1 v1.5 verifiers) and
`SymbolsAssumption` (a missing value is neither a hash function nor a signature).

`GCPKMSProofs` proves the three properties of `gcp` for any number of versions and goroutines, any
life of an entry, pinned or not. `VersionFresh` is about the moment of use, and the age
adds up on the way there: `ReadOK` (what a lookup read was enabled and greatest then or later),
`EntryOK` (an entry expires before its version is too old) and `UsedOK` (so does what a hit or a
lookup hands on) are one bound at three places. `last`, which records when a version was the greatest
enabled one, only grows (`CallKept`, `EntryKept`), so that rotations by others do no harm. That a
set of enabled versions has a greatest one (`MaxOfVersions`) is proved from the well-foundedness of
the strict subsets of a finite set. It assumes `GCPAssumption`.

`InteractiveFlowProofs` proves the four safety properties of `interactive`, for any calls and
requests, at one port or several. Its `IInv` adds to them: the life of a server follows that of its
call, and its channels are closed last, when no handler is active (`ServerInv`: why nobody sends
on a closed channel); a code a call has is one of its own redirects or was typed, and goes with the
redirect URI of that way (`CodeInv`); a handler that sends a code has compared the state token
(`HandlerInv`); only an accept loop that is sending can meet a closed channel (`PanicInv`).

`DeviceFlowProofs` proves `TypeCorrect` and `PollsAsToldTheorem`. Its `LoopInv` says that a
sleeping client wakes no sooner than the last answer asks for (`Owed`), counted from that
answer. `DeviceAssumption` has the intervals natural numbers, a slow-down at least five
seconds, and a clock that runs past the expiry by the longest pause.

**Model-checked only.** The liveness properties `CallsReturn`, `FlowReturns` and
`DeviceFlowReturns`: fairness is about `ENABLED`, which is beyond the prover. And the three
disagreements of section 5, each of which is a counterexample.

## 5. Disagreements between code and comments

Shown by a run:

* `tuf/client.go:322`: a store is taken for up to date on an unexpired timestamp alone, though its
  targets may never have been downloaded (`tuf_up_to_date`).
* `gcp/client.go:389`: "key could have been rotated, clear cache and try again": the
  second try reads from readers that are at their end, and fails (`gcp_rotation`).
* `hashivault/client.go:351`: without a version, or with `VAULT_KEY_PREFIX` unset, verification
  takes version 1, and it refuses version 0 (line 340), while `options/keyversion.go:29-30`
  says of signing and verifying that 0 is the latest (`vault_version`).

Found while modelling, and without a run:

* `hashivault/client.go:370`: the request to verify names no signature algorithm, the one to sign
  asks for `pkcs1v15` (line 311). Vault's documented default for an RSA key is `pss`, so that
  `VerifySignature` rejects every RSA signature of `SignMessage`, though `signer.go:47-49` supports
  RSA keys and `signer.go:66` says "It also can verify signatures". The tests use ECDSA and Ed25519
  keys only. `VaultSign` and `VaultVerifies` model it; with RSA keys for Vault in `MCAlgorithms`, and
  without the restriction of `RoundTrip` to ECDSA keys, TLC finds the first signature rejected.
* `tuf/client.go:670`: the in-memory targets are "kept in sync" with the files, except
  after a failed write.
* `oauthflow/device.go:58`: "as specified in RFC8628", except for the duration of a slow-down and
  the default interval.
* `options/loadoptions.go:72-73`: the hash function in the `rsa.PSSOptions` "will override" that of
  `WithHash`; in `rsapss.go:99` it is the other way around, and the options are overwritten.
* `azure/signer.go`: the signature of an RSA key is cut in two and wrapped as the two integers of an
  ECDSA signature, which no RSA verifier takes (`AzureSignature`, scheme `"asn1"`).

## 6. Not modelled, and behaviour left without a property

* go-tuf's verification of signatures, root rotation and expiry of roles other
  than the timestamp: a file is what its signer and version say. `GetRootStatus` only formats.
* Two processes that run at the same time over one cache directory; the model has them one
  after the other.
* The race of the TUF client's `memoryCache` (`client.go:651`), which one goroutine may write while
  another reads it: an access is one step. What the Go runtime can make of it, a crash, is a `Restart`.
* Fulcio roots (planned), client credentials, PKCE, the HTML page.
* HTTP, terminal I/O, JSON, PEM and ASN.1 conversions; cryptography. The fake KMS is a test
  double. `pkg/cryptoutils`, `pkg/signature/payload`, `ssh` and `tink` have
  no state and no order of events to check.
* Vault's login, its Ed25519 keys and the hash function `Hash(0)`; the GCP and AWS clients'
  set-up; the parsing of references. The plugin's `DefaultAlgorithm`, `SupportedAlgorithms`
  and `CryptoSigner`.
* `kms.SupportedProviders` sizes its result by the map before it takes the lock (`kms.go:87`); providers
  only register in `init` functions, so that the model has them constant.

Behaviour of the models that no property claims anything about:

* A handler whose call has returned stays blocked on the unbuffered channel, and with it
  the shutdown goroutine. The model shows it (`Send` needs a waiting call); the code
  promises nothing else.
* A poll that never gets an answer: `http.PostForm` has no timeout, and `DeviceFlowReturns`
  assumes that requests end. Two goroutines that share a getter race for its endpoint.
* `SignMessage` in `GCPKMS` fails when the key's algorithm changes between its two lookups.
* Azure's verification does not pad the integers of a signature (`signer.go:176`), so that one in
  about 128 ECDSA signatures is rejected (`short`, which `RoundTrip` excludes); its `CreateKey` replaces
  a key that another creator has just made, which `GetsOrCreates` admits as a rotation (`Replacements`).
* AWS leaves an orphaned key when a creator dies before its alias, and a cache entry whose public key and
  metadata are of two keys when the alias moves between the two requests. A signature is still of one
  key (`SignatureOfOneKey`); a local verification may be refused until the entry expires.
* A pinned Vault client returns the public key of the latest version. The version that
  `ReturnKeyVersionUsed` stores is not in the form that `WithKeyVersion` reads.
* A localkms plugin killed in `CreateKey` leaves a file that makes every later call fail, which
  `GetsOrCreates` admits as calls that fail; as root
  it could also be overwritten, the model assumes an unprivileged user. An error response
  of a plugin with an empty message passes for a success.

## 7. Plan

In order; each with its own properties and, where named, proofs.

1. `FulcioRoots` over an abstract specification of the TUF client as its readers see it (a get of
   authentic targets that may fail), which `TUFClient` implements: what a sticky error
   means for later calls.
2. `GCPKMS`'s `createKey` as a further implementation of `KeyStore`.
3. Vault's Ed25519 keys, and two processes at once over the TUF client's directory.
