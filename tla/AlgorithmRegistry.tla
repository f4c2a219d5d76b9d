------------------------- MODULE AlgorithmRegistry -------------------------
(***************************************************************************)
(* The registry of signature algorithms (pkg/signature/                    *)
(* algorithm_registry.go) and the functions that load a signer or a        *)
(* verifier for a key (signer.go, verifier.go, signerverifier.go).         *)
(*                                                                         *)
(* A key is [type, param, id]: param is the size of an RSA key, the curve  *)
(* of an ECDSA key; a private key and its public key are one value.  The   *)
(* options of a load are [hash, ph, pss]: None where there is no WithHash  *)
(* or no WithRSAPSS, the last one of each kind where there are several.    *)
(***************************************************************************)
EXTENDS Signatures

RSA     == "rsa"
ECDSA   == "ecdsa"
ED25519 == "ed25519"

Details(known, type, hash, param, flag) ==
    [known |-> known, type |-> type, hash |-> hash, param |-> param, flag |-> flag]

supportedAlgorithms == {
    Details("RSA_PKCS1V15_2048_SHA256", RSA, "SHA256", 2048, "rsa-sign-pkcs1-2048-sha256"),
    Details("RSA_PKCS1V15_3072_SHA256", RSA, "SHA256", 3072, "rsa-sign-pkcs1-3072-sha256"),
    Details("RSA_PKCS1V15_4096_SHA256", RSA, "SHA256", 4096, "rsa-sign-pkcs1-4096-sha256"),
    Details("RSA_PSS_2048_SHA256",      RSA, "SHA256", 2048, "rsa-sign-pss-2048-sha256"),
    Details("RSA_PSS_3072_SHA256",      RSA, "SHA256", 3072, "rsa-sign-pss-3072-sha256"),
    Details("RSA_PSS_4096_SHA256",      RSA, "SHA256", 4096, "rsa-sign-pss-4092-sha256"),
    Details("ECDSA_P256_SHA_256", ECDSA, "SHA256", "P256", "ecdsa-sha2-256-nistp256"),
    Details("ECDSA_P384_SHA_384", ECDSA, "SHA384", "P384", "ecdsa-sha2-384-nistp384"),
    Details("ECDSA_P384_SHA_256", ECDSA, "SHA256", "P384", "ecdsa-sha2-256-nistp384"),
    Details("ECDSA_P521_SHA_512", ECDSA, "SHA512", "P521", "ecdsa-sha2-512-nistp521"),
    Details("ECDSA_P521_SHA_256", ECDSA, "SHA256", "P521", "ecdsa-sha2-256-nistp521"),
    Details("ED25519",    ED25519, NoHash,   None, "ed25519"),
    Details("ED25519_PH", ED25519, "SHA512", None, "ed25519-ph") }

KnownAlgorithms == {a.known : a \in supportedAlgorithms}

GetAlgorithmDetails(known) ==
    IF known \in KnownAlgorithms
    THEN CHOOSE a \in supportedAlgorithms : a.known = known
    ELSE Error

FormatSignatureAlgorithmFlag(known) ==
    IF known \in KnownAlgorithms THEN GetAlgorithmDetails(known).flag ELSE Error

ParseSignatureAlgorithmFlag(flag) ==
    IF \E a \in supportedAlgorithms : a.flag = flag
    THEN (CHOOSE a \in supportedAlgorithms : a.flag = flag).known
    ELSE Error

\* Neither an Ed25519 key nor its type tells the pure and the hashed scheme apart.
checkKey(a, key) == key.type = a.type /\ (a.type # ED25519 => key.param = a.param)

checkHash(a, hash) == a.hash = hash

\* A registry of the algorithms a service permits: none when one is unknown.
NewAlgorithmRegistryConfig(knowns) ==
    IF knowns \subseteq KnownAlgorithms THEN {GetAlgorithmDetails(k) : k \in knowns} ELSE Error

IsAlgorithmPermitted(config, key, hash) == \E a \in config : checkKey(a, key) /\ checkHash(a, hash)

DefaultOfCurve == [P256 |-> "ECDSA_P256_SHA_256", P384 |-> "ECDSA_P384_SHA_384",
                   P521 |-> "ECDSA_P521_SHA_512"]

DefaultOfPKCS1v15 == [s \in {2048, 3072, 4096} |->
    CASE s = 2048 -> "RSA_PKCS1V15_2048_SHA256"
      [] s = 3072 -> "RSA_PKCS1V15_3072_SHA256"
      [] s = 4096 -> "RSA_PKCS1V15_4096_SHA256"]

DefaultOfPSS == [s \in {2048, 3072, 4096} |->
    CASE s = 2048 -> "RSA_PSS_2048_SHA256"
      [] s = 3072 -> "RSA_PSS_3072_SHA256"
      [] s = 4096 -> "RSA_PSS_4096_SHA256"]

\* The hash option is ignored; an RSA size or a curve may have no default.
GetDefaultPublicKeyDetails(key, opts) ==
    CASE key.type = RSA /\ opts.pss = None /\ key.param \in DOMAIN DefaultOfPKCS1v15 ->
            DefaultOfPKCS1v15[key.param]
      [] key.type = RSA /\ opts.pss # None /\ key.param \in DOMAIN DefaultOfPSS ->
            DefaultOfPSS[key.param]
      [] key.type = ECDSA /\ key.param \in DOMAIN DefaultOfCurve -> DefaultOfCurve[key.param]
      [] key.type = ED25519 -> IF opts.ph THEN "ED25519_PH" ELSE "ED25519"
      [] OTHER -> Error

GetDefaultAlgorithmDetails(key, opts) ==
    IF GetDefaultPublicKeyDetails(key, opts) = Error THEN Error
    ELSE GetAlgorithmDetails(GetDefaultPublicKeyDetails(key, opts))

-----------------------------------------------------------------------------
(* Loading                                                                 *)

LoadOptions(hash, ph, pss) == [hash |-> hash, ph |-> ph, pss |-> pss]

Loaded(scheme, key, hash, pss) == [scheme |-> scheme, key |-> key, hash |-> hash, pss |-> pss]

LoadHash(opts) == IF opts.hash = None THEN "SHA256" ELSE opts.hash

LoadECDSASigner(key, hash) ==
    IF hash \in ecdsaSupportedHashFuncs THEN Loaded("ecdsa", key, hash, None) ELSE Error

LoadRSAPKCS1v15Signer(key, hash) ==
    IF hash \in rsaSupportedHashFuncs THEN Loaded("pkcs1v15", key, hash, None) ELSE Error

LoadRSAPSSSigner(key, hash, pss) ==
    IF hash \in rsaSupportedHashFuncs THEN Loaded("pss", key, hash, pss) ELSE Error

LoadED25519Signer(key)   == Loaded("ed25519", key, NoHash, None)
LoadED25519phSigner(key) == Loaded("ed25519ph", key, "SHA512", None)

LoadSignerWithOpts(key, opts) ==
    CASE key.type = RSA /\ opts.pss # None -> LoadRSAPSSSigner(key, LoadHash(opts), opts.pss)
      [] key.type = RSA /\ opts.pss = None -> LoadRSAPKCS1v15Signer(key, LoadHash(opts))
      [] key.type = ECDSA                  -> LoadECDSASigner(key, LoadHash(opts))
      [] key.type = ED25519 /\ opts.ph     -> LoadED25519phSigner(key)
      [] key.type = ED25519 /\ ~opts.ph    -> LoadED25519Signer(key)
      [] OTHER                             -> Error

\* The same over a public key.
LoadVerifierWithOpts(key, opts) == LoadSignerWithOpts(key, opts)
LoadSignerVerifierWithOpts(key, opts) ==
    IF LoadSignerWithOpts(key, opts) = Error THEN Error ELSE LoadVerifierWithOpts(key, opts)

LoadSigner(key, hash)   == LoadSignerWithOpts(key, LoadOptions(hash, FALSE, None))
LoadVerifier(key, hash) == LoadVerifierWithOpts(key, LoadOptions(hash, FALSE, None))

\* A file that cannot be read, decrypted or parsed holds Error.
LoadSignerFromPEMFileWithOpts(file, opts) ==
    IF file = Error THEN Error ELSE LoadSignerWithOpts(file, opts)
LoadVerifierFromPEMFileWithOpts(file, opts) ==
    IF file = Error THEN Error ELSE LoadVerifierWithOpts(file, opts)

\* SHA1, without the check of the hash function.
LoadUnsafeVerifier(key) ==
    CASE key.type = RSA     -> Loaded("pkcs1v15", key, "SHA1", None)
      [] key.type = ECDSA   -> Loaded("ecdsa", key, "SHA1", None)
      [] key.type = ED25519 -> LoadED25519Signer(key)
      [] OTHER              -> Error

\* Variant: the caller's hash function is kept.
KeepsHash(details, opts) == IF opts.hash = None THEN [opts EXCEPT !.hash = details.hash] ELSE opts

\* The algorithm's hash function and, of opts, what is not a hash function.
GetOptsFromAlgorithmDetails(details, opts) == [opts EXCEPT !.hash = details.hash]

LoadSignerFromAlgorithmDetails(key, details, opts) ==
    LoadSignerWithOpts(key, GetOptsFromAlgorithmDetails(details, opts))
LoadVerifierFromAlgorithmDetails(key, details, opts) ==
    LoadVerifierWithOpts(key, GetOptsFromAlgorithmDetails(details, opts))

LoadDefaultSigner(key, opts) ==
    LET details == GetDefaultAlgorithmDetails(key, opts) IN
    IF details = Error THEN Error ELSE LoadSignerFromAlgorithmDetails(key, details, opts)
LoadDefaultVerifier(key, opts) ==
    LET details == GetDefaultAlgorithmDetails(key, opts) IN
    IF details = Error THEN Error ELSE LoadVerifierFromAlgorithmDetails(key, details, opts)
=============================================================================
