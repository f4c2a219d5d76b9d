------------------------------ MODULE CLIPlugin ------------------------------
(***************************************************************************)
(* The plugin client of pkg/signature/kms/cliplugin, which runs a program  *)
(* for each call, with the plugin that the repository has as an example,   *)
(* test/cliplugin/localkms: an RSA key in a file that only its owner may   *)
(* read.  The processes of the plugin share nothing but the file, and do   *)
(* not run as root: none may open a key's file to write it again.          *)
(***************************************************************************)
EXTENDS KMS

\* What a process leaves: its exit code, -1 when it was killed or could not be run, and
\* the response, when its standard output can be parsed as one.
Killed          == [exit |-> -1, parsed |-> FALSE, response |-> None]
Panicked        == [exit |-> 2,  parsed |-> FALSE, response |-> None]
Dispatch(value) == [exit |-> 0,  parsed |-> TRUE,  response |-> [error |-> value = Error, value |-> value]]

\* A code of 1 or more alone is no error, a response that cannot be parsed is.
invokePlugin(process) ==
    IF process.exit < 0 \/ ~process.parsed \/ process.response.error THEN Error
    ELSE process.response.value

\* The options of a call in the arguments of the plugin: a digest that is not given is empty.
Empty == [hash |-> None, msg |-> None]
PackMessageOptions(opts) ==
    [digest |-> IF opts.digest = None THEN Empty ELSE opts.digest, hash |-> opts.hash]

PluginStart(t) ==
    /\ At(t, {"done"})
    /\ \/ \E o \in CallOptions["localkms"] : Set(t, NewCall("sign", "run", o, None))
       \/ \E o \in CallOptions["localkms"], s \in SignaturesAround : Set(t, NewCall("verify", "run", o, s))
       \/ Set(t, NewCall("public", "run", NoCallOptions, None))
       \/ Set(t, NewCall("create", "stat", NoCallOptions, None))
    /\ UNCHANGED <<program, service, cache>>

PluginReturns(t, process) == Set(t, Done(call[t], invokePlugin(process)))

\* The deadline of the call's context passes, or it is cancelled.
PluginKilled(t) ==
    /\ Faults /\ At(t, Requests)
    /\ PluginReturns(t, Killed)
    /\ UNCHANGED <<program, service, cache>>

-----------------------------------------------------------------------------
(* The methods of localkms                                                 *)

loadRSAPrivateKey == IF current \in Keys THEN current ELSE Error

\* A digest that is given is taken, an empty one is none.
LocalDigest(o) ==
    IF o.digest # Empty THEN o.digest ELSE [hash |-> HashFunc(HashFunction, o), msg |-> Message]

LocalSignature(k, o) ==
    RemoteSignature(k, [scheme |-> "pkcs1v15", hash |-> HashFunc(HashFunction, o)], LocalDigest(o))

\* crypto/rsa compares the length of the digest with the hash function.
LocalFits(o) == Size[LocalDigest(o).hash] = Size[HashFunc(HashFunction, o)]

LocalAnswer(c) ==
    LET k == loadRSAPrivateKey
        o == PackMessageOptions(c.opts)
    IN CASE k = Error -> Error
         [] k # Error /\ c.op = "public" -> k
         [] k # Error /\ c.op = "sign" -> IF LocalFits(o) THEN Sig(LocalSignature(k, o), FALSE) ELSE Error
         [] k # Error /\ c.op = "verify" ->
               IF LocalFits(o) /\ c.sig.value = LocalSignature(k, o) THEN Accepted ELSE Error

\* crypto.Hash(0) has no implementation to compute a digest with.
LocalPanics(c) ==
    /\ c.op \in {"sign", "verify"} /\ loadRSAPrivateKey # Error
    /\ c.opts.digest = None /\ HashFunc(HashFunction, c.opts) = NoHash

LocalRun(t) ==
    /\ At(t, {"run"})
    /\ PluginReturns(t, IF LocalPanics(call[t]) THEN Panicked ELSE Dispatch(LocalAnswer(call[t])))
    /\ UNCHANGED <<program, service, cache>>

\* CreateKey loads the key when there is a file, whatever is in it.
LocalStat(t) ==
    /\ At(t, {"stat"})
    /\ Set(t, To(call[t], IF current = None THEN "open" ELSE "load"))
    /\ UNCHANGED <<program, service, cache>>

LocalLoad(t) ==
    /\ At(t, {"load"})
    /\ PluginReturns(t, Dispatch(loadRSAPrivateKey))
    /\ UNCHANGED <<program, service, cache>>

\* Variant: the file is written with mode 0600.
OpensAny == TRUE

\* os.WriteFile with mode 0400.
LocalOpens == current = None

LocalOpen(t) ==
    /\ At(t, {"open"}) /\ LocalOpens
    /\ current' = Torn
    /\ Set(t, To(call[t], "write"))
    /\ UNCHANGED <<program, keys, named, rotated, oldest, cache>>

LocalOpenFails(t) ==
    /\ At(t, {"open"}) /\ ~LocalOpens
    /\ PluginReturns(t, Dispatch(Error))
    /\ UNCHANGED <<program, service, cache>>

\* The plugin goes on when the process that started it has died: no one reads its response.
LocalWrite(t) ==
    /\ At(t, {"write"})
    /\ NameNew
    /\ \E lost \in Losses : IF lost THEN Set(t, Idle) ELSE PluginReturns(t, Dispatch(keys + 1))
    /\ UNCHANGED <<program, rotated, oldest, cache>>

PluginNext(t) ==
    /\ Of("localkms")
    /\ \/ PluginStart(t) \/ PluginKilled(t)
       \/ LocalRun(t)
       \/ LocalStat(t) \/ LocalLoad(t) \/ LocalOpen(t) \/ LocalOpenFails(t) \/ LocalWrite(t)
=============================================================================
