---------------------------- MODULE MCKMSClients ----------------------------
(* Instances of KMSClients for TLC.                                        *)
EXTENDS KMSClients, TLC

CONSTANTS t1, t2, c1, c2

\* Two goroutines of one process, and two processes.
MCSharings == [Threads -> Clients]

MCSymmetry == Permutations({t1, t2}) \cup Permutations({c1, c2})

Reference(scheme, pin) == [scheme |-> scheme, valid |-> TRUE, pin |-> pin]

MCReferences == {
    Reference("awskms", None), Reference("awskms", 1),
    Reference("azurekms", None), Reference("azurekms", 2),
    Reference("hashivault", None), Reference("hashivault", 2),
    Reference("localkms", None),
    [scheme |-> "awskms", valid |-> FALSE, pin |-> None],
    Reference("nokms", None) }

Algorithm(scheme, hash) == [scheme |-> scheme, hash |-> hash]

VaultReferences == {Reference("hashivault", None)}

MCAlgorithms == [
    awskms     |-> <<Algorithm("ecdsa", "SHA256"), Algorithm("pss", "SHA384"), Algorithm("ecdsa", "SHA256")>>,
    azurekms   |-> <<Algorithm("pkcs1v15", "SHA256"), Algorithm("ecdsa", "SHA384"), Algorithm("ecdsa", "SHA384")>>,
    hashivault |-> [k \in Keys |-> Algorithm("ecdsa", "SHA256")],
    localkms   |-> [k \in Keys |-> Algorithm("pkcs1v15", "SHA256")] ]

MCOptions(digest, hash, version, remote) ==
    [digest |-> digest, hash |-> hash, version |-> version, remote |-> remote]

MCDigest(hash) == [hash |-> hash, msg |-> Message]

MCCallOptions == [
    awskms     |-> {NoCallOptions, MCOptions(MCDigest("SHA256"), "SHA256", None, TRUE),
                    MCOptions(MCDigest("SHA256"), "SHA512", None, FALSE)},
    azurekms   |-> {NoCallOptions, MCOptions(MCDigest("SHA384"), "SHA384", None, FALSE)},
    hashivault |-> {NoCallOptions, MCOptions(None, "SHA512", 0, FALSE), MCOptions(None, None, 1, FALSE)},
    localkms   |-> {NoCallOptions, MCOptions(None, NoHash, None, FALSE),
                    MCOptions(MCDigest("SHA512"), "SHA512", None, FALSE)} ]
=============================================================================
