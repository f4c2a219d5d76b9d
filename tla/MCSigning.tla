----------------------------- MODULE MCSigning -----------------------------
(* Instances of Signing for TLC.                                           *)
EXTENDS Signing, TLC

CONSTANTS t1, t2, m1, m2, o1, o2, Type

Key(type, param, id) == [type |-> type, param |-> param, id |-> id]

rsa2048 == Key(RSA, 2048, 1)
rsa4096 == Key(RSA, 4096, 2)
p384    == Key(ECDSA, "P384", 3)
p224    == Key(ECDSA, "P224", 4)
ed      == Key(ED25519, None, 5)

By(by, key, hash, ph, o) == [by |-> by, key |-> key, opts |-> LoadOptions(hash, ph, o)]

\* Pairs of signers: of one key or several, sharing PSSOptions or not.
MCLoads == {<<a, b>> : a \in {
        By("opts", rsa2048, None, FALSE, o1),
        By("default", p384, "SHA512", FALSE, None),
        By("default", ed, None, TRUE, None) },
    b \in {
        By("hash", rsa2048, "SHA256", FALSE, None),
        By("both", rsa2048, "SHA384", FALSE, o1),
        By("default", rsa4096, "SHA512", FALSE, o2),
        By("pss", rsa4096, "SHA384", FALSE, None),
        By("file", ed, None, FALSE, None),
        By("file", Error, None, FALSE, None),
        By("hash", p384, "SHA1", FALSE, None),
        By("default", p224, None, FALSE, None) }}

MCPSSOptions == [o \in {o1, o2} |-> IF o = o1 THEN NoHash ELSE "SHA384"]

MCDigest(hash, m) == [hash |-> hash, msg |-> Plain(m)]

MCCallOptions == {NoOptions,
    [digest |-> None, hash |-> "SHA512"],
    [digest |-> MCDigest("SHA256", m2), hash |-> None]}

MCDigests == {MCDigest("SHA1", m1), MCDigest("SHA512", m1)}

MCSymmetry == Permutations({t1, t2})
=============================================================================
