---------------------------- MODULE MCTUFClient ----------------------------
(* Small instances of TUFClient for TLC.                                   *)
EXTENDS TUFClient, TLC

CONSTANTS D, M, L, a, b, t1, t2

Symmetry == Permutations(Threads)

\* Repository D: release 2 changes target a and its status and adds b,
\* release 3 only refreshes the timestamp.  Repository M lists other bytes
\* under the same names.
MCTargetsVersion ==
    [m \in Mirrors |-> [r \in Releases |-> IF r > 2 THEN 2 ELSE r]]

E(c, s) == [content |-> c, usage |-> "fulcio", status |-> s]

MCCatalog ==
    [m \in Mirrors |-> [v \in Releases |->
        CASE m # M /\ v = 1 -> [n \in Names |-> IF n = a THEN E("a1", "Active") ELSE None]
          [] m # M /\ v > 1 -> [n \in Names |-> IF n = a THEN E("a2", "Expired")
                                                         ELSE E("b1", "Active")]
          [] OTHER          -> [n \in Names |-> E("m", "Active")]]]

MCEmbedded == [n \in Names |-> IF n = a THEN "a1" ELSE None]
=============================================================================
