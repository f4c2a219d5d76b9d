------------------------------ MODULE KeyStore ------------------------------
(***************************************************************************)
(* What a key management service promises to the programs that share a     *)
(* reference to a key: CreateKey gets the key, or creates it where there   *)
(* is none.  The key is replaced by those who administer it, never by a    *)
(* caller of CreateKey, and a caller is told of a key that the reference   *)
(* names, or has named.                                                    *)
(***************************************************************************)
EXTENDS Naturals

CONSTANTS
    Threads,  \* callers
    Keys,
    None,     \* there is no key, or no answer yet
    Error     \* the answer of a call that failed

VARIABLES
    key,       \* the key that the reference names
    named,     \* those it has named so far
    rotations, \* how often the key was replaced
    answer     \* caller -> the answer to its CreateKey or PublicKey

Init ==
    /\ key \in Keys \cup {None} /\ named = {key} \ {None}
    /\ rotations = 0
    /\ answer = [t \in Threads |-> None]

\* The caller that changes the key may be answered with the change.
MayAnswer(t) ==
    answer' \in {answer} \cup {[answer EXCEPT ![t] = a] : a \in {key', Error}}

Create(t) ==
    /\ key = None
    /\ key' \in Keys /\ named' = named \cup {key'}
    /\ MayAnswer(t)
    /\ UNCHANGED rotations

\* By those who administer the key, or whoever else replaces it.
Rotate(t) ==
    /\ key' \in Keys /\ named' = named \cup {key'}
    /\ rotations' = rotations + 1
    /\ MayAnswer(t)

\* Callers that make their next call, or are killed.
Ask(T) ==
    /\ answer' = [t \in Threads |-> IF t \in T THEN None ELSE answer[t]]
    /\ UNCHANGED <<key, named, rotations>>

Answer(t) ==
    /\ \E k \in named \cup {Error} : answer' = [answer EXCEPT ![t] = k]
    /\ UNCHANGED <<key, named, rotations>>

Next ==
    \/ \E T \in SUBSET Threads : Ask(T)
    \/ \E t \in Threads : Create(t) \/ Rotate(t) \/ Answer(t)

Spec == Init /\ [][Next]_<<key, named, rotations, answer>>
=============================================================================
