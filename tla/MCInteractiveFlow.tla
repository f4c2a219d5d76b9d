------------------------- MODULE MCInteractiveFlow -------------------------
(* A call of each package on one port; two redirects of the first one (the *)
(* page is reloaded) and one of the second, each of which may also reach   *)
(* the listener of the other call.                                         *)
EXTENDS InteractiveFlow, TLC

CONSTANTS f1, f2, r1, r2, r3

MCState == (r1 :> f1) @@ (r2 :> f1) @@ (r3 :> f2)
=============================================================================
