------------------------------ MODULE MCRouter ------------------------------
(* Small instances of the router for TLC: a BBS on the menu, a shell that  *)
(* is reached from the BBS only, and the BBS reachable from itself, so     *)
(* that handoffs nest.                                                     *)
EXTENDS Router, TLC

CONSTANTS c1, c2, c3, c4, bbs, shell

BBSRoutes == (bbs :> {bbs}) @@ (shell :> {bbs})
BBSAlone == bbs :> {bbs}
SessionSymmetry == Permutations(Sessions)
=============================================================================
