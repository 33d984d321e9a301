--------------------------- MODULE MCBuildContext ---------------------------
(* An instance of BuildContext for TLC: a build of one branch, a preview of *)
(* another that is ahead of it.                                             *)
EXTENDS BuildContext, TLC

CONSTANTS b1, u1, main, dev

PreviewOnDev == (b1 :> main) @@ (u1 :> dev)
DevAhead     == (main :> {1}) @@ (dev :> {1, 2})
=============================================================================
